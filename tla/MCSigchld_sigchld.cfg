SPECIFICATION Spec
CONSTANTS
  Children = {c, d, e}
  MaxSetups = 3
  MayFail = TRUE
INVARIANTS OneSignalfd NoExitUnseen
PROPERTIES ExitsNoticed
CHECK_DEADLOCK FALSE
