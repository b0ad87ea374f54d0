SPECIFICATION Spec
CONSTANTS
  Calls = {a, b}
  Exclusive = FALSE
  Failing = {"TERM"}
  MaxSignals = 0
INVARIANT InstalledStays
CHECK_DEADLOCK FALSE
