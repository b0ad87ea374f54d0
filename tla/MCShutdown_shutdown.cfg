SPECIFICATION Spec
CONSTANTS
  Calls = {a, b, c}
  Exclusive = TRUE
  Failing = {"INT", "TERM", "restore"}
  MaxSignals = 2
SYMMETRY Symmetry
INVARIANTS InstalledStays AllOrNothing OnlySuccessFlips FutureSignalsFlip
CHECK_DEADLOCK FALSE
