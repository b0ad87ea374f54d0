SPECIFICATION Spec
CONSTANTS
  MaxFd = 10
  Backends = {"PosixSpawn", "Fork"}
  StdSets <- AnyStd
  MayFail = TRUE
  MaxOther = 1
INVARIANTS TypeOK StdioConnected OnlyStdio ParentKeepsItsEnds
