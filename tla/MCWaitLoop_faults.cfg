SPECIFICATION Spec
CONSTANTS
  Child = child
  Kin = {}
  Options <- FaultOptions
  MayFork <- NoForks
  SelectedBackend = "PosixSpawn"
  Deadline = 1
  Grace = 1
  PipeCap = 1
  StdinLen = 1
  Faults = {"spawn", "setup", "poll", "io", "reaper", "eperm", "eintr"}
INVARIANTS TypeOK ReapedWithStatus
PROPERTY KeepsContract
