SPECIFICATION Spec
CONSTANTS
  Child = child
  Kin = {}
  Options <- IsolatedOptions
  MayFork <- NoForks
  SelectedBackend = "PosixSpawn"
  Deadline = 1
  Grace = 1
  PipeCap = 1
  StdinLen = 0
  Faults = {}
INVARIANT KillReachesChild
