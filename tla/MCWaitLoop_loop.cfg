SPECIFICATION Spec
CONSTANTS
  Child = child
  Kin = {kin1, kin2}
  Options <- LoopOptions
  MayFork <- LoopForks
  SelectedBackend = "PosixSpawn"
  Deadline = 1
  Grace = 1
  PipeCap = 2
  StdinLen = 3
  Faults = {}
INVARIANTS CancelContract KilledIsReported KillReachesChild NoSpuriousError NoLostWakeup NoMutualWait CompleteIo KillReachesGroup
PROPERTIES DeadlineObeyed TimeoutKills KillEndsRun ReturnsWhenDone
