SPECIFICATION Spec
CONSTANTS
  Limit = 2
  ReadChunk = 2
  DropChunk = 1
  WriteChunk = 2
  PipeCap = 2
  StdinLen = 3
  MaxOut = 3
  MayFail = TRUE
INVARIANTS CapturedPrefix DoneMeansTaken EarlyExitSeesAll StdinInOrder
PROPERTIES Captures DoneWhenClosed
