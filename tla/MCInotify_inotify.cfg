SPECIFICATION Spec
CONSTANTS
  Base = 2
  BufLen = 6
  Paths = {p}
  Names <- ShortNames
  FromUtf8Lossy <- Replaced
  MaxQueue = 2
  MaxEvents = 4
  MayFail = TRUE
INVARIANTS TruncationIgnored NoSilentLoss EdgeKept
PROPERTIES Delivered
CHECK_DEADLOCK FALSE
