SPECIFICATION Spec
CONSTANTS
  WinSize = 1
  GrowBelow = 2
  MaxPkt = 1
  Chunk = 2
  MaxData <- OneConnection
  MaxOpens = 1
  MaxBreaks = 0
  MaxBackups = 1
  BackupAnytime = TRUE
INVARIANT
  NothingLost
CHECK_DEADLOCK FALSE
