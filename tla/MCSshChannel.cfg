SPECIFICATION Spec
CONSTANTS
  WinSize = 1
  GrowBelow = 2
  MaxPkt = 1
  Chunk = 2
  MaxData <- TwoConnections
  MaxOpens = 2
  MaxBreaks = 1
  MaxBackups = 1
  BackupAnytime = FALSE
INVARIANTS
  TypeOK
  NoProtocolError
  WindowRespected
  NotStuckFrozen
PROPERTIES
  IsForwardedPipe
  EverythingSettles
CHECK_DEADLOCK FALSE
