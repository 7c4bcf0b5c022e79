SPECIFICATION Spec
CONSTANTS
  MaxRetry = 1
  MaxSockets = 1
  MaxClicks = 1
  MaxQueue = 1
PROPERTY WaitEnds
CHECK_DEADLOCK FALSE
