SPECIFICATION Spec
CONSTANTS
  MaxRetry = 2
  MaxSockets = 2
  MaxClicks = 1
  MaxQueue = 2
INVARIANTS RetryBounded SocketsAccounted SomeoneWillWake
PROPERTY WaitEndsUnlessEarly
CHECK_DEADLOCK FALSE
