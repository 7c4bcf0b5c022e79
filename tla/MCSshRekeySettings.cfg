SPECIFICATION Spec
CONSTANTS
  MaxSends <- OneEach
  MaxRequests <- OneEach
  MaxChanges = 1
CHECK_DEADLOCK FALSE
PROPERTY SettingsInForce
