SPECIFICATION Spec
CONSTANTS
  MaxSends <- TwoAndOne
  MaxRequests <- OneEach
  MaxChanges = 1
INVARIANTS
  TypeOK
  KeysMatch
  NoErrorUnlessEarly
  QuietDuringExchange
  HigherInOrder
PROPERTY
  ExchangesSettle
CHECK_DEADLOCK FALSE
