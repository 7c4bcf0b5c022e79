SPECIFICATION Spec
CONSTANTS
  MaxCards = 4
  MaxTimers = 3
INVARIANTS TypeOK OneMoveAtATime TableShowsHands PlayCanGoOn
CHECK_DEADLOCK FALSE
