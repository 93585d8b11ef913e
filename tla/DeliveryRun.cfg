SPECIFICATION FairSpec
CONSTANTS
  RingCap = 1
  MaxEvents = 2
  MaxConns = 3
INVARIANTS
  BatchComplete
  LossHasCause
  NeverAheadOfLog
PROPERTIES
  EventArrives
CHECK_DEADLOCK FALSE
