SPECIFICATION Spec
CONSTANTS
  RingCap = 3
  MaxEvents = 3
  MaxConns = 1
INVARIANTS
  NoLoss
CHECK_DEADLOCK FALSE
