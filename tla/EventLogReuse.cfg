SPECIFICATION Spec
CONSTANTS
  Call = {c1, c2}
  Long = {}
  MaxSize = 1
  MaxFiles = 4
  MaxLives = 2
  MaxInFlight = 1
INVARIANTS
  SeqUnique

CHECK_DEADLOCK FALSE
