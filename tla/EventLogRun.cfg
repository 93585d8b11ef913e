SPECIFICATION FairSpec
CONSTANTS
  Call = {c1, c2, c3, c4}
  Long = {c4}
  MaxSize = 2
  MaxFiles = 6
  MaxLives = 2
  MaxInFlight = 3
INVARIANTS
  FanoutDurable
  SeqUniqueUnlessStale
  OnlyOpenerLate
PROPERTIES
  LogKept
  OlderFilesFrozen
  AppendSettles
CHECK_DEADLOCK FALSE
