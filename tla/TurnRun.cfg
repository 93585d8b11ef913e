SPECIFICATION FairSpec
CONSTANTS
  MaxRuns = 2
  MaxEvents = 1
  MaxSends = 2
  MaxAborts = 1
  MaxConns = 2
INVARIANTS
  StatusTracksRun
  EventAfterRunning
  ShownUnlessMissed
PROPERTIES
  AbortEndsIdle
CHECK_DEADLOCK FALSE
