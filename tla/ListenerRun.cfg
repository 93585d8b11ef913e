SPECIFICATION FairSpec
CONSTANTS
  Sock = {s1, s2, s3}
  None = None
  AllowNull = FALSE
  MaxSignals = 2
INVARIANTS
  LiveIsRegistered
  ClosingRegisteredWasRefused
  ClientFollowsRegistry
PROPERTIES
  SilentClosed
  ShutdownStallsOnlyByHello
CHECK_DEADLOCK FALSE
