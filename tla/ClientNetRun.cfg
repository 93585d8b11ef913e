SPECIFICATION FairSpec
CONSTANTS
  Cap = 1
  UiCap = 1
  MaxOut = 2
  MaxIn = 2
  MaxConns = 2
INVARIANTS
  InOrder
  FailedOnlyWhenTold
PROPERTIES
  KeptWhileConnected
  SilenceNoticedUnlessWedged
  HandshakeWaitsOnlyForServer
  WindowGoesOn
CHECK_DEADLOCK FALSE
