SPECIFICATION FairSpec
CONSTANTS
  Cap = 1
  UiCap = 1
  MaxOut = 2
  MaxIn = 2
  MaxConns = 1
PROPERTIES
  SilenceNoticed
CHECK_DEADLOCK FALSE
