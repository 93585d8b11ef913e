SPECIFICATION FairSpec
CONSTANTS
  Chrome = 1
  Heights = {4, 6}
  FontMin = 2
  FontMax = 3
  FontStep = 2
  FontDefault = 3
  OffsetLimit = 2
  Page = 2
  FoldAt = 1
  MaxActs = 3
  MaxOffset = 3
INVARIANTS
  TypeOK
  StaleOnlyIfLost
  NextStartSameSize
PROPERTIES
  ScreenCatchesUp
CHECK_DEADLOCK FALSE
