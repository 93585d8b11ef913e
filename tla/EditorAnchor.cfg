SPECIFICATION LineSpec
CONSTANTS
  Narrow = {a}
  Wide = {e}
  Double = {w}
  Blank = {sp}
  None = None
  MaxBytes = 3
  Cols = {36}
INVARIANTS
  AnchorOnBoundary
CHECK_DEADLOCK FALSE
