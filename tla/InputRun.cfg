SPECIFICATION LineSpec
CONSTANTS
  Narrow = {a}
  Wide = {e}
  Double = {w}
  Blank = {sp}
  None = None
  MaxBytes = 3
  Cols = {34,36}
INVARIANTS
  CursorOnBoundary
  AnchorLostOnlyForward
  WordsMet
  TtyGivenBack
  LineShown
  StripsFit
PROPERTIES
  TextOnly
CHECK_DEADLOCK FALSE
