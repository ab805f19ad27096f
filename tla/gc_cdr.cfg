SPECIFICATION Spec
CONSTANTS
  NumCells = 2
  MaxFrames = 1
  NumRoots = 2
  Linking = TRUE
  Null = Null
  Scalar = Scalar
  One = One
  None = None
INVARIANTS LiveMarked
CHECK_DEADLOCK FALSE
