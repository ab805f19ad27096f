SPECIFICATION Spec
CONSTANTS
  NumCells = 2
  MaxFrames = 2
  NumRoots = 1
  Linking = FALSE
  Null = Null
  Scalar = Scalar
  One = One
  None = None
PROPERTIES ImplementsAbsHeap
CHECK_DEADLOCK FALSE
