SPECIFICATION Spec
CONSTANTS
  NumCells = 3
  MaxFrames = 2
  NumRoots = 1
  Linking = FALSE
  Null = Null
  Scalar = Scalar
  One = One
  None = None
INVARIANTS TypeOK FreeListOK MarksClear LiveMarked NoDangling OomMeansFull
PROPERTIES NoDoubleHandout
CHECK_DEADLOCK FALSE
