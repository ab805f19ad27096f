SPECIFICATION FairSpec
CONSTANTS
  NumCells = 2
  MaxFrames = 2
  NumRoots = 1
  Linking = TRUE
  Null = Null
  Scalar = Scalar
  One = One
  None = None
INVARIANTS HeapInv DepthBound
PROPERTIES CollectionEnds
CHECK_DEADLOCK FALSE
