SPECIFICATION Spec
CONSTANTS
  Cell = {c1, c2, c3}
  Null = Null
  Scalar = Scalar
  None = None
  MaxOpen = 3
  MaxRoots = 2
  MaxFrames = 2
  MaxArgs = 1
  Lapses = {}
VIEW WithoutGarbage
SYMMETRY CellSymmetry
INVARIANTS TypeOK NothingLost ListsEnd
CHECK_DEADLOCK FALSE
