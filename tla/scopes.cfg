SPECIFICATION Spec
CONSTANTS
  x = x
  y = y
  Name = {x, y}
  Function = {y}
  MaxDepth = 4
  MaxAlloca = 3
  None = None
INVARIANTS TypeOK SameVariable NoLeakedName RootedPointers
CHECK_DEADLOCK FALSE
