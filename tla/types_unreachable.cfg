SPECIFICATION Spec
CONSTANTS
  Number = {0, 1, 2}
  Known <- Given
  Identifier <- Names
  Prototype <- Functions
  MaxSize = 4
  MaxOpen = 3
  Lapses = {"pointer element"}
INVARIANTS Unreachable
CHECK_DEADLOCK FALSE
