SPECIFICATION PrintSpec
CONSTANTS
  Number = {0, 2}
  Known <- Given
  Identifier <- Names
  Prototype <- Functions
  MaxSize = 6
  MaxOpen = 4
  Lapses = {}
INVARIANTS TypeOK ValuesFit Generated PrintedRight
CHECK_DEADLOCK FALSE
