SPECIFICATION Spec
CONSTANTS
  Token = {"x", "0", "5", "1.", "def", "extern", "binary", "unary", "if", "then",
           "else", "for", "in", "var", "type", "(", ")", "[", "]", ",", ";", ":", ".", "=",
           "-", ">", "*"}
  Cost <- TokenCost
  MaxCost = 15
  Odd = 6
  MaxDefinitions = 1
  Definable = {">"}
INVARIANTS TypeOK TreesRight WholeExpression
PROPERTIES LineEnds
CHECK_DEADLOCK FALSE
