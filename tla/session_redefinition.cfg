SPECIFICATION Spec
CONSTANTS
  f = f
  g = g
  int1 = int1
  double1 = double1
  int2 = int2
  Name = {f}
  Runtime = {}
  Anon = Anon
  Sig <- ThreeSigs
  Arity <- ArityOfSig
  MaxDecls = 1
  MaxDepth = 3
  None = None
INVARIANTS RedefinitionRefused
CHECK_DEADLOCK FALSE
