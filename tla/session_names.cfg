SPECIFICATION Spec
CONSTANTS
  f = f
  g = g
  int1 = int1
  double1 = double1
  int2 = int2
  Name = {f, g}
  Runtime = {g}
  Anon = Anon
  Sig <- TwoSigs
  Arity <- ArityOfSig
  MaxDecls = 1
  MaxDepth = 3
  None = None
INVARIANTS CallsAgree CodeAgrees AnonRemoved
PROPERTIES LinkedStays
CHECK_DEADLOCK FALSE
