SPECIFICATION Spec
CONSTANTS
  f = f
  g = g
  int1 = int1
  double1 = double1
  int2 = int2
  Name = {f}
  Runtime = {}
  Anon = Anon
  Sig <- ThreeSigs
  Arity <- ArityOfSig
  MaxDecls = 2
  MaxDepth = 5
  None = None
INVARIANTS TypeOK TablesAgree CallsAgree CodeAgrees AnonRemoved WellFormedCode
CHECK_DEADLOCK FALSE
