CONSTANTS
  n1 = n1   n2 = n2   n3 = n3   n4 = n4   p1 = p1   p2 = p2   p3 = p3
  Node = {n1, n2, n3, n4}
  Proc = {p1, p2}
  home <- Apart
  Kinds <- Writers
  MaxTry = 2   MaxDelay = 0   MaxFail = 0   MaxLoss = 1   MaxCrash = 1   MaxForce = 1
  Maintain = FALSE
  LongHolds = FALSE
SPECIFICATION Spec
INVARIANTS  NoLeak
SYMMETRY Sym
CONSTRAINT OneUpset
CHECK_DEADLOCK FALSE
