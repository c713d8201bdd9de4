CONSTANTS
  n1 = n1   n2 = n2   n3 = n3   n4 = n4   p1 = p1   p2 = p2   p3 = p3
  Node = {n1, n2, n3, n4}
  Proc = {p1, p2, p3}
  home <- PairAndOne
  Kinds <- Mixed
  MaxTry = 1   MaxDelay = 1   MaxFail = 1   MaxLoss = 1   MaxCrash = 0   MaxForce = 0
  Maintain = TRUE
  LongHolds = FALSE
SPECIFICATION Spec
INVARIANTS ReadWriteExclusion NoPanic 
PROPERTY ImplementsRWLock
SYMMETRY Sym
CONSTRAINT OneTrouble
CHECK_DEADLOCK FALSE
