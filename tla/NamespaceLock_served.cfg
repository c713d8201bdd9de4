SPECIFICATION FairSpec
CONSTANTS
  Proc = {p1, p2, p3}
  Param = {x}
  Mutex = {m1, m2}
  NoMutex = NoMutex
  MaxForce = 1
INVARIANTS Exclusion NoFatal
PROPERTY StopsWaiting
CHECK_DEADLOCK FALSE
