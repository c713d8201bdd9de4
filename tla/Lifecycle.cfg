SPECIFICATION LifecycleSpec
CONSTANTS
  s1 = s1   s2 = s2
  Server = {s1, s2}
  N = 4
  host <- Hosts
  Fragile = {1}
  MaxCrash = 1   MaxSwap = 1   MaxHeal = 1
  Listener = {l1, l2}
  Conn = {c1}
  Maintainer = {m}
  Restarter = {"r"}
CONSTRAINT OneAtATime
INVARIANT OrdersAgree
PROPERTY PlacesKept
PROPERTY EveryoneStarts
PROPERTY ToldThenExits
CHECK_DEADLOCK FALSE
