CONSTANTS
  Threads = {t0, t1}
  Main = t0
  Foreign = foreign
  None = none
  InheritedLocks <- Forked
  InheritedCounts = {0}
  InheritedWaiters = {0, 1}
  Attrs <- AllAttrs
  Joiners = {t0}
  MaxDepth = 2
SPECIFICATION FairSpec
PROPERTIES
  InheritedIsTakenOver
