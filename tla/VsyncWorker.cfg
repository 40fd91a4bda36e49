CONSTANTS
  Callers = {c1, c2}
  Callbacks = {k1, k2}
  NoCallback = none
  MaxLate = 2
SPECIFICATION FairSpec
INVARIANT AtMostOneLate
PROPERTIES QuietAfterDestroy DestructorEnds
