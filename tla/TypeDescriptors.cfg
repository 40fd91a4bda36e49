CONSTANTS
  Threads = {t1, t2}
  Walkers = {t1}
SPECIFICATION Spec
INVARIANTS
  ReaderSeesWholeTable
PROPERTIES
  WalkEnds
