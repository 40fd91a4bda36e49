CONSTANTS
  Threads = {t1, t2, t3, t4}
  None = none
  Ids = {root, app}
  Failures = {"tkill", "setids"}
  MaxCalls = 2
SPECIFICATION FairSpec
INVARIANTS
  AllOrNothing
  DestroyableAtEnd
PROPERTIES
  ReportIsHonest
  CallEnds
