CONSTANTS
  Pids = {p1, p2, p3}
  Nweb = nweb
  None = none
  Conns = {c1}
  MaxReq = 2
  MaxCrash = 2
  Prefork = TRUE
  Failures <- Families
SPECIFICATION FairSpec
INVARIANTS
  ChildrenAreKnown
  KnownAreChildren
  AnsweredOnce
PROPERTIES
  RestartIsEarned
  RequestIsAnswered
