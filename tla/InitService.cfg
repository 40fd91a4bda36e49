CONSTANTS
  Pids = {p1, p2}
  None = none
  Kinds <- AllKinds
  CrashTime = 2
  CrashCount = 3
  MaxTime = 5
  MaxHoldFds = 1
  FdCounts = {1, 2}
  Failures <- NoneOrAll
SPECIFICATION FairSpec
INVARIANTS
  StrayIsKilled
  PidIsOwnChild
  CrashLoopIsNoticed
  OnDemandIsReachable
PROPERTIES
  StopOfRunningIsFinal
  KeepsRunning
