CONSTANTS
  Callers = {t1, t2}
  Retrier = t1
  Devs = {d1, d2}
  Wanted = d1
  Insts = {i1, i2, i3}
  MaxCalls = 1
  MaxFaults = 1
SPECIFICATION Spec
INVARIANTS
  RecordMatchesHost
  SuspendMirrorsWake
PROPERTIES
  StopIsIdle
  LoadRecovers
