CONSTANTS
  Threads = {t1, t2, t3}
  None = none
  Ids = {root, app}
  Failures = {}
  MaxCalls = 1
SPECIFICATION Spec
INVARIANT ReleasedTogether
