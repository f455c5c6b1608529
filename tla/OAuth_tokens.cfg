SPECIFICATION FairSpec
CONSTANTS
  States = {s1, s2}
  Callbacks = {b1, b2}
  Callers = {c1, c2}
  None = None
  MaxIssues = 3
INVARIANTS
  CodeIsExchangedOnce
  RefreshIsNotRepeated
PROPERTIES
  CallersGetTheLock
CHECK_DEADLOCK FALSE
