SPECIFICATION MCFairSpec
CONSTANTS
  UUIDs = {u1, u2}
  Callers = {c1}
  RootMounted = {}
  PathIn <- MCContained
  InDevice <- MCContained
  Short = {u1}
  MaxPid = 3
  MaxRetries = 2
  MaxRequests = 3
  Requests = {"start", "stop", "restart", "status", "clean"}
  Reused = {1}
  Volatile = {u1}
  None = None
CHECK_DEADLOCK FALSE
INVARIANT PidfileMatched
PROPERTIES KillsOwn OnlyStopDropsLivePidfile OperationsEnd
