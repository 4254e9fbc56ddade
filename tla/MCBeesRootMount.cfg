SPECIFICATION MCSpec
CONSTANTS
  UUIDs = {u1, u2}
  Callers = {c1}
  RootMounted = {u1}
  PathIn <- MCContained
  InDevice <- MCContained
  Short = {}
  MaxPid = 3
  MaxRetries = 2
  MaxRequests = 2
  Requests = {"start", "status"}
  Reused = {}
  Volatile = {}
  None = None
CHECK_DEADLOCK FALSE
INVARIANT PidfileOwn
