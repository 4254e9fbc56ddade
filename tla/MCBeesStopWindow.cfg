SPECIFICATION MCSpec
CONSTANTS
  UUIDs = {u1}
  Callers = {c1}
  RootMounted = {}
  PathIn <- MCContained
  InDevice <- MCContained
  Short = {}
  MaxPid = 3
  MaxRetries = 2
  MaxRequests = 3
  Requests = {"start", "stop"}
  Reused = {}
  Volatile = {}
  None = None
CHECK_DEADLOCK FALSE
PROPERTY StopEndsDaemon
