SPECIFICATION MCSpec
CONSTANTS
  UUIDs = {u1}
  Callers = {c1, c2}
  RootMounted = {}
  PathIn <- MCContained
  InDevice <- MCContained
  Short = {}
  MaxPid = 4
  MaxRetries = 2
  MaxRequests = 2
  Requests = {"start"}
  Reused = {}
  Volatile = {}
  None = None
CHECK_DEADLOCK FALSE
INVARIANT AtMostOneWorker
