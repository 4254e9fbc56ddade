SPECIFICATION MCFairSpec
CONSTANTS
  UUIDs = {u1, u2}
  Jobs = {j1, j2}
  InDevice <- MCContained
  Short = {u1}
  PoolThreads = 3
  Generations = {1, 2}
  MaxChanges = 2
  None = None
INVARIANTS TypeOK OneRefresh AutostartOnce
PROPERTIES CoalescedServed PresentStarted UnmountedLeavesQueue
