SPECIFICATION MCFairSpec
CONSTANTS
  UUIDs = {u1}
  Jobs = {j1, j2}
  InDevice <- MCContained
  Short = {}
  PoolThreads = 3
  Generations = {1, 2}
  MaxChanges = 3
  None = None
PROPERTY RequestsServed
