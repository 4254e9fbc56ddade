SPECIFICATION MCSpec
CONSTANTS
  Calls = {c1, c2}
  Wrapper <- MCWrapper
  Readers = {c1}
  PoolThreads = 1
  None = None
  MaxDeaths = 2
INVARIANTS TypeOK SuccessIsReal NotLost
PROPERTIES ImplementsBusCalls CallsEnd PoolDrains StartEnds
CHECK_DEADLOCK FALSE
