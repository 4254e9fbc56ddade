SPECIFICATION MCSpec
CONSTANTS
  UUIDs = {1, 2}
  Refreshes = {1, 2}
  Batches = {1, 2}
  SortColumn = 0
  MaxRows = 3
  SetUp = {1}
  MaxEvents = 2
INVARIANTS TypeOK OneRefresh BaselineTrue NoDuplicateRows
PROPERTIES RefreshLeavesSnapshot RefreshEnds StatusCatchesUp FullRefreshRepairs
