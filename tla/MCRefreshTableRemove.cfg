SPECIFICATION MCSpec
CONSTANTS
  UUIDs = {1, 2}
  Refreshes = {1, 2}
  Batches = {1, 2}
  SortColumn = 2
  MaxRows = 3
  SetUp = {1, 2}
  MaxEvents = 3
PROPERTY RemovesOnlySelected
