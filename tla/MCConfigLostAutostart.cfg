SPECIFICATION AutostartSpec
CONSTANTS
  UUIDs <- MCUUIDs
  Callers = {c1, c2}
  Algorithms = {"zstd", "lzo"}
  Levels <- MCLevels
  Paths <- MCPaths
  InText <- MCInText
  InDevice <- MCInDevice
  PseudoAt = "/proc"
  NoFs = NoFs
  Requests <- MCRequests
  Subjects <- MCTwoSubjects
INVARIANTS AddedStays
