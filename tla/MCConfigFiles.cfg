SPECIFICATION MCSpec
CONSTANTS
  UUIDs <- MCUUIDs
  Callers = {c1}
  Algorithms = {"zstd", "lzo"}
  Levels <- MCLevels
  Paths <- MCPaths
  InText <- MCInText
  InDevice <- MCInDevice
  PseudoAt = "/proc"
  NoFs = NoFs
  Requests <- MCRequests
  Subjects <- MCSubjects
INVARIANTS TypeOK LastSettingRead SettingsInBounds RunningIsTrue GoodTakesEffect
PROPERTIES ImplementsConfigSet OperationsEnd
