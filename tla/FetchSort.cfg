CONSTANTS
  NumSpecs = 3
  Name <- ThreadsName
  Path <- ThreadsPath
  Statuses <- ThreadsStatuses
  None = None
  Concurrency = 2
  MaxAttempts = 2
  MaxTaskRuns = 2
  Unreachable = Unreachable
  Broken = Broken
  NoAnswer = NoAnswer
SPECIFICATION FairSpec
PROPERTIES
  RaisesOnlyWhenAllFailed
CHECK_DEADLOCK FALSE
