CONSTANTS
  NumSpecs = 3
  Name <- ThreadsName
  Path <- ThreadsPath
  Statuses <- ThreadsStatuses
  None = None
  Concurrency = 2
  MaxAttempts = 3
  MaxTaskRuns = 2
  Unreachable = Unreachable
  Broken = Broken
  NoAnswer = NoAnswer
SPECIFICATION FairSpec
INVARIANTS
  TypeOK
  TransientOnlyAfterLastAttempt
  CompleteSnapshots
  ExitReportsLanding
PROPERTIES
  TaskEnds
  ImplementsFetchTask
CHECK_DEADLOCK FALSE
