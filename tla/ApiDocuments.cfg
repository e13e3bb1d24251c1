CONSTANTS
  r1 = r1
  r2 = r2
  NumSpecs = 2
  Name <- SnapshotsName
  Path <- SnapshotsPath
  Statuses <- DocumentsStatuses
  Unreachable = Unreachable
  Broken = Broken
  None = None
  Records <- MCRecords
  Keyless = {}
  Places <- DocumentsPlaces
  Nowhere = Nowhere
  Shape = "document"
  Window = 1
  Garbage = TRUE
  Unasked = Unasked
  NotJson = NotJson
  MaxVersion = 1
  MaxRuns = 2
  MaxDay = 2
SPECIFICATION Spec
INVARIANTS
  HealthAccountsForEveryCall
  KeysCountedOnce
CHECK_DEADLOCK FALSE
