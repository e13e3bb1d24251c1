CONSTANTS
  r1 = r1
  r2 = r2
  NumSpecs = 2
  Name <- SnapshotsName
  Path <- SnapshotsPath
  Statuses <- PagesStatuses
  Unreachable = Unreachable
  Broken = Broken
  None = None
  Records <- MCRecords
  Keyless = {}
  Places <- SnapshotsPlaces
  Nowhere = Nowhere
  Shape = "records"
  Window = 0
  Garbage = FALSE
  Unasked = Unasked
  NotJson = NotJson
  MaxVersion = 3
  MaxRuns = 2
  MaxDay = 0
SPECIFICATION Spec
INVARIANTS
  SilverNeverBehindLanding
CHECK_DEADLOCK FALSE
