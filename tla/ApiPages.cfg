CONSTANTS
  r1 = r1
  r2 = r2
  NumSpecs = 2
  Name <- PagesName
  Path <- PagesPath
  Statuses <- PagesStatuses
  Unreachable = Unreachable
  Broken = Broken
  None = None
  Records <- MCRecords
  Keyless <- PagesKeyless
  Places <- PagesPlaces
  Nowhere = Nowhere
  Shape = "records"
  Window = 1
  Garbage = FALSE
  Unasked = Unasked
  NotJson = NotJson
  MaxVersion = 2
  MaxRuns = 2
  MaxDay = 1
SPECIFICATION Spec
INVARIANTS
  TypeOK
  LandedRowsReachBronzeOnce
  SilverIsLatestAnswer
  KeysCountedOnce
CHECK_DEADLOCK FALSE
