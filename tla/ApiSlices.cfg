CONSTANTS
  r1 = r1
  r2 = r2
  NumSpecs = 2
  Name <- SnapshotsName
  Path <- SlicesPath
  Statuses <- PagesStatuses
  Unreachable = Unreachable
  Broken = Broken
  None = None
  Records <- MCRecords
  Keyless = {}
  Places <- DocumentsPlaces
  Nowhere = Nowhere
  Shape = "document"
  Window = 1
  Garbage = FALSE
  Unasked = Unasked
  NotJson = NotJson
  MaxVersion = 1
  MaxRuns = 1
  MaxDay = 0
SPECIFICATION Spec
INVARIANTS
  EveryDocumentKept
CHECK_DEADLOCK FALSE
