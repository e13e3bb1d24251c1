CONSTANTS
  Rows <- MCRows
  MaxRows = 3
  MaxEdits = 4
  MaxRuns = 2
SPECIFICATION Spec
INVARIANTS
  PreviewFollowsTable
CHECK_DEADLOCK FALSE
