CONSTANTS
  BatchSize = 1
  MaxBatches = 2
  MaxRecent = 2
  MaxRuns = 2
  MaxDrops = 1
  MaxTick = 2
  TicksPerDay = 1
  Window = 1
SPECIFICATION Spec
INVARIANTS
  TypeOK
  AckedEventsReachSilver
  DuplicatesShow
  EventsCountedOnce
PROPERTIES
  SilverIsScdType1
CHECK_DEADLOCK FALSE
