CONSTANTS
  k1 = k1
  k2 = k2
  Keys <- MCKeys
  Drops = 2
  Holds <- MCHolds
  Extents <- MCExtents
  MaxTries = 2
  Window = 1
  Configs <- AllConfigs
  MaxRuns = 2
  MaxVersion = 2
  MaxFiles = 2
  MaxDay = 1
SPECIFICATION Spec
INVARIANTS
  TypeOK
  FilesReadOnce
  DemoShowsTheLastDrops
  RowsCountedOnce
  HealthAccountsForEveryFile
PROPERTIES
  SilverIsScdType1
CHECK_DEADLOCK FALSE
