CONSTANTS
  k1 = k1
  k2 = k2
  Keys <- MCKeys
  Drops = 2
  Holds <- MCHolds
  Extents <- MCExtents
  MaxTries = 2
  Window = 1
  Configs <- RealFeed
  MaxRuns = 1
  MaxVersion = 2
  MaxFiles = 2
  MaxDay = 0
SPECIFICATION Spec
INVARIANTS
  SilverIsCurrent
CHECK_DEADLOCK FALSE
