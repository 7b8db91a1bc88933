SPECIFICATION Spec
CONSTANTS
  Contents <- MCContents
  Instants <- MCInstants
  AppFov <- MCAppFov
  MaxMonths = 420
  None = None
INVARIANT
  TimestampCounts
  
