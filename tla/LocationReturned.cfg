CONSTANTS
  MinPts = 3
  MaxLocations = 5
  MaxCrashes = 0
SPECIFICATION Spec
INVARIANT ReturnsCluster
CHECK_DEADLOCK FALSE
