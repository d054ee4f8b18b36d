CONSTANTS
  MinPts = 3
  MaxLocations = 5
  MaxCrashes = 1
SPECIFICATION Spec
INVARIANTS TypeOK ClustersNeverSplit ChangesMeet ReturnedIsCluster TablesAgree CachedListsCurrent EachCountsOnce
CHECK_DEADLOCK FALSE
