CONSTANTS
  Types = {wifi, gps}
  Intervals <- HourlyOrDaily
  StorageFails = TRUE
  FirstClock = 2
  MaxClock = 3
  MaxRecords = 2
  MaxCrashes = 1
SPECIFICATION FairSpec
INVARIANTS TypeOK HandlesLive OpenFilesInWindow MovesExist
PROPERTIES RecentClosed StopEnds
