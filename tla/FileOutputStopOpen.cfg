CONSTANTS
  Types = {wifi}
  Intervals <- Daily
  StorageFails = FALSE
  FirstClock = 2
  MaxClock = 2
  MaxRecords = 2
  MaxCrashes = 0
SPECIFICATION Spec
INVARIANT StopClosesFiles
CHECK_DEADLOCK FALSE
