CONSTANTS
  f1 = f1
  f2 = f2
  Files = {f1, f2}
  NoFile = NoFile
  Answers <- AllOutcomes
  Networks = {"none", "wifi"}
  Autos = {FALSE}
  Wifis = {FALSE}
  StorageFails = TRUE
  MaxThreads = 2
  MaxQueue = 3
  MaxStarts = 3
  MaxChanges = 2
SPECIFICATION FairSpec
INVARIANTS UploadedAccepted DestroysStarted OneUploader QueuedOnce NoneOverlooked
PROPERTY RunEnds
CHECK_DEADLOCK FALSE
