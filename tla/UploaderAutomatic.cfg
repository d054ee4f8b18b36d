CONSTANTS
  f1 = f1
  f2 = f2
  Files = {f1}
  NoFile = NoFile
  Answers <- AnyPage
  Networks = {"none", "mobile"}
  Autos = {TRUE, FALSE}
  Wifis = {TRUE, FALSE}
  StorageFails = FALSE
  MaxThreads = 2
  MaxQueue = 2
  MaxStarts = 2
  MaxChanges = 2
SPECIFICATION Spec
SYMMETRY FileSymmetry
INVARIANT NeverStranded
CHECK_DEADLOCK FALSE
