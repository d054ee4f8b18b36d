CONSTANTS
  ModelSets <- ThreeSets
  MaxStarts = 1
  MaxPackets = 1
SPECIFICATION Spec
INVARIANT Exclusive
CHECK_DEADLOCK FALSE
