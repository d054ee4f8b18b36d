CONSTANTS
  ModelSets <- ThreeSets
  MaxStarts = 2
  MaxPackets = 4
SPECIFICATION Spec
CONSTRAINT UpToTheFirstRestlessStart
INVARIANTS TypeOK SafeIndices WindowIsLatest
CHECK_DEADLOCK FALSE
