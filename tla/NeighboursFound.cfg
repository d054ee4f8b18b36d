CONSTANTS
  Dim = 2
  Lowest = 0
  Highest = 16
  PointArrays <- Arrays
  Queries <- Asked
  Algorithms = {1, 2, 3}
  NumNeighbours = 2
  MatchSteps = 2
  Printed <- Rounded
SPECIFICATION Spec
INVARIANTS TypeOK NoTrivialLeaf Separated Nearest RowsExist Different
CHECK_DEADLOCK FALSE
