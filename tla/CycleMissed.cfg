CONSTANTS
  N = 4
  MaxEdges = 3
SPECIFICATION GraphSpec
CHECK_DEADLOCK FALSE
INVARIANT CycleIsInfinite
