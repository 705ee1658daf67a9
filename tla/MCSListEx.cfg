CONSTANTS
  Getters = {p1}
  Consumers = {c1, c2}
  InitItems = 1
  MaxItems = 2
  WaitLimit = 2
  NoItem = NoItem
  Total = 4
  MaxClears = 1
SPECIFICATION SListSpec
INVARIANTS ItemInOnePlace SizeMatches
PROPERTIES ReadsInOrder NothingStuck
CHECK_DEADLOCK FALSE
