CONSTANTS
  Getters = {g1, g2}
  InitItems = 1
  MaxItems = 2
  WaitLimit = 1
  NoItem = NoItem
SPECIFICATION SharedSpec
INVARIANT ItemsExclusive
CHECK_DEADLOCK FALSE
