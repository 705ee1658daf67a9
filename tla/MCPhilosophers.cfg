CONSTANTS
  N = 3
  Pending = 1
SPECIFICATION Spec
INVARIANT OneHolderBeforeMeal
PROPERTIES EveryoneEats TeardownEnds
