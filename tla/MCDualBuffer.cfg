CONSTANTS
  Tests <- AllTests
  Block = 2
  MaxAllowed = 1
  WaitLimit = 2
  RetryLimit = 2
  Word = 4
  LastDue <- OnlyTrue
  MaxResets = 1
SPECIFICATION Spec
INVARIANTS
  CountersMatchQueue BacklogBounded InOrder NothingLeftBehind
PROPERTY ReceiverReturns
