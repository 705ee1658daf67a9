CONSTANTS
  BUF_SIZE = 3
  Total = 6
  Values = {0, 1, 2, 3, 4, 5}
  NoValue = NoValue
  NumChains = 2
  Length = 3
  Tasks <- SixTasks
  Workers = {w1, w2}
  None = None
  Users = {u1, u2}
  PerUser = 2
  LastTask = LastTask
  Pushers = {p1, p2}
  PerPusher = 2
  Null = Null
  Holders <- TwoHolders
  Pointers <- FourPointers
  OwnerOf <- ByName
  Objects = {o1, o2}
  First = o1
  NoObject = NoObject
  PoolWorkers = {q1, q2, q3}
  Clients = {c1, c2}
  PerClient = 2
  StopTask = StopTask
SPECIFICATION MCSpec
INVARIANTS
  MCTypesOK NoSlotRace SizeIsSafe NoTaskForgotten EnoughStopTasks
  RunsAfterPredecessor InOnePlace NoTaskOutlives CollectedInOrder
  NodesAccounted NotDeletedInUse LeaksOnlyByOverlap
PROPERTIES
  ImplementsFifo ImplementsRing ImplementsService ImplementsStack
  MCEverythingReturns
