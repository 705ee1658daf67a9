CONSTANTS
  Keys = {1, 2, 3}
  Hash <- MCHash
  iSize = 2
  buckets = 2
  bucket_size = 2
  tableSize = 11
  PROBE_LEN = 3
  slotCount = 11
  probes = 4
  HashedData = {1, 2}
  initSize = 1
  maxSize = 6
  HeaderSize = 1
  MinGrowth = 2
  Tags <- MCTags
  Texts <- MCTexts
  Reserves = {4, 8}
  NumParts = 5
  NumBlocks = 4
  ByteSize = 256
  CacheKeys = {1, 2, 3, 4}
  cp = 3
  null = null
  DequeValues = {1, 2}
  full = 4
  ListNodes = {1, 2, 3, 4}
  none = none
  MaxSeq = 4
  OrderIds = {1, 2}
  Prices = {1, 2}
  Sizes = {1, 2}
  NoOrder = NoOrder
  LastNumber = 5
  LastMinute = 4
  MaxLoadings = 3
  Users = {1, 2, 3}
  FeedSize = 2
  MaxTweets = 3
  MaxLeft = 1
  Guests = {g1, g2}
  People = {1, 4}
  open_time = 30
  Minutes = {0, 45, 60, 105}
  NumSlots = 8
  Stay = 2
  Reach = 2
  tables = 2
  persons_per_table = 2
  Window = 2
  LastSecond = 5
  PerSecond = 2
  Lowest = 2
  Highest = 9
  Asked = {1, 3, 4, 5, 8, 9, 10}
  LastDay = 5
  seats = 8
  MaxBookings = 6
  NumNodes = 5
  MaxSelf = 1
  N = 4
  MaxEdges = 4
  Letters = {a, b}
  MaxLetters = 2
  bits = 3
  Dot = Dot
  Components = {a, b}
  Wild = X
  MaxPath = 2
  MaxPatterns = 3
  EndPoints = {p, q}
  NoPoint = NoPoint
  Characters = {c, d}
  MaxText = 3
  MaxCommands = 4
  rows = 3
  mines = 2
  MaxMarked = 1
  Start <- MCStart
  MaxBlank = 5
  Picked = {1, 2, 3, 4}
  FlipCells = 4
  Written <- MCWritten
  Fields = {2, 3, 4, 5, 6, 7}
  MostDigits = 4
  Pushed = {0, 1, 5, 7, 8}
  MAX = 8
  Word = 32
  MaxStack = 3
  Ranges <- MCRanges
  Nested <- MCNested
  NumKeys = 5
  Stacked = {1, 2, 3}
  TopInt = 3
  MaxGiven = 5
  Ten = 2
  Group = 2
  ShortSize = 4
  Operands = {0, 1, 3, 6, 27, 228, 255}
  MaxValue = 300
  MaxDigits = 6
  Width = 6
  MaxAsked = 40
  Limits = {1, 3, 10, 20, 50}
  Entries <- MCEntries
  MaxEntries = 5
SPECIFICATION MCSpec
CHECK_DEADLOCK FALSE
INVARIANTS
  MCTablesIntact MCMemorySound MCNothingOverbooked MCFeedsExact FirstIsExact
  MCLookupsExact MCExercisesRight MCNumbersExact MCDesignsAgree
PROPERTIES
  MCStepsImplement ImplementsQueueOrNull
