---------------------------- MODULE MCStructures -----------------------------
(***************************************************************************)
(* The data structures and algorithms that one thread uses at a time.      *)
(* They share nothing but the keys and hash values of the hash tables.  A  *)
(* behaviour is a behaviour of one of them, chosen by "structure", while   *)
(* the others stay where they start.                                       *)
(***************************************************************************)
EXTENDS MCParts, RequestCounter, GraphPaths, Forests,
        Games, Iterators, DigitNumbers, Arithmetic

VARIABLE structure

varsTables ==
  <<chainedVars, bucketVars, probingVars, hashSetVars, hashMapVars>>
varsMemory ==
  <<dynVars, storageVars, chunkVars, cacheVars, circularVars, listVars>>
varsFeeds ==
  <<atomicVars, feedVars, lineVars, newsVars>>
varsBooks ==
  <<scheduleVars, counterVars, phoneVars, calendarVars, seating,
    loadings>>
varsGraphs ==
  <<unionVars, graphVars, wordVars, numberVars, dispatchVars>>
varsGames ==
  <<boardVars, gameVars, pickVars, flipVars, machineVars, editorVars>>
varsIterators ==
  <<rangeVars, nestedVars, treeVars, stackVars>>
varsArithmetic ==
  <<largeVars, number, input, written>>

mcVars ==
  <<structure, varsTables, varsMemory, varsFeeds, varsBooks, varsGraphs,
    varsGames, varsIterators, varsArithmetic>>

Structures ==
  {"chained", "bucket", "probing", "hash set", "hash map", "messages",
   "storage", "chunk", "cache", "deque", "list", "sets", "tiers", "lines",
   "news", "schedule", "counter", "phones", "calendar", "room", "docks",
   "union", "graph", "words", "bits", "dispatch", "mines", "game",
   "picks", "flips", "machine", "editor", "ranges", "nested", "trees",
   "stacks", "large", "numbers", "sequences", "text"}

-----------------------------------------------------------------------------
MCTags == {<<>>, <<"type">>}
MCTexts == {<<>>, <<"a">>, <<"b", "b">>}

(* Lists of at most three ranges of at most two elements each; nested      *)
(* lists three deep of at most two entries.                                *)
MCRanges == UNION {[1 .. n -> 0 .. 2] : n \in 0 .. 3}
Single == [isInt |-> TRUE, list |-> <<>>]
ListsOf(E) == [isInt : {FALSE}, list : UNION {[1 .. n -> E] : n \in 0 .. 2}]
MCNested == ListsOf({Single} \cup ListsOf({Single} \cup ListsOf({Single})))

(* The board of a test with two cells left for either side, a board with   *)
(* seven blank cells, and a full one.                                      *)
BoardOf(x, o) == [s \in 0 .. 8 |-> IF s \in x THEN "X" ELSE IF s \in o THEN "O" ELSE " "]
FullBoard == BoardOf({0, 2, 3, 7, 8}, {1, 4, 5, 6})
MCStart == {BoardOf({7, 8}, {4, 6}), BoardOf({0}, {5}), FullBoard}

(* Two mines, but for rotations and reflections of the board, which turn   *)
(* every behaviour into one of the board they give.                        *)
MCBombs ==
  {{<<0, 0>>, p} : p \in {<<0, 1>>, <<0, 2>>, <<1, 1>>, <<1, 2>>, <<2, 2>>}} \cup
  {{<<0, 1>>, p} : p \in {<<1, 0>>, <<1, 1>>, <<2, 1>>}}

MCWritten == {-1000, -99, -7, 0, 5, 9, 10, 99, 100, 101, 999, 1000, 12345}
MCEntries == {-2, -1, 1, 2}

-----------------------------------------------------------------------------
(* Where one of them may start in several states, the others' behaviours   *)
(* know only one.                                                          *)
Fixed(name, start_) == structure = name \/ start_

MCInit ==
  /\ structure \in Structures
  /\ ChainedInit /\ BucketInit /\ ProbingInit /\ SetInit /\ MapInit
  /\ DynInit /\ StorageInit /\ ChunkInit /\ CacheInit /\ CircularInit /\ ListInit
  /\ AtomicInit /\ FeedInit /\ LinesInit /\ NewsInit
  /\ ScheduleInit /\ CounterInit /\ PhoneInit /\ CalendarInit /\ RoomInit /\ DocksInit
  /\ UnionInit /\ GraphInit /\ TrieInit /\ DispatchInit
  /\ PicksInit /\ FlipInit /\ MachineInit /\ EditorInit
  /\ NumberInit /\ AlgorithmInit /\ TextInit
  /\ BoardInit /\ bomb \in IF structure = "mines" THEN MCBombs ELSE {{<<0, 0>>, <<0, 1>>}}
  /\ GameInit /\ Fixed("game", board = FullBoard /\ turn = "X")
  /\ RangesInit /\ Fixed("ranges", ranges = <<>>)
  /\ IF structure = "nested" THEN NestedInit
     ELSE nested = [isInt |-> FALSE, list |-> <<>>] /\ stack = <<>> /\ ints = <<>>
  /\ TreesInit /\ Fixed("trees", tree.root = 0)
  /\ StackInit /\ Fixed("stacks", class = "min")
  /\ LargeInit /\ Fixed("large", num = 0)


(* One step of the structure called name; its neighbours stay. *)
Only(name, step, others) == structure = name /\ step /\ UNCHANGED others

TablesMove ==
  \/ Only("chained", ChainedNext, <<bucketVars, probingVars, hashSetVars,
          hashMapVars>>)
  \/ Only("bucket", BucketNext, <<chainedVars, probingVars, hashSetVars,
          hashMapVars>>)
  \/ Only("probing", ProbingNext, <<chainedVars, bucketVars, hashSetVars,
          hashMapVars>>)
  \/ Only("hash set", SetNext, <<chainedVars, bucketVars, probingVars,
          hashMapVars>>)
  \/ Only("hash map", MapNext, <<chainedVars, bucketVars, probingVars,
          hashSetVars>>)

MemoryMove ==
  \/ Only("messages", DynNext, <<storageVars, chunkVars, cacheVars,
          circularVars, listVars>>)
  \/ Only("storage", StorageNext, <<dynVars, chunkVars, cacheVars,
          circularVars, listVars>>)
  \/ Only("chunk", ChunkNext, <<dynVars, storageVars, cacheVars, circularVars,
          listVars>>)
  \/ Only("cache", CacheNext, <<dynVars, storageVars, chunkVars, circularVars,
          listVars>>)
  \/ Only("deque", CircularNext, <<dynVars, storageVars, chunkVars, cacheVars,
          listVars>>)
  \/ Only("list", ListNext, <<dynVars, storageVars, chunkVars, cacheVars,
          circularVars>>)

FeedsMove ==
  \/ Only("sets", AtomicNext, <<feedVars, lineVars, newsVars>>)
  \/ Only("tiers", FeedNext, <<atomicVars, lineVars, newsVars>>)
  \/ Only("lines", LinesMove, <<atomicVars, feedVars, newsVars>>)
  \/ Only("news", NewsNext, <<atomicVars, feedVars, lineVars>>)

BooksMove ==
  \/ Only("schedule", ScheduleNext, <<counterVars, phoneVars, calendarVars,
          seating, loadings>>)
  \/ Only("counter", CounterNext, <<scheduleVars, phoneVars, calendarVars,
          seating, loadings>>)
  \/ Only("phones", PhoneNext, <<scheduleVars, counterVars, calendarVars,
          seating, loadings>>)
  \/ Only("calendar", CalendarNext, <<scheduleVars, counterVars, phoneVars,
          seating, loadings>>)
  \/ Only("room", RoomNext, <<scheduleVars, counterVars, phoneVars,
          calendarVars, loadings>>)
  \/ Only("docks", DocksMove, <<scheduleVars, counterVars, phoneVars,
          calendarVars, seating>>)

GraphsMove ==
  \/ Only("union", UnionNext, <<graphVars, wordVars, numberVars,
          dispatchVars>>)
  \/ Only("graph", GraphNext, <<unionVars, wordVars, numberVars,
          dispatchVars>>)
  \/ Only("words", WordsMove, <<unionVars, graphVars, numberVars,
          dispatchVars>>)
  \/ Only("bits", NumbersMove, <<unionVars, graphVars, wordVars,
          dispatchVars>>)
  \/ Only("dispatch", DispatchNext, <<unionVars, graphVars, wordVars,
          numberVars>>)

GamesMove ==
  \/ Only("mines", BoardNext, <<gameVars, pickVars, flipVars, machineVars,
          editorVars>>)
  \/ Only("game", GameNext, <<boardVars, pickVars, flipVars, machineVars,
          editorVars>>)
  \/ Only("picks", PicksNext, <<boardVars, gameVars, flipVars, machineVars,
          editorVars>>)
  \/ Only("flips", FlipNext, <<boardVars, gameVars, pickVars, machineVars,
          editorVars>>)
  \/ Only("machine", MachineNext, <<boardVars, gameVars, pickVars, flipVars,
          editorVars>>)
  \/ Only("editor", EditorNext, <<boardVars, gameVars, pickVars, flipVars,
          machineVars>>)

IteratorsMove ==
  \/ Only("ranges", RangesMove, <<nestedVars, treeVars, stackVars>>)
  \/ Only("nested", NestedMove, <<rangeVars, treeVars, stackVars>>)
  \/ Only("trees", TreesMove, <<rangeVars, nestedVars, stackVars>>)
  \/ Only("stacks", StackNext, <<rangeVars, nestedVars, treeVars>>)

ArithmeticMove ==
  \/ Only("large", LargeNext, <<number, input, written>>)
  \/ Only("numbers", NumberNext, <<largeVars, input, written>>)
  \/ Only("sequences", AlgorithmNext, <<largeVars, number, written>>)
  \/ Only("text", TextNext, <<largeVars, number, input>>)

MCNext ==
  /\ UNCHANGED structure
  /\ \/ TablesMove /\ UNCHANGED <<varsMemory, varsFeeds, varsBooks,
                varsGraphs, varsGames, varsIterators, varsArithmetic>>
     \/ MemoryMove /\ UNCHANGED <<varsTables, varsFeeds, varsBooks,
                varsGraphs, varsGames, varsIterators, varsArithmetic>>
     \/ FeedsMove /\ UNCHANGED <<varsTables, varsMemory, varsBooks,
                varsGraphs, varsGames, varsIterators, varsArithmetic>>
     \/ BooksMove /\ UNCHANGED <<varsTables, varsMemory, varsFeeds,
                varsGraphs, varsGames, varsIterators, varsArithmetic>>
     \/ GraphsMove /\ UNCHANGED <<varsTables, varsMemory, varsFeeds,
                varsBooks, varsGames, varsIterators, varsArithmetic>>
     \/ GamesMove /\ UNCHANGED <<varsTables, varsMemory, varsFeeds,
                varsBooks, varsGraphs, varsIterators, varsArithmetic>>
     \/ IteratorsMove /\ UNCHANGED <<varsTables, varsMemory, varsFeeds,
                varsBooks, varsGraphs, varsGames, varsArithmetic>>
     \/ ArithmeticMove /\ UNCHANGED <<varsTables, varsMemory, varsFeeds,
                varsBooks, varsGraphs, varsGames, varsIterators>>

MCSpec == MCInit /\ [][MCNext]_mcVars

(* What each kind of structure must keep, as the conjunction of what its   *)
(* members must.  Parts that take long to evaluate are asked of the        *)
(* behaviours they are about.                                              *)

(* Paths are counted, classes united and patterns found as their           *)
(* definitions say (Graph.h, UnionFind.h, trie.h, FourSquare.cpp,          *)
(* HackerRank.cpp).                                                        *)
MCLookupsExact ==
  /\ SamePartition /\ CountersTell /\ Shallow
  /\ FindsWhatWasPut /\ FindsLargestXor /\ FindsBestPattern /\ UndoRestores
  /\ structure = "graph" => CountIsExact

(* Games are won when they should be and the move proposed is the best;    *)
(* iterators visit everything in turn; a feed shows the newest, the most   *)
(* frequent and the spans are what they are said to be, and no day is      *)
(* booked three times (MineSweeper.cpp, TicTacToe.cpp, Iterator.cpp,       *)
(* designIterator.cpp, designHeap.cpp, stack.cpp, leetcodecpp.cpp).        *)
MCExercisesRight ==
  /\ WonMeansCleared /\ BlanksAreCleared /\ ProposesBest
  /\ RangesInTurn /\ NestedInTurn /\ TreeInTurn
  /\ ShowsNewest /\ TakesMostFrequent /\ SpanCounts /\ NeverTripleBooked

(* Arithmetic of any number of digits, and at the edge of the word, is     *)
(* exact (large_int.h, mathlib.h, mathlib_primes.h, myalgo.h,              *)
(* Digits-Helper.h, jumpTrading.cpp).                                      *)
MCNumbersExact ==
  /\ StandsForNumber /\ PhiCountsCoprimes /\ MulModIsExact /\ NoPrimeRejected
  /\ PeriodIsLeast /\ PalindromesComplete /\ ExceedingCounted
  /\ LargestSum /\ RunsCounted /\ ReversesWhatCounts
  /\ FieldShowsNumber /\ ToldIsExact
  /\ structure = "large" => FastIsProduct
=============================================================================
