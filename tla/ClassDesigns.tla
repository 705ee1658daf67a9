---------------------------- MODULE ClassDesigns ----------------------------
(***************************************************************************)
(* Exercises that ask for a class: sets and maps by hashing, random choice, *)
(* classes made of stacks, a news feed.                                    *)
(***************************************************************************)
EXTENDS Hashing, Integers, Sequences, FiniteSets, SequencesExt, Functions,
        FiniteSetsExt

-----------------------------------------------------------------------------
(***************************************************************************)
(* MyHashSet and MyHashMap of src/leetcode/designHash.cpp: open addressing *)
(* with quadratic probing.  An insertion that finds no slot on its path    *)
(* fails an assertion, so it is no step of either.                         *)
(***************************************************************************)

CONSTANTS
  slotCount,   (* bucket_size, 20003 in the code                           *)
  probes,      (* PROBE_LEN, 140                                           *)
  HashedData   (* the values of the map                                    *)

(* "value will always be non-negative" (designHash.cpp:107)                *)
ASSUME HashDesignAssumption ==
  slotCount \in Nat \ {0} /\ probes \in Nat /\ HashedData \subseteq Nat

VARIABLES
  setSlots, mapSlots,  (* pElements of either                              *)
  members, mapped      (* what they stand for                              *)

hashSetVars == <<setSlots, members>>
hashMapVars == <<mapSlots, mapped>>

SlotIndexes == 0 .. slotCount - 1
Empty == <<>>
Gone == <<0, 0, 0>>
Path(k) == [i \in 1 .. probes |-> (Hash[k] + (i - 1) * (i - 1)) % slotCount]

(* The first place of k's path that is one of stops, or 0. *)
FirstStop(k, stops) ==
  LET at == {i \in 1 .. probes : Path(k)[i] \in stops}
  IN IF at = {} THEN 0 ELSE CHOOSE i \in at : \A j \in at : i <= j
-----------------------------------------------------------------------------
(* A slot of the set is Empty, Gone (a tomb) or <<key>>.                    *)
SetInit == setSlots = [s \in SlotIndexes |-> Empty] /\ members = {}

SetPlace(k) == FirstStop(k, {s \in SlotIndexes : setSlots[s] \in {Empty, <<k>>}})
SetContains(k) == SetPlace(k) # 0 /\ setSlots[Path(k)[SetPlace(k)]] = <<k>>

SetAdd(k) ==
  /\ SetPlace(k) # 0
  /\ setSlots' = [setSlots EXCEPT ![Path(k)[SetPlace(k)]] = <<k>>]
  /\ members' = members \cup {k}

SetRemove(k) ==
  /\ members' = members \ {k}
  /\ setSlots' = [s \in SlotIndexes |-> IF SetContains(k) /\ s = Path(k)[SetPlace(k)]
                                  THEN Gone ELSE setSlots[s]]

SetNext == \E k \in Keys : SetAdd(k) \/ SetRemove(k)

SetSpec == SetInit /\ [][SetNext]_hashSetVars
-----------------------------------------------------------------------------
(* A slot of the map is Empty, Gone (its hash is UINT32_MAX and its key 0, *)
(* which no key matches) or <<key, value>>.                                *)
MapInit == mapSlots = [s \in SlotIndexes |-> Empty] /\ mapped = [k \in {} |-> 0]

HoldsKey(s, k) == mapSlots[s] \in {<<k, d>> : d \in HashedData}
MapPlace(k) == FirstStop(k, {s \in SlotIndexes : mapSlots[s] = Empty \/ HoldsKey(s, k)})
MapGet(k) ==
  IF MapPlace(k) # 0 /\ HoldsKey(Path(k)[MapPlace(k)], k)
  THEN mapSlots[Path(k)[MapPlace(k)]][2] ELSE -1

MapPut(k, d) ==
  /\ MapPlace(k) # 0
  /\ mapSlots' = [mapSlots EXCEPT ![Path(k)[MapPlace(k)]] = <<k, d>>]
  /\ mapped' = [x \in DOMAIN mapped \cup {k} |-> IF x = k THEN d ELSE mapped[x]]

MapRemove(k) ==
  /\ mapped' = [x \in DOMAIN mapped \ {k} |-> mapped[x]]
  /\ mapSlots' = [s \in SlotIndexes |-> IF MapGet(k) # -1 /\ s = Path(k)[MapPlace(k)]
                                  THEN Gone ELSE mapSlots[s]]

MapNext == \E k \in Keys : MapRemove(k) \/ \E d \in HashedData : MapPut(k, d)

MapSpec == MapInit /\ [][MapNext]_hashMapVars
-----------------------------------------------------------------------------
(* contains tells what was added and not removed, whatever was added to or *)
(* removed from the same path (designHash.cpp:18-63).                      *)
SetTellsMembers == \A k \in Keys : SetContains(k) = (k \in members)

(* get returns the value put last and not removed (designHash.cpp:89-143). *)
MapTellsValues ==
  \A k \in Keys : MapGet(k) = IF k \in DOMAIN mapped THEN mapped[k] ELSE -1

-----------------------------------------------------------------------------
(***************************************************************************)
(* RandomizedSet and FlipMatrix of src/leetcode/Random.cpp.  What the      *)
(* generator gives is any number of its range.                             *)
(***************************************************************************)

CONSTANTS
  Picked,    (* the values of the set                                      *)
  FlipCells  (* rows * cols of the matrix; a cell is its index             *)

ASSUME PickAssumption == FlipCells \in Nat

VARIABLES
  indexMap, valueMap,    (* of RandomizedSet: positions count from 1       *)
  matrix, total, flipped (* of FlipMatrix, and the cells flip gave         *)

pickVars == <<indexMap, valueMap>>
flipVars == <<matrix, total, flipped>>

PicksInit == indexMap = <<>> /\ valueMap = [v \in {} |-> 0]

InsertValue(v) ==
  /\ v \notin DOMAIN valueMap
  /\ valueMap' = [x \in DOMAIN valueMap \cup {v} |->
                    IF x = v THEN Cardinality(DOMAIN valueMap) + 1 ELSE valueMap[x]]
  /\ indexMap' = Append(indexMap, v)

(* Mutant: the value moved to the free position keeps its old index. *)
RemoveValueKeeps(v) ==
  LET last == Last(indexMap)
  IN /\ v \in DOMAIN valueMap
     /\ indexMap' = Front([indexMap EXCEPT ![valueMap[v]] = last])
     /\ valueMap' = Restrict(valueMap, DOMAIN valueMap \ {v})

RemoveValue(v) ==
  LET last == Last(indexMap)
  IN /\ v \in DOMAIN valueMap
     /\ indexMap' = Front([indexMap EXCEPT ![valueMap[v]] = last])
     /\ valueMap' = Restrict([valueMap EXCEPT ![last] = valueMap[v]], DOMAIN valueMap \ {v})

PicksNext == \E v \in Picked : InsertValue(v) \/ RemoveValue(v)

PicksSpec == PicksInit /\ [][PicksNext]_pickVars
-----------------------------------------------------------------------------
FlipInit == matrix = [i \in {} |-> 0] /\ total = FlipCells /\ flipped = {}

(* map_get_or_default(matrix, i, i) *)
MappedTo(i) == IF i \in DOMAIN matrix THEN matrix[i] ELSE i

(* flip: "assume flip is not called unless there is 0" *)
Flip ==
  /\ total > 0 /\ total' = total - 1
  /\ \E r \in 0 .. total - 1 :
       /\ flipped' = flipped \cup {MappedTo(r)}
       /\ matrix' = IF r = total' THEN matrix
                    ELSE [i \in DOMAIN matrix \cup {r} |->
                            IF i = r THEN MappedTo(total') ELSE matrix[i]]

ResetMatrix == total' = FlipCells /\ matrix' = [i \in {} |-> 0] /\ flipped' = {}

FlipNext == Flip \/ ResetMatrix

FlipSpec == FlipInit /\ [][FlipNext]_flipVars
-----------------------------------------------------------------------------
(* Every value of the set is at one position, the one its entry names:     *)
(* getRandom gives each with the same chance (Random.cpp:278-308).         *)
IndexesAgree ==
  /\ Len(indexMap) = Cardinality(DOMAIN valueMap)
  /\ \A v \in DOMAIN valueMap : valueMap[v] \in DOMAIN indexMap /\ indexMap[valueMap[v]] = v

(* The positions flip chooses from stand for the cells not flipped, one    *)
(* each: no cell is flipped twice and every one has the same chance        *)
(* (Random.cpp:183-198).                                                   *)
FlipsEveryCellOnce ==
  /\ Cardinality(flipped) = FlipCells - total
  /\ {MappedTo(i) : i \in 0 .. total - 1} = (0 .. FlipCells - 1) \ flipped

-----------------------------------------------------------------------------
(***************************************************************************)
(* The classes of src/leetcode/stack.cpp that build something else out of  *)
(* stacks: MinStack, MyQueue, FreqStack and StockSpanner.  The last item   *)
(* of a stack is its top.  A behaviour uses one class; "given" holds what  *)
(* was pushed and not popped, in the order it was pushed.  pop and peek    *)
(* are called on a class that holds something.                             *)
(***************************************************************************)

CONSTANTS
  Stacked,   (* what is pushed                                             *)
  TopInt,    (* INT32_MAX                                                  *)
  MaxGiven   (* bounds what is held, and the prices                        *)

ASSUME StackAssumption ==
  TopInt \in Nat /\ Stacked \subseteq 0 .. TopInt /\ MaxGiven \in Nat

VARIABLES
  class,
  given,
  minStack, min_val,      (* MinStack: its stack and min_val               *)
  stack_push, stack_pop,  (* MyQueue                                       *)
  freq, freq_stack,       (* FreqStack: the stacks of frequencies 1, 2, .. *)
  prices_stack, span      (* StockSpanner, and what next returned          *)

stackVars == <<class, given, minStack, min_val, stack_push, stack_pop, freq,
               freq_stack, prices_stack, span>>

StackInit ==
  /\ class \in {"min", "queue", "freq", "span"}
  /\ given = <<>>
  /\ minStack = <<>> /\ min_val = TopInt
  /\ stack_push = <<>> /\ stack_pop = <<>>
  /\ freq = [x \in Stacked |-> 0] /\ freq_stack = <<>>
  /\ prices_stack = <<>> /\ span = 0

Give(x) == Len(given) < MaxGiven /\ given' = Append(given, x)
-----------------------------------------------------------------------------
MinPush(x) ==
  /\ Give(x)
  /\ minStack' = minStack \o (IF x <= min_val THEN <<min_val, x>> ELSE <<x>>)
  /\ min_val' = Min({x, min_val})

MinPop ==
  LET rest == Front(minStack)
  IN /\ given # <<>> /\ given' = Front(given)
     /\ IF Last(minStack) = min_val
        THEN min_val' = Last(rest) /\ minStack' = Front(rest)
        ELSE minStack' = rest /\ UNCHANGED min_val
-----------------------------------------------------------------------------
(* The stacks after transfer_stack. *)
Transferred ==
  IF stack_pop = <<>> THEN [pop |-> Reverse(stack_push), push |-> <<>>]
  ELSE [pop |-> stack_pop, push |-> stack_push]

QueuePush(x) == Give(x) /\ stack_push' = Append(stack_push, x) /\ UNCHANGED stack_pop

QueuePop ==
  /\ given # <<>> /\ given' = Tail(given)
  /\ stack_push' = Transferred.push /\ stack_pop' = Front(Transferred.pop)

QueuePeek ==
  /\ given # <<>> /\ UNCHANGED given
  /\ stack_push' = Transferred.push /\ stack_pop' = Transferred.pop
-----------------------------------------------------------------------------
FreqPush(x) ==
  /\ Give(x)
  /\ freq' = [freq EXCEPT ![x] = @ + 1]
  /\ freq_stack' = IF freq'[x] > Len(freq_stack) THEN Append(freq_stack, <<x>>)
                   ELSE [freq_stack EXCEPT ![freq'[x]] = Append(@, x)]

(* What pop takes, and its last place among what was given. *)
MostFrequent == Last(Last(freq_stack))
LastPlace(x) == Max({i \in DOMAIN given : given[i] = x})

FreqPop ==
  /\ given # <<>> /\ given' = RemoveAt(given, LastPlace(MostFrequent))
  /\ freq' = [freq EXCEPT ![MostFrequent] = @ - 1]
  /\ freq_stack' = Front(freq_stack) \o SelectSeq(<<Front(Last(freq_stack))>>, LAMBDA s : s # <<>>)
-----------------------------------------------------------------------------
(* The prices on the stack that are above this one stay. *)
Staying(price) == SelectSeq(prices_stack, LAMBDA p : p[1] > price)

(* The count the loop arrives at: each price taken off adds its own. *)
SpanOf(price) ==
  FoldSeq(LAMBDA p, sum : sum + p[2], 1,
          SubSeq(prices_stack, Len(Staying(price)) + 1, Len(prices_stack)))

NextPrice(price) ==
  /\ Give(price)
  /\ span' = SpanOf(price)
  /\ prices_stack' = Append(Staying(price), <<price, SpanOf(price)>>)
-----------------------------------------------------------------------------
StackNext ==
  /\ UNCHANGED class
  /\ \/ /\ class = "min"
        /\ (\E x \in Stacked : MinPush(x)) \/ MinPop
        /\ UNCHANGED <<stack_push, stack_pop, freq, freq_stack, prices_stack, span>>
     \/ /\ class = "queue"
        /\ (\E x \in Stacked : QueuePush(x)) \/ QueuePop \/ QueuePeek
        /\ UNCHANGED <<minStack, min_val, freq, freq_stack, prices_stack, span>>
     \/ /\ class = "freq"
        /\ (\E x \in Stacked : FreqPush(x)) \/ FreqPop
        /\ UNCHANGED <<minStack, min_val, stack_push, stack_pop, prices_stack, span>>
     \/ /\ class = "span"
        /\ \E x \in Stacked : NextPrice(x)
        /\ UNCHANGED <<minStack, min_val, stack_push, stack_pop, freq, freq_stack>>

StackSpec == StackInit /\ [][StackNext]_stackVars
-----------------------------------------------------------------------------
(* getMin is the smallest number pushed and not popped, however often it   *)
(* was pushed and the largest int among them (stack.cpp:849-867).          *)
MinIsSmallest ==
  class = "min" =>
    /\ min_val = Min(ToSet(given) \cup {TopInt})
    /\ given # <<>> => Last(minStack) = Last(given)

(* The two stacks hold the queue in order (stack.cpp:889-917).             *)
QueueInOrder ==
  class = "queue" => Reverse(stack_pop) \o stack_push = given

(* pop takes the number pushed most often, and of several the one pushed   *)
(* last (stack.cpp:993-1010).                                              *)
TakesMostFrequent ==
  class = "freq" /\ given # <<>> =>
    LET times(x) == Len(SelectSeq(given, LAMBDA y : y = x))
        most == {x \in Stacked : \A y \in Stacked : times(y) <= times(x)}
    IN MostFrequent = given[Max({i \in DOMAIN given : given[i] \in most})]

(* next returns for how many days up to this one the price was not higher  *)
(* than this one's (stack.cpp:965-979).                                    *)
SpanCounts ==
  class = "span" /\ given # <<>> =>
    span = Len(given) - Max({0} \cup {i \in DOMAIN given : given[i] > Last(given)})

-----------------------------------------------------------------------------
(***************************************************************************)
(* Twitter of src/leetcode/designHeap.cpp: tweets and who follows whom,    *)
(* and the newest tweets a user is shown, merged from those of the users   *)
(* they follow through a heap.  A tweet is its seq.                        *)
(***************************************************************************)

CONSTANTS
  Users,
  FeedSize,  (* 10 in the code                                             *)
  MaxTweets  (* bounds the tweets                                          *)

ASSUME NewsAssumption == FeedSize \in Nat \ {0} /\ MaxTweets \in Nat

VARIABLES allTweets, followees, gid

newsVars == <<allTweets, followees, gid>>

NewsInit ==
  /\ allTweets = [u \in Users |-> <<>>]
  /\ followees = [u \in Users |-> {}]
  /\ gid = 0

PostTweet(u) ==
  /\ gid < MaxTweets
  /\ gid' = gid + 1
  /\ allTweets' = [allTweets EXCEPT ![u] = Append(@, gid + 1)]
  /\ followees' = [followees EXCEPT ![u] = @ \cup {u}]

Follow(u, v) ==
  /\ u # v
  /\ followees' = [followees EXCEPT ![u] = @ \cup {v}]
  /\ UNCHANGED <<allTweets, gid>>

Unfollow(u, v) ==
  /\ u # v
  /\ followees' = [followees EXCEPT ![u] = @ \ {v}]
  /\ UNCHANGED <<allTweets, gid>>

NewsNext ==
  \E u, v \in Users : PostTweet(u) \/ Follow(u, v) \/ Unfollow(u, v)

NewsSpec == NewsInit /\ [][NewsNext]_newsVars
-----------------------------------------------------------------------------
(* The heap after the iterator t, a sequence of tweets of which the last   *)
(* is next, gave one out.                                                  *)
Advance(heap, t) ==
  IF Len(t) > 1 THEN (heap \ {t}) \cup {Front(t)} ELSE heap \ {t}

(* getNewsFeed: the heap and the answer after at most n turns of the loop *)
FromHeap(started) ==
  LET turn[n \in 0 .. FeedSize] ==
        IF n = 0 THEN [heap |-> started, ans |-> <<>>]
        ELSE LET now == turn[n - 1]
                 t == CHOOSE x \in now.heap : \A y \in now.heap : Last(y) <= Last(x)
             IN IF now.heap = {} THEN now
                ELSE [heap |-> Advance(now.heap, t), ans |-> Append(now.ans, Last(t))]
  IN turn[FeedSize].ans

GetNewsFeed(u) == FromHeap({allTweets[f] : f \in followees[u]} \ {<<>>})
-----------------------------------------------------------------------------
(* A feed shows the newest tweets of the user and those they follow, the   *)
(* newest first and FeedSize of them if there are so many                  *)
(* (designHeap.cpp:44-69).                                                 *)
ShowsNewest ==
  \A u \in Users :
    LET all == UNION {ToSet(allTweets[f]) : f \in followees[u] \cup {u}}
        shown == ToSet(GetNewsFeed(u))
    IN /\ Cardinality(shown) = Min({FeedSize, Cardinality(all)})
       /\ shown \subseteq all
       /\ \A t \in all \ shown, s \in shown : t < s
       /\ GetNewsFeed(u) = SetToSortSeq(shown, >)
=============================================================================
