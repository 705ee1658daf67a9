-------------------------------- MODULE Feeds -------------------------------
(***************************************************************************)
(* What is made of messages as they come: sets completed by three streams, *)
(* the order tiers of a price feed, two lines of numbers merged, and the   *)
(* docks a list of loadings needs.                                         *)
(***************************************************************************)
EXTENDS Integers, Sequences, FiniteSets, SequencesExt, FiniteSetsExt

-----------------------------------------------------------------------------
(***************************************************************************)
(* AtomicSet and AtomicSet2 (src/cpp11/atomic_set.cpp): two ways to find   *)
(* the sequence numbers that arrived on all three streams of a category,   *)
(* fed with the same messages as the test does.  One category: send_atomic *)
(* touches the state of no other.  The numbers of a stream rise, so that a *)
(* queue is the set of its numbers and its front the smallest of them.     *)
(***************************************************************************)

CONSTANT MaxSeq      (* bound: the last sequence number                    *)

ASSUME AtomicAssumption == MaxSeq \in Nat

VARIABLES
  sent,              (* history: what arrived on each stream               *)
  data,              (* AtomicSet: data1, data2, data3                     *)
  msg_seq_count,     (* AtomicSet: messages with each number, 0 if erased  *)
  atomic_set,        (* AtomicSet: the numbers found                       *)
  fronts,            (* AtomicSet2: its data1, data2, data3                *)
  atomic_set2        (* AtomicSet2: the numbers found                      *)

atomicVars == <<sent, data, msg_seq_count, atomic_set, fronts, atomic_set2>>

Streams == 1 .. 3
SeqIds == 1 .. MaxSeq

AtomicInit ==
  /\ sent = [s \in Streams |-> {}]
  /\ data = [s \in Streams |-> {}]
  /\ msg_seq_count = [n \in SeqIds |-> 0]
  /\ atomic_set = <<>>
  /\ fronts = [s \in Streams |-> {}]
  /\ atomic_set2 = <<>>
-----------------------------------------------------------------------------
(* AtomicSet::send_atomic *)
SendAtomic(pending, seq_id) ==
  IF msg_seq_count[seq_id] + 1 < 3
    THEN /\ msg_seq_count' = [msg_seq_count EXCEPT ![seq_id] = @ + 1]
         /\ data' = pending
         /\ UNCHANGED atomic_set
    ELSE /\ msg_seq_count' = [msg_seq_count EXCEPT ![seq_id] = 0]
         /\ data' = [s \in Streams |-> {n \in pending[s] : n > seq_id}]
         /\ atomic_set' = Append(atomic_set, seq_id)

(* One round of AtomicSet2::send_atomic: every queue up to the largest     *)
(* front is dropped, and three equal fronts are a set.  With a queue that  *)
(* is empty the loop is over.                                              *)
Round(w) ==
  IF \E s \in Streams : w.queues[s] = {} THEN w
  ELSE LET largest == Max({Min(w.queues[s]) : s \in Streams})
           rest == [s \in Streams |-> {n \in w.queues[s] : n >= largest}]
       IN IF \A s \in Streams : rest[s] # {} /\ Min(rest[s]) = largest
            THEN [queues |-> [s \in Streams |-> rest[s] \ {largest}],
                  found |-> Append(w.found, largest)]
            ELSE [queues |-> rest, found |-> w.found]

(* All its rounds; each drops a number at least. *)
Merge(queues, found) ==
  LET w[k \in 0 .. 3 * MaxSeq] ==
        IF k = 0 THEN [queues |-> queues, found |-> found] ELSE Round(w[k - 1])
  IN w[3 * MaxSeq]

(* add_meesage, on both: the numbers of a stream rise, with gaps *)
AddMessage(s, n) ==
  /\ \A m \in sent[s] : m < n
  /\ sent' = [sent EXCEPT ![s] = @ \cup {n}]
  /\ SendAtomic([data EXCEPT ![s] = @ \cup {n}], n)
  /\ LET merged == Merge([fronts EXCEPT ![s] = @ \cup {n}], atomic_set2)
     IN fronts' = merged.queues /\ atomic_set2' = merged.found

AtomicNext == \E s \in Streams, n \in SeqIds : AddMessage(s, n)

(* Every stream has come to its last number. *)
AtomicDone == (\A s \in Streams : MaxSeq \in sent[s]) /\ UNCHANGED atomicVars

AtomicSpec == AtomicInit /\ [][AtomicNext \/ AtomicDone]_atomicVars
-----------------------------------------------------------------------------
(* seq is the numbers of the set, once and in order *)
ListsInOrder(seq, set) ==
  ToSet(seq) = set /\ \A i, j \in DOMAIN seq : i < j => seq[i] < seq[j]

Complete == {n \in SeqIds : \A s \in Streams : n \in sent[s]}

(* Both find exactly the numbers that arrived on all three streams, in     *)
(* order, as soon as they have, whatever the order in which the streams    *)
(* take turns (atomic_set.cpp:57-79, 107-127).                             *)
BothFindComplete == ListsInOrder(atomic_set, Complete) /\ ListsInOrder(atomic_set2, Complete)

(* A message that may still complete a set is kept by both, and counted;   *)
(* what AtomicSet2 keeps AtomicSet keeps.                                  *)
NothingNeededDropped ==
  \A s \in Streams, n \in SeqIds :
    LET open == n \in sent[s] /\ n \notin Complete
                /\ \A t \in Streams : n \in sent[t] \/ \A m \in sent[t] : m < n
    IN /\ open => /\ n \in data[s] \cap fronts[s]
                  /\ msg_seq_count[n] = Cardinality({t \in Streams : n \in sent[t]})
       /\ n \in fronts[s] => n \in data[s]

-----------------------------------------------------------------------------
(***************************************************************************)
(* OrderTiers (src/cpp11/DataFeed.cpp): the orders of one symbol, with     *)
(* their sizes added up per side and price.                                *)
(***************************************************************************)

CONSTANTS
  OrderIds, Prices, Sizes, NoOrder,
  MaxLeft            (* bound: what added-again orders leave in a tier     *)

ASSUME FeedAssumption ==
  /\ IsFiniteSet(OrderIds) /\ NoOrder \notin [price : Prices, size : Sizes, side : {"B", "S"}]
  /\ Prices \subseteq Nat /\ Sizes \subseteq Nat \ {0} /\ MaxLeft \in Nat

VARIABLES
  order_book,        (* each id's order                                    *)
  tiers,             (* bids and asks: a size per price                    *)
  left               (* history: sizes of orders that were added again     *)

feedVars == <<order_book, tiers, left>>

Sides == {"B", "S"}
NoTier == 0

FeedInit ==
  /\ order_book = [id \in OrderIds |-> NoOrder]
  /\ tiers = [side \in Sides |-> [p \in {} |-> NoTier]]
  /\ left = [side \in Sides |-> [p \in Prices |-> 0]]
-----------------------------------------------------------------------------
(* quote[price] += size: operator[] makes a tier that is not there *)
Plus(tier, p, size) ==
  [q \in DOMAIN tier \cup {p} |->
     (IF q \in DOMAIN tier THEN tier[q] ELSE 0) + (IF q = p THEN size ELSE 0)]

(* quote.erase(price) when the tier came down to 0 *)
Trimmed(tier, p) ==
  IF tier[p] = 0 THEN [q \in DOMAIN tier \ {p} |-> tier[q]] ELSE tier

(* add_order: an id that is in the book already gets the new order, and    *)
(* the tier of the old one is left as it is                                *)
AddOrder(id, price, size, side) ==
  /\ order_book' = [order_book EXCEPT ![id] = [price |-> price, size |-> size, side |-> side]]
  /\ tiers' = [tiers EXCEPT ![side] = Plus(@, price, size)]
  /\ LET old == order_book[id]
     IN IF old = NoOrder THEN UNCHANGED left
        ELSE /\ left[old.side][old.price] + old.size <= MaxLeft
             /\ left' = [left EXCEPT ![old.side][old.price] = @ + old.size]

(* Mutant: a tier that came down to 0 stays when the price is changed. *)
ModifyOrderKeeps(id, price, size) ==
  /\ order_book[id] # NoOrder
  /\ LET old == order_book[id]
         moved == Plus(Plus(tiers[old.side], old.price, -old.size), price, size)
     IN /\ tiers' = [tiers EXCEPT ![old.side] = moved]
        /\ order_book' = [order_book EXCEPT ![id] = [old EXCEPT !.price = price, !.size = size]]
  /\ UNCHANGED left

(* modify_order *)
ModifyOrder(id, price, size) ==
  /\ order_book[id] # NoOrder
  /\ LET old == order_book[id]
         moved == Plus(Plus(tiers[old.side], old.price, -old.size), price, size)
     IN /\ tiers' = [tiers EXCEPT ![old.side] = Trimmed(moved, old.price)]
        /\ order_book' = [order_book EXCEPT ![id] = [old EXCEPT !.price = price, !.size = size]]
  /\ UNCHANGED left

(* delete_order *)
DeleteOrder(id) ==
  /\ order_book[id] # NoOrder
  /\ LET old == order_book[id]
     IN tiers' = [tiers EXCEPT ![old.side] = Trimmed(Plus(@, old.price, -old.size), old.price)]
  /\ order_book' = [order_book EXCEPT ![id] = NoOrder]
  /\ UNCHANGED left

(* get_best_bid, get_best_ask *)
Best(side) ==
  CHOOSE p \in DOMAIN tiers[side] :
    \A q \in DOMAIN tiers[side] : IF side = "B" THEN q <= p ELSE p <= q

FeedNext ==
  \/ \E id \in OrderIds, p \in Prices, size \in Sizes :
       ModifyOrder(id, p, size) \/ \E side \in Sides : AddOrder(id, p, size, side)
  \/ \E id \in OrderIds : DeleteOrder(id)

FeedSpec == FeedInit /\ [][FeedNext]_feedVars
-----------------------------------------------------------------------------
Orders(side) == {id \in OrderIds : order_book[id] # NoOrder /\ order_book[id].side = side}
At(side, p) == {id \in Orders(side) : order_book[id].price = p}

(* A tier holds the sizes of the orders at its price, and of the orders    *)
(* that were there when their id was added again; there is no other tier   *)
(* (DataFeed.cpp:71-114).                                                  *)
TiersAddUp ==
  \A side \in Sides, p \in Prices :
    LET total == left[side][p] + MapThenSumSet(LAMBDA id : order_book[id].size, At(side, p))
    IN IF total = 0 THEN p \notin DOMAIN tiers[side]
       ELSE p \in DOMAIN tiers[side] /\ tiers[side][p] = total

(* As long as no id is added twice the inside quote is the best price of   *)
(* an order that is in the book (DataFeed.cpp:115-127).                    *)
InsideQuoteIsReal ==
  (\A side \in Sides, p \in Prices : left[side][p] = 0) =>
     \A side \in Sides :
       IF Orders(side) = {} THEN DOMAIN tiers[side] = {}
       ELSE /\ At(side, Best(side)) # {}
            /\ \A id \in Orders(side) :
                 IF side = "B" THEN order_book[id].price <= Best(side)
                 ELSE Best(side) <= order_book[id].price

-----------------------------------------------------------------------------
(***************************************************************************)
(* arbitrate of src/cpp11/arbitrate.cpp: the sequence numbers of two lines *)
(* of one feed, each of which may lack some, made one, with the gaps.      *)
(* compute_docks of src/cpp11/DockingSchedule.cpp: how many docks the      *)
(* loadings of a day need.                                                 *)
(***************************************************************************)

CONSTANTS
  LastNumber, (* the sequence numbers are 1 .. LastNumber                  *)
  LastMinute, (* the minutes of the day are 0 .. LastMinute                *)
  MaxLoadings (* bounds the loadings                                       *)

ASSUME MergeAssumption == {LastNumber, LastMinute, MaxLoadings} \subseteq Nat

VARIABLES
  A, B,    (* what came on either line                                     *)
  loadings (* the intervals, in minutes                                    *)

lineVars == <<A, B>>

LinesInit == A = <<>> /\ B = <<>>

After(line, s) == \A i \in 1 .. Len(line) : line[i] < s

(* A number on one line, or on the other; some never come. *)
LinesMove ==
  \E s \in 1 .. LastNumber :
    \/ After(A, s) /\ A' = Append(A, s) /\ UNCHANGED B
    \/ After(B, s) /\ B' = Append(B, s) /\ UNCHANGED A

(* add: a gap is what is missing between two numbers of the result. *)
AddNumber(out, s) ==
  [result |-> Append(out.result, s),
   gaps |-> IF out.result # <<>> /\ Last(out.result) + 1 < s
            THEN Append(out.gaps, <<Last(out.result), s>>) ELSE out.gaps]

(* One round of the loop, or of the one after it when a line is at its     *)
(* end: w.a and w.b are where the iterators stand.                         *)
Arbitrate(w) ==
  LET takesA == w.a <= Len(A) /\ (w.b > Len(B) \/ A[w.a] <= B[w.b])
      takesB == w.b <= Len(B) /\ (w.a > Len(A) \/ B[w.b] <= A[w.a])
  IN IF ~takesA /\ ~takesB THEN w
     ELSE [a |-> IF takesA THEN w.a + 1 ELSE w.a,
           b |-> IF takesB THEN w.b + 1 ELSE w.b,
           out |-> AddNumber(w.out, IF takesA THEN A[w.a] ELSE B[w.b])]

(* All rounds. *)
Arbitrated ==
  LET w[k \in 0 .. Len(A) + Len(B)] ==
        IF k = 0 THEN [a |-> 1, b |-> 1, out |-> [result |-> <<>>, gaps |-> <<>>]]
        ELSE Arbitrate(w[k - 1])
  IN w[Len(A) + Len(B)].out
-----------------------------------------------------------------------------
DocksInit == loadings = <<>>

(* One more loading; it starts before it ends. *)
DocksMove ==
  /\ Len(loadings) < MaxLoadings
  /\ \E start, end \in 0 .. LastMinute :
       start < end /\ loadings' = Append(loadings, [start |-> start, end |-> end])

(* What count has for the minute. *)
Count(minute) ==
  Cardinality({i \in 1 .. Len(loadings) : loadings[i].start = minute})
  - Cardinality({i \in 1 .. Len(loadings) : loadings[i].end = minute})

(* The loop over count: sum and the largest sum, after each minute *)
ComputeDocks ==
  LET loop[m \in -1 .. LastMinute] ==
        IF m = -1 THEN [sum |-> 0, max_val |-> 0]
        ELSE LET sum == loop[m - 1].sum + Count(m)
             IN [sum |-> sum, max_val |-> IF sum > loop[m - 1].max_val THEN sum
                                          ELSE loop[m - 1].max_val]
  IN loop[LastMinute].max_val

LinesSpec == LinesInit /\ [][LinesMove]_lineVars
DocksSpec == DocksInit /\ [][DocksMove]_loadings
-----------------------------------------------------------------------------
(* The result is every number that came on either line, once and in order, *)
(* and the gaps are those that came on neither (arbitrate.cpp:8-43).       *)
NothingLostInMerge ==
  LET came == ToSet(A) \cup ToSet(B)
  IN /\ ListsInOrder(Arbitrated.result, came)
     /\ ToSet(Arbitrated.gaps) = {g \in came \X came :
                             g[1] + 1 < g[2] /\ \A s \in g[1] + 1 .. g[2] - 1 : s \notin came}

(* The docks are enough for every moment and no more than some moment      *)
(* needs: "it is ok to start or stop at same time" (DockingSchedule.cpp:12 *)
(* and 24-42).                                                             *)
DocksAreNeeded ==
  LET loading(m) == Cardinality({i \in 1 .. Len(loadings) :
                                   loadings[i].start <= m /\ m < loadings[i].end})
  IN ComputeDocks = Max({loading(m) : m \in 0 .. LastMinute})
=============================================================================
