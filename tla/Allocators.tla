----------------------------- MODULE Allocators -----------------------------
(***************************************************************************)
(* What hands out parts of a stock and takes them back: partitions of a    *)
(* block of memory, blocks of one size, telephone numbers.                 *)
(***************************************************************************)
EXTENDS Integers, Sequences, FiniteSets

-----------------------------------------------------------------------------
(***************************************************************************)
(* SimplifiedStorage (src/cpp11/test/simplified_alloc.cpp): a block of     *)
(* memory cut into partitions of one size.  The free partitions are a      *)
(* list in the order of their addresses, whose links are in the free       *)
(* partitions themselves; alloc_n takes the first run of n neighbours.     *)
(***************************************************************************)

CONSTANT NumParts    (* how many partitions the memory has                 *)

ASSUME StorageAssumption == NumParts \in Nat

VARIABLES
  link,      (* next_of: what is at &m_head and at each partition          *)
  segments,  (* what alloc_n gave out and free_n did not get back          *)
  allocated  (* the last call of alloc_n: how many, and what it returned   *)

storageVars == <<link, segments, allocated>>

Parts == 1 .. NumParts
Null == 0            (* nullptr                                            *)
HeadAt == -1         (* &m_head                                            *)
Scribble == -2       (* what the user writes into memory that is its own   *)

PartsOf(s) == s.at .. s.at + s.n - 1

(* Segregate(at, n, end): each partition linked to the next, the last to   *)
(* "end"; other links stay.                                                *)
Segregated(links, at, n, end) ==
  [p \in DOMAIN links |-> IF p \notin at .. at + n - 1 THEN links[p]
                          ELSE IF p = at + n - 1 THEN end ELSE p + 1]

(* SimplifiedStorage *)
StorageInit ==
  /\ link = [Segregated([p \in Parts \cup {HeadAt} |-> Null], 1, NumParts, Null)
               EXCEPT ![HeadAt] = IF NumParts = 0 THEN Null ELSE 1]
  /\ segments = {}
  /\ allocated = [n |-> 0, at |-> Null]
-----------------------------------------------------------------------------
(* --n_blocks of a size_t: no run is as long as 0 asks for. *)
WantedSizes(n) == IF n = 0 THEN NumParts + 1 ELSE n

(* try_alloc_n: where the run that starts behind start is cut short *)
Breaks(start, n) ==
  {p \in Parts : p \in link[start] .. link[start] + WantedSizes(n) - 2 /\ link[p] # p + 1}
FirstBreak(start, n) == CHOOSE p \in Breaks(start, n) : \A q \in Breaks(start, n) : p <= q

(* Where a loop is, that starts at x and whose body takes it from p to     *)
(* step[p], after n turns of it.                                           *)
TurnsOf(step, x, n) ==
  LET at[i \in 0 .. n] == IF i = 0 THEN x ELSE step[at[i - 1]] IN at[n]

(* The loop of alloc_n: the partition in front of the run, or Null.  The   *)
(* search goes on behind a run that is too short.                          *)
FindRun(n) ==
  LET next == [p \in DOMAIN link |->
                 IF link[p] = Null \/ Breaks(p, n) = {} THEN p ELSE FirstBreak(p, n)]
      start == TurnsOf(next, HeadAt, NumParts + 1)
  IN IF link[start] = Null THEN Null ELSE start

(* alloc_n; the user overwrites what it gets *)
AllocN(n) ==
  LET start == FindRun(n)
      at == link[start]
      run == at .. at + n - 1
  IN IF start = Null
       THEN allocated' = [n |-> n, at |-> Null] /\ UNCHANGED <<link, segments>>
       ELSE /\ link' = [p \in DOMAIN link |-> IF p = start THEN link[at + n - 1]
                                              ELSE IF p \in run THEN Scribble ELSE link[p]]
            /\ segments' = segments \cup {[at |-> at, n |-> n]}
            /\ allocated' = [n |-> n, at |-> at]

(* find_prev, from the head *)
FindPrev(insert) ==
  TurnsOf([p \in DOMAIN link |-> IF link[p] # Null /\ link[p] < insert THEN link[p] ELSE p],
        HeadAt, NumParts + 1)

(* free_n *)
FreeN(s) ==
  LET insertion == FindPrev(s.at)
  IN /\ link' = [Segregated(link, s.at, s.n, link[insertion]) EXCEPT ![insertion] = s.at]
     /\ segments' = segments \ {s}
     /\ UNCHANGED allocated

StorageNext ==
  \/ \E n \in 0 .. NumParts + 1 : AllocN(n)
  \/ \E s \in segments : FreeN(s)

StorageSpec == StorageInit /\ [][StorageNext]_storageVars
-----------------------------------------------------------------------------
Owned == UNION {PartsOf(s) : s \in segments}
FreeParts == Parts \ Owned

(* The list is the free partitions, in the order of their addresses, and   *)
(* no two users have a partition in common (simplified_alloc.cpp:40-52,    *)
(* 81-90): every free partition leads to the next one, and the head to the *)
(* first.                                                                  *)
ListIsFreeParts ==
  /\ \A p \in FreeParts \cup {HeadAt} :
       LET behind == {q \in FreeParts : q > p}
       IN link[p] = IF behind = {} THEN Null ELSE CHOOSE q \in behind : \A r \in behind : q <= r
  /\ \A s, t \in segments : s # t => PartsOf(s) \cap PartsOf(t) = {}

(* alloc_n gives out the first run of n free neighbours, and nullptr only  *)
(* when there is none, however the memory was cut up before                *)
(* (simplified_alloc.cpp:9-22, 66-81).                                     *)
FirstFit ==
  [][allocated' # allocated \/ segments' # segments =>
       \/ Cardinality(segments') < Cardinality(segments)
       \/ LET n == allocated'.n
              runs == {p \in Parts : n > 0 /\ p .. p + n - 1 \subseteq FreeParts}
          IN allocated'.at = IF runs = {} THEN Null
                             ELSE CHOOSE p \in runs : \A q \in runs : p <= q]_storageVars

-----------------------------------------------------------------------------
(***************************************************************************)
(* Chunk (src/library/SmallObject.h): blocks of one size; the first byte   *)
(* of a free block is the index of the next free one.  FixedAllocator,     *)
(* which owns chunks, dereferences end() of an empty vector in its first   *)
(* call and has no behaviour to model.                                     *)
(***************************************************************************)

CONSTANTS NumBlocks, ByteSize   (* the blocks, and 256                     *)

ASSUME ChunkAssumption == NumBlocks \in Nat /\ ByteSize \in Nat /\ NumBlocks < ByteSize

VARIABLES
  firstByte,             (* the first byte of each block                   *)
  firstAvailableBlock,
  blocksAvailable,
  inUse                  (* the blocks that were allocated, not released   *)

chunkVars == <<firstByte, firstAvailableBlock, blocksAvailable, inUse>>

BlockIndices == 0 .. NumBlocks - 1

(* Chunk::Init *)
ChunkInit ==
  /\ firstByte = [b \in BlockIndices |-> (b + 1) % ByteSize]
  /\ firstAvailableBlock = 0
  /\ blocksAvailable = NumBlocks
  /\ inUse = {}

(* Chunk::Allocate *)
Allocate ==
  /\ blocksAvailable # 0
  /\ firstAvailableBlock' = firstByte[firstAvailableBlock]
  /\ blocksAvailable' = blocksAvailable - 1
  /\ inUse' = inUse \cup {firstAvailableBlock}
  /\ UNCHANGED firstByte

(* The owner of a block writes to it. *)
UseBlock(b) ==
  /\ b \in inUse
  /\ \E byte \in {0, ByteSize - 1} : firstByte' = [firstByte EXCEPT ![b] = byte]
  /\ UNCHANGED <<firstAvailableBlock, blocksAvailable, inUse>>

(* Chunk::Deallocate *)
Deallocate(b) ==
  /\ b \in inUse
  /\ firstByte' = [firstByte EXCEPT ![b] = firstAvailableBlock]
  /\ firstAvailableBlock' = b
  /\ blocksAvailable' = blocksAvailable + 1
  /\ inUse' = inUse \ {b}

ChunkNext == Allocate \/ \E b \in BlockIndices : UseBlock(b) \/ Deallocate(b)

ChunkSpec == ChunkInit /\ [][ChunkNext]_chunkVars
-----------------------------------------------------------------------------
(* The n-th block of the list that starts at firstAvailableBlock. *)
NthFree(n) == TurnsOf(firstByte, firstAvailableBlock, n)

(* The first blocksAvailable blocks of the list are the blocks not in use, *)
(* each once: no block is given out twice and none is lost, whatever the   *)
(* owners wrote into theirs (SmallObject.h:28-46).                         *)
ChunkListIsFree ==
  /\ Cardinality(BlockIndices \ inUse) = blocksAvailable
  /\ {NthFree(n) : n \in 0 .. blocksAvailable - 1} = BlockIndices \ inUse

-----------------------------------------------------------------------------
(***************************************************************************)
(* PhoneRegistry (src/cpp11/PhoneRegistry.cpp): numbers given out, and the *)
(* intervals of those that are not: each by its last number, which is the  *)
(* key of the map.                                                         *)
(***************************************************************************)

CONSTANTS
  Lowest, Highest,     (* 100 and 9999999999                               *)
  Asked                (* the numbers passed to markNumberAsGiven          *)

ASSUME PhoneAssumption ==
  Lowest \in Int /\ Highest \in Int /\ Lowest <= Highest /\ Asked \subseteq Int

VARIABLES
  phone_used,
  phone_unused,        (* from the last number of an interval to its first *)
  handed               (* history: what getAFreeNumber has returned        *)

phoneVars == <<phone_used, phone_unused, handed>>

PhoneInit ==
  /\ phone_used = {}
  /\ phone_unused = [last \in {Highest} |-> Lowest]
  /\ handed = {}
-----------------------------------------------------------------------------
(* The interval whose last number is the least one from n on. *)
LowerBound(n) ==
  CHOOSE last \in DOMAIN phone_unused :
    n <= last /\ \A other \in DOMAIN phone_unused : n <= other => last <= other

Without(last) == [l \in DOMAIN phone_unused \ {last} |-> phone_unused[l]]
With(last, first) ==
  [l \in DOMAIN phone_unused \cup {last} |-> IF l = last THEN first ELSE phone_unused[l]]

(* markNumberAsGiven takes n out of the interval [first, last]; a number   *)
(* outside of it is an error that is printed                               *)

(* Mutant: the rest of the interval before n is lost. *)
CutInTwoLosesHead(n, last) ==
  IF n = phone_unused[last] \/ n = last THEN Without(last)
  ELSE With(last, n + 1)

CutInTwo(n, last) ==
  LET first == phone_unused[last]
  IN IF n < first THEN phone_unused
     ELSE IF n = first THEN (IF first = last THEN Without(last) ELSE With(last, first + 1))
     ELSE IF n = last THEN [l \in (DOMAIN phone_unused \ {last}) \cup {n - 1} |->
                              IF l = n - 1 THEN first ELSE phone_unused[l]]
     ELSE [l \in DOMAIN phone_unused \cup {n - 1} |->
             IF l = n - 1 THEN first ELSE IF l = last THEN n + 1 ELSE phone_unused[l]]

MarkNumberAsGiven(n) ==
  /\ phone_used' = phone_used \cup {n}
  /\ phone_unused' = IF \E last \in DOMAIN phone_unused : n <= last
                       THEN CutInTwo(n, LowerBound(n)) ELSE phone_unused
  /\ UNCHANGED handed

(* getAFreeNumber: the first number of the first interval; phone_used does *)
(* not learn of it                                                         *)
GetAFreeNumber ==
  /\ DOMAIN phone_unused # {}
  /\ \E last \in DOMAIN phone_unused :
       /\ \A other \in DOMAIN phone_unused : last <= other
       /\ handed' = handed \cup {phone_unused[last]}
       /\ phone_unused' = IF phone_unused[last] = last THEN Without(last)
                          ELSE With(last, phone_unused[last] + 1)
  /\ UNCHANGED phone_used

PhoneNext == GetAFreeNumber \/ \E n \in Asked : MarkNumberAsGiven(n)

PhoneSpec == PhoneInit /\ [][PhoneNext]_phoneVars
-----------------------------------------------------------------------------
(* The intervals hold exactly the numbers that were neither marked nor     *)
(* handed out, and none of them twice (PhoneRegistry.cpp:26-64).           *)
IntervalsExact ==
  /\ \A last \in DOMAIN phone_unused : phone_unused[last] <= last
  /\ \A a, b \in DOMAIN phone_unused : a < b => a < phone_unused[b]
  /\ UNION {phone_unused[last] .. last : last \in DOMAIN phone_unused} =
       (Lowest .. Highest) \ (phone_used \cup handed)

(* No number is handed out twice, and none that was marked as given.       *)
HandedOnce ==
  [][\A n \in handed' \ handed : n \notin phone_used /\ n \in Lowest .. Highest]_phoneVars
=============================================================================
