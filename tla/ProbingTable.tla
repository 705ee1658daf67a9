---------------------------- MODULE ProbingTable -----------------------------
(***************************************************************************)
(* HASH_TABLE_PROBING (src/cpp11/HashTableProbing.h): open addressing with *)
(* quadratic probing.  An erased element becomes a tombstone, for ever.    *)
(***************************************************************************)
EXTENDS Hashing

CONSTANTS
  tableSize,       (* the class's bucket_size, a prime from CalcSize       *)
  PROBE_LEN        (* the square root of it, rounded down                  *)

ASSUME ProbingAssumption ==
  /\ tableSize \in Nat \ {0} /\ PROBE_LEN \in Nat \ {0}
  /\ PROBE_LEN * PROBE_LEN <= tableSize

VARIABLES
  cells,           (* pElements: a key, MASK_EMPTY or MASK_TOMB            *)
  live,            (* elements                                             *)
  probingCall,     (* the last call and its key                            *)
  yes              (* what it returned (second of the pair, for insert)    *)

probingVars == <<cells, live, probingCall, yes>>

MASK_EMPTY == <<"empty">>
MASK_TOMB == <<"tomb">>
Key(k) == <<"key", k>>

Probes == 0 .. PROBE_LEN - 1
CellAt(k, i) == (Hash[k] + i * i) % tableSize

ProbingInit ==
  /\ cells = [c \in 0 .. tableSize - 1 |-> MASK_EMPTY]
  /\ live = 0
  /\ probingCall = <<"none">> /\ yes = FALSE
-----------------------------------------------------------------------------
(* Where a walk along the path of k ends: at its cell or at an empty one;  *)
(* or nowhere. *)
Stops(k) == {i \in Probes : cells[CellAt(k, i)] \in {MASK_EMPTY, Key(k)}}
Tombs(k) == {i \in Probes : cells[CellAt(k, i)] = MASK_TOMB /\ \A j \in Stops(k) : i < j}

(* findSlot, find *)
ProbingFinds(k) == Stops(k) # {} /\ cells[CellAt(k, First(Stops(k)))] = Key(k)

(* insert: the key is there *)
ProbingInsertOver(k) ==
  /\ ProbingFinds(k)
  /\ probingCall' = <<"insert", k>> /\ yes' = FALSE
  /\ UNCHANGED <<cells, live>>

(* Mutant: a tombstone is taken where it is met. *)
ProbingInsertEarly(k) ==
  /\ \E i \in Probes :
       /\ cells[CellAt(k, i)] \in {MASK_EMPTY, MASK_TOMB}
       /\ \A j \in 0 .. i - 1 : cells[CellAt(k, j)] \notin {MASK_EMPTY, MASK_TOMB, Key(k)}
       /\ cells' = [cells EXCEPT ![CellAt(k, i)] = Key(k)]
  /\ live' = live + 1
  /\ probingCall' = <<"insert", k>> /\ yes' = TRUE

(* insert: into the last tombstone before the empty cell, or into that *)
ProbingInsertNew(k) ==
  /\ Stops(k) # {} /\ ~ProbingFinds(k)
  /\ LET to == IF Tombs(k) = {} THEN First(Stops(k))
               ELSE CHOOSE i \in Tombs(k) : \A j \in Tombs(k) : j <= i
     IN cells' = [cells EXCEPT ![CellAt(k, to)] = Key(k)]
  /\ live' = live + 1
  /\ probingCall' = <<"insert", k>> /\ yes' = TRUE

(* insert: PROBE_LEN cells and none is empty *)
ProbingRefuses(k) ==
  /\ Stops(k) = {}
  /\ probingCall' = <<"refuse", k>> /\ yes' = FALSE
  /\ UNCHANGED <<cells, live>>

(* Mutant: the erased cell becomes empty. *)
ProbingEraseEmpties(k) ==
  /\ IF ProbingFinds(k)
       THEN /\ cells' = [cells EXCEPT ![CellAt(k, First(Stops(k)))] = MASK_EMPTY]
            /\ live' = live - 1
       ELSE UNCHANGED <<cells, live>>
  /\ yes' = ProbingFinds(k)
  /\ probingCall' = <<"erase", k>>

(* erase *)
ProbingErase(k) ==
  /\ IF ProbingFinds(k)
       THEN /\ cells' = [cells EXCEPT ![CellAt(k, First(Stops(k)))] = MASK_TOMB]
            /\ live' = live - 1
       ELSE UNCHANGED <<cells, live>>
  /\ yes' = ProbingFinds(k)
  /\ probingCall' = <<"erase", k>>

ProbingNext ==
  \E k \in Keys :
    ProbingInsertOver(k) \/ ProbingInsertNew(k) \/ ProbingRefuses(k) \/ ProbingErase(k)

ProbingSpec == ProbingInit /\ [][ProbingNext]_probingVars
-----------------------------------------------------------------------------
Probing == INSTANCE KeyTable
             WITH TableKeys <- Keys, table <- {k \in Keys : ProbingFinds(k)},
                  call <- probingCall

(* The table is a set of keys that may refuse one: no insert into a        *)
(* tombstone leaves a second copy behind, no erased key comes back         *)
(* (HashTableProbing.h:63-103).                                            *)
ProbingImplements == Probing!KeyTableSpec

(* A key is in one cell at most, on its own path, and no cell before it on *)
(* that path is empty, or a search would stop short of it; and "elements"  *)
(* is the number of keys (HashTableProbing.h:34-46, :96-107).             *)
PathUnbroken ==
  /\ \A k \in Keys :
       /\ Cardinality({c \in DOMAIN cells : cells[c] = Key(k)}) <= 1
       /\ \A c \in DOMAIN cells :
            cells[c] = Key(k) =>
              \E i \in Probes : /\ CellAt(k, i) = c
                                /\ \A j \in 0 .. i : cells[CellAt(k, j)] # MASK_EMPTY
  /\ live = Cardinality({k \in Keys : ProbingFinds(k)})
=============================================================================
