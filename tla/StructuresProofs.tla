-------------------------- MODULE StructuresProofs --------------------------
(***************************************************************************)
(* Proofs about the hash tables of modules ProbingTable, BucketTable and   *)
(* ChainedTable, for all keys, hash values and sizes, about RequestCounter, *)
(* for every window, and about the ring of MyCircularDeque in module       *)
(* LinkedDesigns, for every number of cells.                               *)
(***************************************************************************)
EXTENDS MCTables, RequestCounter, LinkedDesigns, FiniteSetTheorems,
        SequenceTheorems, WellFoundedInduction, TLAPS

(* The least of a set of natural numbers.                                  *)
LEMMA FirstIs ==
  ASSUME NEW S, S \subseteq Nat, S # {}
  PROVE  First(S) \in S /\ \A j \in S : First(S) <= j
<1> DEFINE Less == OpToRel(<, Nat)
<1>1. IsWellFoundedOn(Less, Nat)
  BY NatLessThanWellFounded
<1>2. \A x, y \in Nat : <<x, y>> \in Less <=> x < y
  BY DEF OpToRel
<1> HIDE DEF Less
<1>3. PICK x \in S : \A y \in S : ~(<<y, x>> \in Less)
  BY <1>1, WFMin
<1> DEFINE Least(i) == \A j \in S : i <= j
<1>4. x \in S /\ Least(x)
  <2>1. ASSUME NEW y \in S PROVE x <= y
    <3>1. x \in Nat /\ y \in Nat /\ ~(<<y, x>> \in Less)
      BY <1>3
    <3>2. ~(y < x)
      BY <1>2, <3>1
    <3>3. QED
      BY <3>1, <3>2
  <2>2. QED
    BY <2>1
<1>5. First(S) = CHOOSE i \in S : Least(i)
  BY DEF First
<1> HIDE DEF Least
<1>6. First(S) \in S /\ Least(First(S))
  BY <1>4, <1>5
<1>7. QED
  BY <1>6 DEF Least

(* The greatest of a set of numbers below a bound.                         *)
LEMMA LastIs ==
  ASSUME NEW n \in Nat, NEW S, S \subseteq 0 .. n, S # {}
  PROVE  (CHOOSE i \in S : \A j \in S : j <= i) \in S
<1> DEFINE T == {n - i : i \in S}
<1>1. T \subseteq Nat /\ T # {}
  <2>1. \A i \in S : i \in 0 .. n
    OBVIOUS
  <2>2. \A i \in 0 .. n : n - i \in Nat
    OBVIOUS
  <2>3. QED
    BY <2>1, <2>2
<1>2. First(T) \in T /\ \A t \in T : First(T) <= t
  <2> HIDE DEF T
  <2> QED
    BY <1>1, FirstIs
<1>3. PICK i \in S : First(T) = n - i
  BY <1>2
<1> DEFINE Greatest(k) == \A j \in S : j <= k
<1>4. Greatest(i)
  <2>1. \A j \in S : n - i <= n - j
    BY <1>2, <1>3
  <2>2. QED
    BY <2>1
<1> HIDE DEF Greatest
<1>5. (CHOOSE k \in S : Greatest(k)) \in S
  BY <1>4
<1>6. QED
  BY <1>5 DEF Greatest

LEMMA AtMostOne ==
  ASSUME NEW S, \A s, t \in S : s = t
  PROVE  Cardinality(S) <= 1
<1>1. Cardinality({}) = 0 /\ \A s : Cardinality({s}) = 1
  BY FS_EmptySet, FS_Singleton
<1>2. CASE S = {}
  BY <1>1, <1>2
<1>3. CASE S # {}
  <2>1. PICK s : S = {s}
    BY <1>3
  <2>2. Cardinality(S) = 1
    BY <1>1, <2>1
  <2>3. QED
    BY <2>2
<1>4. QED
  BY <1>2, <1>3
-----------------------------------------------------------------------------
(* ProbingTable *)

Cells == 0 .. tableSize - 1
CellValues == {MASK_EMPTY, MASK_TOMB} \cup {Key(k) : k \in Keys}

LEMMA ValuesDiffer ==
  /\ MASK_EMPTY # MASK_TOMB
  /\ \A k : Key(k) # MASK_EMPTY /\ Key(k) # MASK_TOMB
  /\ \A k, l : Key(k) = Key(l) => k = l
BY DEF MASK_EMPTY, MASK_TOMB, Key

LEMMA ProbesAre == Probes \subseteq Nat /\ \A i \in Probes : 0 .. i \subseteq Probes
BY ProbingAssumption DEF Probes

LEMMA CellIsCell ==
  ASSUME NEW k \in Keys, NEW i \in Probes
  PROVE  CellAt(k, i) \in Cells
<1>1. i \in Nat /\ Hash[k] \in Nat
  BY ProbesAre, HashAssumption
<1>2. i * i \in Nat
  BY <1>1
<1>3. Hash[k] + i * i \in Nat
  BY <1>1, <1>2
<1> DEFINE x == Hash[k] + i * i
<1> HIDE DEF x
<1>4. x % tableSize \in Cells
  BY <1>3, ProbingAssumption DEF Cells, x
<1>5. QED
  BY <1>4 DEF x, CellAt

(* Where a key is: in the cells t, reached by its path.                    *)
Holds(t, k) == \E c \in Cells : t[c] = Key(k)
Reaches(t, k, c) ==
  \E i \in Probes : CellAt(k, i) = c /\ \A j \in 0 .. i : t[CellAt(k, j)] # MASK_EMPTY
Keeps(t) == {k \in Keys : Holds(t, k)}

Unbroken(t) ==
  /\ t \in [Cells -> CellValues]
  /\ \A k \in Keys : \A c, d \in Cells : t[c] = Key(k) /\ t[d] = Key(k) => c = d
  /\ \A k \in Keys : \A c \in Cells : t[c] = Key(k) => Reaches(t, k, c)

ProbeInv == Unbroken(cells) /\ live = Cardinality(Keeps(cells))

(* findSlot finds a key exactly when a cell has it.                        *)
LEMMA FindsIsHolds ==
  ASSUME Unbroken(cells), NEW k \in Keys
  PROVE  /\ ProbingFinds(k) <=> Holds(cells, k)
         /\ ProbingFinds(k) => First(Stops(k)) \in Probes
         /\ Stops(k) # {} => First(Stops(k)) \in Stops(k) /\ First(Stops(k)) \in Probes
         /\ \A i \in Stops(k) : First(Stops(k)) <= i
<1>1. Stops(k) \subseteq Nat /\ Stops(k) \subseteq Probes
  BY ProbesAre DEF Stops
<1> DEFINE f == First(Stops(k))
<1>2. Stops(k) # {} => f \in Stops(k) /\ \A j \in Stops(k) : f <= j
  BY <1>1, FirstIs
<1> HIDE DEF f
<1>3. ASSUME ProbingFinds(k) PROVE Holds(cells, k) /\ f \in Probes
  <2>1. Stops(k) # {} /\ cells[CellAt(k, f)] = Key(k)
    BY <1>3 DEF ProbingFinds, f
  <2>2. f \in Probes
    BY <1>1, <1>2, <2>1
  <2>3. QED
    BY <2>1, <2>2, CellIsCell DEF Holds
<1>4. ASSUME Holds(cells, k) PROVE ProbingFinds(k)
  <2>1. PICK c \in Cells : cells[c] = Key(k)
    BY <1>4 DEF Holds
  <2>2. PICK i \in Probes : CellAt(k, i) = c /\ \A j \in 0 .. i : cells[CellAt(k, j)] # MASK_EMPTY
    BY <2>1 DEF Unbroken, Reaches
  <2>3. i \in Stops(k)
    BY <2>1, <2>2 DEF Stops
  <2>4. f \in Stops(k) /\ f <= i /\ f \in Nat /\ i \in Nat
    BY <1>1, <1>2, <2>3
  <2>5. f \in 0 .. i
    BY <2>4
  <2>6. cells[CellAt(k, f)] = Key(k)
    BY <2>2, <2>4, <2>5 DEF Stops
  <2>7. QED
    BY <2>3, <2>6 DEF ProbingFinds, f
<1>5. QED
  BY <1>1, <1>2, <1>3, <1>4 DEF f

LEMMA ProbeStarts == ProbingInit => ProbeInv
<1>1. SUFFICES ASSUME ProbingInit PROVE ProbeInv
  OBVIOUS
<1>2. cells = [c \in Cells |-> MASK_EMPTY]
  BY <1>1 DEF ProbingInit, Cells
<1>3. \A k : ~Holds(cells, k)
  BY <1>2, ValuesDiffer DEF Holds
<1>4. Unbroken(cells)
  BY <1>2, <1>3 DEF Unbroken, CellValues, Holds
<1>5. Keeps(cells) = {}
  BY <1>3 DEF Keeps
<1>6. QED
  BY <1>1, <1>4, <1>5, FS_EmptySet DEF ProbeInv, ProbingInit

(* A key is put into a cell of its path that no path stops at.             *)
LEMMA PutKeeps ==
  ASSUME NEW t, Unbroken(t), NEW k \in Keys, ~Holds(t, k), NEW to \in Probes,
         t[CellAt(k, to)] \in {MASK_EMPTY, MASK_TOMB},
         \A j \in 0 .. to : j # to => t[CellAt(k, j)] # MASK_EMPTY,
         NEW u, u = [t EXCEPT ![CellAt(k, to)] = Key(k)]
  PROVE  Unbroken(u) /\ Keeps(u) = Keeps(t) \cup {k}
<1> DEFINE c == CellAt(k, to)
<1>1. c \in Cells
  BY CellIsCell
<1>2. t \in [Cells -> CellValues] /\ Key(k) \in CellValues
  BY DEF Unbroken, CellValues
<1> HIDE DEF c
<1>3. u \in [Cells -> CellValues] /\ u[c] = Key(k) /\ \A d \in Cells : d # c => u[d] = t[d]
  BY <1>1, <1>2 DEF c
<1>4. \A d \in Cells : t[d] # MASK_EMPTY => u[d] # MASK_EMPTY
  BY <1>3, ValuesDiffer
<1>5. \A l \in Keys : \A d \in Cells : u[d] = Key(l) => (l = k /\ d = c) \/ (l # k /\ t[d] = Key(l))
  BY <1>3, ValuesDiffer DEF Holds
<1>6. \A l \in Keys : \A d \in Cells : t[d] = Key(l) => l # k /\ u[d] = Key(l)
  BY <1>3, ValuesDiffer DEF Holds, c
<1>7. \A l \in Keys : \A d, e \in Cells : u[d] = Key(l) /\ u[e] = Key(l) => d = e
  BY <1>5 DEF Unbroken
<1>8. ASSUME NEW l \in Keys, NEW d \in Cells, u[d] = Key(l) PROVE Reaches(u, l, d)
  <2>1. CASE l = k /\ d = c
    <3>1. ASSUME NEW j \in 0 .. to PROVE u[CellAt(k, j)] # MASK_EMPTY
      <4>1. j \in Probes
        BY ProbesAre
      <4>2. CellAt(k, j) \in Cells
        BY <4>1, CellIsCell
      <4>3. QED
        BY <1>3, <1>4, <4>2, ValuesDiffer DEF c
    <3>2. QED
      BY <2>1, <3>1 DEF Reaches, c
  <2>2. CASE l # k /\ t[d] = Key(l)
    <3>1. PICK i \in Probes : CellAt(l, i) = d /\ \A j \in 0 .. i : t[CellAt(l, j)] # MASK_EMPTY
      BY <2>2 DEF Unbroken, Reaches
    <3>2. ASSUME NEW j \in 0 .. i PROVE u[CellAt(l, j)] # MASK_EMPTY
      <4>1. j \in Probes
        BY ProbesAre
      <4>2. CellAt(l, j) \in Cells
        BY <4>1, CellIsCell
      <4>3. QED
        BY <1>4, <3>1, <4>2
    <3>3. QED
      BY <3>1, <3>2 DEF Reaches
  <2>3. QED
    BY <1>5, <1>8, <2>1, <2>2
<1>9. Keeps(u) = Keeps(t) \cup {k}
  BY <1>1, <1>3, <1>5, <1>6 DEF Keeps, Holds
<1>10. QED
  BY <1>3, <1>7, <1>8, <1>9 DEF Unbroken

(* A key's cell becomes a tombstone.                                       *)
LEMMA BuryKeeps ==
  ASSUME NEW t, Unbroken(t), NEW k \in Keys, NEW c \in Cells, t[c] = Key(k),
         NEW u, u = [t EXCEPT ![c] = MASK_TOMB]
  PROVE  Unbroken(u) /\ Keeps(u) = Keeps(t) \ {k}
<1>1. t \in [Cells -> CellValues] /\ MASK_TOMB \in CellValues
  BY DEF Unbroken, CellValues
<1>2. u \in [Cells -> CellValues] /\ u[c] = MASK_TOMB /\ \A d \in Cells : d # c => u[d] = t[d]
  BY <1>1
<1>3. \A d \in Cells : t[d] # MASK_EMPTY => u[d] # MASK_EMPTY
  BY <1>2, ValuesDiffer
<1>4. \A l \in Keys : \A d \in Cells : u[d] = Key(l) <=> l # k /\ t[d] = Key(l)
  BY <1>2, ValuesDiffer DEF Unbroken
<1>5. ASSUME NEW l \in Keys, NEW d \in Cells, u[d] = Key(l) PROVE Reaches(u, l, d)
  <2>1. PICK i \in Probes : CellAt(l, i) = d /\ \A j \in 0 .. i : t[CellAt(l, j)] # MASK_EMPTY
    BY <1>4, <1>5 DEF Unbroken, Reaches
  <2>2. ASSUME NEW j \in 0 .. i PROVE u[CellAt(l, j)] # MASK_EMPTY
    <3>1. j \in Probes
      BY ProbesAre
    <3>2. CellAt(l, j) \in Cells
      BY <3>1, CellIsCell
    <3>3. QED
      BY <1>3, <2>1, <3>2
  <2>3. QED
    BY <2>1, <2>2 DEF Reaches
<1>6. Keeps(u) = Keeps(t) \ {k}
  BY <1>4 DEF Keeps, Holds
<1>7. QED
  BY <1>2, <1>4, <1>5, <1>6 DEF Unbroken

(* What insert and erase do to the keys of the table.                      *)
LEMMA ProbingInsertFacts ==
  ASSUME ProbeInv, NEW k \in Keys, ProbingInsertNew(k)
  PROVE  /\ Unbroken(cells') /\ k \notin Keeps(cells) /\ Keeps(cells') = Keeps(cells) \cup {k}
         /\ live' = live + 1
<1>1. Unbroken(cells) /\ Stops(k) # {} /\ ~ProbingFinds(k) /\ live' = live + 1
  BY DEF ProbeInv, ProbingInsertNew
<1> DEFINE f == First(Stops(k))
<1>2. f \in Stops(k) /\ f \in Probes /\ \A i \in Stops(k) : f <= i
  BY <1>1, FindsIsHolds
<1>3. ~Holds(cells, k)
  BY <1>1, FindsIsHolds
<1>4. cells[CellAt(k, f)] = MASK_EMPTY
  <2>1. CellAt(k, f) \in Cells
    BY <1>2, CellIsCell
  <2>2. cells[CellAt(k, f)] # Key(k)
    BY <1>3, <2>1 DEF Holds
  <2>3. QED
    BY <1>2, <2>2 DEF Stops
<1>5. ASSUME NEW j \in 0 .. f, j # f PROVE cells[CellAt(k, j)] # MASK_EMPTY
  <2> HIDE DEF f
  <2>1. j \in Probes /\ j \in Nat /\ f \in Nat /\ j < f
    <3>1. f \in Nat /\ 0 .. f \subseteq Probes
      BY <1>2, ProbesAre
    <3>2. QED
      BY <1>5, <3>1
  <2>2. j \notin Stops(k)
    BY <1>2, <2>1
  <2>3. QED
    BY <2>1, <2>2 DEF Stops
<1> HIDE DEF f
<1> DEFINE lastTomb == CHOOSE i \in Tombs(k) : \A j \in Tombs(k) : j <= i
<1>6. ASSUME Tombs(k) # {} PROVE lastTomb \in Tombs(k)
  <2>1. Tombs(k) \subseteq 0 .. PROBE_LEN /\ PROBE_LEN \in Nat
    BY ProbingAssumption DEF Tombs, Probes
  <2> DEFINE S == Tombs(k)
  <2>2. S \subseteq 0 .. PROBE_LEN /\ S # {} /\ PROBE_LEN \in Nat
    BY <1>6, <2>1
  <2>3. lastTomb = CHOOSE i \in S : \A j \in S : j <= i
    BY DEF lastTomb
  <2> HIDE DEF S, lastTomb
  <2>4. (CHOOSE i \in S : \A j \in S : j <= i) \in S
    BY <2>2, LastIs
  <2>5. lastTomb \in S
    BY <2>3, <2>4
  <2>6. QED
    BY <2>5 DEF S
<1> HIDE DEF lastTomb
<1> DEFINE to == IF Tombs(k) = {} THEN f ELSE lastTomb
<1>7. cells' = [cells EXCEPT ![CellAt(k, to)] = Key(k)]
  BY DEF ProbingInsertNew, f, lastTomb
<1>8. /\ to \in Probes /\ cells[CellAt(k, to)] \in {MASK_EMPTY, MASK_TOMB}
      /\ \A j \in 0 .. to : j # to => cells[CellAt(k, j)] # MASK_EMPTY
  <2>1. CASE Tombs(k) = {}
    BY <1>2, <1>4, <1>5, <2>1
  <2>2. CASE Tombs(k) # {}
    <3>1. to = lastTomb /\ lastTomb \in Probes /\ cells[CellAt(k, lastTomb)] = MASK_TOMB /\ lastTomb < f
      BY <1>2, <1>6, <2>2 DEF Tombs
    <3>2. \A j \in 0 .. lastTomb : j \in 0 .. f /\ j # f
      BY <1>2, <3>1, ProbesAre
    <3>3. QED
      BY <1>5, <3>1, <3>2
  <2>3. QED
    BY <2>1, <2>2
<1> HIDE DEF to
<1>9. Unbroken(cells') /\ Keeps(cells') = Keeps(cells) \cup {k}
  BY <1>1, <1>3, <1>7, <1>8, PutKeeps
<1>10. QED
  BY <1>1, <1>3, <1>9 DEF Keeps

LEMMA ProbingEraseFacts ==
  ASSUME ProbeInv, NEW k \in Keys, ProbingErase(k)
  PROVE  /\ Unbroken(cells') /\ Keeps(cells') = Keeps(cells) \ {k}
         /\ live' = IF k \in Keeps(cells) THEN live - 1 ELSE live
<1>1. Unbroken(cells) /\ (ProbingFinds(k) <=> k \in Keeps(cells))
  BY FindsIsHolds DEF ProbeInv, Keeps
<1>2. CASE ~ProbingFinds(k)
  BY <1>1, <1>2 DEF ProbingErase
<1>3. CASE ProbingFinds(k)
  <2> DEFINE c == CellAt(k, First(Stops(k)))
  <2>1. cells' = [cells EXCEPT ![c] = MASK_TOMB] /\ live' = live - 1 /\ cells[c] = Key(k)
    BY <1>3 DEF ProbingErase, ProbingFinds
  <2>2. c \in Cells
    BY <1>1, <1>3, FindsIsHolds, CellIsCell
  <2> HIDE DEF c
  <2>3. Unbroken(cells') /\ Keeps(cells') = Keeps(cells) \ {k}
    BY <1>1, <2>1, <2>2, BuryKeeps
  <2>4. QED
    BY <1>1, <1>3, <2>1, <2>3
<1>4. QED
  BY <1>2, <1>3

LEMMA ProbeStep == ProbeInv /\ [ProbingNext]_probingVars => ProbeInv'
<1>1. SUFFICES ASSUME ProbeInv, [ProbingNext]_probingVars PROVE ProbeInv'
  OBVIOUS
<1>2. /\ Unbroken(cells) /\ live = Cardinality(Keeps(cells)) /\ IsFiniteSet(Keeps(cells))
  BY <1>1, HashAssumption, FS_Subset DEF ProbeInv, Keeps
<1>3. CASE UNCHANGED <<cells, live>>
  BY <1>1, <1>3 DEF ProbeInv
<1>4. ASSUME NEW k \in Keys, ProbingInsertNew(k) PROVE ProbeInv'
  BY <1>1, <1>2, <1>4, ProbingInsertFacts, FS_AddElement DEF ProbeInv
<1>5. ASSUME NEW k \in Keys, ProbingErase(k) PROVE ProbeInv'
  BY <1>1, <1>2, <1>5, ProbingEraseFacts, FS_RemoveElement DEF ProbeInv
<1>6. QED
  BY <1>1, <1>3, <1>4, <1>5 DEF ProbingNext, probingVars, ProbingInsertOver, ProbingRefuses

LEMMA AlwaysProbeInv == ProbingSpec => []ProbeInv
<1>1. QED
  BY ProbeStarts, ProbeStep, PTL DEF ProbingSpec

(* A key is in one cell at most, no cell before it on its path is empty,   *)
(* and "elements" counts the keys, for all keys, hash values and sizes     *)
(* (HashTableProbing.h:34-46, :63-107).                                    *)
THEOREM PathsStayUnbroken == ProbingSpec => []PathUnbroken
<1>1. ASSUME ProbeInv PROVE PathUnbroken
  <2>1. Unbroken(cells) /\ live = Cardinality(Keeps(cells)) /\ DOMAIN cells = Cells
    BY <1>1 DEF ProbeInv, Unbroken
  <2>2. {k \in Keys : ProbingFinds(k)} = Keeps(cells)
    BY <2>1, FindsIsHolds DEF Keeps
  <2>3. ASSUME NEW k \in Keys PROVE Cardinality({c \in DOMAIN cells : cells[c] = Key(k)}) <= 1
    <3> DEFINE S == {c \in DOMAIN cells : cells[c] = Key(k)}
    <3>1. \A c, d \in S : c = d
      BY <2>1 DEF Unbroken
    <3> HIDE DEF S
    <3>2. Cardinality(S) <= 1
      BY <3>1, AtMostOne
    <3>3. QED
      BY <3>2 DEF S
  <2>4. ASSUME NEW k \in Keys, NEW c \in DOMAIN cells, cells[c] = Key(k)
        PROVE  \E i \in Probes : CellAt(k, i) = c /\ \A j \in 0 .. i : cells[CellAt(k, j)] # MASK_EMPTY
    BY <2>1, <2>4 DEF Unbroken, Reaches
  <2>5. QED
    BY <2>1, <2>2, <2>3, <2>4 DEF PathUnbroken
<1>2. QED
  BY <1>1, AlwaysProbeInv, PTL

(* The table is a set of keys that may refuse one, for all keys, hash      *)
(* values and sizes: no second copy of a key is left behind, no erased key *)
(* comes back (HashTableProbing.h:63-103).                                 *)
THEOREM ProbingIsKeyTable == ProbingSpec => ProbingImplements
<1>1. ProbeInv => {k \in Keys : ProbingFinds(k)} = Keeps(cells)
  BY FindsIsHolds DEF Keeps, ProbeInv
<1>2. ProbingInit => Probing!KeyTableInit
  <2>1. SUFFICES ASSUME ProbingInit PROVE Probing!KeyTableInit
    OBVIOUS
  <2>2. cells = [c \in Cells |-> MASK_EMPTY]
    BY <2>1 DEF ProbingInit, Cells
  <2>3. Keeps(cells) = {}
    BY <2>2, ValuesDiffer DEF Keeps, Holds
  <2>4. QED
    BY <1>1, <2>1, <2>3, ProbeStarts DEF ProbingInit, Probing!KeyTableInit
<1>3. ASSUME ProbeInv, ProbeInv', [ProbingNext]_probingVars
      PROVE  [Probing!KeyTableNext]_<<{k \in Keys : ProbingFinds(k)}, probingCall>>
  <2>1. /\ {k \in Keys : ProbingFinds(k)} = Keeps(cells)
        /\ {k \in Keys : ProbingFinds(k)}' = Keeps(cells')
    <3>1. ({k \in Keys : ProbingFinds(k)} = Keeps(cells))'
      BY <1>1, <1>3, PTL
    <3>2. QED
      BY <1>1, <1>3, <3>1 DEF Keeps, Holds
  <2>2. Probing!KeyTableNext \/ UNCHANGED <<{k \in Keys : ProbingFinds(k)}, probingCall>>
    <3>1. CASE UNCHANGED probingVars
      BY <2>1, <3>1 DEF probingVars
    <3>2. ASSUME NEW k \in Keys, ProbingInsertOver(k) PROVE Probing!KeyInsert(k)
      <4>1. k \in Keeps(cells) /\ cells' = cells /\ probingCall' = <<"insert", k>>
        BY <1>1, <1>3, <3>2 DEF ProbingInsertOver
      <4>2. QED
        BY <2>1, <4>1 DEF Probing!KeyInsert
    <3>3. ASSUME NEW k \in Keys, ProbingInsertNew(k) PROVE Probing!KeyInsert(k)
      <4>1. Keeps(cells') = Keeps(cells) \cup {k} /\ probingCall' = <<"insert", k>>
        BY <1>3, <3>3, ProbingInsertFacts DEF ProbingInsertNew
      <4>2. QED
        BY <2>1, <4>1 DEF Probing!KeyInsert
    <3>4. ASSUME NEW k \in Keys, ProbingRefuses(k) PROVE Probing!KeyRefuse(k)
      <4>1. k \notin Keeps(cells) /\ cells' = cells /\ probingCall' = <<"refuse", k>>
        <5>1. ~ProbingFinds(k)
          BY <3>4 DEF ProbingRefuses, ProbingFinds
        <5>2. QED
          BY <1>1, <1>3, <3>4, <5>1 DEF ProbingRefuses
      <4>2. QED
        BY <2>1, <4>1 DEF Probing!KeyRefuse
    <3>5. ASSUME NEW k \in Keys, ProbingErase(k) PROVE Probing!KeyErase(k)
      <4>1. Keeps(cells') = Keeps(cells) \ {k} /\ probingCall' = <<"erase", k>>
        BY <1>3, <3>5, ProbingEraseFacts DEF ProbingErase
      <4>2. QED
        BY <2>1, <4>1 DEF Probing!KeyErase
    <3>6. QED
      BY <1>3, <3>1, <3>2, <3>3, <3>4, <3>5 DEF ProbingNext, Probing!KeyTableNext
  <2>3. QED
    BY <2>2
<1>4. QED
  BY <1>2, <1>3, AlwaysProbeInv, PTL DEF ProbingSpec, ProbingImplements, Probing!KeyTableSpec
-----------------------------------------------------------------------------
(* BucketTable *)

Starts == {b * bucket_size : b \in 0 .. buckets}

(* The areas of two buckets, and the overflow area, have no slot in common.*)
LEMMA NextStart ==
  ASSUME NEW i \in Nat, NEW j \in Nat, i < j, NEW n \in Nat
  PROVE  i * n + n <= j * n
<1> DEFINE d == j - i - 1
<1>1. d \in Nat /\ j = i + 1 + d
  OBVIOUS
<1> HIDE DEF d
<1>2. d * n \in Nat /\ i * n \in Nat
  BY <1>1
<1>3. (i + 1 + d) * n = i * n + n + d * n
  BY <1>1
<1>4. QED
  BY <1>1, <1>2, <1>3

LEMMA AreasApart ==
  /\ overflow \in Starts
  /\ \A k \in Keys : Home(k) \in Starts /\ Home(k) # overflow
  /\ \A a \in Starts : a \in Nat /\ Area(a) \subseteq Slots /\ Area(a) \subseteq Nat
  /\ \A a, b \in Starts : a # b => Area(a) \cap Area(b) = {}
<1> DEFINE n == bucket_size
<1>0. n \in Nat /\ n > 0 /\ buckets \in Nat /\ buckets > 0
  BY BucketAssumption
<1> HIDE DEF n
<1>1. Starts = {b * n : b \in 0 .. buckets} /\ overflow = buckets * n
  BY DEF Starts, overflow, n
<1>2. \A b \in 0 .. buckets : b \in Nat /\ b * n \in Nat
  BY <1>0
<1>3. overflow \in Starts
  BY <1>0, <1>1
<1>4. ASSUME NEW k \in Keys PROVE Home(k) \in Starts /\ Home(k) # overflow
  <2> DEFINE h == Hash[k] % buckets
  <2>1. Hash[k] \in Nat
    BY HashAssumption
  <2>2. h \in 0 .. buckets - 1
    BY <1>0, <2>1
  <2>3. Home(k) = h * n
    BY DEF Home, n
  <2> HIDE DEF h
  <2>4. h \in Nat /\ h < buckets /\ h \in 0 .. buckets
    BY <1>0, <2>2
  <2>5. h * n + n <= buckets * n /\ h * n \in Nat /\ buckets * n \in Nat
    BY <1>0, <1>2, <2>4, NextStart
  <2>6. QED
    BY <1>0, <1>1, <2>3, <2>4, <2>5
<1>5. ASSUME NEW a \in Starts PROVE a \in Nat /\ Area(a) \subseteq Slots /\ Area(a) \subseteq Nat
  <2>1. PICK b \in 0 .. buckets : a = b * n
    BY <1>1
  <2>2. a \in Nat /\ overflow \in Nat /\ b \in Nat
    BY <1>0, <1>1, <1>2, <2>1
  <2>3. a <= overflow
    <3>1. CASE b = buckets
      BY <1>1, <2>1, <2>2, <3>1
    <3>2. CASE b < buckets
      <4>1. b * n + n <= buckets * n
        BY <1>0, <2>2, <3>2, NextStart
      <4>2. QED
        BY <1>0, <1>1, <2>1, <2>2, <4>1
    <3>3. QED
      BY <1>0, <3>1, <3>2
  <2>4. QED
    BY <1>0, <2>2, <2>3 DEF Area, Slots, n
<1>6. ASSUME NEW a \in Starts, NEW b \in Starts, a # b PROVE Area(a) \cap Area(b) = {}
  <2>1. PICK i \in 0 .. buckets : a = i * n
    BY <1>1
  <2>2. PICK j \in 0 .. buckets : b = j * n
    BY <1>1
  <2>3. i \in Nat /\ j \in Nat /\ a \in Nat /\ b \in Nat /\ i # j
    BY <1>2, <1>6, <2>1, <2>2
  <2>4. i < j => a + n <= b
    BY <1>0, <2>1, <2>2, <2>3, NextStart
  <2>5. j < i => b + n <= a
    BY <1>0, <2>1, <2>2, <2>3, NextStart
  <2>6. a + n <= b \/ b + n <= a
    BY <2>3, <2>4, <2>5
  <2>7. QED
    BY <1>0, <2>3, <2>6 DEF Area, n
<1>7. QED
  BY <1>3, <1>4, <1>5, <1>6

Entries == {Nothing} \cup [key : Keys, bErased : BOOLEAN]

LEMMA EntriesAre ==
  /\ \A x \in Entries : x # Nothing => x.key \in Keys /\ x.bErased \in BOOLEAN
  /\ \A x \in Entries : \A k : x = Item(k) <=> x # Nothing /\ x.key = k /\ ~x.bErased
  /\ \A k \in Keys : Item(k) \in Entries /\ Item(k) # Nothing
  /\ \A k, l : Item(k) = Item(l) => k = l
<1>1. \A x \in [key : Keys, bErased : BOOLEAN] : x # <<>>
  <2>1. SUFFICES ASSUME NEW x \in [key : Keys, bErased : BOOLEAN], x = <<>> PROVE FALSE
    OBVIOUS
  <2>2. "key" \in DOMAIN x
    OBVIOUS
  <2>3. DOMAIN x = {}
    BY <2>1
  <2>4. QED
    BY <2>2, <2>3
<1>2. \A x \in Entries : x # Nothing => x \in [key : Keys, bErased : BOOLEAN]
  BY DEF Entries
<1>3. \A k \in Keys : Item(k) \in [key : Keys, bErased : BOOLEAN]
  BY DEF Item
<1>4. \A k : Item(k).key = k /\ Item(k).bErased = FALSE
  BY DEF Item
<1>5. ASSUME NEW x \in Entries, x # Nothing, NEW k PROVE x = Item(k) <=> x.key = k /\ ~x.bErased
  <2>1. x = [key |-> x.key, bErased |-> x.bErased] /\ x.bErased \in BOOLEAN
    BY <1>2, <1>5
  <2>2. ASSUME x.key = k, ~x.bErased PROVE x = Item(k)
    <3>1. x.bErased = FALSE
      BY <2>1, <2>2
    <3>2. QED
      BY <2>1, <2>2, <3>1 DEF Item
  <2>3. QED
    BY <1>4, <2>2
<1>6. ASSUME NEW k PROVE Nothing # Item(k)
  <2>1. "key" \in DOMAIN Item(k)
    BY DEF Item
  <2>2. DOMAIN Nothing = {}
    BY DEF Nothing
  <2>3. QED
    BY <2>1, <2>2
<1>7. QED
  BY <1>1, <1>2, <1>3, <1>4, <1>5, <1>6 DEF Entries, Nothing

(* What the slots hold: an area is used from its beginning on, has a key   *)
(* once, erased or not, and the overflow area has only keys whose bucket   *)
(* is full.                                                                *)
Full(e, a) == \A s \in Area(a) : e[s] # Nothing
FromFront(e) == \A a \in Starts : \A s, t \in Area(a) : s < t /\ e[t] # Nothing => e[s] # Nothing
KeyOnce(e) ==
  \A a \in Starts : \A s, t \in Area(a) :
    e[s] # Nothing /\ e[t] # Nothing /\ e[s].key = e[t].key => s = t
InBucket(e) ==
  \A s \in Slots : e[s] # Nothing =>
    \/ s \in Area(Home(e[s].key))
    \/ s \in Area(overflow) /\ Full(e, Home(e[s].key))
Packed(e) == e \in [Slots -> Entries] /\ FromFront(e) /\ KeyOnce(e) /\ InBucket(e)

LiveSlots(e) == {s \in Slots : e[s] # Nothing /\ ~e[s].bErased}
Stores(e) == {k \in Keys : \E s \in Slots : e[s] = Item(k)}

BucketInv == Packed(elements) /\ iLive = Cardinality(LiveSlots(elements))

(* findSlot: the key's slot, else the first unused one, else an erased one.*)
Offered(e, k, a, s) ==
  /\ s \in Area(a)
  /\ \A t \in Area(a) : e[t] # Nothing /\ e[t].key = k => t = s
  /\ \A t \in Area(a) : t < s => e[t] # Nothing
  /\ e[s] # Nothing /\ e[s].key # k => e[s].bErased /\ Full(e, a)
NoneOffered(e, k, a) ==
  \A t \in Area(a) : e[t] # Nothing /\ e[t].key # k /\ ~e[t].bErased

LEMMA FindSlotFacts ==
  ASSUME Packed(elements), NEW k \in Keys, NEW a \in Starts
  PROVE  \/ FindSlot(k, a) # NoSlot /\ Offered(elements, k, a, FindSlot(k, a))
         \/ FindSlot(k, a) = NoSlot /\ NoneOffered(elements, k, a)
<1> DEFINE stops == Unused(a) \cup HasKey(k, a)
           f == FindSlot(k, a)
<1>1. Area(a) \subseteq Nat /\ Area(a) \subseteq Slots
  BY AreasApart
<1>2. stops \subseteq Area(a) /\ ErasedIn(a) \subseteq Area(a)
  BY DEF Unused, HasKey, ErasedIn
<1>3. f = IF stops # {} THEN First(stops) ELSE IF ErasedIn(a) # {} THEN First(ErasedIn(a)) ELSE NoSlot
  BY DEF FindSlot
<1>4. \A s \in Area(a) : elements[s] = Nothing => s \in stops
  BY DEF Unused
<1>5. \A s \in Area(a) : elements[s] # Nothing /\ elements[s].key = k => s \in stops
  BY DEF HasKey
<1>6. \A s \in stops : elements[s] = Nothing \/ (elements[s] # Nothing /\ elements[s].key = k)
  BY DEF Unused, HasKey
<1>7. FromFront(elements) /\ KeyOnce(elements)
  BY DEF Packed
<1> HIDE DEF stops, f
<1>8. CASE stops # {}
  <2>1. f \in stops /\ \A s \in stops : f <= s
    <3>1. stops \subseteq Nat
      BY <1>1, <1>2
    <3>2. QED
      BY <1>3, <1>8, <3>1, FirstIs
  <2>2. f \in Area(a) /\ f \in Nat
    BY <1>1, <1>2, <2>1
  <2>3. \A t \in Area(a) : t < f => elements[t] # Nothing
    BY <1>1, <1>4, <2>1, <2>2
  <2>4. ASSUME NEW t \in Area(a), elements[t] # Nothing, elements[t].key = k PROVE t = f
    <3>1. t \in stops /\ f <= t /\ t \in Nat
      BY <1>1, <1>5, <2>1, <2>4
    <3>2. CASE elements[f] = Nothing
      BY <1>7, <2>2, <2>4, <3>1, <3>2 DEF FromFront
    <3>3. CASE elements[f] # Nothing /\ elements[f].key = k
      BY <1>7, <2>2, <2>4, <3>3 DEF KeyOnce
    <3>4. QED
      BY <1>6, <2>1, <3>2, <3>3
  <2>5. f # NoSlot
    BY <2>2 DEF NoSlot
  <2>6. elements[f] = Nothing \/ elements[f].key = k
    BY <1>6, <2>1
  <2>7. Offered(elements, k, a, f)
    BY <2>2, <2>3, <2>4, <2>6 DEF Offered
  <2>8. QED
    BY <2>5, <2>7 DEF f
<1>9. CASE stops = {}
  <2>1. /\ \A t \in Area(a) : elements[t] # Nothing /\ elements[t].key # k
        /\ Full(elements, a)
    BY <1>4, <1>5, <1>9 DEF Full
  <2>2. CASE ErasedIn(a) # {}
    <3>1. f \in ErasedIn(a)
      BY <1>1, <1>2, <1>3, <1>9, <2>2, FirstIs
    <3>2. f \in Area(a) /\ elements[f].bErased /\ f \in Nat
      BY <1>1, <3>1 DEF ErasedIn
    <3>3. f # NoSlot
      BY <3>2 DEF NoSlot
    <3>4. Offered(elements, k, a, f)
      BY <2>1, <3>2 DEF Offered
    <3>5. QED
      BY <3>3, <3>4 DEF f
  <2>3. CASE ErasedIn(a) = {}
    <3>1. f = NoSlot
      BY <1>3, <1>9, <2>3
    <3>2. \A t \in Area(a) : ~elements[t].bErased
      BY <2>1, <2>3 DEF ErasedIn
    <3>3. QED
      BY <2>1, <3>1, <3>2 DEF f, NoneOffered
  <2>4. QED
    BY <2>2, <2>3
<1>10. QED
  BY <1>8, <1>9

(* The slot for a key: one the bucket offers, or one the overflow area     *)
(* offers when the bucket has none.                                        *)
LEMMA SlotForFacts ==
  ASSUME Packed(elements), NEW k \in Keys
  PROVE  \/ /\ SlotFor(k) # NoSlot
            /\ \E a \in {Home(k), overflow} :
                 /\ Offered(elements, k, a, SlotFor(k))
                 /\ a = overflow => NoneOffered(elements, k, Home(k))
         \/ /\ SlotFor(k) = NoSlot
            /\ NoneOffered(elements, k, Home(k)) /\ NoneOffered(elements, k, overflow)
<1>1. Home(k) \in Starts /\ overflow \in Starts /\ Home(k) # overflow
  BY AreasApart
<1>2. SlotFor(k) = IF FindSlot(k, Home(k)) = NoSlot THEN FindSlot(k, overflow) ELSE FindSlot(k, Home(k))
  BY DEF SlotFor
<1>3. /\ \/ FindSlot(k, Home(k)) # NoSlot /\ Offered(elements, k, Home(k), FindSlot(k, Home(k)))
         \/ FindSlot(k, Home(k)) = NoSlot /\ NoneOffered(elements, k, Home(k))
      /\ \/ FindSlot(k, overflow) # NoSlot /\ Offered(elements, k, overflow, FindSlot(k, overflow))
         \/ FindSlot(k, overflow) = NoSlot /\ NoneOffered(elements, k, overflow)
  BY <1>1, FindSlotFacts
<1>4. CASE FindSlot(k, Home(k)) # NoSlot
  <2>1. SlotFor(k) = FindSlot(k, Home(k))
    BY <1>2, <1>4
  <2>2. SlotFor(k) # NoSlot /\ Offered(elements, k, Home(k), SlotFor(k))
    BY <1>3, <1>4, <2>1
  <2>3. QED
    BY <1>1, <2>2
<1>5. CASE FindSlot(k, Home(k)) = NoSlot
  <2>1. SlotFor(k) = FindSlot(k, overflow) /\ NoneOffered(elements, k, Home(k))
    BY <1>2, <1>3, <1>5
  <2>2. \/ SlotFor(k) # NoSlot /\ Offered(elements, k, overflow, SlotFor(k))
        \/ SlotFor(k) = NoSlot /\ NoneOffered(elements, k, overflow)
    BY <1>3, <2>1
  <2>3. QED
    BY <2>1, <2>2
<1>6. QED
  BY <1>4, <1>5

(* A key is put into the slot that is offered for it.                      *)
Puts(e, k, s, u) == u = [e EXCEPT ![s] = Item(k)]
LEMMA BucketPut ==
  ASSUME NEW e, Packed(e), NEW k \in Keys, NEW a \in {Home(k), overflow}, NEW s,
         Offered(e, k, a, s), a = overflow => Full(e, Home(k)),
         NEW u, Puts(e, k, s, u)
  PROVE  /\ Packed(u) /\ s \in Slots /\ u[s] = Item(k) /\ LiveSlots(u) = LiveSlots(e) \cup {s}
         /\ s \in LiveSlots(e) <=> e[s] = Item(k)
         /\ Stores(u) = Stores(e) \cup {k}
<1>1. a \in Starts /\ Home(k) \in Starts /\ overflow \in Starts /\ Area(a) \subseteq Slots
  BY AreasApart
<1>2. s \in Area(a) /\ s \in Slots /\ e \in [Slots -> Entries] /\ Item(k) \in Entries
  BY <1>1, EntriesAre DEF Offered, Packed
<1>3. u \in [Slots -> Entries] /\ u[s] = Item(k) /\ \A t \in Slots : t # s => u[t] = e[t]
  BY <1>2 DEF Puts
<1>4. Item(k) # Nothing /\ Item(k).key = k /\ ~Item(k).bErased
  BY EntriesAre DEF Item
<1>5. \A t \in Slots : e[t] # Nothing => u[t] # Nothing
  BY <1>3, <1>4
<1>6. \A b \in Starts : Full(e, b) => Full(u, b)
  BY <1>5, AreasApart DEF Full
<1>7. FromFront(u)
  <2>1. ASSUME NEW b \in Starts, NEW t \in Area(b), NEW v \in Area(b), t < v, u[v] # Nothing
        PROVE  u[t] # Nothing
    <3>1. t \in Slots /\ v \in Slots
      BY AreasApart
    <3>2. CASE v # s
      <4>1. e[v] # Nothing /\ e[t] # Nothing
        BY <1>3, <2>1, <3>1, <3>2 DEF Packed, FromFront
      <4>2. QED
        BY <1>5, <3>1, <4>1
    <3>3. CASE v = s
      <4>1. b = a
        BY <1>1, <1>2, <3>3, AreasApart
      <4>2. e[t] # Nothing
        BY <2>1, <3>3, <4>1 DEF Offered
      <4>3. QED
        BY <1>5, <3>1, <4>2
    <3>4. QED
      BY <3>2, <3>3
  <2>2. QED
    BY <2>1 DEF FromFront
<1>8. KeyOnce(u)
  <2>1. ASSUME NEW t \in Area(a), t # s, u[t] # Nothing, u[t].key = k PROVE FALSE
    BY <1>1, <1>3, <2>1 DEF Offered
  <2>2. ASSUME NEW b \in Starts, NEW t \in Area(b), NEW v \in Area(b),
               u[t] # Nothing, u[v] # Nothing, u[t].key = u[v].key
        PROVE  t = v
    <3>1. t \in Slots /\ v \in Slots
      BY AreasApart
    <3>2. CASE t # s /\ v # s
      BY <1>3, <2>2, <3>1, <3>2 DEF Packed, KeyOnce
    <3>3. CASE t = s \/ v = s
      <4>1. b = a /\ u[t].key = k /\ u[v].key = k
        BY <1>1, <1>2, <1>3, <1>4, <2>2, <3>3, AreasApart
      <4>2. t = s /\ v = s
        BY <2>1, <2>2, <4>1
      <4>3. QED
        BY <4>2
    <3>4. QED
      BY <3>2, <3>3
  <2>3. QED
    BY <2>2 DEF KeyOnce
<1>9. InBucket(u)
  <2>1. ASSUME NEW t \in Slots, u[t] # Nothing
        PROVE  t \in Area(Home(u[t].key)) \/ (t \in Area(overflow) /\ Full(u, Home(u[t].key)))
    <3>1. CASE t = s
      BY <1>1, <1>2, <1>3, <1>4, <1>6, <3>1
    <3>2. CASE t # s
      <4>1. u[t] = e[t] /\ e[t] # Nothing /\ e[t].key \in Keys
        BY <1>2, <1>3, <2>1, <3>2, EntriesAre
      <4>2. Home(e[t].key) \in Starts
        BY <4>1, AreasApart
      <4>3. t \in Area(Home(e[t].key)) \/ (t \in Area(overflow) /\ Full(e, Home(e[t].key)))
        BY <4>1 DEF Packed, InBucket
      <4>4. QED
        BY <1>6, <4>1, <4>2, <4>3
    <3>3. QED
      BY <3>1, <3>2
  <2>2. QED
    BY <2>1 DEF InBucket
<1>10. LiveSlots(u) = LiveSlots(e) \cup {s}
  BY <1>2, <1>3, <1>4 DEF LiveSlots
<1>11. e[s] = Nothing \/ e[s].bErased \/ e[s] = Item(k)
  <2>1. e[s] \in Entries
    BY <1>2
  <2>2. e[s] # Nothing /\ e[s].key = k /\ ~e[s].bErased => e[s] = Item(k)
    BY <2>1, EntriesAre
  <2>3. QED
    BY <2>2 DEF Offered
<1>12. s \in LiveSlots(e) <=> e[s] = Item(k)
  BY <1>2, <1>4, <1>11 DEF LiveSlots
<1>13. \A l \in Keys : l # k => e[s] # Item(l)
  <2>1. e[s] \in Entries
    BY <1>2
  <2>2. QED
    BY <1>11, <2>1, EntriesAre
<1>14. Stores(u) = Stores(e) \cup {k}
  <2>1. ASSUME NEW l \in Keys, l # k PROVE l \in Stores(u) <=> l \in Stores(e)
    <3>1. u[s] # Item(l)
      BY <1>3, <2>1, EntriesAre
    <3>2. \A t \in Slots : u[t] = Item(l) <=> e[t] = Item(l)
      BY <1>3, <1>13, <2>1, <3>1
    <3>3. QED
      BY <3>2 DEF Stores
  <2>2. k \in Stores(u)
    BY <1>2, <1>3 DEF Stores
  <2>3. QED
    BY <2>1, <2>2 DEF Stores
<1>15. QED
  BY <1>2, <1>3, <1>7, <1>8, <1>9, <1>10, <1>12, <1>14 DEF Packed

(* Some of the elements are marked as erased.                              *)
Marks(e, M, u) ==
  u = [s \in Slots |-> IF s \in M /\ e[s] # Nothing
                         THEN [e[s] EXCEPT !.bErased = TRUE] ELSE e[s]]

LEMMA BucketMark ==
  ASSUME NEW e, Packed(e), NEW M, NEW u, Marks(e, M, u)
  PROVE  /\ Packed(u) /\ LiveSlots(u) = LiveSlots(e) \ M
         /\ \A s \in Slots : e[s] # Nothing =>
              u[s] # Nothing /\ u[s].key = e[s].key /\ (u[s].bErased <=> e[s].bErased \/ s \in M)
<1>1. e \in [Slots -> Entries]
  BY DEF Packed
<1>2. ASSUME NEW s \in Slots
      PROVE  /\ u[s] \in Entries /\ (u[s] = Nothing <=> e[s] = Nothing)
             /\ e[s] # Nothing => u[s].key = e[s].key
             /\ e[s] # Nothing => (u[s].bErased <=> e[s].bErased \/ s \in M)
  <2>1. u[s] = IF s \in M /\ e[s] # Nothing THEN [e[s] EXCEPT !.bErased = TRUE] ELSE e[s]
    BY DEF Marks
  <2>2. CASE s \in M /\ e[s] # Nothing
    <3>1. e[s] \in [key : Keys, bErased : BOOLEAN]
      BY <1>1, <2>2 DEF Entries
    <3>2. u[s] = [key |-> e[s].key, bErased |-> TRUE] /\ e[s].key \in Keys
      BY <2>1, <2>2, <3>1
    <3>3. u[s] \in Entries /\ u[s].key = e[s].key /\ u[s].bErased
      <4>1. PICK m \in Keys : m = e[s].key
        BY <3>2
      <4>2. [key |-> m, bErased |-> TRUE] \in [key : Keys, bErased : BOOLEAN]
        OBVIOUS
      <4>3. u[s] = [key |-> m, bErased |-> TRUE]
        BY <3>2, <4>1
      <4>4. u[s].key = m /\ u[s].bErased = TRUE
        BY <4>3
      <4>5. QED
        BY <4>1, <4>2, <4>3, <4>4 DEF Entries
    <3>4. u[s] # Nothing
      <4>1. "key" \in DOMAIN u[s] /\ DOMAIN Nothing = {}
        BY <3>2 DEF Nothing
      <4>2. QED
        BY <4>1
    <3>5. QED
      BY <2>2, <3>3, <3>4
  <2>3. CASE ~(s \in M /\ e[s] # Nothing)
    BY <1>1, <2>1, <2>3
  <2>4. QED
    BY <2>2, <2>3
<1>3. u \in [Slots -> Entries]
  BY <1>2 DEF Marks
<1> USE AreasApart
<1>4. \A a \in Starts : Full(e, a) => Full(u, a)
  BY <1>2 DEF Full
<1>5. FromFront(u)
  BY <1>2 DEF Packed, FromFront
<1>6. KeyOnce(u)
  BY <1>2 DEF Packed, KeyOnce
<1>7. ASSUME NEW s \in Slots, u[s] # Nothing
      PROVE  s \in Area(Home(u[s].key)) \/ (s \in Area(overflow) /\ Full(u, Home(u[s].key)))
  <2>1. e[s] # Nothing /\ u[s].key = e[s].key /\ e[s].key \in Keys
    BY <1>1, <1>2, <1>7, EntriesAre
  <2>2. Home(e[s].key) \in Starts
    BY <2>1
  <2>3. s \in Area(Home(e[s].key)) \/ (s \in Area(overflow) /\ Full(e, Home(e[s].key)))
    BY <2>1 DEF Packed, InBucket
  <2>4. QED
    BY <1>4, <2>1, <2>2, <2>3
<1>8. LiveSlots(u) = LiveSlots(e) \ M
  BY <1>2 DEF LiveSlots
<1>9. QED
  BY <1>2, <1>3, <1>5, <1>6, <1>7, <1>8 DEF Packed, InBucket

LEMMA BucketStarts == BucketInit => BucketInv
<1>1. SUFFICES ASSUME BucketInit PROVE BucketInv
  OBVIOUS
<1>2. elements \in [Slots -> Entries] /\ \A s \in Slots : elements[s] = Nothing
  BY <1>1 DEF BucketInit, Entries
<1>3. Packed(elements)
  BY <1>2, AreasApart DEF Packed, FromFront, KeyOnce, InBucket
<1>4. LiveSlots(elements) = {}
  BY <1>2 DEF LiveSlots
<1>5. QED
  BY <1>1, <1>3, <1>4, FS_EmptySet DEF BucketInv, BucketInit

LEMMA SlotsFinite == \A e : IsFiniteSet(LiveSlots(e))
<1>1. overflow \in Nat /\ bucket_size \in Nat
  BY BucketAssumption, AreasApart
<1>2. IsFiniteSet(Slots)
  BY <1>1, FS_Interval DEF Slots
<1>3. \A e : LiveSlots(e) \in SUBSET Slots
  BY DEF LiveSlots
<1>4. QED
  BY <1>2, <1>3, FS_Subset

(* insert, where a slot is offered.                                        *)
LEMMA BucketInsertFacts ==
  ASSUME BucketInv, NEW k \in Keys, BucketInsert(k)
  PROVE  BucketInv' /\ Stores(elements') = Stores(elements) \cup {k}
<1> DEFINE s == SlotFor(k)
<1>1. Packed(elements) /\ iLive = Cardinality(LiveSlots(elements))
  BY DEF BucketInv
<1>2. PICK a \in {Home(k), overflow} :
        Offered(elements, k, a, s) /\ (a = overflow => NoneOffered(elements, k, Home(k)))
  BY <1>1, SlotForFacts DEF BucketInsert
<1>3. /\ elements' = [elements EXCEPT ![s] = Item(k)]
      /\ iLive' = IF elements[s] = Nothing \/ elements[s].bErased THEN iLive + 1 ELSE iLive
  BY DEF BucketInsert
<1> HIDE DEF s
<1>4. a = overflow => Full(elements, Home(k))
  BY <1>2 DEF NoneOffered, Full
<1>5. /\ Packed(elements') /\ s \in Slots /\ LiveSlots(elements') = LiveSlots(elements) \cup {s}
      /\ Stores(elements') = Stores(elements) \cup {k}
  <2>1. Puts(elements, k, s, elements')
    BY <1>3 DEF Puts
  <2>2. QED
    BY <1>1, <1>2, <1>4, <2>1, BucketPut
<1>6. s \in LiveSlots(elements) <=> ~(elements[s] = Nothing \/ elements[s].bErased)
  BY <1>5 DEF LiveSlots
<1>7. Cardinality(LiveSlots(elements) \cup {s})
        = IF s \in LiveSlots(elements) THEN Cardinality(LiveSlots(elements)) ELSE Cardinality(LiveSlots(elements)) + 1
  BY SlotsFinite, FS_AddElement
<1>8. QED
  BY <1>1, <1>3, <1>5, <1>6, <1>7 DEF BucketInv

(* The slot of a key that is found has it.                                 *)
LEMMA FoundSlot ==
  ASSUME Packed(elements), NEW k \in Keys, BucketFinds(k)
  PROVE  /\ elements[SlotFor(k)] = Item(k) /\ SlotFor(k) \in Slots
         /\ \E a \in {Home(k), overflow} :
              /\ Offered(elements, k, a, SlotFor(k))
              /\ a = overflow => NoneOffered(elements, k, Home(k))
<1> DEFINE s == SlotFor(k)
<1>1. s # NoSlot /\ elements[s] # Nothing /\ ~elements[s].bErased
  BY DEF BucketFinds
<1>2. PICK a \in {Home(k), overflow} :
        Offered(elements, k, a, s) /\ (a = overflow => NoneOffered(elements, k, Home(k)))
  BY <1>1, SlotForFacts
<1> HIDE DEF s
<1>3. a \in Starts /\ s \in Area(a) /\ s \in Slots
  BY <1>2, AreasApart DEF Offered
<1>4. elements[s].key = k /\ elements[s] \in Entries
  BY <1>1, <1>2, <1>3 DEF Offered, Packed
<1>5. elements[s] = Item(k)
  BY <1>1, <1>4, EntriesAre
<1>6. QED
  BY <1>2, <1>3, <1>5 DEF s

(* erase of a key that is found.                                           *)
LEMMA BucketEraseFacts ==
  ASSUME BucketInv, NEW k \in Keys, BucketErase(k), iLive >= 1, BucketFinds(k)
  PROVE  /\ BucketInv'
         /\ \A t \in Slots : t # SlotFor(k) => elements'[t] = elements[t]
         /\ elements'[SlotFor(k)] # Nothing /\ elements'[SlotFor(k)].bErased
         /\ elements'[SlotFor(k)].key = k
<1> DEFINE s == SlotFor(k)
<1>1. Packed(elements) /\ iLive = Cardinality(LiveSlots(elements)) /\ elements \in [Slots -> Entries]
  BY DEF BucketInv, Packed
<1>2. elements[s] = Item(k) /\ s \in Slots
  BY <1>1, FoundSlot
<1>3. iLive \in Nat
  BY <1>1, SlotsFinite, FS_CardinalityType
<1>4. elements' = [elements EXCEPT ![s].bErased = TRUE] /\ iLive' = iLive - 1
  BY <1>3 DEF BucketErase
<1> HIDE DEF s
<1>5. elements[s] # Nothing /\ ~elements[s].bErased /\ elements[s].key = k
  BY <1>2, EntriesAre DEF Item
<1> DEFINE M == {s}
           u == [t \in Slots |-> IF t \in M /\ elements[t] # Nothing
                                   THEN [elements[t] EXCEPT !.bErased = TRUE] ELSE elements[t]]
<1>6. elements' = u
  BY <1>1, <1>2, <1>4, <1>5
<1>7. \A t \in Slots : t # s => u[t] = elements[t]
  OBVIOUS
<1>8. /\ Packed(u) /\ LiveSlots(u) = LiveSlots(elements) \ M
      /\ \A t \in Slots : elements[t] # Nothing =>
           u[t] # Nothing /\ u[t].key = elements[t].key /\ (u[t].bErased <=> elements[t].bErased \/ t \in M)
  <2>1. Marks(elements, M, u)
    BY DEF Marks
  <2> HIDE DEF M, u
  <2>2. QED
    BY <1>1, <2>1, BucketMark
<1> HIDE DEF u
<1>9. s \in LiveSlots(elements)
  BY <1>2, <1>5 DEF LiveSlots
<1>10. Cardinality(LiveSlots(elements) \ {s}) = Cardinality(LiveSlots(elements)) - 1
  BY <1>9, SlotsFinite, FS_RemoveElement
<1>11. BucketInv'
  BY <1>1, <1>4, <1>6, <1>8, <1>10 DEF BucketInv
<1>12. u[s] # Nothing /\ u[s].bErased /\ u[s].key = k
  BY <1>2, <1>5, <1>8
<1>13. QED
  BY <1>6, <1>7, <1>11, <1>12 DEF s

LEMMA BucketClearFacts ==
  ASSUME BucketInv, NEW data_erase \in BOOLEAN, BucketClear(data_erase)
  PROVE  BucketInv' /\ Stores(elements') = {}
<1>1. Packed(elements)
  BY DEF BucketInv
<1>2. Packed(elements') /\ LiveSlots(elements') = {}
  <2>1. CASE data_erase
    <3>1. elements' \in [Slots -> Entries] /\ \A s \in Slots : elements'[s] = Nothing
      BY <2>1 DEF BucketClear, Entries
    <3>2. QED
      BY <3>1, AreasApart DEF Packed, FromFront, KeyOnce, InBucket, LiveSlots
  <2>2. CASE ~data_erase
    <3> DEFINE u == [s \in Slots |-> IF s \in Slots /\ elements[s] # Nothing
                                       THEN [elements[s] EXCEPT !.bErased = TRUE] ELSE elements[s]]
    <3>1. \A s \in Slots : elements'[s] = u[s]
      BY <2>2 DEF BucketClear
    <3>2. elements' = u
      BY <2>2, <3>1 DEF BucketClear
    <3>3. Marks(elements, Slots, u)
      BY DEF Marks
    <3> HIDE DEF u
    <3>4. Packed(u) /\ LiveSlots(u) = LiveSlots(elements) \ Slots
      BY <1>1, <3>3, BucketMark
    <3>5. QED
      BY <3>2, <3>4 DEF LiveSlots
  <2>3. QED
    BY <2>1, <2>2
<1>3. Stores(elements') = {}
  <2>1. SUFFICES ASSUME NEW k \in Keys, NEW s \in Slots, elements'[s] = Item(k) PROVE FALSE
    BY DEF Stores
  <2>2. Item(k) # Nothing /\ ~Item(k).bErased
    BY EntriesAre DEF Item
  <2>3. s \in LiveSlots(elements')
    BY <2>1, <2>2 DEF LiveSlots
  <2>4. QED
    BY <1>2, <2>3
<1>4. iLive' = 0
  BY DEF BucketClear
<1>5. QED
  BY <1>2, <1>3, <1>4, FS_EmptySet DEF BucketInv

LEMMA BucketStep == BucketInv /\ [BucketNext]_bucketVars => BucketInv'
<1>1. SUFFICES ASSUME BucketInv, [BucketNext]_bucketVars PROVE BucketInv'
  OBVIOUS
<1>2. CASE UNCHANGED <<elements, iLive>>
  BY <1>1, <1>2 DEF BucketInv
<1>3. ASSUME NEW k \in Keys, BucketErase(k), ~(iLive < 1 \/ ~BucketFinds(k)) PROVE BucketInv'
  <2>1. iLive \in Nat
    BY <1>1, SlotsFinite, FS_CardinalityType DEF BucketInv
  <2>2. iLive >= 1 /\ BucketFinds(k)
    BY <1>3, <2>1
  <2>3. QED
    BY <1>1, <1>3, <2>2, BucketEraseFacts
<1>4. ASSUME NEW k \in Keys, BucketErase(k) PROVE BucketInv'
  BY <1>2, <1>3, <1>4 DEF BucketErase
<1>5. QED
  BY <1>1, <1>2, <1>4, BucketInsertFacts, BucketClearFacts
     DEF BucketNext, bucketVars, BucketRefuses

LEMMA AlwaysBucketInv == BucketSpec => []BucketInv
<1>1. QED
  BY BucketStarts, BucketStep, PTL DEF BucketSpec

(* What is found, and where the others are.                                *)
LEMMA BucketKnows ==
  BucketInv =>
    \A k \in Keys : /\ k \in Stores(elements) => BucketFinds(k) \/ Hidden(k)
                    /\ BucketFinds(k) => k \in Stores(elements)
<1>1. SUFFICES ASSUME BucketInv, NEW k \in Keys
               PROVE  /\ k \in Stores(elements) => BucketFinds(k) \/ Hidden(k)
                      /\ BucketFinds(k) => k \in Stores(elements)
  OBVIOUS
<1>2. Packed(elements) /\ elements \in [Slots -> Entries]
  BY <1>1 DEF BucketInv, Packed
<1>3. BucketFinds(k) => k \in Stores(elements)
  BY <1>2, FoundSlot DEF Stores
<1>4. ASSUME NEW s \in Slots, elements[s] = Item(k), ~BucketFinds(k) PROVE Hidden(k)
  <2> DEFINE f == SlotFor(k)
  <2>0. /\ Home(k) \in Starts /\ overflow \in Starts /\ Home(k) # overflow
        /\ Area(Home(k)) \cap Area(overflow) = {}
        /\ Area(Home(k)) \subseteq Slots /\ Area(overflow) \subseteq Slots
    BY AreasApart
  <2>1. elements[s] # Nothing /\ elements[s].key = k /\ ~elements[s].bErased
    BY <1>4, EntriesAre DEF Item
  <2>2. s \in Area(Home(k)) \/ (s \in Area(overflow) /\ Full(elements, Home(k)))
    BY <1>2, <2>1 DEF Packed, InBucket
  <2>3. f = NoSlot \/ elements[f] = Nothing \/ elements[f].bErased
    BY <1>4 DEF BucketFinds
  <2>4. \/ /\ f # NoSlot
           /\ \E a \in {Home(k), overflow} :
                Offered(elements, k, a, f) /\ (a = overflow => NoneOffered(elements, k, Home(k)))
        \/ f = NoSlot /\ NoneOffered(elements, k, Home(k)) /\ NoneOffered(elements, k, overflow)
    BY <1>2, SlotForFacts
  <2> HIDE DEF f
  <2>5. PICK a \in {Home(k), overflow} :
          Offered(elements, k, a, f) /\ (a = overflow => NoneOffered(elements, k, Home(k)))
    BY <2>1, <2>2, <2>4 DEF NoneOffered
  <2>6. f # s
    BY <2>1, <2>3, <2>4, <2>5, <2>0 DEF Offered, Slots, NoSlot
  <2>7. s \notin Area(a)
    BY <2>1, <2>5, <2>6 DEF Offered
  <2>8. a = Home(k) /\ s \in Area(overflow) /\ Full(elements, Home(k))
    <3>1. a # overflow
      BY <2>1, <2>2, <2>5, <2>7 DEF NoneOffered
    <3>2. QED
      BY <2>2, <2>7, <3>1
  <2>9. Unused(Home(k)) = {}
    BY <2>8 DEF Unused, Full
  <2>10. f \in Area(Home(k)) /\ elements[f] # Nothing
    BY <2>5, <2>8 DEF Offered, Full
  <2>11. f # NoSlot
    BY <2>10, <2>0, AreasApart DEF NoSlot
  <2>12. f \in ErasedIn(Home(k))
    BY <2>3, <2>10, <2>11 DEF ErasedIn
  <2>13. s \in Stored(k) \cap Area(overflow)
    BY <1>4, <2>8 DEF Stored
  <2>14. ASSUME NEW t \in Area(Home(k)), elements[t] = Item(k) PROVE FALSE
    <3>1. t \in Slots /\ elements[t] # Nothing /\ elements[t].key = k /\ ~elements[t].bErased
      BY <2>0, <2>14, EntriesAre DEF Item
    <3>2. t = f
      BY <2>5, <2>8, <3>1 DEF Offered
    <3>3. QED
      BY <2>3, <2>10, <2>11, <3>1, <3>2
  <2>15. Stored(k) \cap Area(Home(k)) = {}
    BY <2>14 DEF Stored
  <2>16. QED
    BY <2>9, <2>12, <2>13, <2>15 DEF Hidden
<1>5. QED
  BY <1>3, <1>4 DEF Stores

(* An item is lost only while its bucket has an erased element in a full   *)
(* area and the item is in the overflow area, and no area has a key twice, *)
(* for all keys, hash values, and numbers and sizes of buckets             *)
(* (HashTableBucketHashing.h:83-119, :158-172).                            *)
THEOREM BucketLosesOnlyHidden == BucketSpec => []LostOnlyWhenHidden
<1>1. ASSUME BucketInv PROVE LostOnlyWhenHidden
  <2>1. ASSUME NEW k \in Keys, Stored(k) # {} PROVE BucketFinds(k) \/ Hidden(k)
    <3>1. k \in Stores(elements)
      BY <2>1 DEF Stores, Stored
    <3>2. QED
      BY <1>1, <3>1, BucketKnows
  <2>2. ASSUME NEW k \in Keys, NEW a \in {Home(k), overflow} PROVE Cardinality(Stored(k) \cap Area(a)) <= 1
    <3> DEFINE S == Stored(k) \cap Area(a)
    <3>1. a \in Starts
      BY AreasApart
    <3>2. \A s \in S : elements[s] # Nothing /\ elements[s].key = k /\ s \in Area(a)
      BY EntriesAre DEF Stored, Item
    <3>3. KeyOnce(elements)
      BY <1>1 DEF BucketInv, Packed
    <3>4. \A s, t \in S : s = t
      BY <3>1, <3>2, <3>3 DEF KeyOnce
    <3> HIDE DEF S
    <3>5. Cardinality(S) <= 1
      BY <3>4, AtMostOne
    <3>6. QED
      BY <3>5 DEF S
  <2>3. QED
    BY <2>1, <2>2 DEF LostOnlyWhenHidden
<1>2. QED
  BY <1>1, AlwaysBucketInv, PTL

(* size() counts the elements in use, for all keys, hash values and sizes, *)
(* so the early return of erase misses nothing                             *)
(* (HashTableBucketHashing.h:110-119).                                     *)
THEOREM BucketSizeCounts == BucketSpec => []SizeCounts
<1>1. ASSUME BucketInv PROVE SizeCounts
  <2>1. elements \in [Slots -> Entries] /\ iLive = Cardinality(LiveSlots(elements))
    BY <1>1 DEF BucketInv, Packed
  <2>2. ASSUME NEW s \in Slots
        PROVE  (\E k \in Keys : elements[s] = Item(k)) <=> elements[s] # Nothing /\ ~elements[s].bErased
    <3>1. elements[s] \in Entries
      BY <2>1
    <3>2. QED
      BY <3>1, EntriesAre
  <2>3. {s \in Slots : \E k \in Keys : elements[s] = Item(k)} = LiveSlots(elements)
    BY <2>2 DEF LiveSlots
  <2>4. QED
    BY <2>1, <2>3 DEF SizeCounts
<1>2. QED
  BY <1>1, AlwaysBucketInv, PTL

(* erase of a key that nothing hides afterwards: it is in no slot any more.*)
LEMMA BucketEraseRemoves ==
  ASSUME BucketInv, NEW k \in Keys, BucketErase(k), iLive >= 1, BucketFinds(k), ~Hidden(k)'
  PROVE  Stores(elements') = Stores(elements) \ {k}
<1> DEFINE s == SlotFor(k)
<1>1. /\ Packed(elements) /\ elements[s] = Item(k) /\ s \in Slots
  BY FoundSlot DEF BucketInv
<1>2. PICK a \in {Home(k), overflow} :
        Offered(elements, k, a, s) /\ (a = overflow => NoneOffered(elements, k, Home(k)))
  BY <1>1, FoundSlot
<1>3. /\ Packed(elements') /\ \A t \in Slots : t # s => elements'[t] = elements[t]
      /\ elements'[s] # Nothing /\ elements'[s].bErased /\ elements'[s].key = k
  BY BucketEraseFacts DEF BucketInv
<1> HIDE DEF s
<1>4. /\ Home(k) \in Starts /\ overflow \in Starts /\ Home(k) # overflow
      /\ Area(Home(k)) \subseteq Slots /\ Area(overflow) \subseteq Slots
      /\ Area(Home(k)) \cap Area(overflow) = {}
  BY AreasApart
<1>5. \A l : elements'[s] # Item(l)
  BY <1>3 DEF Item
<1>6. \A l \in Keys : l # k => elements[s] # Item(l)
  BY <1>1, EntriesAre
<1>7. ASSUME NEW t \in Slots, elements'[t] = Item(k) PROVE FALSE
  <2>1. t # s /\ elements[t] = Item(k)
    BY <1>3, <1>5, <1>7
  <2>2. elements[t] # Nothing /\ elements[t].key = k /\ ~elements[t].bErased
    BY <2>1, EntriesAre DEF Item
  <2>3. t \in Area(Home(k)) \/ (t \in Area(overflow) /\ Full(elements, Home(k)))
    BY <1>1, <2>2 DEF Packed, InBucket
  <2>4. t \notin Area(a)
    BY <1>2, <2>1, <2>2 DEF Offered
  <2>5. a = Home(k) /\ t \in Area(overflow) /\ Full(elements, Home(k))
    <3>1. a # overflow
      BY <1>2, <2>2, <2>3, <2>4 DEF NoneOffered
    <3>2. QED
      BY <2>3, <2>4, <3>1
  <2>6. s \in Area(Home(k)) /\ Area(Home(k)) \subseteq Slots
    BY <1>2, <1>4, <2>5 DEF Offered
  <2>7. \A v \in Area(Home(k)) : elements'[v] # Nothing
    BY <1>3, <2>5, <2>6 DEF Full
  <2>8. ASSUME NEW v \in Area(Home(k)) PROVE elements'[v] # Item(k)
    <3>1. CASE v = s
      BY <1>5, <3>1
    <3>2. CASE v # s
      <4>1. elements'[v] = elements[v] /\ v \in Slots
        BY <1>3, <2>6, <3>2
      <4>2. elements[v] # Item(k)
        BY <1>2, <2>5, <3>2, EntriesAre DEF Offered, Item
      <4>3. QED
        BY <4>1, <4>2
    <3>3. QED
      BY <3>1, <3>2
  <2>9. Hidden(k)'
    <3>1. (Unused(Home(k)) = {})'
      BY <2>7 DEF Unused, Home, Area
    <3>2. (ErasedIn(Home(k)) # {})'
      <4>1. PICK r \in Slots : r = s
        BY <2>6
      <4>2. r \in Area(Home(k)) /\ elements'[r] # Nothing /\ elements'[r].bErased
        BY <1>3, <2>6, <2>7, <4>1
      <4>3. (r \in ErasedIn(Home(k)))'
        BY <4>2 DEF ErasedIn, Home, Area, overflow
      <4>4. QED
        BY <4>3
    <3>3. (t \in Stored(k) \cap Area(overflow))'
      BY <1>7, <2>5 DEF Stored, Slots, overflow, Area
    <3>4. (Stored(k) \cap Area(Home(k)) = {})'
      BY <2>8 DEF Stored, Home, Area
    <3>5. QED
      BY <3>1, <3>2, <3>3, <3>4 DEF Hidden
  <2>10. QED
    BY <2>9
<1>8. \A l \in Keys : l # k => \A t \in Slots : elements'[t] = Item(l) <=> elements[t] = Item(l)
  BY <1>3, <1>5, <1>6
<1>9. QED
  BY <1>7, <1>8 DEF Stores

(* While nothing is hidden, each step of the table is one of a set of keys *)
(* that may refuse one, for all keys, hash values and sizes                *)
(* (HashTableBucketHashing.h:83-155).                                      *)
THEOREM BucketIsKeyTable == BucketSpec => BucketImplements
<1> DEFINE noneHidden == \A k \in Keys : ~Hidden(k)
           table == {k \in Keys : BucketFinds(k)}
<1>1. BucketInv /\ noneHidden => table = Stores(elements)
  BY BucketKnows DEF Stores
<1>2. ASSUME BucketInv, BucketInv', [BucketNext]_bucketVars, noneHidden, noneHidden'
      PROVE  Bucket!KeyTableNext \/ UNCHANGED <<elements, bucketCall>>
  <2>1. table = Stores(elements)
    BY <1>1, <1>2
  <2>2. table' = Stores(elements')
    <3>1. (table = Stores(elements))'
      BY <1>1, <1>2, PTL
    <3>2. QED
      BY <3>1 DEF Stores, Slots, overflow
  <2>3. Packed(elements)
    BY <1>2 DEF BucketInv
  <2> HIDE DEF table
  <2>4. ASSUME NEW k \in Keys, BucketInsert(k) PROVE Bucket!KeyInsert(k)
    <3>1. Stores(elements') = Stores(elements) \cup {k} /\ bucketCall' = <<"insert", k>>
      BY <1>2, <2>4, BucketInsertFacts DEF BucketInsert
    <3>2. table' = table \cup {k}
      BY <2>1, <2>2, <3>1
    <3>3. QED
      BY <3>1, <3>2 DEF Bucket!KeyInsert, table
  <2>5. ASSUME NEW k \in Keys, BucketRefuses(k) PROVE Bucket!KeyRefuse(k)
    <3>1. ~BucketFinds(k) /\ elements' = elements /\ bucketCall' = <<"refuse", k>>
      BY <2>5 DEF BucketRefuses, BucketFinds
    <3>2. k \notin table /\ table' = table
      BY <2>1, <2>2, <3>1 DEF table
    <3>3. QED
      BY <3>1, <3>2 DEF Bucket!KeyRefuse, table
  <2>6. ASSUME NEW k \in Keys, BucketErase(k) PROVE Bucket!KeyErase(k)
    <3>1. table' = table \ {k}
      <4>1. CASE iLive < 1
        <5>1. Cardinality(LiveSlots(elements)) < 1 /\ Cardinality(LiveSlots(elements)) \in Nat
          BY <1>2, <4>1, SlotsFinite, FS_CardinalityType DEF BucketInv
        <5>2. Cardinality(LiveSlots(elements)) = 0
          BY <5>1
        <5>3. LiveSlots(elements) = {}
          BY <5>2, SlotsFinite, FS_EmptySet
        <5>4. Stores(elements) = {}
          BY <5>3, EntriesAre DEF Stores, LiveSlots, Item
        <5>5. elements' = elements
          BY <2>6, <4>1 DEF BucketErase
        <5>6. QED
          BY <2>1, <2>2, <5>4, <5>5
      <4>2. CASE ~BucketFinds(k)
        <5>1. k \notin table /\ elements' = elements
          BY <2>6, <4>2 DEF BucketErase, table
        <5>2. QED
          BY <2>1, <2>2, <5>1
      <4>3. CASE ~(iLive < 1) /\ BucketFinds(k)
        <5>1. iLive \in Nat
          BY <1>2, SlotsFinite, FS_CardinalityType DEF BucketInv
        <5>2. iLive >= 1
          BY <4>3, <5>1
        <5>3. ~Hidden(k)'
          BY <1>2
        <5>4. Stores(elements') = Stores(elements) \ {k}
          BY <1>2, <2>6, <4>3, <5>2, <5>3, BucketEraseRemoves
        <5>5. QED
          BY <2>1, <2>2, <5>4
      <4>4. QED
        BY <4>1, <4>2, <4>3
    <3>2. bucketCall' = <<"erase", k>>
      BY <2>6 DEF BucketErase
    <3>3. QED
      BY <3>1, <3>2 DEF Bucket!KeyErase, table
  <2>7. ASSUME NEW data_erase \in BOOLEAN, BucketClear(data_erase) PROVE Bucket!KeyClear
    <3>1. Stores(elements') = {} /\ bucketCall' = <<"clear">>
      BY <1>2, <2>7, BucketClearFacts DEF BucketClear
    <3>2. table' = {}
      BY <2>2, <3>1
    <3>3. QED
      BY <3>1, <3>2 DEF Bucket!KeyClear, table
  <2>8. CASE UNCHANGED bucketVars
    BY <2>8 DEF bucketVars
  <2>9. QED
    BY <1>2, <2>4, <2>5, <2>6, <2>7, <2>8 DEF BucketNext, Bucket!KeyTableNext
<1>3. BucketInv /\ BucketInv' /\ [BucketNext]_bucketVars
        => [noneHidden /\ noneHidden' => Bucket!KeyTableNext \/ UNCHANGED <<elements, bucketCall>>]_bucketVars
  BY <1>2
<1>4. BucketInv /\ BucketInv' /\ [BucketNext]_bucketVars
        => [(\A k \in Keys : ~Hidden(k) /\ ~Hidden(k)') =>
              Bucket!KeyTableNext \/ UNCHANGED <<elements, bucketCall>>]_bucketVars
  BY <1>3
<1>5. QED
  BY <1>4, AlwaysBucketInv, PTL DEF BucketSpec, BucketImplements
-----------------------------------------------------------------------------
(* The sum of what was counted at seconds in which nothing was counted.    *)
LEMMA NothingCounted ==
  ASSUME NEW S, IsFiniteSet(S), \A t \in S : counted[t] = 0
  PROVE  MapThenSumSet(LAMBDA t : counted[t], S) = 0
<1> DEFINE Pick(s) == CHOOSE x \in s : TRUE
           Sums(f) == f = [s \in SUBSET S |-> IF s = {} THEN 0
                                              ELSE counted[Pick(s)] + f[s \ {Pick(s)}]]
           sum == CHOOSE f : Sums(f)
<1>1. MapThenSumSet(LAMBDA t : counted[t], S) = sum[S]
  BY DEF MapThenSumSet, MapThenFoldSet
<1>2. \A s \in SUBSET S : s # {} => Pick(s) \in s
  OBVIOUS
<1> HIDE DEF Pick
<1>3. Sums([s \in SUBSET S |-> 0])
  BY <1>2
<1>4. Sums(sum)
  BY <1>3
<1> HIDE DEF sum
<1> DEFINE Bad == {s \in SUBSET S : sum[s] # 0}
           Sizes == {Cardinality(s) : s \in Bad}
<1>5. \A s \in SUBSET S : IsFiniteSet(s) /\ Cardinality(s) \in Nat
  BY FS_Subset, FS_CardinalityType
<1>6. Bad = {}
  <2>1. SUFFICES ASSUME Bad # {} PROVE FALSE
    OBVIOUS
  <2>2. Sizes \subseteq Nat /\ Sizes # {}
    BY <1>5, <2>1
  <2>3. PICK n \in Sizes : \A m \in Sizes : n <= m
    <3> HIDE DEF Sizes
    <3> QED
      BY <2>2, FirstIs
  <2>4. PICK s \in Bad : n = Cardinality(s)
    BY <2>3
  <2>5. s \in SUBSET S /\ sum[s] # 0
    BY <2>4
  <2>6. sum[s] = IF s = {} THEN 0 ELSE counted[Pick(s)] + sum[s \ {Pick(s)}]
    BY <1>4, <2>5
  <2>7. s # {}
    BY <2>5, <2>6
  <2>8. PICK x \in s : x = Pick(s)
    BY <1>2, <2>5, <2>7
  <2>9. Cardinality(s \ {x}) = Cardinality(s) - 1 /\ s \ {x} \in SUBSET S
    BY <1>5, <2>5, <2>8, FS_RemoveElement
  <2>10. s \ {x} \notin Bad
    <3>1. ASSUME s \ {x} \in Bad PROVE FALSE
      <4>1. Cardinality(s \ {x}) \in Sizes
        BY <3>1
      <4>2. n <= Cardinality(s) - 1
        BY <2>3, <2>9, <4>1
      <4>3. QED
        BY <1>5, <2>4, <2>5, <4>2
    <3>2. QED
      BY <3>1
  <2>11. sum[s \ {x}] = 0 /\ counted[x] = 0
    BY <2>5, <2>8, <2>9, <2>10
  <2>12. QED
    BY <2>5, <2>6, <2>7, <2>8, <2>11
<1>7. QED
  BY <1>1, <1>6

(* A second whose requests RequestCounter has forgotten is out of the      *)
(* window of the call it is in, or of now.                                 *)
AskedAt == IF in = Out THEN now ELSE in.time

Remembered ==
  \A t \in 0 .. LastSecond : counted[t] # 0 =>
    \/ \E i \in DOMAIN counts : counts[i].time = t
    \/ in.call = "increment" /\ t = in.time
    \/ t + Window < AskedAt

(* The right answer to the question that is being answered.                *)
RightIsCounted ==
  in.call = "get" =>
    /\ answers.first = -1
    /\ (\A t \in 0 .. LastSecond : t >= in.time - Window => counted[t] = 0) => answers.right = 0

CounterInv ==
  /\ now \in 0 .. LastSecond
  /\ counted \in [0 .. LastSecond -> Nat]
  /\ counts \in Seq([time : 0 .. LastSecond, count : Nat])
  /\ in \in [call : {"none", "increment", "get"}, time : 0 .. now]
  /\ in.call = "none" => in = Out
  /\ \E f, s, r : answers = [first |-> f, second |-> s, right |-> r]
  /\ Remembered /\ RightIsCounted /\ FirstIsExact

LEMMA CounterStarts == CounterInit => CounterInv
<1>1. SUFFICES ASSUME CounterInit PROVE CounterInv
  OBVIOUS
<1>2. Window \in Nat /\ LastSecond \in Nat
  BY CounterAssumption
<1>3. /\ now = 0 /\ counts = <<>> /\ in = Out
      /\ counted = [t \in 0 .. LastSecond |-> 0]
      /\ answers = [first |-> 0, second |-> 0, right |-> 0]
  BY <1>1 DEF CounterInit
<1>4. in \in [call : {"none", "increment", "get"}, time : 0 .. now]
  BY <1>3 DEF Out
<1>5. counts \in Seq([time : 0 .. LastSecond, count : Nat])
  BY <1>3
<1>6. Remembered /\ RightIsCounted /\ FirstIsExact
  BY <1>3 DEF Remembered, RightIsCounted, FirstIsExact, Out
<1>7. \E f, s, r : answers = [first |-> f, second |-> s, right |-> r]
  BY <1>3
<1>8. now \in 0 .. LastSecond /\ counted \in [0 .. LastSecond -> Nat]
  BY <1>2, <1>3
<1>9. QED
  BY <1>3, <1>4, <1>5, <1>6, <1>7, <1>8 DEF CounterInv

(* The right answer to a question asked now.                               *)
LEMMA NothingAsked ==
  ASSUME CounterInv, \A t \in 0 .. LastSecond : t >= now - Window => counted[t] = 0
  PROVE  CountedSince(now) = 0
<1> DEFINE S == {t \in 0 .. LastSecond : t >= now - Window}
<1>1. IsFiniteSet(S)
  <2>1. IsFiniteSet(0 .. LastSecond)
    BY CounterAssumption, FS_Interval
  <2>2. QED
    BY <2>1, FS_Subset
<1>2. \A t \in S : counted[t] = 0
  OBVIOUS
<1> HIDE DEF S
<1>3. MapThenSumSet(LAMBDA t : counted[t], S) = 0
  BY <1>1, <1>2, NothingCounted
<1>4. QED
  BY <1>3 DEF CountedSince, S

LEMMA CounterStep == CounterInv /\ [CounterNext]_counterVars => CounterInv'
<1>1. SUFFICES ASSUME CounterInv, [CounterNext]_counterVars PROVE CounterInv'
  OBVIOUS
<1>2. /\ now \in 0 .. LastSecond
      /\ counted \in [0 .. LastSecond -> Nat]
      /\ counts \in Seq([time : 0 .. LastSecond, count : Nat])
      /\ in \in [call : {"none", "increment", "get"}, time : 0 .. now]
      /\ in.call = "none" => in = Out
      /\ \E f, s, r : answers = [first |-> f, second |-> s, right |-> r]
      /\ Remembered /\ RightIsCounted /\ FirstIsExact
      /\ Window \in Nat /\ LastSecond \in Nat
  BY <1>1, CounterAssumption DEF CounterInv
<1>3. \A t \in 0 .. LastSecond : t \in Nat /\ counted[t] \in Nat
  BY <1>2
<1>4. CASE UNCHANGED counterVars
  <2>1. now' = now /\ counts' = counts /\ in' = in /\ counted' = counted /\ answers' = answers
    BY <1>4 DEF counterVars
  <2>2. Remembered'
    BY <1>2, <2>1 DEF Remembered, AskedAt, Out
  <2>3. RightIsCounted' /\ FirstIsExact'
    BY <1>2, <2>1 DEF RightIsCounted, FirstIsExact
  <2>4. QED
    BY <1>2, <2>1, <2>2, <2>3 DEF CounterInv, Out
<1>5. CASE Tick
  <2>1. now < LastSecond /\ now' = now + 1 /\ counts' = counts /\ in' = in
        /\ counted' = counted /\ answers' = answers
    BY <1>5 DEF Tick
  <2>2. now' \in 0 .. LastSecond /\ in' \in [call : {"none", "increment", "get"}, time : 0 .. now']
    BY <1>2, <2>1
  <2>3. AskedAt \in Nat /\ AskedAt' \in Nat /\ AskedAt <= AskedAt'
    BY <1>2, <2>1, <2>2 DEF AskedAt, Out
  <2>4. Remembered'
    <3>1. ASSUME NEW t \in 0 .. LastSecond, t + Window < AskedAt PROVE t + Window < AskedAt'
      <4>1. t \in Nat /\ Window \in Nat
        BY <1>2
      <4>2. QED
        BY <2>3, <3>1, <4>1
    <3>2. Remembered
      BY <1>2
    <3>3. QED
      BY <2>1, <3>1, <3>2 DEF Remembered
  <2>5. RightIsCounted' /\ FirstIsExact'
    BY <1>2, <2>1 DEF RightIsCounted, FirstIsExact
  <2>6. QED
    BY <1>2, <2>1, <2>2, <2>4, <2>5 DEF CounterInv, Out
<1>6. ASSUME NEW what \in {"increment", "get"}, Call(what) PROVE CounterInv'
  <2>1. /\ in = Out /\ now' = now /\ counts' = counts
        /\ in' = [call |-> what, time |-> now]
        /\ counted' = IF what = "increment" THEN [counted EXCEPT ![now] = @ + 1] ELSE counted
    BY <1>6 DEF Call
  <2>2. in' \in [call : {"none", "increment", "get"}, time : 0 .. now'] /\ in'.call # "none"
    BY <1>2, <2>1
  <2>3. counted' \in [0 .. LastSecond -> Nat]
    BY <1>2, <1>3, <2>1
  <2>4. AskedAt = now /\ AskedAt' = now
    BY <2>1 DEF AskedAt, Out
  <2>5. \A t \in 0 .. LastSecond : counted'[t] # 0 => counted[t] # 0 \/ (what = "increment" /\ t = now)
    BY <1>2, <2>1
  <2>6. in.call = "none" /\ in'.call = what /\ in'.time = now
    BY <2>1 DEF Out
  <2>7. Remembered'
    BY <1>2, <2>1, <2>4, <2>5, <2>6 DEF Remembered
  <2>8. CASE what = "increment"
    <3>1. answers' = answers
      BY <1>6, <2>8 DEF Call
    <3>2. RightIsCounted' /\ FirstIsExact'
      BY <1>2, <2>6, <2>8, <3>1 DEF RightIsCounted, FirstIsExact
    <3>3. QED
      BY <1>2, <2>1, <2>2, <2>3, <2>7, <3>1, <3>2 DEF CounterInv
  <2>9. CASE what = "get"
    <3>1. counted' = counted
      BY <2>1, <2>9
    <3>2. answers' = [first |-> -1, second |-> CountedAll, right |-> CountedSince(now)]
      BY <1>6, <2>9 DEF Call
    <3>3. \E f, s, r : answers' = [first |-> f, second |-> s, right |-> r]
      BY <3>2
    <3>4. answers'.first = -1 /\ answers'.right = CountedSince(now)
      BY <3>2
    <3>5. (\A t \in 0 .. LastSecond : t >= now - Window => counted[t] = 0) => CountedSince(now) = 0
      BY <1>1, NothingAsked
    <3>6. RightIsCounted' /\ FirstIsExact'
      BY <2>6, <3>1, <3>4, <3>5 DEF RightIsCounted, FirstIsExact
    <3>7. QED
      BY <1>2, <2>1, <2>2, <2>3, <2>7, <3>3, <3>6 DEF CounterInv
  <2>10. QED
    BY <2>8, <2>9
<1>7. CASE RemoveOld
  <2>1. /\ counts # <<>> /\ Head(counts).time + Window < in.time
        /\ in # Out /\ counts' = Tail(counts) /\ now' = now /\ in' = in
        /\ counted' = counted /\ answers' = answers
    BY <1>7 DEF RemoveOld, Old
  <2>2. /\ Len(counts) \in Nat /\ Len(counts) >= 1 /\ Head(counts) = counts[1]
        /\ counts' \in Seq([time : 0 .. LastSecond, count : Nat])
        /\ Len(counts') = Len(counts) - 1 /\ \A i \in 1 .. Len(counts') : counts'[i] = counts[i + 1]
        /\ DOMAIN counts = 1 .. Len(counts) /\ DOMAIN counts' = 1 .. Len(counts')
    <3>1. counts \in Seq([time : 0 .. LastSecond, count : Nat]) /\ counts # <<>> /\ counts' = Tail(counts)
      BY <1>2, <2>1
    <3>2. QED
      BY <3>1
  <2>3. AskedAt = in.time /\ AskedAt' = in.time
    BY <2>1 DEF AskedAt
  <2>4. ASSUME NEW t \in 0 .. LastSecond, NEW i \in DOMAIN counts, counts[i].time = t
        PROVE  (\E j \in DOMAIN counts' : counts'[j].time = t) \/ t + Window < in.time
    <3>1. i \in 1 .. Len(counts)
      BY <2>2, <2>4
    <3>2. CASE i = 1
      BY <2>1, <2>2, <2>4, <3>2
    <3>3. CASE i # 1
      <4>1. i - 1 \in 1 .. Len(counts') /\ counts'[i - 1] = counts[i]
        BY <2>2, <3>1, <3>3
      <4>2. QED
        BY <2>4, <3>1, <4>1
    <3>4. QED
      BY <3>2, <3>3
  <2>5. Remembered'
    BY <1>2, <2>1, <2>3, <2>4 DEF Remembered
  <2>6. RightIsCounted' /\ FirstIsExact'
    BY <1>2, <2>1 DEF RightIsCounted, FirstIsExact
  <2>7. QED
    BY <1>2, <2>1, <2>2, <2>5, <2>6 DEF CounterInv, Out
<1>8. CASE Spin
  <2>1. UNCHANGED counterVars
    BY <1>8 DEF Spin
  <2>2. QED
    BY <1>4, <2>1
<1>9. CASE Increment
  <2>1. /\ in.call = "increment" /\ counts = <<>> /\ in' = Out
        /\ counts' = <<[time |-> in.time, count |-> 1]>>
        /\ now' = now /\ counted' = counted /\ answers' = answers
    BY <1>9 DEF Increment
  <2>2. in.time \in 0 .. LastSecond /\ in.time <= now
    BY <1>2
  <2>3. counts' \in Seq([time : 0 .. LastSecond, count : Nat])
    <3>1. [time |-> in.time, count |-> 1] \in [time : 0 .. LastSecond, count : Nat]
      BY <2>2
    <3>2. QED
      BY <2>1, <3>1
  <2>4. DOMAIN counts = {} /\ 1 \in DOMAIN counts' /\ counts'[1].time = in.time
    BY <2>1
  <2>5. AskedAt = in.time /\ AskedAt' = now
    BY <2>1 DEF AskedAt, Out
  <2>6. Remembered'
    BY <1>2, <1>3, <2>1, <2>2, <2>4, <2>5 DEF Remembered
  <2>7. in' \in [call : {"none", "increment", "get"}, time : 0 .. now'] /\ in'.call = "none"
    BY <1>2, <2>1 DEF Out
  <2>8. RightIsCounted' /\ FirstIsExact'
    BY <1>2, <2>1, <2>7 DEF RightIsCounted, FirstIsExact
  <2>9. in' = Out'
    BY <2>1 DEF Out
  <2>10. QED
    BY <1>2, <2>1, <2>3, <2>6, <2>7, <2>8, <2>9 DEF CounterInv
<1>10. CASE Get60sCount
  <2>1. /\ in.call = "get" /\ counts = <<>> /\ in' = Out
        /\ answers' = [answers EXCEPT !.first = 0]
        /\ now' = now /\ counts' = counts /\ counted' = counted
    BY <1>10 DEF Get60sCount
  <2>2. in.time \in 0 .. LastSecond /\ in.time <= now /\ DOMAIN counts = {}
    BY <1>2, <2>1
  <2>3. AskedAt = in.time /\ AskedAt' = now
    BY <2>1 DEF AskedAt, Out
  <2>4. \A t \in 0 .. LastSecond : counted[t] # 0 => t + Window < in.time
    BY <1>2, <2>1, <2>2, <2>3 DEF Remembered
  <2>5. answers.right = 0
    BY <1>2, <1>3, <2>1, <2>2, <2>4 DEF RightIsCounted
  <2>6. /\ \E f, s, r : answers' = [first |-> f, second |-> s, right |-> r]
        /\ answers'.first = 0 /\ answers'.right = answers.right
    BY <1>2, <2>1
  <2>7. in' \in [call : {"none", "increment", "get"}, time : 0 .. now'] /\ in'.call = "none"
    BY <1>2, <2>1 DEF Out
  <2>8. Remembered'
    BY <1>2, <1>3, <2>1, <2>2, <2>3, <2>4 DEF Remembered
  <2>9. RightIsCounted' /\ FirstIsExact'
    BY <2>5, <2>6, <2>7 DEF RightIsCounted, FirstIsExact
  <2>10. in' = Out'
    BY <2>1 DEF Out
  <2>11. QED
    BY <1>2, <2>1, <2>6, <2>7, <2>8, <2>9, <2>10 DEF CounterInv
<1>11. QED
  BY <1>1, <1>4, <1>5, <1>6, <1>7, <1>8, <1>9, <1>10 DEF CounterNext

(* When RequestCounter answers, the answer is right, for every window and  *)
(* however many requests come in a second: what it removed is out of the   *)
(* window, and it answers only when everything it knew was removed         *)
(* (requestCounter.cpp:29-35, :47-50).                                     *)
THEOREM FirstAnswerIsExact == CounterSpec => []FirstIsExact
<1>1. CounterInv => FirstIsExact
  BY DEF CounterInv
<1>2. QED
  BY <1>1, CounterStarts, CounterStep, PTL DEF CounterSpec
-----------------------------------------------------------------------------
(* ChainedTable *)

Elements == [key : Keys, bErased : BOOLEAN]
Places == Lists \X (1 .. Cardinality(Keys))

(* The places of the lists e with an element whose flag is one of these.   *)
Marked(e, flags) == {p \in Places : p[2] \in DOMAIN e[p[1]] /\ e[p[1]][p[2]].bErased \in flags}
Alive(e) == Marked(e, {FALSE})
Dead(e) == Marked(e, {TRUE})
Started(e) == {h \in Lists : e[h] # <<>>}

(* No element of a list comes before a live one with its key.              *)
LiveFirst(e) ==
  \A h \in Lists : \A i, j \in DOMAIN e[h] :
    i < j /\ e[h][i].key = e[h][j].key => e[h][j].bErased

ShortLists(e) == \A h \in Lists : Len(e[h]) <= Cardinality(Keys)

WellLinked(e) == e \in [Lists -> Seq(Elements)] /\ LiveFirst(e) /\ ShortLists(e)

Finds(e) == {k \in Keys : \E i \in DOMAIN e[ListOf(k)] : e[ListOf(k)][i] = [key |-> k, bErased |-> FALSE]}

ChainedInv ==
  /\ WellLinked(pElements)
  /\ iEntries = Cardinality(Alive(pElements))
  /\ iErased = Cardinality(Dead(pElements))
  /\ iNewItems = iEntries + iErased
  /\ iCollisions = iNewItems - Cardinality(Started(pElements))
  /\ iMaxDepth \in Nat /\ \A h \in Lists : Len(pElements[h]) <= iMaxDepth

LEMMA KeysCounted == IsFiniteSet(Keys) /\ Cardinality(Keys) \in Nat
BY HashAssumption, FS_CardinalityType

LEMMA ListsAre == IsFiniteSet(Lists) /\ Lists \subseteq Nat /\ \A k \in Keys : ListOf(k) \in Lists
<1>1. iSize \in Nat /\ iSize > 0
  BY ChainedAssumption
<1>2. IsFiniteSet(Lists)
  BY <1>1, FS_Interval DEF Lists
<1>3. \A k \in Keys : Hash[k] \in Nat
  BY HashAssumption
<1>4. \A k \in Keys : Hash[k] % iSize \in 0 .. iSize - 1
  BY <1>1, <1>3
<1>5. QED
  BY <1>1, <1>2, <1>4 DEF Lists, ListOf

LEMMA MarkedFinite ==
  \A e : /\ IsFiniteSet(Alive(e)) /\ Cardinality(Alive(e)) \in Nat
         /\ IsFiniteSet(Dead(e)) /\ Cardinality(Dead(e)) \in Nat
         /\ IsFiniteSet(Started(e)) /\ Cardinality(Started(e)) \in Nat
<1>1. IsFiniteSet(1 .. Cardinality(Keys))
  BY KeysCounted, FS_Interval
<1>2. IsFiniteSet(Places)
  BY <1>1, ListsAre, FS_Product DEF Places
<1>3. ASSUME NEW e, NEW b PROVE IsFiniteSet(Marked(e, b))
  <2>1. Marked(e, b) \in SUBSET Places
    BY DEF Marked
  <2>2. QED
    BY <1>2, <2>1, FS_Subset
<1>4. ASSUME NEW e PROVE IsFiniteSet(Started(e))
  <2>1. Started(e) \in SUBSET Lists
    BY DEF Started
  <2>2. QED
    BY <2>1, ListsAre, FS_Subset
<1>5. QED
  BY <1>3, <1>4, FS_CardinalityType DEF Alive, Dead

(* Two tables that differ at no place but this one.                        *)
SameBut(e, f, h, i) ==
  \A g \in Lists : \A j \in 1 .. Cardinality(Keys) :
    g # h \/ j # i => /\ j \in DOMAIN f[g] <=> j \in DOMAIN e[g]
                      /\ j \in DOMAIN e[g] => f[g][j] = e[g][j]

LEMMA MarkedMoves ==
  ASSUME NEW e, NEW f, NEW h \in Lists, NEW i \in 1 .. Cardinality(Keys), SameBut(e, f, h, i), NEW b
  PROVE  Marked(f, b) = IF i \in DOMAIN f[h] /\ f[h][i].bErased \in b
                          THEN Marked(e, b) \cup {<<h, i>>} ELSE Marked(e, b) \ {<<h, i>>}
<1> DEFINE P(g, j, t) == j \in DOMAIN t[g] /\ t[g][j].bErased \in b
<1>1. \A t : Marked(t, b) = {p \in Places : P(p[1], p[2], t)}
  BY DEF Marked
<1>2. ASSUME NEW g \in Lists, NEW j \in 1 .. Cardinality(Keys), g # h \/ j # i
      PROVE  P(g, j, f) <=> P(g, j, e)
  BY <1>2 DEF SameBut
<1>3. \A p \in Places : /\ p[1] \in Lists /\ p[2] \in 1 .. Cardinality(Keys)
                        /\ p = <<p[1], p[2]>>
  BY DEF Places
<1>4. <<h, i>> \in Places
  BY DEF Places
<1> HIDE DEF P
<1>5. \A p \in Places : p # <<h, i>> => (P(p[1], p[2], f) <=> P(p[1], p[2], e))
  BY <1>2, <1>3
<1>6. \A p \in Places : p # <<h, i>> => (p \in Marked(f, b) <=> p \in Marked(e, b))
  BY <1>1, <1>5
<1>7. <<h, i>> \in Marked(f, b) <=> P(h, i, f)
  BY <1>1, <1>4
<1>8. Marked(f, b) \subseteq Places /\ Marked(e, b) \subseteq Places
  BY DEF Marked
<1>9. Marked(f, b) = IF P(h, i, f) THEN Marked(e, b) \cup {<<h, i>>} ELSE Marked(e, b) \ {<<h, i>>}
  BY <1>4, <1>6, <1>7, <1>8
<1>10. QED
  BY <1>9 DEF P

(* A list of live elements with different keys, none of them k, has room   *)
(* for k.                                                                  *)
LEMMA ListHasRoom ==
  ASSUME NEW k \in Keys, NEW c \in Seq(Elements),
         \A i \in DOMAIN c : c[i].key # k,
         \A i, j \in DOMAIN c : i < j => c[i].key # c[j].key
  PROVE  Len(c) + 1 <= Cardinality(Keys)
<1> DEFINE n == Len(c) + 1
           f == [i \in 1 .. n |-> IF i = n THEN k ELSE c[i].key]
<1>1. Len(c) \in Nat /\ DOMAIN c = 1 .. Len(c) /\ \A i \in DOMAIN c : c[i].key \in Keys
  <2>1. Len(c) \in Nat /\ DOMAIN c = 1 .. Len(c) /\ \A i \in DOMAIN c : c[i] \in Elements
    OBVIOUS
  <2>2. QED
    BY <2>1 DEF Elements
<1>2. f \in [1 .. n -> Keys]
  BY <1>1
<1>3. IsFiniteSet(1 .. n) /\ Cardinality(1 .. n) = n
  BY <1>1, FS_Interval
<1>4. ASSUME NEW x \in 1 .. n, NEW y \in 1 .. n, x < y PROVE f[x] # f[y]
  <2>1. x \in DOMAIN c /\ f[x] = c[x].key
    BY <1>1, <1>4
  <2>2. CASE y = n
    BY <2>1, <2>2
  <2>3. CASE y # n
    <3>1. y \in DOMAIN c /\ f[y] = c[y].key
      BY <1>1, <2>3
    <3>2. QED
      BY <1>4, <2>1, <3>1
  <2>4. QED
    BY <2>2, <2>3
<1>5. \A x, y \in 1 .. n : x # y => f[x] # f[y]
  <2> HIDE DEF f
  <2>1. \A x, y \in 1 .. n : x < y \/ y < x \/ x = y
    BY <1>1
  <2>2. QED
    BY <1>4, <2>1
<1> HIDE DEF f
<1>6. ~(Cardinality(Keys) < n)
  BY <1>2, <1>3, <1>5, KeysCounted, FS_PigeonHole
<1>7. QED
  BY <1>1, <1>6, KeysCounted

(* Another element in the place of one.                                    *)
PutsIn(e, f, h, i, x) == f = [e EXCEPT ![h][i] = x]

LEMMA Replaced ==
  ASSUME NEW e, WellLinked(e), NEW h \in Lists, NEW i \in DOMAIN e[h], NEW x \in Elements,
         NEW f, PutsIn(e, f, h, i, x)
  PROVE  /\ f \in [Lists -> Seq(Elements)] /\ ShortLists(f)
         /\ \A g \in Lists : Len(f[g]) = Len(e[g]) /\ DOMAIN f[g] = DOMAIN e[g]
         /\ f[h][i] = x
         /\ \A g \in Lists : \A j \in DOMAIN e[g] : g # h \/ j # i => f[g][j] = e[g][j]
         /\ i \in 1 .. Cardinality(Keys) /\ SameBut(e, f, h, i)
         /\ Started(f) = Started(e)
<1>1. e \in [Lists -> Seq(Elements)] /\ ShortLists(e)
  BY DEF WellLinked
<1>2. PICK c \in Seq(Elements) : c = e[h]
  BY <1>1
<1>3. PICK d \in Seq(Elements) : d = [c EXCEPT ![i] = x]
  <2>1. i \in 1 .. Len(c)
    BY <1>2
  <2>2. QED
    BY <2>1, ExceptSeq
<1>4. Len(d) = Len(c) /\ DOMAIN d = DOMAIN c /\ d[i] = x /\ \A j \in DOMAIN c : j # i => d[j] = c[j]
  BY <1>2, <1>3
<1>5. f = [e EXCEPT ![h] = d]
  BY <1>2, <1>3 DEF PutsIn
<1>6. f \in [Lists -> Seq(Elements)] /\ f[h] = d /\ \A g \in Lists : g # h => f[g] = e[g]
  BY <1>1, <1>5
<1>7. \A g \in Lists : Len(f[g]) = Len(e[g]) /\ DOMAIN f[g] = DOMAIN e[g]
  BY <1>2, <1>4, <1>6
<1>8. f[h][i] = x /\ \A g \in Lists : \A j \in DOMAIN e[g] : g # h \/ j # i => f[g][j] = e[g][j]
  BY <1>2, <1>4, <1>6
<1>9. SameBut(e, f, h, i)
  BY <1>7, <1>8 DEF SameBut
<1>10. ShortLists(f)
  BY <1>1, <1>7 DEF ShortLists
<1>11. i \in 1 .. Cardinality(Keys)
  <2>1. Len(c) \in Nat /\ i \in 1 .. Len(c) /\ Len(c) <= Cardinality(Keys)
    BY <1>1, <1>2 DEF ShortLists
  <2>2. QED
    BY <2>1, KeysCounted
<1>12. Started(f) = Started(e)
  <2>1. \A s \in Seq(Elements) : s = <<>> <=> Len(s) = 0
    OBVIOUS
  <2>2. \A g \in Lists : f[g] = <<>> <=> e[g] = <<>>
    BY <1>1, <1>6, <1>7, <2>1
  <2>3. QED
    BY <2>2 DEF Started
<1>13. QED
  BY <1>6, <1>7, <1>8, <1>9, <1>10, <1>11, <1>12

(* What the counters of erased elements and of others do, when one changes.*)
LEMMA ReplacedCounts ==
  ASSUME NEW e, WellLinked(e), NEW h \in Lists, NEW i \in DOMAIN e[h], NEW x \in Elements,
         NEW f, PutsIn(e, f, h, i, x), x.bErased <=> ~e[h][i].bErased
  PROVE  IF x.bErased
           THEN /\ Cardinality(Dead(f)) = Cardinality(Dead(e)) + 1
                /\ Cardinality(Alive(f)) = Cardinality(Alive(e)) - 1
           ELSE /\ Cardinality(Dead(f)) = Cardinality(Dead(e)) - 1
                /\ Cardinality(Alive(f)) = Cardinality(Alive(e)) + 1
<1>1. /\ f[h][i] = x /\ DOMAIN f[h] = DOMAIN e[h]
      /\ i \in 1 .. Cardinality(Keys) /\ SameBut(e, f, h, i)
  BY Replaced
<1>2. e[h][i].bErased \in BOOLEAN /\ x.bErased \in BOOLEAN
  <2>1. e[h] \in Seq(Elements)
    BY DEF WellLinked
  <2>2. e[h][i] \in Elements
    BY <2>1
  <2>3. QED
    BY <2>2 DEF Elements
<1> DEFINE p == <<h, i>>
<1>3. p \in Places /\ p[1] = h /\ p[2] = i
  BY <1>1 DEF Places
<1>4. /\ Alive(f) = IF i \in DOMAIN f[h] /\ f[h][i].bErased \in {FALSE}
                      THEN Alive(e) \cup {p} ELSE Alive(e) \ {p}
      /\ Dead(f) = IF i \in DOMAIN f[h] /\ f[h][i].bErased \in {TRUE}
                     THEN Dead(e) \cup {p} ELSE Dead(e) \ {p}
  <2>1. \A b : Marked(f, b) = IF i \in DOMAIN f[h] /\ f[h][i].bErased \in b
                               THEN Marked(e, b) \cup {p} ELSE Marked(e, b) \ {p}
    BY <1>1, MarkedMoves
  <2> HIDE DEF p
  <2>2. QED
    BY <2>1 DEF Alive, Dead
<1>5. /\ p \in Alive(e) <=> ~e[h][i].bErased
      /\ p \in Dead(e) <=> e[h][i].bErased
  BY <1>2, <1>3 DEF Alive, Dead, Marked
<1> HIDE DEF p
<1>6. IsFiniteSet(Alive(e)) /\ IsFiniteSet(Dead(e))
  BY MarkedFinite
<1>7. CASE x.bErased
  <2>1. Dead(f) = Dead(e) \cup {p} /\ Alive(f) = Alive(e) \ {p}
    BY <1>1, <1>2, <1>4, <1>7
  <2>2. p \notin Dead(e) /\ p \in Alive(e)
    BY <1>2, <1>5, <1>7
  <2>3. Cardinality(Dead(f)) = Cardinality(Dead(e)) + 1
    BY <1>6, <2>1, <2>2, FS_AddElement
  <2>4. Cardinality(Alive(f)) = Cardinality(Alive(e)) - 1
    BY <1>6, <2>1, <2>2, FS_RemoveElement
  <2>5. QED
    BY <1>7, <2>3, <2>4
<1>8. CASE ~x.bErased
  <2>1. Alive(f) = Alive(e) \cup {p} /\ Dead(f) = Dead(e) \ {p}
    BY <1>1, <1>2, <1>4, <1>8
  <2>2. p \notin Alive(e) /\ p \in Dead(e)
    BY <1>2, <1>5, <1>8
  <2>3. Cardinality(Alive(f)) = Cardinality(Alive(e)) + 1
    BY <1>6, <2>1, <2>2, FS_AddElement
  <2>4. Cardinality(Dead(f)) = Cardinality(Dead(e)) - 1
    BY <1>6, <2>1, <2>2, FS_RemoveElement
  <2>5. QED
    BY <1>8, <2>3, <2>4
<1>9. QED
  BY <1>7, <1>8

(* What they do when an element is put where there was none.               *)
LEMMA AppendedCounts ==
  ASSUME NEW e, NEW f, NEW h \in Lists, NEW i \in 1 .. Cardinality(Keys), SameBut(e, f, h, i),
         i \notin DOMAIN e[h], i \in DOMAIN f[h], f[h][i].bErased \in {FALSE}
  PROVE  /\ Cardinality(Alive(f)) = Cardinality(Alive(e)) + 1
         /\ Cardinality(Dead(f)) = Cardinality(Dead(e))
<1> DEFINE p == <<h, i>>
<1>1. \A b : Marked(f, b) = IF i \in DOMAIN f[h] /\ f[h][i].bErased \in b
                             THEN Marked(e, b) \cup {p} ELSE Marked(e, b) \ {p}
  BY MarkedMoves
<1>2. \A b : p \notin Marked(e, b)
  BY DEF Marked
<1>3. f[h][i].bErased \notin {TRUE}
  OBVIOUS
<1> HIDE DEF p
<1>4. Alive(f) = Alive(e) \cup {p} /\ p \notin Alive(e)
  <2>1. Marked(f, {FALSE}) = Marked(e, {FALSE}) \cup {p}
    BY <1>1
  <2>2. p \notin Marked(e, {FALSE})
    BY <1>2
  <2>3. QED
    BY <2>1, <2>2 DEF Alive
<1>5. Dead(f) = Dead(e)
  <2>1. Marked(f, {TRUE}) = Marked(e, {TRUE}) \ {p}
    BY <1>1, <1>3
  <2>2. p \notin Marked(e, {TRUE})
    BY <1>2
  <2>3. QED
    BY <2>1, <2>2 DEF Dead
<1>6. Cardinality(Alive(f)) = Cardinality(Alive(e)) + 1
  BY <1>4, MarkedFinite, FS_AddElement
<1>7. QED
  BY <1>5, <1>6

LEMMA ChainedStarts == ChainedInit => ChainedInv /\ Finds(pElements) = {}
<1>1. SUFFICES ASSUME ChainedInit PROVE ChainedInv /\ Finds(pElements) = {}
  OBVIOUS
<1>2. pElements = [h \in Lists |-> <<>>] /\ \A h \in Lists : pElements[h] = <<>>
  BY <1>1 DEF ChainedInit
<1>3. \A h \in Lists : Len(pElements[h]) = 0 /\ DOMAIN pElements[h] = {}
  BY <1>2
<1>4. WellLinked(pElements)
  <2>1. pElements \in [Lists -> Seq(Elements)]
    BY <1>2
  <2>2. LiveFirst(pElements)
    BY <1>3 DEF LiveFirst
  <2>3. ShortLists(pElements)
    BY <1>3, KeysCounted DEF ShortLists
  <2>4. QED
    BY <2>1, <2>2, <2>3 DEF WellLinked
<1>5. Alive(pElements) = {} /\ Dead(pElements) = {} /\ Started(pElements) = {}
  BY <1>2, <1>3 DEF Alive, Dead, Marked, Started, Places
<1>6. Finds(pElements) = {}
  BY <1>3, ListsAre DEF Finds
<1>7. iEntries = 0 /\ iErased = 0 /\ iNewItems = 0 /\ iCollisions = 0 /\ iMaxDepth = 0
  BY <1>1 DEF ChainedInit
<1>8. Cardinality(Alive(pElements)) = 0 /\ Cardinality(Dead(pElements)) = 0
      /\ Cardinality(Started(pElements)) = 0
  BY <1>5, FS_EmptySet
<1>9. \A h \in Lists : Len(pElements[h]) <= iMaxDepth
  BY <1>3, <1>7
<1>10. /\ iEntries = Cardinality(Alive(pElements))
       /\ iErased = Cardinality(Dead(pElements))
       /\ iNewItems = iEntries + iErased
       /\ iCollisions = iNewItems - Cardinality(Started(pElements))
       /\ iMaxDepth \in Nat
  BY <1>7, <1>8
<1>11. QED
  BY <1>4, <1>6, <1>9, <1>10 DEF ChainedInv

(* What an element put over another one does to what is found.             *)
LEMMA ReplacedFinds ==
  ASSUME NEW e, WellLinked(e), NEW k \in Keys, NEW i \in DOMAIN e[ListOf(k)], NEW x \in Elements,
         NEW f, PutsIn(e, f, ListOf(k), i, x), NEW l \in Keys, l # k,
         e[ListOf(k)][i].bErased \/ e[ListOf(k)][i].key = k, x.key = k
  PROVE  l \in Finds(f) <=> l \in Finds(e)
<1> DEFINE h == ListOf(k)
           y == [key |-> l, bErased |-> FALSE]
<1>1. h \in Lists /\ ListOf(l) \in Lists
  BY ListsAre
<1>2. /\ \A g \in Lists : DOMAIN f[g] = DOMAIN e[g]
      /\ f[h][i] = x
      /\ \A g \in Lists : \A j \in DOMAIN e[g] : g # h \/ j # i => f[g][j] = e[g][j]
  BY <1>1, Replaced
<1>3. x # y /\ e[h][i] # y
  <2>1. y.key = l /\ y.bErased = FALSE
    OBVIOUS
  <2>2. QED
    BY <2>1
<1> HIDE DEF y, h
<1>4. \A j \in DOMAIN e[ListOf(l)] : f[ListOf(l)][j] = y <=> e[ListOf(l)][j] = y
  BY <1>1, <1>2, <1>3
<1>6. QED
  BY <1>1, <1>2, <1>4 DEF Finds, y

LEMMA ReuseFacts ==
  ASSUME ChainedInv, NEW k \in Keys, InsertReuses(k)
  PROVE  ChainedInv' /\ Finds(pElements') = Finds(pElements) \cup {k}
<1> DEFINE h == ListOf(k)
           x == [key |-> k, bErased |-> FALSE]
<1>1. WellLinked(pElements) /\ h \in Lists /\ x \in Elements
  BY ListsAre DEF ChainedInv, Elements
<1>2. Live(k) = {} /\ Erased(h) # {} /\ Put(k, First(Erased(h)))
  BY DEF InsertReuses
<1>3. pElements[h] \in Seq(Elements) /\ DOMAIN pElements[h] \subseteq Nat
  BY <1>1 DEF WellLinked
<1>4. /\ First(Erased(h)) \in Erased(h)
      /\ \A j \in Erased(h) : First(Erased(h)) <= j
  <2>1. Erased(h) \subseteq Nat
    BY <1>3 DEF Erased
  <2>2. QED
    BY <1>2, <2>1, FirstIs
<1>5. PICK i \in Erased(h) : i = First(Erased(h))
  BY <1>4
<1>6. /\ i \in DOMAIN pElements[h] /\ pElements[h][i].bErased
      /\ \A j \in DOMAIN pElements[h] : pElements[h][j].bErased => i <= j
  BY <1>4, <1>5 DEF Erased
<1>7. PutsIn(pElements, pElements', h, i, x)
  BY <1>2, <1>5 DEF Put, PutsIn
<1> HIDE DEF h, x
<1>8. /\ pElements' \in [Lists -> Seq(Elements)] /\ ShortLists(pElements')
      /\ \A g \in Lists : Len(pElements'[g]) = Len(pElements[g]) /\ DOMAIN pElements'[g] = DOMAIN pElements[g]
      /\ pElements'[h][i] = x
      /\ \A g \in Lists : \A j \in DOMAIN pElements[g] : g # h \/ j # i => pElements'[g][j] = pElements[g][j]
      /\ Started(pElements') = Started(pElements)
  BY <1>1, <1>6, <1>7, Replaced
<1>9. x.key = k /\ x.bErased = FALSE
  BY DEF x
<1>10. \A j \in DOMAIN pElements[h] :
         /\ pElements[h][j] \in Elements
         /\ pElements[h][j].key = k => pElements[h][j].bErased
  <2>1. \A j \in DOMAIN pElements[h] : pElements[h][j] # x
    BY <1>2 DEF Live, h, x
  <2>2. ASSUME NEW j \in DOMAIN pElements[h]
        PROVE  pElements[h][j] \in Elements /\ (pElements[h][j].key = k => pElements[h][j].bErased)
    <3>1. pElements[h][j] \in Elements
      BY <1>3
    <3>2. QED
      BY <2>1, <3>1 DEF Elements, x
  <2>3. QED
    BY <2>2
<1>11. LiveFirst(pElements')
  <2>1. ASSUME NEW g \in Lists, NEW j \in DOMAIN pElements'[g], NEW m \in DOMAIN pElements'[g],
               j < m, pElements'[g][j].key = pElements'[g][m].key
        PROVE  pElements'[g][m].bErased
    <3>1. j \in DOMAIN pElements[g] /\ m \in DOMAIN pElements[g]
      BY <1>8, <2>1
    <3>2. CASE g = h /\ j = i
      BY <1>6, <1>8, <1>9, <1>10, <2>1, <3>1, <3>2
    <3>3. CASE g = h /\ m = i
      <4>1. j # i /\ pElements[h][j].key = k /\ ~(i <= j)
        BY <1>3, <1>6, <1>8, <1>9, <2>1, <3>1, <3>3
      <4>2. QED
        BY <1>6, <1>10, <3>1, <3>3, <4>1
    <3>4. CASE ~(g = h /\ j = i) /\ ~(g = h /\ m = i)
      <4>1. pElements'[g][j] = pElements[g][j] /\ pElements'[g][m] = pElements[g][m]
        BY <1>8, <3>1, <3>4
      <4>2. QED
        BY <1>1, <2>1, <3>1, <4>1 DEF WellLinked, LiveFirst
    <3>5. QED
      BY <3>2, <3>3, <3>4
  <2>2. QED
    BY <2>1 DEF LiveFirst
<1>12. /\ Cardinality(Alive(pElements')) = Cardinality(Alive(pElements)) + 1
       /\ Cardinality(Dead(pElements')) = Cardinality(Dead(pElements)) - 1
  BY <1>1, <1>6, <1>7, <1>9, ReplacedCounts
<1>13. /\ iEntries' = iEntries + 1 /\ iErased' = iErased - 1
       /\ iNewItems' = iNewItems /\ iCollisions' = iCollisions /\ iMaxDepth' = iMaxDepth
  BY DEF InsertReuses
<1>14. ChainedInv'
  <2>1. WellLinked(pElements')
    BY <1>8, <1>11 DEF WellLinked
  <2>2. /\ iEntries' = Cardinality(Alive(pElements'))
        /\ iErased' = Cardinality(Dead(pElements'))
        /\ iNewItems' = iEntries' + iErased'
    BY <1>12, <1>13, MarkedFinite DEF ChainedInv
  <2>3. iCollisions' = iNewItems' - Cardinality(Started(pElements'))
    BY <1>8, <1>13 DEF ChainedInv
  <2>4. iMaxDepth' \in Nat /\ \A g \in Lists : Len(pElements'[g]) <= iMaxDepth'
    BY <1>8, <1>13 DEF ChainedInv
  <2>5. QED
    BY <2>1, <2>2, <2>3, <2>4 DEF ChainedInv
<1>15. k \in Finds(pElements')
  <2>1. i \in DOMAIN pElements'[ListOf(k)] /\ pElements'[ListOf(k)][i] = [key |-> k, bErased |-> FALSE]
    BY <1>1, <1>6, <1>8 DEF h, x
  <2>2. QED
    BY <2>1 DEF Finds
<1>16. \A l \in Keys : l # k => (l \in Finds(pElements') <=> l \in Finds(pElements))
  BY <1>1, <1>6, <1>7, <1>9, ReplacedFinds DEF h
<1>17. QED
  BY <1>14, <1>15, <1>16 DEF Finds

LEMMA AppendFacts ==
  ASSUME ChainedInv, NEW k \in Keys, InsertAppends(k)
  PROVE  ChainedInv' /\ Finds(pElements') = Finds(pElements) \cup {k}
<1> DEFINE h == ListOf(k)
           x == [key |-> k, bErased |-> FALSE]
           c == pElements[h]
           d == pElements'[h]
           n == Len(c) + 1
<1>1. WellLinked(pElements) /\ h \in Lists /\ x \in Elements
  BY ListsAre DEF ChainedInv, Elements
<1>2. pElements \in [Lists -> Seq(Elements)] /\ c \in Seq(Elements)
  BY <1>1 DEF WellLinked
<1>3. Live(k) = {} /\ Erased(h) = {}
  BY DEF InsertAppends
<1>4. \A i \in DOMAIN c : c[i] \in Elements /\ c[i] # x /\ ~c[i].bErased
  <2>1. \A i \in DOMAIN c : c[i] \in Elements
    BY <1>2
  <2>2. \A i \in DOMAIN c : c[i] # x
    BY <1>3 DEF Live
  <2>3. \A i \in DOMAIN c : ~c[i].bErased
    BY <1>3 DEF Erased
  <2>4. QED
    BY <2>1, <2>2, <2>3
<1>5. \A i \in DOMAIN c : c[i].key # k
  <2>1. \A y \in Elements : y.key = k /\ ~y.bErased => y = x
    BY DEF Elements
  <2>2. QED
    BY <1>4, <2>1
<1>6. \A i, j \in DOMAIN c : i < j => c[i].key # c[j].key
  BY <1>1, <1>4 DEF WellLinked, LiveFirst
<1>7. Len(c) + 1 <= Cardinality(Keys)
  <2> HIDE DEF c
  <2>1. QED
    BY <1>2, <1>5, <1>6, ListHasRoom
<1>8. pElements' = [pElements EXCEPT ![h] = Append(c, x)]
  BY DEF InsertAppends
<1>9. /\ d = Append(c, x) /\ pElements' \in [Lists -> Seq(Elements)]
      /\ \A g \in Lists : g # h => pElements'[g] = pElements[g]
  <2>1. Append(c, x) \in Seq(Elements)
    BY <1>1, <1>2
  <2>2. QED
    BY <1>1, <1>2, <1>8, <2>1
<1>10. /\ Len(c) \in Nat /\ n \in Nat /\ n >= 1 /\ DOMAIN c = 1 .. Len(c) /\ n \notin DOMAIN c
       /\ Len(d) = n /\ DOMAIN d = 1 .. n /\ d[n] = x
       /\ \A j \in DOMAIN c : j \in DOMAIN d /\ j < n /\ d[j] = c[j]
       /\ \A j \in DOMAIN d : j = n \/ j \in DOMAIN c
       /\ d # <<>> /\ (c = <<>> <=> Len(c) = 0)
  BY <1>1, <1>2, <1>9
<1>11. x.key = k /\ x.bErased = FALSE
  OBVIOUS
<1> HIDE DEF x, n
<1>12. LiveFirst(pElements')
  <2>1. ASSUME NEW g \in Lists, NEW j \in DOMAIN pElements'[g], NEW m \in DOMAIN pElements'[g],
               j < m, pElements'[g][j].key = pElements'[g][m].key
        PROVE  pElements'[g][m].bErased
    <3>1. CASE g # h
      <4>1. pElements'[g] = pElements[g]
        BY <1>9, <3>1
      <4>2. QED
        BY <1>1, <2>1, <4>1 DEF WellLinked, LiveFirst
    <3>2. CASE g = h
      <4>1. j \in DOMAIN d /\ m \in DOMAIN d
        BY <2>1, <3>2
      <4>2. j \in DOMAIN c
        BY <1>10, <2>1, <4>1
      <4>3. CASE m = n
        BY <1>5, <1>10, <1>11, <2>1, <3>2, <4>2, <4>3
      <4>4. CASE m # n
        BY <1>6, <1>10, <2>1, <3>2, <4>1, <4>2, <4>4
      <4>5. QED
        BY <4>3, <4>4
    <3>3. QED
      BY <3>1, <3>2
  <2>2. QED
    BY <2>1 DEF LiveFirst
<1>13. ShortLists(pElements')
  BY <1>1, <1>7, <1>9, <1>10 DEF WellLinked, ShortLists, n
<1>14. PICK at \in 1 .. Cardinality(Keys) : at = n
  BY <1>7, <1>10, KeysCounted DEF n
<1>15. SameBut(pElements, pElements', h, at)
  BY <1>9, <1>10, <1>14 DEF SameBut
<1>16. /\ at \notin DOMAIN pElements[h] /\ at \in DOMAIN pElements'[h]
       /\ pElements'[h][at].bErased \in {FALSE}
  <2>1. at \notin DOMAIN pElements[h] /\ at \in DOMAIN pElements'[h] /\ pElements'[h][at] = x
    BY <1>10, <1>14
  <2>2. x.bErased \in {FALSE}
    BY <1>11
  <2>3. QED
    BY <2>1, <2>2
<1>17. PICK e, f : e = pElements /\ f = pElements'
  OBVIOUS
<1>18. /\ Cardinality(Alive(pElements')) = Cardinality(Alive(pElements)) + 1
       /\ Cardinality(Dead(pElements')) = Cardinality(Dead(pElements))
  <2>1. PICK g \in Lists : g = h
    BY <1>1
  <2> HIDE DEF h
  <2>2. /\ SameBut(e, f, g, at) /\ at \notin DOMAIN e[g] /\ at \in DOMAIN f[g]
        /\ f[g][at].bErased \in {FALSE}
    BY <1>15, <1>16, <1>17, <2>1
  <2>3. QED
    BY <1>17, <2>2, AppendedCounts
<1>19. Started(pElements') = Started(pElements) \cup {h}
  BY <1>1, <1>9, <1>10 DEF Started
<1>20. Cardinality(Started(pElements')) = IF c = <<>> THEN Cardinality(Started(pElements)) + 1
                                                      ELSE Cardinality(Started(pElements))
  <2>1. h \in Started(pElements) <=> c # <<>>
    BY <1>1 DEF Started
  <2> HIDE DEF h, c
  <2>2. QED
    BY <1>19, <2>1, MarkedFinite, FS_AddElement
<1>21. /\ iEntries' = iEntries + 1 /\ iNewItems' = iNewItems + 1 /\ iErased' = iErased
       /\ iCollisions' = iCollisions + (IF c = <<>> THEN 0 ELSE 1)
       /\ iMaxDepth' = IF n > iMaxDepth THEN n ELSE iMaxDepth
  BY DEF InsertAppends, n
<1>22. /\ iEntries = Cardinality(Alive(pElements)) /\ iErased = Cardinality(Dead(pElements))
       /\ iNewItems = iEntries + iErased /\ iCollisions = iNewItems - Cardinality(Started(pElements))
       /\ iMaxDepth \in Nat /\ \A g \in Lists : Len(pElements[g]) <= iMaxDepth
       /\ Cardinality(Alive(pElements)) \in Nat /\ Cardinality(Dead(pElements)) \in Nat
       /\ Cardinality(Started(pElements)) \in Nat
  BY MarkedFinite DEF ChainedInv
<1>23. ChainedInv'
  <2>1. WellLinked(pElements')
    BY <1>9, <1>12, <1>13 DEF WellLinked
  <2>2. /\ iEntries' = Cardinality(Alive(pElements'))
        /\ iErased' = Cardinality(Dead(pElements'))
        /\ iNewItems' = iEntries' + iErased'
    BY <1>18, <1>21, <1>22
  <2>3. iCollisions' = iNewItems' - Cardinality(Started(pElements'))
    <3> HIDE DEF c
    <3>1. QED
      BY <1>20, <1>21, <1>22
  <2>4. iMaxDepth' \in Nat /\ iMaxDepth <= iMaxDepth' /\ n <= iMaxDepth'
    BY <1>10, <1>21, <1>22
  <2>5. \A g \in Lists : Len(pElements'[g]) <= iMaxDepth'
    <3>1. ASSUME NEW g \in Lists PROVE Len(pElements'[g]) <= iMaxDepth'
      <4>1. CASE g = h
        BY <1>10, <2>4, <4>1
      <4>2. CASE g # h
        <5>1. pElements'[g] = pElements[g] /\ Len(pElements[g]) \in Nat
          BY <1>2, <1>9, <4>2
        <5>2. QED
          BY <1>22, <2>4, <5>1
      <4>3. QED
        BY <4>1, <4>2
    <3>2. QED
      BY <3>1
  <2>6. QED
    BY <2>1, <2>2, <2>3, <2>4, <2>5 DEF ChainedInv
<1>24. k \in Finds(pElements')
  <2>1. n \in DOMAIN pElements'[ListOf(k)] /\ pElements'[ListOf(k)][n] = [key |-> k, bErased |-> FALSE]
    BY <1>10 DEF x
  <2>2. QED
    BY <2>1 DEF Finds
<1>25. ASSUME NEW l \in Keys, l # k PROVE l \in Finds(pElements') <=> l \in Finds(pElements)
  <2> DEFINE y == [key |-> l, bErased |-> FALSE]
  <2>1. x # y
    BY <1>11, <1>25
  <2> HIDE DEF y
  <2>2. ListOf(l) \in Lists
    BY ListsAre
  <2>3. (\E i \in DOMAIN pElements'[ListOf(l)] : pElements'[ListOf(l)][i] = y)
          <=> \E i \in DOMAIN pElements[ListOf(l)] : pElements[ListOf(l)][i] = y
    <3>1. CASE ListOf(l) = h
      BY <1>10, <2>1, <3>1
    <3>2. CASE ListOf(l) # h
      BY <1>9, <2>2, <3>2
    <3>3. QED
      BY <3>1, <3>2
  <2>4. QED
    BY <2>3 DEF Finds, y
<1>26. QED
  BY <1>23, <1>24, <1>25 DEF Finds

LEMMA OverFacts ==
  ASSUME ChainedInv, NEW k \in Keys, InsertOver(k)
  PROVE  ChainedInv' /\ Finds(pElements') = Finds(pElements) \cup {k}
<1>1. /\ pElements' = pElements /\ iEntries' = iEntries /\ iErased' = iErased
      /\ iNewItems' = iNewItems /\ iCollisions' = iCollisions /\ iMaxDepth' = iMaxDepth
  BY DEF InsertOver, statistics
<1>2. k \in Finds(pElements)
  BY DEF InsertOver, Live, Finds
<1>3. QED
  BY <1>1, <1>2 DEF ChainedInv

(* erase meets the live element of a key before any other of that key.     *)
LEMMA ChainedEraseFacts ==
  ASSUME ChainedInv, NEW k \in Keys, ChainedErase(k)
  PROVE  ChainedInv' /\ Finds(pElements') = Finds(pElements) \ {k}
<1> DEFINE h == ListOf(k)
           inUse == [key |-> k, bErased |-> FALSE]
<1>1. WellLinked(pElements) /\ h \in Lists
  BY ListsAre DEF ChainedInv
<1>2. pElements \in [Lists -> Seq(Elements)] /\ pElements[h] \in Seq(Elements)
  BY <1>1 DEF WellLinked
<1>3. iNewItems' = iNewItems /\ iCollisions' = iCollisions /\ iMaxDepth' = iMaxDepth
  BY DEF ChainedErase
<1>4. \A j \in DOMAIN pElements[h] : pElements[h][j] = inUse => pElements[h][j].key = k /\ ~pElements[h][j].bErased
  OBVIOUS
<1>5. CASE \/ Matches(k) = {}
           \/ Matches(k) # {} /\ pElements[h][First(Matches(k))].bErased
  <2>1. pElements' = pElements /\ iErased' = iErased /\ iEntries' = iEntries
    BY <1>5 DEF ChainedErase, RemoveElement
  <2>2. ChainedInv'
    BY <1>3, <2>1 DEF ChainedInv
  <2>3. k \notin Finds(pElements)
    <3>1. ASSUME NEW j \in DOMAIN pElements[h], pElements[h][j] = inUse PROVE FALSE
      <4>1. j \in Matches(k) /\ ~pElements[h][j].bErased
        BY <1>4, <3>1 DEF Matches
      <4>2. Matches(k) \subseteq Nat
        BY <1>2 DEF Matches
      <4>3. PICK i \in Matches(k) : i = First(Matches(k)) /\ \A m \in Matches(k) : i <= m
        BY <4>1, <4>2, FirstIs
      <4>4. /\ i \in DOMAIN pElements[h] /\ pElements[h][i].key = pElements[h][j].key
            /\ pElements[h][i].bErased /\ i <= j /\ i # j
        BY <1>5, <4>1, <4>3 DEF Matches
      <4>5. i < j
        BY <4>1, <4>2, <4>3, <4>4
      <4>6. pElements[h][j].bErased
        BY <1>1, <3>1, <4>4, <4>5 DEF WellLinked, LiveFirst
      <4>7. QED
        BY <4>1, <4>6
    <3>2. QED
      BY <3>1 DEF Finds
  <2>4. QED
    BY <2>1, <2>2, <2>3
<1>6. CASE Matches(k) # {} /\ ~pElements[h][First(Matches(k))].bErased
  <2>1. Matches(k) \subseteq Nat
    BY <1>2 DEF Matches
  <2>2. PICK i \in Matches(k) : i = First(Matches(k)) /\ \A m \in Matches(k) : i <= m
    BY <1>6, <2>1, FirstIs
  <2>3. /\ i \in DOMAIN pElements[h] /\ pElements[h][i].key = k /\ ~pElements[h][i].bErased
        /\ pElements[h][i] \in Elements
    <3>1. i \in DOMAIN pElements[h] /\ pElements[h][i].key = k
      BY <2>2 DEF Matches
    <3>2. ~pElements[h][i].bErased
      BY <1>6, <2>2
    <3>3. pElements[h][i] \in Elements
      BY <1>2, <3>1
    <3>4. QED
      BY <3>1, <3>2, <3>3
  <2>4. /\ pElements' = [pElements EXCEPT ![h][i].bErased = TRUE]
        /\ iErased' = iErased + 1 /\ iEntries' = iEntries - 1
    BY <1>6, <2>2 DEF ChainedErase, RemoveElement
  <2>5. PICK x : x = [pElements[h][i] EXCEPT !.bErased = TRUE]
    OBVIOUS
  <2>6. pElements' = [pElements EXCEPT ![h][i] = x]
    BY <2>4, <2>5
  <2>7. PutsIn(pElements, pElements', h, i, x)
    BY <2>6 DEF PutsIn
  <2>8. x \in Elements /\ x.bErased = TRUE /\ x.key = k
    BY <2>3, <2>5 DEF Elements
  <2> HIDE DEF h
  <2>9. /\ pElements' \in [Lists -> Seq(Elements)] /\ ShortLists(pElements')
        /\ \A g \in Lists : Len(pElements'[g]) = Len(pElements[g]) /\ DOMAIN pElements'[g] = DOMAIN pElements[g]
        /\ pElements'[h][i] = x
        /\ \A g \in Lists : \A j \in DOMAIN pElements[g] : g # h \/ j # i => pElements'[g][j] = pElements[g][j]
        /\ Started(pElements') = Started(pElements)
    BY <1>1, <2>3, <2>7, <2>8, Replaced
  <2>10. /\ Cardinality(Dead(pElements')) = Cardinality(Dead(pElements)) + 1
         /\ Cardinality(Alive(pElements')) = Cardinality(Alive(pElements)) - 1
    BY <1>1, <2>3, <2>7, <2>8, ReplacedCounts
  <2>11. LiveFirst(pElements')
    <3>1. ASSUME NEW g \in Lists, NEW j \in DOMAIN pElements'[g], NEW m \in DOMAIN pElements'[g],
                 j < m, pElements'[g][j].key = pElements'[g][m].key
          PROVE  pElements'[g][m].bErased
      <4>1. j \in DOMAIN pElements[g] /\ m \in DOMAIN pElements[g]
        BY <2>9, <3>1
      <4>2. pElements'[g][j].key = pElements[g][j].key /\ pElements'[g][m].key = pElements[g][m].key
        BY <2>3, <2>8, <2>9, <4>1
      <4>3. pElements[g][m].bErased
        BY <1>1, <3>1, <4>1, <4>2 DEF WellLinked, LiveFirst
      <4>4. QED
        BY <2>8, <2>9, <4>1, <4>3
    <3>2. QED
      BY <3>1 DEF LiveFirst
  <2>12. /\ iEntries = Cardinality(Alive(pElements)) /\ iErased = Cardinality(Dead(pElements))
         /\ iNewItems = iEntries + iErased /\ iCollisions = iNewItems - Cardinality(Started(pElements))
         /\ iMaxDepth \in Nat /\ \A g \in Lists : Len(pElements[g]) <= iMaxDepth
         /\ Cardinality(Alive(pElements)) \in Nat /\ Cardinality(Dead(pElements)) \in Nat
    BY MarkedFinite DEF ChainedInv
  <2>13. WellLinked(pElements')
    BY <2>9, <2>11 DEF WellLinked
  <2>14. /\ iEntries' = Cardinality(Alive(pElements')) /\ iErased' = Cardinality(Dead(pElements'))
         /\ iNewItems' = iEntries' + iErased'
    BY <1>3, <2>4, <2>10, <2>12
  <2>15. iCollisions' = iNewItems' - Cardinality(Started(pElements'))
    BY <1>3, <2>9, <2>12
  <2>16. iMaxDepth' \in Nat /\ \A g \in Lists : Len(pElements'[g]) <= iMaxDepth'
    BY <1>3, <2>9, <2>12
  <2>17. ChainedInv'
    BY <2>13, <2>14, <2>15, <2>16 DEF ChainedInv
  <2>18. k \notin Finds(pElements')
    <3>1. ASSUME NEW j \in DOMAIN pElements'[h], pElements'[h][j] = inUse PROVE FALSE
      <4>1. j # i
        BY <2>8, <2>9, <3>1
      <4>2. j \in DOMAIN pElements[h] /\ pElements[h][j] = inUse
        BY <1>1, <2>9, <3>1, <4>1
      <4>3. j \in Matches(k) /\ ~pElements[h][j].bErased
        BY <1>4, <4>2 DEF Matches, h
      <4>4. i < j
        BY <2>1, <2>2, <4>1, <4>3
      <4>5. pElements[h][j].key = pElements[h][i].key
        BY <1>4, <2>3, <4>2
      <4>6. QED
        BY <1>1, <2>3, <4>2, <4>3, <4>4, <4>5 DEF WellLinked, LiveFirst
    <3>2. QED
      BY <3>1 DEF Finds, h
  <2>19. \A l \in Keys : l # k => (l \in Finds(pElements') <=> l \in Finds(pElements))
    BY <1>1, <2>3, <2>7, <2>8, ReplacedFinds DEF h
  <2>20. QED
    BY <2>17, <2>18, <2>19 DEF Finds
<1>7. QED
  BY <1>5, <1>6

LEMMA ChainedClearFacts ==
  ASSUME ChainedInv, ChainedClear
  PROVE  ChainedInv' /\ Finds(pElements') = {}
<1>1. pElements' = [h \in Lists |-> <<>>] /\ \A h \in Lists : pElements'[h] = <<>>
  BY DEF ChainedClear
<1>2. \A h \in Lists : Len(pElements'[h]) = 0 /\ DOMAIN pElements'[h] = {}
  BY <1>1
<1>3. WellLinked(pElements')
  <2>1. pElements' \in [Lists -> Seq(Elements)]
    BY <1>1
  <2>2. LiveFirst(pElements')
    BY <1>2 DEF LiveFirst
  <2>3. ShortLists(pElements')
    BY <1>2, KeysCounted DEF ShortLists
  <2>4. QED
    BY <2>1, <2>2, <2>3 DEF WellLinked
<1>4. Alive(pElements') = {} /\ Dead(pElements') = {} /\ Started(pElements') = {}
  BY <1>1, <1>2 DEF Alive, Dead, Marked, Started, Places
<1>5. Finds(pElements') = {}
  BY <1>2, ListsAre DEF Finds
<1>6. iEntries' = 0 /\ iErased' = 0 /\ iNewItems' = 0 /\ iCollisions' = 0 /\ iMaxDepth' = 0
  BY DEF ChainedClear
<1>7. Cardinality(Alive(pElements')) = 0 /\ Cardinality(Dead(pElements')) = 0
      /\ Cardinality(Started(pElements')) = 0
  BY <1>4, FS_EmptySet
<1>8. /\ iEntries' = Cardinality(Alive(pElements')) /\ iErased' = Cardinality(Dead(pElements'))
      /\ iNewItems' = iEntries' + iErased'
      /\ iCollisions' = iNewItems' - Cardinality(Started(pElements'))
      /\ iMaxDepth' \in Nat /\ \A h \in Lists : Len(pElements'[h]) <= iMaxDepth'
  BY <1>2, <1>6, <1>7
<1>9. QED
  BY <1>3, <1>5, <1>8 DEF ChainedInv

LEMMA ChainedStep == ChainedInv /\ [ChainedNext]_chainedVars => ChainedInv'
<1>1. SUFFICES ASSUME ChainedInv, [ChainedNext]_chainedVars PROVE ChainedInv'
  OBVIOUS
<1>2. CASE UNCHANGED chainedVars
  <2>1. /\ pElements' = pElements /\ iEntries' = iEntries /\ iErased' = iErased
        /\ iNewItems' = iNewItems /\ iCollisions' = iCollisions /\ iMaxDepth' = iMaxDepth
    BY <1>2 DEF chainedVars, statistics
  <2>2. QED
    BY <1>1, <2>1 DEF ChainedInv
<1>3. ASSUME NEW k \in Keys, ChainedInsert(k) PROVE ChainedInv'
  BY <1>1, <1>3, OverFacts, ReuseFacts, AppendFacts DEF ChainedInsert
<1>4. ASSUME NEW k \in Keys, ChainedErase(k) PROVE ChainedInv'
  BY <1>1, <1>4, ChainedEraseFacts
<1>5. CASE ChainedClear
  BY <1>1, <1>5, ChainedClearFacts
<1>6. QED
  BY <1>1, <1>2, <1>3, <1>4, <1>5 DEF ChainedNext

LEMMA AlwaysChainedInv == ChainedSpec => []ChainedInv
<1>1. ChainedInit => ChainedInv
  BY ChainedStarts
<1>2. QED
  BY <1>1, ChainedStep, PTL DEF ChainedSpec

LEMMA ChainedKnows == Finds(pElements) = {k \in Keys : ChainedFinds(k)}
BY DEF Finds, ChainedFinds, Live

(* The table is a set of keys, for all keys, hash values and numbers of    *)
(* lists: erase never meets an erased element of a key before the live one *)
(* (HashTableBase.h:127-151, :217-222).                                    *)
THEOREM ChainedIsKeyTable == ChainedSpec => ChainedImplements
<1> DEFINE table == {k \in Keys : ChainedFinds(k)}
<1>1. table = Finds(pElements)
  BY ChainedKnows
<1>2. ChainedInit => Chained!KeyTableInit
  BY <1>1, ChainedStarts DEF ChainedInit, Chained!KeyTableInit
<1>3. ASSUME ChainedInv, [ChainedNext]_chainedVars
      PROVE  [Chained!KeyTableNext]_<<table, chainedCall>>
  <2>1. table' = Finds(pElements')
    BY DEF Finds, ChainedFinds, Live
  <2>2. Chained!KeyTableNext \/ UNCHANGED <<table, chainedCall>>
    <3>1. CASE UNCHANGED chainedVars
      <4>1. pElements' = pElements /\ chainedCall' = chainedCall
        BY <3>1 DEF chainedVars
      <4>2. QED
        BY <1>1, <2>1, <4>1
    <3>2. ASSUME NEW k \in Keys, ChainedInsert(k) PROVE Chained!KeyInsert(k)
      <4>1. Finds(pElements') = Finds(pElements) \cup {k}
        BY <1>3, <3>2, OverFacts, ReuseFacts, AppendFacts DEF ChainedInsert
      <4>2. chainedCall' = <<"insert", k>>
        BY <3>2 DEF ChainedInsert
      <4>3. QED
        BY <1>1, <2>1, <4>1, <4>2 DEF Chained!KeyInsert
    <3>3. ASSUME NEW k \in Keys, ChainedErase(k) PROVE Chained!KeyErase(k)
      <4>1. Finds(pElements') = Finds(pElements) \ {k}
        BY <1>3, <3>3, ChainedEraseFacts
      <4>2. chainedCall' = <<"erase", k>>
        BY <3>3 DEF ChainedErase
      <4>3. QED
        BY <1>1, <2>1, <4>1, <4>2 DEF Chained!KeyErase
    <3>4. CASE ChainedClear
      <4>1. Finds(pElements') = {} /\ chainedCall' = <<"clear">>
        BY <1>3, <3>4, ChainedClearFacts DEF ChainedClear
      <4>2. QED
        BY <2>1, <4>1 DEF Chained!KeyTableNext, Chained!KeyClear
    <3>5. QED
      BY <1>3, <3>1, <3>2, <3>3, <3>4 DEF ChainedNext, Chained!KeyTableNext
  <2>3. QED
    BY <2>2
<1>4. QED
  BY <1>2, <1>3, AlwaysChainedInv, PTL DEF ChainedSpec, ChainedImplements, Chained!KeyTableSpec

(* insert says "inserted" only of a key the table did not have; erase says *)
(* so of every key it has (HashTableBase.h:127, :201).                     *)
THEOREM ChainedTellsTruth == ChainedSpec => ChainedToldTruth
<1> DEFINE Truth == \A k \in Keys :
       /\ chainedCall' = <<"insert", k>> /\ told' => ~ChainedFinds(k)
       /\ chainedCall' = <<"erase", k>> /\ ~told' => ~ChainedFinds(k)
<1>1. ASSUME ChainedNext PROVE Truth
  <2>1. ASSUME NEW l \in Keys, ChainedInsert(l), NEW k \in Keys
        PROVE  /\ chainedCall' = <<"insert", k>> /\ told' => ~ChainedFinds(k)
               /\ chainedCall' # <<"erase", k>>
    <3>1. chainedCall' = <<"insert", l>>
      BY <2>1 DEF ChainedInsert
    <3>2. told' => ~ChainedFinds(l)
      BY <2>1 DEF ChainedInsert, InsertOver, InsertReuses, InsertAppends, ChainedFinds
    <3>3. QED
      BY <3>1, <3>2
  <2>2. ASSUME NEW l \in Keys, ChainedErase(l), NEW k \in Keys
        PROVE  /\ chainedCall' # <<"insert", k>>
               /\ chainedCall' = <<"erase", k>> /\ ~told' => ~ChainedFinds(k)
    <3>1. chainedCall' = <<"erase", l>>
      BY <2>2 DEF ChainedErase
    <3>2. ~told' => Matches(l) = {}
      BY <2>2 DEF ChainedErase
    <3>3. Matches(l) = {} => Live(l) = {}
      BY DEF Matches, Live
    <3>4. QED
      BY <3>1, <3>2, <3>3 DEF ChainedFinds
  <2>3. ASSUME ChainedClear, NEW k \in Keys
        PROVE  chainedCall' # <<"insert", k>> /\ chainedCall' # <<"erase", k>>
    <3>1. chainedCall' = <<"clear">>
      BY <2>3 DEF ChainedClear
    <3>2. QED
      BY <3>1
  <2>4. QED
    BY <1>1, <2>1, <2>2, <2>3 DEF ChainedNext
<1>2. [ChainedNext]_chainedVars => [Truth]_chainedVars
  BY <1>1
<1>3. QED
  BY <1>2, PTL DEF ChainedSpec, ChainedToldTruth

(* The counters of entries, erased and new elements, collisions and depth  *)
(* are those of the lists, for all keys, hash values and numbers of lists, *)
(* and no list is longer than there are keys (HashTableBase.h:18-25).      *)
THEOREM ChainedStatistics == ChainedSpec => []StatisticsMatch
<1>1. ASSUME ChainedInv PROVE StatisticsMatch
  <2>1. CountIf(LAMBDA e : ~e.bErased) = Cardinality(Alive(pElements))
    <3>1. \A p \in Places : p[2] \in DOMAIN pElements[p[1]] =>
            (pElements[p[1]][p[2]].bErased \in {FALSE} <=> ~pElements[p[1]][p[2]].bErased)
      <4>1. \A h \in Lists : pElements[h] \in Seq(Elements)
        BY <1>1 DEF ChainedInv, WellLinked
      <4>2. \A h \in Lists : \A i \in DOMAIN pElements[h] : pElements[h][i] \in Elements
        BY <4>1
      <4>3. \A y \in Elements : y.bErased \in {FALSE} <=> ~y.bErased
        BY DEF Elements
      <4>4. \A p \in Places : p[1] \in Lists
        BY DEF Places
      <4>5. QED
        BY <4>2, <4>3, <4>4
    <3>2. Alive(pElements) = {p \in Places : p[2] \in DOMAIN pElements[p[1]] /\ ~pElements[p[1]][p[2]].bErased}
      BY <3>1 DEF Alive, Marked
    <3>3. QED
      BY <3>2 DEF CountIf, Places
  <2>2. CountIf(LAMBDA e : e.bErased) = Cardinality(Dead(pElements))
    <3>1. \A p \in Places : p[2] \in DOMAIN pElements[p[1]] =>
            (pElements[p[1]][p[2]].bErased \in {TRUE} <=> pElements[p[1]][p[2]].bErased)
      <4>1. \A h \in Lists : pElements[h] \in Seq(Elements)
        BY <1>1 DEF ChainedInv, WellLinked
      <4>2. \A h \in Lists : \A i \in DOMAIN pElements[h] : pElements[h][i] \in Elements
        BY <4>1
      <4>3. \A y \in Elements : y.bErased \in {TRUE} <=> y.bErased
        BY DEF Elements
      <4>4. \A p \in Places : p[1] \in Lists
        BY DEF Places
      <4>5. QED
        BY <4>2, <4>3, <4>4
    <3>2. Dead(pElements) = {p \in Places : p[2] \in DOMAIN pElements[p[1]] /\ pElements[p[1]][p[2]].bErased}
      BY <3>1 DEF Dead, Marked
    <3>3. QED
      BY <3>2 DEF CountIf, Places
  <2>3. iCollisions = iNewItems - Cardinality({h \in Lists : pElements[h] # <<>>})
    BY <1>1 DEF ChainedInv, Started
  <2>4. QED
    BY <1>1, <2>1, <2>2, <2>3 DEF ChainedInv, StatisticsMatch
<1>2. QED
  BY <1>1, AlwaysChainedInv, PTL

(* The three tables keep what the runs check of them, for all keys, hash   *)
(* values and sizes of each: no item is lost but for the hidden ones, no   *)
(* path is broken, and the statistics count what is there                  *)
(* (HashTableBase.h, HashTableBucketHashing.h, HashTableProbing.h).        *)
THEOREM TablesStayIntact == ChainedSpec /\ BucketSpec /\ ProbingSpec => []MCTablesIntact
<1>1. StatisticsMatch /\ LostOnlyWhenHidden /\ SizeCounts /\ PathUnbroken => MCTablesIntact
  BY DEF MCTablesIntact
<1>2. QED
  BY <1>1, ChainedStatistics, BucketLosesOnlyHidden, BucketSizeCounts, PathsStayUnbroken, PTL
-----------------------------------------------------------------------------
(* MyCircularDeque *)

(* One turn around the cells.                                              *)
LEMMA CellIs ==
  ASSUME NEW i \in 0 .. 2 * full - 1
  PROVE  Cell(i) = IF i < full THEN i ELSE i - full
<1>1. full \in Nat /\ full > 0 /\ i \in Nat
  BY DequeAssumption
<1>2. CASE i < full
  BY <1>1, <1>2 DEF Cell
<1>3. CASE i >= full
  BY <1>1, <1>3 DEF Cell
<1>4. QED
  BY <1>1, <1>2, <1>3

(* The cells hold values, and front and used stay within their range.      *)
CircularInv ==
  /\ dq \in [0 .. full - 1 -> Nat]
  /\ front \in 0 .. full - 1
  /\ used \in 0 .. full

(* The cells in use, from the front on.                                    *)
Held(c, f, u) == [i \in 1 .. u |-> c[Cell(f + i - 1)]]
(* What getFront and getRear tell.                                         *)
EndsOf(c, f, u) == <<IF u = 0 THEN -1 ELSE c[f], IF u = 0 THEN -1 ELSE c[Cell(f + u - 1)]>>

(* It is a sequence of values, and its ends are what is told.              *)
LEMMA HeldIs ==
  ASSUME NEW c \in [0 .. full - 1 -> Nat], NEW f \in 0 .. full - 1, NEW u \in 0 .. full
  PROVE  /\ Held(c, f, u) \in Seq(Nat) /\ Len(Held(c, f, u)) = u
         /\ \A i \in 1 .. u : Cell(f + i - 1) \in 0 .. full - 1 /\ Held(c, f, u)[i] = c[Cell(f + i - 1)]
         /\ EndsOf(c, f, u) = Abstract!Ends(Held(c, f, u))
<1>1. full \in Nat /\ full > 0 /\ u \in Nat
  BY DequeAssumption
<1>2. \A i \in 1 .. u : Cell(f + i - 1) \in 0 .. full - 1
  <2>1. \A i \in 1 .. u : f + i - 1 \in 0 .. 2 * full - 1
    BY <1>1
  <2>2. QED
    BY <1>1, <2>1, CellIs
<1>3. \A i \in 1 .. u : Held(c, f, u)[i] = c[Cell(f + i - 1)] /\ Held(c, f, u)[i] \in Nat
  BY <1>2 DEF Held
<1>4. Held(c, f, u) \in [1 .. u -> Nat]
  BY <1>2 DEF Held
<1>5. Held(c, f, u) \in Seq(Nat) /\ Len(Held(c, f, u)) = u
  BY <1>1, <1>4
<1>6. EndsOf(c, f, u) = Abstract!Ends(Held(c, f, u))
  <2>1. CASE u = 0
    BY <1>5, <2>1 DEF EndsOf, Abstract!Ends
  <2>2. CASE u > 0
    <3>1. Cell(f) = f
      BY <1>1, CellIs
    <3>2. 1 \in 1 .. u /\ u \in 1 .. u /\ f + 1 - 1 = f
      BY <1>1, <2>2
    <3>3. Held(c, f, u)[1] = c[f] /\ Held(c, f, u)[u] = c[Cell(f + u - 1)]
      BY <1>3, <3>1, <3>2
    <3>4. Held(c, f, u) # <<>>
      BY <1>5, <2>2
    <3>5. QED
      BY <1>1, <1>5, <2>2, <3>3, <3>4 DEF EndsOf, Abstract!Ends
  <2>3. QED
    BY <1>1, <2>1, <2>2
<1>7. QED
  BY <1>2, <1>3, <1>5, <1>6

(* A sequence with the values of the cells in use is what they hold.       *)
LEMMA HeldEqual ==
  ASSUME NEW s \in Seq(Nat), NEW c \in [0 .. full - 1 -> Nat], NEW f \in 0 .. full - 1, NEW u \in 0 .. full,
         Len(s) = u, \A i \in 1 .. u : s[i] = c[Cell(f + i - 1)]
  PROVE  Held(c, f, u) = s
<1>1. /\ Held(c, f, u) \in Seq(Nat) /\ Len(Held(c, f, u)) = u
      /\ \A i \in 1 .. u : Held(c, f, u)[i] = c[Cell(f + i - 1)]
  BY HeldIs
<1>2. QED
  BY <1>1, SeqEqual

(* Cells in use are different cells.                                       *)
LEMMA CellsDiffer ==
  ASSUME NEW f \in 0 .. full - 1, NEW i \in 0 .. full - 1, NEW j \in 0 .. full - 1
  PROVE  /\ Cell(f + i) \in 0 .. full - 1
         /\ i # j => Cell(f + i) # Cell(f + j)
<1>1. full \in Nat /\ full > 0
  BY DequeAssumption
<1>2. f + i \in 0 .. 2 * full - 1 /\ f + j \in 0 .. 2 * full - 1
  BY <1>1
<1>3. QED
  BY <1>1, <1>2, CellIs

(* x is cell number i, counted around; d is c with v put into x.           *)
IsCell(x, i) == x = Cell(i)
PutsAt(d, c, x, v) == d[x] = v /\ \A y \in 0 .. full - 1 : y # x => d[y] = c[y]
PutsLast(d, c, f, u, v) == \E x \in 0 .. full - 1 : IsCell(x, f + u) /\ PutsAt(d, c, x, v)
PutsFirst(d, c, x, f, v) == IsCell(x, f - 1 + full) /\ PutsAt(d, c, x, v)

(* A value put behind the last cell in use is appended to what is held.    *)
LEMMA PutLast ==
  ASSUME NEW c \in [0 .. full - 1 -> Nat], NEW f \in 0 .. full - 1, NEW u \in 0 .. full - 1, NEW v \in Nat,
         NEW d \in [0 .. full - 1 -> Nat], PutsLast(d, c, f, u, v)
  PROVE  Held(d, f, u + 1) = Append(Held(c, f, u), v)
<1>1. full \in Nat /\ full > 0 /\ u \in 0 .. full /\ u + 1 \in 0 .. full /\ u \in Nat
  BY DequeAssumption
<1>0. PICK x \in 0 .. full - 1 : IsCell(x, f + u) /\ PutsAt(d, c, x, v)
  BY DEF PutsLast
<1>2. PICK s \in Seq(Nat) : s = Held(c, f, u)
  BY <1>1, HeldIs
<1>3. Len(s) = u /\ \A i \in 1 .. u : s[i] = c[Cell(f + i - 1)]
  BY <1>1, <1>2, HeldIs
<1>4. PICK t \in Seq(Nat) : /\ t = Append(s, v) /\ Len(t) = Len(s) + 1 /\ t[Len(s) + 1] = v
                            /\ \A i \in 1 .. Len(s) : t[i] = s[i]
  <2>1. /\ Append(s, v) \in Seq(Nat) /\ Len(Append(s, v)) = Len(s) + 1 /\ Append(s, v)[Len(s) + 1] = v
        /\ \A i \in 1 .. Len(s) : Append(s, v)[i] = s[i]
    BY AppendProperties
  <2>2. QED
    BY <2>1
<1>5. Len(t) = u + 1 /\ t[u + 1] = v /\ \A i \in 1 .. u : t[i] = s[i]
  BY <1>3, <1>4
<1>6. ASSUME NEW i \in 1 .. u + 1 PROVE t[i] = d[Cell(f + i - 1)]
  <2>1. CASE i = u + 1
    <3>1. f + i - 1 = f + u
      BY <1>1, <2>1
    <3>2. QED
      BY <1>0, <1>5, <2>1, <3>1 DEF IsCell, PutsAt
  <2>2. CASE i # u + 1
    <3>1. i \in 1 .. u /\ i - 1 \in 0 .. full - 1 /\ i - 1 # u
      BY <1>1, <2>2
    <3>2. PICK j \in 0 .. full - 1 : j = i - 1
      BY <3>1
    <3>3. Cell(f + j) # Cell(f + u) /\ Cell(f + j) \in 0 .. full - 1
      BY <3>1, <3>2, CellsDiffer
    <3>4. f + j = f + i - 1
      BY <1>1, <3>2
    <3>5. t[i] = c[Cell(f + j)]
      BY <1>3, <1>5, <3>1, <3>4
    <3>6. QED
      BY <1>0, <3>3, <3>4, <3>5 DEF IsCell, PutsAt
  <2>3. QED
    BY <2>1, <2>2
<1>7. QED
  BY <1>1, <1>2, <1>4, <1>5, <1>6, HeldEqual

(* One cell further from the cell before f is where it was from f on.      *)
TurnedTo(i, n) == IF i < n THEN i ELSE i - n

LEMMA StepBack ==
  ASSUME NEW n \in Nat, NEW f \in Nat, NEW j \in Nat, NEW x \in Nat,
         f < n, j >= 1, j < n, x = IF f = 0 THEN n - 1 ELSE f - 1
  PROVE  /\ TurnedTo(x + j, n) = TurnedTo(f + j - 1, n) /\ TurnedTo(x + j, n) # x
         /\ TurnedTo(x + j, n) \in 0 .. n - 1
<1>1. CASE f = 0
  <2>1. x + j = n - 1 + j /\ f + j - 1 = j - 1
    BY <1>1
  <2>2. TurnedTo(x + j, n) = j - 1 /\ TurnedTo(f + j - 1, n) = j - 1
    BY <2>1 DEF TurnedTo
  <2>3. QED
    BY <1>1, <2>2
<1>2. CASE f # 0
  <2>1. x = f - 1 /\ x + j = f + j - 1
    BY <1>2
  <2>2. QED
    BY <2>1 DEF TurnedTo
<1>3. QED
  BY <1>1, <1>2

LEMMA BackOne ==
  ASSUME NEW f \in 0 .. full - 1, NEW x \in 0 .. full - 1, IsCell(x, f - 1 + full)
  PROVE  \A j \in 1 .. full - 1 : /\ Cell(x + j) = Cell(f + j - 1) /\ Cell(x + j) # x
                                  /\ Cell(x + j) \in 0 .. full - 1
<1>1. full \in Nat /\ full > 0 /\ f \in Nat /\ x \in Nat /\ f < full
  BY DequeAssumption
<1>2. \A i \in 0 .. 2 * full - 1 : Cell(i) = TurnedTo(i, full)
  BY CellIs DEF TurnedTo
<1>3. x = IF f = 0 THEN full - 1 ELSE f - 1
  <2>1. f - 1 + full \in 0 .. 2 * full - 1 /\ x = Cell(f - 1 + full)
    BY <1>1 DEF IsCell
  <2>2. x = TurnedTo(f - 1 + full, full)
    BY <1>2, <2>1
  <2>3. QED
    BY <1>1, <2>2 DEF TurnedTo
<1>4. ASSUME NEW j \in 1 .. full - 1
      PROVE  Cell(x + j) = Cell(f + j - 1) /\ Cell(x + j) # x /\ Cell(x + j) \in 0 .. full - 1
  <2>1. j \in Nat /\ j >= 1 /\ j < full /\ x + j \in 0 .. 2 * full - 1 /\ f + j - 1 \in 0 .. 2 * full - 1
    BY <1>1
  <2>2. Cell(x + j) = TurnedTo(x + j, full) /\ Cell(f + j - 1) = TurnedTo(f + j - 1, full)
    BY <1>2, <2>1
  <2>3. /\ TurnedTo(x + j, full) = TurnedTo(f + j - 1, full) /\ TurnedTo(x + j, full) # x
        /\ TurnedTo(x + j, full) \in 0 .. full - 1
    BY <1>1, <1>3, <2>1, StepBack
  <2>4. QED
    BY <2>2, <2>3
<1>5. QED
  BY <1>4

(* The same at the front: the cell before it is the new front.             *)
Before(v, s) == <<v>> \o s

LEMMA PutFirst ==
  ASSUME NEW c \in [0 .. full - 1 -> Nat], NEW f \in 0 .. full - 1, NEW u \in 0 .. full - 1, NEW v \in Nat,
         NEW d \in [0 .. full - 1 -> Nat], NEW x \in 0 .. full - 1, PutsFirst(d, c, x, f, v)
  PROVE  Held(d, x, u + 1) = Before(v, Held(c, f, u))
<1>1. full \in Nat /\ full > 0 /\ u \in 0 .. full /\ u + 1 \in 0 .. full /\ u \in Nat
  BY DequeAssumption
<1>2. PICK s \in Seq(Nat) : s = Held(c, f, u)
  BY <1>1, HeldIs
<1>3. Len(s) = u /\ \A i \in 1 .. u : s[i] = c[Cell(f + i - 1)]
  BY <1>1, <1>2, HeldIs
<1>4. PICK t \in Seq(Nat) : t = <<v>> \o s
  <2>1. <<v>> \o s \in Seq(Nat)
    <3>1. <<v>> \in Seq(Nat)
      OBVIOUS
    <3>2. QED
      BY <3>1, ConcatProperties
  <2>2. QED
    BY <2>1
<1>5. Len(t) = u + 1 /\ t[1] = v /\ \A i \in 1 .. u : t[i + 1] = s[i]
  <2>0. <<v>> \in Seq(Nat)
    OBVIOUS
  <2>1. PICK w \in Seq(Nat) : w = <<v>>
    BY <2>0
  <2>2. Len(w) = 1 /\ w[1] = v
    BY <2>1
  <2>3. Len(t) = Len(w) + Len(s) /\ \A i \in 1 .. Len(w) + Len(s) : t[i] = IF i <= Len(w) THEN w[i] ELSE s[i - Len(w)]
    <3>1. t = w \o s
      BY <1>4, <2>1
    <3>2. /\ Len(w \o s) = Len(w) + Len(s)
          /\ \A i \in 1 .. Len(w) + Len(s) : (w \o s)[i] = IF i <= Len(w) THEN w[i] ELSE s[i - Len(w)]
      BY ConcatProperties
    <3>3. QED
      BY <3>1, <3>2
  <2>4. QED
    BY <1>1, <1>3, <2>2, <2>3
<1>6. \A j \in 1 .. full - 1 : Cell(x + j) = Cell(f + j - 1) /\ Cell(x + j) # x /\ Cell(x + j) \in 0 .. full - 1
  BY BackOne DEF PutsFirst
<1>7. ASSUME NEW i \in 1 .. u + 1 PROVE t[i] = d[Cell(x + i - 1)]
  <2>1. CASE i = 1
    <3>1. x + i - 1 = x /\ x \in 0 .. 2 * full - 1
      BY <1>1, <2>1
    <3>2. Cell(x) = x
      BY <1>1, <3>1, CellIs
    <3>3. QED
      BY <1>5, <2>1, <3>1, <3>2 DEF PutsAt, PutsFirst
  <2>2. CASE i # 1
    <3>1. PICK j \in 1 .. u : i = j + 1
      <4>1. i - 1 \in 1 .. u /\ i = (i - 1) + 1
        BY <1>1, <2>2
      <4>2. QED
        BY <4>1
    <3>2. x + i - 1 = x + j /\ j \in 1 .. full - 1
      BY <1>1, <3>1
    <3>5. Cell(x + j) = Cell(f + j - 1) /\ Cell(x + j) # x /\ Cell(x + j) \in 0 .. full - 1
      BY <1>6, <3>2
    <3>6. t[i] = s[j] /\ s[j] = c[Cell(f + j - 1)]
      BY <1>3, <1>5, <3>1
    <3>7. QED
      BY <3>2, <3>5, <3>6 DEF PutsAt, PutsFirst
  <2>3. QED
    BY <2>1, <2>2
<1>8. QED
  BY <1>1, <1>2, <1>4, <1>5, <1>7, HeldEqual DEF Before

(* The first cell in use, and the last one, given back.                    *)
LEMMA TakeFirstCell ==
  ASSUME NEW c \in [0 .. full - 1 -> Nat], NEW f \in 0 .. full - 1, NEW u \in 1 .. full,
         NEW x \in 0 .. full - 1, IsCell(x, f + 1)
  PROVE  Held(c, x, u - 1) = Tail(Held(c, f, u))
<1>1. full \in Nat /\ full > 0 /\ u \in 0 .. full /\ u - 1 \in 0 .. full /\ u \in Nat
  BY DequeAssumption
<1>2. PICK s \in Seq(Nat) : s = Held(c, f, u)
  BY <1>1, HeldIs
<1>3. Len(s) = u /\ \A i \in 1 .. u : s[i] = c[Cell(f + i - 1)]
  BY <1>1, <1>2, HeldIs
<1>4. s # <<>>
  BY <1>3
<1>5. PICK t \in Seq(Nat) : t = Tail(s) /\ Len(t) = Len(s) - 1 /\ \A i \in 1 .. Len(t) : t[i] = s[i + 1]
  BY <1>4, HeadTailProperties
<1>6. Len(t) = u - 1 /\ \A i \in 1 .. u - 1 : t[i] = s[i + 1]
  BY <1>3, <1>5
<1>7. x = IF f + 1 = full THEN 0 ELSE f + 1
  <2>1. f + 1 \in 0 .. 2 * full - 1
    BY <1>1
  <2>2. QED
    BY <1>1, <2>1, CellIs DEF IsCell
<1>8. ASSUME NEW i \in 1 .. u - 1 PROVE t[i] = c[Cell(x + i - 1)]
  <2>1. x + i - 1 \in 0 .. 2 * full - 1 /\ f + i \in 0 .. 2 * full - 1
    BY <1>1
  <2>2. Cell(x + i - 1) = IF x + i - 1 < full THEN x + i - 1 ELSE x + i - 1 - full
    BY <1>1, <2>1, CellIs
  <2>3. Cell(f + i) = IF f + i < full THEN f + i ELSE f + i - full
    BY <1>1, <2>1, CellIs
  <2>4. Cell(x + i - 1) = Cell(f + i)
    <3>1. f \in Nat /\ i \in Nat /\ x \in Nat /\ f < full /\ i >= 1 /\ i < full
      BY <1>1
    <3>2. CASE f + 1 = full
      <4>1. x = 0 /\ x + i - 1 = i - 1 /\ i - 1 < full /\ f + i >= full /\ f + i - full = i - 1
        BY <1>1, <1>7, <3>1, <3>2
      <4>2. Cell(x + i - 1) = i - 1
        BY <2>2, <4>1
      <4>3. Cell(f + i) = i - 1
        BY <1>1, <2>3, <3>1, <4>1
      <4>4. QED
        BY <4>2, <4>3
    <3>3. CASE f + 1 # full
      <4>1. x + i - 1 = f + i
        BY <1>1, <1>7, <3>1, <3>3
      <4>2. QED
        BY <4>1
    <3>4. QED
      BY <3>2, <3>3
  <2>5. PICK j \in 1 .. u : j = i + 1
    BY <1>1
  <2>6. f + j - 1 = f + i
    BY <1>1, <2>5
  <2>7. t[i] = s[j] /\ s[j] = c[Cell(f + j - 1)]
    BY <1>3, <1>6, <2>5
  <2>8. QED
    BY <2>4, <2>6, <2>7
<1>9. QED
  BY <1>1, <1>2, <1>5, <1>6, <1>8, HeldEqual

LEMMA TakeLastCell ==
  ASSUME NEW c \in [0 .. full - 1 -> Nat], NEW f \in 0 .. full - 1, NEW u \in 1 .. full
  PROVE  Held(c, f, u - 1) = SubSeq(Held(c, f, u), 1, Len(Held(c, f, u)) - 1)
<1>1. full \in Nat /\ full > 0 /\ u \in 0 .. full /\ u - 1 \in 0 .. full /\ u \in Nat
  BY DequeAssumption
<1>2. PICK s \in Seq(Nat) : s = Held(c, f, u)
  BY <1>1, HeldIs
<1>3. Len(s) = u /\ \A i \in 1 .. u : s[i] = c[Cell(f + i - 1)]
  BY <1>1, <1>2, HeldIs
<1>4. PICK t \in Seq(Nat) : /\ t = SubSeq(s, 1, u - 1) /\ Len(t) = (IF 1 <= u - 1 THEN u - 1 - 1 + 1 ELSE 0)
                            /\ \A i \in 1 .. u - 1 - 1 + 1 : t[i] = s[1 + i - 1]
  <2>1. \A i \in 1 .. u - 1 : s[i] \in Nat
    BY <1>1, <1>3
  <2>2. 1 \in Int /\ u - 1 \in Int
    BY <1>1
  <2>3. /\ SubSeq(s, 1, u - 1) \in Seq(Nat)
        /\ Len(SubSeq(s, 1, u - 1)) = (IF 1 <= u - 1 THEN u - 1 - 1 + 1 ELSE 0)
        /\ \A i \in 1 .. u - 1 - 1 + 1 : SubSeq(s, 1, u - 1)[i] = s[1 + i - 1]
    BY <2>1, <2>2, SubSeqProperties
  <2>4. QED
    BY <2>3
<1>5. Len(t) = u - 1 /\ \A i \in 1 .. u - 1 : t[i] = s[i]
  <2>1. ASSUME NEW i \in 1 .. u - 1 PROVE i \in 1 .. u - 1 - 1 + 1 /\ 1 + i - 1 = i
    BY <1>1
  <2>2. Len(t) = u - 1
    BY <1>1, <1>4
  <2>3. QED
    BY <1>4, <2>1, <2>2
<1>6. \A i \in 1 .. u - 1 : t[i] = c[Cell(f + i - 1)]
  BY <1>1, <1>3, <1>5
<1>7. Held(c, f, u - 1) = t
  BY <1>1, <1>5, <1>6, HeldEqual
<1>8. QED
  BY <1>2, <1>3, <1>4, <1>7

(* What each call does to the values in use.                               *)
HeldNow == Held(dq, front, used)
HeldNext == Held(dq', front', used')

LEMMA CircularFacts ==
  ASSUME CircularInv, CircularNext
  PROVE  /\ CircularInv'
         /\ \/ \E v \in DequeValues : used < full /\ (HeldNext = <<v>> \o HeldNow \/ HeldNext = Append(HeldNow, v))
            \/ HeldNow # <<>> /\ HeldNext = Tail(HeldNow)
            \/ HeldNow # <<>> /\ HeldNext = SubSeq(HeldNow, 1, Len(HeldNow) - 1)
<1>1. full \in Nat /\ full > 0 /\ DequeValues \subseteq Nat
  BY DequeAssumption
<1>2. dq \in [0 .. full - 1 -> Nat] /\ front \in 0 .. full - 1 /\ used \in 0 .. full
  BY DEF CircularInv
<1>3. PICK c \in [0 .. full - 1 -> Nat], f \in 0 .. full - 1, u \in 0 .. full : c = dq /\ f = front /\ u = used
  BY <1>2
<1>4. \A x \in 0 .. 2 * full - 1 : Cell(x) \in 0 .. full - 1
  BY <1>1, CellIs
<1>5. ASSUME NEW v \in DequeValues, InsertLast(v)
      PROVE  CircularInv' /\ used < full /\ HeldNext = Append(HeldNow, v)
  <2>1. /\ u \in 0 .. full - 1 /\ f + u \in 0 .. 2 * full - 1 /\ v \in Nat
        /\ dq' = [c EXCEPT ![Cell(f + u)] = v] /\ used' = u + 1 /\ front' = f /\ used < full
    BY <1>1, <1>2, <1>3, <1>5 DEF InsertLast
  <2>2. PICK x \in 0 .. full - 1 : IsCell(x, f + u)
    BY <1>4, <2>1 DEF IsCell
  <2>3. PICK d \in [0 .. full - 1 -> Nat] : d = dq' /\ PutsAt(d, c, x, v)
    BY <2>1, <2>2 DEF IsCell, PutsAt
  <2>4. Held(d, f, u + 1) = Append(Held(c, f, u), v)
    <3>1. u \in 0 .. full - 1 /\ v \in Nat
      BY <2>1
    <3>2. PutsLast(d, c, f, u, v)
      BY <2>2, <2>3 DEF PutsLast
    <3>3. QED
      BY <3>1, <3>2, PutLast
  <2>5. CircularInv'
    BY <1>1, <2>1, <2>3 DEF CircularInv
  <2>6. QED
    BY <1>3, <2>1, <2>3, <2>4, <2>5 DEF HeldNow, HeldNext
<1>6. ASSUME NEW v \in DequeValues, InsertFront(v), ~InsertLast(v)
      PROVE  CircularInv' /\ used < full /\ HeldNext = <<v>> \o HeldNow
  <2>1. /\ u \in 0 .. full - 1 /\ f - 1 + full \in 0 .. 2 * full - 1 /\ v \in Nat
        /\ front' = Cell(f - 1 + full) /\ dq' = [c EXCEPT ![front'] = v] /\ used' = u + 1 /\ used < full
    BY <1>1, <1>2, <1>3, <1>6 DEF InsertFront
  <2>2. PICK x \in 0 .. full - 1 : x = front' /\ IsCell(x, f - 1 + full)
    BY <1>4, <2>1 DEF IsCell
  <2>3. PICK d \in [0 .. full - 1 -> Nat] : d = dq' /\ PutsAt(d, c, x, v)
    BY <2>1, <2>2 DEF IsCell, PutsAt
  <2>4. Held(d, x, u + 1) = <<v>> \o Held(c, f, u)
    <3>1. u \in 0 .. full - 1 /\ v \in Nat
      BY <2>1
    <3>2. PutsFirst(d, c, x, f, v)
      BY <2>2, <2>3 DEF PutsFirst
    <3>3. Held(d, x, u + 1) = Before(v, Held(c, f, u))
      BY <3>1, <3>2, PutFirst
    <3>4. QED
      BY <3>3 DEF Before
  <2>5. CircularInv'
    BY <1>1, <2>1, <2>2, <2>3 DEF CircularInv
  <2>6. QED
    BY <1>3, <2>1, <2>2, <2>3, <2>4, <2>5 DEF HeldNow, HeldNext
<1>7. u > 0 => HeldNow # <<>>
  <2>1. Held(c, f, u) \in Seq(Nat) /\ Len(Held(c, f, u)) = u
    BY HeldIs
  <2>2. QED
    BY <1>3, <2>1 DEF HeldNow
<1>8. ASSUME DeleteFront PROVE CircularInv' /\ HeldNow # <<>> /\ HeldNext = Tail(HeldNow)
  <2>1. /\ u \in 1 .. full /\ f + 1 \in 0 .. 2 * full - 1 /\ u > 0
        /\ front' = Cell(f + 1) /\ dq' = c /\ used' = u - 1
    BY <1>1, <1>2, <1>3, <1>8 DEF DeleteFront
  <2>2. PICK x \in 0 .. full - 1 : x = front' /\ IsCell(x, f + 1)
    BY <1>4, <2>1 DEF IsCell
  <2>3. Held(c, x, u - 1) = Tail(Held(c, f, u))
    BY <2>1, <2>2, TakeFirstCell
  <2>4. CircularInv'
    BY <1>1, <2>1, <2>2 DEF CircularInv
  <2>5. QED
    BY <1>3, <1>7, <2>1, <2>2, <2>3, <2>4 DEF HeldNow, HeldNext
<1>9. ASSUME DeleteLast
      PROVE  CircularInv' /\ HeldNow # <<>> /\ HeldNext = SubSeq(HeldNow, 1, Len(HeldNow) - 1)
  <2>1. u \in 1 .. full /\ u > 0 /\ front' = f /\ dq' = c /\ used' = u - 1
    BY <1>1, <1>2, <1>3, <1>9 DEF DeleteLast
  <2>2. Held(c, f, u - 1) = SubSeq(Held(c, f, u), 1, Len(Held(c, f, u)) - 1)
    BY <2>1, TakeLastCell
  <2>3. CircularInv'
    BY <1>1, <2>1 DEF CircularInv
  <2>4. QED
    BY <1>3, <1>7, <2>1, <2>2, <2>3 DEF HeldNow, HeldNext
<1>10. QED
  BY <1>5, <1>6, <1>8, <1>9 DEF CircularNext

(* MyCircularDeque is a double-ended queue of at most "full" values, for   *)
(* all numbers of cells and values, wherever the used cells wrap around    *)
(* (CircularDataStruct.cpp:7-83).                                          *)
THEOREM CircularIsDeque == CircularSpec => ImplementsDeque
<1> DEFINE items == [i \in 1 .. used |-> dq[Cell(front + i - 1)]]
           shown == <<GetFront, GetRear>>
<1>1. CircularInit => CircularInv
  BY DequeAssumption DEF CircularInit, CircularInv
<1>2. CircularInv /\ [CircularNext]_circularVars => CircularInv'
  <2>1. CircularInv /\ CircularNext => CircularInv'
    BY CircularFacts
  <2>2. CircularInv /\ UNCHANGED circularVars => CircularInv'
    BY DEF CircularInv, circularVars
  <2>3. QED
    BY <2>1, <2>2
<1>3. CircularInv => items = HeldNow /\ shown = Abstract!Ends(HeldNow) /\ Len(HeldNow) = used
  <2>1. SUFFICES ASSUME CircularInv PROVE items = HeldNow /\ shown = Abstract!Ends(HeldNow) /\ Len(HeldNow) = used
    OBVIOUS
  <2>2. PICK c \in [0 .. full - 1 -> Nat], f \in 0 .. full - 1, u \in 0 .. full : c = dq /\ f = front /\ u = used
    BY <2>1 DEF CircularInv
  <2>3. EndsOf(c, f, u) = Abstract!Ends(Held(c, f, u)) /\ Len(Held(c, f, u)) = u
    BY HeldIs
  <2>4. shown = EndsOf(dq, front, used)
    BY DEF EndsOf, GetFront, GetRear
  <2>5. items = HeldNow
    BY DEF HeldNow, Held
  <2> HIDE DEF shown, items
  <2>6. QED
    BY <2>2, <2>3, <2>4, <2>5 DEF HeldNow
<1>4. CircularInit => Abstract!DequeInit
  <2>1. SUFFICES ASSUME CircularInit PROVE Abstract!DequeInit
    OBVIOUS
  <2>2. used = 0 /\ items = <<>>
    BY <2>1 DEF CircularInit
  <2>3. shown = Abstract!Ends(<<>>)
    BY <2>2 DEF Abstract!Ends, GetFront, GetRear
  <2>4. QED
    BY <2>2, <2>3 DEF Abstract!DequeInit
<1>5. CircularInv /\ CircularInv' /\ [CircularNext]_circularVars
        => [Abstract!InsertEither \/ Abstract!DeleteEither]_<<items, shown>>
  <2>1. SUFFICES ASSUME CircularInv, CircularInv', [CircularNext]_circularVars
                 PROVE  [Abstract!InsertEither \/ Abstract!DeleteEither]_<<items, shown>>
    OBVIOUS
  <2>2. items = HeldNow /\ shown = Abstract!Ends(HeldNow) /\ Len(HeldNow) = used
    BY <1>3, <2>1
  <2>3. items' = HeldNext /\ shown' = Abstract!Ends(HeldNext)
    <3>1. (items = HeldNow /\ shown = Abstract!Ends(HeldNow))'
      BY <1>3, <2>1, PTL
    <3>2. HeldNow' = HeldNext
      BY DEF HeldNow, HeldNext
    <3>3. Abstract!Ends(HeldNow)' = Abstract!Ends(HeldNext)
      BY <3>2 DEF Abstract!Ends, HeldNow, HeldNext
    <3> HIDE DEF items, shown
    <3>4. QED
      BY <3>1, <3>2, <3>3
  <2>4. CASE UNCHANGED circularVars
    BY <2>4 DEF circularVars, GetFront, GetRear
  <2>5. CASE CircularNext
    <3>1. \/ \E v \in DequeValues : used < full /\ (HeldNext = <<v>> \o HeldNow \/ HeldNext = Append(HeldNow, v))
          \/ HeldNow # <<>> /\ HeldNext = Tail(HeldNow)
          \/ HeldNow # <<>> /\ HeldNext = SubSeq(HeldNow, 1, Len(HeldNow) - 1)
      BY <2>1, <2>5, CircularFacts
    <3>2. \A s : HeldNext = s => Abstract!Becomes(s)
      BY <2>3 DEF Abstract!Becomes
    <3>3. ASSUME NEW v \in DequeValues, used < full, HeldNext = <<v>> \o HeldNow \/ HeldNext = Append(HeldNow, v)
          PROVE  Abstract!InsertEither
      BY <2>2, <3>2, <3>3 DEF Abstract!InsertEither
    <3>4. ASSUME HeldNow # <<>>, HeldNext = Tail(HeldNow) \/ HeldNext = SubSeq(HeldNow, 1, Len(HeldNow) - 1)
          PROVE  Abstract!DeleteEither
      BY <2>2, <3>2, <3>4 DEF Abstract!DeleteEither
    <3>5. QED
      BY <3>1, <3>3, <3>4
  <2>6. QED
    BY <2>1, <2>4, <2>5
<1>6. QED
  BY <1>1, <1>2, <1>4, <1>5, PTL DEF CircularSpec, ImplementsDeque, Abstract!DequeSpec, Abstract!dequeVars
=============================================================================
