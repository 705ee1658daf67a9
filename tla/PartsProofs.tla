----------------------------- MODULE PartsProofs ----------------------------
(***************************************************************************)
(* Proofs about the parts of module MCParts: the free lists of module      *)
(* Allocators and the telephone numbers of PhoneRegistry, for every number *)
(* of them; the message buffer of module DynMsg, for every size and every  *)
(* text; the linked lists of module LinkedDesigns, for every capacity; and *)
(* the tables, sets, matrix and stacks of module ClassDesigns, for every   *)
(* hash and every content; the seats and tables of module Calendars, for   *)
(* every size of the room and every day; and what module Feeds makes of    *)
(* messages, for all of them and in whatever order.                        *)
(***************************************************************************)
EXTENDS MCParts, StructuresProofs, FiniteSetTheorems, SequenceTheorems, WellFoundedInduction, TLAPS

(* A set of natural numbers that holds what follows its members' members:  *)
(* induction, for sets.                                                    *)
LEMMA Induction ==
  ASSUME NEW P, 0 \in P, \A n \in Nat : n \in P => n + 1 \in P
  PROVE  Nat \subseteq P
<1> DEFINE Less == OpToRel(<, Nat)
           T == Nat \ P
<1>1. IsWellFoundedOn(Less, Nat)
  BY NatLessThanWellFounded
<1>2. \A x, y \in Nat : <<x, y>> \in Less <=> x < y
  BY DEF OpToRel
<1>3. ASSUME T # {} PROVE FALSE
  <2>1. T \subseteq Nat
    OBVIOUS
  <2> HIDE DEF Less, T
  <2>2. PICK x \in T : \A y \in T : ~(<<y, x>> \in Less)
    BY <1>1, <1>3, <2>1, WFMin
  <2>3. x \in Nat /\ x \notin P
    BY <2>1 DEF T
  <2>4. x # 0
    BY <2>3
  <2>5. x - 1 \in Nat /\ x - 1 < x /\ (x - 1) + 1 = x
    BY <2>3, <2>4
  <2>6. <<x - 1, x>> \in Less
    BY <1>2, <2>3, <2>5
  <2>7. x - 1 \in P
    BY <2>2, <2>5, <2>6 DEF T
  <2>8. QED
    BY <2>3, <2>5, <2>7
<1>4. QED
  BY <1>3 DEF T

(* "at" solves the equation that defines the function in TurnsOf.          *)
AreTurns(at, step, x, n) ==
  at = [i \in 0 .. n |-> IF i = 0 THEN x ELSE step[at[i - 1]]]

(* The equation has a solution.                                            *)
LEMMA TurnsExist ==
  ASSUME NEW step, NEW x
  PROVE  \A n \in Nat : \E at : AreTurns(at, step, x, n)
<1> DEFINE P == {n \in Nat : \E at : AreTurns(at, step, x, n)}
<1>1. 0 \in P
  <2>1. AreTurns([i \in 0 .. 0 |-> x], step, x, 0)
    BY DEF AreTurns
  <2>2. QED
    BY <2>1
<1>2. ASSUME NEW n \in Nat, n \in P PROVE n + 1 \in P
  <2>1. PICK at : AreTurns(at, step, x, n)
    BY <1>2
  <2> DEFINE more == [i \in 0 .. n + 1 |-> IF i = n + 1 THEN step[at[n]] ELSE at[i]]
  <2>2. \A i \in 0 .. n : at[i] = IF i = 0 THEN x ELSE step[at[i - 1]]
    BY <2>1 DEF AreTurns
  <2>3. ASSUME NEW i \in 0 .. n + 1
        PROVE  more[i] = IF i = 0 THEN x ELSE step[more[i - 1]]
    <3>1. CASE i = n + 1
      <4>1. i # 0 /\ i - 1 = n /\ n \in 0 .. n + 1 /\ n # n + 1
        BY <3>1
      <4>2. more[i] = step[at[n]] /\ more[i - 1] = at[n]
        BY <3>1, <4>1
      <4>3. QED
        BY <4>1, <4>2
    <3>2. CASE i # n + 1 /\ i # 0
      <4>1. i \in 0 .. n /\ i - 1 \in 0 .. n + 1 /\ i - 1 # n + 1
        BY <3>2
      <4>2. more[i] = at[i] /\ more[i - 1] = at[i - 1]
        BY <3>2, <4>1
      <4>3. QED
        BY <2>2, <3>2, <4>1, <4>2
    <3>3. CASE i = 0
      <4>1. 0 \in 0 .. n /\ 0 # n + 1
        OBVIOUS
      <4>2. QED
        BY <2>2, <3>3, <4>1
    <3>4. QED
      BY <3>1, <3>2, <3>3
  <2>4. AreTurns(more, step, x, n + 1)
    BY <2>3 DEF AreTurns
  <2> HIDE DEF more
  <2>5. QED
    BY <2>4
<1>3. Nat \subseteq P
  BY <1>1, <1>2, Induction
<1>4. QED
  BY <1>3

(* Two solutions agree as far as both go.                                  *)
LEMMA TurnsAgree ==
  ASSUME NEW step, NEW x, NEW m \in Nat, NEW n \in Nat, NEW f, NEW g,
         AreTurns(f, step, x, m), AreTurns(g, step, x, n)
  PROVE  \A i \in Nat : i <= m /\ i <= n => f[i] = g[i]
<1> DEFINE P == {i \in Nat : i <= m /\ i <= n => f[i] = g[i]}
<1>1. 0 \in P
  BY DEF AreTurns
<1>2. ASSUME NEW i \in Nat, i \in P PROVE i + 1 \in P
  <2>1. SUFFICES ASSUME i + 1 <= m, i + 1 <= n PROVE f[i + 1] = g[i + 1]
    OBVIOUS
  <2>2. i <= m /\ i <= n /\ i + 1 \in 0 .. m /\ i + 1 \in 0 .. n /\ i + 1 # 0 /\ (i + 1) - 1 = i
    BY <2>1
  <2>3. f[i] = g[i]
    BY <1>2, <2>2
  <2>4. f[i + 1] = step[f[i]] /\ g[i + 1] = step[g[i]]
    BY <2>2 DEF AreTurns
  <2>5. QED
    BY <2>3, <2>4
<1>3. Nat \subseteq P
  BY <1>1, <1>2, Induction
<1>4. QED
  BY <1>3

(* What TurnsOf returns: the start, and one turn more than the turn before.*)
LEMMA Turns ==
  ASSUME NEW step, NEW x
  PROVE  /\ TurnsOf(step, x, 0) = x
         /\ \A n \in Nat : TurnsOf(step, x, n + 1) = step[TurnsOf(step, x, n)]
<1> DEFINE The(n) == CHOOSE at : AreTurns(at, step, x, n)
<1>1. \A n \in Nat : AreTurns(The(n), step, x, n)
  BY TurnsExist
<1>2. \A n : TurnsOf(step, x, n) = The(n)[n]
  BY DEF TurnsOf, AreTurns
<1>3. \A n \in Nat : The(n + 1)[n] = The(n)[n]
  <2>1. SUFFICES ASSUME NEW n \in Nat PROVE The(n + 1)[n] = The(n)[n]
    OBVIOUS
  <2>2. n + 1 \in Nat /\ n <= n /\ n <= n + 1
    OBVIOUS
  <2>3. AreTurns(The(n), step, x, n) /\ AreTurns(The(n + 1), step, x, n + 1)
    BY <1>1, <2>2
  <2> HIDE DEF The
  <2>4. QED
    BY <2>2, <2>3, TurnsAgree
<1> HIDE DEF The
<1>4. \A n \in Nat : The(n + 1)[n + 1] = step[The(n + 1)[n]]
  <2>1. SUFFICES ASSUME NEW n \in Nat PROVE The(n + 1)[n + 1] = step[The(n + 1)[n]]
    OBVIOUS
  <2>2. n + 1 \in Nat /\ n + 1 \in 0 .. n + 1 /\ n + 1 # 0 /\ (n + 1) - 1 = n
    OBVIOUS
  <2>3. AreTurns(The(n + 1), step, x, n + 1)
    BY <1>1, <2>2
  <2>4. QED
    BY <2>2, <2>3 DEF AreTurns
<1>5. The(0)[0] = x
  <2>1. AreTurns(The(0), step, x, 0)
    BY <1>1
  <2>2. QED
    BY <2>1 DEF AreTurns
<1>6. QED
  BY <1>2, <1>3, <1>4, <1>5

(* The least of a set of natural numbers.                                  *)
LEMMA LeastOf ==
  ASSUME NEW S, S \subseteq Nat, S # {}
  PROVE  \E x \in S : \A y \in S : x <= y
<1> DEFINE P == {n \in Nat : \A y \in S : n <= y}
<1>1. 0 \in P
  OBVIOUS
<1>2. PICK z \in S : z \in Nat
  OBVIOUS
<1>3. z + 1 \in Nat /\ z + 1 \notin P
  BY <1>2
<1> HIDE DEF P
<1>4. PICK n \in Nat : n \in P /\ n + 1 \notin P
  BY <1>1, <1>3, Induction
<1>5. \A y \in S : n <= y
  BY <1>4 DEF P
<1>6. PICK y \in S : ~(n + 1 <= y)
  BY <1>4 DEF P
<1>7. n = y
  BY <1>5, <1>6
<1>8. QED
  BY <1>5, <1>6, <1>7
-----------------------------------------------------------------------------
(* SimplifiedStorage.                                                      *)

(* q is the next free partition behind p.                                  *)
IsNext(p, q) == q \in FreeParts /\ p < q /\ \A r \in FreeParts : p < r => q <= r

(* The links are those of the list of the free partitions.                 *)
Leads(p) ==
  \/ link[p] = Null /\ \A r \in FreeParts : r <= p
  \/ IsNext(p, link[p])

Listed == \A p \in FreeParts \cup {HeadAt} : Leads(p)

(* What is given out lies in the memory.                                   *)
SegmentsInside ==
  /\ IsFiniteSet(segments)
  /\ \A s \in segments : s.at \in Parts /\ s.n \in Nat \ {0} /\ s.at + s.n - 1 <= NumParts
  /\ \A s, t \in segments : s # t => PartsOf(s) \cap PartsOf(t) = {}

StorageInv ==
  /\ SegmentsInside
  /\ link \in [Parts \cup {HeadAt} -> Int]
  /\ Listed

(* What lies next behind p is the least of what lies behind it.            *)
LEMMA NextIsLeast ==
  ASSUME NEW F, \A r \in F : r \in Int, NEW p \in Int,
         NEW x, x \in F, p < x, \A r \in F : p < r => x <= r
  PROVE  x = CHOOSE q \in {z \in F : z > p} : \A r \in {z \in F : z > p} : q <= r
<1> DEFINE behind == {q \in F : q > p}
<1>1. x \in behind /\ \A r \in behind : x <= r
  OBVIOUS
<1>2. \A r \in behind : r \in Int
  OBVIOUS
<1> HIDE DEF behind
<1>3. \A q \in behind : (\A r \in behind : q <= r) => q = x
  BY <1>1, <1>2
<1>4. (CHOOSE q \in behind : \A r \in behind : q <= r) = x
  BY <1>1, <1>3
<1>5. QED
  BY <1>4 DEF behind

LEMMA NothingBehind ==
  ASSUME NEW F, \A r \in F : r \in Int, NEW p \in Int
  PROVE  (\A r \in F : r <= p) <=> {q \in F : q > p} = {}
OBVIOUS

(* The links are those of the list of all free partitions.                 *)
LEMMA ListedIsList == StorageInv => ListIsFreeParts
<1> SUFFICES ASSUME StorageInv PROVE ListIsFreeParts
  OBVIOUS
<1>1. (\A r \in FreeParts : r \in Int) /\ HeadAt \in Int
  BY StorageAssumption DEF FreeParts, Parts, HeadAt
<1>2. ASSUME NEW p \in FreeParts \cup {HeadAt}
      PROVE  LET behind == {q \in FreeParts : q > p}
             IN link[p] = IF behind = {} THEN Null
                          ELSE CHOOSE q \in behind : \A r \in behind : q <= r
  <2>1. p \in Int
    BY <1>1
  <2>2. CASE link[p] = Null /\ \A r \in FreeParts : r <= p
    <3>1. {q \in FreeParts : q > p} = {}
      BY <1>1, <2>1, <2>2, NothingBehind
    <3>2. QED
      BY <2>2, <3>1
  <2>3. CASE IsNext(p, link[p])
    <3>1. /\ link[p] \in FreeParts /\ p < link[p]
          /\ \A r \in FreeParts : p < r => link[p] <= r
      BY <2>3 DEF IsNext
    <3>2. {q \in FreeParts : q > p} # {}
      BY <1>1, <3>1
    <3>3. link[p] = CHOOSE q \in {z \in FreeParts : z > p} :
                      \A r \in {z \in FreeParts : z > p} : q <= r
      BY <1>1, <2>1, <3>1, NextIsLeast
    <3>4. QED
      BY <3>2, <3>3
  <2>4. QED
    BY <2>2, <2>3 DEF StorageInv, Listed, Leads
<1>3. QED
  BY <1>2 DEF ListIsFreeParts, StorageInv, SegmentsInside

(* Neighbours that are linked to each other, from one the list leads to    *)
(* on, are free.                                                           *)
LEMMA LinkedAreFree ==
  ASSUME StorageInv, NEW s \in FreeParts \cup {HeadAt}, link[s] # Null, NEW b \in Int,
         \A q \in link[s] .. b - 1 : link[q] = q + 1
  PROVE  /\ link[s] \in FreeParts /\ s < link[s]
         /\ link[s] .. b \subseteq FreeParts
<1> DEFINE a == link[s]
           P == {i \in Nat : a + i <= b => a + i \in FreeParts}
<1>1. a \in FreeParts /\ s < a /\ a \in Nat /\ a > 0
  BY StorageAssumption DEF StorageInv, Listed, Leads, IsNext, FreeParts, Parts
<1>2. 0 \in P
  BY <1>1
<1>3. ASSUME NEW i \in Nat, i \in P PROVE i + 1 \in P
  <2>1. SUFFICES ASSUME a + (i + 1) <= b PROVE a + (i + 1) \in FreeParts
    OBVIOUS
  <2>2. a + i \in FreeParts /\ a + i \in a .. b - 1
    BY <1>1, <1>3, <2>1
  <2>3. link[a + i] = (a + i) + 1
    BY <2>2
  <2>4. link[a + i] # Null
    BY <1>1, <2>3 DEF Null
  <2>5. link[a + i] \in FreeParts
    BY <2>2, <2>4 DEF StorageInv, Listed, Leads, IsNext
  <2>6. a + (i + 1) = (a + i) + 1
    BY <1>1
  <2>7. QED
    BY <2>3, <2>5, <2>6
<1> HIDE DEF P
<1>4. Nat \subseteq P
  BY <1>2, <1>3, Induction
<1>5. ASSUME NEW q \in a .. b PROVE q \in FreeParts
  <2>1. q - a \in Nat /\ a + (q - a) = q /\ q <= b
    BY <1>1, <1>5
  <2>2. q - a \in P
    BY <1>4, <2>1
  <2>3. QED
    BY <2>1, <2>2 DEF P
<1>6. QED
  BY <1>1, <1>5

(* n free neighbours start at p; none do up to p.                          *)
Run(p, n) == n > 0 /\ p .. p + n - 1 \subseteq FreeParts
NoneUpTo(p, n) == \A q \in Parts : q <= p => ~Run(q, n)

(* A run that is cut short ends where no run of n neighbours is passed.    *)
LEMMA SearchGoesOn ==
  ASSUME StorageInv, NEW n \in Nat, NEW s \in FreeParts \cup {HeadAt}, link[s] # Null,
         NoneUpTo(s, n), Breaks(s, n) # {}
  PROVE  /\ FirstBreak(s, n) \in FreeParts /\ s < FirstBreak(s, n)
         /\ NoneUpTo(FirstBreak(s, n), n)
<1> DEFINE a == link[s]
           b == FirstBreak(s, n)
<1>1. Breaks(s, n) \subseteq Nat
  BY DEF Breaks, Parts
<1>2. b \in Breaks(s, n) /\ \A q \in Breaks(s, n) : b <= q
  BY <1>1, LeastOf DEF FirstBreak
<1>3. b \in Parts /\ b \in a .. a + WantedSizes(n) - 2 /\ link[b] # b + 1
  BY <1>2 DEF Breaks
<1>4. NumParts \in Nat /\ WantedSizes(n) \in Nat /\ b \in Int /\ b > 0
  BY <1>3, StorageAssumption DEF WantedSizes, Parts
<1>5. a \in FreeParts /\ s < a /\ a \in Parts /\ s \in Int /\ FreeParts \subseteq Parts
  BY StorageAssumption DEF StorageInv, Listed, Leads, IsNext, FreeParts, Parts, HeadAt
<1> HIDE DEF b
<1>6. ASSUME NEW q \in a .. b - 1 PROVE link[q] = q + 1
  <2>1. q \in Int /\ a <= q /\ q < b
    BY <1>4, <1>5, <1>6 DEF Parts
  <2>2. q \in Parts /\ q \in a .. a + WantedSizes(n) - 2
    BY <1>3, <1>4, <1>5, <2>1 DEF Parts
  <2>3. q \notin Breaks(s, n)
    BY <1>2, <1>4, <2>1
  <2>4. QED
    BY <2>2, <2>3 DEF Breaks
<1>7. a .. b \subseteq FreeParts
  BY <1>4, <1>6, LinkedAreFree
<1>8. b \in FreeParts /\ s < b
  BY <1>3, <1>4, <1>5, <1>7 DEF Parts
<1>9. b + 1 \notin FreeParts
  <2>1. SUFFICES ASSUME b + 1 \in FreeParts PROVE FALSE
    OBVIOUS
  <2>2. \/ \A r \in FreeParts : r <= b
        \/ link[b] \in FreeParts /\ b < link[b] /\ link[b] <= b + 1
    BY <1>4, <1>8, <2>1 DEF StorageInv, Listed, Leads, IsNext
  <2>3. ~(b + 1 <= b) /\ \A x \in Int : b < x /\ x <= b + 1 => x = b + 1
    BY <1>4
  <2>4. FreeParts \subseteq Int
    BY <1>5 DEF Parts
  <2>5. QED
    BY <1>3, <2>1, <2>2, <2>3, <2>4
<1>10. ASSUME NEW p \in Parts, p <= b, Run(p, n) PROVE FALSE
  <2>1. p \in Int /\ n > 0 /\ p .. p + n - 1 \subseteq FreeParts /\ WantedSizes(n) = n
    BY <1>10 DEF Run, Parts, WantedSizes
  <2>2. p \in FreeParts
    BY <2>1
  <2>3. ~(p <= s)
    BY <1>10 DEF NoneUpTo
  <2>4. a <= p
    BY <1>5, <2>1, <2>2, <2>3 DEF StorageInv, Listed, Leads, IsNext
  <2>5. b + 1 \in p .. p + n - 1
    BY <1>3, <1>4, <1>5, <1>10, <2>1, <2>4 DEF Parts
  <2>6. QED
    BY <1>9, <2>1, <2>5
<1>11. NoneUpTo(b, n)
  BY <1>10 DEF NoneUpTo
<1>12. QED
  BY <1>8, <1>11 DEF b

(* A run that is not cut short is the first one.                           *)
LEMMA SearchFinds ==
  ASSUME StorageInv, NEW n \in Nat, NEW s \in FreeParts \cup {HeadAt}, link[s] # Null,
         NoneUpTo(s, n), Breaks(s, n) = {}
  PROVE  link[s] \in Parts /\ Run(link[s], n) /\ \A p \in Parts : Run(p, n) => link[s] <= p
<1> DEFINE a == link[s]
           b == a + WantedSizes(n) - 1
<1>1. NumParts \in Nat /\ WantedSizes(n) \in Nat /\ WantedSizes(n) > 0
  BY StorageAssumption DEF WantedSizes
<1>2. a \in FreeParts /\ s < a /\ a \in Parts /\ s \in Int /\ FreeParts \subseteq Parts
  BY StorageAssumption DEF StorageInv, Listed, Leads, IsNext, FreeParts, Parts, HeadAt
<1> DEFINE P == {i \in Nat : a + i <= b => a + i \in FreeParts}
<1>3. 0 \in P
  BY <1>2 DEF Parts
<1>4. ASSUME NEW i \in Nat, i \in P PROVE i + 1 \in P
  <2>1. SUFFICES ASSUME a + (i + 1) <= b PROVE a + (i + 1) \in FreeParts
    OBVIOUS
  <2>2. a + i \in FreeParts /\ a + i \in a .. a + WantedSizes(n) - 2 /\ a + i \in Parts
    BY <1>1, <1>2, <1>4, <2>1 DEF Parts
  <2>3. link[a + i] = (a + i) + 1 /\ (a + i) + 1 # 0
    BY <1>2, <2>2 DEF Breaks, Parts
  <2>4. link[a + i] \in FreeParts
    BY <2>2, <2>3 DEF StorageInv, Listed, Leads, IsNext, Null
  <2>5. a + (i + 1) = (a + i) + 1
    BY <1>2 DEF Parts
  <2>6. QED
    BY <2>3, <2>4, <2>5
<1> HIDE DEF P
<1>5. Nat \subseteq P
  BY <1>3, <1>4, Induction
<1>6. ASSUME NEW q \in a .. b PROVE q \in FreeParts
  <2>1. q - a \in Nat /\ a + (q - a) = q /\ q <= b
    BY <1>2, <1>1, <1>6 DEF Parts
  <2>2. q - a \in P
    BY <1>5, <2>1
  <2>3. QED
    BY <2>1, <2>2 DEF P
<1>7. n # 0
  <2>1. SUFFICES ASSUME n = 0 PROVE FALSE
    OBVIOUS
  <2>2. a + NumParts \in a .. b
    BY <1>1, <1>2, <2>1 DEF WantedSizes, Parts
  <2>3. a + NumParts \in Parts
    BY <1>2, <1>6, <2>2
  <2>4. QED
    BY <1>1, <1>2, <2>3 DEF Parts
<1>8. Run(a, n)
  BY <1>6, <1>7 DEF Run, WantedSizes
<1>9. ASSUME NEW p \in Parts, Run(p, n) PROVE a <= p
  <2>1. p \in FreeParts /\ ~(p <= s) /\ p \in Int
    BY <1>9 DEF Run, NoneUpTo, Parts
  <2>2. QED
    BY <1>2, <2>1 DEF StorageInv, Listed, Leads, IsNext
<1>10. QED
  BY <1>2, <1>8, <1>9

(* What the loop of alloc_n finds: the first run of n free neighbours, or  *)
(* that there is none.                                                     *)
LEMMA FindRunFinds ==
  ASSUME StorageInv, NEW n \in Nat
  PROVE  \/ FindRun(n) = Null /\ \A p \in Parts : ~Run(p, n)
         \/ /\ FindRun(n) # Null /\ FindRun(n) \in FreeParts \cup {HeadAt}
            /\ link[FindRun(n)] \in Parts /\ Run(link[FindRun(n)], n)
            /\ \A p \in Parts : Run(p, n) => link[FindRun(n)] <= p
<1> DEFINE onward == [p \in DOMAIN link |->
                      IF link[p] = Null \/ Breaks(p, n) = {} THEN p ELSE FirstBreak(p, n)]
           Ended(p) == link[p] = Null \/ Breaks(p, n) = {}
           P == {i \in Nat : LET t == TurnsOf(onward, HeadAt, i)
                             IN /\ t \in FreeParts \cup {HeadAt} /\ NoneUpTo(t, n)
                                /\ Ended(t) \/ t >= i - 1}
<1>1. NumParts \in Nat /\ FreeParts \subseteq Parts /\ DOMAIN link = Parts \cup {HeadAt}
  BY StorageAssumption DEF FreeParts, StorageInv
<1>2. \A p \in FreeParts \cup {HeadAt} : p \in Int /\ p \in DOMAIN link
  BY <1>1 DEF Parts, HeadAt
<1>3. \A p \in FreeParts \cup {HeadAt} : onward[p] = IF Ended(p) THEN p ELSE FirstBreak(p, n)
  BY <1>2
<1> HIDE DEF onward
<1>4. 0 \in P
  <2>1. TurnsOf(onward, HeadAt, 0) = HeadAt
    BY Turns
  <2>2. NoneUpTo(HeadAt, n)
    BY DEF NoneUpTo, HeadAt, Parts
  <2>3. HeadAt >= 0 - 1
    BY DEF HeadAt
  <2>4. QED
    BY <2>1, <2>2, <2>3
<1>5. ASSUME NEW i \in Nat, i \in P PROVE i + 1 \in P
  <2> DEFINE t == TurnsOf(onward, HeadAt, i)
  <2>1. TurnsOf(onward, HeadAt, i + 1) = onward[t]
    BY Turns, ZenonT(30)
  <2>2. t \in FreeParts \cup {HeadAt} /\ NoneUpTo(t, n) /\ (Ended(t) \/ t >= i - 1)
    BY <1>5
  <2> HIDE DEF t
  <2>3. CASE Ended(t)
    BY <1>3, <2>1, <2>2, <2>3
  <2>4. CASE ~Ended(t)
    <3>1. onward[t] = FirstBreak(t, n)
      BY <1>3, <2>2, <2>4
    <3>2. FirstBreak(t, n) \in FreeParts /\ t < FirstBreak(t, n) /\ NoneUpTo(FirstBreak(t, n), n)
      BY <2>2, <2>4, SearchGoesOn
    <3>3. FirstBreak(t, n) \in Int /\ t \in Int /\ t >= i - 1
      BY <1>2, <2>2, <2>4, <3>2
    <3>4. FirstBreak(t, n) >= (i + 1) - 1
      BY <3>2, <3>3
    <3>5. QED
      BY <2>1, <3>1, <3>2, <3>4
  <2>5. QED
    BY <2>3, <2>4
<1> DEFINE t == TurnsOf(onward, HeadAt, NumParts + 1)
<1>6. t \in FreeParts \cup {HeadAt} /\ NoneUpTo(t, n) /\ (Ended(t) \/ t >= (NumParts + 1) - 1)
  <2> HIDE DEF P
  <2>1. Nat \subseteq P
    BY <1>4, <1>5, Induction
  <2>2. NumParts + 1 \in P
    BY <1>1, <2>1
  <2>3. QED
    BY <2>2 DEF P
<1>7. FindRun(n) = IF link[t] = Null THEN Null ELSE t
  BY DEF FindRun, onward
<1> HIDE DEF t, P
<1>8. t \in Int /\ \A r \in FreeParts : r \in Int /\ r <= NumParts
  BY <1>1, <1>2, <1>6 DEF Parts
<1>9. Ended(t)
  <2>1. SUFFICES ASSUME ~Ended(t) PROVE FALSE
    OBVIOUS
  <2>2. t >= NumParts
    BY <1>1, <1>6, <1>8, <2>1
  <2>3. link[t] \in FreeParts /\ t < link[t]
    BY <1>6, <2>1 DEF StorageInv, Listed, Leads, IsNext
  <2>4. QED
    BY <1>1, <1>8, <2>2, <2>3
<1>10. CASE link[t] = Null
  <2>1. \A r \in FreeParts : r <= t
    <3>1. Null \notin FreeParts
      BY <1>1 DEF Null, Parts
    <3>2. QED
      BY <1>6, <1>10, <3>1 DEF StorageInv, Listed, Leads, IsNext
  <2>2. ASSUME NEW p \in Parts, Run(p, n) PROVE FALSE
    <3>1. p \in FreeParts
      BY <2>2 DEF Run, Parts
    <3>2. QED
      BY <1>6, <2>1, <2>2, <3>1 DEF NoneUpTo
  <2>3. QED
    BY <1>7, <1>10, <2>2
<1>11. CASE link[t] # Null
  <2>1. t # Null
    BY <1>1, <1>6 DEF Null, HeadAt, Parts
  <2>2. FindRun(n) = t
    BY <1>7, <1>11
  <2>3. link[t] \in Parts /\ Run(link[t], n) /\ \A p \in Parts : Run(p, n) => link[t] <= p
    BY <1>6, <1>9, <1>11, SearchFinds
  <2>4. QED
    BY <1>6, <2>1, <2>2, <2>3
<1>12. QED
  BY <1>10, <1>11

(* The loop of find_prev ends at the last one on the list before insert.   *)
LEMMA FindPrevFinds ==
  ASSUME StorageInv, NEW insert \in Parts, insert \notin FreeParts
  PROVE  /\ FindPrev(insert) \in FreeParts \cup {HeadAt} /\ FindPrev(insert) < insert
         /\ \A r \in FreeParts : FindPrev(insert) < r => insert < r
<1> DEFINE onward == [p \in DOMAIN link |->
                      IF link[p] # Null /\ link[p] < insert THEN link[p] ELSE p]
           Ended(p) == ~(link[p] # Null /\ link[p] < insert)
           P == {i \in Nat : LET t == TurnsOf(onward, HeadAt, i)
                             IN /\ t \in FreeParts \cup {HeadAt} /\ t < insert
                                /\ Ended(t) \/ t >= i - 1}
<1>1. NumParts \in Nat /\ FreeParts \subseteq Parts /\ DOMAIN link = Parts \cup {HeadAt}
  BY StorageAssumption DEF FreeParts, StorageInv
<1>2. /\ \A p \in FreeParts \cup {HeadAt} : p \in Int /\ p \in DOMAIN link
      /\ insert \in Int /\ insert <= NumParts /\ insert > 0
  BY <1>1 DEF Parts, HeadAt
<1>3. \A p \in FreeParts \cup {HeadAt} : onward[p] = IF Ended(p) THEN p ELSE link[p]
  BY <1>2
<1> HIDE DEF onward
<1>4. 0 \in P
  <2>1. TurnsOf(onward, HeadAt, 0) = HeadAt
    BY Turns
  <2>2. HeadAt < insert /\ HeadAt >= 0 - 1
    BY <1>2 DEF HeadAt
  <2>3. QED
    BY <2>1, <2>2
<1>5. ASSUME NEW i \in Nat, i \in P PROVE i + 1 \in P
  <2> DEFINE t == TurnsOf(onward, HeadAt, i)
  <2>1. TurnsOf(onward, HeadAt, i + 1) = onward[t]
    BY Turns
  <2>2. t \in FreeParts \cup {HeadAt} /\ t < insert /\ (Ended(t) \/ t >= i - 1)
    BY <1>5
  <2> HIDE DEF t
  <2>3. CASE Ended(t)
    BY <1>3, <2>1, <2>2, <2>3
  <2>4. CASE ~Ended(t)
    <3>1. onward[t] = link[t] /\ link[t] < insert
      BY <1>3, <2>2, <2>4
    <3>2. link[t] \in FreeParts /\ t < link[t]
      BY <2>2, <2>4 DEF StorageInv, Listed, Leads, IsNext
    <3>3. link[t] \in Int /\ t \in Int /\ t >= i - 1
      BY <1>2, <2>2, <2>4, <3>2
    <3>4. link[t] >= (i + 1) - 1
      BY <3>2, <3>3
    <3>5. QED
      BY <2>1, <3>1, <3>2, <3>4
  <2>5. QED
    BY <2>3, <2>4
<1> DEFINE t == TurnsOf(onward, HeadAt, NumParts + 1)
<1>6. t \in FreeParts \cup {HeadAt} /\ t < insert /\ (Ended(t) \/ t >= (NumParts + 1) - 1)
  <2> HIDE DEF P
  <2>1. Nat \subseteq P
    BY <1>4, <1>5, Induction
  <2>2. NumParts + 1 \in P
    BY <1>1, <2>1
  <2>3. QED
    BY <2>2 DEF P
<1>7. FindPrev(insert) = t
  BY DEF FindPrev, onward
<1> HIDE DEF t, P
<1>8. Ended(t)
  BY <1>1, <1>2, <1>6
<1>9. \A r \in FreeParts : t < r => insert < r
  <2>1. SUFFICES ASSUME NEW r \in FreeParts, t < r PROVE insert < r
    OBVIOUS
  <2>2. r \in Int /\ t \in Int /\ r # insert
    BY <1>2, <1>6
  <2>3. CASE link[t] = Null
    <3>1. Null \notin FreeParts
      BY <1>1 DEF Null, Parts
    <3>2. r <= t
      BY <1>6, <2>3, <3>1 DEF StorageInv, Listed, Leads, IsNext
    <3>3. QED
      BY <2>1, <2>2, <3>2
  <2>4. CASE link[t] # Null
    <3>1. link[t] \in FreeParts /\ link[t] <= r
      BY <1>6, <2>1, <2>4 DEF StorageInv, Listed, Leads, IsNext
    <3>2. link[t] \in Int /\ ~(link[t] < insert)
      BY <1>2, <1>8, <2>4, <3>1
    <3>3. QED
      BY <1>2, <2>2, <3>1, <3>2
  <2>5. QED
    BY <2>3, <2>4
<1>10. QED
  BY <1>6, <1>7, <1>9

(* alloc_n takes its run off the list.                                     *)
LEMMA AllocStep ==
  ASSUME StorageInv, NEW n \in Nat, AllocN(n)
  PROVE  StorageInv'
<1> DEFINE start == FindRun(n)
           at == link[start]
           run == at .. at + n - 1
<1>1. CASE start = Null
  <2>1. link' = link /\ segments' = segments
    BY <1>1 DEF AllocN
  <2>2. FreeParts' = FreeParts
    BY <2>1 DEF FreeParts, Owned
  <2>3. QED
    BY <2>1, <2>2 DEF StorageInv, SegmentsInside, Listed, Leads, IsNext
<1>2. CASE start # Null
  <2>1. /\ link' = [p \in DOMAIN link |-> IF p = start THEN link[at + n - 1]
                                          ELSE IF p \in run THEN Scribble ELSE link[p]]
        /\ segments' = segments \cup {[at |-> at, n |-> n]}
    BY <1>2 DEF AllocN
  <2>2. /\ start \in FreeParts \cup {HeadAt} /\ at \in Parts /\ n > 0 /\ run \subseteq FreeParts
    BY <1>2, FindRunFinds DEF Run
  <2>3. IsNext(start, at)
    <3>1. Null \notin Parts
      BY DEF Null, Parts
    <3>2. QED
      BY <2>2, <3>1 DEF StorageInv, Listed, Leads
  <2> HIDE DEF start
  <2>4. /\ FreeParts \subseteq Parts /\ start \in Int /\ NumParts \in Nat
        /\ at \in Int /\ at > 0 /\ at + n - 1 \in Int /\ at <= at + n - 1
    BY <2>2, StorageAssumption DEF FreeParts, Parts, HeadAt
  <2>5. \A r \in FreeParts : r \in Int
    BY <2>4 DEF Parts
  <2> DEFINE s == [at |-> at, n |-> n]
  <2>6. at + n - 1 \in run /\ at \in run /\ PartsOf(s) = run
    BY <2>4 DEF PartsOf
  <2>7. s.at \in Parts /\ s.n \in Nat \ {0} /\ s.at + s.n - 1 <= NumParts
    BY <2>2, <2>4, <2>6 DEF Parts
  <2> HIDE DEF s, run, at
  <2>8. Owned' = Owned \cup run
    BY <2>1, <2>6 DEF Owned, PartsOf, s
  <2>9. FreeParts' = FreeParts \ run
    BY <2>8 DEF FreeParts
  <2>10. SegmentsInside'
    <3>1. IsFiniteSet(segments')
      BY <2>1, FS_AddElement DEF StorageInv, SegmentsInside
    <3>2. \A x \in segments : PartsOf(x) \cap run = {}
      BY <2>2 DEF FreeParts, Owned
    <3>3. segments' = segments \cup {s}
      BY <2>1 DEF s
    <3>4. \A x, y \in segments' : x # y => PartsOf(x) \cap PartsOf(y) = {}
      BY <2>6, <3>2, <3>3 DEF StorageInv, SegmentsInside
    <3>5. \A x \in segments' : x.at \in Parts /\ x.n \in Nat \ {0} /\ x.at + x.n - 1 <= NumParts
      BY <2>7, <3>3 DEF StorageInv, SegmentsInside
    <3>6. QED
      BY <3>1, <3>4, <3>5 DEF SegmentsInside, PartsOf
  <2>11. link' \in [Parts \cup {HeadAt} -> Int]
    BY <2>1, <2>2, <2>6 DEF StorageInv, Scribble, FreeParts
  <2>12. ASSUME NEW p \in FreeParts' \cup {HeadAt}
         PROVE  Leads(p)'
    <3>1. p \in FreeParts \cup {HeadAt} /\ p \in DOMAIN link /\ p \in Int
      BY <2>4, <2>5, <2>9 DEF StorageInv, HeadAt
    <3>2. p \notin run
      <4>1. HeadAt \notin run
        BY <2>4 DEF run, HeadAt
      <4>2. QED
        BY <2>9, <4>1
    <3>3. CASE p = start
      <4>1. link'[p] = link[at + n - 1]
        BY <2>1, <3>1, <3>3
      <4>2. at + n - 1 \in FreeParts /\ start < at
        BY <2>2, <2>3, <2>6 DEF IsNext
      <4>3. ASSUME NEW r \in FreeParts, r \notin run, p < r PROVE at + n - 1 < r
        <5>1. r \in Int /\ at <= r
          BY <2>3, <2>5, <3>3, <4>3 DEF IsNext
        <5>2. QED
          BY <2>4, <4>3, <5>1 DEF run
      <4>4. CASE link[at + n - 1] = Null /\ \A r \in FreeParts : r <= at + n - 1
        <5>1. \A r \in FreeParts' : r <= p
          BY <2>4, <2>5, <2>9, <3>1, <4>3, <4>4
        <5>2. QED
          BY <4>1, <4>4, <5>1 DEF Leads
      <4>5. CASE IsNext(at + n - 1, link[at + n - 1])
        <5> DEFINE x == link[at + n - 1]
        <5>1. x \in FreeParts /\ at + n - 1 < x /\ \A r \in FreeParts : at + n - 1 < r => x <= r
          BY <4>5 DEF IsNext
        <5>2. x \in Int
          BY <2>5, <5>1
        <5> HIDE DEF x
        <5>3. x \notin run /\ p < x
          BY <2>4, <3>3, <4>2, <5>1, <5>2 DEF run
        <5>4. \A r \in FreeParts' : p < r => x <= r
          BY <2>9, <4>3, <5>1
        <5>5. QED
          BY <2>9, <4>1, <5>1, <5>3, <5>4 DEF Leads, IsNext, x
      <4>6. QED
        BY <4>2, <4>4, <4>5 DEF StorageInv, Listed, Leads
    <3>4. CASE p # start
      <4>1. link'[p] = link[p]
        BY <2>1, <3>1, <3>2, <3>4
      <4>2. CASE link[p] = Null /\ \A r \in FreeParts : r <= p
        BY <2>9, <4>1, <4>2 DEF Leads
      <4>3. CASE IsNext(p, link[p])
        <5>1. link[p] \in FreeParts /\ p < link[p] /\ \A r \in FreeParts : p < r => link[p] <= r
          BY <4>3 DEF IsNext
        <5>2. link[p] \in Int
          BY <2>5, <5>1
        <5>3. ASSUME link[p] \in run PROVE FALSE
          <6>1. at <= link[p] /\ at \in FreeParts /\ link[p] <= at + n - 1
            BY <2>2, <2>4, <2>6, <5>2, <5>3 DEF run
          <6>2. CASE p < at
            <7>1. start \notin FreeParts \/ ~(p < start)
              <8>1. SUFFICES ASSUME start \in FreeParts, p < start PROVE FALSE
                OBVIOUS
              <8>2. link[p] <= start /\ start < at
                BY <2>3, <5>1, <8>1 DEF IsNext
              <8>3. QED
                BY <2>4, <5>2, <6>1, <8>2
            <7>2. start = HeadAt \/ start < p
              BY <2>2, <2>4, <3>1, <3>4, <7>1
            <7>3. HeadAt < p \/ p = HeadAt
              BY <2>4, <3>1 DEF HeadAt, Parts
            <7>4. start < p
              BY <3>4, <7>2, <7>3
            <7>5. p \in FreeParts
              BY <2>2, <2>4, <3>1, <7>4 DEF HeadAt, Parts
            <7>6. at <= p
              BY <2>3, <7>4, <7>5 DEF IsNext
            <7>7. QED
              BY <2>4, <3>1, <6>2, <7>6
          <6>3. CASE ~(p < at)
            <7>1. p \in run
              BY <2>4, <3>1, <5>1, <5>2, <6>1, <6>3 DEF run
            <7>2. QED
              BY <3>2, <7>1
          <6>4. QED
            BY <6>2, <6>3
        <5>4. QED
          BY <2>9, <4>1, <5>1, <5>3 DEF Leads, IsNext
      <4>4. QED
        BY <3>1, <4>2, <4>3 DEF StorageInv, Listed, Leads
    <3>5. QED
      BY <3>3, <3>4
  <2>13. QED
    BY <2>10, <2>11, <2>12 DEF StorageInv, Listed, Leads
<1>3. QED
  BY <1>1, <1>2

(* free_n puts the partitions back on the list, between those before and   *)
(* behind them.                                                            *)
LEMMA FreeStep ==
  ASSUME StorageInv, NEW s \in segments, FreeN(s)
  PROVE  StorageInv' /\ Cardinality(segments') < Cardinality(segments)
<1> DEFINE ins == FindPrev(s.at)
           run == PartsOf(s)
           lastOf == s.at + s.n - 1
<1>1. /\ link' = [Segregated(link, s.at, s.n, link[ins]) EXCEPT ![ins] = s.at]
      /\ segments' = segments \ {s}
  BY DEF FreeN
<1>2. /\ s.at \in Parts /\ s.n \in Nat \ {0} /\ lastOf <= NumParts /\ NumParts \in Nat
      /\ s.at \in Int /\ lastOf \in Int /\ s.at > 0 /\ s.at <= lastOf /\ run = s.at .. lastOf
  BY StorageAssumption DEF StorageInv, SegmentsInside, Parts, PartsOf
<1>3. run \subseteq Owned /\ FreeParts \subseteq Parts
  BY DEF Owned, FreeParts
<1>4. /\ ins \in FreeParts \cup {HeadAt} /\ ins < s.at
      /\ \A r \in FreeParts : ins < r => s.at < r
  <2>1. s.at \notin FreeParts
    BY <1>2, <1>3 DEF FreeParts
  <2>2. QED
    BY <1>2, <2>1, FindPrevFinds
<1> HIDE DEF ins, lastOf, run
<1>5. (\A r \in FreeParts : r \in Int) /\ ins \in Int /\ (\A r \in run : r \in Parts /\ r \in Int)
  BY <1>2, <1>3, <1>4 DEF Parts, HeadAt
<1>6. /\ Cardinality(segments') = Cardinality(segments) - 1 /\ IsFiniteSet(segments')
      /\ Cardinality(segments) \in Nat
  BY <1>1, FS_RemoveElement, FS_CardinalityType DEF StorageInv, SegmentsInside
<1>7. FreeParts' = FreeParts \cup run
  <2>1. \A t \in segments' : PartsOf(t) \cap run = {}
    BY <1>1 DEF StorageInv, SegmentsInside, run
  <2>2. Owned = Owned' \cup run
    BY <1>1 DEF Owned, run, PartsOf
  <2>3. Owned' \cap run = {}
    BY <2>1 DEF Owned, PartsOf
  <2>4. QED
    BY <1>5, <2>2, <2>3 DEF FreeParts
<1>8. SegmentsInside'
  BY <1>1, <1>6 DEF StorageInv, SegmentsInside, PartsOf
<1>9. /\ DOMAIN link = Parts \cup {HeadAt} /\ DOMAIN link' = DOMAIN link
      /\ \A p \in DOMAIN link :
           link'[p] = IF p = ins THEN s.at
                      ELSE IF p \notin s.at .. s.at + s.n - 1 THEN link[p]
                      ELSE IF p = s.at + s.n - 1 THEN link[ins] ELSE p + 1
  BY <1>1, <1>4 DEF StorageInv, Segregated
<1>10. \A p \in DOMAIN link :
         link'[p] = IF p = ins THEN s.at
                    ELSE IF p \notin run THEN link[p]
                    ELSE IF p = lastOf THEN link[ins] ELSE p + 1
  BY <1>2, <1>9 DEF lastOf
<1>11. link' \in [Parts \cup {HeadAt} -> Int]
  <2>1. \A p \in DOMAIN link : p \in Int /\ link[p] \in Int
    BY <1>9 DEF StorageInv, Parts, HeadAt
  <2>2. link[ins] \in Int
    BY <1>3, <1>4, <1>9, <2>1
  <2>3. \A p \in DOMAIN link : link'[p] \in Int
    BY <1>2, <1>10, <2>1, <2>2
  <2>4. link' = [p \in DOMAIN link' |-> link'[p]]
    BY <1>1 DEF Segregated
  <2>5. QED
    BY <1>9, <2>3, <2>4
<1>12. ASSUME NEW r \in FreeParts, ins < r PROVE lastOf < r
  <2>1. s.at < r /\ r \in Int /\ r \notin run
    BY <1>3, <1>4, <1>5, <1>12 DEF FreeParts
  <2>2. QED
    BY <1>2, <2>1
<1>13. ASSUME NEW p \in FreeParts' \cup {HeadAt}
       PROVE  Leads(p)'
  <2>1. p \in DOMAIN link /\ p \in Int
    BY <1>3, <1>5, <1>7, <1>9 DEF HeadAt
  <2>2. CASE p = ins
    <3>1. link'[p] = s.at
      BY <1>10, <2>1, <2>2
    <3>2. s.at \in FreeParts' /\ p < s.at
      BY <1>2, <1>4, <1>7, <2>2
    <3>3. \A r \in FreeParts' : p < r => s.at <= r
      BY <1>2, <1>4, <1>5, <1>7, <2>2
    <3>4. QED
      BY <3>1, <3>2, <3>3 DEF Leads, IsNext
  <2>3. CASE p \in run /\ p = lastOf
    <3>1. p # ins
      BY <1>2, <1>4, <1>5, <2>3
    <3>2. link'[p] = link[ins]
      BY <1>10, <2>1, <2>3, <3>1
    <3>3. CASE link[ins] = Null /\ \A r \in FreeParts : r <= ins
      <4>1. \A r \in FreeParts' : r <= p
        BY <1>2, <1>4, <1>5, <1>7, <2>3, <3>3
      <4>2. QED
        BY <3>2, <3>3, <4>1 DEF Leads
    <3>4. CASE IsNext(ins, link[ins])
      <4> DEFINE x == link[ins]
      <4>1. x \in FreeParts /\ ins < x /\ (\A r \in FreeParts : ins < r => x <= r) /\ x \in Int
        BY <1>5, <3>4 DEF IsNext
      <4> HIDE DEF x
      <4>2. p < x
        BY <1>12, <2>3, <4>1
      <4>3. \A r \in FreeParts' : p < r => x <= r
        <5>1. SUFFICES ASSUME NEW r \in FreeParts', p < r PROVE x <= r
          OBVIOUS
        <5>2. r \notin run
          BY <1>2, <1>5, <2>3, <5>1
        <5>3. r \in FreeParts /\ r \in Int /\ ins < r
          BY <1>2, <1>4, <1>5, <1>7, <2>3, <5>1, <5>2
        <5>4. QED
          BY <4>1, <5>3
      <4>4. QED
        BY <1>7, <3>2, <4>1, <4>2, <4>3 DEF Leads, IsNext, x
    <3>5. QED
      BY <1>4, <3>3, <3>4 DEF StorageInv, Listed, Leads
  <2>4. CASE p \in run /\ p # lastOf
    <3>1. p # ins
      BY <1>2, <1>4, <1>5, <2>4
    <3>2. link'[p] = p + 1
      BY <1>10, <2>1, <2>4, <3>1
    <3>3. p + 1 \in run
      BY <1>2, <2>1, <2>4
    <3>4. p < p + 1 /\ \A r \in FreeParts' : p < r => p + 1 <= r
      <4>1. \A r \in FreeParts' : r \in Int
        BY <1>5, <1>7
      <4>2. QED
        BY <2>1, <4>1
    <3>5. QED
      BY <1>7, <3>2, <3>3, <3>4 DEF Leads, IsNext
  <2>5. CASE p \notin run /\ p # ins
    <3>1. link'[p] = link[p] /\ p \in FreeParts \cup {HeadAt}
      BY <1>7, <1>10, <2>1, <2>5
    <3>2. CASE p < ins
      <4>1. ins \in FreeParts
        BY <1>4, <2>1, <3>1, <3>2, <1>3 DEF HeadAt, Parts
      <4>2. IsNext(p, link[p])
        BY <1>5, <2>1, <3>1, <3>2, <4>1 DEF StorageInv, Listed, Leads
      <4> DEFINE x == link[p]
      <4>3. x \in FreeParts /\ p < x /\ (\A r \in FreeParts : p < r => x <= r) /\ x \in Int
        BY <1>5, <4>2 DEF IsNext
      <4>4. x <= ins
        BY <3>2, <4>1, <4>3
      <4> HIDE DEF x
      <4>5. \A r \in run : x <= r
        BY <1>2, <1>4, <1>5, <4>3, <4>4
      <4>6. QED
        BY <1>7, <3>1, <4>3, <4>5 DEF Leads, IsNext, x
    <3>3. CASE ins < p
      <4>1. p \in FreeParts /\ lastOf < p
        <5>1. p \in FreeParts
          BY <1>3, <1>4, <2>1, <3>1, <3>3 DEF HeadAt, Parts
        <5>2. QED
          BY <1>12, <3>3, <5>1
      <4>2. \A r \in run : r <= p /\ ~(p < r)
        BY <1>2, <1>5, <2>1, <4>1
      <4>3. Leads(p)
        BY <3>1 DEF StorageInv, Listed
      <4>4. CASE link[p] = Null /\ \A r \in FreeParts : r <= p
        BY <1>7, <3>1, <4>2, <4>4 DEF Leads
      <4>5. CASE IsNext(p, link[p])
        BY <1>7, <3>1, <4>2, <4>5 DEF Leads, IsNext
      <4>6. QED
        BY <4>3, <4>4, <4>5 DEF Leads
    <3>4. QED
      BY <1>5, <2>1, <2>5, <3>2, <3>3
  <2>6. QED
    BY <2>2, <2>3, <2>4, <2>5
<1>14. QED
  BY <1>6, <1>8, <1>11, <1>13 DEF StorageInv, Listed

(* Every partition is free and linked to the next.                         *)
LEMMA StorageStarts == StorageInit => StorageInv
<1> SUFFICES ASSUME StorageInit PROVE StorageInv
  OBVIOUS
<1>1. NumParts \in Nat /\ segments = {} /\ HeadAt \notin Parts
  BY StorageAssumption DEF StorageInit, Parts, HeadAt
<1>2. /\ DOMAIN link = Parts \cup {HeadAt} /\ link \in [Parts \cup {HeadAt} -> Int]
      /\ link[HeadAt] = IF NumParts = 0 THEN Null ELSE 1
      /\ \A p \in Parts : link[p] = IF p = NumParts THEN Null ELSE p + 1
  BY <1>1 DEF StorageInit, Segregated, Null, Parts, HeadAt
<1>3. FreeParts = Parts
  BY <1>1 DEF FreeParts, Owned
<1>4. ASSUME NEW p \in Parts \cup {HeadAt} PROVE Leads(p)
  BY <1>1, <1>2, <1>3, <1>4 DEF Leads, IsNext, Parts, HeadAt
<1>5. SegmentsInside
  BY <1>1, FS_EmptySet DEF SegmentsInside
<1>6. QED
  BY <1>2, <1>3, <1>4, <1>5 DEF StorageInv, Listed

LEMMA StorageStep == StorageInv /\ [StorageNext]_storageVars => StorageInv'
<1> SUFFICES ASSUME StorageInv, [StorageNext]_storageVars PROVE StorageInv'
  OBVIOUS
<1>1. ASSUME NEW n \in 0 .. NumParts + 1, AllocN(n) PROVE StorageInv'
  <2>1. n \in Nat
    BY StorageAssumption
  <2>2. QED
    BY <1>1, <2>1, AllocStep
<1>2. ASSUME NEW s \in segments, FreeN(s) PROVE StorageInv'
  BY <1>2, FreeStep
<1>3. CASE UNCHANGED storageVars
  <2>1. link' = link /\ segments' = segments
    BY <1>3 DEF storageVars
  <2>2. FreeParts' = FreeParts
    BY <2>1 DEF FreeParts, Owned
  <2>3. QED
    BY <2>1, <2>2 DEF StorageInv, SegmentsInside, Listed, Leads, IsNext
<1>4. QED
  BY <1>1, <1>2, <1>3 DEF StorageNext

(* The list is the free partitions in the order of their addresses, and no *)
(* partition belongs to two users, for every size of the memory and every  *)
(* sequence of alloc_n and free_n (simplified_alloc.cpp:40-52, 81-90).     *)
THEOREM ListStaysFree == StorageSpec => []ListIsFreeParts
<1>1. QED
  BY StorageStarts, StorageStep, ListedIsList, PTL DEF StorageSpec

(* alloc_n gives out the first run that is long enough, and nullptr only   *)
(* when there is none (simplified_alloc.cpp:9-22, 66-81).                  *)
THEOREM AllocIsFirstFit == StorageSpec => FirstFit
<1> DEFINE runs(n) == {p \in Parts : n > 0 /\ p .. p + n - 1 \subseteq FreeParts}
           Fitting == \/ Cardinality(segments') < Cardinality(segments)
                      \/ allocated'.at = IF runs(allocated'.n) = {} THEN Null
                                         ELSE CHOOSE p \in runs(allocated'.n) :
                                                \A q \in runs(allocated'.n) : p <= q
<1>1. ASSUME StorageInv, NEW n \in 0 .. NumParts + 1, AllocN(n) PROVE Fitting
  <2>1. n \in Nat
    BY StorageAssumption
  <2>2. runs(n) = {p \in Parts : Run(p, n)}
    BY DEF Run
  <2>3. CASE FindRun(n) = Null
    <3>1. allocated' = [n |-> n, at |-> Null]
      BY <1>1, <2>3 DEF AllocN
    <3>2. allocated'.n = n /\ allocated'.at = Null
      BY <3>1
    <3>3. runs(n) = {}
      <4>1. \A p \in Parts : ~Run(p, n)
        <5>1. Null \notin FreeParts \cup {HeadAt}
          BY DEF Null, HeadAt, FreeParts, Parts
        <5>2. QED
          BY <1>1, <2>1, <2>3, FindRunFinds
      <4>2. QED
        BY <2>2, <4>1
    <3>4. QED
      BY <3>2, <3>3
  <2>4. CASE FindRun(n) # Null
    <3> DEFINE at == link[FindRun(n)]
    <3>1. allocated' = [n |-> n, at |-> at]
      BY <1>1, <2>4 DEF AllocN
    <3>2. at \in Parts /\ Run(at, n) /\ \A p \in Parts : Run(p, n) => at <= p
      BY <1>1, <2>1, <2>4, FindRunFinds
    <3> HIDE DEF at
    <3>3. at \in runs(n) /\ \A p \in runs(n) : at <= p
      BY <2>2, <3>2
    <3>4. \A p \in runs(n) : p \in Int
      BY DEF Parts
    <3> HIDE DEF runs
    <3>5. \A q \in runs(n) : (\A r \in runs(n) : q <= r) => q = at
      BY <3>3, <3>4
    <3>6. (CHOOSE q \in runs(n) : \A r \in runs(n) : q <= r) = at
      BY <3>3, <3>5
    <3>7. allocated'.n = n /\ allocated'.at = at
      BY <3>1
    <3>8. QED
      BY <3>3, <3>6, <3>7
  <2>5. QED
    BY <2>3, <2>4
<1>2. ASSUME StorageInv, NEW s \in segments, FreeN(s) PROVE Fitting
  BY <1>2, FreeStep
<1>3. StorageInv /\ [StorageNext]_storageVars
        => [allocated' # allocated \/ segments' # segments => Fitting]_storageVars
  BY <1>1, <1>2 DEF StorageNext
<1>4. []StorageInv /\ [][StorageNext]_storageVars
        => [][allocated' # allocated \/ segments' # segments => Fitting]_storageVars
  BY <1>3, PTL
<1>5. FirstFit <=> [][allocated' # allocated \/ segments' # segments => Fitting]_storageVars
  BY DEF FirstFit
<1>6. QED
  BY <1>4, <1>5, StorageStarts, StorageStep, PTL DEF StorageSpec
-----------------------------------------------------------------------------
(* Chunk.                                                                  *)

(* One turn less from one turn on.                                         *)
LEMMA TurnsShift ==
  ASSUME NEW step, NEW x, NEW n \in Nat
  PROVE  TurnsOf(step, step[x], n) = TurnsOf(step, x, n + 1)
<1> DEFINE P == {i \in Nat : TurnsOf(step, step[x], i) = TurnsOf(step, x, i + 1)}
<1>1. 0 \in P
  <2>1. TurnsOf(step, step[x], 0) = step[x]
    BY Turns
  <2>2. TurnsOf(step, x, 0 + 1) = step[TurnsOf(step, x, 0)] /\ TurnsOf(step, x, 0) = x
    BY Turns
  <2>3. QED
    BY <2>1, <2>2
<1>2. ASSUME NEW i \in Nat, i \in P PROVE i + 1 \in P
  <2>1. TurnsOf(step, step[x], i + 1) = step[TurnsOf(step, step[x], i)]
    BY Turns
  <2>2. \A k \in Nat : TurnsOf(step, x, k + 1) = step[TurnsOf(step, x, k)]
    BY Turns
  <2>4. i + 1 \in Nat
    OBVIOUS
  <2>5. TurnsOf(step, x, (i + 1) + 1) = step[TurnsOf(step, x, i + 1)]
    BY <2>2, <2>4
  <2>3. QED
    BY <1>2, <2>1, <2>4, <2>5
<1> HIDE DEF P
<1>3. Nat \subseteq P
  BY <1>1, <1>2, Induction
<1>4. QED
  BY <1>3 DEF P

(* The first blocksAvailable blocks on the list are the free ones.         *)
ChunkInv ==
  /\ inUse \subseteq BlockIndices
  /\ firstByte \in [BlockIndices -> Int]
  /\ firstAvailableBlock \in Int
  /\ blocksAvailable \in Nat
  /\ Cardinality(BlockIndices \ inUse) = blocksAvailable
  /\ \A i \in 0 .. blocksAvailable - 1 : NthFree(i) \in BlockIndices \ inUse
  /\ \A i, j \in 0 .. blocksAvailable - 1 : NthFree(i) = NthFree(j) => i = j
  /\ \A b \in BlockIndices \ inUse : \E i \in 0 .. blocksAvailable - 1 : NthFree(i) = b

LEMMA BlocksFinite == IsFiniteSet(BlockIndices) /\ Cardinality(BlockIndices) = NumBlocks
BY ChunkAssumption, FS_Interval DEF BlockIndices

LEMMA SmallIsOwn ==
  ASSUME NEW a \in Nat, NEW k \in Nat, a < k
  PROVE  a % k = a
OBVIOUS

LEMMA ChunkStarts == ChunkInit => ChunkInv
<1> SUFFICES ASSUME ChunkInit PROVE ChunkInv
  OBVIOUS
<1>1. NumBlocks \in Nat /\ ByteSize \in Nat /\ NumBlocks < ByteSize
  BY ChunkAssumption
<1>2. /\ firstByte = [b \in BlockIndices |-> (b + 1) % ByteSize] /\ firstAvailableBlock = 0
      /\ blocksAvailable = NumBlocks /\ inUse = {}
  BY DEF ChunkInit
<1>3. \A b \in BlockIndices : firstByte[b] = b + 1 /\ firstByte[b] \in Int
  <2>1. SUFFICES ASSUME NEW b \in BlockIndices PROVE firstByte[b] = b + 1 /\ firstByte[b] \in Int
    OBVIOUS
  <2>2. b \in Nat /\ b + 1 \in Nat /\ 0 <= b + 1 /\ b + 1 < ByteSize
    BY <1>1 DEF BlockIndices
  <2>3. (b + 1) % ByteSize = b + 1
    BY <1>1, <2>2, SmallIsOwn
  <2>4. QED
    BY <1>2, <2>2, <2>3
<1> DEFINE P == {i \in Nat : i < NumBlocks => NthFree(i) = i}
<1>4. 0 \in P
  BY <1>2, Turns DEF NthFree
<1>5. ASSUME NEW i \in Nat, i \in P PROVE i + 1 \in P
  <2>1. SUFFICES ASSUME i + 1 < NumBlocks PROVE NthFree(i + 1) = i + 1
    OBVIOUS
  <2>2. NthFree(i) = i /\ i \in BlockIndices
    BY <1>1, <1>5, <2>1 DEF BlockIndices
  <2>3. NthFree(i + 1) = firstByte[NthFree(i)]
    BY Turns DEF NthFree
  <2>4. QED
    BY <1>3, <2>2, <2>3
<1> HIDE DEF P
<1>6. Nat \subseteq P
  BY <1>4, <1>5, Induction
<1>7. \A i \in 0 .. NumBlocks - 1 : NthFree(i) = i
  BY <1>1, <1>6 DEF P
<1>8. BlockIndices \ inUse = 0 .. NumBlocks - 1
  BY <1>2 DEF BlockIndices
<1>9. Cardinality(BlockIndices \ inUse) = blocksAvailable
  BY <1>2, <1>8, BlocksFinite DEF BlockIndices
<1>10. firstByte \in [BlockIndices -> Int]
  BY <1>2, <1>3
<1>11. QED
  BY <1>1, <1>2, <1>7, <1>8, <1>9, <1>10 DEF ChunkInv

LEMMA AllocateStep ==
  ASSUME ChunkInv, Allocate
  PROVE  ChunkInv'
<1> DEFINE free == BlockIndices \ inUse
           n == blocksAvailable
<1>1. /\ n # 0 /\ firstAvailableBlock' = firstByte[firstAvailableBlock]
      /\ blocksAvailable' = n - 1 /\ inUse' = inUse \cup {firstAvailableBlock}
      /\ firstByte' = firstByte
  BY DEF Allocate
<1>2. n \in Nat /\ n > 0 /\ n - 1 \in Nat /\ 0 \in 0 .. n - 1
  BY <1>1 DEF ChunkInv
<1>3. NthFree(0) = firstAvailableBlock
  BY Turns DEF NthFree
<1>4. firstAvailableBlock \in free
  BY <1>2, <1>3 DEF ChunkInv
<1>5. \A i \in Nat : NthFree(i)' = NthFree(i + 1)
  BY <1>1, TurnsShift DEF NthFree
<1>6. BlockIndices \ inUse' = free \ {firstAvailableBlock}
  BY <1>1
<1>7. Cardinality(BlockIndices \ inUse') = n - 1
  <2>1. IsFiniteSet(free)
    BY BlocksFinite, FS_Subset
  <2>2. Cardinality(free) = n
    BY DEF ChunkInv
  <2>3. QED
    BY <1>4, <1>6, <2>1, <2>2, FS_RemoveElement
<1>8. \A i \in 0 .. (n - 1) - 1 : i \in Nat /\ i + 1 \in 0 .. n - 1 /\ i + 1 # 0 /\ i \in 0 .. n - 1
  BY <1>2
<1>9. \A i \in 0 .. (n - 1) - 1 : NthFree(i)' \in free \ {firstAvailableBlock}
  BY <1>2, <1>3, <1>5, <1>8 DEF ChunkInv
<1>10. \A i, j \in 0 .. (n - 1) - 1 : NthFree(i)' = NthFree(j)' => i = j
  <2>1. SUFFICES ASSUME NEW i \in 0 .. (n - 1) - 1, NEW j \in 0 .. (n - 1) - 1,
                        NthFree(i)' = NthFree(j)'
                 PROVE  i = j
    OBVIOUS
  <2>2. i + 1 = j + 1
    BY <1>5, <1>8, <2>1 DEF ChunkInv
  <2>3. QED
    BY <2>2
<1>11. ASSUME NEW b \in free \ {firstAvailableBlock}
       PROVE  \E i \in 0 .. (n - 1) - 1 : NthFree(i)' = b
  <2>1. PICK i \in 0 .. n - 1 : NthFree(i) = b
    BY DEF ChunkInv
  <2>2. i # 0
    BY <1>3, <2>1
  <2>3. i - 1 \in 0 .. (n - 1) - 1 /\ i - 1 \in Nat /\ (i - 1) + 1 = i
    BY <1>2, <2>2
  <2>4. NthFree(i - 1)' = b
    BY <1>5, <2>1, <2>3
  <2>5. QED
    BY <2>3, <2>4
<1>12. QED
  BY <1>1, <1>2, <1>4, <1>6, <1>7, <1>9, <1>10, <1>11 DEF ChunkInv, BlockIndices

(* What is written into a block that is in use does not touch the list.    *)
LEMMA ListUntouched ==
  ASSUME ChunkInv, NEW b \in inUse, NEW byte, NEW g, g = [firstByte EXCEPT ![b] = byte]
  PROVE  \A i \in 0 .. blocksAvailable :
           TurnsOf(g, firstAvailableBlock, i) = TurnsOf(firstByte, firstAvailableBlock, i)
<1>1. blocksAvailable \in Nat
  BY DEF ChunkInv
<1>2. \A i \in 0 .. blocksAvailable - 1 :
        firstByte[TurnsOf(firstByte, firstAvailableBlock, i)] =
          g[TurnsOf(firstByte, firstAvailableBlock, i)]
  <2>1. SUFFICES ASSUME NEW i \in 0 .. blocksAvailable - 1
                 PROVE  firstByte[NthFree(i)] = g[NthFree(i)]
    BY DEF NthFree
  <2>2. NthFree(i) \in BlockIndices /\ NthFree(i) # b
    BY DEF ChunkInv
  <2>3. QED
    BY <2>2 DEF ChunkInv
<1> DEFINE x == firstAvailableBlock
           P == {n \in Nat : n <= blocksAvailable => TurnsOf(g, x, n) = TurnsOf(firstByte, x, n)}
<1>3. 0 \in P
  <2>1. TurnsOf(g, x, 0) = x
    BY Turns
  <2>2. TurnsOf(firstByte, x, 0) = x
    BY Turns
  <2>3. QED
    BY <2>1, <2>2
<1>4. ASSUME NEW i \in Nat, i \in P PROVE i + 1 \in P
  <2>1. SUFFICES ASSUME i + 1 <= blocksAvailable
                 PROVE  TurnsOf(g, x, i + 1) = TurnsOf(firstByte, x, i + 1)
    OBVIOUS
  <2>2. i <= blocksAvailable /\ i \in 0 .. blocksAvailable - 1
    BY <1>1, <2>1
  <2>3. TurnsOf(g, x, i + 1) = g[TurnsOf(g, x, i)]
    <3>1. \A k \in Nat : TurnsOf(g, x, k + 1) = g[TurnsOf(g, x, k)]
      BY ONLY Turns
    <3>2. QED
      BY <3>1
  <2>4. TurnsOf(firstByte, x, i + 1) = firstByte[TurnsOf(firstByte, x, i)]
    BY Turns
  <2>5. firstByte[TurnsOf(firstByte, x, i)] = g[TurnsOf(firstByte, x, i)]
    BY <1>2, <2>2
  <2>6. QED
    BY <1>4, <2>2, <2>3, <2>4, <2>5
<1> HIDE DEF P
<1>5. Nat \subseteq P
  BY <1>3, <1>4, Induction
<1>6. \A i \in 0 .. blocksAvailable : i \in P /\ i <= blocksAvailable
  BY <1>1, <1>5
<1>7. QED
  BY <1>6 DEF P

LEMMA UseBlockStep ==
  ASSUME ChunkInv, NEW b, UseBlock(b)
  PROVE  ChunkInv'
<1>1. PICK byte \in {0, ByteSize - 1} : firstByte' = [firstByte EXCEPT ![b] = byte]
  BY DEF UseBlock
<1>2. /\ b \in inUse /\ firstAvailableBlock' = firstAvailableBlock
      /\ blocksAvailable' = blocksAvailable /\ inUse' = inUse
  BY DEF UseBlock
<1>3. \A i \in 0 .. blocksAvailable : NthFree(i)' = NthFree(i)
  BY <1>1, <1>2, ListUntouched DEF NthFree
<1>4. \A i \in 0 .. blocksAvailable - 1 : NthFree(i)' = NthFree(i)
  BY <1>3 DEF ChunkInv
<1>5. byte \in Int /\ firstByte' \in [BlockIndices -> Int]
  <2>1. byte \in Int
    BY <1>1, ChunkAssumption
  <2>2. QED
    BY <1>1, <2>1 DEF ChunkInv
<1>6. QED
  BY <1>2, <1>4, <1>5 DEF ChunkInv, BlockIndices

LEMMA DeallocateStep ==
  ASSUME ChunkInv, NEW b, Deallocate(b)
  PROVE  ChunkInv'
<1> DEFINE free == BlockIndices \ inUse
           n == blocksAvailable
<1>1. /\ b \in inUse /\ firstByte' = [firstByte EXCEPT ![b] = firstAvailableBlock]
      /\ firstAvailableBlock' = b /\ blocksAvailable' = n + 1 /\ inUse' = inUse \ {b}
  BY DEF Deallocate
<1>2. /\ n \in Nat /\ n + 1 \in Nat /\ b \in BlockIndices /\ b \notin free
      /\ BlockIndices \subseteq Int
  BY <1>1 DEF ChunkInv, BlockIndices
<1>3. firstByte'[b] = firstAvailableBlock
  BY <1>1, <1>2 DEF ChunkInv
<1>4. NthFree(0)' = b
  BY <1>1, Turns DEF NthFree
<1>5. \A i \in Nat : NthFree(i + 1)' = TurnsOf(firstByte', firstAvailableBlock, i)
  BY <1>1, <1>3, TurnsShift DEF NthFree
<1>6. \A i \in 0 .. n : NthFree(i + 1)' = NthFree(i)
  <2>1. \A i \in 0 .. n : TurnsOf(firstByte', firstAvailableBlock, i)
                           = TurnsOf(firstByte, firstAvailableBlock, i)
    BY <1>1, ListUntouched
  <2>2. \A i \in 0 .. n : i \in Nat
    BY <1>2
  <2>3. QED
    BY <1>5, <2>1, <2>2 DEF NthFree
<1>7. BlockIndices \ inUse' = free \cup {b}
  BY <1>1, <1>2
<1>8. Cardinality(BlockIndices \ inUse') = n + 1
  <2>1. IsFiniteSet(free)
    BY BlocksFinite, FS_Subset
  <2>2. Cardinality(free) = n
    BY DEF ChunkInv
  <2>3. QED
    BY <1>2, <1>7, <2>1, <2>2, FS_AddElement
<1>9. firstByte' \in [BlockIndices -> Int] /\ firstAvailableBlock' \in Int
  BY <1>1, <1>2 DEF ChunkInv
<1>10. \A i \in 0 .. (n + 1) - 1 :
         \/ i = 0 /\ NthFree(i)' = b
         \/ i # 0 /\ i - 1 \in 0 .. n - 1 /\ NthFree(i)' = NthFree(i - 1)
  <2>1. SUFFICES ASSUME NEW i \in 0 .. (n + 1) - 1, i # 0
                 PROVE  i - 1 \in 0 .. n - 1 /\ NthFree(i)' = NthFree(i - 1)
    BY <1>4
  <2>2. i - 1 \in 0 .. n - 1 /\ i - 1 \in 0 .. n /\ (i - 1) + 1 = i
    BY <1>2, <2>1
  <2>3. QED
    BY <1>6, <2>2
<1>11. \A i \in 0 .. (n + 1) - 1 : NthFree(i)' \in free \cup {b}
  BY <1>10 DEF ChunkInv
<1>12. \A i, j \in 0 .. (n + 1) - 1 : NthFree(i)' = NthFree(j)' => i = j
  <2>1. SUFFICES ASSUME NEW i \in 0 .. (n + 1) - 1, NEW j \in 0 .. (n + 1) - 1,
                        NthFree(i)' = NthFree(j)'
                 PROVE  i = j
    OBVIOUS
  <2>2. \/ i = 0 /\ j = 0
        \/ i - 1 \in 0 .. n - 1 /\ j - 1 \in 0 .. n - 1 /\ NthFree(i - 1) = NthFree(j - 1)
    BY <1>2, <1>10, <2>1 DEF ChunkInv
  <2>3. i = j \/ i - 1 = j - 1
    BY <2>2 DEF ChunkInv
  <2>4. QED
    BY <1>2, <2>3
<1>13. ASSUME NEW c \in free \cup {b}
       PROVE  \E i \in 0 .. (n + 1) - 1 : NthFree(i)' = c
  <2>1. CASE c = b
    BY <1>2, <1>4, <2>1
  <2>2. CASE c # b
    <3>1. PICK i \in 0 .. n - 1 : NthFree(i) = c
      BY <1>13, <2>2 DEF ChunkInv
    <3>2. i \in 0 .. n /\ i + 1 \in 0 .. (n + 1) - 1
      BY <1>2
    <3>3. NthFree(i + 1)' = c
      BY <1>6, <3>1, <3>2
    <3>4. QED
      BY <3>2, <3>3
  <2>3. QED
    BY <2>1, <2>2
<1>14. QED
  BY <1>1, <1>2, <1>7, <1>8, <1>9, <1>11, <1>12, <1>13 DEF ChunkInv, BlockIndices

LEMMA ChunkStep == ChunkInv /\ [ChunkNext]_chunkVars => ChunkInv'
<1>1. ASSUME ChunkInv, UNCHANGED chunkVars PROVE ChunkInv'
  <2>1. UNCHANGED <<firstByte, firstAvailableBlock, blocksAvailable, inUse>>
    BY <1>1 DEF chunkVars
  <2>2. \A i : NthFree(i)' = NthFree(i)
    BY <2>1 DEF NthFree
  <2>3. QED
    BY <1>1, <2>1, <2>2 DEF ChunkInv, BlockIndices
<1>2. QED
  BY <1>1, AllocateStep, UseBlockStep, DeallocateStep DEF ChunkNext

(* No block is given out twice and none is lost, whatever the owners of    *)
(* the blocks write into them, for every number of blocks                  *)
(* (SmallObject.h:28-46).                                                  *)
THEOREM ChunkListStaysFree == ChunkSpec => []ChunkListIsFree
<1>1. ChunkInv => ChunkListIsFree
  BY DEF ChunkInv, ChunkListIsFree
<1>2. QED
  BY <1>1, ChunkStarts, ChunkStep, PTL DEF ChunkSpec
-----------------------------------------------------------------------------
(* PhoneRegistry.                                                          *)

Covers(intervals, x) == \E l \in DOMAIN intervals : intervals[l] <= x /\ x <= l

Spaced(intervals) ==
  /\ \A l \in DOMAIN intervals : l \in Int /\ intervals[l] \in Int /\ intervals[l] <= l
  /\ \A a, b \in DOMAIN intervals : a < b => a < intervals[b]

(* n is cut out of the interval that ends at end: what is left of it is    *)
(* the part before n, behind the key n - 1, and the part after n.          *)
CutAt(before, after, end, n) ==
  /\ \A l \in DOMAIN after : l \in Int
  /\ \A l \in Int :
       l \in DOMAIN after <=> \/ l \in DOMAIN before /\ l # end
                              \/ l = n - 1 /\ before[end] < n
                              \/ l = end /\ n < end
  /\ \A l \in DOMAIN after :
       after[l] = IF l = end THEN n + 1
                  ELSE IF l = n - 1 /\ before[end] < n THEN before[end] ELSE before[l]

(* An interval without one of its numbers: the intervals keep apart and    *)
(* that number is all they lose.                                           *)
LEMMA CutLosesOne ==
  ASSUME NEW before, NEW after, NEW end \in DOMAIN before, NEW n \in Int, Spaced(before),
         before[end] <= n, n <= end, CutAt(before, after, end, n)
  PROVE  /\ Spaced(after)
         /\ \A x \in Int : Covers(after, x) <=> Covers(before, x) /\ x # n
<1> DEFINE first == before[end]
<1>1. /\ \A l \in DOMAIN before : l \in Int /\ before[l] \in Int /\ before[l] <= l
      /\ \A a, b \in DOMAIN before : a < b => a < before[b]
      /\ end \in Int /\ first \in Int
  BY DEF Spaced
<1>2. \A l \in DOMAIN before : l # end => l < first \/ end < before[l]
  BY <1>1
<1>3. \A l \in DOMAIN after :
        /\ l \in Int
        /\ \/ l = end /\ n < end /\ after[l] = n + 1
           \/ l = n - 1 /\ first < n /\ after[l] = first
           \/ l \in DOMAIN before /\ l # end /\ after[l] = before[l]
  BY <1>1 DEF CutAt
<1>4. \A l \in DOMAIN after : l \in Int /\ after[l] \in Int /\ after[l] <= l
  BY <1>1, <1>3
<1>5. ASSUME NEW a \in DOMAIN after, NEW b \in DOMAIN after, a < b PROVE a < after[b]
  <2>1. a \in Int /\ b \in Int
    BY <1>3
  <2>2. CASE b = end /\ n < end /\ after[b] = n + 1
    BY <1>1, <1>2, <1>3, <1>5, <2>1, <2>2
  <2>3. CASE b = n - 1 /\ first < n /\ after[b] = first
    <3>1. a # end /\ a # n - 1
      BY <1>1, <1>5, <2>1, <2>3
    <3>2. a \in DOMAIN before
      BY <1>3, <3>1
    <3>3. QED
      BY <1>1, <1>2, <1>5, <2>1, <2>3, <3>1, <3>2
  <2>4. CASE b \in DOMAIN before /\ b # end /\ after[b] = before[b]
    <3>1. b < first \/ end < before[b]
      BY <1>2, <2>4
    <3>2. before[b] \in Int /\ before[b] <= b
      BY <1>1, <2>4
    <3>3. CASE a = end \/ a = n - 1
      BY <1>1, <1>3, <1>5, <2>1, <3>1, <3>2, <3>3
    <3>4. CASE a # end /\ a # n - 1
      BY <1>1, <1>3, <1>5, <2>4, <3>4
    <3>5. QED
      BY <3>3, <3>4
  <2>5. QED
    BY <1>3, <2>2, <2>3, <2>4
<1>6. ASSUME NEW x \in Int, Covers(after, x) PROVE Covers(before, x) /\ x # n
  <2>1. PICK l \in DOMAIN after : after[l] <= x /\ x <= l
    BY <1>6 DEF Covers
  <2>2. CASE l = end \/ (l = n - 1 /\ first < n /\ after[l] = first)
    <3>1. first <= x /\ x <= end /\ x # n
      BY <1>1, <1>3, <2>1, <2>2
    <3>2. QED
      BY <3>1 DEF Covers
  <2>3. CASE l \in DOMAIN before /\ l # end /\ after[l] = before[l]
    <3>1. l < first \/ end < before[l]
      BY <1>2, <2>3
    <3>2. l \in Int /\ before[l] \in Int
      BY <1>1, <2>3
    <3>3. x # n
      BY <1>1, <2>1, <2>3, <3>1, <3>2
    <3>4. QED
      BY <2>1, <2>3, <3>3 DEF Covers
  <2>4. \/ l = end
        \/ l = n - 1 /\ first < n /\ after[l] = first
        \/ l \in DOMAIN before /\ l # end /\ after[l] = before[l]
    BY <1>3
  <2>5. QED
    BY <2>2, <2>3, <2>4
<1>7. ASSUME NEW x \in Int, Covers(before, x), x # n PROVE Covers(after, x)
  <2>1. PICK l \in DOMAIN before : before[l] <= x /\ x <= l
    BY <1>7 DEF Covers
  <2>2. CASE l # end
    <3>1. l \in DOMAIN after
      BY <1>1, <2>2 DEF CutAt
    <3>2. l = n - 1 => ~(first < n)
      BY <1>1, <1>2, <2>2
    <3>3. after[l] = before[l]
      BY <2>2, <3>1, <3>2 DEF CutAt
    <3>4. QED
      BY <2>1, <3>1, <3>3 DEF Covers
  <2>3. CASE l = end /\ x < n
    <3>1. first < n /\ n - 1 \in Int /\ n - 1 # end /\ first <= x /\ x <= n - 1
      BY <1>1, <2>1, <2>3
    <3>2. n - 1 \in DOMAIN after /\ after[n - 1] = first
      BY <3>1 DEF CutAt
    <3>3. QED
      BY <3>1, <3>2 DEF Covers
  <2>4. CASE l = end /\ n < x
    <3>1. n < end /\ n + 1 <= x /\ x <= end
      BY <1>1, <2>1, <2>4
    <3>2. end \in DOMAIN after /\ after[end] = n + 1
      BY <1>1, <3>1 DEF CutAt
    <3>3. QED
      BY <3>1, <3>2 DEF Covers
  <2>5. QED
    BY <1>1, <1>7, <2>2, <2>3, <2>4
<1>8. QED
  BY <1>4, <1>5, <1>6, <1>7 DEF Spaced

(* The intervals hold what was neither marked nor handed out.              *)
IsLeft(x) == x \in Lowest .. Highest /\ x \notin phone_used /\ x \notin handed

PhoneInv ==
  /\ Spaced(phone_unused)
  /\ \A x \in Int : Covers(phone_unused, x) <=> IsLeft(x)

LEMMA PhoneIsExact == PhoneInv => IntervalsExact
<1> SUFFICES ASSUME PhoneInv PROVE IntervalsExact
  OBVIOUS
<1>1. \A l \in DOMAIN phone_unused :
        l \in Int /\ phone_unused[l] \in Int /\ phone_unused[l] <= l
  BY DEF PhoneInv, Spaced
<1>2. \A a, b \in DOMAIN phone_unused : a < b => a < phone_unused[b]
  BY DEF PhoneInv, Spaced
<1> DEFINE all == UNION {phone_unused[end] .. end : end \in DOMAIN phone_unused}
<1>3. \A x : x \in all <=> x \in Int /\ Covers(phone_unused, x)
  BY <1>1 DEF Covers
<1>4. \A x : x \in (Lowest .. Highest) \ (phone_used \cup handed) <=> x \in Int /\ IsLeft(x)
  BY PhoneAssumption DEF IsLeft
<1>5. all = (Lowest .. Highest) \ (phone_used \cup handed)
  BY <1>3, <1>4 DEF PhoneInv
<1>6. QED
  BY <1>1, <1>2, <1>5 DEF IntervalsExact

(* lower_bound finds the interval that n can only be in.                   *)
LEMMA LowerBoundFinds ==
  ASSUME PhoneInv, NEW n \in Int, \E end \in DOMAIN phone_unused : n <= end
  PROVE  /\ LowerBound(n) \in DOMAIN phone_unused
         /\ n <= LowerBound(n)
         /\ n < phone_unused[LowerBound(n)] => ~Covers(phone_unused, n)
<1>1. \A l \in DOMAIN phone_unused : l \in Int /\ phone_unused[l] \in Int
  BY DEF PhoneInv, Spaced
<1> DEFINE S == {i \in Nat : n + i \in DOMAIN phone_unused}
<1>2. S \subseteq Nat /\ S # {}
  <2>1. PICK l \in DOMAIN phone_unused : n <= l
    OBVIOUS
  <2>2. l - n \in Nat /\ n + (l - n) = l
    BY <1>1, <2>1
  <2>3. QED
    BY <2>1, <2>2
<1>3. PICK i \in S : \A j \in S : i <= j
  <2> HIDE DEF S
  <2>1. QED
    BY <1>2, LeastOf
<1>4. n + i \in DOMAIN phone_unused /\ n <= n + i
  OBVIOUS
<1>5. \A other \in DOMAIN phone_unused : n <= other => n + i <= other
  <2>1. SUFFICES ASSUME NEW other \in DOMAIN phone_unused, n <= other PROVE n + i <= other
    OBVIOUS
  <2>2. other - n \in Nat /\ n + (other - n) = other
    BY <1>1, <2>1
  <2>3. i <= other - n
    BY <1>3, <2>2
  <2>4. QED
    BY <1>1, <2>3
<1> DEFINE L == LowerBound(n)
<1>6. /\ L \in DOMAIN phone_unused /\ n <= L
      /\ \A other \in DOMAIN phone_unused : n <= other => L <= other
  BY <1>4, <1>5 DEF LowerBound
<1>7. ASSUME n < phone_unused[L], Covers(phone_unused, n) PROVE FALSE
  <2>1. PICK l \in DOMAIN phone_unused : phone_unused[l] <= n /\ n <= l
    BY <1>7 DEF Covers
  <2>2. L <= l /\ l # L
    BY <1>1, <1>6, <1>7, <2>1
  <2>3. L < phone_unused[l]
    BY <1>1, <1>6, <2>2 DEF PhoneInv, Spaced
  <2>4. QED
    BY <1>1, <1>6, <2>1, <2>3
<1>8. QED
  BY <1>6, <1>7

(* The four ways of markNumberAsGiven to take n out are one cut.           *)
LEMMA CutInTwoCuts ==
  ASSUME Spaced(phone_unused), NEW end \in DOMAIN phone_unused, NEW n \in Int,
         phone_unused[end] <= n, n <= end
  PROVE  CutAt(phone_unused, CutInTwo(n, end), end, n)
<1> DEFINE first == phone_unused[end]
           after == CutInTwo(n, end)
<1>1. /\ \A l \in DOMAIN phone_unused : l \in Int
      /\ end \in Int /\ first \in Int /\ n \in Int /\ ~(n < first)
  BY DEF Spaced
<1>2. \A a \in DOMAIN phone_unused : a < end => a < first
  BY DEF Spaced
<1>3. CASE n = first /\ first = end
  <2>1. after = [l \in DOMAIN phone_unused \ {end} |-> phone_unused[l]]
    BY <1>1, <1>3 DEF CutInTwo, Without
  <2>2. QED
    BY <1>1, <1>3, <2>1 DEF CutAt
<1>4. CASE n = first /\ first # end
  <2>1. after = [l \in DOMAIN phone_unused \cup {end} |->
                   IF l = end THEN first + 1 ELSE phone_unused[l]]
    BY <1>1, <1>4 DEF CutInTwo, With
  <2>2. QED
    BY <1>1, <1>4, <2>1 DEF CutAt
<1>5. CASE n # first /\ n = end
  <2>1. after = [l \in (DOMAIN phone_unused \ {end}) \cup {n - 1} |->
                   IF l = n - 1 THEN first ELSE phone_unused[l]]
    BY <1>1, <1>5 DEF CutInTwo
  <2>2. QED
    BY <1>1, <1>5, <2>1 DEF CutAt
<1>6. CASE n # first /\ n # end
  <2>1. after = [l \in DOMAIN phone_unused \cup {n - 1} |->
                   IF l = n - 1 THEN first ELSE IF l = end THEN n + 1 ELSE phone_unused[l]]
    BY <1>1, <1>6 DEF CutInTwo
  <2>2. n - 1 # end /\ first < n /\ n < end
    BY <1>1, <1>6
  <2>3. QED
    BY <1>1, <1>6, <2>1, <2>2 DEF CutAt
<1>7. QED
  BY <1>3, <1>4, <1>5, <1>6

LEMMA PhoneStarts == PhoneInit => PhoneInv
<1> SUFFICES ASSUME PhoneInit PROVE PhoneInv
  OBVIOUS
<1>1. phone_unused = [end \in {Highest} |-> Lowest] /\ phone_used = {} /\ handed = {}
  BY DEF PhoneInit
<1>2. Lowest \in Int /\ Highest \in Int /\ Lowest <= Highest
  BY PhoneAssumption
<1>3. QED
  BY <1>1, <1>2 DEF PhoneInv, Spaced, Covers, IsLeft

LEMMA MarkStep ==
  ASSUME PhoneInv, NEW n \in Int, MarkNumberAsGiven(n)
  PROVE  PhoneInv'
<1>1. phone_used' = phone_used \cup {n} /\ handed' = handed
  BY DEF MarkNumberAsGiven
<1>2. \A x \in Int : IsLeft(x)' <=> IsLeft(x) /\ x # n
  BY <1>1 DEF IsLeft
<1>3. CASE phone_unused' = phone_unused /\ ~Covers(phone_unused, n)
  BY <1>2, <1>3 DEF PhoneInv
<1>4. CASE \E end \in DOMAIN phone_unused : n <= end
  <2> DEFINE L == LowerBound(n)
  <2>1. phone_unused' = CutInTwo(n, L)
    BY <1>4 DEF MarkNumberAsGiven
  <2>2. /\ L \in DOMAIN phone_unused /\ n <= L
        /\ n < phone_unused[L] => ~Covers(phone_unused, n)
    BY <1>4, LowerBoundFinds
  <2> HIDE DEF L
  <2>3. CASE n < phone_unused[L]
    BY <1>3, <2>1, <2>2, <2>3 DEF CutInTwo
  <2>4. CASE ~(n < phone_unused[L])
    <3>1. Spaced(phone_unused) /\ phone_unused[L] <= n
      BY <2>2, <2>4 DEF PhoneInv, Spaced
    <3>2. CutAt(phone_unused, phone_unused', L, n)
      BY <2>1, <2>2, <3>1, CutInTwoCuts
    <3>3. /\ Spaced(phone_unused')
          /\ \A x \in Int : Covers(phone_unused', x) <=> Covers(phone_unused, x) /\ x # n
      BY <2>2, <3>1, <3>2, CutLosesOne
    <3>4. QED
      BY <1>2, <3>3 DEF PhoneInv
  <2>5. QED
    BY <2>3, <2>4
<1>5. CASE ~\E end \in DOMAIN phone_unused : n <= end
  BY <1>3, <1>5 DEF MarkNumberAsGiven, Covers
<1>6. QED
  BY <1>4, <1>5

(* What is handed out was left, and only it is left no more.               *)
LEMMA HandStep ==
  ASSUME PhoneInv, GetAFreeNumber
  PROVE  PhoneInv' /\ \A n \in handed' \ handed : IsLeft(n)
<1>1. PICK end \in DOMAIN phone_unused :
        /\ handed' = handed \cup {phone_unused[end]}
        /\ phone_unused' = IF phone_unused[end] = end THEN Without(end)
                           ELSE With(end, phone_unused[end] + 1)
  BY DEF GetAFreeNumber
<1> DEFINE n == phone_unused[end]
<1>2. /\ Spaced(phone_unused) /\ end \in Int /\ n \in Int /\ n <= end /\ n <= n
  BY DEF PhoneInv, Spaced
<1>3. phone_used' = phone_used
  BY DEF GetAFreeNumber
<1>4. Covers(phone_unused, n)
  BY <1>2 DEF Covers
<1>5. IsLeft(n)
  BY <1>2, <1>4 DEF PhoneInv
<1>6. phone_unused' = CutInTwo(n, end)
  BY <1>1, <1>2 DEF CutInTwo
<1>7. CutAt(phone_unused, phone_unused', end, n)
  BY <1>2, <1>6, CutInTwoCuts
<1>8. \A x \in Int : IsLeft(x)' <=> IsLeft(x) /\ x # n
  BY <1>1, <1>3 DEF IsLeft
<1> HIDE DEF n
<1>9. n = phone_unused[end]
  BY DEF n
<1>10. /\ Spaced(phone_unused')
       /\ \A x \in Int : Covers(phone_unused', x) <=> Covers(phone_unused, x) /\ x # n
  BY <1>2, <1>7, <1>9, CutLosesOne
<1>11. PhoneInv'
  BY <1>8, <1>10 DEF PhoneInv
<1>12. QED
  BY <1>1, <1>5, <1>9, <1>11

LEMMA PhoneStep == PhoneInv /\ [PhoneNext]_phoneVars => PhoneInv'
<1>1. ASSUME PhoneInv, UNCHANGED phoneVars PROVE PhoneInv'
  BY <1>1 DEF phoneVars, PhoneInv, IsLeft, Covers, Spaced
<1>2. Asked \subseteq Int
  BY PhoneAssumption
<1>3. QED
  BY <1>1, <1>2, HandStep, MarkStep DEF PhoneNext

(* The intervals of free numbers are exact, whatever is marked and handed  *)
(* out (PhoneRegistry.cpp:26-64).                                          *)
THEOREM FreeNumbersExact == PhoneSpec => []IntervalsExact
BY PhoneIsExact, PhoneStarts, PhoneStep, PTL DEF PhoneSpec

(* No number is handed out twice, nor one that was marked as given         *)
(* (PhoneRegistry.cpp:40-64).                                              *)
THEOREM NumberHandedOnce == PhoneSpec => HandedOnce
<1>1. PhoneInv /\ [PhoneNext]_phoneVars =>
        [\A n \in handed' \ handed : n \notin phone_used /\ n \in Lowest .. Highest]_phoneVars
  <2>1. SUFFICES ASSUME PhoneInv, PhoneNext
                 PROVE  \A n \in handed' \ handed : n \notin phone_used /\ n \in Lowest .. Highest
    OBVIOUS
  <2>2. CASE GetAFreeNumber
    BY <2>1, <2>2, HandStep DEF IsLeft
  <2>3. CASE \E n \in Asked : MarkNumberAsGiven(n)
    BY <2>3 DEF MarkNumberAsGiven
  <2>4. QED
    BY <2>1, <2>2, <2>3 DEF PhoneNext
<1>2. QED
  BY <1>1, PhoneStarts, PhoneStep, PTL DEF PhoneSpec, HandedOnce
-----------------------------------------------------------------------------
(* CDynMsg.                                                                *)

Chars == UNION {{text[i] : i \in DOMAIN text} : text \in Tags \cup Texts}
MsgCells == [is : {"len", "byte"}, of : Nat \cup Chars]

(* The stored messages end at e[1], ..., e[n].                             *)
Frames(stored, e, n) ==
  /\ n \in Nat /\ e[0] = 0 /\ e[n] = Len(stored)
  /\ \A i \in 0 .. n : e[i] \in Nat
  /\ \A i, j \in 0 .. n : i <= j => e[j] - e[i] >= j - i
  /\ \A i \in 0 .. n - 1 :
       /\ stored[e[i] + 1].is = "len" /\ stored[e[i] + 1].of \in Nat
       /\ e[i + 1] = e[i] + HeaderSize + stored[e[i] + 1].of

LEMMA FramesBounds ==
  ASSUME NEW S, NEW stored \in Seq(S), NEW e, NEW n, Frames(stored, e, n)
  PROVE  /\ n \in Nat /\ n <= Len(stored) /\ Len(stored) \in Nat
         /\ \A i \in 0 .. n : e[i] \in Nat /\ e[i] <= Len(stored)
         /\ \A i \in 0 .. n - 1 : /\ i \in 0 .. n /\ i + 1 \in 0 .. n
                                  /\ e[i] < e[i + 1] /\ e[i] + 1 \in 1 .. Len(stored)
<1>1. /\ n \in Nat /\ Len(stored) \in Nat /\ e[0] = 0 /\ e[n] = Len(stored)
      /\ 0 \in 0 .. n /\ n \in 0 .. n
  BY DEF Frames
<1>2. /\ \A i \in 0 .. n : e[i] \in Nat
      /\ \A i, j \in 0 .. n : i <= j => e[j] - e[i] >= j - i
  BY DEF Frames
<1>3. \A i \in 0 .. n : 0 <= i /\ i <= n /\ i \in Int
  BY <1>1
<1>4. \A i \in 0 .. n : e[i] - e[0] >= i - 0 /\ e[n] - e[i] >= n - i
  BY <1>1, <1>2, <1>3
<1>5. \A i \in 0 .. n : e[i] \in Nat /\ e[i] <= Len(stored) /\ i <= e[i]
  <2>1. SUFFICES ASSUME NEW i \in 0 .. n PROVE e[i] <= Len(stored) /\ i <= e[i]
    BY <1>2
  <2>2. e[i] \in Nat /\ i \in Nat /\ i <= n
    BY <1>1, <1>2
  <2>3. e[i] - e[0] >= i - 0
    BY <1>4
  <2>4. e[n] - e[i] >= n - i
    BY <1>4
  <2>5. QED
    BY <1>1, <2>2, <2>3, <2>4
<1>6. n <= Len(stored)
  BY <1>1, <1>5
<1>7. ASSUME NEW i \in 0 .. n - 1
      PROVE  /\ i \in 0 .. n /\ i + 1 \in 0 .. n
             /\ e[i] < e[i + 1] /\ e[i] + 1 \in 1 .. Len(stored)
  <2>1. i \in 0 .. n /\ i + 1 \in 0 .. n /\ i <= i + 1
    BY <1>1
  <2>2. /\ e[i] \in Nat /\ e[i + 1] \in Nat /\ e[i + 1] <= Len(stored)
        /\ e[i + 1] - e[i] >= (i + 1) - i
    BY <1>2, <1>5, <2>1
  <2>3. QED
    BY <1>1, <2>1, <2>2
<1>8. QED
  BY <1>1, <1>5, <1>6, <1>7

(* What a reader finds are those ends.                                     *)
LEMMA EndsAre ==
  ASSUME NEW S, NEW stored \in Seq(S), NEW e, NEW n, Frames(stored, e, n)
  PROVE  \A i \in 0 .. Len(stored) : Ends(stored)[i] = IF i <= n THEN e[i] ELSE Len(stored)
<1> DEFINE onward == NextEnd(stored)
           P == {i \in Nat : i <= Len(stored) =>
                               Ends(stored)[i] = IF i <= n THEN e[i] ELSE Len(stored)}
<1>1. /\ n \in Nat /\ n <= Len(stored) /\ Len(stored) \in Nat
      /\ \A i \in 0 .. n : e[i] \in Nat /\ e[i] <= Len(stored)
      /\ \A i \in 0 .. n - 1 : /\ i \in 0 .. n /\ i + 1 \in 0 .. n
                               /\ e[i] < e[i + 1] /\ e[i] + 1 \in 1 .. Len(stored)
  BY FramesBounds
<1>2. /\ e[0] = 0 /\ e[n] = Len(stored)
      /\ \A i \in 0 .. n - 1 :
           /\ stored[e[i] + 1].is = "len" /\ stored[e[i] + 1].of \in Nat
           /\ e[i + 1] = e[i] + HeaderSize + stored[e[i] + 1].of
  BY DEF Frames
<1>3. \A i \in 0 .. n - 1 : onward[e[i]] = e[i + 1]
  <2>1. SUFFICES ASSUME NEW i \in 0 .. n - 1 PROVE onward[e[i]] = e[i + 1]
    OBVIOUS
  <2>2. /\ e[i] \in Nat /\ e[i] < e[i + 1] /\ e[i + 1] \in Nat /\ e[i + 1] <= Len(stored)
        /\ e[i + 1] = e[i] + HeaderSize + stored[e[i] + 1].of
    BY <1>1, <1>2
  <2>3. /\ e[i] \in 0 .. Len(stored) /\ e[i] < Len(stored)
        /\ e[i] + HeaderSize + stored[e[i] + 1].of <= Len(stored)
    BY <1>1, <2>2
  <2>4. QED
    BY <1>2, <2>3 DEF NextEnd
<1>4. onward[Len(stored)] = Len(stored)
  BY <1>1 DEF NextEnd
<1> HIDE DEF onward
<1>5. AreTurns(Ends(stored), onward, 0, Len(stored))
  <2>1. \E at : AreTurns(at, onward, 0, Len(stored))
    BY <1>1, TurnsExist
  <2>2. Ends(stored) = CHOOSE at : AreTurns(at, onward, 0, Len(stored))
    BY DEF Ends, AreTurns, onward
  <2>3. QED
    BY <2>1, <2>2
<1>6. \A i \in 0 .. Len(stored) :
        Ends(stored)[i] = IF i = 0 THEN 0 ELSE onward[Ends(stored)[i - 1]]
  BY <1>5 DEF AreTurns
<1>7. 0 \in P
  BY <1>1, <1>2, <1>6
<1>8. ASSUME NEW i \in Nat, i \in P PROVE i + 1 \in P
  <2>1. SUFFICES ASSUME i + 1 <= Len(stored)
                 PROVE  Ends(stored)[i + 1] = IF i + 1 <= n THEN e[i + 1] ELSE Len(stored)
    OBVIOUS
  <2>2. i + 1 \in 0 .. Len(stored) /\ i + 1 # 0 /\ (i + 1) - 1 = i /\ i <= Len(stored)
    BY <1>1, <2>1
  <2>3. Ends(stored)[i + 1] = onward[Ends(stored)[i]]
    BY <1>6, <2>2
  <2>4. Ends(stored)[i] = IF i <= n THEN e[i] ELSE Len(stored)
    BY <1>8, <2>2
  <2>5. CASE i + 1 <= n
    <3>1. i \in 0 .. n - 1 /\ i <= n
      BY <1>1, <2>5
    <3>2. QED
      BY <1>3, <2>3, <2>4, <2>5, <3>1
  <2>6. CASE ~(i + 1 <= n)
    <3>1. Ends(stored)[i] = Len(stored)
      BY <1>1, <1>2, <2>4, <2>6
    <3>2. QED
      BY <1>4, <2>3, <2>6, <3>1
  <2>7. QED
    BY <2>5, <2>6
<1> HIDE DEF P
<1>9. Nat \subseteq P
  BY <1>7, <1>8, Induction
<1>10. \A i \in 0 .. Len(stored) : i \in P /\ i <= Len(stored)
  BY <1>1, <1>9
<1>11. QED
  BY <1>10 DEF P

Contents(stored, e, n) == [i \in 1 .. n |-> SubSeq(stored, e[i - 1] + HeaderSize + 1, e[i])]

LEMMA ParsedAre ==
  ASSUME NEW S, NEW stored \in Seq(S), NEW e, NEW n, Frames(stored, e, n)
  PROVE  /\ Parsed(stored) = Contents(stored, e, n)
         /\ Ends(stored)[Len(stored)] = Len(stored)
<1>1. /\ n \in Nat /\ n <= Len(stored) /\ Len(stored) \in Nat
      /\ \A i \in 0 .. n : e[i] \in Nat /\ e[i] <= Len(stored)
      /\ \A i \in 0 .. n - 1 : e[i] < e[i + 1]
  BY FramesBounds
<1>2. \A i \in 0 .. Len(stored) : Ends(stored)[i] = IF i <= n THEN e[i] ELSE Len(stored)
  BY EndsAre
<1>3. e[n] = Len(stored)
  BY DEF Frames
<1> DEFINE found == {j \in 1 .. Len(stored) : Ends(stored)[j - 1] # Ends(stored)[j]}
<1>4. ASSUME NEW j \in 1 .. n
      PROVE  /\ j \in 1 .. Len(stored) /\ Ends(stored)[j - 1] = e[j - 1]
             /\ Ends(stored)[j] = e[j] /\ e[j - 1] # e[j]
  <2>1. /\ j \in 0 .. Len(stored) /\ j - 1 \in 0 .. Len(stored) /\ j <= n /\ j - 1 <= n
        /\ j - 1 \in 0 .. n - 1 /\ j - 1 \in 0 .. n /\ j \in 0 .. n /\ (j - 1) + 1 = j
    BY <1>1
  <2>2. e[j - 1] < e[j] /\ e[j - 1] \in Nat /\ e[j] \in Nat
    BY <1>1, <2>1
  <2>3. QED
    BY <1>1, <1>2, <2>1, <2>2, SMTT(30)
<1>5. ASSUME NEW j \in 1 .. Len(stored), j \notin 1 .. n
      PROVE  Ends(stored)[j - 1] = Ends(stored)[j]
  <2>1. /\ j \in 0 .. Len(stored) /\ j - 1 \in 0 .. Len(stored) /\ ~(j <= n)
        /\ j - 1 <= n => j - 1 = n
    BY <1>1, <1>5
  <2>2. QED
    BY <1>2, <1>3, <2>1
<1>6. found = 1 .. n
  BY <1>4, <1>5
<1>7. Parsed(stored) =
        [i \in found |-> SubSeq(stored, Ends(stored)[i - 1] + HeaderSize + 1, Ends(stored)[i])]
  BY DEF Parsed
<1> HIDE DEF found
<1>8. Parsed(stored) = Contents(stored, e, n)
  BY <1>4, <1>6, <1>7 DEF Contents
<1>9. Len(stored) \in 0 .. Len(stored) /\ (Len(stored) <= n => Len(stored) = n)
  BY <1>1
<1>10. QED
  BY <1>2, <1>3, <1>8, <1>9

LEMMA PieceIs ==
  ASSUME NEW S, NEW s \in Seq(S), NEW a \in Int, NEW b \in Int
  PROVE  SubSeq(s, a, b) = [i \in 1 .. (b - a + 1) |-> s[a + i - 1]]
OBVIOUS

LEMMA AppendIs ==
  ASSUME NEW S, NEW s \in Seq(S), NEW x \in S
  PROVE  Append(s, x) = [i \in 1 .. Len(s) + 1 |-> IF i = Len(s) + 1 THEN x ELSE s[i]]
<1> DEFINE t == [i \in 1 .. Len(s) + 1 |-> IF i = Len(s) + 1 THEN x ELSE s[i]]
<1>1. /\ Append(s, x) \in Seq(S) /\ Len(Append(s, x)) = Len(s) + 1
      /\ \A i \in 1 .. Len(s) : Append(s, x)[i] = s[i]
      /\ Append(s, x)[Len(s) + 1] = x
  BY AppendProperties
<1>2. t \in Seq(S) /\ Len(t) = Len(s) + 1
  OBVIOUS
<1>3. \A i \in 1 .. Len(s) + 1 : t[i] = Append(s, x)[i]
  BY <1>1
<1> HIDE DEF t
<1>4. t = Append(s, x)
  BY <1>1, <1>2, <1>3, SeqEqual
<1>5. QED
  BY <1>4 DEF t

(* Sequences put behind each other, and pieces of them.                    *)
Joined(s, t, u) ==
  /\ u \in Seq(MsgCells) /\ Len(u) = Len(s) + Len(t)
  /\ \A i \in 1 .. Len(s) : u[i] = s[i]
  /\ \A i \in 1 .. Len(t) : u[Len(s) + i] = t[i]
  /\ SubSeq(u, 1, Len(s)) = s
  /\ SubSeq(u, Len(s) + 1, Len(s) + Len(t)) = t
  /\ \A a \in Nat \ {0}, b \in Nat :
       b <= Len(s) => SubSeq(u, a, b) = SubSeq(s, a, b)

LEMMA PiecesOf ==
  ASSUME NEW s \in Seq(MsgCells), NEW t \in Seq(MsgCells)
  PROVE  Joined(s, t, s \o t)
<1> DEFINE u == s \o t
<1>1. /\ u \in Seq(MsgCells) /\ Len(u) = Len(s) + Len(t)
      /\ \A i \in 1 .. Len(s) + Len(t) : u[i] = IF i <= Len(s) THEN s[i] ELSE t[i - Len(s)]
  BY ConcatProperties
<1> HIDE DEF u
<1>2. Len(s) \in Nat /\ Len(t) \in Nat
  OBVIOUS
<1>3. \A i \in 1 .. Len(s) : u[i] = s[i]
  BY <1>1, <1>2
<1>4. \A i \in 1 .. Len(t) : u[Len(s) + i] = t[i]
  <2>1. SUFFICES ASSUME NEW i \in 1 .. Len(t) PROVE u[Len(s) + i] = t[i]
    OBVIOUS
  <2>2. /\ Len(s) + i \in 1 .. Len(s) + Len(t) /\ ~(Len(s) + i <= Len(s))
        /\ (Len(s) + i) - Len(s) = i
    BY <1>2
  <2>3. QED
    BY <1>1, <2>2
<1>5. ASSUME NEW a \in Nat \ {0}, NEW b \in Nat, b <= Len(s)
      PROVE  SubSeq(u, a, b) = SubSeq(s, a, b)
  <2>1. SubSeq(u, a, b) = [i \in 1 .. (b - a + 1) |-> u[a + i - 1]]
    BY <1>1, PieceIs
  <2>2. SubSeq(s, a, b) = [i \in 1 .. (b - a + 1) |-> s[a + i - 1]]
    BY PieceIs
  <2>3. \A i \in 1 .. (b - a + 1) : a + i - 1 \in 1 .. Len(s)
    BY <1>2, <1>5
  <2>4. \A i \in 1 .. (b - a + 1) : u[a + i - 1] = s[a + i - 1]
    BY <1>3, <2>3
  <2>5. QED
    BY <2>1, <2>2, <2>4
<1>6. SubSeq(s, 1, Len(s)) = s
  BY SubSeqFull
<1>7. SubSeq(u, 1, Len(s)) = s
  BY <1>2, <1>5, <1>6
<1>8. SubSeq(u, Len(s) + 1, Len(s) + Len(t)) = t
  <2> DEFINE a == Len(s) + 1
             b == Len(s) + Len(t)
  <2>1. a \in Int /\ b \in Int
    BY <1>2
  <2>2. SubSeq(u, a, b) = [i \in 1 .. (b - a + 1) |-> u[a + i - 1]]
    BY <1>1, <2>1, PieceIs
  <2>3. b - a + 1 = Len(t) /\ \A i \in 1 .. Len(t) : a + i - 1 = Len(s) + i
    BY <1>2
  <2>4. t = [i \in 1 .. Len(t) |-> t[i]]
    OBVIOUS
  <2> HIDE DEF a, b
  <2>5. SubSeq(u, a, b) = [i \in 1 .. Len(t) |-> t[i]]
    BY <1>4, <2>2, <2>3
  <2>6. QED
    BY <2>4, <2>5 DEF a, b
<1>9. Joined(s, t, u)
  BY <1>1, <1>3, <1>4, <1>5, <1>7, <1>8 DEF Joined
<1>10. QED
  BY <1>9 DEF u

(* more is what is stored and, behind it, a message with its length.       *)
Behind(stored, more, k, body) ==
  /\ more \in Seq(MsgCells) /\ Len(more) = Len(stored) + HeaderSize + k
  /\ \A i \in 1 .. Len(stored) : more[i] = stored[i]
  /\ more[Len(stored) + 1] = [is |-> "len", of |-> k]
  /\ \A a \in Nat \ {0}, b \in Nat :
       b <= Len(stored) => SubSeq(more, a, b) = SubSeq(stored, a, b)
  /\ SubSeq(more, Len(stored) + HeaderSize + 1, Len(stored) + HeaderSize + k) = body

LEMMA CellsAssociate ==
  ASSUME NEW s \in Seq(MsgCells), NEW t \in Seq(MsgCells), NEW u \in Seq(MsgCells)
  PROVE  (s \o t) \o u = s \o (t \o u)
BY ConcatAssociative

LEMMA AppendedIsBehind ==
  ASSUME NEW stored \in Seq(MsgCells), NEW k \in Nat, NEW body \in Seq(MsgCells), Len(body) = k
  PROVE  Behind(stored, stored \o (Header(k) \o body), k, body)
<1> DEFINE H == Header(k)
           rear == H \o body
           more == stored \o rear
           ahead == stored \o H
<1>1. HeaderSize \in Nat \ {0} /\ Len(stored) \in Nat
  BY DynAssumption
<1>2. H \in Seq(MsgCells) /\ Len(H) = HeaderSize /\ H[1] = [is |-> "len", of |-> k]
  BY <1>1 DEF Header, MsgCells
<1> HIDE DEF H
<1>3. Joined(H, body, rear)
  BY <1>2, PiecesOf
<1>4. Joined(stored, H, ahead)
  BY <1>2, PiecesOf
<1>5. Joined(ahead, body, more)
  <2>1. ahead \o body = more
    BY <1>2, CellsAssociate, Zenon DEF ahead, more, rear
  <2>2. ahead \in Seq(MsgCells)
    BY <1>4 DEF Joined
  <2> HIDE DEF ahead, more
  <2>4. QED
    BY <2>1, <2>2, PiecesOf
<1>6. Joined(stored, rear, more)
  <2>1. rear \in Seq(MsgCells)
    BY <1>3 DEF Joined
  <2> HIDE DEF rear
  <2>2. QED
    BY <2>1, PiecesOf
<1> HIDE DEF rear, more, ahead
<1>7. SubSeq(more, Len(stored) + HeaderSize + 1, Len(stored) + HeaderSize + k) = body
  BY <1>2, <1>4, <1>5 DEF Joined
<1>8. 1 \in 1 .. Len(H) /\ 1 \in 1 .. Len(rear)
  BY <1>1, <1>2, <1>3 DEF Joined
<1>9. more[Len(stored) + 1] = [is |-> "len", of |-> k]
  BY <1>2, <1>3, <1>6, <1>8 DEF Joined
<1>10. Len(more) = Len(stored) + HeaderSize + k
  BY <1>1, <1>2, <1>3, <1>6 DEF Joined
<1>11. Behind(stored, more, k, body)
  BY <1>6, <1>7, <1>9, <1>10 DEF Behind, Joined
<1>12. QED
  BY <1>11 DEF more, rear, H

(* One more message behind the others.                                     *)
LEMMA FramesGrow ==
  ASSUME NEW stored \in Seq(MsgCells), NEW e, NEW n, Frames(stored, e, n), NEW k \in Nat,
         NEW body, NEW more, Behind(stored, more, k, body)
  PROVE  /\ \E f : Frames(more, f, n + 1)
         /\ Parsed(more) = Append(Parsed(stored), body)
<1> DEFINE f == [i \in 0 .. n + 1 |-> IF i = n + 1 THEN Len(stored) + HeaderSize + k ELSE e[i]]
<1>1. HeaderSize \in Nat /\ HeaderSize >= 1
  BY DynAssumption
<1>3. /\ more \in Seq(MsgCells) /\ Len(more) = Len(stored) + HeaderSize + k
      /\ \A i \in 1 .. Len(stored) : more[i] = stored[i]
      /\ more[Len(stored) + 1] = [is |-> "len", of |-> k]
      /\ \A a \in Nat \ {0}, b \in Nat :
           b <= Len(stored) => SubSeq(more, a, b) = SubSeq(stored, a, b)
      /\ SubSeq(more, Len(stored) + HeaderSize + 1, Len(stored) + HeaderSize + k) = body
  BY DEF Behind
<1>4. /\ n \in Nat /\ n <= Len(stored) /\ Len(stored) \in Nat
      /\ \A i \in 0 .. n : e[i] \in Nat /\ e[i] <= Len(stored)
      /\ \A i \in 0 .. n - 1 : /\ i \in 0 .. n /\ i + 1 \in 0 .. n
                               /\ e[i] < e[i + 1] /\ e[i] + 1 \in 1 .. Len(stored)
  BY FramesBounds
<1>5. /\ e[0] = 0 /\ e[n] = Len(stored)
      /\ \A i, j \in 0 .. n : i <= j => e[j] - e[i] >= j - i
      /\ \A i \in 0 .. n - 1 :
           /\ stored[e[i] + 1].is = "len" /\ stored[e[i] + 1].of \in Nat
           /\ e[i + 1] = e[i] + HeaderSize + stored[e[i] + 1].of
  BY DEF Frames
<1>6. /\ \A i \in 0 .. n : f[i] = e[i]
      /\ f[n + 1] = Len(stored) + HeaderSize + k
  BY <1>4
<1> HIDE DEF f
<1>7. Frames(more, f, n + 1)
  <2>1. n + 1 \in Nat /\ f[0] = 0 /\ f[n + 1] = Len(more)
    <3>1. n + 1 \in Nat /\ 0 \in 0 .. n
      BY <1>4
    <3>2. QED
      BY <1>3, <1>5, <1>6, <3>1
  <2>2. ASSUME NEW i \in 0 .. n + 1 PROVE f[i] \in Nat
    <3>1. i \in 0 .. n \/ i = n + 1
      BY <1>4
    <3>2. Len(stored) + HeaderSize + k \in Nat
      BY <1>1, <1>4
    <3>3. QED
      BY <1>4, <1>6, <3>1, <3>2
  <2>3. ASSUME NEW i \in 0 .. n + 1, NEW j \in 0 .. n + 1, i <= j PROVE f[j] - f[i] >= j - i
    <3>1. CASE i \in 0 .. n /\ j \in 0 .. n
      BY <1>5, <1>6, <2>3, <3>1
    <3>2. CASE i \in 0 .. n /\ j = n + 1
      <4>1. n \in 0 .. n /\ i <= n /\ e[i] \in Nat
        BY <1>4, <3>2
      <4>5. e[n] - e[i] >= n - i
        BY <1>5, <3>2, <4>1
      <4>2. f[j] = Len(stored) + HeaderSize + k /\ f[i] = e[i] /\ e[n] = Len(stored)
        BY <1>5, <1>6, <3>2
      <4>3. i \in Int
        BY <3>2
      <4>4. QED
        BY <1>1, <1>4, <3>2, <4>1, <4>2, <4>3, <4>5
    <3>3. CASE i = n + 1 /\ j = n + 1
      BY <2>2, <3>3
    <3>4. QED
      BY <1>4, <2>3, <3>1, <3>2, <3>3
  <2>4. ASSUME NEW i \in 0 .. (n + 1) - 1
        PROVE  /\ more[f[i] + 1].is = "len" /\ more[f[i] + 1].of \in Nat
               /\ f[i + 1] = f[i] + HeaderSize + more[f[i] + 1].of
    <3>1. CASE i \in 0 .. n - 1
      <4>1. /\ i \in 0 .. n /\ i + 1 \in 0 .. n /\ e[i] + 1 \in 1 .. Len(stored)
        BY <1>4, <3>1
      <4>2. more[e[i] + 1] = stored[e[i] + 1] /\ f[i] = e[i] /\ f[i + 1] = e[i + 1]
        BY <1>3, <1>6, <4>1
      <4>3. QED
        BY <1>5, <3>1, <4>2
    <3>2. CASE i = n
      <4>1. n \in 0 .. n
        BY <1>4
      <4>2. f[i] = Len(stored) /\ f[i + 1] = Len(stored) + HeaderSize + k
        BY <1>5, <1>6, <3>2, <4>1
      <4>3. QED
        BY <1>3, <4>2
    <3>3. i \in 0 .. n - 1 \/ i = n
      BY <1>4
    <3>4. QED
      BY <3>1, <3>2, <3>3
  <2>5. QED
    BY <2>1, <2>2, <2>3, <2>4 DEF Frames
<1>8. Parsed(more) = Contents(more, f, n + 1) /\ Parsed(stored) = Contents(stored, e, n)
  BY <1>3, <1>7, ParsedAre
<1>9. ASSUME NEW i \in 1 .. n
      PROVE  SubSeq(more, f[i - 1] + HeaderSize + 1, f[i]) =
               SubSeq(stored, e[i - 1] + HeaderSize + 1, e[i])
  <2>1. i \in 0 .. n /\ i - 1 \in 0 .. n
    BY <1>4
  <2>2. /\ f[i - 1] = e[i - 1] /\ f[i] = e[i] /\ e[i] \in Nat /\ e[i] <= Len(stored)
        /\ e[i - 1] \in Nat
    BY <1>4, <1>6, <2>1
  <2>3. e[i - 1] + HeaderSize + 1 \in Nat \ {0}
    BY <1>1, <2>2
  <2>4. QED
    BY <1>3, <2>2, <2>3
<1>10. SubSeq(more, f[(n + 1) - 1] + HeaderSize + 1, f[n + 1]) = body
  <2>1. (n + 1) - 1 = n /\ n \in 0 .. n
    BY <1>4
  <2>2. f[(n + 1) - 1] = Len(stored) /\ f[n + 1] = Len(stored) + HeaderSize + k
    BY <1>5, <1>6, <2>1
  <2>3. QED
    BY <1>3, <2>2
<1>11. Append(Contents(stored, e, n), body) = Contents(more, f, n + 1)
  <2> DEFINE piece(i) == SubSeq(stored, e[i - 1] + HeaderSize + 1, e[i])
             T == {piece(i) : i \in 1 .. n} \cup {body}
  <2>1. Contents(stored, e, n) = [i \in 1 .. n |-> piece(i)] /\ \A i \in 1 .. n : piece(i) \in T
    BY DEF Contents
  <2>2. \A i \in 1 .. n :
          Contents(stored, e, n)[i] = SubSeq(stored, e[i - 1] + HeaderSize + 1, e[i])
    BY DEF Contents
  <2>7. body \in T
    OBVIOUS
  <2> HIDE DEF T, piece
  <2>8. Contents(stored, e, n) \in Seq(T) /\ Len(Contents(stored, e, n)) = n
    BY <1>4, <2>1
  <2>3. Append(Contents(stored, e, n), body) =
          [i \in 1 .. n + 1 |-> IF i = n + 1 THEN body ELSE Contents(stored, e, n)[i]]
    <3>1. Append(Contents(stored, e, n), body) =
            [i \in 1 .. Len(Contents(stored, e, n)) + 1 |->
               IF i = Len(Contents(stored, e, n)) + 1 THEN body ELSE Contents(stored, e, n)[i]]
      BY <2>7, <2>8, AppendIs
    <3>2. QED
      BY <2>8, <3>1
  <2>4. \A i \in 1 .. n + 1 : (IF i = n + 1 THEN body ELSE Contents(stored, e, n)[i]) =
                                SubSeq(more, f[i - 1] + HeaderSize + 1, f[i])
    <3>1. SUFFICES ASSUME NEW i \in 1 .. n + 1
                   PROVE  (IF i = n + 1 THEN body ELSE Contents(stored, e, n)[i]) =
                            SubSeq(more, f[i - 1] + HeaderSize + 1, f[i])
      OBVIOUS
    <3>2. CASE i = n + 1
      BY <1>10, <3>2
    <3>3. CASE i # n + 1
      <4>1. i \in 1 .. n
        BY <1>4, <3>3
      <4>2. QED
        BY <1>9, <2>2, <3>3, <4>1
    <3>4. QED
      BY <3>2, <3>3
  <2>5. Contents(more, f, n + 1) =
          [i \in 1 .. n + 1 |-> SubSeq(more, f[i - 1] + HeaderSize + 1, f[i])]
    BY DEF Contents
  <2>6. QED
    BY <2>3, <2>4, <2>5
<1>12. QED
  BY <1>7, <1>8, <1>11

(* The first message out of the buffer.                                    *)
EndsFirst(stored, first) == first = HeaderSize + stored[1].of

LEMMA FramesShrink ==
  ASSUME NEW stored \in Seq(MsgCells), NEW e, NEW n, Frames(stored, e, n), stored # <<>>,
         NEW first, EndsFirst(stored, first)
  PROVE  /\ n \in Nat \ {0} /\ first \in Nat /\ first <= Len(stored)
         /\ \E g : Frames(SubSeq(stored, first + 1, Len(stored)), g, n - 1)
         /\ Parsed(stored) = Contents(stored, e, n)
         /\ Parsed(SubSeq(stored, first + 1, Len(stored))) = SubSeq(Contents(stored, e, n), 2, n)
<1> DEFINE rest == SubSeq(stored, first + 1, Len(stored))
           g == [i \in 0 .. n - 1 |-> e[i + 1] - first]
<1>1. /\ n \in Nat /\ n <= Len(stored) /\ Len(stored) \in Nat
      /\ \A i \in 0 .. n : e[i] \in Nat /\ e[i] <= Len(stored)
      /\ \A i \in 0 .. n - 1 : /\ i \in 0 .. n /\ i + 1 \in 0 .. n
                               /\ e[i] < e[i + 1] /\ e[i] + 1 \in 1 .. Len(stored)
  BY FramesBounds
<1>2. /\ e[0] = 0 /\ e[n] = Len(stored)
      /\ \A i, j \in 0 .. n : i <= j => e[j] - e[i] >= j - i
      /\ \A i \in 0 .. n - 1 :
           /\ stored[e[i] + 1].is = "len" /\ stored[e[i] + 1].of \in Nat
           /\ e[i + 1] = e[i] + HeaderSize + stored[e[i] + 1].of
  BY DEF Frames
<1>3. n \in Nat \ {0} /\ n >= 1
  <2>1. Len(stored) # 0
    OBVIOUS
  <2>2. n # 0
    BY <1>2, <2>1
  <2>3. QED
    BY <1>1, <2>2
<1>4. /\ e[1] = first /\ first \in Nat /\ first <= Len(stored)
      /\ HeaderSize \in Nat /\ 0 \in 0 .. n - 1
  <2>1. 0 \in 0 .. n - 1 /\ 1 \in 0 .. n /\ 0 + 1 = 1 /\ HeaderSize \in Nat
    BY <1>3, DynAssumption
  <2>2. e[0 + 1] = e[0] + HeaderSize + stored[e[0] + 1].of /\ stored[e[0] + 1].of \in Nat
    BY <1>2, <2>1
  <2>3. e[1] = 0 + HeaderSize + stored[0 + 1].of /\ stored[0 + 1].of \in Nat
    BY <1>2, <2>1, <2>2
  <2>4. e[1] = first
    BY <2>1, <2>3 DEF EndsFirst
  <2>5. QED
    BY <1>1, <2>1, <2>4
<1>5. /\ rest \in Seq(MsgCells) /\ Len(rest) = Len(stored) - first
      /\ rest = [i \in 1 .. Len(stored) - first |-> stored[first + i]]
  <2>1. rest = [i \in 1 .. (Len(stored) - (first + 1) + 1) |-> stored[(first + 1) + i - 1]]
    <3>1. first + 1 \in Int /\ Len(stored) \in Int
      BY <1>1, <1>4
    <3>2. QED
      BY <3>1, PieceIs
  <2>2. /\ Len(stored) - (first + 1) + 1 = Len(stored) - first
        /\ \A i \in 1 .. Len(stored) - first :
             (first + 1) + i - 1 = first + i /\ first + i \in 1 .. Len(stored)
    BY <1>1, <1>4
  <2> HIDE DEF rest
  <2>3. rest = [i \in 1 .. Len(stored) - first |-> stored[first + i]]
    BY <2>1, <2>2
  <2>4. \A i \in 1 .. Len(stored) - first : stored[first + i] \in MsgCells
    BY <2>2
  <2>5. Len(stored) - first \in Nat
    BY <1>1, <1>4
  <2>6. rest \in Seq(MsgCells) /\ Len(rest) = Len(stored) - first
    BY <2>3, <2>4, <2>5
  <2>7. QED
    BY <2>3, <2>6
<1> HIDE DEF rest
<1> DEFINE L == Len(stored)
<1>4a. L \in Nat /\ first \in Nat /\ first <= L /\ HeaderSize \in Nat
  BY <1>1, <1>4
<1>6. ASSUME NEW i \in 0 .. n - 1
      PROVE  g[i] = e[i + 1] - first /\ g[i] \in Nat /\ i + 1 \in 0 .. n /\ i \in Nat
  <2>1. i + 1 \in 0 .. n /\ 1 \in 0 .. n /\ 1 <= i + 1 /\ i \in Nat
    BY <1>3
  <2>2. e[i + 1] - e[1] >= (i + 1) - 1 /\ e[i + 1] \in Nat
    BY <1>1, <1>2, <2>1
  <2>3. QED
    BY <1>4, <2>1, <2>2
<1> HIDE DEF g
<1>7. Frames(rest, g, n - 1)
  <2>1. n - 1 \in Nat /\ g[0] = 0 /\ g[n - 1] = Len(rest)
    <3>1. 0 \in 0 .. n - 1 /\ n - 1 \in 0 .. n - 1 /\ (n - 1) + 1 = n /\ 0 + 1 = 1 /\ n - 1 \in Nat
      BY <1>3
    <3>2. g[0] = e[1] - first /\ g[n - 1] = e[n] - first
      BY <1>6, <3>1
    <3>3. QED
      BY <1>2, <1>4, <1>5, <3>1, <3>2
  <2>2. \A i \in 0 .. n - 1 : g[i] \in Nat
    BY <1>6
  <2>3. ASSUME NEW i \in 0 .. n - 1, NEW j \in 0 .. n - 1, i <= j PROVE g[j] - g[i] >= j - i
    <3>1. i + 1 \in 0 .. n /\ j + 1 \in 0 .. n /\ i + 1 <= j + 1 /\ i \in Int /\ j \in Int
      BY <1>6, <2>3
    <3>2. e[j + 1] - e[i + 1] >= (j + 1) - (i + 1) /\ e[j + 1] \in Nat /\ e[i + 1] \in Nat
      BY <1>1, <1>2, <3>1
    <3>3. g[j] = e[j + 1] - first /\ g[i] = e[i + 1] - first
      BY <1>6
    <3>4. QED
      BY <1>4, <3>1, <3>2, <3>3
  <2>4. ASSUME NEW i \in 0 .. (n - 1) - 1
        PROVE  /\ rest[g[i] + 1].is = "len" /\ rest[g[i] + 1].of \in Nat
               /\ g[i + 1] = g[i] + HeaderSize + rest[g[i] + 1].of
    <3>1. i \in 0 .. n - 1 /\ i + 1 \in 0 .. n - 1 /\ i \in Nat
      BY <1>3
    <3>2. /\ g[i] = e[i + 1] - first /\ g[i] \in Nat
          /\ g[i + 1] = e[(i + 1) + 1] - first /\ g[i + 1] \in Nat
      BY <1>6, <3>1
    <3>3. /\ e[i + 1] + 1 \in 1 .. Len(stored) /\ e[i + 1] \in Nat
          /\ stored[e[i + 1] + 1].is = "len" /\ stored[e[i + 1] + 1].of \in Nat
          /\ e[(i + 1) + 1] = e[i + 1] + HeaderSize + stored[e[i + 1] + 1].of
      BY <1>1, <1>2, <3>1
    <3>4. g[i] + 1 \in 1 .. Len(stored) - first /\ first + (g[i] + 1) = e[i + 1] + 1
      <4> DEFINE x == e[i + 1]
                 y == g[i]
      <4>1. x \in Nat /\ y \in Nat /\ y = x - first /\ x + 1 \in 1 .. L
        BY <3>2, <3>3
      <4> HIDE DEF x, y, L
      <4>2. y + 1 \in 1 .. L - first /\ first + (y + 1) = x + 1
        BY <1>4a, <4>1
      <4>3. QED
        BY <4>2 DEF x, y, L
    <3>5. rest[g[i] + 1] = stored[e[i + 1] + 1]
      BY <1>5, <3>4
    <3>6. g[i + 1] = g[i] + HeaderSize + stored[e[i + 1] + 1].of
      <4> DEFINE x == e[i + 1]
                 k == stored[e[i + 1] + 1].of
      <4>1. /\ x \in Nat /\ k \in Nat /\ g[i] = x - first
            /\ g[i + 1] = e[(i + 1) + 1] - first /\ e[(i + 1) + 1] = x + HeaderSize + k
        BY <3>2, <3>3
      <4>2. g[i + 1] = (x + HeaderSize + k) - first
        BY <4>1
      <4> HIDE DEF x, k
      <4>3. (x + HeaderSize + k) - first = (x - first) + HeaderSize + k
        BY <1>4a, <4>1
      <4>4. g[i + 1] = g[i] + HeaderSize + k
        BY <4>1, <4>2, <4>3
      <4>5. QED
        BY <4>4 DEF k
    <3>7. QED
      BY <3>3, <3>5, <3>6
  <2>5. QED
    BY <2>1, <2>2, <2>3, <2>4 DEF Frames
<1>8. Parsed(rest) = Contents(rest, g, n - 1) /\ Parsed(stored) = Contents(stored, e, n)
  BY <1>5, <1>7, ParsedAre
<1>9. ASSUME NEW i \in 1 .. n - 1
      PROVE  SubSeq(rest, g[i - 1] + HeaderSize + 1, g[i]) =
               SubSeq(stored, e[i] + HeaderSize + 1, e[i + 1])
  <2>1. /\ i - 1 \in 0 .. n - 1 /\ i \in 0 .. n - 1 /\ (i - 1) + 1 = i
        /\ i \in 0 .. n /\ i + 1 \in 0 .. n
    BY <1>3
  <2>2. /\ g[i - 1] = e[i] - first /\ g[i - 1] \in Nat
        /\ g[i] = e[i + 1] - first /\ g[i] \in Nat
        /\ e[i] \in Nat /\ e[i + 1] \in Nat /\ e[i + 1] <= Len(stored)
    BY <1>1, <1>6, <2>1
  <2> DEFINE a == g[i - 1] + HeaderSize + 1
             b == g[i]
  <2>3. /\ a \in Int /\ b \in Int /\ a >= 1 /\ b <= Len(stored) - first
        /\ first + a = e[i] + HeaderSize + 1 /\ first + b = e[i + 1]
        /\ first + a \in Int /\ first + b \in Int
    <3> DEFINE x == e[i]
               y == e[i + 1]
               v == g[i - 1]
               w == g[i]
    <3>1. /\ v = x - first /\ v \in Nat /\ w = y - first /\ w \in Nat
          /\ x \in Nat /\ y \in Nat /\ y <= L
      BY <2>2
    <3> HIDE DEF x, y, v, w, L
    <3>2. /\ v + HeaderSize + 1 \in Int /\ w \in Int /\ v + HeaderSize + 1 >= 1
          /\ w <= L - first /\ first + (v + HeaderSize + 1) = x + HeaderSize + 1
          /\ first + w = y /\ first + (v + HeaderSize + 1) \in Int /\ first + w \in Int
      BY <1>4a, <3>1
    <3>3. QED
      BY <3>2 DEF x, y, v, w, L
  <2> HIDE DEF a, b
  <2>4. SubSeq(rest, a, b) = [k \in 1 .. (b - a + 1) |-> rest[a + k - 1]]
    BY <1>5, <2>3, PieceIs
  <2>5. SubSeq(stored, first + a, first + b) =
          [k \in 1 .. ((first + b) - (first + a) + 1) |-> stored[(first + a) + k - 1]]
    <3> DEFINE low == first + a
               high == first + b
    <3>1. low \in Int /\ high \in Int
      BY <2>3
    <3> HIDE DEF low, high
    <3>2. SubSeq(stored, low, high) = [k \in 1 .. (high - low + 1) |-> stored[low + k - 1]]
      BY <3>1, PieceIs
    <3>3. QED
      BY <3>2 DEF low, high
  <2>6. (first + b) - (first + a) + 1 = b - a + 1
    BY <1>4, <2>3
  <2>7. ASSUME NEW k \in 1 .. (b - a + 1) PROVE rest[a + k - 1] = stored[(first + a) + k - 1]
    <3>1. a + k - 1 \in 1 .. Len(stored) - first /\ first + (a + k - 1) = (first + a) + k - 1
      BY <1>1, <1>4, <2>3
    <3>2. QED
      BY <1>5, <3>1
  <2>8. SubSeq(rest, a, b) = SubSeq(stored, first + a, first + b)
    BY <2>4, <2>5, <2>6, <2>7
  <2>9. QED
    BY <2>3, <2>8 DEF a, b
<1>10. Contents(rest, g, n - 1) = SubSeq(Contents(stored, e, n), 2, n)
  <2> DEFINE piece(i) == SubSeq(stored, e[i - 1] + HeaderSize + 1, e[i])
             T == {piece(i) : i \in 1 .. n}
             all == Contents(stored, e, n)
  <2>1. all = [i \in 1 .. n |-> piece(i)] /\ \A i \in 1 .. n : piece(i) \in T
    BY DEF Contents
  <2>2. \A i \in 1 .. n : all[i] = SubSeq(stored, e[i - 1] + HeaderSize + 1, e[i])
    BY DEF Contents
  <2> HIDE DEF T, piece, all
  <2>3. all \in Seq(T)
    BY <1>1, <2>1
  <2>4. SubSeq(all, 2, n) = [i \in 1 .. (n - 2 + 1) |-> all[2 + i - 1]]
    BY <1>1, <2>3, PieceIs
  <2>5. n - 2 + 1 = n - 1
    BY <1>1
  <2>6. ASSUME NEW i \in 1 .. n - 1
        PROVE  all[2 + i - 1] = SubSeq(rest, g[i - 1] + HeaderSize + 1, g[i])
    <3>1. 2 + i - 1 = i + 1 /\ i + 1 \in 1 .. n /\ (i + 1) - 1 = i
      BY <1>1
    <3>2. all[i + 1] = SubSeq(stored, e[(i + 1) - 1] + HeaderSize + 1, e[i + 1])
      BY <2>2, <3>1
    <3>3. QED
      BY <1>9, <3>1, <3>2
  <2>7. QED
    BY <2>4, <2>5, <2>6 DEF Contents, all
<1>11. QED
  BY <1>3, <1>4, <1>7, <1>8, <1>10 DEF rest

(* The buffer inside its limits.                                           *)
Sized(b) ==
  /\ b \in [data : Seq(MsgCells), cur : Nat, size : Nat, max : Nat, null : BOOLEAN]
  /\ b.size <= b.max
  /\ ~b.null => b.cur + Len(b.data) <= b.size

LEMMA WantedIsEnough ==
  ASSUME NEW size \in Nat, NEW need \in Nat
  PROVE  /\ Grown(size) \in Nat
         /\ (IF Grown(size) < need THEN Grown(need) ELSE Grown(size)) >= need
<1>1. Grown(need) \in Nat /\ Grown(need) >= need
  BY DEF Grown
<1>2. Grown(size) \in Nat
  BY DEF Grown
<1>3. QED
  BY <1>1, <1>2

LEMMA ResizeKeeps ==
  ASSUME NEW b, Sized(b), NEW len \in Nat, NEW r \in Resize(b, len)
  PROVE  /\ r.ok \in BOOLEAN /\ Sized(r.b) /\ r.b.data = b.data /\ r.b.max = b.max
         /\ r.ok => r.b.null = b.null /\ r.b.cur + Len(b.data) + len <= r.b.size
<1> DEFINE need == Len(b.data) + len
<1>1. /\ b \in [data : Seq(MsgCells), cur : Nat, size : Nat, max : Nat, null : BOOLEAN]
      /\ Len(b.data) \in Nat /\ need \in Nat /\ b.size <= b.max
      /\ ~b.null => b.cur + Len(b.data) <= b.size
  BY DEF Sized
<1>2. \/ r = [ok |-> FALSE, b |-> b]
      \/ r = [ok |-> FALSE, b |-> [b EXCEPT !.null = TRUE]]
      \/ /\ need <= b.max
         /\ r = [ok |-> TRUE, b |-> [b EXCEPT !.size = NewSize(b, need), !.cur = 0]]
      \/ /\ need <= b.size
         /\ r = [ok |-> TRUE, b |-> IF b.size - b.cur < need THEN [b EXCEPT !.cur = 0] ELSE b]
  <2>1. CASE need > b.max
    BY <1>1, <2>1 DEF Resize
  <2>2. CASE need <= b.max /\ need > b.size /\ TooLittle(b, need)
    BY <1>1, <2>2 DEF Resize
  <2>3. CASE need <= b.max /\ need > b.size /\ ~TooLittle(b, need)
    BY <1>1, <2>3 DEF Resize
  <2>4. CASE need <= b.max /\ need <= b.size
    BY <1>1, <2>4 DEF Resize
  <2>5. QED
    BY <1>1, <2>1, <2>2, <2>3, <2>4
<1>3. CASE r = [ok |-> FALSE, b |-> b]
  BY <1>1, <1>3 DEF Sized
<1>4. CASE r = [ok |-> FALSE, b |-> [b EXCEPT !.null = TRUE]]
  BY <1>1, <1>4 DEF Sized
<1>5. CASE /\ need <= b.max
           /\ r = [ok |-> TRUE, b |-> [b EXCEPT !.size = NewSize(b, need), !.cur = 0]]
  <2>1. NewSize(b, need) \in Nat /\ NewSize(b, need) <= b.max /\ need <= NewSize(b, need)
    <3>1. /\ Grown(b.size) \in Nat /\ Grown(need) \in Nat
          /\ (IF Grown(b.size) < need THEN Grown(need) ELSE Grown(b.size)) >= need
      BY <1>1, WantedIsEnough
    <3>2. Wanted(b, need) \in Nat /\ Wanted(b, need) >= need
      BY <3>1 DEF Wanted
    <3>3. QED
      BY <1>1, <1>5, <3>2 DEF NewSize
  <2>2. /\ r.b \in [data : Seq(MsgCells), cur : Nat, size : Nat, max : Nat, null : BOOLEAN]
        /\ r.b.size = NewSize(b, need) /\ r.b.cur = 0 /\ r.b.data = b.data /\ r.b.max = b.max
        /\ r.b.null = b.null /\ r.ok
    BY <1>1, <1>5, <2>1
  <2>3. QED
    BY <1>1, <2>1, <2>2, <1>5 DEF Sized
<1>6. CASE /\ need <= b.size
           /\ r = [ok |-> TRUE, b |-> IF b.size - b.cur < need THEN [b EXCEPT !.cur = 0] ELSE b]
  BY <1>1, <1>6 DEF Sized
<1>7. QED
  BY <1>2, <1>3, <1>4, <1>5, <1>6

LEMMA AppendKeeps ==
  ASSUME NEW b, Sized(b), NEW stored \in Seq(MsgCells), NEW a \in AppendData(b, stored)
  PROVE  /\ a.ok \in BOOLEAN /\ Sized(a.b)
         /\ a.b.data = IF a.ok THEN b.data \o stored ELSE b.data
<1>1. PICK r \in Resize(b, Len(stored)) :
        a = [ok |-> r.ok, b |-> IF r.ok THEN [r.b EXCEPT !.data = @ \o stored] ELSE r.b]
  BY DEF AppendData
<1>2. Len(stored) \in Nat
  OBVIOUS
<1>3. /\ r.ok \in BOOLEAN /\ Sized(r.b) /\ r.b.data = b.data
      /\ r.ok => r.b.cur + Len(b.data) + Len(stored) <= r.b.size
  BY <1>2, ResizeKeeps
<1>4. CASE ~r.ok
  BY <1>1, <1>3, <1>4
<1>5. CASE r.ok
  <2>1. /\ r.b \in [data : Seq(MsgCells), cur : Nat, size : Nat, max : Nat, null : BOOLEAN]
        /\ b.data \in Seq(MsgCells)
    BY <1>3 DEF Sized
  <2>2. b.data \o stored \in Seq(MsgCells) /\ Len(b.data \o stored) = Len(b.data) + Len(stored)
    BY <2>1, ConcatProperties
  <2>3. a.ok /\ a.b = [r.b EXCEPT !.data = b.data \o stored]
    BY <1>1, <1>3, <1>5
  <2>4. /\ a.b \in [data : Seq(MsgCells), cur : Nat, size : Nat, max : Nat, null : BOOLEAN]
        /\ a.b.data = b.data \o stored /\ a.b.cur = r.b.cur /\ a.b.size = r.b.size
        /\ a.b.max = r.b.max
    BY <2>1, <2>2, <2>3
  <2>5. a.b.cur + Len(a.b.data) <= a.b.size
    BY <1>2, <1>3, <1>5, <2>1, <2>2, <2>4
  <2>6. QED
    BY <1>3, <2>3, <2>4, <2>5 DEF Sized
<1>6. QED
  BY <1>3, <1>4, <1>5

DynInv ==
  /\ Sized(buf)
  /\ \E e : Frames(buf.data, e, msgs)

LEMMA TextsAre ==
  ASSUME NEW text \in Tags \cup Texts
  PROVE  /\ Len(text) \in Nat /\ Bytes(text) \in Seq(MsgCells) /\ Len(Bytes(text)) = Len(text)
         /\ text = [i \in 1 .. Len(text) |-> text[i]]
<1>1. text \in Seq({text[i] : i \in DOMAIN text})
  BY DynAssumption
<1>2. /\ Len(text) \in Nat /\ DOMAIN text = 1 .. Len(text)
      /\ text = [i \in 1 .. Len(text) |-> text[i]]
  BY <1>1
<1>3. \A i \in 1 .. Len(text) : text[i] \in Chars
  BY <1>2 DEF Chars
<1>4. \A i \in 1 .. Len(text) : [is |-> "byte", of |-> text[i]] \in MsgCells
  BY <1>3 DEF MsgCells
<1>5. Bytes(text) \in Seq(MsgCells) /\ Len(Bytes(text)) = Len(text)
  BY <1>2, <1>4 DEF Bytes
<1>6. QED
  BY <1>2, <1>5

(* The body of a message: what comes before the text, and the text.        *)
LEMMA BodiesAre ==
  ASSUME NEW p \in Tags, NEW t \in Texts
  PROVE  /\ Bytes(p) \o Bytes(t) \in Seq(MsgCells)
         /\ Len(Bytes(p) \o Bytes(t)) = Len(p) + Len(t) /\ Len(p) + Len(t) \in Nat
         /\ Bytes(p) \o Bytes(t) \in Framed
<1>1. /\ Len(p) \in Nat /\ Bytes(p) \in Seq(MsgCells) /\ Len(Bytes(p)) = Len(p)
      /\ p \in Seq({p[i] : i \in DOMAIN p})
  BY TextsAre, DynAssumption
<1>2. /\ Len(t) \in Nat /\ Bytes(t) \in Seq(MsgCells) /\ Len(Bytes(t)) = Len(t)
      /\ t \in Seq({t[i] : i \in DOMAIN t})
  BY TextsAre, DynAssumption
<1> DEFINE both == Bytes(p) \o Bytes(t)
           S == {p[i] : i \in DOMAIN p} \cup {t[i] : i \in DOMAIN t}
<1>3. /\ both \in Seq(MsgCells) /\ Len(both) = Len(Bytes(p)) + Len(Bytes(t))
      /\ \A i \in 1 .. Len(Bytes(p)) + Len(Bytes(t)) :
           both[i] = IF i <= Len(Bytes(p)) THEN Bytes(p)[i] ELSE Bytes(t)[i - Len(Bytes(p))]
  BY <1>1, <1>2, ConcatProperties
<1>4. p \in Seq(S) /\ t \in Seq(S)
  BY <1>1, <1>2
<1> HIDE DEF S
<1>5. /\ p \o t \in Seq(S) /\ Len(p \o t) = Len(p) + Len(t)
      /\ \A i \in 1 .. Len(p) + Len(t) :
           (p \o t)[i] = IF i <= Len(p) THEN p[i] ELSE t[i - Len(p)]
  BY <1>4, ConcatProperties
<1>6. \A i \in 1 .. Len(p) : Bytes(p)[i] = [is |-> "byte", of |-> p[i]]
  BY DEF Bytes
<1>7. \A i \in 1 .. Len(t) : Bytes(t)[i] = [is |-> "byte", of |-> t[i]]
  BY DEF Bytes
<1> HIDE DEF both
<1>8. ASSUME NEW i \in 1 .. Len(p) + Len(t)
      PROVE  both[i] = [is |-> "byte", of |-> (p \o t)[i]]
  <2>1. CASE i <= Len(p)
    <3>1. i \in 1 .. Len(p)
      BY <1>1, <2>1
    <3>2. (p \o t)[i] = p[i] /\ both[i] = Bytes(p)[i]
      BY <1>1, <1>2, <1>3, <1>5, <2>1
    <3>3. QED
      BY <1>6, <3>1, <3>2
  <2>2. CASE ~(i <= Len(p))
    <3>1. i - Len(p) \in 1 .. Len(t)
      BY <1>1, <1>2, <2>2
    <3>2. (p \o t)[i] = t[i - Len(p)] /\ both[i] = Bytes(t)[i - Len(p)]
      BY <1>1, <1>2, <1>3, <1>5, <2>2
    <3>3. QED
      BY <1>7, <3>1, <3>2
  <2>3. QED
    BY <2>1, <2>2
<1>9. both = [i \in 1 .. Len(p) + Len(t) |-> both[i]] /\ Len(both) = Len(p) + Len(t)
  BY <1>1, <1>2, <1>3
<1>10. Bytes(p \o t) = [i \in 1 .. Len(p) + Len(t) |-> [is |-> "byte", of |-> (p \o t)[i]]]
  BY <1>5 DEF Bytes
<1>11. both = Bytes(p \o t)
  BY <1>8, <1>9, <1>10
<1>12. both \in Framed
  BY <1>11 DEF Framed
<1>13. Len(p) + Len(t) \in Nat
  BY <1>1, <1>2
<1>14. QED
  BY <1>3, <1>9, <1>12, <1>13 DEF both

(* What was added last is taken back.                                      *)
LEMMA ShortenedIs ==
  ASSUME NEW b, Sized(b), NEW d \in Seq(MsgCells), NEW more \in Seq(MsgCells), b.data = d \o more
  PROVE  Sized(Shortened(b, Len(more))) /\ Shortened(b, Len(more)).data = d
<1> DEFINE n == Len(more)
           c == Shortened(b, n)
<1>1. /\ b \in [data : Seq(MsgCells), cur : Nat, size : Nat, max : Nat, null : BOOLEAN]
      /\ b.size <= b.max /\ (~b.null => b.cur + Len(b.data) <= b.size)
  BY DEF Sized
<1>2. /\ Len(d \o more) = Len(d) + Len(more) /\ SubSeq(d \o more, 1, Len(d)) = d
  BY PiecesOf DEF Joined
<1>3. Len(b.data) - n = Len(d) /\ Len(d) \in Nat /\ Len(d) <= Len(b.data)
  BY <1>2
<1>4. Shortened(b, n) = [b EXCEPT !.data = d]
  BY <1>1, <1>2, <1>3 DEF Shortened
<1>5. /\ c \in [data : Seq(MsgCells), cur : Nat, size : Nat, max : Nat, null : BOOLEAN]
      /\ c.data = d /\ c.cur = b.cur /\ c.size = b.size /\ c.max = b.max /\ c.null = b.null
  BY <1>1, <1>4
<1> HIDE DEF c
<1>6. c.size <= c.max /\ (~c.null => c.cur + Len(c.data) <= c.size)
  BY <1>1, <1>3, <1>5
<1>7. Sized(c) /\ c.data = d
  BY <1>5, <1>6 DEF Sized
<1>8. QED
  BY <1>7 DEF c

(* A message that is refused leaves the messages as they were.             *)
LEMMA AddMsgAdds ==
  ASSUME Sized(buf), NEW p \in Tags, NEW t \in Texts, AddMsg(p, t)
  PROVE  /\ Sized(buf')
         /\ \/ buf'.data = buf.data /\ msgs' = msgs + 0
            \/ /\ Behind(buf.data, buf'.data, Len(p) + Len(t), Bytes(p) \o Bytes(t))
               /\ msgs' = msgs + 1
<1> DEFINE n == Len(p) + Len(t)
           H == Header(n)
           d == buf.data
           P == Bytes(p)
           T == Bytes(t)
<1>1. /\ n \in Nat /\ P \in Seq(MsgCells) /\ Len(P) = Len(p)
      /\ T \in Seq(MsgCells) /\ Len(T) = Len(t)
      /\ P \o T \in Seq(MsgCells) /\ Len(P \o T) = n
      /\ Len(p) \in Nat
  BY TextsAre, BodiesAre
<1>2. d \in Seq(MsgCells)
  BY DEF Sized
<1>3. H \in Seq(MsgCells) /\ Len(H) = HeaderSize
  BY <1>1, DynAssumption DEF Header, MsgCells
<1>4. Behind(d, d \o (H \o (P \o T)), n, P \o T)
  BY <1>1, <1>2, AppendedIsBehind
<1> HIDE DEF n, H, d, P, T
<1>5. \A b, more : Sized(b) /\ more \in Seq(MsgCells) /\ b.data = d \o more =>
                     Sized(Shortened(b, Len(more))) /\ Shortened(b, Len(more)).data = d
  BY <1>2, ShortenedIs
<1>6. \A s, u, v \in Seq(MsgCells) : (s \o u) \o v = s \o (u \o v)
  BY CellsAssociate
<1>7. PICK h \in AppendData(buf, H) :
        \/ ~h.ok /\ Result(h.b, 0)
        \/ /\ h.ok
           /\ \E q \in AppendData(h.b, P) :
                \/ ~q.ok /\ Result(Shortened(q.b, HeaderSize), 0)
                \/ /\ q.ok
                   /\ \E r \in AppendData(q.b, T) :
                        \/ ~r.ok /\ Result(Shortened(r.b, HeaderSize + Len(p)), 0)
                        \/ r.ok /\ Result(r.b, 1)
  BY DEF AddMsg, H, n, P, T
<1>8. Sized(h.b) /\ h.b.data = IF h.ok THEN d \o H ELSE d
  BY <1>3, AppendKeeps DEF d
<1>9. CASE ~h.ok /\ Result(h.b, 0)
  BY <1>8, <1>9 DEF Result, d
<1>10. CASE h.ok /\ \E q \in AppendData(h.b, P) :
                     \/ ~q.ok /\ Result(Shortened(q.b, HeaderSize), 0)
                     \/ /\ q.ok
                        /\ \E r \in AppendData(q.b, T) :
                             \/ ~r.ok /\ Result(Shortened(r.b, HeaderSize + Len(p)), 0)
                             \/ r.ok /\ Result(r.b, 1)
  <2>1. PICK q \in AppendData(h.b, P) :
          \/ ~q.ok /\ Result(Shortened(q.b, HeaderSize), 0)
          \/ /\ q.ok
             /\ \E r \in AppendData(q.b, T) :
                  \/ ~r.ok /\ Result(Shortened(r.b, HeaderSize + Len(p)), 0)
                  \/ r.ok /\ Result(r.b, 1)
    BY <1>10
  <2>2. Sized(q.b) /\ q.b.data = IF q.ok THEN (d \o H) \o P ELSE d \o H
    <3>1. Sized(h.b) /\ h.b.data = d \o H
      BY <1>8, <1>10
    <3>2. Sized(q.b) /\ q.b.data = IF q.ok THEN h.b.data \o P ELSE h.b.data
      BY <1>1, <3>1, AppendKeeps
    <3>3. QED
      BY <3>1, <3>2
  <2>3. CASE ~q.ok /\ Result(Shortened(q.b, HeaderSize), 0)
    <3>1. Sized(Shortened(q.b, HeaderSize)) /\ Shortened(q.b, HeaderSize).data = d
      <4>1. q.b.data = d \o H
        BY <2>2, <2>3
      <4>2. Sized(Shortened(q.b, Len(H))) /\ Shortened(q.b, Len(H)).data = d
        BY <1>3, <1>5, <2>2, <4>1
      <4>3. QED
        BY <1>3, <4>2
    <3>2. QED
      BY <2>3, <3>1 DEF Result, d
  <2>4. CASE q.ok /\ \E r \in AppendData(q.b, T) :
                       \/ ~r.ok /\ Result(Shortened(r.b, HeaderSize + Len(p)), 0)
                       \/ r.ok /\ Result(r.b, 1)
    <3>1. PICK r \in AppendData(q.b, T) :
            \/ ~r.ok /\ Result(Shortened(r.b, HeaderSize + Len(p)), 0)
            \/ r.ok /\ Result(r.b, 1)
      BY <2>4
    <3>2. /\ Sized(r.b)
          /\ r.b.data = IF r.ok THEN q.b.data \o T ELSE q.b.data
      BY <1>1, <2>2, AppendKeeps
    <3>3. q.b.data = (d \o H) \o P
      BY <2>2, <2>4
    <3>4. /\ H \o P \in Seq(MsgCells) /\ Len(H \o P) = HeaderSize + Len(p)
      <4>1. Joined(H, P, H \o P)
        BY <1>1, <1>3, PiecesOf
      <4>2. QED
        BY <1>1, <1>3, <4>1 DEF Joined
    <3>5. (d \o H) \o P = d \o (H \o P)
      <4>1. d \in Seq(MsgCells) /\ H \in Seq(MsgCells) /\ P \in Seq(MsgCells)
        BY <1>1, <1>2, <1>3
      <4>2. QED
        BY <4>1, CellsAssociate, Zenon
    <3>6. CASE ~r.ok /\ Result(Shortened(r.b, HeaderSize + Len(p)), 0)
      <4>1. r.b.data = d \o (H \o P)
        BY <3>2, <3>3, <3>5, <3>6
      <4>2. /\ Sized(Shortened(r.b, HeaderSize + Len(p)))
            /\ Shortened(r.b, HeaderSize + Len(p)).data = d
        <5>1. /\ Sized(Shortened(r.b, Len(H \o P)))
              /\ Shortened(r.b, Len(H \o P)).data = d
          BY <1>5, <3>2, <3>4, <4>1
        <5>2. QED
          BY <3>4, <5>1
      <4>3. QED
        BY <3>6, <4>2 DEF Result, d
    <3>7. CASE r.ok /\ Result(r.b, 1)
      <4>1. r.b.data = (d \o (H \o P)) \o T
        BY <3>2, <3>3, <3>5, <3>7
      <4>2. (d \o (H \o P)) \o T = d \o ((H \o P) \o T)
        BY <1>1, <1>2, <1>6, <3>4, SMTT(30)
      <4>3. (H \o P) \o T = H \o (P \o T)
        BY <1>1, <1>3, CellsAssociate
      <4>4. r.b.data = d \o (H \o (P \o T))
        BY <4>1, <4>2, <4>3
      <4>5. buf' = r.b /\ msgs' = msgs + 1
        BY <3>7 DEF Result
      <4>6. QED
        BY <1>4, <3>2, <4>4, <4>5 DEF d, n, P, T
    <3>8. QED
      BY <3>1, <3>6, <3>7
  <2>5. QED
    BY <2>1, <2>3, <2>4
<1>11. QED
  BY <1>7, <1>9, <1>10

LEMMA DynStarts == DynInit => DynInv
<1> SUFFICES ASSUME DynInit PROVE DynInv
  OBVIOUS
<1>1. /\ buf = [data |-> <<>>, cur |-> 0, size |-> initSize, max |-> maxSize, null |-> FALSE]
      /\ msgs = 0
  BY DEF DynInit
<1>2. Sized(buf)
  BY <1>1, DynAssumption DEF Sized
<1>3. Frames(<<>>, [i \in {0} |-> 0], 0)
  BY DEF Frames
<1>4. QED
  BY <1>1, <1>2, <1>3 DEF DynInv

(* What a step may do to the messages: leave them as they are, add one,    *)
(* take the first, or take all.                                            *)
AddStep ==
  \E body \in Framed :
    /\ msgs' = msgs + 1 /\ \E f : Frames(buf'.data, f, msgs')
    /\ Parsed(buf'.data) = Append(Parsed(buf.data), body)

TakeStep(k) ==
  \E e, n : /\ n \in Nat \ {0} /\ k \in 1 .. n /\ msgs' = n - k
            /\ \E g : Frames(buf'.data, g, n - k)
            /\ Parsed(buf.data) = Contents(buf.data, e, n)
            /\ Parsed(buf'.data) = SubSeq(Contents(buf.data, e, n), k + 1, n)

SameStep == msgs' = msgs /\ buf'.data = buf.data

LEMMA AddMsgMoves ==
  ASSUME DynInv, NEW p \in Tags, NEW t \in Texts, AddMsg(p, t)
  PROVE  Sized(buf') /\ (SameStep \/ AddStep)
<1> DEFINE body == Bytes(p) \o Bytes(t)
<1>1. /\ Sized(buf')
      /\ \/ buf'.data = buf.data /\ msgs' = msgs + 0
         \/ Behind(buf.data, buf'.data, Len(p) + Len(t), body) /\ msgs' = msgs + 1
  BY AddMsgAdds DEF DynInv
<1>2. PICK e : Frames(buf.data, e, msgs)
  BY DEF DynInv
<1>3. msgs \in Nat /\ buf.data \in Seq(MsgCells)
  BY <1>2 DEF Frames, DynInv, Sized
<1>4. CASE buf'.data = buf.data /\ msgs' = msgs + 0
  BY <1>1, <1>3, <1>4 DEF SameStep
<1>5. CASE Behind(buf.data, buf'.data, Len(p) + Len(t), body) /\ msgs' = msgs + 1
  <2>1. body \in Framed /\ Len(p) + Len(t) \in Nat
    BY BodiesAre
  <2> HIDE DEF body
  <2>2. /\ \E f : Frames(buf'.data, f, msgs + 1)
        /\ Parsed(buf'.data) = Append(Parsed(buf.data), body)
    BY <1>2, <1>3, <1>5, <2>1, FramesGrow
  <2>3. QED
    BY <1>1, <1>5, <2>1, <2>2 DEF AddStep
<1>6. QED
  BY <1>1, <1>4, <1>5

LEMMA RemoveMsgMoves ==
  ASSUME DynInv, RemoveMsg
  PROVE  Sized(buf') /\ TakeStep(1)
<1> DEFINE first == FirstLen(buf)
           stored == buf.data
<1>1. /\ stored # <<>> /\ msgs' = msgs - 1
      /\ buf' = [buf EXCEPT !.data = SubSeq(stored, first + 1, Len(stored)),
                            !.cur = IF Len(stored) = first THEN 0 ELSE buf.cur + first]
  <2>1. buf \in [data : Seq(MsgCells), cur : Nat, size : Nat, max : Nat, null : BOOLEAN]
    BY DEF DynInv, Sized
  <2>2. QED
    BY <2>1 DEF RemoveMsg, Consumed
<1>2. PICK e : Frames(stored, e, msgs)
  BY DEF DynInv
<1>3. /\ buf \in [data : Seq(MsgCells), cur : Nat, size : Nat, max : Nat, null : BOOLEAN]
      /\ buf.size <= buf.max /\ (~buf.null => buf.cur + Len(stored) <= buf.size)
      /\ stored \in Seq(MsgCells)
  BY DEF DynInv, Sized
<1>4. EndsFirst(stored, first)
  BY DEF EndsFirst, FirstLen
<1> HIDE DEF first, stored
<1> DEFINE rest == SubSeq(stored, first + 1, Len(stored))
<1>5. /\ msgs \in Nat \ {0} /\ first \in Nat /\ first <= Len(stored)
      /\ \E g : Frames(rest, g, msgs - 1)
      /\ Parsed(stored) = Contents(stored, e, msgs)
      /\ Parsed(rest) = SubSeq(Contents(stored, e, msgs), 2, msgs)
  BY <1>1, <1>2, <1>3, <1>4, FramesShrink
<1>6. rest \in Seq(MsgCells) /\ Len(rest) = Len(stored) - first
  <2>1. Len(stored) \in Nat /\ first + 1 \in Int /\ first + 1 >= 1
    BY <1>3, <1>5
  <2>2. \A i \in first + 1 .. Len(stored) : stored[i] \in MsgCells
    BY <1>3, <1>5
  <2>3. /\ rest \in Seq(MsgCells)
        /\ Len(rest) = IF first + 1 <= Len(stored) THEN Len(stored) - (first + 1) + 1 ELSE 0
    BY <2>1, <2>2, SubSeqProperties
  <2>4. QED
    BY <1>5, <2>1, <2>3
<1> HIDE DEF rest
<1>7. buf' = [buf EXCEPT !.data = rest,
                         !.cur = IF Len(stored) = first THEN 0 ELSE buf.cur + first]
  BY <1>1 DEF rest
<1>8. Len(stored) \in Nat
  BY <1>3
<1>9. /\ buf' \in [data : Seq(MsgCells), cur : Nat, size : Nat, max : Nat, null : BOOLEAN]
      /\ buf'.data = rest /\ buf'.size = buf.size /\ buf'.max = buf.max /\ buf'.null = buf.null
      /\ buf'.cur = IF Len(stored) = first THEN 0 ELSE buf.cur + first
  <2> DEFINE at == IF Len(stored) = first THEN 0 ELSE buf.cur + first
  <2>1. at \in Nat
    BY <1>3, <1>5
  <2> HIDE DEF at
  <2>2. buf' = [buf EXCEPT !.data = rest, !.cur = at]
    BY <1>7 DEF at
  <2>3. /\ buf' \in [data : Seq(MsgCells), cur : Nat, size : Nat, max : Nat, null : BOOLEAN]
        /\ buf'.data = rest /\ buf'.size = buf.size /\ buf'.max = buf.max
        /\ buf'.null = buf.null /\ buf'.cur = at
    BY <1>3, <1>6, <2>1, <2>2
  <2>4. QED
    BY <2>3 DEF at
<1>10. ~buf'.null => buf'.cur + Len(buf'.data) <= buf'.size
  BY <1>3, <1>5, <1>6, <1>8, <1>9, SMTT(30)
<1>11. Sized(buf')
  BY <1>3, <1>9, <1>10 DEF Sized
<1>12. TakeStep(1)
  <2>1. 1 \in 1 .. msgs /\ 1 + 1 = 2
    BY <1>5
  <2>2. QED
    BY <1>1, <1>5, <1>9, <2>1 DEF TakeStep, stored
<1>13. QED
  BY <1>11, <1>12

LEMMA RemoveAllMoves ==
  ASSUME DynInv, RemoveAll
  PROVE  Sized(buf') /\ (SameStep \/ \E k \in Nat : TakeStep(k))
<1>1. /\ buf \in [data : Seq(MsgCells), cur : Nat, size : Nat, max : Nat, null : BOOLEAN]
      /\ buf.size <= buf.max
  BY DEF DynInv, Sized
<1>2. buf' = [buf EXCEPT !.data = <<>>, !.cur = 0] /\ msgs' = 0
  BY DEF RemoveAll
<1>3. /\ buf' \in [data : Seq(MsgCells), cur : Nat, size : Nat, max : Nat, null : BOOLEAN]
      /\ buf'.data = <<>> /\ buf'.cur = 0 /\ buf'.size = buf.size /\ buf'.max = buf.max
  <2> DEFINE nothing == <<>>
  <2>1. nothing \in Seq(MsgCells)
    OBVIOUS
  <2> HIDE DEF nothing
  <2>2. buf' = [buf EXCEPT !.data = nothing, !.cur = 0]
    BY <1>2 DEF nothing
  <2>3. /\ buf' \in [data : Seq(MsgCells), cur : Nat, size : Nat, max : Nat, null : BOOLEAN]
        /\ buf'.data = nothing /\ buf'.cur = 0 /\ buf'.size = buf.size /\ buf'.max = buf.max
    BY <1>1, <2>1, <2>2
  <2>4. QED
    BY <2>3 DEF nothing
<1>4. Sized(buf')
  BY <1>1, <1>3 DEF Sized
<1>5. PICK e : Frames(buf.data, e, msgs)
  BY DEF DynInv
<1>6. /\ msgs \in Nat /\ (msgs = 0 => buf.data = <<>>)
  <2>1. msgs \in Nat /\ e[msgs] = Len(buf.data) /\ e[0] = 0
    BY <1>5 DEF Frames
  <2>2. Len(buf.data) = 0 => buf.data = <<>>
    BY <1>1
  <2>3. QED
    BY <2>1, <2>2
<1>7. CASE msgs = 0
  BY <1>2, <1>3, <1>6, <1>7, <1>4 DEF SameStep
<1>8. CASE msgs # 0
  <2>1. Parsed(buf.data) = Contents(buf.data, e, msgs)
    BY <1>1, <1>5, ParsedAre
  <2> DEFINE zero == [i \in {0} |-> 0]
  <2>2. Frames(<<>>, zero, 0)
    BY DEF Frames
  <2>3. Parsed(<<>>) = Contents(<<>>, zero, 0)
    <3>1. <<>> \in Seq(MsgCells)
      OBVIOUS
    <3> HIDE DEF zero
    <3>2. QED
      BY <2>2, <3>1, ParsedAre
  <2>4. Contents(<<>>, zero, 0) = <<>>
    BY DEF Contents
  <2>5. SubSeq(Contents(buf.data, e, msgs), msgs + 1, msgs) = <<>>
    BY <1>6, SubSeqEmpty
  <2>6. msgs \in 1 .. msgs /\ msgs - msgs = 0 /\ msgs \in Nat \ {0}
    BY <1>6, <1>8
  <2> HIDE DEF zero
  <2>7. TakeStep(msgs)
    BY <1>2, <1>3, <2>1, <2>2, <2>3, <2>4, <2>5, <2>6 DEF TakeStep
  <2>8. QED
    BY <1>4, <1>6, <2>7
<1>9. QED
  BY <1>7, <1>8

LEMMA ReserveMoves ==
  ASSUME DynInv, NEW max_ \in Reserves, Reserve(max_)
  PROVE  Sized(buf') /\ SameStep
<1>1. /\ buf \in [data : Seq(MsgCells), cur : Nat, size : Nat, max : Nat, null : BOOLEAN]
      /\ buf.size <= buf.max /\ (~buf.null => buf.cur + Len(buf.data) <= buf.size)
      /\ Len(buf.data) \in Nat /\ max_ \in Nat
  BY DynAssumption DEF DynInv, Sized
<1>2. CASE max_ < Len(buf.data)
  BY <1>2 DEF Reserve, dynVars, SameStep, DynInv
<1>3. CASE ~(max_ < Len(buf.data))
  <2> DEFINE raised == [buf EXCEPT !.max = IF max_ > @ THEN max_ ELSE @]
             len == ((max_ - Len(buf.data)) * 2) \div 3
  <2>1. PICK r \in Resize(raised, len) : Result(r.b, 0)
    BY <1>3 DEF Reserve
  <2>2. Sized(raised) /\ raised.data = buf.data
    <3>1. /\ raised \in [data : Seq(MsgCells), cur : Nat, size : Nat, max : Nat, null : BOOLEAN]
          /\ raised.data = buf.data /\ raised.cur = buf.cur /\ raised.size = buf.size
          /\ raised.null = buf.null /\ raised.max >= buf.max
      BY <1>1, SMTT(30)
    <3> HIDE DEF raised
    <3>2. raised.size <= raised.max
      BY <1>1, <3>1
    <3>3. QED
      BY <1>1, <3>1, <3>2 DEF Sized
  <2>3. len \in Nat
    BY <1>1, <1>3
  <2> HIDE DEF raised, len
  <2>4. Sized(r.b) /\ r.b.data = buf.data
    BY <2>2, <2>3, ResizeKeeps
  <2>5. msgs \in Nat
    BY DEF DynInv, Frames
  <2>6. QED
    BY <2>1, <2>4, <2>5 DEF Result, SameStep
<1>4. QED
  BY <1>2, <1>3

LEMMA CopyMoves ==
  ASSUME DynInv, Copy
  PROVE  Sized(buf') /\ SameStep
<1>1. /\ buf \in [data : Seq(MsgCells), cur : Nat, size : Nat, max : Nat, null : BOOLEAN]
      /\ buf.size <= buf.max /\ (~buf.null => buf.cur + Len(buf.data) <= buf.size)
      /\ Len(buf.data) \in Nat
  BY DEF DynInv, Sized
<1>2. buf' = [buf EXCEPT !.cur = 0] /\ msgs' = msgs
  BY DEF Copy
<1>3. /\ buf' \in [data : Seq(MsgCells), cur : Nat, size : Nat, max : Nat, null : BOOLEAN]
      /\ buf'.data = buf.data /\ buf'.cur = 0 /\ buf'.size = buf.size /\ buf'.max = buf.max
      /\ buf'.null = buf.null
  BY <1>1, <1>2
<1>4. QED
  BY <1>1, <1>2, <1>3 DEF Sized, SameStep

(* Every step is one of the four.                                          *)
LEMMA DynMoves ==
  ASSUME DynInv, DynNext
  PROVE  /\ Sized(buf')
         /\ SameStep \/ AddStep \/ \E k \in Nat : TakeStep(k)
         /\ ~buf'.null => ~buf.null
<1>1. CASE RemoveAll
  <2>1. buf'.null = buf.null
    <3>1. buf \in [data : Seq(MsgCells), cur : Nat, size : Nat, max : Nat, null : BOOLEAN]
      BY DEF DynInv, Sized
    <3>2. QED
      BY <1>1, <3>1 DEF RemoveAll
  <2>2. QED
    BY <1>1, <2>1, RemoveAllMoves
<1>2. CASE ~buf.null /\ \/ \E prefix \in Tags, text \in Texts : AddMsg(prefix, text)
                        \/ RemoveMsg
                        \/ \E max_ \in Reserves : Reserve(max_)
                        \/ Copy
  <2>1. CASE \E prefix \in Tags, text \in Texts : AddMsg(prefix, text)
    BY <1>2, <2>1, AddMsgMoves
  <2>2. CASE RemoveMsg
    BY <1>2, <2>2, RemoveMsgMoves
  <2>3. CASE \E max_ \in Reserves : Reserve(max_)
    BY <1>2, <2>3, ReserveMoves
  <2>4. CASE Copy
    BY <1>2, <2>4, CopyMoves
  <2>5. QED
    BY <1>2, <2>1, <2>2, <2>3, <2>4
<1>3. QED
  BY <1>1, <1>2 DEF DynNext

LEMMA DynStep == DynInv /\ [DynNext]_dynVars => DynInv'
<1>1. ASSUME DynInv, UNCHANGED dynVars PROVE DynInv'
  BY <1>1 DEF dynVars, DynInv, Sized
<1>2. ASSUME DynInv, DynNext PROVE DynInv'
  <2>1. Sized(buf') /\ (SameStep \/ AddStep \/ \E k \in Nat : TakeStep(k))
    BY <1>2, DynMoves
  <2>2. CASE SameStep
    BY <1>2, <2>1, <2>2 DEF SameStep, DynInv
  <2>3. CASE AddStep
    BY <2>1, <2>3 DEF AddStep, DynInv
  <2>4. CASE \E k \in Nat : TakeStep(k)
    BY <2>1, <2>4 DEF TakeStep, DynInv
  <2>5. QED
    BY <2>1, <2>2, <2>3, <2>4
<1>3. QED
  BY <1>1, <1>2

LEMMA DynIsFramed == DynInv => WellFramed
<1> SUFFICES ASSUME DynInv PROVE WellFramed
  OBVIOUS
<1>1. PICK e : Frames(buf.data, e, msgs)
  BY DEF DynInv
<1>2. /\ buf.data \in Seq(MsgCells) /\ buf.size <= buf.max
      /\ ~buf.null => buf.cur + Len(buf.data) <= buf.size
  BY DEF DynInv, Sized
<1>3. /\ Parsed(buf.data) = Contents(buf.data, e, msgs)
      /\ Ends(buf.data)[Len(buf.data)] = Len(buf.data) /\ msgs \in Nat
  BY <1>1, <1>2, ParsedAre DEF Frames
<1>4. Len(Contents(buf.data, e, msgs)) = msgs
  BY <1>3 DEF Contents
<1>5. QED
  BY <1>2, <1>3, <1>4 DEF WellFramed

(* What is in the message buffer is exactly the messages that were added   *)
(* and not removed, inside the buffer's limits, for all sizes and texts    *)
(* (DynBuffer.h:202, DynMsg.h:15).                                         *)
THEOREM BufferStaysFramed == DynSpec => []WellFramed
BY DynStarts, DynStep, DynIsFramed, PTL DEF DynSpec

(* The buffer implements a queue of whole messages, one message added or   *)
(* some removed at a time, unless resize gives it up (DynMsg.h:44-95,      *)
(* DynBuffer.h:93-97).                                                     *)
THEOREM BufferImplementsQueue == DynSpec => ImplementsQueueOrNull
<1>1. DynInv /\ [DynNext]_dynVars => [buf'.null \/ Queue!QueueNext]_dynVars
  <2>1. SUFFICES ASSUME DynInv, DynNext, ~buf'.null PROVE Queue!QueueNext
    BY DEF DynInv, Sized
  <2>2. ~buf.null /\ (SameStep \/ AddStep \/ \E k \in Nat : TakeStep(k))
    BY <2>1, DynMoves
  <2>3. Readable = Parsed(buf.data) /\ Readable' = Parsed(buf'.data)
    BY <2>1, <2>2 DEF Readable
  <2>4. CASE SameStep
    BY <2>3, <2>4 DEF SameStep, Queue!QueueNext, Queue!Refused
  <2>5. CASE AddStep
    BY <2>3, <2>5 DEF AddStep, Queue!QueueNext, Queue!Added
  <2>6. CASE \E k \in Nat : TakeStep(k)
    <3>5. PICK k \in Nat : TakeStep(k)
      BY <2>6
    <3>1. PICK e, n :
            /\ n \in Nat \ {0} /\ k \in 1 .. n
            /\ Parsed(buf.data) = Contents(buf.data, e, n)
            /\ Parsed(buf'.data) = SubSeq(Contents(buf.data, e, n), k + 1, n)
      BY <3>5 DEF TakeStep
    <3>2. Len(Contents(buf.data, e, n)) = n
      BY <3>1 DEF Contents
    <3>3. /\ k \in 1 .. Len(Readable)
          /\ Readable' = SubSeq(Readable, k + 1, Len(Readable))
      BY <2>3, <3>1, <3>2
    <3>4. Readable' \in Queue!Removed(Readable)
      BY <3>3 DEF Queue!Removed
    <3>6. QED
      BY <3>4 DEF Queue!QueueNext
  <2>7. QED
    BY <2>2, <2>4, <2>5, <2>6
<1>2. QED
  BY <1>1, DynStarts, DynStep, PTL DEF DynSpec, ImplementsQueueOrNull
-----------------------------------------------------------------------------
(* The messages, partitions, blocks and telephone numbers in use and free  *)
(* are exact in every behaviour of the four (DynBuffer.h,                  *)
(* simplified_alloc.cpp, SmallObject.h, PhoneRegistry.cpp).                *)
THEOREM MemoryStaysSound ==
  DynSpec /\ StorageSpec /\ ChunkSpec /\ PhoneSpec => []MCMemorySound
<1>1. WellFramed /\ ListIsFreeParts /\ ChunkListIsFree /\ IntervalsExact => MCMemorySound
  BY DEF MCMemorySound
<1>2. QED
  BY <1>1, BufferStaysFramed, ListStaysFree, ChunkListStaysFree, FreeNumbersExact, PTL
-----------------------------------------------------------------------------
(* What taking an element out of a sequence leaves.                        *)
LEMMA TakenOut ==
  ASSUME NEW S, NEW s \in Seq(S), NEW i \in 1 .. Len(s)
  PROVE  /\ RemoveAt(s, i) \in Seq(S) /\ Len(RemoveAt(s, i)) = Len(s) - 1
         /\ \A j \in 1 .. Len(s) - 1 : RemoveAt(s, i)[j] = IF j < i THEN s[j] ELSE s[j + 1]
<1> DEFINE ahead == SubSeq(s, 1, i - 1)
           right == SubSeq(s, i + 1, Len(s))
           n == Len(s)
<1>1. n \in Nat /\ i \in Nat /\ 1 <= i /\ i <= n
  OBVIOUS
<1>2. /\ ahead \in Seq(S) /\ Len(ahead) = i - 1
      /\ \A j \in 1 .. i - 1 : ahead[j] = s[j]
  BY <1>1, SubSeqProperties
<1>3. /\ right \in Seq(S) /\ Len(right) = n - i
      /\ \A j \in 1 .. n - i : right[j] = s[i + j]
  <2>1. /\ right \in Seq(S)
        /\ Len(right) = IF i + 1 <= n THEN n - (i + 1) + 1 ELSE 0
        /\ \A j \in 1 .. n - (i + 1) + 1 : right[j] = s[(i + 1) + j - 1]
    BY <1>1, SubSeqProperties
  <2> HIDE DEF n, right
  <2>2. \A j \in 1 .. n - i : (i + 1) + j - 1 = i + j /\ j \in 1 .. n - (i + 1) + 1
    BY <1>1
  <2>3. QED
    BY <1>1, <2>1, <2>2
<1>4. RemoveAt(s, i) = ahead \o right
  BY DEF RemoveAt
<1> HIDE DEF ahead, right
<1>5. /\ ahead \o right \in Seq(S) /\ Len(ahead \o right) = Len(ahead) + Len(right)
      /\ \A j \in 1 .. Len(ahead) + Len(right) :
           (ahead \o right)[j] = IF j <= Len(ahead) THEN ahead[j] ELSE right[j - Len(ahead)]
  BY <1>2, <1>3, ConcatProperties
<1>6. ASSUME NEW j \in 1 .. n - 1
      PROVE  (ahead \o right)[j] = IF j < i THEN s[j] ELSE s[j + 1]
  <2> HIDE DEF n
  <2>1. j \in 1 .. Len(ahead) + Len(right) /\ (j <= Len(ahead) <=> j < i)
    BY <1>1, <1>2, <1>3
  <2>2. CASE j < i
    BY <1>1, <1>2, <1>5, <2>1, <2>2
  <2>3. CASE ~(j < i)
    <3>1. j - Len(ahead) = j - i + 1 /\ j - i + 1 \in 1 .. n - i /\ i + (j - i + 1) = j + 1
      BY <1>1, <1>2, <2>3
    <3>2. QED
      BY <1>3, <1>5, <2>1, <2>3, <3>1
  <2>4. QED
    BY <2>2, <2>3
<1>7. Len(ahead) + Len(right) = n - 1
  BY <1>1, <1>2, <1>3
<1>8. QED
  BY <1>4, <1>5, <1>6, <1>7

(* The sequence t is s with e put in at i.                                 *)
PutAt(t, s, i, e) ==
  /\ Len(t) = Len(s) + 1
  /\ \A j \in 1 .. Len(s) + 1 :
       t[j] = IF j < i THEN s[j] ELSE IF j = i THEN e ELSE s[j - 1]

(* What putting an element into a sequence makes.                          *)
LEMMA PutIn ==
  ASSUME NEW S, NEW s \in Seq(S), NEW i \in 1 .. Len(s), NEW e \in S
  PROVE  InsertAt(s, i, e) \in Seq(S) /\ PutAt(InsertAt(s, i, e), s, i, e)
<1> DEFINE ahead == SubSeq(s, 1, i - 1)
           right == SubSeq(s, i, Len(s))
           upto == ahead \o <<e>>
           n == Len(s)
<1>1. n \in Nat /\ i \in Nat /\ 1 <= i /\ i <= n
  OBVIOUS
<1>2. /\ ahead \in Seq(S) /\ Len(ahead) = i - 1
      /\ \A j \in 1 .. i - 1 : ahead[j] = s[j]
  BY <1>1, SubSeqProperties
<1>3. /\ right \in Seq(S) /\ Len(right) = n - i + 1
      /\ \A j \in 1 .. n - i + 1 : right[j] = s[i + j - 1]
  BY <1>1, SubSeqProperties
<1>4. InsertAt(s, i, e) = upto \o right
  BY DEF InsertAt
<1> HIDE DEF ahead, right
<1>5. /\ upto \in Seq(S) /\ Len(upto) = i /\ upto[i] = e
      /\ \A j \in 1 .. i - 1 : upto[j] = ahead[j]
  <2>1. <<e>> \in Seq(S) /\ Len(<<e>>) = 1 /\ <<e>>[1] = e
    OBVIOUS
  <2>2. /\ upto \in Seq(S) /\ Len(upto) = Len(ahead) + Len(<<e>>)
        /\ \A j \in 1 .. Len(ahead) + Len(<<e>>) :
             upto[j] = IF j <= Len(ahead) THEN ahead[j] ELSE <<e>>[j - Len(ahead)]
    BY <1>2, <2>1, ConcatProperties
  <2> HIDE DEF upto
  <2>3. i \in 1 .. Len(ahead) + Len(<<e>>) /\ ~(i <= Len(ahead)) /\ i - Len(ahead) = 1
    BY <1>1, <1>2, <2>1
  <2>4. \A j \in 1 .. i - 1 : j \in 1 .. Len(ahead) + Len(<<e>>) /\ j <= Len(ahead)
    BY <1>1, <1>2, <2>1
  <2>5. upto[i] = e
    BY <2>1, <2>2, <2>3
  <2>6. Len(upto) = i
    BY <1>1, <1>2, <2>1, <2>2
  <2>7. QED
    BY <2>2, <2>4, <2>5, <2>6
<1> HIDE DEF upto
<1>6. /\ upto \o right \in Seq(S) /\ Len(upto \o right) = Len(upto) + Len(right)
      /\ \A j \in 1 .. Len(upto) + Len(right) :
           (upto \o right)[j] = IF j <= Len(upto) THEN upto[j] ELSE right[j - Len(upto)]
  BY <1>3, <1>5, ConcatProperties
<1> HIDE DEF n
<1>7. ASSUME NEW j \in 1 .. n + 1
      PROVE  (upto \o right)[j] = IF j < i THEN s[j] ELSE IF j = i THEN e ELSE s[j - 1]
  <2>1. j \in 1 .. Len(upto) + Len(right) /\ (j <= Len(upto) <=> j <= i)
    BY <1>1, <1>3, <1>5
  <2>2. CASE j < i
    <3>1. j \in 1 .. i - 1 /\ j <= Len(upto)
      BY <1>1, <1>5, <2>2
    <3>2. QED
      BY <1>2, <1>5, <1>6, <2>1, <2>2, <3>1
  <2>3. CASE j = i
    BY <1>5, <1>6, <2>1, <2>3
  <2>4. CASE j > i
    <3>1. /\ j - Len(upto) = j - i /\ j - i \in 1 .. n - i + 1 /\ i + (j - i) - 1 = j - 1
          /\ ~(j <= Len(upto)) /\ ~(j < i) /\ j # i
      BY <1>1, <1>5, <2>4
    <3>2. right[j - i] = s[j - 1]
      BY <1>3, <3>1
    <3>3. QED
      BY <1>6, <2>1, <3>1, <3>2
  <2>5. j < i \/ j = i \/ j > i
    BY <1>1
  <2>6. QED
    BY <2>2, <2>3, <2>4, <2>5
<1>8. Len(upto) + Len(right) = n + 1
  BY <1>1, <1>3, <1>5
<1>9. upto \o right \in Seq(S) /\ Len(upto \o right) = n + 1
  BY <1>6, <1>8
<1>10. QED
  BY <1>4, <1>7, <1>9 DEF n, PutAt

-----------------------------------------------------------------------------
(***************************************************************************)
(* MyLinkedList of module LinkedDesigns.                                   *)
(***************************************************************************)

Once(s) == \A i, j \in 1 .. Len(s) : s[i] = s[j] => i = j

(* tail is the last node, and no node is in the list twice.                *)
ListInv ==
  /\ chain \in Seq(ListNodes) /\ Once(chain)
  /\ length = Len(chain)
  /\ last = IF chain = <<>> THEN none ELSE chain[Len(chain)]

(* A list with a last node is not empty.                                   *)
LEMMA LastTells ==
  ASSUME ListInv
  PROVE  /\ last = none <=> chain = <<>>
         /\ length \in Nat /\ length = 0 <=> chain = <<>>
         /\ DOMAIN chain = 1 .. length
         /\ chain # <<>> => length \in 1 .. length /\ chain[length] = last
<1>1. chain \in Seq(ListNodes) /\ length = Len(chain) /\ length \in Nat
  BY DEF ListInv
<1>2. length = 0 <=> chain = <<>>
  BY <1>1, EmptySeq
<1>3. chain # <<>> => length \in 1 .. length /\ chain[length] \in ListNodes
  BY <1>1, <1>2, ElementOfSeq
<1>4. QED
  BY <1>1, <1>2, <1>3, ListAssumption DEF ListInv

(* The new node is in no place of the list.                                *)
LEMMA FreshIsNew ==
  ASSUME ListInv, NEW n \in ListNodes, Fresh(n)
  PROVE  \A i \in 1 .. Len(chain) : chain[i] # n
BY LastTells DEF Fresh, ToSet, ListInv

LEMMA HeadAdded ==
  ASSUME ListInv, NEW n \in ListNodes, Fresh(n), AddAtHead(n) PROVE ListInv'
<1>1. /\ chain \in Seq(ListNodes) /\ length = Len(chain) /\ length \in Nat /\ length' = length + 1
      /\ last = none <=> chain = <<>>
  BY LastTells DEF ListInv, AddAtHead
<1>2. <<n>> \in Seq(ListNodes) /\ Len(<<n>>) = 1 /\ <<n>>[1] = n
  OBVIOUS
<1>3. chain' = <<n>> \o chain
  BY <1>1 DEF AddAtHead
<1>4. /\ chain' \in Seq(ListNodes) /\ Len(chain') = length + 1
      /\ \A i \in 1 .. length + 1 : chain'[i] = IF i <= 1 THEN <<n>>[i] ELSE chain[i - 1]
  BY <1>1, <1>2, <1>3, ConcatProperties
<1>5. chain'[1] = n /\ \A i \in 1 .. length + 1 : i # 1 => chain'[i] = chain[i - 1]
  BY <1>1, <1>2, <1>4
<1>6. Once(chain')
  <2>1. \A i \in 1 .. length : chain[i] # n
    BY <1>1, FreshIsNew
  <2>2. \A i, j \in 1 .. length : chain[i] = chain[j] => i = j
    BY <1>1 DEF ListInv, Once
  <2>3. SUFFICES ASSUME NEW i \in 1 .. length + 1, NEW j \in 1 .. length + 1, chain'[i] = chain'[j]
                 PROVE  i = j
    BY <1>4 DEF Once
  <2>4. i # 1 => i - 1 \in 1 .. length
    BY <1>1
  <2>5. j # 1 => j - 1 \in 1 .. length
    BY <1>1
  <2>6. CASE i # 1 /\ j # 1
    <3>1. i - 1 = j - 1
      BY <1>5, <2>2, <2>3, <2>4, <2>5, <2>6
    <3>2. QED
      BY <3>1
  <2>7. CASE i = 1 \/ j = 1
    BY <1>5, <2>1, <2>3, <2>4, <2>5, <2>7
  <2>8. QED
    BY <2>6, <2>7
<1>7. last' = chain'[Len(chain')]
  <2>1. CASE chain = <<>>
    <3>1. length = 0
      BY <2>1, LastTells
    <3>2. last' = n
      BY <1>1, <2>1 DEF AddAtHead
    <3>3. QED
      BY <1>4, <1>5, <3>1, <3>2
  <2>2. CASE chain # <<>>
    <3>1. last' = last /\ length # 0 /\ chain[length] = last
      BY <1>1, <2>2, LastTells DEF AddAtHead
    <3>2. length + 1 \in 1 .. length + 1 /\ length + 1 # 1 /\ (length + 1) - 1 = length
      BY <1>1, <3>1
    <3>3. QED
      BY <1>4, <1>5, <3>1, <3>2
  <2>3. QED
    BY <2>1, <2>2
<1>8. chain' # <<>>
  BY <1>1, <1>4, EmptySeq
<1>9. QED
  BY <1>1, <1>4, <1>6, <1>7, <1>8 DEF ListInv

LEMMA TailAdded ==
  ASSUME ListInv, NEW n \in ListNodes, Fresh(n), AddAtTail(n) PROVE ListInv'
<1>1. CASE length = 0
  BY <1>1, HeadAdded DEF AddAtTail
<1>2. CASE length # 0
  <2>1. PICK i \in DOMAIN chain : chain[i] = last /\ chain' = Append(SubSeq(chain, 1, i), n)
    BY <1>2 DEF AddAtTail
  <2>2. /\ chain \in Seq(ListNodes) /\ length = Len(chain) /\ length \in Nat /\ DOMAIN chain = 1 .. length
        /\ length \in 1 .. length /\ chain[length] = last
    BY <1>2, LastTells DEF ListInv
  <2>3. i = length
    BY <2>1, <2>2 DEF ListInv, Once
  <2>4. chain' = Append(chain, n)
    BY <2>1, <2>2, <2>3, SubSeqFull
  <2>5. /\ chain' \in Seq(ListNodes) /\ Len(chain') = length + 1 /\ chain'[length + 1] = n
        /\ \A j \in 1 .. length : chain'[j] = chain[j]
    BY <2>2, <2>4, AppendProperties
  <2>6. Once(chain')
    <3>1. \A j \in 1 .. length : chain[j] # n
      BY <2>2, FreshIsNew
    <3>2. \A j, k \in 1 .. length : chain[j] = chain[k] => j = k
      BY <2>2 DEF ListInv, Once
    <3>3. \A j \in 1 .. length + 1 : j \in 1 .. length \/ j = length + 1
      BY <2>2
    <3>4. QED
      BY <2>5, <3>1, <3>2, <3>3 DEF Once
  <2>7. last' = n /\ length' = length + 1
    BY <1>2 DEF AddAtTail
  <2>8. chain' # <<>>
    BY <2>2, <2>5, EmptySeq
  <2>9. QED
    BY <2>5, <2>6, <2>7, <2>8 DEF ListInv
<1>3. QED
  BY <1>1, <1>2

LEMMA MiddleAdded ==
  ASSUME ListInv, NEW n \in ListNodes, Fresh(n), NEW index \in Int, AddAtIndex(index, n)
  PROVE  ListInv'
<1>1. CASE AddAtHead(n) \/ AddAtTail(n)
  BY <1>1, HeadAdded, TailAdded
<1>2. CASE /\ index > 0 /\ index < length
           /\ chain' = InsertAt(chain, index + 1, n)
           /\ length' = length + 1
           /\ UNCHANGED last
  <2>1. /\ chain \in Seq(ListNodes) /\ length = Len(chain) /\ length \in Nat
        /\ chain # <<>> => chain[length] = last
        /\ length = 0 <=> chain = <<>>
    BY LastTells DEF ListInv
  <2> DEFINE p == index + 1
  <2>2. p \in 1 .. length /\ p \in Nat /\ p > 1
    BY <1>2, <2>1
  <2> HIDE DEF p
  <2>3. chain' = InsertAt(chain, p, n)
    BY <1>2 DEF p
  <2>4. /\ chain' \in Seq(ListNodes) /\ Len(chain') = length + 1
        /\ \A j \in 1 .. length + 1 :
             chain'[j] = IF j < p THEN chain[j] ELSE IF j = p THEN n ELSE chain[j - 1]
    <3>1. p \in 1 .. Len(chain)
      BY <2>1, <2>2
    <3>2. InsertAt(chain, p, n) \in Seq(ListNodes) /\ PutAt(InsertAt(chain, p, n), chain, p, n)
      <4>1. n \in ListNodes /\ chain \in Seq(ListNodes)
        BY <2>1
      <4>2. QED
        BY ONLY <3>1, <4>1, PutIn
    <3>3. Len(chain) = length
      BY <2>1
    <3>4. QED
      BY ONLY <2>3, <3>2, <3>3 DEF PutAt
  <2>5. Once(chain')
    <3>1. \A j \in 1 .. length : chain[j] # n
      BY <2>1, FreshIsNew
    <3>2. \A j, k \in 1 .. length : chain[j] = chain[k] => j = k
      BY <2>1 DEF ListInv, Once
    <3> DEFINE from(j) == IF j < p THEN j ELSE j - 1
    <3>3. \A j \in 1 .. length + 1 :
            j # p => from(j) \in 1 .. length /\ chain'[j] = chain[from(j)]
      BY <2>1, <2>2, <2>4
    <3>4. chain'[p] = n
      BY <2>1, <2>2, <2>4
    <3>5. \A j, k \in 1 .. length + 1 : j # p /\ k # p /\ from(j) = from(k) => j = k
      BY <2>1, <2>2
    <3> HIDE DEF from
    <3>6. ASSUME NEW j \in 1 .. length + 1, NEW k \in 1 .. length + 1, chain'[j] = chain'[k]
          PROVE  j = k
      <4>1. CASE j # p /\ k # p
        <5>1. from(j) = from(k)
          BY <3>2, <3>3, <3>6, <4>1
        <5>2. QED
          BY <3>5, <4>1, <5>1
      <4>2. CASE j = p \/ k = p
        BY <3>1, <3>3, <3>4, <3>6, <4>2
      <4>3. QED
        BY <4>1, <4>2
    <3>7. QED
      BY <2>4, <3>6 DEF Once
  <2>6. chain'[length + 1] = last
    <3>1. length + 1 \in 1 .. length + 1 /\ ~(length + 1 < p) /\ length + 1 # p /\ (length + 1) - 1 = length
          /\ length # 0
      BY <2>1, <2>2
    <3>2. QED
      BY <2>1, <2>4, <3>1
  <2>7. chain' # <<>>
    BY <2>1, <2>4, EmptySeq
  <2>8. QED
    BY <1>2, <2>4, <2>5, <2>6, <2>7 DEF ListInv
<1>3. QED
  BY <1>1, <1>2 DEF AddAtIndex

LEMMA NodeDeleted ==
  ASSUME ListInv, NEW index \in Int, DeleteAtIndex(index) PROVE ListInv'
<1>1. /\ chain \in Seq(ListNodes) /\ length = Len(chain) /\ length \in Nat
      /\ index >= 0 /\ index < length /\ length' = length - 1
      /\ chain' = RemoveAt(chain, index + 1)
      /\ last' = IF length' = 0 THEN none
                 ELSE IF index > 0 /\ index = length' THEN chain[index] ELSE last
      /\ chain[length] = last
  BY LastTells DEF ListInv, DeleteAtIndex
<1> DEFINE p == index + 1
<1>2. p \in 1 .. length /\ p \in Nat /\ index = p - 1
  BY <1>1
<1> HIDE DEF p
<1>3. chain' = RemoveAt(chain, p)
  BY <1>1 DEF p
<1>4. /\ chain' \in Seq(ListNodes) /\ Len(chain') = length - 1
      /\ \A j \in 1 .. length - 1 : chain'[j] = IF j < p THEN chain[j] ELSE chain[j + 1]
  <2>1. p \in 1 .. Len(chain)
    BY <1>1, <1>2
  <2>2. /\ RemoveAt(chain, p) \in Seq(ListNodes)
        /\ Len(RemoveAt(chain, p)) = Len(chain) - 1
        /\ \A j \in 1 .. Len(chain) - 1 :
             RemoveAt(chain, p)[j] = IF j < p THEN chain[j] ELSE chain[j + 1]
    BY <1>1, <2>1, TakenOut
  <2>3. QED
    BY <1>1, <1>3, <2>2
<1>5. Once(chain')
  <2>1. \A j, k \in 1 .. length : chain[j] = chain[k] => j = k
    BY <1>1 DEF ListInv, Once
  <2> DEFINE from(j) == IF j < p THEN j ELSE j + 1
  <2>2. \A j \in 1 .. length - 1 : from(j) \in 1 .. length /\ chain'[j] = chain[from(j)]
    BY <1>1, <1>2, <1>4
  <2>3. \A j, k \in 1 .. length - 1 : from(j) = from(k) => j = k
    BY <1>1, <1>2
  <2> HIDE DEF from
  <2>4. QED
    BY <1>4, <2>1, <2>2, <2>3 DEF Once
<1>6. CASE length - 1 = 0
  <2>1. chain' = <<>>
    BY <1>4, <1>6, EmptySeq
  <2>2. QED
    BY <1>1, <1>4, <1>5, <1>6, <2>1 DEF ListInv
<1>7. CASE length - 1 # 0
  <2>1. chain' # <<>>
    BY <1>1, <1>4, <1>7, EmptySeq
  <2>2. length - 1 \in 1 .. length - 1 /\ (length - 1) + 1 = length
    BY <1>1, <1>7
  <2>3. last' = chain'[length - 1]
    <3>1. CASE p = length
      <4>1. index > 0 /\ index = length' /\ length' # 0
        BY <1>1, <1>2, <1>7, <3>1
      <4>2. last' = chain[length - 1] /\ length - 1 < p
        BY <1>1, <4>1, <3>1
      <4>3. QED
        BY <1>4, <2>2, <4>2
    <3>2. CASE p # length
      <4>1. ~(index > 0 /\ index = length') /\ ~(length - 1 < p)
        BY <1>1, <1>2, <3>2
      <4>2. last' = last
        BY <1>1, <1>7, <4>1
      <4>3. QED
        BY <1>1, <1>4, <2>2, <4>1, <4>2
    <3>3. QED
      BY <3>1, <3>2
  <2>4. QED
    BY <1>1, <1>4, <1>5, <2>1, <2>3 DEF ListInv
<1>8. QED
  BY <1>6, <1>7

(* tail points to the last node and size counts the nodes, whatever is put *)
(* in and taken out (LinkedList.cpp:396-485).                              *)
THEOREM ListKeepsTail == ListSpec => []TailIsLast
<1>1. ListInit => ListInv
  <2>1. <<>> \in Seq(ListNodes) /\ Len(<<>>) = 0
    OBVIOUS
  <2>2. QED
    BY <2>1 DEF ListInit, ListInv, Once
<1>2. ListInv /\ [ListNext]_listVars => ListInv'
  <2>1. SUFFICES ASSUME ListInv, [ListNext]_listVars PROVE ListInv'
    OBVIOUS
  <2>2. CASE UNCHANGED listVars
    BY <2>1, <2>2 DEF listVars, ListInv, Once
  <2>3. ASSUME NEW n \in ListNodes, NEW index \in -1 .. length, Fresh(n),
               AddAtHead(n) \/ AddAtTail(n) \/ AddAtIndex(index, n)
        PROVE  ListInv'
    <3>1. index \in Int
      BY <2>3
    <3>2. QED
      BY <2>1, <2>3, <3>1, HeadAdded, TailAdded, MiddleAdded
  <2>4. ASSUME NEW index \in 0 .. length - 1, DeleteAtIndex(index) PROVE ListInv'
    BY <2>1, <2>4, LastTells, NodeDeleted
  <2>5. QED
    BY <2>1, <2>2, <2>3, <2>4 DEF ListNext
<1>3. ListInv => TailIsLast
  BY DEF ListInv, TailIsLast, Last
<1>4. QED
  BY <1>1, <1>2, <1>3, PTL DEF ListSpec
-----------------------------------------------------------------------------
(***************************************************************************)
(* LRUCache of module LinkedDesigns, until the prev of an old head is used. *)
(***************************************************************************)

(* nx and pv link the nodes of s both ways, but for the prev of those in S. *)
LinkedButFor(S, s, nx, pv) ==
  \A i \in 1 .. Len(s) :
    /\ nx[s[i]] = IF i = Len(s) THEN null ELSE s[i + 1]
    /\ pv[s[i]] = IF i = 1 \/ s[i] \in S THEN null ELSE s[i - 1]

Members(s) == {s[i] : i \in 1 .. Len(s)}

CacheListed ==
  /\ recent \in Seq(CacheKeys) /\ Once(recent)
  /\ mp = Members(recent) /\ IsFiniteSet(mp) /\ Cardinality(mp) = Len(recent)
  /\ Len(recent) <= cp /\ ~crashed
  /\ head = IF recent = <<>> THEN null ELSE recent[1]
  /\ tail = IF recent = <<>> THEN null ELSE recent[Len(recent)]
  /\ next \in [CacheKeys -> CacheKeys \cup {null}]
  /\ prev \in [CacheKeys -> CacheKeys \cup {null}]
  /\ stale \subseteq mp /\ head \notin stale
  /\ LinkedButFor(stale, recent, next, prev)

CacheInv == followed \in BOOLEAN /\ (~followed => CacheListed)

(* In a sequence without repetitions what RemoveFirst takes out is the one *)
(* place of its element.                                                   *)
LEMMA TakenOnce ==
  ASSUME NEW S, NEW s \in Seq(S), Once(s), NEW i \in 1 .. Len(s)
  PROVE  RemoveFirst(s, s[i]) = RemoveAt(s, i)
<1> DEFINE I == {j \in 1 .. Len(s) : s[j] = s[i]}
<1>1. I = {i}
  BY DEF Once
<1>2. Min({i}) = i
  <2>1. i \in Nat
    OBVIOUS
  <2>2. \E x \in {i} : \A y \in {i} : x <= y
    BY <2>1
  <2>3. QED
    BY <2>2 DEF Min
<1>3. SelectInSeq(s, LAMBDA v : v = s[i]) = IF I # {} THEN Min(I) ELSE 0
  BY DEF SelectInSeq
<1>4. SelectInSeq(s, LAMBDA v : v = s[i]) = i
  BY <1>1, <1>2, <1>3
<1>5. QED
  BY <1>4 DEF RemoveFirst

(* The sequence t is k and then s.                                         *)
LedBy(t, k, s) ==
  /\ Len(t) = Len(s) + 1 /\ t[1] = k
  /\ \A i \in 2 .. Len(s) + 1 : t[i] = s[i - 1]

LEMMA LedByIs ==
  ASSUME NEW S, NEW s \in Seq(S), NEW k \in S
  PROVE  <<k>> \o s \in Seq(S) /\ LedBy(<<k>> \o s, k, s)
<1>1. <<k>> \in Seq(S) /\ Len(<<k>>) = 1 /\ <<k>>[1] = k /\ Len(s) \in Nat
  OBVIOUS
<1>2. /\ <<k>> \o s \in Seq(S) /\ Len(<<k>> \o s) = Len(<<k>>) + Len(s)
      /\ \A i \in 1 .. Len(<<k>>) + Len(s) :
           (<<k>> \o s)[i] = IF i <= Len(<<k>>) THEN <<k>>[i] ELSE s[i - Len(<<k>>)]
  BY <1>1, ConcatProperties
<1>3. /\ <<k>> \o s \in Seq(S) /\ Len(<<k>> \o s) = Len(s) + 1
      /\ \A i \in 1 .. Len(s) + 1 :
           (<<k>> \o s)[i] = IF i <= 1 THEN k ELSE s[i - 1]
  BY <1>1, <1>2
<1> DEFINE t == <<k>> \o s
<1> HIDE DEF t
<1>4. /\ t \in Seq(S) /\ Len(t) = Len(s) + 1
      /\ \A i \in 1 .. Len(s) + 1 : t[i] = IF i <= 1 THEN k ELSE s[i - 1]
  BY <1>3 DEF t
<1>5. LedBy(t, k, s)
  BY <1>1, <1>4 DEF LedBy
<1>6. QED
  BY <1>4, <1>5 DEF t

(* Setting the key at the head changes nothing.                            *)
LEMMA SetHeadStep ==
  ASSUME CacheListed, NEW k \in CacheKeys, k \in mp, k = head, Update(k)
  PROVE  CacheListed' /\ followed' = followed
<1>1. /\ recent \in Seq(CacheKeys) /\ Once(recent) /\ Len(recent) \in Nat
      /\ recent # <<>> /\ Len(recent) # 0
  <2>1. recent \in Seq(CacheKeys) /\ Once(recent) /\ Len(recent) \in Nat /\ mp = Members(recent)
    BY DEF CacheListed
  <2>2. Len(recent) # 0
    BY <2>1 DEF Members
  <2>3. QED
    BY <2>1, <2>2, EmptySeq
<1>2. 1 \in 1 .. Len(recent) /\ k = recent[1]
  BY <1>1 DEF CacheListed
<1> DEFINE rest == RemoveFirst(recent, k)
           t == <<k>> \o rest
<1>3. rest = RemoveAt(recent, 1)
  BY <1>1, <1>2, TakenOnce
<1>4. /\ RemoveAt(recent, 1) \in Seq(CacheKeys) /\ Len(RemoveAt(recent, 1)) = Len(recent) - 1
      /\ \A j \in 1 .. Len(recent) - 1 :
           RemoveAt(recent, 1)[j] = IF j < 1 THEN recent[j] ELSE recent[j + 1]
  BY <1>1, <1>2, TakenOut
<1>5. /\ rest \in Seq(CacheKeys) /\ Len(rest) = Len(recent) - 1
      /\ \A j \in 1 .. Len(recent) - 1 : rest[j] = recent[j + 1]
  BY <1>3, <1>4
<1> HIDE DEF rest
<1>6. t \in Seq(CacheKeys) /\ LedBy(t, k, rest)
  BY <1>5, LedByIs
<1> HIDE DEF t
<1>7. Len(t) = Len(recent) /\ t[1] = k /\ \A j \in 2 .. Len(recent) : t[j] = rest[j - 1]
  BY <1>1, <1>5, <1>6 DEF LedBy
<1>8. ASSUME NEW j \in 1 .. Len(recent) PROVE t[j] = recent[j]
  <2>1. CASE j = 1
    BY <1>2, <1>7, <2>1
  <2>2. CASE j # 1
    <3>1. j \in 2 .. Len(recent) /\ j - 1 \in 1 .. Len(recent) - 1 /\ (j - 1) + 1 = j
      BY <1>1, <2>2
    <3>2. QED
      BY <1>5, <1>7, <3>1
  <2>3. QED
    BY <2>1, <2>2
<1>9. t = recent
  BY <1>1, <1>6, <1>7, <1>8, SeqEqual
<1>10. recent' = t
  BY DEF Update, Others, t, rest
<1>11. /\ recent' = recent /\ mp' = mp /\ crashed' = crashed /\ head' = head
       /\ tail' = tail /\ next' = next /\ prev' = prev /\ stale' = stale /\ followed' = followed
  <2>1. recent' = recent
    BY <1>9, <1>10
  <2>2. UNCHANGED <<head, tail, next, prev, stale, followed>> /\ UNCHANGED <<mp, crashed>>
    BY DEF Update
  <2>3. QED
    BY <2>1, <2>2
<1>12. Once(recent)' /\ (mp = Members(recent))' /\ LinkedButFor(stale, recent, next, prev)'
  <2>1. Once(recent) /\ mp = Members(recent) /\ LinkedButFor(stale, recent, next, prev)
    BY DEF CacheListed
  <2>2. Once(recent)'
    BY <1>11, <2>1 DEF Once
  <2>3. (mp = Members(recent))'
    BY <1>11, <2>1 DEF Members
  <2>4. LinkedButFor(stale, recent, next, prev)'
    BY <1>11, <2>1 DEF LinkedButFor
  <2>5. QED
    BY <2>2, <2>3, <2>4
<1>13. QED
  BY <1>11, <1>12 DEF CacheListed

(* A node linked in at the head.                                           *)
LEMMA NewIsLinked ==
  ASSUME CacheListed, NEW k \in CacheKeys, k \notin mp,
         NEW t, t \in Seq(CacheKeys), LedBy(t, k, recent)
  PROVE  /\ Once(t) /\ LinkedButFor(stale, t, Linked(k).n, Linked(k).p)
         /\ Linked(k).n \in [CacheKeys -> CacheKeys \cup {null}]
         /\ Linked(k).p \in [CacheKeys -> CacheKeys \cup {null}]
         /\ Members(t) = mp \cup {k}
         /\ t[Len(t)] = IF tail = null THEN k ELSE tail
<1> DEFINE L == Len(recent)
           nx == Linked(k).n
           pv == Linked(k).p
<1>1. /\ recent \in Seq(CacheKeys) /\ L \in Nat /\ mp = Members(recent)
      /\ \A i, j \in 1 .. L : recent[i] = recent[j] => i = j
      /\ null \notin CacheKeys
      /\ next \in [CacheKeys -> CacheKeys \cup {null}]
      /\ prev \in [CacheKeys -> CacheKeys \cup {null}]
  BY CacheAssumption DEF CacheListed, Once
<1>2. \A i \in 1 .. L : recent[i] \in CacheKeys /\ recent[i] # k
  BY <1>1, ElementOfSeq DEF Members
<1>3. /\ Len(t) = L + 1 /\ t[1] = k
      /\ \A i \in 2 .. L + 1 : t[i] = recent[i - 1]
  BY DEF LedBy
<1>4. \A i \in 1 .. L : /\ next[recent[i]] = IF i = L THEN null ELSE recent[i + 1]
                        /\ prev[recent[i]] = IF i = 1 \/ recent[i] \in stale THEN null ELSE recent[i - 1]
  BY DEF CacheListed, LinkedButFor
<1>5. L = 0 => head = null /\ tail = null
  BY <1>1, EmptySeq DEF CacheListed
<1>6. L # 0 => 1 \in 1 .. L /\ L \in 1 .. L /\ head = recent[1] /\ tail = recent[L]
  BY <1>1, EmptySeq DEF CacheListed
<1>7. L # 0 => head \in CacheKeys /\ tail \in CacheKeys /\ head # null /\ tail # null /\ head # k
  BY <1>1, <1>2, <1>6
<1>8. nx = [next EXCEPT ![k] = head]
  BY DEF Linked
<1>9. pv = IF tail # null /\ head # null
           THEN [prev EXCEPT ![k] = null, ![head] = k] ELSE [prev EXCEPT ![k] = null]
  BY DEF Linked
<1> HIDE DEF nx, pv, L
<1>10. head \in CacheKeys \cup {null}
  BY <1>5, <1>7
<1>11. nx \in [CacheKeys -> CacheKeys \cup {null}] /\ pv \in [CacheKeys -> CacheKeys \cup {null}]
  BY <1>1, <1>8, <1>9, <1>10
<1>12. nx[k] = head /\ \A j \in CacheKeys : j # k => nx[j] = next[j]
  BY <1>1, <1>8
<1>13. L # 0 => /\ pv[k] = null /\ pv[head] = k
                /\ \A j \in CacheKeys : j # k /\ j # head => pv[j] = prev[j]
  BY <1>1, <1>7, <1>9
<1>14. L = 0 => pv[k] = null
  BY <1>1, <1>5, <1>9
<1>15. ASSUME NEW i \in 1 .. L + 1
       PROVE  /\ nx[t[i]] = IF i = L + 1 THEN null ELSE t[i + 1]
              /\ pv[t[i]] = IF i = 1 \/ t[i] \in stale THEN null ELSE t[i - 1]
  <2>1. CASE i = 1
    <3>1. pv[t[i]] = null
      BY <1>3, <1>13, <1>14, <2>1
    <3>2. nx[t[i]] = head
      BY <1>3, <1>12, <2>1
    <3>3. L # 0 => t[i + 1] = head /\ i # L + 1
      <4>1. L # 0 => 2 \in 2 .. L + 1 /\ 1 # L + 1
        BY <1>1
      <4>2. t[1 + 1] = t[2] /\ 2 - 1 = 1
        OBVIOUS
      <4>3. QED
        BY <1>3, <1>6, <2>1, <4>1, <4>2
    <3>4. L = 0 => i = L + 1 /\ head = null
      BY <1>5, <2>1
    <3>5. QED
      BY <2>1, <3>1, <3>2, <3>3, <3>4
  <2>2. CASE i # 1
    <3> DEFINE j == i - 1
    <3>1. j \in 1 .. L /\ i \in 2 .. L + 1 /\ L # 0 /\ (i = L + 1 <=> j = L) /\ i = j + 1
      BY <1>1, <2>2
    <3> HIDE DEF j
    <3>2. t[i] = recent[j] /\ recent[j] \in CacheKeys /\ recent[j] # k
      BY <1>2, <1>3, <3>1 DEF j
    <3>3. nx[t[i]] = IF j = L THEN null ELSE recent[j + 1]
      BY <1>4, <1>12, <3>1, <3>2
    <3>4. j # L => t[i + 1] = recent[j + 1]
      <4>1. j # L => i + 1 \in 2 .. L + 1 /\ (i + 1) - 1 = j + 1
        BY <1>1, <3>1
      <4>2. QED
        BY <1>3, <4>1
    <3>5. pv[t[i]] = IF t[i] \in stale THEN null ELSE t[i - 1]
      <4>1. CASE j = 1
        <5>1. t[i] = head /\ t[i - 1] = k
          BY <1>3, <1>6, <3>1, <3>2, <4>1
        <5>2. head \notin stale
          BY DEF CacheListed
        <5>3. QED
          BY <1>13, <3>1, <5>1, <5>2
      <4>2. CASE j # 1
        <5>1. recent[j] # head
          BY <1>1, <1>6, <3>1, <4>2
        <5>2. pv[t[i]] = prev[recent[j]]
          BY <1>13, <3>1, <3>2, <5>1
        <5>3. prev[recent[j]] = IF recent[j] \in stale THEN null ELSE recent[j - 1]
          BY <1>4, <3>1, <4>2
        <5>4. j \in 2 .. L + 1 /\ i - 1 = j
          BY <1>1, <3>1, <4>2
        <5>5. t[j] = recent[j - 1]
          BY <1>3, <5>4
        <5>6. QED
          BY <3>2, <5>2, <5>3, <5>4, <5>5
      <4>3. QED
        BY <4>1, <4>2
    <3>6. QED
      BY <2>2, <3>1, <3>3, <3>4, <3>5
  <2>3. QED
    BY <2>1, <2>2
<1>16. LinkedButFor(stale, t, nx, pv)
  BY <1>3, <1>15 DEF LinkedButFor
<1>17. Once(t)
  <2>1. SUFFICES ASSUME NEW i \in 1 .. L + 1, NEW j \in 1 .. L + 1, t[i] = t[j] PROVE i = j
    BY <1>3 DEF Once
  <2>2. i # 1 => i \in 2 .. L + 1 /\ i - 1 \in 1 .. L
    BY <1>1
  <2>3. j # 1 => j \in 2 .. L + 1 /\ j - 1 \in 1 .. L
    BY <1>1
  <2>4. CASE i # 1 /\ j # 1
    <3>1. i - 1 = j - 1
      BY <1>1, <1>3, <2>1, <2>2, <2>3, <2>4
    <3>2. QED
      BY <3>1
  <2>5. CASE i = 1 \/ j = 1
    BY <1>2, <1>3, <2>1, <2>2, <2>3, <2>5
  <2>6. QED
    BY <2>4, <2>5
<1>18. Members(t) = mp \cup {k}
  <2>1. ASSUME NEW i \in 1 .. L + 1 PROVE t[i] \in mp \cup {k}
    <3>1. i # 1 => i \in 2 .. L + 1 /\ i - 1 \in 1 .. L
      BY <1>1
    <3>2. QED
      BY <1>1, <1>3, <3>1 DEF Members, L
  <2>2. ASSUME NEW x \in mp PROVE \E i \in 1 .. L + 1 : t[i] = x
    <3>1. PICK i \in 1 .. L : x = recent[i]
      BY <1>1 DEF Members, L
    <3>2. i + 1 \in 2 .. L + 1 /\ (i + 1) - 1 = i /\ i + 1 \in 1 .. L + 1
      BY <1>1
    <3>3. QED
      BY <1>3, <3>1, <3>2
  <2>3. 1 \in 1 .. L + 1
    BY <1>1
  <2>4. QED
    BY <1>3, <2>1, <2>2, <2>3 DEF Members
<1>19. t[Len(t)] = IF tail = null THEN k ELSE tail
  <2>1. CASE L = 0
    BY <1>3, <1>5, <2>1
  <2>2. CASE L # 0
    <3>1. L + 1 \in 2 .. L + 1 /\ (L + 1) - 1 = L
      BY <1>1, <2>2
    <3>2. QED
      BY <1>3, <1>6, <1>7, <2>2, <3>1
  <2>3. QED
    BY <2>1, <2>2
<1>20. QED
  BY <1>11, <1>16, <1>17, <1>18, <1>19 DEF nx, pv

(* The new key is put at the head; if the cache is full the last is taken  *)
(* off.                                                                    *)
LEMMA SetNewStep ==
  ASSUME CacheListed, NEW k \in CacheKeys, k \notin mp, SetNew(k), ~followed'
  PROVE  CacheListed'
<1> DEFINE L == Len(recent)
           t == <<k>> \o recent
           nx == Linked(k).n
           pv == Linked(k).p
           end == IF tail = null THEN k ELSE tail
           before == pv[end]
<1>1. /\ recent \in Seq(CacheKeys) /\ L \in Nat /\ mp = Members(recent) /\ ~crashed
      /\ IsFiniteSet(mp) /\ Cardinality(mp) = L /\ L <= cp /\ cp \in Nat \ {0}
      /\ null \notin CacheKeys /\ stale \subseteq mp
  BY CacheAssumption DEF CacheListed
<1>2. t \in Seq(CacheKeys) /\ LedBy(t, k, recent)
  BY <1>1, LedByIs
<1>3. /\ head' = k
      /\ IF Cardinality(mp \cup {k}) <= cp
         THEN /\ mp' = mp \cup {k} /\ tail' = end
              /\ next' = nx /\ prev' = pv /\ recent' = t /\ crashed' = crashed
              /\ stale' = stale
         ELSE /\ mp' = (mp \cup {k}) \ {end} /\ tail' = before
              /\ next' = IF before = null THEN nx ELSE [nx EXCEPT ![before] = null]
              /\ prev' = pv
              /\ recent' = RemoveFirst(t, end)
              /\ crashed' = (before = null)
              /\ stale' = stale \ {end} /\ followed' = (followed \/ end \in stale)
  BY DEF SetNew
<1>4. /\ Once(t) /\ LinkedButFor(stale, t, nx, pv)
      /\ nx \in [CacheKeys -> CacheKeys \cup {null}]
      /\ pv \in [CacheKeys -> CacheKeys \cup {null}]
      /\ Members(t) = mp \cup {k}
      /\ t[Len(t)] = end
  BY <1>2, NewIsLinked
<1> HIDE DEF t, nx, pv, end
<1>5. Len(t) = L + 1 /\ t[1] = k /\ t # <<>>
  BY <1>1, <1>2, EmptySeq DEF LedBy
<1>6. IsFiniteSet(mp \cup {k}) /\ Cardinality(mp \cup {k}) = L + 1
  BY <1>1, FS_AddElement
<1> HIDE DEF L
<1>7. CASE L + 1 <= cp
  <2>1. /\ mp' = Members(t) /\ tail' = t[Len(t)] /\ next' = nx /\ prev' = pv
        /\ recent' = t /\ crashed' = crashed /\ stale' = stale
    BY <1>3, <1>4, <1>6, <1>7
  <2>2. Once(recent)' /\ (mp = Members(recent))'
    BY <1>4, <2>1 DEF Once, Members
  <2>3. LinkedButFor(stale, recent, next, prev)'
    BY <1>4, <2>1 DEF LinkedButFor
  <2>4. /\ (recent \in Seq(CacheKeys))' /\ Len(recent') = L + 1 /\ L + 1 <= cp
        /\ IsFiniteSet(mp') /\ Cardinality(mp') = L + 1
    BY <1>2, <1>4, <1>5, <1>6, <1>7, <2>1
  <2>5. /\ head' = IF recent' = <<>> THEN null ELSE recent'[1]
        /\ tail' = IF recent' = <<>> THEN null ELSE recent'[Len(recent')]
    BY <1>3, <1>5, <2>1
  <2>6. /\ next' \in [CacheKeys -> CacheKeys \cup {null}]
        /\ prev' \in [CacheKeys -> CacheKeys \cup {null}] /\ ~crashed'
    BY <1>1, <1>4, <2>1
  <2>7. stale' \subseteq mp' /\ head' \notin stale'
    BY <1>1, <1>3, <1>4, <2>1
  <2>8. QED
    BY <1>3, <2>2, <2>3, <2>4, <2>5, <2>6, <2>7 DEF CacheListed
<1>8. CASE ~(L + 1 <= cp)
  <2>1. L >= 1 /\ L = cp /\ L \in 1 .. L + 1 /\ L + 1 \in 1 .. L + 1 /\ L + 1 # 1 /\ (L + 1) - 1 = L
    BY <1>1, <1>8 DEF L
  <2>2. \A i \in 1 .. L + 1 : t[i] \in CacheKeys
    BY <1>2, <1>5, ElementOfSeq
  <2>3. \A i \in 1 .. L + 1 : /\ nx[t[i]] = IF i = L + 1 THEN null ELSE t[i + 1]
                              /\ pv[t[i]] = IF i = 1 \/ t[i] \in stale THEN null ELSE t[i - 1]
    BY <1>4, <1>5 DEF LinkedButFor
  <2>3a. end \notin stale
    BY <1>3, <1>6, <1>8
  <2>4. before = t[L] /\ t[L] \in CacheKeys /\ t[L] # null
    BY <1>1, <1>4, <1>5, <2>1, <2>2, <2>3, <2>3a
  <2> HIDE DEF before
  <2>5. /\ mp' = (mp \cup {k}) \ {end} /\ tail' = t[L] /\ next' = [nx EXCEPT ![t[L]] = null]
        /\ prev' = pv /\ recent' = RemoveFirst(t, end) /\ ~crashed' /\ stale' = stale
    BY <1>3, <1>6, <1>8, <2>3a, <2>4
  <2>6. L + 1 \in 1 .. Len(t) /\ end = t[L + 1]
    BY <1>4, <1>5, <2>1
  <2>7. RemoveFirst(t, t[L + 1]) = RemoveAt(t, L + 1)
    BY <1>2, <1>4, <2>6, TakenOnce
  <2>8. recent' = RemoveAt(t, L + 1)
    BY <2>5, <2>6, <2>7
  <2>9. /\ RemoveAt(t, L + 1) \in Seq(CacheKeys) /\ Len(RemoveAt(t, L + 1)) = Len(t) - 1
        /\ \A j \in 1 .. Len(t) - 1 :
             RemoveAt(t, L + 1)[j] = IF j < L + 1 THEN t[j] ELSE t[j + 1]
    BY <1>2, <2>6, TakenOut
  <2>10. Len(t) - 1 = L /\ \A j \in 1 .. L : j < L + 1 /\ j \in 1 .. L + 1 /\ j # L + 1
    BY <1>1, <1>5 DEF L
  <2>11. recent' \in Seq(CacheKeys) /\ Len(recent') = L /\ \A j \in 1 .. L : recent'[j] = t[j]
    BY <2>8, <2>9, <2>10
  <2>12. \A i, j \in 1 .. L + 1 : t[i] = t[j] => i = j
    BY <1>4, <1>5 DEF Once
  <2>13. Once(recent')
    BY <2>10, <2>11, <2>12 DEF Once
  <2>14. mp' = Members(recent')
    <3>1. mp' = Members(t) \ {t[L + 1]}
      BY <1>4, <2>5, <2>6
    <3>2. ASSUME NEW i \in 1 .. L + 1, t[i] # t[L + 1] PROVE i \in 1 .. L
      BY <2>1, <3>2
    <3>3. \A i \in 1 .. L : t[i] # t[L + 1]
      BY <2>1, <2>10, <2>12
    <3>4. QED
      BY <1>5, <2>10, <2>11, <3>1, <3>2, <3>3 DEF Members
  <2>15. IsFiniteSet(mp') /\ Cardinality(mp') = L
    <3>1. end \in mp \cup {k}
      BY <1>4, <1>5, <2>6 DEF Members
    <3>2. Cardinality(mp') = (L + 1) - 1
      BY <1>6, <2>5, <3>1, FS_RemoveElement
    <3>3. QED
      BY <1>6, <2>1, <2>5, <3>2, FS_RemoveElement
  <2>16. LinkedButFor(stale, recent', next', prev')
    <3>1. ASSUME NEW i \in 1 .. L
          PROVE  /\ next'[t[i]] = IF i = L THEN null ELSE recent'[i + 1]
                 /\ prev'[t[i]] = IF i = 1 \/ t[i] \in stale THEN null ELSE recent'[i - 1]
      <4>1. next'[t[i]] = IF i = L THEN null ELSE nx[t[i]]
        BY <1>4, <2>1, <2>2, <2>5, <2>10, <2>12
      <4>2. i # L => i + 1 \in 1 .. L
        BY <2>1
      <4>3. i # 1 => i - 1 \in 1 .. L
        BY <2>1
      <4>4. nx[t[i]] = t[i + 1] /\ pv[t[i]] = IF i = 1 \/ t[i] \in stale THEN null ELSE t[i - 1]
        BY <2>3, <2>10
      <4>5. QED
        BY <2>5, <2>11, <4>1, <4>2, <4>3, <4>4
    <3>2. QED
      BY <2>11, <3>1 DEF LinkedButFor
  <2>17. 1 \in 1 .. L /\ L \in 1 .. L /\ recent' # <<>>
    BY <2>1, <2>11, EmptySeq
  <2>18. /\ head' = IF recent' = <<>> THEN null ELSE recent'[1]
         /\ tail' = IF recent' = <<>> THEN null ELSE recent'[Len(recent')]
    BY <1>3, <1>5, <2>5, <2>11, <2>17
  <2>19. /\ next' \in [CacheKeys -> CacheKeys \cup {null}]
         /\ prev' \in [CacheKeys -> CacheKeys \cup {null}]
    BY <1>4, <2>5
  <2>20. (Once(recent) /\ mp = Members(recent) /\ LinkedButFor(stale, recent, next, prev))'
    BY <2>5, <2>13, <2>14, <2>16 DEF Once, Members, LinkedButFor
  <2>21. /\ (recent \in Seq(CacheKeys))' /\ Len(recent') <= cp /\ Cardinality(mp') = Len(recent')
    BY <1>1, <2>1, <2>11, <2>15
  <2>22. stale' \subseteq mp' /\ head' \notin stale'
    BY <1>1, <1>3, <2>3a, <2>5
  <2>23. QED
    BY <1>3, <2>5, <2>15, <2>18, <2>19, <2>20, <2>21, <2>22 DEF CacheListed
<1>9. QED
  BY <1>7, <1>8

(* A key that is not at the head and whose prev is right is set again: its *)
(* node goes to the head, whose prev is missing from then on.              *)
LEMMA UpdateStep ==
  ASSUME CacheListed, NEW k \in CacheKeys, k \in mp, k # head, Update(k), k \notin stale
  PROVE  CacheListed'
<1> DEFINE L == Len(recent)
           rest == RemoveFirst(recent, k)
           t == <<k>> \o rest
           S == (stale \ {k, next[k]}) \cup {head}
<1>1. /\ recent \in Seq(CacheKeys) /\ L \in Nat /\ mp = Members(recent) /\ ~crashed
      /\ IsFiniteSet(mp) /\ Cardinality(mp) = L /\ L <= cp
      /\ null \notin CacheKeys /\ stale \subseteq mp /\ head \notin stale
      /\ \A i, j \in 1 .. L : recent[i] = recent[j] => i = j
      /\ next \in [CacheKeys -> CacheKeys \cup {null}]
      /\ prev \in [CacheKeys -> CacheKeys \cup {null}]
  BY CacheAssumption DEF CacheListed, Once
<1>2. \A i \in 1 .. L : /\ next[recent[i]] = IF i = L THEN null ELSE recent[i + 1]
                        /\ prev[recent[i]] = IF i = 1 \/ recent[i] \in stale
                                             THEN null ELSE recent[i - 1]
  BY DEF CacheListed, LinkedButFor
<1>3. \A i \in 1 .. L : recent[i] \in CacheKeys /\ recent[i] # null
  BY <1>1, ElementOfSeq
<1>4. PICK p \in 1 .. L : recent[p] = k
  BY <1>1 DEF Members
<1>5. /\ L # 0 /\ 1 \in 1 .. L /\ L \in 1 .. L /\ recent # <<>>
      /\ head = recent[1] /\ tail = recent[L]
  BY <1>1, <1>4, EmptySeq DEF CacheListed
<1>6. p # 1 /\ p - 1 \in 1 .. L /\ p \in Nat /\ 2 <= p /\ p <= L
  BY <1>1, <1>4, <1>5
<1>7. rest = RemoveAt(recent, p)
  BY <1>1, <1>4, TakenOnce DEF Once
<1>8. /\ RemoveAt(recent, p) \in Seq(CacheKeys) /\ Len(RemoveAt(recent, p)) = L - 1
      /\ \A j \in 1 .. L - 1 :
           RemoveAt(recent, p)[j] = IF j < p THEN recent[j] ELSE recent[j + 1]
  BY <1>1, <1>4, TakenOut
<1>9. /\ head' = k /\ recent' = t /\ mp' = mp /\ crashed' = crashed
      /\ tail' = IF k = tail THEN prev[k] ELSE tail
      /\ next' = [NextWithout(k) EXCEPT ![k] = head]
      /\ prev' = [PrevWithout(k) EXCEPT ![k] = null]
      /\ stale' = S
  BY DEF Update, Others
<1> HIDE DEF L, rest, S
<1>10. t \in Seq(CacheKeys) /\ LedBy(t, k, rest)
  BY <1>7, <1>8, LedByIs
<1> HIDE DEF t
<1>11. /\ Len(t) = L /\ t[1] = k
       /\ \A i \in 2 .. L : t[i] = IF i <= p THEN recent[i - 1] ELSE recent[i]
  <2>1. Len(rest) = L - 1 /\ Len(t) = L /\ t[1] = k
    BY <1>1, <1>7, <1>8, <1>10 DEF LedBy
  <2>2. ASSUME NEW i \in 2 .. L PROVE t[i] = IF i <= p THEN recent[i - 1] ELSE recent[i]
    <3>1. i - 1 \in 1 .. L - 1 /\ (i - 1) + 1 = i /\ (i - 1 < p <=> i <= p)
      BY <1>1, <1>6
    <3>2. Len(rest) + 1 = L
      BY <1>1, <2>1
    <3>3. t[i] = rest[i - 1]
      BY <1>10, <3>2 DEF LedBy
    <3>4. QED
      BY <1>7, <1>8, <3>1, <3>3
  <2>3. QED
    BY <2>1, <2>2
(* The links that change. *)
<1>12. prev[k] = recent[p - 1] /\ next[k] = IF p = L THEN null ELSE recent[p + 1]
  BY <1>2, <1>4, <1>6
<1>13. recent[p - 1] \in CacheKeys /\ recent[p - 1] # k /\ recent[p - 1] # null
  BY <1>1, <1>3, <1>4, <1>6
<1>14. next' = [[next EXCEPT ![recent[p - 1]] = next[k]] EXCEPT ![k] = head]
  BY <1>9, <1>12, <1>13 DEF NextWithout
<1>15. next[k] \in CacheKeys \cup {null} /\ head \in CacheKeys
  BY <1>1, <1>3, <1>5
<1>16. /\ next' \in [CacheKeys -> CacheKeys \cup {null}]
       /\ next'[k] = head /\ next'[recent[p - 1]] = next[k]
       /\ \A x \in CacheKeys : x # k /\ x # recent[p - 1] => next'[x] = next[x]
  BY <1>1, <1>13, <1>14, <1>15
<1>17. p # L => p + 1 \in 1 .. L /\ next[k] = recent[p + 1] /\ next[k] # k /\ next[k] \in CacheKeys
  <2>1. p # L => p + 1 \in 1 .. L /\ p + 1 # p
    BY <1>1, <1>6
  <2>2. QED
    BY <1>1, <1>3, <1>4, <1>12, <2>1
<1>18. prev' = IF p # L THEN [[prev EXCEPT ![recent[p + 1]] = recent[p - 1]] EXCEPT ![k] = null]
               ELSE [prev EXCEPT ![k] = null]
  BY <1>3, <1>9, <1>12, <1>17 DEF PrevWithout
<1>19. /\ prev' \in [CacheKeys -> CacheKeys \cup {null}]
       /\ prev'[k] = null
       /\ p # L => prev'[recent[p + 1]] = recent[p - 1]
       /\ \A x \in CacheKeys : x # k /\ (p # L => x # recent[p + 1]) => prev'[x] = prev[x]
  <2>1. CASE p = L
    BY <1>1, <1>18, <2>1
  <2>2. CASE p # L
    <3>1. recent[p + 1] \in CacheKeys /\ recent[p + 1] # k
      BY <1>17, <2>2
    <3>2. prev' = [[prev EXCEPT ![recent[p + 1]] = recent[p - 1]] EXCEPT ![k] = null]
      BY <1>18, <2>2
    <3>3. QED
      BY <1>1, <1>13, <2>2, <3>1, <3>2
  <2>3. QED
    BY <2>1, <2>2
<1>20. ASSUME NEW i \in 1 .. L
       PROVE  /\ next'[t[i]] = IF i = L THEN null ELSE t[i + 1]
              /\ prev'[t[i]] = IF i = 1 \/ t[i] \in S THEN null ELSE t[i - 1]
  <2>1. CASE i = 1
    <3>1. 2 \in 2 .. L /\ 1 # L /\ 2 <= p /\ 2 - 1 = 1 /\ 1 + 1 = 2
      BY <1>1, <1>6
    <3>2. t[2] = recent[1]
      BY <1>11, <3>1
    <3>3. QED
      BY <1>5, <1>11, <1>16, <1>19, <2>1, <3>1, <3>2
  <2>2. CASE i # 1 /\ i <= p
    <3> DEFINE j == i - 1
    <3>1. /\ j \in 1 .. L /\ i \in 2 .. L /\ j # p /\ i = j + 1 /\ j + 1 \in 1 .. L
          /\ (p # L => j # p + 1) /\ j # L
      BY <1>1, <1>6, <2>2
    <3>2. t[i] = recent[j]
      BY <1>11, <2>2, <3>1
    <3> HIDE DEF j
    <3>3. recent[j] \in CacheKeys /\ recent[j] # k /\ (p # L => recent[j] # recent[p + 1])
      BY <1>1, <1>3, <1>4, <1>17, <3>1
    <3>4. next'[t[i]] = IF i = L THEN null ELSE t[i + 1]
      <4>1. CASE i = p
        <5>1. j = p - 1
          BY <3>1, <4>1, <1>6
        <5>2. p # L => p + 1 \in 2 .. L /\ ~(p + 1 <= p)
          BY <1>6, <1>17
        <5>3. p # L => t[p + 1] = recent[p + 1]
          BY <1>11, <5>2
        <5>4. QED
          BY <1>12, <1>16, <3>2, <4>1, <5>1, <5>3
      <4>2. CASE i # p
        <5>1. i + 1 \in 2 .. L /\ i + 1 <= p /\ (i + 1) - 1 = j + 1 /\ j # p - 1 /\ i # L
          BY <1>1, <1>6, <2>2, <3>1, <4>2
        <5>2. recent[j] # recent[p - 1]
          BY <1>1, <1>6, <3>1, <5>1
        <5>3. next'[t[i]] = recent[j + 1]
          BY <1>2, <1>16, <3>1, <3>2, <3>3, <5>2
        <5>4. t[i + 1] = recent[j + 1]
          BY <1>11, <5>1
        <5>5. QED
          BY <5>1, <5>3, <5>4
      <4>3. QED
        BY <4>1, <4>2
    <3>5. prev'[t[i]] = IF t[i] \in S THEN null ELSE t[i - 1]
      <4>1. prev'[t[i]] = IF j = 1 \/ recent[j] \in stale THEN null ELSE recent[j - 1]
        BY <1>2, <1>19, <3>1, <3>2, <3>3
      <4>2. CASE j = 1
        BY <1>5, <3>2, <4>1, <4>2 DEF S
      <4>3. CASE j # 1
        <5>1. recent[j] # head
          BY <1>1, <1>5, <3>1, <4>3
        <5>2. recent[j] # next[k]
          BY <1>1, <1>12, <3>3
        <5>3. recent[j] \in S <=> recent[j] \in stale
          BY <3>3, <5>1, <5>2 DEF S
        <5>4. i - 1 \in 2 .. L /\ i - 1 <= p /\ (i - 1) - 1 = j - 1
          BY <1>1, <1>6, <2>2, <3>1, <4>3
        <5>5. t[i - 1] = recent[j - 1]
          BY <1>11, <5>4
        <5>6. QED
          BY <3>2, <4>1, <4>3, <5>3, <5>5
      <4>4. QED
        BY <4>2, <4>3
    <3>6. QED
      BY <2>2, <3>4, <3>5
  <2>3. CASE ~(i <= p)
    <3>1. i \in 2 .. L /\ i # 1 /\ i # p /\ i # p - 1 /\ p # L
      BY <1>1, <1>6, <2>3
    <3>2. t[i] = recent[i] /\ recent[i] \in CacheKeys /\ recent[i] # k /\ recent[i] # recent[p - 1]
          /\ recent[i] # head
      BY <1>1, <1>3, <1>4, <1>5, <1>6, <1>11, <2>3, <3>1
    <3>3. next'[t[i]] = IF i = L THEN null ELSE t[i + 1]
      <4>1. i # L => i + 1 \in 2 .. L /\ ~(i + 1 <= p)
        BY <1>1, <1>6, <2>3
      <4>2. i # L => t[i + 1] = recent[i + 1]
        BY <1>11, <4>1
      <4>3. next'[t[i]] = next[recent[i]]
        BY <1>16, <3>2
      <4>4. QED
        BY <1>2, <4>2, <4>3
    <3>4. prev'[t[i]] = IF t[i] \in S THEN null ELSE t[i - 1]
      <4>1. CASE i = p + 1
        <5>1. recent[i] = next[k] /\ i - 1 = p /\ p \in 2 .. L /\ p <= p
          BY <1>1, <1>6, <1>17, <3>1, <4>1
        <5>2. t[i - 1] = recent[p - 1]
          BY <1>11, <5>1
        <5>3. recent[i] \notin S
          BY <3>2, <5>1 DEF S
        <5>4. QED
          BY <1>19, <3>1, <3>2, <4>1, <5>2, <5>3
      <4>2. CASE i # p + 1
        <5>1. recent[i] # recent[p + 1]
          BY <1>1, <1>17, <3>1, <4>2
        <5>2. recent[i] # next[k]
          BY <1>17, <3>1, <5>1
        <5>3. prev'[t[i]] = IF recent[i] \in stale THEN null ELSE recent[i - 1]
          BY <1>2, <1>19, <3>1, <3>2, <5>1
        <5>4. recent[i] \in S <=> recent[i] \in stale
          BY <3>2, <5>2 DEF S
        <5>5. i - 1 \in 2 .. L /\ ~(i - 1 <= p)
          BY <1>1, <1>6, <2>3, <4>2
        <5>6. t[i - 1] = recent[i - 1]
          BY <1>11, <5>5
        <5>7. QED
          BY <3>2, <5>3, <5>4, <5>6
      <4>3. QED
        BY <4>1, <4>2
    <3>5. QED
      BY <3>1, <3>3, <3>4
  <2>4. QED
    BY <2>1, <2>2, <2>3
<1>21. LinkedButFor(S, t, next', prev')
  BY <1>11, <1>20 DEF LinkedButFor
(* The same keys, in another order. *)
<1>22. Once(t)
  <2>1. SUFFICES ASSUME NEW i \in 1 .. L, NEW j \in 1 .. L, t[i] = t[j] PROVE i = j
    BY <1>11 DEF Once
  <2> DEFINE at(x) == IF x = 1 THEN p ELSE IF x <= p THEN x - 1 ELSE x
  <2>2. ASSUME NEW x \in 1 .. L PROVE at(x) \in 1 .. L /\ t[x] = recent[at(x)]
    <3>1. CASE x = 1
      BY <1>4, <1>11, <3>1
    <3>2. CASE x # 1
      <4>1. x \in 2 .. L /\ at(x) \in 1 .. L /\ at(x) = IF x <= p THEN x - 1 ELSE x
        BY <1>1, <1>6, <3>2
      <4>2. QED
        BY <1>11, <4>1
    <3>3. QED
      BY <3>1, <3>2
  <2>3. at(i) = at(j)
    BY <1>1, <2>1, <2>2
  <2>4. QED
    BY <1>1, <1>6, <2>3
<1>23. Members(t) = mp
  <2>1. ASSUME NEW x \in 1 .. L PROVE t[x] \in mp
    <3>1. CASE x = 1
      BY <1>11, <3>1
    <3>2. CASE x # 1
      <4>1. x \in 2 .. L /\ x - 1 \in 1 .. L
        BY <1>1, <3>2
      <4>2. t[x] = IF x <= p THEN recent[x - 1] ELSE recent[x]
        BY <1>11, <4>1
      <4>3. \A i \in 1 .. L : recent[i] \in mp
        BY <1>1 DEF Members, L
      <4>4. QED
        BY <4>1, <4>2, <4>3
    <3>3. QED
      BY <3>1, <3>2
  <2>2. ASSUME NEW x \in mp PROVE \E i \in 1 .. L : t[i] = x
    <3>1. PICK j \in 1 .. L : recent[j] = x
      BY <1>1 DEF Members, L
    <3>2. CASE j = p
      BY <1>4, <1>5, <1>11, <3>1, <3>2
    <3>3. CASE j < p
      <4>1. j + 1 \in 2 .. L /\ j + 1 <= p /\ (j + 1) - 1 = j /\ j + 1 \in 1 .. L
        BY <1>1, <1>6, <3>3
      <4>2. QED
        BY <1>11, <3>1, <4>1
    <3>4. CASE j > p
      <4>1. j \in 2 .. L /\ ~(j <= p)
        BY <1>1, <1>6, <3>4
      <4>2. QED
        BY <1>11, <3>1, <4>1
    <3>5. QED
      BY <1>1, <1>6, <3>2, <3>3, <3>4
  <2>3. QED
    BY <1>11, <2>1, <2>2 DEF Members
<1>24. tail' = t[L]
  <2>1. L \in 2 .. L
    BY <1>1, <1>6
  <2>2. CASE p = L
    BY <1>4, <1>5, <1>9, <1>11, <1>12, <2>1, <2>2
  <2>3. CASE p # L
    <3>1. ~(L <= p) /\ k # tail
      BY <1>1, <1>4, <1>5, <1>6, <2>3
    <3>2. QED
      BY <1>5, <1>9, <1>11, <2>1, <3>1
  <2>4. QED
    BY <2>2, <2>3
<1>25. S \subseteq mp /\ k \notin S
  <2>1. head \in mp
    BY <1>1, <1>5 DEF Members, L
  <2>2. QED
    BY <1>1, <2>1 DEF S
<1>26. (Once(recent) /\ mp = Members(recent) /\ LinkedButFor(stale, recent, next, prev))'
  BY <1>9, <1>21, <1>22, <1>23 DEF Once, Members, LinkedButFor
<1>27. /\ (recent \in Seq(CacheKeys))' /\ Len(recent') = L /\ recent' # <<>>
       /\ head' = recent'[1] /\ tail' = recent'[Len(recent')]
  BY <1>5, <1>9, <1>10, <1>11, <1>24, EmptySeq
<1>28. stale' \subseteq mp' /\ head' \notin stale'
  BY <1>9, <1>25
<1>29. IsFiniteSet(mp') /\ Cardinality(mp') = Len(recent') /\ Len(recent') <= cp /\ ~crashed'
  BY <1>1, <1>9, <1>27
<1>30. QED
  BY <1>16, <1>19, <1>26, <1>27, <1>28, <1>29 DEF CacheListed

(* What is wrong is at most the prev of an old head, until that is used: up *)
(* to then the list holds the keys in the order they were set and an       *)
(* eviction takes the last of them (HackerLRUCache.cpp:38-73).             *)
THEOREM CacheStaysLinked == CacheSpec => []LinkedButForOldHeads
<1>1. CacheInit => CacheInv
  <2>1. SUFFICES ASSUME CacheInit PROVE CacheInv
    OBVIOUS
  <2>2. <<>> \in Seq(CacheKeys) /\ Len(<<>>) = 0 /\ IsFiniteSet({}) /\ Cardinality({}) = 0
    BY FS_EmptySet
  <2>3. Members(recent) = {} /\ Once(recent) /\ LinkedButFor(stale, recent, next, prev)
    BY <2>1, <2>2 DEF CacheInit, Members, Once, LinkedButFor
  <2>4. CacheListed
    BY <2>1, <2>2, <2>3, CacheAssumption DEF CacheInit, CacheListed
  <2>5. QED
    BY <2>1, <2>4 DEF CacheInit, CacheInv
<1>2. CacheInv /\ [CacheNext]_cacheVars => CacheInv'
  <2>1. SUFFICES ASSUME CacheInv, [CacheNext]_cacheVars PROVE CacheInv'
    OBVIOUS
  <2>2. CASE UNCHANGED cacheVars
    <3>1. /\ recent' = recent /\ mp' = mp /\ crashed' = crashed /\ head' = head
          /\ tail' = tail /\ next' = next /\ prev' = prev /\ stale' = stale
          /\ followed' = followed
      BY <2>2 DEF cacheVars
    <3>2. CASE followed
      BY <2>1, <3>1, <3>2 DEF CacheInv
    <3>3. CASE ~followed
      <4>1. Once(recent) /\ mp = Members(recent) /\ LinkedButFor(stale, recent, next, prev) /\ CacheListed
        BY <2>1, <3>3 DEF CacheInv, CacheListed
      <4>2. Once(recent)'
        BY <3>1, <4>1 DEF Once
      <4>3. (mp = Members(recent))'
        BY <3>1, <4>1 DEF Members
      <4>4. LinkedButFor(stale, recent, next, prev)'
        BY <3>1, <4>1 DEF LinkedButFor
      <4>5. CacheListed'
        BY <3>1, <4>1, <4>2, <4>3, <4>4 DEF CacheListed
      <4>6. QED
        BY <2>1, <3>1, <4>5 DEF CacheInv
    <3>4. QED
      BY <2>1, <3>2, <3>3 DEF CacheInv
  <2>3. ASSUME NEW k \in CacheKeys, Set(k) PROVE CacheInv'
    <3>1. (k \in mp => Update(k)) /\ (k \notin mp => SetNew(k))
      BY <2>3 DEF Set
    <3>2. followed' \in BOOLEAN /\ (followed => followed')
      <4>1. followed' = followed \/ followed' = (followed \/ k \in stale)
            \/ \E x : followed' = (followed \/ x \in stale)
        BY <3>1 DEF Update, SetNew
      <4>2. QED
        BY <2>1, <4>1 DEF CacheInv
    <3>3. ASSUME ~followed' PROVE CacheListed'
      <4>1. CacheListed
        BY <2>1, <3>2, <3>3 DEF CacheInv
      <4>2. CASE k \notin mp
        BY <3>1, <3>3, <4>1, <4>2, SetNewStep
      <4>3. CASE k \in mp /\ k = head
        BY <3>1, <4>1, <4>3, SetHeadStep
      <4>4. CASE k \in mp /\ k # head
        <5>1. Update(k) /\ k \notin stale
          BY <3>1, <3>3, <4>4 DEF Update
        <5>2. QED
          BY <4>1, <4>4, <5>1, UpdateStep
      <4>5. QED
        BY <4>2, <4>3, <4>4
    <3>4. QED
      BY <3>2, <3>3 DEF CacheInv
  <2>4. QED
    BY <2>1, <2>2, <2>3 DEF CacheNext
<1>3. CacheInv => LinkedButForOldHeads
  BY DEF CacheInv, CacheListed, LinkedButForOldHeads, Members, LinkedButFor
<1>4. QED
  BY <1>1, <1>2, <1>3, PTL DEF CacheSpec
-----------------------------------------------------------------------------
(***************************************************************************)
(* MyHashSet and MyHashMap of module ClassDesigns: open addressing, of     *)
(* which the set keeps only the keys.                                      *)
(***************************************************************************)

(* The place FirstStop finds: 0, or the first of the path at a stop.       *)
LEMMA FirstStopIs ==
  ASSUME NEW k, NEW stops
  PROVE  \/ FirstStop(k, stops) = 0 /\ \A i \in 1 .. probes : Path(k)[i] \notin stops
         \/ /\ FirstStop(k, stops) \in 1 .. probes
            /\ Path(k)[FirstStop(k, stops)] \in stops
            /\ \A j \in 1 .. probes : Path(k)[j] \in stops => FirstStop(k, stops) <= j
<1> DEFINE at == {i \in 1 .. probes : Path(k)[i] \in stops}
<1>1. FirstStop(k, stops) = IF at = {} THEN 0 ELSE CHOOSE i \in at : \A j \in at : i <= j
  BY DEF FirstStop
<1>2. CASE at = {}
  BY <1>1, <1>2
<1>3. CASE at # {}
  <2>1. at \in SUBSET Nat
    OBVIOUS
  <2>2. \E i \in at : \A j \in at : i <= j
    BY <1>3, <2>1, LeastOf
  <2>3. FirstStop(k, stops) \in at /\ \A j \in at : FirstStop(k, stops) <= j
    BY <1>1, <1>3, <2>2
  <2>4. QED
    BY <2>3
<1>4. QED
  BY <1>2, <1>3

-----------------------------------------------------------------------------
(* Of a table by open addressing that never makes a slot empty again: the  *)
(* slots that are empty, those that hold a key, and the keys it stands     *)
(* for.  Every key is on its path before the first empty slot, once, and   *)
(* no other key is anywhere.                                               *)
Probed(empty, held, keys) ==
  /\ empty \subseteq SlotIndexes /\ held \in [Keys -> SUBSET SlotIndexes]
  /\ \A k \in Keys : held[k] \cap empty = {}
  /\ \A k, j \in Keys : k # j => held[k] \cap held[j] = {}
  /\ \A k \in Keys : \A s, t \in held[k] : s = t
  /\ \A k \in Keys : k \notin keys => held[k] = {}
  /\ \A k \in Keys : k \in keys =>
       \E i \in 1 .. probes :
         Path(k)[i] \in held[k] /\ \A j \in 1 .. i : Path(k)[j] \notin empty

(* The search stops at the key, if it is there.                            *)
LEMMA ProbeFinds ==
  ASSUME NEW empty, NEW held, NEW keys, Probed(empty, held, keys),
         NEW k \in Keys, k \in keys, NEW p, p = FirstStop(k, empty \cup held[k])
  PROVE  p \in 1 .. probes /\ Path(k)[p] \in held[k]
<1>1. PICK i \in 1 .. probes :
        Path(k)[i] \in held[k] /\ \A j \in 1 .. i : Path(k)[j] \notin empty
  BY DEF Probed
<1>2. /\ p \in 1 .. probes /\ Path(k)[p] \in empty \cup held[k]
      /\ \A j \in 1 .. probes : Path(k)[j] \in empty \cup held[k] => p <= j
  BY <1>1, FirstStopIs
<1>3. p \in 1 .. i
  BY <1>1, <1>2
<1>4. QED
  BY <1>1, <1>2, <1>3

(* It stops at an empty slot or nowhere, if the key is not there.          *)
LEMMA ProbeMisses ==
  ASSUME NEW empty, NEW held, NEW keys, Probed(empty, held, keys),
         NEW k \in Keys, k \notin keys, NEW p, p = FirstStop(k, empty \cup held[k])
  PROVE  /\ held[k] = {}
         /\ p # 0 => /\ p \in 1 .. probes /\ Path(k)[p] \in empty
                     /\ \A j \in 1 .. probes : Path(k)[j] \in empty => p <= j
<1>1. held[k] = {}
  BY DEF Probed
<1>2. QED
  BY <1>1, FirstStopIs

(* What puts a key where the search stops keeps the table in order.        *)
LEMMA ProbeAdds ==
  ASSUME NEW empty, NEW held, NEW keys, Probed(empty, held, keys), keys \subseteq Keys,
         NEW k \in Keys, FirstStop(k, empty \cup held[k]) # 0,
         NEW s, s = Path(k)[FirstStop(k, empty \cup held[k])]
  PROVE  Probed(empty \ {s}, [held EXCEPT ![k] = @ \cup {s}], keys \cup {k})
<1> DEFINE p == FirstStop(k, empty \cup held[k])
           after == [held EXCEPT ![k] = @ \cup {s}]
<1>0. held \in [Keys -> SUBSET SlotIndexes]
  BY DEF Probed
<1>1. CASE k \in keys
  <2>1. s \in held[k]
    BY <1>1, ProbeFinds
  <2>2. after = held /\ keys \cup {k} = keys /\ s \notin empty /\ empty \ {s} = empty
    BY <1>0, <1>1, <2>1 DEF Probed
  <2>3. QED
    BY <2>2
<1>2. CASE k \notin keys
  <2>1. /\ held[k] = {} /\ p \in 1 .. probes /\ s \in empty
        /\ \A j \in 1 .. probes : Path(k)[j] \in empty => p <= j
    BY <1>2, ProbeMisses
  <2>2. s = Path(k)[p]
    OBVIOUS
  <2> HIDE DEF p
  <2>3. after \in [Keys -> SUBSET SlotIndexes]
    BY <1>0, <2>1 DEF Probed
  <2>4. after[k] = {s} /\ \A j \in Keys : j # k => after[j] = held[j]
    BY <1>0, <2>1
  <2> HIDE DEF after
  <2>5. empty \ {s} \subseteq SlotIndexes
    BY DEF Probed
  <2>6. \A j \in Keys : after[j] \cap (empty \ {s}) = {}
    BY <2>4 DEF Probed
  <2>7. \A i, j \in Keys : i # j => after[i] \cap after[j] = {}
    BY <2>1, <2>4 DEF Probed
  <2>8. \A j \in Keys : \A t, u \in after[j] : t = u
    BY <2>4 DEF Probed
  <2>9. \A j \in Keys : j \notin keys \cup {k} => after[j] = {}
    BY <2>4 DEF Probed
  <2>10. ASSUME NEW j \in Keys, j \in keys \cup {k}
         PROVE  \E i \in 1 .. probes :
                  Path(j)[i] \in after[j] /\ \A h \in 1 .. i : Path(j)[h] \notin empty \ {s}
    <3>1. CASE j = k
      <4>1. ASSUME NEW h \in 1 .. p PROVE Path(k)[h] \notin empty \ {s}
        <5>1. p \in Nat /\ probes \in Nat /\ p <= probes
          BY <2>1, HashDesignAssumption
        <5>2. h \in 1 .. probes /\ (h < p \/ h = p)
          BY <5>1
        <5>4. h < p => Path(k)[h] \notin empty
          BY <2>1, <5>1, <5>2
        <5>3. QED
          BY <2>2, <5>2, <5>4
      <4>2. Path(k)[p] \in after[k]
        BY <2>2, <2>4
      <4>3. QED
        BY <2>1, <3>1, <4>1, <4>2
    <3>2. CASE j # k
      BY <2>4, <2>10, <3>2 DEF Probed
    <3>3. QED
      BY <3>1, <3>2
  <2> DEFINE without == empty \ {s}
             with == keys \cup {k}
  <2>11. \A j \in Keys : j \in with =>
           \E i \in 1 .. probes :
             Path(j)[i] \in after[j] /\ \A h \in 1 .. i : Path(j)[h] \notin without
    BY <2>10
  <2>12. /\ without \subseteq SlotIndexes
         /\ \A j \in Keys : after[j] \cap without = {}
         /\ \A j \in Keys : j \notin with => after[j] = {}
    BY <2>5, <2>6, <2>9
  <2> HIDE DEF without, with
  <2>13. Probed(without, after, with)
    BY <2>3, <2>7, <2>8, <2>11, <2>12 DEF Probed
  <2>14. QED
    BY <2>13 DEF without, with, after
<1>3. QED
  BY <1>1, <1>2

(* What makes the slot of a key a tomb keeps the table in order.           *)
LEMMA ProbeRemoves ==
  ASSUME NEW empty, NEW held, NEW keys, Probed(empty, held, keys), NEW k \in Keys
  PROVE  Probed(empty, [held EXCEPT ![k] = {}], keys \ {k})
<1> DEFINE after == [held EXCEPT ![k] = {}]
<1>1. held \in [Keys -> SUBSET SlotIndexes]
  BY DEF Probed
<1>2. after \in [Keys -> SUBSET SlotIndexes] /\ after[k] = {}
      /\ \A j \in Keys : j # k => after[j] = held[j]
  BY <1>1
<1> HIDE DEF after
<1>3. /\ empty \subseteq SlotIndexes
      /\ \A j \in Keys : after[j] \cap empty = {}
      /\ \A j, i \in Keys : j # i => after[j] \cap after[i] = {}
      /\ \A j \in Keys : \A s, t \in after[j] : s = t
      /\ \A j \in Keys : j \notin keys \ {k} => after[j] = {}
  BY <1>2 DEF Probed
<1>4. ASSUME NEW j \in Keys, j \in keys \ {k}
      PROVE  \E i \in 1 .. probes :
               Path(j)[i] \in after[j] /\ \A h \in 1 .. i : Path(j)[h] \notin empty
  BY <1>2, <1>4 DEF Probed
<1>5. QED
  BY <1>2, <1>3, <1>4 DEF Probed

-----------------------------------------------------------------------------
SetEmpty == {s \in SlotIndexes : setSlots[s] = Empty}
SetHeld == [k \in Keys |-> {s \in SlotIndexes : setSlots[s] = <<k>>}]

SetInv ==
  /\ members \subseteq Keys
  /\ setSlots \in [SlotIndexes -> {Empty, Gone} \cup {<<k>> : k \in Keys}]
  /\ Probed(SetEmpty, SetHeld, members)

(* Entries of slots differ.                                                *)
LEMMA EntriesDiffer ==
  /\ Empty # Gone
  /\ \A k \in Keys : <<k>> # Empty /\ <<k>> # Gone
  /\ \A k, j \in Keys : <<k>> = <<j>> => k = j
<1>1. Len(Empty) = 0 /\ Len(Gone) = 3
  BY DEF Empty, Gone
<1>2. ASSUME NEW k \in Keys PROVE <<k>> # Empty /\ <<k>> # Gone
  <2>1. Len(<<k>>) = 1
    OBVIOUS
  <2>2. QED
    BY <1>1, <2>1
<1>3. ASSUME NEW k \in Keys, NEW j \in Keys, <<k>> = <<j>> PROVE k = j
  <2>1. <<k>>[1] = k /\ <<j>>[1] = j
    OBVIOUS
  <2>2. QED
    BY <1>3, <2>1
<1>4. QED
  BY <1>1, <1>2, <1>3

LEMMA SetSearch ==
  ASSUME SetInv, NEW k \in Keys
  PROVE  /\ SetPlace(k) = FirstStop(k, SetEmpty \cup SetHeld[k])
         /\ SetContains(k) = (k \in members)
         /\ SetContains(k) => SetHeld[k] = {Path(k)[SetPlace(k)]}
<1>1. {s \in SlotIndexes : setSlots[s] \in {Empty, <<k>>}} = SetEmpty \cup SetHeld[k]
  BY DEF SetEmpty, SetHeld
<1>2. SetPlace(k) = FirstStop(k, SetEmpty \cup SetHeld[k])
  BY <1>1 DEF SetPlace
<1>3. CASE k \in members
  <2>1. SetPlace(k) \in 1 .. probes /\ Path(k)[SetPlace(k)] \in SetHeld[k]
    BY <1>2, <1>3, ProbeFinds DEF SetInv
  <2>2. \A s, t \in SetHeld[k] : s = t
    BY DEF SetInv, Probed
  <2>3. SetHeld[k] = {Path(k)[SetPlace(k)]}
    BY <2>1, <2>2
  <2>4. SetContains(k)
    BY <2>1 DEF SetContains, SetHeld
  <2>5. QED
    BY <1>2, <1>3, <2>3, <2>4
<1>4. CASE k \notin members
  <2>1. SetPlace(k) # 0 => Path(k)[SetPlace(k)] \in SetEmpty
    BY <1>2, <1>4, ProbeMisses DEF SetInv
  <2>2. SetPlace(k) # 0 => setSlots[Path(k)[SetPlace(k)]] = Empty
    BY <2>1 DEF SetEmpty
  <2>3. SetContains(k) = FALSE
    BY <2>2, EntriesDiffer DEF SetContains
  <2>4. (k \in members) = FALSE
    BY <1>4
  <2>5. SetContains(k) = (k \in members) /\ ~SetContains(k)
    BY ONLY <2>3, <2>4, Zenon
  <2>6. QED
    BY <1>2, <2>5
<1>5. QED
  BY <1>3, <1>4

LEMMA SetAddStep ==
  ASSUME SetInv, NEW k \in Keys, SetAdd(k) PROVE SetInv'
<1> DEFINE s == Path(k)[SetPlace(k)]
<1>1. /\ SetPlace(k) = FirstStop(k, SetEmpty \cup SetHeld[k]) /\ SetPlace(k) # 0
      /\ Probed(SetEmpty, SetHeld, members) /\ members \subseteq Keys
      /\ setSlots \in [SlotIndexes -> {Empty, Gone} \cup {<<j>> : j \in Keys}]
  BY SetSearch DEF SetInv, SetAdd
<1>2. s \in SetEmpty \cup SetHeld[k]
  BY <1>1, FirstStopIs
<1>3. s \in SlotIndexes /\ setSlots[s] \in {Empty, <<k>>}
  BY <1>2 DEF SetEmpty, SetHeld
<1>4. setSlots' = [setSlots EXCEPT ![s] = <<k>>] /\ members' = members \cup {k}
  BY DEF SetAdd
<1>5. Probed(SetEmpty \ {s}, [SetHeld EXCEPT ![k] = @ \cup {s}], members \cup {k})
  BY <1>1, ProbeAdds
<1> HIDE DEF s
<1>6. setSlots' \in [SlotIndexes -> {Empty, Gone} \cup {<<j>> : j \in Keys}]
  BY <1>1, <1>3, <1>4
<1>7. setSlots'[s] = <<k>> /\ \A t \in SlotIndexes : t # s => setSlots'[t] = setSlots[t]
  BY <1>1, <1>3, <1>4
<1>8. SetEmpty' = SetEmpty \ {s}
  BY <1>7, <1>3, EntriesDiffer DEF SetEmpty
<1>9. SetHeld' = [SetHeld EXCEPT ![k] = @ \cup {s}]
  <2>1. ASSUME NEW j \in Keys
        PROVE  {t \in SlotIndexes : setSlots'[t] = <<j>>}
               = IF j = k THEN SetHeld[k] \cup {s} ELSE SetHeld[j]
    <3>1. SetHeld[j] = {t \in SlotIndexes : setSlots[t] = <<j>>}
      BY DEF SetHeld
    <3>2. CASE j = k
      BY <1>3, <1>7, <3>1, <3>2
    <3>3. CASE j # k
      <4>1. setSlots[s] # <<j>> /\ setSlots'[s] # <<j>>
        BY <1>3, <1>7, <3>3, EntriesDiffer
      <4>2. QED
        BY <1>7, <3>1, <3>3, <4>1
    <3>4. QED
      BY <3>2, <3>3
  <2>2. SetHeld' = [j \in Keys |-> {t \in SlotIndexes : setSlots'[t] = <<j>>}]
    BY DEF SetHeld
  <2>4. DOMAIN SetHeld = Keys
    BY DEF SetHeld
  <2>5. [SetHeld EXCEPT ![k] = @ \cup {s}]
        = [j \in Keys |-> IF j = k THEN SetHeld[k] \cup {s} ELSE SetHeld[j]]
    BY ONLY <2>4
  <2>6. QED
    BY <2>1, <2>2, <2>5
<1>10. QED
  BY <1>1, <1>4, <1>5, <1>6, <1>8, <1>9 DEF SetInv

LEMMA SetRemoveStep ==
  ASSUME SetInv, NEW k \in Keys, SetRemove(k) PROVE SetInv'
<1>1. /\ Probed(SetEmpty, SetHeld, members) /\ members \subseteq Keys
      /\ setSlots \in [SlotIndexes -> {Empty, Gone} \cup {<<j>> : j \in Keys}]
      /\ members' = members \ {k}
  BY DEF SetInv, SetRemove
<1>2. ASSUME NEW t \in SlotIndexes
      PROVE  setSlots'[t] = IF t \in SetHeld[k] THEN Gone ELSE setSlots[t]
  <2>1. setSlots'[t] = IF SetContains(k) /\ t = Path(k)[SetPlace(k)] THEN Gone ELSE setSlots[t]
    BY DEF SetRemove
  <2>2. ~SetContains(k) => SetHeld[k] = {}
    BY <1>1, SetSearch DEF Probed
  <2>3. SetContains(k) => SetHeld[k] = {Path(k)[SetPlace(k)]}
    BY SetSearch
  <2>4. QED
    BY <2>1, <2>2, <2>3
<1>3. setSlots' \in [SlotIndexes -> {Empty, Gone} \cup {<<j>> : j \in Keys}]
  <2>1. DOMAIN setSlots' = SlotIndexes /\ setSlots' = [t \in SlotIndexes |-> setSlots'[t]]
    BY DEF SetRemove
  <2>2. \A t \in SlotIndexes : setSlots'[t] \in {Empty, Gone} \cup {<<j>> : j \in Keys}
    BY <1>1, <1>2
  <2>3. QED
    BY <2>1, <2>2
<1>4. SetEmpty' = SetEmpty
  <2>1. \A t \in SlotIndexes : setSlots'[t] = Empty <=> setSlots[t] = Empty
    BY <1>2, EntriesDiffer DEF SetHeld
  <2>2. QED
    BY <2>1 DEF SetEmpty
<1>5. SetHeld' = [SetHeld EXCEPT ![k] = {}]
  <2>1. ASSUME NEW j \in Keys
        PROVE  {t \in SlotIndexes : setSlots'[t] = <<j>>} = IF j = k THEN {} ELSE SetHeld[j]
    <3>1. /\ SetHeld[j] = {t \in SlotIndexes : setSlots[t] = <<j>>}
          /\ SetHeld[k] = {t \in SlotIndexes : setSlots[t] = <<k>>}
      BY DEF SetHeld
    <3>2. CASE j = k
      BY <1>2, <3>1, <3>2, EntriesDiffer
    <3>3. CASE j # k
      <4>1. \A t \in SetHeld[j] : t \notin SetHeld[k]
        BY <3>1, <3>3, EntriesDiffer
      <4>2. QED
        BY <1>2, <3>1, <3>3, <4>1, EntriesDiffer
    <3>4. QED
      BY <3>2, <3>3
  <2>2. SetHeld' = [j \in Keys |-> {t \in SlotIndexes : setSlots'[t] = <<j>>}]
    BY DEF SetHeld
  <2>3. SetHeld = [j \in Keys |-> SetHeld[j]]
    BY DEF SetHeld
  <2>4. QED
    BY <2>1, <2>2, <2>3
<1>6. Probed(SetEmpty, [SetHeld EXCEPT ![k] = {}], members \ {k})
  BY <1>1, ProbeRemoves
<1>7. QED
  BY <1>1, <1>3, <1>4, <1>5, <1>6 DEF SetInv

(* contains tells what was added and not removed, whatever else is on the  *)
(* same path (designHash.cpp:18-63).                                       *)
THEOREM HashSetTells == SetSpec => []SetTellsMembers
<1>1. SetInit => SetInv
  <2>1. SUFFICES ASSUME SetInit PROVE SetInv
    OBVIOUS
  <2>2. \A s \in SlotIndexes : setSlots[s] = Empty
    BY <2>1 DEF SetInit
  <2>3. SetEmpty = SlotIndexes
    BY <2>2 DEF SetEmpty
  <2>4. SetHeld = [k \in Keys |-> {}]
    BY <2>2, EntriesDiffer DEF SetHeld
  <2>5. Probed(SetEmpty, SetHeld, {})
    BY <2>3, <2>4 DEF Probed
  <2>6. QED
    BY <2>1, <2>5 DEF SetInit, SetInv
<1>2. SetInv /\ [SetNext]_hashSetVars => SetInv'
  <2>1. SUFFICES ASSUME SetInv, [SetNext]_hashSetVars PROVE SetInv'
    OBVIOUS
  <2>2. CASE UNCHANGED hashSetVars
    BY <2>1, <2>2 DEF hashSetVars, SetInv, SetEmpty, SetHeld
  <2>3. CASE SetNext
    BY <2>1, <2>3, SetAddStep, SetRemoveStep DEF SetNext
  <2>4. QED
    BY <2>1, <2>2, <2>3
<1>3. SetInv => SetTellsMembers
  BY SetSearch DEF SetTellsMembers
<1>4. QED
  BY <1>1, <1>2, <1>3, PTL DEF SetSpec

-----------------------------------------------------------------------------
MapEmpty == {s \in SlotIndexes : mapSlots[s] = Empty}
MapHeld == [k \in Keys |-> {s \in SlotIndexes : HoldsKey(s, k)}]

Pairs == {<<k, d>> : k \in Keys, d \in HashedData}

MapInv ==
  /\ DOMAIN mapped \subseteq Keys /\ \A k \in DOMAIN mapped : mapped[k] \in HashedData
  /\ mapSlots \in [SlotIndexes -> {Empty, Gone} \cup Pairs]
  /\ Probed(MapEmpty, MapHeld, DOMAIN mapped)
  /\ \A k \in DOMAIN mapped : \A s \in MapHeld[k] : mapSlots[s] = <<k, mapped[k]>>

(* Entries of the map's slots differ.                                      *)
LEMMA PairsDiffer ==
  /\ Empty # Gone
  /\ \A k \in Keys, d \in HashedData :
       <<k, d>> # Empty /\ <<k, d>> # Gone /\ <<k, d>>[2] = d
  /\ \A k, j \in Keys, d, e \in HashedData : <<k, d>> = <<j, e>> => k = j
<1>1. Len(Empty) = 0 /\ Len(Gone) = 3
  BY DEF Empty, Gone
<1>2. ASSUME NEW k \in Keys, NEW d \in HashedData
      PROVE  <<k, d>> # Empty /\ <<k, d>> # Gone /\ <<k, d>>[2] = d
  <2>1. Len(<<k, d>>) = 2
    OBVIOUS
  <2>2. QED
    BY <1>1, <2>1
<1>3. ASSUME NEW k \in Keys, NEW j \in Keys, NEW d \in HashedData, NEW e \in HashedData,
             <<k, d>> = <<j, e>>
      PROVE  k = j
  <2>1. <<k, d>>[1] = k /\ <<j, e>>[1] = j
    OBVIOUS
  <2>2. QED
    BY <1>3, <2>1
<1>4. QED
  BY <1>1, <1>2, <1>3

LEMMA MapSearch ==
  ASSUME MapInv, NEW k \in Keys
  PROVE  /\ MapPlace(k) = FirstStop(k, MapEmpty \cup MapHeld[k])
         /\ MapGet(k) = IF k \in DOMAIN mapped THEN mapped[k] ELSE -1
         /\ MapGet(k) # -1 <=> k \in DOMAIN mapped
         /\ k \in DOMAIN mapped => MapHeld[k] = {Path(k)[MapPlace(k)]}
<1> DEFINE s == Path(k)[MapPlace(k)]
<1>1. {t \in SlotIndexes : mapSlots[t] = Empty \/ HoldsKey(t, k)} = MapEmpty \cup MapHeld[k]
  BY DEF MapEmpty, MapHeld
<1>2. MapPlace(k) = FirstStop(k, MapEmpty \cup MapHeld[k])
  BY <1>1 DEF MapPlace
<1>3. CASE k \in DOMAIN mapped
  <2>1. MapPlace(k) \in 1 .. probes /\ s \in MapHeld[k]
    BY <1>2, <1>3, ProbeFinds DEF MapInv
  <2>2. \A t, u \in MapHeld[k] : t = u
    BY DEF MapInv, Probed
  <2>3. MapHeld[k] = {s}
    BY <2>1, <2>2
  <2>4. mapSlots[s] = <<k, mapped[k]>> /\ mapped[k] \in HashedData
    BY <1>3, <2>1 DEF MapInv
  <2>5. HoldsKey(s, k)
    BY <2>1 DEF MapHeld
  <2>6. MapPlace(k) # 0
    BY <2>1
  <2>7. MapGet(k) = mapSlots[s][2]
    BY <2>5, <2>6 DEF MapGet
  <2>8. MapGet(k) = mapped[k]
    BY <2>4, <2>7, PairsDiffer
  <2>9. mapped[k] # -1
    BY <2>4, HashDesignAssumption
  <2>10. QED
    BY <1>2, <1>3, <2>3, <2>8, <2>9
<1>4. CASE k \notin DOMAIN mapped
  <2>1. MapPlace(k) # 0 => s \in MapEmpty
    BY <1>2, <1>4, ProbeMisses DEF MapInv
  <2>2. MapPlace(k) # 0 => ~HoldsKey(s, k)
    BY <2>1, PairsDiffer DEF MapEmpty, HoldsKey
  <2>3. MapGet(k) = -1
    BY <2>2 DEF MapGet
  <2>4. QED
    BY <1>2, <1>4, <2>3
<1>5. QED
  BY <1>3, <1>4

(* HoldsKey, after the step.                                               *)
HeldThen(t, j) == mapSlots'[t] \in {<<j, d>> : d \in HashedData}

LEMMA MapPutStep ==
  ASSUME MapInv, NEW k \in Keys, NEW d \in HashedData, MapPut(k, d) PROVE MapInv'
<1> DEFINE s == Path(k)[MapPlace(k)]
<1>1. /\ MapPlace(k) = FirstStop(k, MapEmpty \cup MapHeld[k]) /\ MapPlace(k) # 0
      /\ Probed(MapEmpty, MapHeld, DOMAIN mapped) /\ DOMAIN mapped \subseteq Keys
      /\ mapSlots \in [SlotIndexes -> {Empty, Gone} \cup Pairs]
  BY MapSearch DEF MapInv, MapPut
<1>2. s \in MapEmpty \cup MapHeld[k]
  BY <1>1, FirstStopIs
<1>3. s \in SlotIndexes /\ (mapSlots[s] = Empty \/ HoldsKey(s, k))
  BY <1>2 DEF MapEmpty, MapHeld
<1>4. mapSlots' = [mapSlots EXCEPT ![s] = <<k, d>>]
  BY DEF MapPut
<1>5. /\ DOMAIN mapped' = DOMAIN mapped \cup {k}
      /\ \A j \in DOMAIN mapped' : mapped'[j] = IF j = k THEN d ELSE mapped[j]
  BY DEF MapPut
<1>6. Probed(MapEmpty \ {s}, [MapHeld EXCEPT ![k] = @ \cup {s}], DOMAIN mapped \cup {k})
  BY <1>1, ProbeAdds
<1>7. k \in DOMAIN mapped => MapHeld[k] = {s}
  BY MapSearch
<1>8. k \notin DOMAIN mapped => MapHeld[k] = {}
  BY <1>1 DEF Probed
<1> HIDE DEF s
<1>9. mapSlots' \in [SlotIndexes -> {Empty, Gone} \cup Pairs]
  BY <1>1, <1>3, <1>4 DEF Pairs
<1>10. mapSlots'[s] = <<k, d>> /\ \A t \in SlotIndexes : t # s => mapSlots'[t] = mapSlots[t]
  BY <1>1, <1>3, <1>4
<1>11. MapEmpty' = MapEmpty \ {s}
  BY <1>10, <1>3, PairsDiffer DEF MapEmpty
<1>12. MapHeld' = [MapHeld EXCEPT ![k] = @ \cup {s}]
  <2>1. ASSUME NEW j \in Keys
        PROVE  {t \in SlotIndexes : HeldThen(t, j)}
               = IF j = k THEN MapHeld[k] \cup {s} ELSE MapHeld[j]
    <3>1. MapHeld[j] = {t \in SlotIndexes : HoldsKey(t, j)}
      BY DEF MapHeld
    <3>2. \A t \in SlotIndexes : t # s => (HeldThen(t, j) <=> HoldsKey(t, j))
      BY <1>10 DEF HoldsKey, HeldThen
    <3> DEFINE then == {t \in SlotIndexes : HeldThen(t, j)}
    <3>0. \A t \in SlotIndexes : t # s => (t \in then <=> t \in MapHeld[j])
      BY <3>1, <3>2
    <3>6. (s \in then <=> HeldThen(s, j)) /\ then \subseteq SlotIndexes
          /\ MapHeld[j] \subseteq SlotIndexes /\ (s \in MapHeld[j] <=> HoldsKey(s, j))
      BY <1>3, <3>1
    <3> HIDE DEF then
    <3>3. CASE j = k
      <4>1. HeldThen(s, k)
        BY <1>10 DEF HoldsKey, HeldThen
      <4>2. then = MapHeld[k] \cup {s}
        BY <1>3, <3>0, <3>3, <3>6, <4>1
      <4>3. QED
        BY <3>3, <4>2 DEF then
    <3>4. CASE j # k
      <4>1. ~HoldsKey(s, j) /\ ~HeldThen(s, j)
        BY <1>3, <1>10, <3>4, PairsDiffer DEF HoldsKey, HeldThen
      <4>2. then = MapHeld[j]
        BY <3>0, <3>6, <4>1
      <4>3. QED
        BY <3>4, <4>2 DEF then
    <3>5. QED
      BY <3>3, <3>4
  <2>2. MapHeld' = [j \in Keys |-> {t \in SlotIndexes : HeldThen(t, j)}]
    BY DEF MapHeld, HoldsKey, HeldThen
  <2>3. DOMAIN MapHeld = Keys
    BY DEF MapHeld
  <2>4. [MapHeld EXCEPT ![k] = @ \cup {s}]
        = [j \in Keys |-> IF j = k THEN MapHeld[k] \cup {s} ELSE MapHeld[j]]
    BY ONLY <2>3
  <2>5. QED
    BY <2>1, <2>2, <2>4
<1>13. ASSUME NEW j \in DOMAIN mapped', NEW t \in MapHeld'[j]
       PROVE  mapSlots'[t] = <<j, mapped'[j]>>
  <2>1. MapHeld \in [Keys -> SUBSET SlotIndexes] /\ j \in Keys
    BY <1>1, <1>5 DEF Probed
  <2>2. CASE j = k
    <3>1. t = s
      BY <1>7, <1>8, <1>12, <1>13, <2>1, <2>2
    <3>2. QED
      BY <1>5, <1>10, <2>2, <3>1
  <2>3. CASE j # k
    <3>1. t \in MapHeld[j] /\ t \in SlotIndexes /\ j \in DOMAIN mapped /\ mapped'[j] = mapped[j]
      BY <1>5, <1>12, <1>13, <2>1, <2>3
    <3>2. mapSlots[t] = <<j, mapped[j]>> /\ mapped[j] \in HashedData
      BY <3>1 DEF MapInv
    <3>3. t # s
      BY <1>3, <2>1, <2>3, <3>2, PairsDiffer DEF HoldsKey
    <3>4. QED
      BY <1>10, <3>1, <3>2, <3>3
  <2>4. QED
    BY <2>2, <2>3
<1>14. DOMAIN mapped' \subseteq Keys /\ \A j \in DOMAIN mapped' : mapped'[j] \in HashedData
  BY <1>1, <1>5 DEF MapInv
<1>15. Probed(MapEmpty', MapHeld', DOMAIN mapped')
  BY <1>5, <1>6, <1>11, <1>12
<1>16. QED
  BY <1>9, <1>13, <1>14, <1>15 DEF MapInv

LEMMA MapRemoveStep ==
  ASSUME MapInv, NEW k \in Keys, MapRemove(k) PROVE MapInv'
<1>1. /\ Probed(MapEmpty, MapHeld, DOMAIN mapped) /\ DOMAIN mapped \subseteq Keys
      /\ mapSlots \in [SlotIndexes -> {Empty, Gone} \cup Pairs]
      /\ DOMAIN mapped' = DOMAIN mapped \ {k}
      /\ \A j \in DOMAIN mapped' : mapped'[j] = mapped[j]
  BY DEF MapInv, MapRemove
<1>2. ASSUME NEW t \in SlotIndexes
      PROVE  mapSlots'[t] = IF t \in MapHeld[k] THEN Gone ELSE mapSlots[t]
  <2>1. mapSlots'[t] = IF MapGet(k) # -1 /\ t = Path(k)[MapPlace(k)] THEN Gone ELSE mapSlots[t]
    BY DEF MapRemove
  <2>2. k \notin DOMAIN mapped => MapHeld[k] = {}
    BY <1>1 DEF Probed
  <2>3. /\ MapGet(k) # -1 <=> k \in DOMAIN mapped
        /\ k \in DOMAIN mapped => MapHeld[k] = {Path(k)[MapPlace(k)]}
    BY MapSearch
  <2>4. QED
    BY <2>1, <2>2, <2>3
<1>3. mapSlots' \in [SlotIndexes -> {Empty, Gone} \cup Pairs]
  <2>1. DOMAIN mapSlots' = SlotIndexes /\ mapSlots' = [t \in SlotIndexes |-> mapSlots'[t]]
    BY DEF MapRemove
  <2>2. \A t \in SlotIndexes : mapSlots'[t] \in {Empty, Gone} \cup Pairs
    BY <1>1, <1>2
  <2>3. QED
    BY <2>1, <2>2
<1>4. MapEmpty' = MapEmpty
  <2>1. \A t \in SlotIndexes : mapSlots'[t] = Empty <=> mapSlots[t] = Empty
    BY <1>2, PairsDiffer DEF MapHeld, HoldsKey
  <2>2. QED
    BY <2>1 DEF MapEmpty
<1>5. MapHeld' = [MapHeld EXCEPT ![k] = {}]
  <2>1. ASSUME NEW j \in Keys
        PROVE  {t \in SlotIndexes : HeldThen(t, j)} = IF j = k THEN {} ELSE MapHeld[j]
    <3>1. /\ MapHeld[j] = {t \in SlotIndexes : HoldsKey(t, j)}
          /\ MapHeld[k] = {t \in SlotIndexes : HoldsKey(t, k)}
      BY DEF MapHeld
    <3>2. \A t \in SlotIndexes : t \in MapHeld[k] => ~HeldThen(t, j)
      BY <1>2, PairsDiffer DEF HeldThen
    <3>3. \A t \in SlotIndexes : t \notin MapHeld[k] => (HeldThen(t, j) <=> HoldsKey(t, j))
      BY <1>2 DEF HoldsKey, HeldThen
    <3>4. CASE j = k
      BY <3>1, <3>2, <3>3, <3>4
    <3>5. CASE j # k
      <4>1. \A t \in MapHeld[j] : t \notin MapHeld[k]
        BY <3>1, <3>5, PairsDiffer DEF HoldsKey
      <4>2. QED
        BY <3>1, <3>2, <3>3, <3>5, <4>1
    <3>6. QED
      BY <3>4, <3>5
  <2>2. MapHeld' = [j \in Keys |-> {t \in SlotIndexes : HeldThen(t, j)}]
    BY DEF MapHeld, HoldsKey, HeldThen
  <2>3. DOMAIN MapHeld = Keys
    BY DEF MapHeld
  <2>4. [MapHeld EXCEPT ![k] = {}] = [j \in Keys |-> IF j = k THEN {} ELSE MapHeld[j]]
    BY ONLY <2>3
  <2>5. QED
    BY <2>1, <2>2, <2>4
<1>6. Probed(MapEmpty, [MapHeld EXCEPT ![k] = {}], DOMAIN mapped \ {k})
  BY <1>1, ProbeRemoves
<1>7. ASSUME NEW j \in DOMAIN mapped', NEW t \in MapHeld'[j]
      PROVE  mapSlots'[t] = <<j, mapped'[j]>>
  <2>1. MapHeld \in [Keys -> SUBSET SlotIndexes] /\ j \in Keys /\ j # k /\ j \in DOMAIN mapped
    BY <1>1 DEF Probed
  <2>2. t \in MapHeld[j] /\ t \in SlotIndexes
    BY <1>5, <1>7, <2>1
  <2>3. t \notin MapHeld[k]
    BY <1>1, <2>1, <2>2 DEF Probed
  <2>4. mapSlots[t] = <<j, mapped[j]>>
    BY <2>1, <2>2 DEF MapInv
  <2>5. QED
    BY <1>1, <1>2, <2>2, <2>3, <2>4
<1>8. \A j \in DOMAIN mapped' : mapped'[j] \in HashedData
  BY <1>1 DEF MapInv
<1>9. QED
  BY <1>1, <1>3, <1>4, <1>5, <1>6, <1>7, <1>8 DEF MapInv

(* get returns the value put last and not removed (designHash.cpp:89-143). *)
THEOREM HashMapTells == MapSpec => []MapTellsValues
<1>1. MapInit => MapInv
  <2>1. SUFFICES ASSUME MapInit PROVE MapInv
    OBVIOUS
  <2>2. \A s \in SlotIndexes : mapSlots[s] = Empty
    BY <2>1 DEF MapInit
  <2>3. MapEmpty = SlotIndexes
    BY <2>2 DEF MapEmpty
  <2>4. MapHeld = [k \in Keys |-> {}]
    BY <2>2, PairsDiffer DEF MapHeld, HoldsKey
  <2>5. Probed(MapEmpty, MapHeld, {})
    BY <2>3, <2>4 DEF Probed
  <2>6. DOMAIN mapped = {}
    BY <2>1 DEF MapInit
  <2>7. mapSlots \in [SlotIndexes -> {Empty, Gone} \cup Pairs]
    BY <2>1 DEF MapInit
  <2>8. QED
    BY <2>5, <2>6, <2>7 DEF MapInv
<1>2. MapInv /\ [MapNext]_hashMapVars => MapInv'
  <2>1. SUFFICES ASSUME MapInv, [MapNext]_hashMapVars PROVE MapInv'
    OBVIOUS
  <2>2. CASE UNCHANGED hashMapVars
    BY <2>1, <2>2 DEF hashMapVars, MapInv, MapEmpty, MapHeld, HoldsKey
  <2>3. CASE MapNext
    BY <2>1, <2>3, MapPutStep, MapRemoveStep DEF MapNext
  <2>4. QED
    BY <2>1, <2>2, <2>3
<1>3. MapInv => MapTellsValues
  BY MapSearch DEF MapTellsValues
<1>4. QED
  BY <1>1, <1>2, <1>3, PTL DEF MapSpec
-----------------------------------------------------------------------------
(***************************************************************************)
(* RandomizedSet of module ClassDesigns.                                   *)
(***************************************************************************)

(* The two maps of RandomizedSet are each other's inverse.                 *)
PickInv ==
  /\ indexMap \in Seq(Picked)
  /\ IsFiniteSet(DOMAIN valueMap)
  /\ Len(indexMap) = Cardinality(DOMAIN valueMap)
  /\ \A v \in DOMAIN valueMap : valueMap[v] \in DOMAIN indexMap /\ indexMap[valueMap[v]] = v
  /\ \A i \in DOMAIN indexMap :
       indexMap[i] \in DOMAIN valueMap /\ valueMap[indexMap[i]] = i

(* A new value takes the position behind the others.                       *)
LEMMA InsertStep ==
  ASSUME PickInv, NEW v \in Picked, InsertValue(v) PROVE PickInv'
<1> DEFINE n == Len(indexMap)
<1>1. /\ indexMap \in Seq(Picked) /\ IsFiniteSet(DOMAIN valueMap) /\ v \notin DOMAIN valueMap
      /\ n \in Nat /\ DOMAIN indexMap = 1 .. n /\ n = Cardinality(DOMAIN valueMap)
  BY DEF PickInv, InsertValue
<1>2. /\ indexMap' \in Seq(Picked) /\ Len(indexMap') = n + 1
      /\ indexMap'[n + 1] = v /\ \A i \in 1 .. n : indexMap'[i] = indexMap[i]
  BY <1>1, AppendProperties DEF InsertValue
<1>3. /\ DOMAIN valueMap' = DOMAIN valueMap \cup {v}
      /\ valueMap'[v] = n + 1 /\ \A x \in DOMAIN valueMap : valueMap'[x] = valueMap[x]
  BY <1>1 DEF InsertValue
<1>4. /\ IsFiniteSet(DOMAIN valueMap')
      /\ Cardinality(DOMAIN valueMap') = n + 1
  BY <1>1, <1>3, FS_AddElement
<1>5. DOMAIN indexMap' = 1 .. n + 1
  BY <1>2
<1>6. \A x \in DOMAIN valueMap : valueMap[x] \in 1 .. n /\ indexMap[valueMap[x]] = x
  BY <1>1 DEF PickInv
<1>7. \A i \in 1 .. n : indexMap[i] \in DOMAIN valueMap /\ valueMap[indexMap[i]] = i
  BY <1>1 DEF PickInv
<1> HIDE DEF n
<1>8. ASSUME NEW x \in DOMAIN valueMap'
      PROVE  valueMap'[x] \in 1 .. n + 1 /\ indexMap'[valueMap'[x]] = x
  BY <1>1, <1>2, <1>3, <1>6
<1>9. ASSUME NEW i \in 1 .. n + 1
      PROVE  indexMap'[i] \in DOMAIN valueMap' /\ valueMap'[indexMap'[i]] = i
  <2>1. CASE i = n + 1
    BY <2>1, <1>2, <1>3
  <2>2. CASE i # n + 1
    <3>1. i \in 1 .. n
      BY <1>1, <2>2
    <3>2. QED
      BY <3>1, <1>2, <1>3, <1>7
  <2>3. QED
    BY <2>1, <2>2
<1>10. QED
  BY <1>2, <1>4, <1>5, <1>8, <1>9 DEF PickInv

(* The last value moves to the free position, in both maps.                *)
LEMMA RemoveStep ==
  ASSUME PickInv, NEW v \in Picked, RemoveValue(v) PROVE PickInv'
<1> DEFINE n == Len(indexMap)
           p == valueMap[v]
           moved == indexMap[n]
           put == [indexMap EXCEPT ![p] = moved]
<1>1. /\ indexMap \in Seq(Picked) /\ IsFiniteSet(DOMAIN valueMap) /\ v \in DOMAIN valueMap
      /\ n \in Nat /\ DOMAIN indexMap = 1 .. n /\ n = Cardinality(DOMAIN valueMap)
  BY DEF PickInv, RemoveValue
<1>2. \A x \in DOMAIN valueMap : valueMap[x] \in 1 .. n /\ indexMap[valueMap[x]] = x
  BY <1>1 DEF PickInv
<1>3. \A i \in 1 .. n : indexMap[i] \in DOMAIN valueMap /\ valueMap[indexMap[i]] = i
  BY <1>1 DEF PickInv
<1>4. p \in 1 .. n /\ n \in 1 .. n /\ n - 1 \in Nat
  BY <1>1, <1>2
<1>5. /\ put \in Seq(Picked) /\ Len(put) = n
      /\ \A i \in 1 .. n : put[i] = IF i = p THEN moved ELSE indexMap[i]
  <2>1. moved \in Picked
    BY <1>1, <1>4, ElementOfSeq
  <2>2. put \in Seq(Picked) /\ Len(put) = n
    BY <1>1, <1>4, <2>1, ExceptSeq
  <2>3. QED
    BY <1>1, <2>2
<1>6. /\ indexMap' = SubSeq(put, 1, n - 1)
      /\ valueMap' = Restrict([valueMap EXCEPT ![moved] = p], DOMAIN valueMap \ {v})
  BY <1>5 DEF RemoveValue, Front, Last
<1>7. /\ DOMAIN valueMap' = DOMAIN valueMap \ {v}
      /\ \A x \in DOMAIN valueMap \ {v} : valueMap'[x] = IF x = moved THEN p ELSE valueMap[x]
  BY <1>6 DEF Restrict
<1> HIDE DEF put, p, moved, n
<1>8. /\ indexMap' \in Seq(Picked) /\ Len(indexMap') = n - 1
      /\ \A i \in 1 .. n - 1 : indexMap'[i] = put[i]
  BY <1>4, <1>5, <1>6, SubSeqProperties
<1>9. DOMAIN indexMap' = 1 .. n - 1
  BY <1>8
<1>10. /\ IsFiniteSet(DOMAIN valueMap')
       /\ Cardinality(DOMAIN valueMap') = n - 1
  BY <1>1, <1>7, FS_RemoveElement
<1>11. ASSUME NEW x \in DOMAIN valueMap'
       PROVE  valueMap'[x] \in 1 .. n - 1 /\ indexMap'[valueMap'[x]] = x
  <2>0. x \in DOMAIN valueMap /\ x # v /\ moved \in DOMAIN valueMap /\ valueMap[moved] = n
    BY <1>3, <1>4, <1>7 DEF moved
  <2>1. CASE x = moved
    <3>1. p # n
      BY <1>2, <1>1, <2>0, <2>1, <1>4 DEF p, moved
    <3>2. p \in 1 .. n - 1
      BY <3>1, <1>1, <1>4
    <3>3. QED
      BY <2>0, <2>1, <3>2, <1>7, <1>8, <1>5, <1>4
  <2>2. CASE x # moved
    <3>1. valueMap[x] # n /\ valueMap[x] # p /\ valueMap[x] \in 1 .. n
      BY <1>1, <1>2, <2>0, <2>2 DEF p, moved
    <3>2. valueMap[x] \in 1 .. n - 1
      BY <3>1, <1>1
    <3>3. QED
      BY <2>0, <2>2, <3>1, <3>2, <1>2, <1>5, <1>7, <1>8
  <2>3. QED
    BY <2>1, <2>2
<1>12. ASSUME NEW i \in 1 .. n - 1
       PROVE  indexMap'[i] \in DOMAIN valueMap' /\ valueMap'[indexMap'[i]] = i
  <2>0. i \in 1 .. n /\ i # n /\ valueMap[moved] = n /\ moved \in DOMAIN valueMap
    BY <1>1, <1>3, <1>4 DEF moved
  <2>1. CASE i = p
    <3>1. indexMap'[i] = moved
      BY <1>5, <1>8, <2>0, <2>1
    <3>2. moved # v
      BY <2>0, <2>1 DEF p
    <3>3. QED
      BY <3>1, <3>2, <1>7, <2>0, <2>1
  <2>2. CASE i # p
    <3>1. indexMap'[i] = indexMap[i]
      BY <1>5, <1>8, <2>0, <2>2
    <3>2. indexMap[i] # v /\ indexMap[i] # moved /\ indexMap[i] \in DOMAIN valueMap
      BY <1>3, <2>0, <2>2 DEF p
    <3>3. QED
      BY <3>1, <3>2, <1>7, <1>3, <2>0
  <2>3. QED
    BY <2>1, <2>2
<1>13. QED
  BY <1>8, <1>9, <1>10, <1>11, <1>12 DEF PickInv

LEMMA PicksStart == PicksInit => PickInv
<1>1. Cardinality({}) = 0 /\ IsFiniteSet({})
  BY FS_EmptySet
<1>2. DOMAIN [v \in {} |-> 0] = {}
  OBVIOUS
<1>3. QED
  BY <1>1, <1>2 DEF PicksInit, PickInv

(* Every value of RandomizedSet is at the one position its entry names     *)
(* (Random.cpp:278-308).                                                   *)
THEOREM PickedOnce == PicksSpec => []IndexesAgree
<1>1. PicksInit => PickInv
  BY PicksStart
<1>2. PickInv /\ [PicksNext]_pickVars => PickInv'
  <2>1. SUFFICES ASSUME PickInv, [PicksNext]_pickVars PROVE PickInv'
    OBVIOUS
  <2>2. CASE UNCHANGED pickVars
    BY <2>1, <2>2 DEF pickVars, PickInv
  <2>3. CASE PicksNext
    BY <2>1, <2>3, InsertStep, RemoveStep DEF PicksNext
  <2>4. QED
    BY <2>1, <2>2, <2>3
<1>3. PickInv => IndexesAgree
  BY DEF PickInv, IndexesAgree
<1>4. QED
  BY <1>1, <1>2, <1>3, PTL DEF PicksSpec
-----------------------------------------------------------------------------
(***************************************************************************)
(* FlipMatrix of module ClassDesigns.                                      *)
(***************************************************************************)

MatrixCells == 0 .. FlipCells - 1

(* The positions below total stand for the cells not flipped, one each.    *)
FlipInv ==
  /\ total \in 0 .. FlipCells
  /\ \A i, j \in 0 .. total - 1 : MappedTo(i) = MappedTo(j) => i = j
  /\ {MappedTo(i) : i \in 0 .. total - 1} = MatrixCells \ flipped
  /\ IsFiniteSet(flipped) /\ flipped \subseteq MatrixCells
  /\ Cardinality(flipped) = FlipCells - total

(* Where everything stands for itself nothing was flipped.                 *)
LEMMA FlipsBegin ==
  ASSUME total = FlipCells, matrix = [i \in {} |-> 0], flipped = {}
  PROVE  FlipInv
<1>1. Cardinality({}) = 0 /\ IsFiniteSet({}) /\ FlipCells \in Nat
  BY FS_EmptySet, PickAssumption
<1>2. \A i : MappedTo(i) = i
  BY DEF MappedTo
<1>3. QED
  BY <1>1, <1>2 DEF FlipInv, MatrixCells

(* The cell of the last position moves to the one that was drawn.          *)
LEMMA FlipStep ==
  ASSUME FlipInv, Flip PROVE FlipInv'
<1> DEFINE n == total
<1>1. PICK r \in 0 .. n - 1 :
        /\ flipped' = flipped \cup {MappedTo(r)}
        /\ matrix' = IF r = total' THEN matrix
                     ELSE [i \in DOMAIN matrix \cup {r} |->
                             IF i = r THEN MappedTo(total') ELSE matrix[i]]
  BY DEF Flip
<1>2. n \in Nat /\ n > 0 /\ n <= FlipCells /\ total' = n - 1 /\ FlipCells \in Nat
  BY PickAssumption DEF FlipInv, Flip
<1>3. \A i, j \in 0 .. n - 1 : MappedTo(i) = MappedTo(j) => i = j
  BY DEF FlipInv
<1>4. {MappedTo(i) : i \in 0 .. n - 1} = MatrixCells \ flipped
  BY DEF FlipInv
<1>5. ASSUME NEW i \in 0 .. n - 2
      PROVE  MappedTo(i)' = IF i = r THEN MappedTo(n - 1) ELSE MappedTo(i)
  <2>1. CASE r = n - 1
    <3>1. matrix' = matrix /\ i # r
      BY <1>1, <1>2, <2>1
    <3>2. QED
      BY <3>1 DEF MappedTo
  <2>2. CASE r # n - 1
    <3>1. matrix' = [k \in DOMAIN matrix \cup {r} |->
                       IF k = r THEN MappedTo(n - 1) ELSE matrix[k]]
      BY <1>1, <1>2, <2>2
    <3>2. MappedTo(i)' = IF i \in DOMAIN matrix' THEN matrix'[i] ELSE i
      BY DEF MappedTo
    <3>3. DOMAIN matrix' = DOMAIN matrix \cup {r}
      BY <3>1
    <3>4. CASE i = r
      <4>1. matrix'[i] = MappedTo(n - 1)
        BY <3>1, <3>4
      <4>2. QED
        BY <3>2, <3>3, <3>4, <4>1
    <3>5. CASE i # r /\ i \in DOMAIN matrix
      <4>1. matrix'[i] = matrix[i]
        BY <3>1, <3>5
      <4>2. QED
        BY <3>2, <3>3, <3>5, <4>1 DEF MappedTo
    <3>6. CASE i # r /\ i \notin DOMAIN matrix
      BY <3>2, <3>3, <3>6 DEF MappedTo
    <3>7. QED
      BY <3>4, <3>5, <3>6
  <2>3. QED
    BY <2>1, <2>2
<1>6. \A i \in 0 .. n - 2 : i \in 0 .. n - 1 /\ i # n - 1
  BY <1>2
<1>7. n - 1 \in 0 .. n - 1 /\ (n - 1) - 1 = n - 2 /\ \A i \in 0 .. n - 1 : i # n - 1 => i \in 0 .. n - 2
  BY <1>2
<1> DEFINE x == MappedTo(r)
<1>8. x \in MatrixCells /\ x \notin flipped
  BY <1>1, <1>4
<1> HIDE DEF n, x
<1>9. \A i, j \in 0 .. n - 2 : MappedTo(i)' = MappedTo(j)' => i = j
  <2> TAKE i, j \in 0 .. n - 2
  <2>1. i \in 0 .. n - 1 /\ j \in 0 .. n - 1 /\ i # n - 1 /\ j # n - 1
    BY <1>6
  <2>2. MappedTo(i)' = IF i = r THEN MappedTo(n - 1) ELSE MappedTo(i)
    BY <1>5
  <2>3. MappedTo(j)' = IF j = r THEN MappedTo(n - 1) ELSE MappedTo(j)
    BY <1>5
  <2>4. QED
    BY <1>3, <1>7, <2>1, <2>2, <2>3
<1>10. {MappedTo(i)' : i \in 0 .. n - 2} = (MatrixCells \ flipped) \ {x}
  <2>1. ASSUME NEW i \in 0 .. n - 2 PROVE MappedTo(i)' \in (MatrixCells \ flipped) \ {x}
    <3>1. MappedTo(i)' = IF i = r THEN MappedTo(n - 1) ELSE MappedTo(i)
      BY <1>5
    <3>2. i \in 0 .. n - 1 /\ i # n - 1
      BY <1>6
    <3>3. MappedTo(i)' \in MatrixCells \ flipped
      BY <1>4, <1>7, <3>1, <3>2
    <3>4. MappedTo(i)' # x
      BY <1>1, <1>3, <1>7, <3>1, <3>2 DEF x
    <3>5. QED
      BY <3>3, <3>4
  <2>2. ASSUME NEW y \in (MatrixCells \ flipped) \ {x} PROVE \E i \in 0 .. n - 2 : y = MappedTo(i)'
    <3>1. PICK i \in 0 .. n - 1 : y = MappedTo(i)
      BY <1>4
    <3>2. i # r
      BY <2>2, <3>1 DEF x
    <3>3. CASE i # n - 1
      <4>1. i \in 0 .. n - 2
        BY <1>7, <3>3
      <4>2. QED
        BY <1>5, <3>1, <3>2, <4>1
    <3>4. CASE i = n - 1
      <4>1. r \in 0 .. n - 2
        BY <1>1, <1>7, <3>2, <3>4
      <4>2. MappedTo(r)' = MappedTo(n - 1)
        BY <1>5, <4>1
      <4>3. QED
        BY <3>1, <3>4, <4>1, <4>2
    <3>5. QED
      BY <3>3, <3>4
  <2>3. QED
    BY <2>1, <2>2
<1>11. /\ IsFiniteSet(flipped') /\ flipped' \subseteq MatrixCells
       /\ Cardinality(flipped') = FlipCells - total'
       /\ (MatrixCells \ flipped) \ {x} = MatrixCells \ flipped'
  <2>1. flipped' = flipped \cup {x}
    BY <1>1 DEF x
  <2>2. IsFiniteSet(flipped) /\ flipped \subseteq MatrixCells /\ Cardinality(flipped) = FlipCells - n
    BY DEF FlipInv, n
  <2>3. IsFiniteSet(flipped') /\ Cardinality(flipped') = Cardinality(flipped) + 1
    BY <1>8, <2>1, <2>2, FS_AddElement
  <2>4. QED
    BY <1>2, <1>8, <2>1, <2>2, <2>3
<1>12. total' \in 0 .. FlipCells /\ total' - 1 = n - 2
  BY <1>2
<1>13. QED
  BY <1>9, <1>10, <1>11, <1>12 DEF FlipInv, MatrixCells

(* No cell is flipped twice, and every cell not flipped stands behind one  *)
(* position that can be drawn (Random.cpp:183-198).                        *)
THEOREM FlippedOnce == FlipSpec => []FlipsEveryCellOnce
<1>1. FlipInit => FlipInv
  BY FlipsBegin DEF FlipInit
<1>2. FlipInv /\ [FlipNext]_flipVars => FlipInv'
  <2>1. SUFFICES ASSUME FlipInv, [FlipNext]_flipVars PROVE FlipInv'
    OBVIOUS
  <2>2. CASE UNCHANGED flipVars
    BY <2>1, <2>2 DEF flipVars, FlipInv, MappedTo, MatrixCells
  <2>3. CASE Flip
    BY <2>1, <2>3, FlipStep
  <2>4. CASE ResetMatrix
    <3>1. (total = FlipCells /\ matrix = [i \in {} |-> 0] /\ flipped = {})' => FlipInv'
      BY FlipsBegin, PTL
    <3>2. QED
      BY <2>4, <3>1 DEF ResetMatrix
  <2>5. QED
    BY <2>1, <2>2, <2>3, <2>4 DEF FlipNext
<1>3. FlipInv => FlipsEveryCellOnce
  BY DEF FlipInv, FlipsEveryCellOnce, MatrixCells
<1>4. QED
  BY <1>1, <1>2, <1>3, PTL DEF FlipSpec
-----------------------------------------------------------------------------
(***************************************************************************)
(* MyQueue and MinStack of module ClassDesigns.                            *)
(***************************************************************************)

(* The stacks pop and push, of which pop is upside down, hold the queue g. *)
Queued(g, pop, push) ==
  /\ {g, pop, push} \subseteq Seq(Stacked)
  /\ Len(g) = Len(pop) + Len(push)
  /\ \A i \in 1 .. Len(pop) : g[i] = pop[Len(pop) - i + 1]
  /\ \A i \in 1 .. Len(push) : g[Len(pop) + i] = push[i]

LEMMA ReverseIs ==
  ASSUME NEW S, NEW s \in Seq(S)
  PROVE  /\ Reverse(s) \in Seq(S) /\ Len(Reverse(s)) = Len(s)
         /\ \A i \in 1 .. Len(s) : Reverse(s)[i] = s[Len(s) - i + 1]
<1> DEFINE n == Len(s)
<1>1. n \in Nat /\ \A i \in 1 .. n : n - i + 1 \in 1 .. n /\ s[n - i + 1] \in S
  OBVIOUS
<1>2. Reverse(s) = [i \in 1 .. n |-> s[n - i + 1]]
  BY DEF Reverse
<1> HIDE DEF n
<1>3. [i \in 1 .. n |-> s[n - i + 1]] \in Seq(S)
  BY <1>1
<1>4. Len([i \in 1 .. n |-> s[n - i + 1]]) = n
  BY <1>1
<1>5. QED
  BY <1>2, <1>3, <1>4 DEF n

(* The two stacks put together are the queue.                              *)
LEMMA QueuedIsOrder ==
  ASSUME NEW g, NEW pop, NEW push, Queued(g, pop, push)
  PROVE  Reverse(pop) \o push = g
<1> DEFINE r == Reverse(pop)
           n == Len(pop)
<1>1. g \in Seq(Stacked) /\ pop \in Seq(Stacked) /\ push \in Seq(Stacked)
  BY DEF Queued
<1>2. /\ r \in Seq(Stacked) /\ Len(r) = n /\ \A i \in 1 .. n : r[i] = pop[n - i + 1]
  BY <1>1, ReverseIs
<1> HIDE DEF r
<1>3. /\ r \o push \in Seq(Stacked) /\ Len(r \o push) = Len(r) + Len(push)
      /\ \A i \in 1 .. Len(r) + Len(push) :
           (r \o push)[i] = IF i <= Len(r) THEN r[i] ELSE push[i - Len(r)]
  <2>1. r \in Seq(Stacked) /\ push \in Seq(Stacked)
    BY <1>1, <1>2
  <2>2. QED
    BY ONLY <2>1, ConcatProperties
<1>4. n \in Nat /\ Len(push) \in Nat /\ Len(g) = n + Len(push)
  BY <1>1 DEF Queued
<1>5. ASSUME NEW i \in 1 .. Len(g) PROVE (r \o push)[i] = g[i]
  <2>1. CASE i <= n
    <3>1. i \in 1 .. n
      BY <1>4, <2>1
    <3>2. QED
      BY <1>2, <1>3, <1>4, <2>1, <3>1 DEF Queued
  <2>2. CASE ~(i <= n)
    <3>1. i - n \in 1 .. Len(push) /\ n + (i - n) = i
      BY <1>4, <2>2
    <3>2. QED
      BY <1>2, <1>3, <1>4, <2>2, <3>1 DEF Queued
  <2>3. QED
    BY <2>1, <2>2
<1>6. Len(r \o push) = Len(g)
  BY <1>2, <1>3, <1>4
<1>7. r \o push = g
  BY <1>1, <1>3, <1>5, <1>6, SeqEqual
<1>8. QED
  BY <1>7 DEF r

(* Moving one stack onto the other keeps the queue.                        *)
LEMMA TransferKeeps ==
  ASSUME Queued(given, stack_pop, stack_push)
  PROVE  Queued(given, Transferred.pop, Transferred.push)
<1>1. CASE stack_pop # <<>>
  BY <1>1 DEF Transferred
<1>2. CASE stack_pop = <<>>
  <2> DEFINE r == Reverse(stack_push)
             n == Len(stack_push)
  <2>1. Transferred.pop = r /\ Transferred.push = <<>>
    BY <1>2 DEF Transferred
  <2>2. /\ given \in Seq(Stacked) /\ stack_push \in Seq(Stacked) /\ Len(stack_pop) = 0
        /\ <<>> \in Seq(Stacked) /\ Len(<<>>) = 0
    BY <1>2 DEF Queued
  <2>3. r \in Seq(Stacked) /\ Len(r) = n /\ \A i \in 1 .. n : r[i] = stack_push[n - i + 1]
    BY <2>2, ReverseIs
  <2> HIDE DEF r
  <2>4. n \in Nat /\ Len(given) = n
    BY <2>2 DEF Queued
  <2>5. \A i \in 1 .. n : given[i] = stack_push[i]
    <3>1. \A i \in 1 .. n : given[0 + i] = stack_push[i]
      BY <2>2 DEF Queued
    <3>2. QED
      BY <2>4, <3>1
  <2> HIDE DEF n
  <2>6. ASSUME NEW i \in 1 .. n PROVE given[i] = r[n - i + 1]
    <3>1. n - i + 1 \in 1 .. n /\ n - (n - i + 1) + 1 = i
      BY <2>4
    <3>2. QED
      BY <2>3, <2>5, <3>1
  <2>7. Queued(given, r, <<>>)
    BY <2>2, <2>3, <2>4, <2>6 DEF Queued
  <2>8. QED
    BY <2>1, <2>7
<1>3. QED
  BY <1>1, <1>2

LEMMA PushQueues ==
  ASSUME NEW g, NEW pop, NEW push, Queued(g, pop, push), NEW x \in Stacked
  PROVE  Queued(Append(g, x), pop, Append(push, x))
<1> DEFINE n == Len(pop)
           m == Len(push)
           g1 == Append(g, x)
           push1 == Append(push, x)
<1>1. /\ g \in Seq(Stacked) /\ pop \in Seq(Stacked) /\ push \in Seq(Stacked)
      /\ n \in Nat /\ m \in Nat /\ Len(g) = n + m
  BY DEF Queued
<1>2. /\ g1 \in Seq(Stacked) /\ Len(g1) = Len(g) + 1 /\ g1[Len(g) + 1] = x
      /\ \A i \in 1 .. Len(g) : g1[i] = g[i]
  BY <1>1, AppendProperties
<1>3. /\ push1 \in Seq(Stacked) /\ Len(push1) = m + 1 /\ push1[m + 1] = x
      /\ \A i \in 1 .. m : push1[i] = push[i]
  BY <1>1, AppendProperties
<1> HIDE DEF g1, push1
<1>4. \A i \in 1 .. n : g1[i] = pop[n - i + 1]
  <2>1. \A i \in 1 .. n : i \in 1 .. Len(g)
    BY <1>1
  <2>2. QED
    BY <1>2, <2>1 DEF Queued
<1>5. ASSUME NEW i \in 1 .. m + 1 PROVE g1[n + i] = push1[i]
  <2>1. CASE i = m + 1
    <3>1. n + i = Len(g) + 1
      BY <1>1, <2>1
    <3>2. QED
      BY <1>2, <1>3, <2>1, <3>1
  <2>2. CASE i # m + 1
    <3>1. i \in 1 .. m /\ n + i \in 1 .. Len(g)
      BY <1>1, <2>2
    <3>2. QED
      BY <1>2, <1>3, <3>1 DEF Queued
  <2>3. QED
    BY <2>1, <2>2
<1>6. Len(g1) = n + (m + 1)
  BY <1>1, <1>2
<1>7. Queued(g1, pop, push1)
  BY <1>1, <1>2, <1>3, <1>4, <1>5, <1>6 DEF Queued
<1>8. QED
  BY <1>7 DEF g1, push1

LEMMA FrontIs ==
  ASSUME NEW S, NEW s \in Seq(S), s # <<>>
  PROVE  /\ Front(s) \in Seq(S) /\ Len(Front(s)) = Len(s) - 1
         /\ \A i \in 1 .. Len(s) - 1 : Front(s)[i] = s[i]
<1> DEFINE n == Len(s)
<1>1. n \in Nat /\ n # 0
  BY EmptySeq
<1>2. Front(s) = SubSeq(s, 1, n - 1)
  BY DEF Front
<1>3. \A i \in 1 .. n - 1 : s[i] \in S
  BY <1>1, ElementOfSeq
<1>4. 1 \in Int /\ n - 1 \in Int /\ (n - 1) - 1 + 1 = n - 1
      /\ \A i \in 1 .. n - 1 : 1 + i - 1 = i
  BY <1>1
<1> HIDE DEF n
<1>5. /\ SubSeq(s, 1, n - 1) \in Seq(S)
      /\ Len(SubSeq(s, 1, n - 1)) = IF 1 <= n - 1 THEN (n - 1) - 1 + 1 ELSE 0
      /\ \A i \in 1 .. (n - 1) - 1 + 1 : SubSeq(s, 1, n - 1)[i] = s[1 + i - 1]
  BY <1>3, <1>4, SubSeqProperties
<1>6. Len(Front(s)) = n - 1
  BY <1>1, <1>2, <1>5
<1>7. Front(s) \in Seq(S) /\ \A i \in 1 .. n - 1 : Front(s)[i] = s[i]
  BY <1>2, <1>4, <1>5
<1>8. QED
  BY <1>6, <1>7 DEF n

LEMMA PopUnqueues ==
  ASSUME NEW g, NEW pop, NEW push, Queued(g, pop, push), pop # <<>>
  PROVE  Queued(Tail(g), Front(pop), push)
<1> DEFINE n == Len(pop)
           m == Len(push)
           g1 == Tail(g)
           pop1 == Front(pop)
<1>1. /\ g \in Seq(Stacked) /\ pop \in Seq(Stacked) /\ push \in Seq(Stacked)
      /\ n \in Nat /\ m \in Nat /\ Len(g) = n + m /\ n # 0
  BY EmptySeq DEF Queued
<1>2. g # <<>>
  BY <1>1, EmptySeq
<1>3. /\ g1 \in Seq(Stacked) /\ Len(g1) = Len(g) - 1
      /\ \A i \in 1 .. Len(g) - 1 : g1[i] = g[i + 1]
  BY <1>1, <1>2, HeadTailProperties
<1>4. /\ pop1 \in Seq(Stacked) /\ Len(pop1) = n - 1
      /\ \A i \in 1 .. n - 1 : pop1[i] = pop[i]
  BY <1>1, FrontIs
<1> HIDE DEF g1, pop1
<1>5. ASSUME NEW i \in 1 .. n - 1 PROVE g1[i] = pop1[(n - 1) - i + 1]
  <2>1. /\ i \in 1 .. Len(g) - 1 /\ i + 1 \in 1 .. n /\ n - (i + 1) + 1 = (n - 1) - i + 1
        /\ (n - 1) - i + 1 \in 1 .. n - 1
    BY <1>1
  <2>2. g[i + 1] = pop[n - (i + 1) + 1]
    BY <2>1 DEF Queued
  <2>3. QED
    BY <1>3, <1>4, <2>1, <2>2
<1>6. ASSUME NEW i \in 1 .. m PROVE g1[(n - 1) + i] = push[i]
  <2>1. (n - 1) + i \in 1 .. Len(g) - 1 /\ ((n - 1) + i) + 1 = n + i
    BY <1>1
  <2>2. g[n + i] = push[i]
    BY DEF Queued
  <2>3. QED
    BY <1>3, <2>1, <2>2
<1>7. Len(g1) = (n - 1) + m
  BY <1>1, <1>3
<1>8. Queued(g1, pop1, push)
  BY <1>1, <1>3, <1>4, <1>5, <1>6, <1>7 DEF Queued
<1>9. QED
  BY <1>8 DEF g1, pop1

-----------------------------------------------------------------------------
(* What MinStack pushed for the i-th number: the number, and below it what *)
(* had been the smallest if the number is no larger.  "at" is how high the *)
(* stack is after each, "low" the smallest up to it.                       *)
StepAt(g, m, at, low, i) ==
  /\ low[i] = IF g[i] <= low[i - 1] THEN g[i] ELSE low[i - 1]
  /\ at[i] = at[i - 1] + IF g[i] <= low[i - 1] THEN 2 ELSE 1
  /\ m[at[i]] = g[i]
  /\ g[i] <= low[i - 1] => m[at[i] - 1] = low[i - 1]

LowAt(g, low, i) ==
  /\ low[i] <= TopInt /\ \A j \in 1 .. i : low[i] <= g[j]
  /\ low[i] = TopInt \/ \E j \in 1 .. i : low[i] = g[j]

Recorded(g, m, at, low) ==
  /\ at \in [0 .. Len(g) -> Nat] /\ low \in [0 .. Len(g) -> Nat]
  /\ at[0] = 0 /\ low[0] = TopInt
  /\ \A i \in 1 .. Len(g) : StepAt(g, m, at, low, i)
  /\ \A i, j \in 0 .. Len(g) : i < j => at[i] < at[j]
  /\ \A i \in 0 .. Len(g) : LowAt(g, low, i)

MinStacked(g, m, v) ==
  /\ g \in Seq(Stacked) /\ m \in Seq(Nat)
  /\ \E at, low : Recorded(g, m, at, low) /\ at[Len(g)] = Len(m) /\ low[Len(g)] = v

LEMMA StackedAreNat ==
  ASSUME NEW g \in Seq(Stacked), NEW i \in 1 .. Len(g)
  PROVE  g[i] \in Nat /\ g[i] <= TopInt /\ g[i] \in Stacked
<1>1. g[i] \in Stacked
  BY ElementOfSeq
<1>2. TopInt \in Nat /\ \A x \in Stacked : x \in 0 .. TopInt
  BY StackAssumption
<1>3. QED
  BY <1>1, <1>2

(* What is recorded of the numbers that two sequences share.               *)
SameTo(g, m, at, low, g1, m1, at1, low1, k) ==
  /\ Len(g) \in Nat /\ k \in 0 .. Len(g)
  /\ \A i \in 1 .. k : g1[i] = g[i]
  /\ \A i \in 1 .. at[k] : m1[i] = m[i]
  /\ \A i \in 0 .. k : at1[i] = at[i] /\ low1[i] = low[i]

RecordedTo(g, m, at, low, k) ==
  /\ \A i \in 1 .. k : StepAt(g, m, at, low, i)
  /\ \A i, j \in 0 .. k : i < j => at[i] < at[j]
  /\ \A i \in 0 .. k : LowAt(g, low, i)

LEMMA RecordKept ==
  ASSUME NEW g, NEW m, NEW at, NEW low, Recorded(g, m, at, low),
         NEW g1, NEW m1, NEW at1, NEW low1, NEW k,
         SameTo(g, m, at, low, g1, m1, at1, low1, k)
  PROVE  RecordedTo(g1, m1, at1, low1, k)
<1> USE DEF SameTo
<1>1. /\ at \in [0 .. Len(g) -> Nat] /\ at[0] = 0 /\ k \in Nat /\ k <= Len(g)
      /\ \A i, j \in 0 .. Len(g) : i < j => at[i] < at[j]
  BY DEF Recorded
<1>2. ASSUME NEW i \in 1 .. k PROVE StepAt(g1, m1, at1, low1, i)
  <2>1. i \in 1 .. Len(g) /\ i \in 0 .. k /\ i - 1 \in 0 .. k /\ i - 1 \in 0 .. Len(g) /\ i \in 0 .. Len(g)
    BY <1>1
  <2>2. StepAt(g, m, at, low, i)
    BY <2>1 DEF Recorded
  <2>3. at[i] <= at[k]
    BY <1>1, <2>1
  <2>4. at[i] \in Nat /\ at[k] \in Nat /\ at[i - 1] \in Nat /\ at[i] > at[i - 1]
    BY <1>1, <2>1
  <2>5. m1[at[i]] = m[at[i]]
    BY <2>3, <2>4
  <2>6. g[i] <= low[i - 1] => m1[at[i] - 1] = m[at[i] - 1]
    <3>1. SUFFICES ASSUME g[i] <= low[i - 1] PROVE m1[at[i] - 1] = m[at[i] - 1]
      OBVIOUS
    <3>2. at[i] = at[i - 1] + 2
      BY <2>2, <3>1 DEF StepAt
    <3>3. at[i] - 1 \in 1 .. at[k]
      BY <2>3, <2>4, <3>2
    <3>4. QED
      BY <3>3
  <2>7. g1[i] = g[i] /\ at1[i] = at[i] /\ low1[i] = low[i] /\ at1[i - 1] = at[i - 1] /\ low1[i - 1] = low[i - 1]
    BY <2>1
  <2>8. QED
    BY ONLY <2>2, <2>5, <2>6, <2>7 DEF StepAt
<1>3. ASSUME NEW i \in 0 .. k PROVE LowAt(g1, low1, i)
  <2>1. LowAt(g, low, i) /\ low1[i] = low[i] /\ \A j \in 1 .. i : g1[j] = g[j]
    BY <1>1 DEF Recorded
  <2>2. QED
    BY <2>1 DEF LowAt
<1>4. ASSUME NEW i \in 0 .. k, NEW j \in 0 .. k, i < j PROVE at1[i] < at1[j]
  BY <1>1, <1>4
<1>5. QED
  BY <1>2, <1>3, <1>4 DEF RecordedTo

LEMMA MinOfTwo ==
  ASSUME NEW x \in Nat, NEW v \in Nat PROVE Min({x, v}) = IF x <= v THEN x ELSE v
<1> DEFINE z == IF x <= v THEN x ELSE v
<1>1. z \in {x, v} /\ \A y \in {x, v} : z <= y
  OBVIOUS
<1>2. \A y \in {x, v} : (\A u \in {x, v} : y <= u) => y = z
  OBVIOUS
<1> HIDE DEF z
<1>3. Min({x, v}) = z
  BY <1>1, <1>2 DEF Min
<1>4. QED
  BY <1>3 DEF z

(* getMin, from what is recorded.                                          *)
LEMMA RecordTells ==
  ASSUME NEW g, NEW m, NEW v, MinStacked(g, m, v)
  PROVE  /\ v = Min(ToSet(g) \cup {TopInt})
         /\ g # <<>> => Last(m) = Last(g)
<1>1. PICK at, low : Recorded(g, m, at, low) /\ at[Len(g)] = Len(m) /\ low[Len(g)] = v
  BY DEF MinStacked
<1> DEFINE n == Len(g)
           all == ToSet(g) \cup {TopInt}
<1>2. g \in Seq(Stacked) /\ n \in Nat /\ DOMAIN g = 1 .. n /\ v \in Nat /\ n \in 0 .. n
  <2>1. g \in Seq(Stacked) /\ n \in Nat /\ DOMAIN g = 1 .. n
    BY DEF MinStacked
  <2>2. low \in [0 .. n -> Nat] /\ n \in 0 .. n
    BY <1>1, <2>1 DEF Recorded
  <2>3. QED
    BY <1>1, <2>1, <2>2
<1>3. LowAt(g, low, n)
  BY <1>1, <1>2 DEF Recorded
<1>4. v \in all /\ \A y \in all : v <= y
  BY <1>1, <1>2, <1>3 DEF LowAt, ToSet
<1>5. \A y \in all : y \in Nat
  BY <1>2, StackedAreNat, StackAssumption DEF ToSet
<1> HIDE DEF all
<1>6. \A y \in all : (\A u \in all : y <= u) => y = v
  BY <1>2, <1>4, <1>5
<1>7. Min(all) = v
  BY <1>4, <1>6 DEF Min
<1>8. g # <<>> => Last(m) = Last(g)
  <2>1. SUFFICES ASSUME g # <<>> PROVE m[Len(m)] = g[n]
    BY DEF Last
  <2>2. n \in 1 .. n
    BY <1>2, <2>1, EmptySeq
  <2>3. StepAt(g, m, at, low, n)
    BY <1>1, <2>2 DEF Recorded
  <2>4. QED
    BY <1>1, <2>3 DEF StepAt
<1>9. QED
  BY <1>7, <1>8 DEF all

LEMMA MinPushRecords ==
  ASSUME NEW g, NEW m, NEW v, MinStacked(g, m, v), NEW x \in Stacked
  PROVE  MinStacked(Append(g, x), m \o (IF x <= v THEN <<v, x>> ELSE <<x>>), Min({x, v}))
<1> DEFINE n == Len(g)
           g1 == Append(g, x)
           more == IF x <= v THEN <<v, x>> ELSE <<x>>
           m1 == m \o more
           v1 == Min({x, v})
<1>1. PICK at, low : Recorded(g, m, at, low) /\ at[n] = Len(m) /\ low[n] = v
  BY DEF MinStacked
<1>2. /\ g \in Seq(Stacked) /\ n \in Nat /\ m \in Seq(Nat) /\ Len(m) \in Nat
      /\ n \in 0 .. n /\ \A i \in 0 .. n : at[i] \in Nat /\ low[i] \in Nat
      /\ at[0] = 0 /\ low[0] = TopInt
  <2>1. g \in Seq(Stacked) /\ n \in Nat /\ m \in Seq(Nat) /\ Len(m) \in Nat /\ n \in 0 .. n
    BY DEF MinStacked
  <2>2. at \in [0 .. n -> Nat] /\ low \in [0 .. n -> Nat] /\ at[0] = 0 /\ low[0] = TopInt
    BY <1>1 DEF Recorded
  <2>3. QED
    BY <2>1, <2>2
<1>3. v \in Nat /\ x \in Nat /\ x <= TopInt /\ TopInt \in Nat
  BY <1>1, <1>2, StackAssumption
<1>4. v1 = IF x <= v THEN x ELSE v
  BY <1>3, MinOfTwo
<1>5. /\ more \in Seq(Nat) /\ Len(more) = IF x <= v THEN 2 ELSE 1
      /\ more[Len(more)] = x
      /\ x <= v => more[1] = v
  <2>1. CASE x <= v
    <3>1. more = <<v, x>>
      BY <2>1
    <3>2. <<v, x>> \in Seq(Nat) /\ Len(<<v, x>>) = 2 /\ <<v, x>>[2] = x /\ <<v, x>>[1] = v
      BY <1>3
    <3>3. QED
      BY <2>1, <3>1, <3>2
  <2>2. CASE ~(x <= v)
    <3>1. more = <<x>>
      BY <2>2
    <3>2. <<x>> \in Seq(Nat) /\ Len(<<x>>) = 1 /\ <<x>>[1] = x
      BY <1>3
    <3>3. QED
      BY <2>2, <3>1, <3>2
  <2>3. QED
    BY <2>1, <2>2
<1>6. /\ g1 \in Seq(Stacked) /\ Len(g1) = n + 1 /\ g1[n + 1] = x
      /\ \A i \in 1 .. n : g1[i] = g[i]
  BY <1>2, AppendProperties
<1> HIDE DEF more, g1, v1
<1>7. /\ m1 \in Seq(Nat) /\ Len(m1) = Len(m) + Len(more)
      /\ \A i \in 1 .. Len(m) + Len(more) :
           m1[i] = IF i <= Len(m) THEN m[i] ELSE more[i - Len(m)]
  BY <1>2, <1>5, ConcatProperties
<1> HIDE DEF m1
<1> DEFINE at1 == [i \in 0 .. n + 1 |-> IF i = n + 1 THEN Len(m1) ELSE at[i]]
           low1 == [i \in 0 .. n + 1 |-> IF i = n + 1 THEN v1 ELSE low[i]]
<1>8. Len(m1) \in Nat /\ v1 \in Nat
  BY <1>3, <1>4, <1>7
<1>9. /\ at1 \in [0 .. n + 1 -> Nat] /\ low1 \in [0 .. n + 1 -> Nat]
      /\ \A i \in 0 .. n : at1[i] = at[i] /\ low1[i] = low[i]
      /\ at1[n + 1] = Len(m1) /\ low1[n + 1] = v1
  <2>1. \A i \in 0 .. n + 1 : i # n + 1 => i \in 0 .. n
    BY <1>2
  <2>2. \A i \in 0 .. n : i \in 0 .. n + 1 /\ i # n + 1
    BY <1>2
  <2>3. n + 1 \in 0 .. n + 1
    BY <1>2
  <2>4. QED
    BY <1>2, <1>8, <2>1, <2>2, <2>3
<1> HIDE DEF at1, low1
<1>10. \A i \in 1 .. at[n] : m1[i] = m[i]
  <2>1. \A i \in 1 .. at[n] : i \in 1 .. Len(m) + Len(more) /\ i <= Len(m)
    BY <1>1, <1>2, <1>5
  <2>2. QED
    BY <1>7, <2>1
<1>11. /\ \A i \in 1 .. n : StepAt(g1, m1, at1, low1, i)
       /\ \A i, j \in 0 .. n : i < j => at1[i] < at1[j]
       /\ \A i \in 0 .. n : LowAt(g1, low1, i)
  <2>1. Recorded(g, m, at, low) /\ Len(g) \in Nat /\ n \in 0 .. Len(g)
    BY <1>1, <1>2
  <2>2. /\ \A i \in 1 .. n : g1[i] = g[i]
        /\ \A i \in 0 .. n : at1[i] = at[i] /\ low1[i] = low[i]
    BY <1>6, <1>9
  <2>3. SameTo(g, m, at, low, g1, m1, at1, low1, n)
    BY <2>1, <2>2, <1>10 DEF SameTo
  <2> HIDE DEF n
  <2>4. RecordedTo(g1, m1, at1, low1, n)
    BY <2>1, <2>3, RecordKept
  <2>5. QED
    BY <2>4 DEF RecordedTo
<1>12. StepAt(g1, m1, at1, low1, n + 1)
  <2>1. (n + 1) - 1 = n /\ low1[n] = v /\ at1[n] = Len(m)
    <3>1. n \in Nat /\ n \in 0 .. n /\ low[n] = v /\ at[n] = Len(m)
      BY <1>1, <1>2
    <3>2. low1[n] = low[n] /\ at1[n] = at[n]
      BY <1>9, <3>1
    <3> HIDE DEF n
    <3>3. QED
      BY <3>1, <3>2
  <2>2. Len(m1) = at1[n] + IF x <= v THEN 2 ELSE 1
    BY <1>5, <1>7, <2>1
  <2>3. m1[Len(m1)] = x
    <3>1. /\ Len(m1) \in 1 .. Len(m) + Len(more) /\ ~(Len(m1) <= Len(m))
          /\ Len(m1) - Len(m) = Len(more)
      BY <1>2, <1>5, <1>7
    <3>2. m1[Len(m1)] = more[Len(m1) - Len(m)]
      BY <1>7, <3>1
    <3>3. more[Len(m1) - Len(m)] = more[Len(more)]
      BY <3>1
    <3>4. more[Len(more)] = x
      BY <1>5
    <3>5. QED
      BY <3>2, <3>3, <3>4
  <2>4. x <= v => m1[Len(m1) - 1] = v
    <3>1. SUFFICES ASSUME x <= v PROVE m1[Len(m1) - 1] = v
      OBVIOUS
    <3>2. /\ Len(m1) - 1 \in 1 .. Len(m) + Len(more) /\ ~(Len(m1) - 1 <= Len(m))
          /\ (Len(m1) - 1) - Len(m) = 1
      BY <1>2, <1>5, <1>7, <3>1
    <3>3. m1[Len(m1) - 1] = more[(Len(m1) - 1) - Len(m)]
      BY <1>7, <3>2
    <3>4. more[(Len(m1) - 1) - Len(m)] = more[1]
      BY <3>2
    <3>5. more[1] = v
      BY <1>5, <3>1
    <3>6. QED
      BY <3>3, <3>4, <3>5
  <2>5. QED
    BY <1>4, <1>6, <1>9, <2>1, <2>2, <2>3, <2>4 DEF StepAt
<1>13. LowAt(g1, low1, n + 1)
  <2>1. LowAt(g, low, n)
    BY <1>1, <1>2 DEF Recorded
  <2>2. v <= TopInt /\ (\A j \in 1 .. n : v <= g[j]) /\ (v = TopInt \/ \E j \in 1 .. n : v = g[j])
    BY <1>1, <2>1 DEF LowAt
  <2>3. \A j \in 1 .. n + 1 : j \in 1 .. n \/ j = n + 1
    BY <1>2
  <2>4. \A j \in 1 .. n : g[j] \in Nat
    BY <1>2, StackedAreNat
  <2>5. n + 1 \in 1 .. n + 1 /\ \A j \in 1 .. n : j \in 1 .. n + 1
    BY <1>2
  <2>6. v1 <= TopInt
    BY <1>3, <1>4, <2>2
  <2>7. ASSUME NEW j \in 1 .. n + 1 PROVE v1 <= g1[j]
    <3>1. CASE j \in 1 .. n
      <4>1. g1[j] = g[j] /\ g[j] \in Nat /\ v <= g[j]
        BY <1>6, <2>2, <2>4, <3>1
      <4>2. QED
        BY <1>3, <1>4, <4>1
    <3>2. CASE j = n + 1
      BY <1>3, <1>4, <1>6, <3>2
    <3>3. QED
      BY <2>3, <3>1, <3>2
  <2>8. v1 = TopInt \/ \E j \in 1 .. n + 1 : v1 = g1[j]
    BY <1>4, <1>6, <2>2, <2>5
  <2>9. QED
    BY <1>9, <2>6, <2>7, <2>8 DEF LowAt
<1>14. ASSUME NEW i \in 0 .. n + 1, NEW j \in 0 .. n + 1, i < j PROVE at1[i] < at1[j]
  <2>1. CASE j # n + 1
    <3>1. i \in 0 .. n /\ j \in 0 .. n
      <4>1. n \in Nat /\ i \in Nat /\ j \in Nat /\ j <= n + 1
        BY <1>2
      <4> HIDE DEF n
      <4>2. QED
        BY <4>1, <1>14, <2>1
    <3>2. QED
      BY <1>11, <1>14, <3>1
  <2>2. CASE j = n + 1
    <3>1. i \in 0 .. n /\ at1[n] = Len(m) /\ at1[j] > Len(m)
      <4>1. n \in Nat /\ n \in 0 .. n /\ i \in Nat /\ at[n] = Len(m) /\ Len(m) \in Nat
        BY <1>1, <1>2
      <4>2. at1[n] = at[n] /\ at1[j] = Len(m1)
        BY <1>9, <2>2, <4>1
      <4>3. Len(m1) > Len(m)
        BY <1>5, <1>7, <4>1
      <4> HIDE DEF n
      <4>4. i \in 0 .. n
        BY <1>14, <2>2, <4>1
      <4>5. QED
        BY <4>1, <4>2, <4>3, <4>4
    <3>2. i = n \/ i < n
      BY <1>2, <3>1
    <3>3. at1[i] <= at1[n]
      <4>1. CASE i = n
        <5>1. at1[n] \in Nat
          BY <1>2, <1>8, <1>9, <3>1
        <5>2. QED
          BY <4>1, <5>1
      <4>2. CASE i < n
        <5>1. at1[i] < at1[n] /\ at1[i] \in Nat /\ at1[n] \in Nat
          BY <1>2, <1>9, <1>11, <3>1, <4>2
        <5>2. QED
          BY <5>1
      <4>3. QED
        BY <3>2, <4>1, <4>2
    <3>4. at1[i] \in Nat /\ at1[n] \in Nat /\ at1[j] \in Nat
      BY <1>2, <1>9, <3>1
    <3>5. QED
      BY <3>1, <3>3, <3>4
  <2>3. QED
    BY <2>1, <2>2
<1>15. /\ \A i \in 1 .. n + 1 : i \in 1 .. n \/ i = n + 1
       /\ \A i \in 0 .. n + 1 : i \in 0 .. n \/ i = n + 1
       /\ 0 \in 0 .. n /\ at1[0] = 0 /\ low1[0] = TopInt
  BY <1>2, <1>9
<1>16. Recorded(g1, m1, at1, low1)
  BY <1>6, <1>9, <1>11, <1>12, <1>13, <1>14, <1>15 DEF Recorded
<1>17. MinStacked(g1, m1, v1)
  BY <1>6, <1>7, <1>9, <1>16 DEF MinStacked
<1>18. QED
  BY <1>17 DEF m1, g1, v1, more

(* What MinPop leaves.                                                     *)
MinPopped(m, v) ==
  IF Last(m) = v THEN [m |-> Front(Front(m)), v |-> Last(Front(m))]
  ELSE [m |-> Front(m), v |-> v]

LEMMA MinPopRecords ==
  ASSUME NEW g, NEW m, NEW v, MinStacked(g, m, v), g # <<>>
  PROVE  MinStacked(Front(g), MinPopped(m, v).m, MinPopped(m, v).v)
<1> DEFINE n == Len(g)
           k == n - 1
           g1 == Front(g)
           m1 == MinPopped(m, v).m
           v1 == MinPopped(m, v).v
<1>1. PICK at, low : Recorded(g, m, at, low) /\ at[n] = Len(m) /\ low[n] = v
  BY DEF MinStacked
<1>2. /\ g \in Seq(Stacked) /\ n \in Nat /\ n # 0 /\ m \in Seq(Nat) /\ Len(m) \in Nat
      /\ at \in [0 .. n -> Nat] /\ low \in [0 .. n -> Nat]
      /\ at[0] = 0 /\ low[0] = TopInt
  <2>1. g \in Seq(Stacked) /\ n \in Nat /\ m \in Seq(Nat) /\ Len(m) \in Nat /\ n # 0
    BY EmptySeq DEF MinStacked
  <2>2. at \in [0 .. n -> Nat] /\ low \in [0 .. n -> Nat] /\ at[0] = 0 /\ low[0] = TopInt
    BY <1>1 DEF Recorded
  <2>3. QED
    BY <2>1, <2>2
<1>3. /\ g1 \in Seq(Stacked) /\ Len(g1) = k /\ \A i \in 1 .. k : g1[i] = g[i]
  BY <1>2, FrontIs
<1>4. k \in Nat /\ k \in 0 .. n /\ n \in 1 .. n /\ n \in 0 .. n
  BY <1>2
<1> HIDE DEF g1, k, n
<1>5. at[k] \in Nat /\ low[k] \in Nat /\ v \in Nat /\ g[n] \in Nat
  BY <1>1, <1>2, <1>4, StackedAreNat DEF n
<1>6. /\ v = IF g[n] <= low[k] THEN g[n] ELSE low[k]
      /\ Len(m) = at[k] + IF g[n] <= low[k] THEN 2 ELSE 1
      /\ Last(m) = g[n]
      /\ g[n] <= low[k] => m[Len(m) - 1] = low[k]
  <2>1. StepAt(g, m, at, low, n)
    BY <1>1, <1>4 DEF Recorded, n
  <2>2. n - 1 = k
    BY DEF k
  <2>3. QED
    BY <1>1, <2>1, <2>2 DEF StepAt, Last
<1>7. m # <<>>
  <2>1. Len(m) # 0
    BY <1>5, <1>6
  <2>2. QED
    BY <2>1
<1>8. /\ Front(m) \in Seq(Nat) /\ Len(Front(m)) = Len(m) - 1
      /\ \A i \in 1 .. Len(m) - 1 : Front(m)[i] = m[i]
  BY <1>2, <1>7, FrontIs
<1>9. m1 \in Seq(Nat) /\ Len(m1) = at[k] /\ v1 = low[k] /\ \A i \in 1 .. at[k] : m1[i] = m[i]
  <2>1. CASE g[n] <= low[k]
    <3>1. Last(m) = v /\ Len(m) = at[k] + 2
      BY <1>6, <2>1
    <3>2. m1 = Front(Front(m)) /\ v1 = Last(Front(m))
      BY <3>1 DEF MinPopped
    <3>3. Len(Front(m)) = at[k] + 1 /\ Len(Front(m)) # 0 /\ at[k] + 1 \in 1 .. Len(m) - 1
      BY <1>5, <1>8, <3>1
    <3>4. Front(m) # <<>>
      BY <3>3
    <3>5. /\ m1 \in Seq(Nat) /\ Len(m1) = Len(Front(m)) - 1
          /\ \A i \in 1 .. Len(Front(m)) - 1 : m1[i] = Front(m)[i]
      BY <1>8, <3>2, <3>4, FrontIs
    <3>6. Len(Front(m)) - 1 = at[k] /\ \A i \in 1 .. at[k] : i \in 1 .. Len(m) - 1
      BY <1>5, <3>1, <3>3
    <3>7. v1 = m[at[k] + 1]
      BY <1>8, <3>2, <3>3 DEF Last
    <3>8. Len(m) - 1 = at[k] + 1
      BY <1>5, <3>1
    <3> HIDE DEF m1, v1
    <3>9. QED
      BY <1>6, <1>8, <2>1, <3>5, <3>6, <3>7, <3>8
  <2>2. CASE ~(g[n] <= low[k])
    <3>1. Last(m) # v /\ Len(m) = at[k] + 1 /\ v = low[k]
      BY <1>5, <1>6, <2>2
    <3>2. m1 = Front(m) /\ v1 = v
      BY <3>1 DEF MinPopped
    <3>3. Len(m) - 1 = at[k]
      BY <1>5, <3>1
    <3>4. QED
      BY <1>8, <3>1, <3>2, <3>3
  <2>3. QED
    BY <2>1, <2>2
<1> HIDE DEF m1, v1
<1> DEFINE at1 == [i \in 0 .. k |-> at[i]]
           low1 == [i \in 0 .. k |-> low[i]]
<1>10. \A i \in 0 .. k : i \in 0 .. n
  BY <1>2, <1>4 DEF k
<1>11. /\ at1 \in [0 .. k -> Nat] /\ low1 \in [0 .. k -> Nat]
       /\ \A i \in 0 .. k : at1[i] = at[i] /\ low1[i] = low[i]
  BY <1>2, <1>10
<1> HIDE DEF at1, low1
<1>12. /\ \A i \in 1 .. k : StepAt(g1, m1, at1, low1, i)
       /\ \A i, j \in 0 .. k : i < j => at1[i] < at1[j]
       /\ \A i \in 0 .. k : LowAt(g1, low1, i)
  <2>1. Len(g) \in Nat /\ k \in 0 .. Len(g)
    BY <1>2, <1>4 DEF n
  <2>2. Recorded(g, m, at, low)
    BY <1>1
  <2>3. /\ \A i \in 1 .. k : g1[i] = g[i]
        /\ \A i \in 1 .. at[k] : m1[i] = m[i]
        /\ \A i \in 0 .. k : at1[i] = at[i] /\ low1[i] = low[i]
    BY <1>3, <1>9, <1>11
  <2>4. SameTo(g, m, at, low, g1, m1, at1, low1, k)
    BY <2>1, <2>3 DEF SameTo
  <2>5. RecordedTo(g1, m1, at1, low1, k)
    BY <2>2, <2>4, RecordKept
  <2>6. QED
    BY <2>5 DEF RecordedTo
<1>13. 0 \in 0 .. k /\ k \in 0 .. k
  BY <1>4
<1>14. Recorded(g1, m1, at1, low1)
  BY <1>2, <1>3, <1>11, <1>12, <1>13 DEF Recorded
<1>15. at1[Len(g1)] = Len(m1) /\ low1[Len(g1)] = v1
  BY <1>3, <1>9, <1>11, <1>13
<1>16. MinStacked(g1, m1, v1)
  BY <1>3, <1>9, <1>14, <1>15 DEF MinStacked
<1>17. QED
  BY <1>16 DEF g1, m1, v1

-----------------------------------------------------------------------------
(* What the stacks of the two classes hold.                                *)
StackInv ==
  /\ class = "min" => MinStacked(given, minStack, min_val)
  /\ class = "queue" => Queued(given, stack_pop, stack_push)

LEMMA NothingRecorded == MinStacked(<<>>, <<>>, TopInt)
<1> DEFINE at == [i \in {0} |-> 0]
           low == [i \in {0} |-> TopInt]
<1>1. TopInt \in Nat /\ 0 .. 0 = {0} /\ 1 .. 0 = {}
  BY StackAssumption
<1>2. at \in [{0} -> Nat] /\ low \in [{0} -> Nat] /\ at[0] = 0 /\ low[0] = TopInt
  BY <1>1
<1> HIDE DEF at, low
<1>3. LowAt(<<>>, low, 0)
  BY <1>1, <1>2 DEF LowAt
<1>4. Len(<<>>) = 0 /\ <<>> \in Seq(Stacked) /\ <<>> \in Seq(Nat)
  OBVIOUS
<1>5. \A i, j \in {0} : ~(i < j)
  OBVIOUS
<1>6. Recorded(<<>>, <<>>, at, low)
  BY <1>1, <1>2, <1>3, <1>4, <1>5 DEF Recorded
<1>7. QED
  BY <1>2, <1>4, <1>6 DEF MinStacked

LEMMA StackInitInv == StackInit => StackInv
<1>1. Queued(<<>>, <<>>, <<>>)
  BY DEF Queued
<1>2. QED
  BY <1>1, NothingRecorded DEF StackInit, StackInv

LEMMA StackNextInv == StackInv /\ [StackNext]_stackVars => StackInv'
<1> SUFFICES ASSUME StackInv, [StackNext]_stackVars PROVE StackInv'
  OBVIOUS
<1>1. CASE class = "min" /\ \E x \in Stacked : MinPush(x) /\ UNCHANGED class
  <2>1. PICK x \in Stacked : MinPush(x)
    BY <1>1
  <2>2. MinStacked(given, minStack, min_val)
    BY <1>1 DEF StackInv
  <2>3. MinStacked(Append(given, x), minStack \o (IF x <= min_val THEN <<min_val, x>> ELSE <<x>>),
                   Min({x, min_val}))
    BY <2>2, MinPushRecords
  <2>4. MinStacked(given', minStack', min_val')
    BY <2>1, <2>3 DEF MinPush, Give
  <2>5. QED
    BY <1>1, <2>4 DEF StackInv
<1>2. CASE class = "min" /\ MinPop /\ UNCHANGED class
  <2>1. MinStacked(given, minStack, min_val) /\ given # <<>>
    BY <1>2 DEF StackInv, MinPop
  <2>2. MinStacked(Front(given), MinPopped(minStack, min_val).m, MinPopped(minStack, min_val).v)
    BY <2>1, MinPopRecords
  <2>3. minStack' = MinPopped(minStack, min_val).m /\ min_val' = MinPopped(minStack, min_val).v
    BY <1>2 DEF MinPop, MinPopped
  <2>4. MinStacked(given', minStack', min_val')
    BY <1>2, <2>2, <2>3 DEF MinPop
  <2>5. QED
    BY <1>2, <2>4 DEF StackInv
<1>3. CASE class = "queue" /\ \E x \in Stacked : QueuePush(x) /\ UNCHANGED class
  <2>1. PICK x \in Stacked : QueuePush(x)
    BY <1>3
  <2>2. Queued(Append(given, x), stack_pop, Append(stack_push, x))
    BY <1>3, PushQueues DEF StackInv
  <2>3. Queued(given', stack_pop', stack_push')
    BY <2>1, <2>2 DEF QueuePush, Give
  <2>4. QED
    BY <1>3, <2>3 DEF StackInv
<1>4. CASE class = "queue" /\ QueuePop /\ UNCHANGED class
  <2>1. Queued(given, stack_pop, stack_push) /\ given # <<>>
    BY <1>4 DEF StackInv, QueuePop
  <2>2. Queued(given, Transferred.pop, Transferred.push)
    BY <2>1, TransferKeeps
  <2>3. Transferred.pop # <<>>
    <3>1. CASE stack_pop # <<>>
      BY <3>1 DEF Transferred
    <3>2. CASE stack_pop = <<>>
      <4>1. Transferred.push = <<>>
        BY <3>2 DEF Transferred
      <4>2. Len(given) # 0 /\ Len(given) = Len(Transferred.pop) + Len(Transferred.push)
        BY <2>1, <2>2, EmptySeq DEF Queued
      <4>3. QED
        BY <4>1, <4>2
    <3>3. QED
      BY <3>1, <3>2
  <2>4. Queued(Tail(given), Front(Transferred.pop), Transferred.push)
    BY <2>2, <2>3, PopUnqueues
  <2>5. Queued(given', stack_pop', stack_push')
    BY <1>4, <2>4 DEF QueuePop
  <2>6. QED
    BY <1>4, <2>5 DEF StackInv
<1>5. CASE class = "queue" /\ QueuePeek /\ UNCHANGED class
  <2>1. Queued(given, Transferred.pop, Transferred.push)
    BY <1>5, TransferKeeps DEF StackInv
  <2>2. Queued(given', stack_pop', stack_push')
    BY <1>5, <2>1 DEF QueuePeek
  <2>3. QED
    BY <1>5, <2>2 DEF StackInv
<1>6. CASE UNCHANGED class /\ class \in {"freq", "span"}
  BY <1>6 DEF StackInv
<1>7. CASE UNCHANGED stackVars
  BY <1>7 DEF StackInv, stackVars
<1>8. QED
  BY <1>1, <1>2, <1>3, <1>4, <1>5, <1>6, <1>7 DEF StackNext

LEMMA StackSafe == StackSpec => []StackInv
  BY StackInitInv, StackNextInv, PTL DEF StackSpec

(* getMin is the smallest of what MinStack holds, and top its last, however *)
(* the pushes and pops went (stack.cpp:849-867).                           *)
THEOREM MinStaysSmallest == StackSpec => []MinIsSmallest
<1>1. StackInv => MinIsSmallest
  BY RecordTells DEF StackInv, MinIsSmallest
<1>2. QED
  BY <1>1, StackSafe, PTL

(* MyQueue gives back first what was pushed first, whenever its stacks are *)
(* turned over (stack.cpp:889-917).                                        *)
THEOREM QueueStaysInOrder == StackSpec => []QueueInOrder
<1>1. StackInv => QueueInOrder
  BY QueuedIsOrder DEF StackInv, QueueInOrder
<1>2. QED
  BY <1>1, StackSafe, PTL

-----------------------------------------------------------------------------
(* The exercises' classes answer as what they stand for in every behaviour *)
(* of each (HackerLRUCache.cpp and the files of src/leetcode).             *)
THEOREM DesignsAgree ==
  CacheSpec /\ ListSpec /\ SetSpec /\ MapSpec /\ PicksSpec /\ FlipSpec /\ StackSpec
    => []MCDesignsAgree
<1>1. /\ LinkedButForOldHeads /\ TailIsLast /\ SetTellsMembers /\ MapTellsValues
      /\ IndexesAgree /\ FlipsEveryCellOnce /\ MinIsSmallest /\ QueueInOrder
      => MCDesignsAgree
  BY DEF MCDesignsAgree
<1>2. QED
  BY <1>1, CacheStaysLinked, ListKeepsTail, HashSetTells, HashMapTells, PickedOnce,
     FlippedOnce, MinStaysSmallest, QueueStaysInOrder, PTL
-----------------------------------------------------------------------------
(***************************************************************************)
(* ExamRoom of module Calendars.                                           *)
(***************************************************************************)

RoomSeats == 0 .. seats - 1

LEMMA GreatestOf ==
  ASSUME NEW n \in Nat, NEW S, S \subseteq 0 .. n, S # {}
  PROVE  \E x \in S : \A y \in S : y <= x
<1> DEFINE T == {n - x : x \in S}
<1>1. T \subseteq Nat /\ T # {}
  <2>1. \A x \in S : n - x \in Nat
    OBVIOUS
  <2>2. QED
    BY <2>1
<1>2. PICK t \in T : \A y \in T : t <= y
  BY <1>1, LeastOf
<1>3. PICK x \in S : t = n - x
  BY <1>2
<1>4. ASSUME NEW y \in S PROVE y <= x
  <2>1. n - x <= n - y
    BY <1>2, <1>3
  <2>2. x \in Nat /\ y \in Nat
    OBVIOUS
  <2>3. QED
    BY <2>1, <2>2
<1>5. QED
  BY <1>4

LEMMA MinIs ==
  ASSUME NEW S, S \subseteq Nat, NEW x \in S, \A y \in S : x <= y
  PROVE  Min(S) = x
<1>1. \A z \in S : (\A y \in S : z <= y) => z = x
  OBVIOUS
<1>2. QED
  BY <1>1 DEF Min

LEMMA MaxIs ==
  ASSUME NEW S, S \subseteq Nat, NEW x \in S, \A y \in S : y <= x
  PROVE  Max(S) = x
<1>1. \A z \in S : (\A y \in S : z >= y) => z = x
  OBVIOUS
<1>2. \A y \in S : x >= y
  OBVIOUS
<1>3. QED
  BY <1>1, <1>2 DEF Max

(* How far s is from the nearest seat taken.                               *)
Apart(s, t) == IF s < t THEN t - s ELSE s - t
Far(s) == Min({Apart(s, t) : t \in seating})

LEMMA FarIs ==
  ASSUME seating \subseteq RoomSeats, NEW s \in RoomSeats, NEW t \in seating,
         \A u \in seating : Apart(s, t) <= Apart(s, u)
  PROVE  Far(s) = Apart(s, t)
<1>1. \A u \in seating : Apart(s, u) \in Nat
  BY BookingAssumption DEF Apart, RoomSeats
<1>2. {Apart(s, u) : u \in seating} \subseteq Nat
  BY <1>1
<1>3. QED
  BY <1>2, MinIs DEF Far

(* A place that findSeat looks at: how far it is from the nearest other,   *)
(* which no seat up to or from there that it stands for exceeds.           *)
Place(m) ==
  /\ m = [pos |-> m.pos, dist |-> m.dist]
  /\ m.pos \in RoomSeats /\ m.dist \in Nat /\ Far(m.pos) = m.dist

StandsFor(m, s) == Far(s) < m.dist \/ (Far(s) = m.dist /\ m.pos <= s)

LEMMA LeftEnd ==
  ASSUME seating \subseteq RoomSeats, seating # {}
  PROVE  /\ Min(seating) \in seating /\ \A t \in seating : Min(seating) <= t
         /\ Place([pos |-> 0, dist |-> Min(seating)])
         /\ \A s \in RoomSeats : s <= Min(seating) => StandsFor([pos |-> 0, dist |-> Min(seating)], s)
         /\ \A s \in seating : StandsFor([pos |-> 0, dist |-> Min(seating)], s)
<1>1. seats \in Nat \ {0} /\ RoomSeats \subseteq Nat /\ 0 \in RoomSeats
  BY BookingAssumption DEF RoomSeats
<1>2. PICK x \in seating : \A y \in seating : x <= y
  BY <1>1, LeastOf
<1>3. Min(seating) = x
  BY <1>1, <1>2, MinIs
<1>4. x \in Nat /\ \A t \in seating : t \in Nat
  BY <1>1, <1>2
<1>5. ASSUME NEW s \in RoomSeats, s <= x PROVE Far(s) = x - s /\ s \in Nat
  <2>1. s \in Nat
    BY <1>1
  <2>2. Apart(s, x) = x - s /\ \A u \in seating : Apart(s, x) <= Apart(s, u)
    BY <1>2, <1>4, <1>5, <2>1 DEF Apart
  <2>3. QED
    BY <2>1, <2>2, FarIs
<1>6. ASSUME NEW s \in seating PROVE Far(s) = 0 /\ s \in Nat /\ s \in RoomSeats
  <2>1. s \in Nat /\ s \in RoomSeats
    BY <1>1
  <2>2. Apart(s, s) = 0 /\ \A u \in seating : Apart(s, s) <= Apart(s, u)
    BY <1>4, <2>1 DEF Apart
  <2>3. QED
    BY <2>1, <2>2, FarIs
<1>7. Far(0) = x
  <2>1. 0 <= x
    BY <1>4
  <2>2. QED
    BY <1>1, <1>4, <1>5, <2>1
<1> DEFINE m == [pos |-> 0, dist |-> x]
<1>8. m.pos = 0 /\ m.dist = x
  OBVIOUS
<1>9. Place(m)
  BY <1>1, <1>4, <1>7 DEF Place
<1>10. ASSUME NEW s \in RoomSeats, s <= x PROVE StandsFor(m, s)
  BY <1>4, <1>5, <1>8, <1>10 DEF StandsFor
<1>11. ASSUME NEW s \in seating PROVE StandsFor(m, s)
  BY <1>4, <1>6, <1>8 DEF StandsFor
<1>12. QED
  BY <1>2, <1>3, <1>9, <1>10, <1>11

LEMMA RightEnd ==
  ASSUME seating \subseteq RoomSeats, seating # {}
  PROVE  /\ Max(seating) \in seating /\ \A t \in seating : t <= Max(seating)
         /\ Place([pos |-> seats - 1, dist |-> seats - 1 - Max(seating)])
         /\ \A s \in RoomSeats : Max(seating) <= s =>
              StandsFor([pos |-> seats - 1, dist |-> seats - 1 - Max(seating)], s)
<1>1. seats \in Nat \ {0} /\ seats - 1 \in Nat /\ RoomSeats \subseteq Nat /\ seats - 1 \in RoomSeats
      /\ \A s \in RoomSeats : s <= seats - 1
  BY BookingAssumption DEF RoomSeats
<1>2. PICK x \in seating : \A y \in seating : y <= x
  BY <1>1, GreatestOf DEF RoomSeats
<1>3. Max(seating) = x
  BY <1>1, <1>2, MaxIs
<1>4. x \in Nat /\ x <= seats - 1 /\ \A t \in seating : t \in Nat
  BY <1>1, <1>2
<1>5. ASSUME NEW s \in RoomSeats, x <= s PROVE Far(s) = s - x /\ s \in Nat /\ s <= seats - 1
  <2>1. s \in Nat /\ s <= seats - 1
    BY <1>1
  <2>2. Apart(s, x) = s - x /\ \A u \in seating : Apart(s, x) <= Apart(s, u)
    BY <1>2, <1>4, <1>5, <2>1 DEF Apart
  <2>3. QED
    BY <2>1, <2>2, FarIs
<1> DEFINE m == [pos |-> seats - 1, dist |-> seats - 1 - x]
<1>6. m.pos = seats - 1 /\ m.dist = seats - 1 - x /\ m.dist \in Nat
  BY <1>1, <1>4
<1>7. Far(seats - 1) = m.dist
  BY <1>1, <1>4, <1>5, <1>6
<1>8. Place(m)
  BY <1>1, <1>6, <1>7 DEF Place
<1>9. ASSUME NEW s \in RoomSeats, x <= s PROVE StandsFor(m, s)
  BY <1>1, <1>4, <1>5, <1>6, <1>9 DEF StandsFor
<1>10. QED
  BY <1>2, <1>3, <1>8, <1>9

Adjacent(a, b) == a < b /\ \A u \in seating : u <= a \/ b <= u
Middle(a, b) == [pos |-> a + (b - a) \div 2, dist |-> (b - a) \div 2]

LEMMA MiddleOf ==
  ASSUME seating \subseteq RoomSeats, NEW a \in seating, NEW b \in seating, Adjacent(a, b)
  PROVE  /\ Place(Middle(a, b))
         /\ \A s \in RoomSeats : a < s /\ s < b => StandsFor(Middle(a, b), s)
<1>1. seats \in Nat \ {0} /\ RoomSeats \subseteq Nat /\ \A s \in Nat : s <= seats - 1 => s \in RoomSeats
  BY BookingAssumption DEF RoomSeats
<1>2. a \in Nat /\ b \in Nat /\ a < b /\ b <= seats - 1
  BY <1>1 DEF Adjacent, RoomSeats
<1> DEFINE d == (b - a) \div 2
<1>3. d \in Nat /\ d <= b - a - d /\ b - a - d <= d + 1 /\ a + d < b
  BY <1>2
<1> HIDE DEF d
<1>4. ASSUME NEW s \in RoomSeats, a <= s, s <= b
      PROVE  s \in Nat /\ Far(s) = IF s - a <= b - s THEN s - a ELSE b - s
  <2>1. s \in Nat
    BY <1>1
  <2>2. \A u \in seating : u \in Nat /\ (u <= a \/ b <= u)
    BY <1>1 DEF Adjacent
  <2>3. CASE s - a <= b - s
    <3>1. Apart(s, a) = s - a /\ \A u \in seating : Apart(s, a) <= Apart(s, u)
      BY <1>2, <1>4, <2>1, <2>2, <2>3 DEF Apart
    <3>2. QED
      BY <2>1, <2>3, <3>1, FarIs
  <2>4. CASE ~(s - a <= b - s)
    <3>1. Apart(s, b) = b - s /\ \A u \in seating : Apart(s, b) <= Apart(s, u)
      BY <1>2, <1>4, <2>1, <2>2, <2>4 DEF Apart
    <3>2. QED
      BY <2>1, <2>4, <3>1, FarIs
  <2>5. QED
    BY <2>3, <2>4
<1>5. Middle(a, b).pos = a + d /\ Middle(a, b).dist = d
      /\ Middle(a, b) = [pos |-> a + d, dist |-> d]
  BY DEF Middle, d
<1>6. a + d \in RoomSeats /\ a <= a + d /\ a + d <= b
  BY <1>1, <1>2, <1>3
<1>7. Far(a + d) = d
  BY <1>2, <1>3, <1>4, <1>6
<1>8. Place(Middle(a, b))
  BY <1>3, <1>5, <1>6, <1>7 DEF Place
<1>9. ASSUME NEW s \in RoomSeats, a < s, s < b PROVE StandsFor(Middle(a, b), s)
  <2>1. s \in Nat /\ Far(s) = IF s - a <= b - s THEN s - a ELSE b - s
    BY <1>1, <1>2, <1>4, <1>9
  <2>2. QED
    BY <1>2, <1>3, <1>5, <1>9, <2>1 DEF StandsFor
<1>10. QED
  BY <1>8, <1>9

(* Of places there is one that none is better than.                        *)
LEMMA BestExists ==
  ASSUME NEW places, places # {}, \A m \in places : m.pos \in 0 .. seats - 1 /\ m.dist \in Nat,
         NEW far \in Nat, \A m \in places : m.dist <= far
  PROVE  \E best \in places : \A m \in places : ~Better(m, best)
<1> DEFINE D == {m.dist : m \in places}
<1>1. D \subseteq 0 .. far /\ D # {}
  <2>1. \A m \in places : m.dist \in 0 .. far
    OBVIOUS
  <2>2. QED
    BY <2>1
<1>2. PICK d \in D : \A e \in D : e <= d
  BY <1>1, GreatestOf
<1> DEFINE P == {m.pos : m \in {n \in places : n.dist = d}}
<1>3. P \subseteq Nat /\ P # {}
  <2>1. \A m \in places : m.pos \in Nat
    BY BookingAssumption
  <2>2. \E m \in places : m.dist = d
    BY <1>2
  <2>3. QED
    BY <2>1, <2>2
<1>4. PICK q \in P : \A r \in P : q <= r
  BY <1>3, LeastOf
<1>5. PICK best \in places : best.dist = d /\ best.pos = q
  BY <1>4
<1>6. ASSUME NEW m \in places PROVE ~Better(m, best)
  <2>1. m.dist <= d /\ (m.dist = d => q <= m.pos)
    BY <1>2, <1>4
  <2>2. m.dist \in Nat /\ best.dist \in Nat /\ m.pos \in Nat /\ best.pos \in Nat
    BY <1>3, <1>5, BookingAssumption
  <2>3. QED
    BY <1>5, <2>1, <2>2 DEF Better
<1>7. QED
  BY <1>6

(* The place findSeat takes is as far from the others as any.              *)
LEMMA FoundIsFarthest ==
  ASSUME seating \subseteq RoomSeats, seating # {}
  PROVE  /\ FindSeat \in RoomSeats
         /\ \A s \in RoomSeats : Far(s) < Far(FindSeat) \/ (Far(s) = Far(FindSeat) /\ FindSeat <= s)
<1> DEFINE atLeft == [pos |-> 0, dist |-> Min(seating)]
           right == seats - 1 - Max(seating)
           rightEnd == [pos |-> seats - 1, dist |-> right]
           atEnd == IF right > atLeft.dist THEN rightEnd ELSE atLeft
           places == {atEnd} \cup Middles
<1>1. seats \in Nat \ {0} /\ RoomSeats \subseteq Nat /\ \A s \in RoomSeats : s <= seats - 1
  BY BookingAssumption DEF RoomSeats
<1>2. /\ Min(seating) \in seating /\ \A t \in seating : Min(seating) <= t
      /\ Place(atLeft) /\ \A s \in RoomSeats : s <= Min(seating) => StandsFor(atLeft, s)
      /\ \A s \in seating : StandsFor(atLeft, s)
  BY LeftEnd
<1>3. /\ Max(seating) \in seating /\ \A t \in seating : t <= Max(seating)
      /\ Place(rightEnd) /\ \A s \in RoomSeats : Max(seating) <= s => StandsFor(rightEnd, s)
  BY RightEnd
<1>4. \A m \in Middles : \E a, b \in seating : Adjacent(a, b) /\ m = Middle(a, b)
  BY DEF Middles, Adjacent, Middle
<1>5. \A a, b \in seating : Adjacent(a, b) => Middle(a, b) \in Middles
  <2>1. SUFFICES ASSUME NEW a \in seating, NEW b \in seating, Adjacent(a, b)
                 PROVE  Middle(a, b) \in Middles
    OBVIOUS
  <2>2. /\ <<a, b>> \in seating \X seating /\ <<a, b>>[1] = a /\ <<a, b>>[2] = b
        /\ a < b /\ \A u \in seating : u <= a \/ b <= u
    BY <2>1 DEF Adjacent
  <2>3. QED
    BY <2>2 DEF Middles, Middle
<1>6. atLeft.pos = 0 /\ atLeft.dist = Min(seating)
      /\ rightEnd.pos = seats - 1 /\ rightEnd.dist = right
  OBVIOUS
<1>7. Min(seating) \in Nat /\ right \in Nat /\ Max(seating) \in Nat
  <2>1. /\ Min(seating) \in Nat /\ Max(seating) \in Nat /\ Max(seating) <= seats - 1
        /\ seats \in Nat
    BY <1>1, <1>2, <1>3
  <2>2. QED
    BY <2>1
<1>8. atEnd = IF right > Min(seating) THEN rightEnd ELSE atLeft
  BY <1>6
<1> HIDE DEF atLeft, rightEnd, right, atEnd
<1>9. atEnd \in {atLeft, rightEnd} /\ ~Better(atLeft, atEnd) /\ ~Better(rightEnd, atEnd)
  <2>1. CASE right > Min(seating)
    <3>1. atEnd = rightEnd
      BY <1>8, <2>1
    <3>2. Min(seating) < right /\ Min(seating) # right /\ ~(right < right) /\ ~(seats - 1 < seats - 1)
      BY <1>1, <1>7, <2>1
    <3>3. ~(Min(seating) > right) /\ ~(right > right)
      BY <1>7, <3>2
    <3>4. /\ ~Better(atLeft, rightEnd) /\ ~Better(rightEnd, rightEnd)
      BY ONLY <1>6, <3>2, <3>3 DEF Better
    <3>5. QED
      BY <3>1, <3>4
  <2>2. CASE ~(right > Min(seating))
    <3>1. atEnd = atLeft
      BY <1>8, <2>2
    <3>2. QED
      BY <1>1, <1>6, <1>7, <2>2, <3>1 DEF Better
  <2>3. QED
    BY <2>1, <2>2
<1>10. FindSeat = (CHOOSE best \in places : \A m \in places : ~Better(m, best)).pos
  BY DEF FindSeat, atLeft, rightEnd, right, atEnd
<1>11. \A m \in places : Place(m)
  <2>1. \A m \in Middles : Place(m)
    BY <1>4, MiddleOf
  <2>2. QED
    BY <1>2, <1>3, <1>9, <2>1
<1> HIDE DEF places
<1>12. \A m \in places : m.pos \in 0 .. seats - 1 /\ m.dist \in Nat /\ m.dist <= seats
  <2>1. SUFFICES ASSUME NEW m \in places
                 PROVE  m.pos \in 0 .. seats - 1 /\ m.dist \in Nat /\ m.dist <= seats
    OBVIOUS
  <2>2. m.pos \in RoomSeats /\ m.dist \in Nat /\ Far(m.pos) = m.dist
    BY <1>11 DEF Place
  <2>3. Far(m.pos) <= seats
    <3> DEFINE dists == {Apart(m.pos, t) : t \in seating}
    <3>1. \A t \in seating : Apart(m.pos, t) \in Nat /\ Apart(m.pos, t) <= seats
      <4> DEFINE q == m.pos
      <4>1. q \in Nat /\ q <= seats - 1 /\ \A t \in seating : t \in Nat /\ t <= seats - 1
        BY <1>1, <2>2
      <4> HIDE DEF q
      <4>2. \A t \in seating : Apart(q, t) \in Nat /\ Apart(q, t) <= seats
        BY <1>1, <4>1 DEF Apart
      <4>3. QED
        BY <4>2 DEF q
    <3>2. dists \subseteq Nat /\ dists # {} /\ \A x \in dists : x <= seats
      BY <3>1
    <3>3. PICK x \in dists : \A y \in dists : x <= y
      BY <3>2, LeastOf
    <3>4. Min(dists) = x
      BY <3>2, <3>3, MinIs
    <3>5. QED
      BY <3>2, <3>4 DEF Far
  <2>4. QED
    BY <2>2, <2>3 DEF RoomSeats
<1> DEFINE best == CHOOSE b \in places : \A m \in places : ~Better(m, b)
<1>13. best \in places /\ \A m \in places : ~Better(m, best)
  <2>1. places # {}
    BY DEF places
  <2>2. \E b \in places : \A m \in places : ~Better(m, b)
    BY <1>1, <1>12, <2>1, BestExists
  <2>3. QED
    BY <2>2
<1>14. FindSeat = best.pos
  BY <1>10
<1> HIDE DEF best
<1>15. /\ FindSeat \in RoomSeats /\ best.dist \in Nat /\ Far(FindSeat) = best.dist
       /\ FindSeat \in Nat /\ best.pos = FindSeat
  BY <1>1, <1>11, <1>13, <1>14 DEF Place
(* best is none the worse than either end *)
<1>16. ~Better(atLeft, best) /\ ~Better(rightEnd, best)
  <2>1. atEnd \in places /\ ~Better(atEnd, best)
    BY <1>13 DEF places
  <2>2. /\ Place(atEnd) /\ Place(atLeft) /\ Place(rightEnd)
    BY <1>2, <1>3, <1>11, <2>1
  <2>3. \A m : Place(m) => m.pos \in Nat /\ m.dist \in Nat
    BY <1>1 DEF Place
  <2>4. QED
    BY <1>9, <1>15, <2>1, <2>2, <2>3 DEF Better
<1>17. ASSUME NEW s \in RoomSeats
       PROVE  \E m : Place(m) /\ StandsFor(m, s) /\ ~Better(m, best)
  <2>1. CASE s \in seating \/ s <= Min(seating)
    BY <1>2, <1>16, <2>1
  <2>2. CASE Max(seating) <= s
    BY <1>3, <1>16, <2>2
  <2>3. CASE s \notin seating /\ Min(seating) < s /\ s < Max(seating)
    <3> DEFINE below == {t \in seating : t < s}
               above == {t \in seating : s < t}
    <3>1. /\ below \subseteq 0 .. seats /\ below # {}
          /\ above \subseteq Nat /\ above # {} /\ s \in Nat /\ seats \in Nat
      <4>1. \A t \in seating : t \in Nat /\ t <= seats
        BY <1>1
      <4>2. Min(seating) \in below /\ Max(seating) \in above
        BY <1>2, <1>3, <2>3
      <4>3. s \in Nat /\ seats \in Nat
        BY <1>1
      <4>4. \A t \in seating : t \in 0 .. seats
        BY <4>1, <4>3
      <4>5. below \subseteq 0 .. seats /\ above \subseteq Nat
        BY <4>1, <4>4
      <4> HIDE DEF below, above
      <4>6. QED
        BY <4>2, <4>3, <4>5
    <3>2. PICK a \in below : \A t \in below : t <= a
      BY <3>1, GreatestOf
    <3>3. PICK b \in above : \A t \in above : b <= t
      BY <3>1, LeastOf
    <3>4. a \in seating /\ b \in seating /\ a < s /\ s < b /\ a \in Nat /\ b \in Nat
      BY <1>1, <3>2, <3>3
    <3>5. Adjacent(a, b)
      <4>1. ASSUME NEW u \in seating PROVE u <= a \/ b <= u
        <5>1. u \in Nat /\ u # s
          BY <1>1, <2>3
        <5>2. u < s \/ s < u
          BY <3>1, <5>1
        <5>3. u \in below \/ u \in above
          BY <5>2
        <5>4. QED
          BY <3>2, <3>3, <5>3
      <4>2. QED
        BY <3>1, <3>4, <4>1 DEF Adjacent
    <3>6. Place(Middle(a, b)) /\ StandsFor(Middle(a, b), s)
      BY <3>4, <3>5, MiddleOf
    <3>7. Middle(a, b) \in places
      BY <1>5, <3>4, <3>5 DEF places
    <3>8. QED
      BY <1>13, <3>6, <3>7
  <2>4. s \in Nat /\ Min(seating) \in Nat /\ Max(seating) \in Nat
    BY <1>1, <1>7
  <2>5. QED
    BY <2>1, <2>2, <2>3, <2>4
<1>18. ASSUME NEW s \in RoomSeats
       PROVE  Far(s) < Far(FindSeat) \/ (Far(s) = Far(FindSeat) /\ FindSeat <= s)
  <2>1. PICK m : Place(m) /\ StandsFor(m, s) /\ ~Better(m, best)
    BY <1>17
  <2>2. m.dist \in Nat /\ m.pos \in Nat /\ s \in Nat
    BY <1>1, <2>1 DEF Place
  <2>3. m.dist < best.dist \/ (m.dist = best.dist /\ best.pos <= m.pos)
    BY <1>15, <2>1, <2>2 DEF Better
  <2>4. Far(s) < m.dist \/ (Far(s) = m.dist /\ m.pos <= s)
    BY <2>1 DEF StandsFor
  <2>5. Far(s) \in Nat \/ Far(s) < m.dist
    BY <2>2, <2>4
  <2>6. CASE Far(s) = m.dist /\ m.pos <= s
    BY <1>15, <2>2, <2>3, <2>6
  <2>7. CASE Far(s) < m.dist
    <3>1. Far(s) \in Nat
      <4> DEFINE dists == {Apart(s, t) : t \in seating}
      <4>1. \A t \in seating : Apart(s, t) \in Nat
        BY <1>1, <2>2 DEF Apart
      <4>2. dists \subseteq Nat /\ dists # {}
        BY <4>1
      <4>3. PICK x \in dists : \A y \in dists : x <= y
        BY <4>2, LeastOf
      <4>4. QED
        BY <4>2, <4>3, MinIs DEF Far
    <3>2. QED
      BY <1>15, <2>2, <2>3, <2>7, <3>1
  <2>8. QED
    BY <2>4, <2>6, <2>7
<1>19. QED
  BY <1>15, <1>18

-----------------------------------------------------------------------------
RoomInv == seating \subseteq RoomSeats

(* Who comes sits as far from the nearest other as anyone can, on the      *)
(* lowest such seat, for every number of seats and whoever came and left   *)
(* before (leetcodecpp.cpp:2150, 2154-2175).                               *)
THEOREM AlwaysFarthest == RoomSpec => SitsFarthest
<1>1. RoomInit => RoomInv
  BY DEF RoomInit, RoomInv
<1>2. ASSUME seating \subseteq RoomSeats, [RoomNext]_seating
      PROVE  /\ seating' \subseteq RoomSeats
             /\ \A p \in seating' \ seating : p = IF seating = {} THEN 0 ELSE FindSeat
  <2>1. 0 \in RoomSeats /\ (seating # {} => FindSeat \in RoomSeats)
    BY <1>2, FoundIsFarthest, BookingAssumption DEF RoomSeats
  <2>2. CASE SeatOne
    BY <1>2, <2>1, <2>2 DEF SeatOne
  <2>3. CASE \E p \in seating : Leave(p)
    BY <1>2, <2>3 DEF Leave
  <2>4. CASE seating' = seating
    BY <1>2, <2>4
  <2>5. QED
    BY <1>2, <2>2, <2>3, <2>4 DEF RoomNext
<1> DEFINE F(s) == Min({IF s < t THEN t - s ELSE s - t : t \in seating})
           Farthest == \A p \in seating' \ seating :
                         /\ seating # {} =>
                              \A s \in 0 .. seats - 1 : F(s) < F(p) \/ (F(s) = F(p) /\ p <= s)
                         /\ seating = {} => p = 0
<1>3. ASSUME seating \subseteq RoomSeats, [RoomNext]_seating PROVE Farthest
  <2>1. \A s : F(s) = Far(s)
    BY DEF Far, Apart
  <2> HIDE DEF F
  <2>2. QED
    BY <1>2, <1>3, <2>1, FoundIsFarthest DEF RoomSeats
<1>4. SitsFarthest <=> [][Farthest]_seating
  BY DEF SitsFarthest
<1> HIDE DEF Farthest
<1>5. RoomInv /\ [RoomNext]_seating => RoomInv' /\ Farthest
  BY <1>2, <1>3 DEF RoomInv, RoomSeats
<1>6. QED
  BY <1>1, <1>4, <1>5, PTL DEF RoomSpec

-----------------------------------------------------------------------------
(***************************************************************************)
(* Schedule of module Calendars.                                           *)
(***************************************************************************)

(* The differences are those of the tables promised.                       *)
DayInv ==
  /\ promised \in [DaySlots -> 0 .. tables]
  /\ schedule = [s \in DaySlots |-> IF s = 0 THEN promised[0] ELSE promised[s] - promised[s - 1]]
  /\ promised[NumSlots - 1] = 0

LEMMA DayConstants ==
  /\ NumSlots \in Nat /\ Stay \in Nat /\ Stay >= 2 /\ Stay < NumSlots /\ Reach \in Nat
  /\ tables \in Nat /\ DaySlots = 0 .. NumSlots - 1
  /\ \A min \in Minutes : TimeToSlot(min) \in Nat
  /\ \A people \in People : TablesFor(people) \in Nat
<1>1. /\ NumSlots \in Nat /\ Stay \in Nat /\ Stay >= 2 /\ Stay < NumSlots /\ Reach \in Nat
      /\ tables \in Nat /\ persons_per_table \in Nat \ {0} /\ open_time \in Nat
      /\ \A min \in Minutes : min \in Nat
      /\ \A people \in People : people \in Nat \ {0}
  BY ScheduleAssumption
<1>2. \A n \in Nat : n \div 15 \in Nat
  OBVIOUS
<1>3. \A n \in Nat : n \div persons_per_table \in Nat
  BY <1>1
<1>4. ASSUME NEW min \in Minutes PROVE TimeToSlot(min) \in Nat
  <2>1. CASE min < open_time
    BY <2>1 DEF TimeToSlot
  <2>2. CASE ~(min < open_time)
    <3>1. min - open_time \in Nat
      BY <1>1, <2>2
    <3>2. QED
      BY <1>2, <2>2, <3>1 DEF TimeToSlot
  <2>3. QED
    BY <2>1, <2>2
<1>5. ASSUME NEW people \in People PROVE TablesFor(people) \in Nat
  <2>1. people + persons_per_table - 1 \in Nat
    BY <1>1
  <2>2. QED
    BY <1>3, <2>1 DEF TablesFor
<1>6. QED
  BY <1>1, <1>4, <1>5 DEF DaySlots

(* The running sum of the differences.                                     *)
AreSums(f, s) ==
  f = [i \in 0 .. s |-> IF i = 0 THEN schedule[0] ELSE f[i - 1] + schedule[i]]

LEMMA UseIsPromised ==
  ASSUME DayInv, NEW s \in DaySlots
  PROVE  InUse(s) = promised[s]
<1> DEFINE g == [i \in 0 .. s |-> promised[i]]
           f == CHOOSE h : AreSums(h, s)
<1>1. s \in Nat /\ 0 .. s \subseteq DaySlots
  BY DayConstants
<1>2. \A i \in DaySlots : promised[i] \in Nat
  BY DayConstants DEF DayInv
<1>3. \A i \in 0 .. s : i # 0 => /\ i - 1 \in 0 .. s /\ i \in Nat /\ promised[i] \in Nat
                                 /\ promised[i - 1] \in Nat
                                 /\ promised[i - 1] + schedule[i] = promised[i]
  <2>1. SUFFICES ASSUME NEW i \in 0 .. s, i # 0
                 PROVE  /\ i - 1 \in 0 .. s /\ i \in Nat /\ promised[i] \in Nat
                        /\ promised[i - 1] \in Nat
                        /\ promised[i - 1] + schedule[i] = promised[i]
    OBVIOUS
  <2>2. i - 1 \in 0 .. s /\ i \in Nat /\ i \in DaySlots /\ i - 1 \in DaySlots
    BY <1>1, <2>1
  <2>3. schedule[i] = promised[i] - promised[i - 1]
    BY <2>1, <2>2 DEF DayInv
  <2>4. QED
    BY <1>2, <2>2, <2>3
<1>4. schedule[0] = promised[0] /\ 0 \in 0 .. s
  BY <1>1 DEF DayInv
<1>5. AreSums(g, s)
  <2>1. \A i \in 0 .. s : g[i] = IF i = 0 THEN schedule[0] ELSE g[i - 1] + schedule[i]
    BY <1>3, <1>4
  <2>2. g = [i \in 0 .. s |-> g[i]]
    OBVIOUS
  <2> HIDE DEF g
  <2>3. QED
    BY <2>1, <2>2 DEF AreSums
<1> HIDE DEF g
<1>6. AreSums(f, s)
  BY <1>5
<1>7. InUse(s) = f[s]
  BY DEF InUse, AreSums
<1> HIDE DEF f
<1> DEFINE P == {n \in Nat : n <= s => f[n] = promised[n]}
<1>8. 0 \in P
  BY <1>4, <1>6 DEF AreSums
<1>9. ASSUME NEW n \in Nat, n \in P PROVE n + 1 \in P
  <2>1. SUFFICES ASSUME n + 1 <= s PROVE f[n + 1] = promised[n + 1]
    OBVIOUS
  <2>2. n + 1 \in 0 .. s /\ n + 1 # 0 /\ (n + 1) - 1 = n /\ n <= s
    BY <1>1, <2>1
  <2>3. f[n + 1] = f[n] + schedule[n + 1] /\ f[n] = promised[n]
    BY <1>6, <1>9, <2>2 DEF AreSums
  <2>4. QED
    BY <1>3, <2>2, <2>3
<1>10. s \in P
  <2> HIDE DEF P
  <2>1. QED
    BY <1>1, <1>8, <1>9, Induction
<1>11. QED
  BY <1>1, <1>7, <1>10

LEMMA DayStarts == ScheduleInit => DayInv
<1> SUFFICES ASSUME ScheduleInit PROVE DayInv
  OBVIOUS
<1>1. \A s \in DaySlots : s # 0 => s - 1 \in DaySlots
  BY DayConstants
<1>2. NumSlots - 1 \in DaySlots /\ 0 \in DaySlots /\ 0 \in 0 .. tables
  BY DayConstants
<1>3. \A s \in DaySlots : promised[s] = 0
  BY DEF ScheduleInit
<1>4. \A s \in DaySlots : (IF s = 0 THEN promised[0] ELSE promised[s] - promised[s - 1]) = 0
  BY <1>1, <1>2, <1>3
<1>5. QED
  BY <1>2, <1>3, <1>4 DEF ScheduleInit, DayInv

LEMMA DayStep ==
  ASSUME DayInv, NEW g \in Guests, NEW min \in Minutes, NEW people \in People,
         TakeReservation(g, min, people)
  PROVE  DayInv'
<1> DEFINE slot == TimeToSlot(min)
           T == TablesFor(people)
           In(s) == s \in slot .. slot + Stay - 1
<1>1. /\ NumSlots \in Nat /\ Stay \in Nat /\ Stay >= 2 /\ tables \in Nat
      /\ slot \in Nat /\ T \in Nat /\ slot + Stay < NumSlots
      /\ slot \in DaySlots /\ slot + Stay \in DaySlots
  BY DayConstants DEF TakeReservation, Fits
<1>2. /\ schedule' = [schedule EXCEPT ![slot] = @ + T, ![slot + Stay] = @ - T]
      /\ promised' = [s \in DaySlots |-> IF s \in slot .. slot + Stay - 1 THEN promised[s] + T
                                         ELSE promised[s]]
  BY DEF TakeReservation
<1>3. \A s \in DaySlots : promised[s] \in Nat /\ promised[s] <= tables /\ s \in Nat /\ s < NumSlots
  BY DayConstants DEF DayInv
<1>4. \A s \in slot .. slot + Stay - 1 : s \in DaySlots /\ promised[s] + T <= tables
  <2>1. SUFFICES ASSUME NEW s \in slot .. slot + Stay - 1
                 PROVE  s \in DaySlots /\ promised[s] + T <= tables
    OBVIOUS
  <2>2. s \in DaySlots
    BY <1>1, DayConstants
  <2>3. InUse(s) + T <= tables
    BY DEF TakeReservation, Fits
  <2>4. QED
    BY <2>2, <2>3, UseIsPromised
<1> HIDE DEF slot, T
<1>5. promised' \in [DaySlots -> 0 .. tables]
  <2>1. ASSUME NEW s \in DaySlots
        PROVE  (IF s \in slot .. slot + Stay - 1 THEN promised[s] + T ELSE promised[s]) \in 0 .. tables
    BY <1>1, <1>3, <1>4
  <2>2. QED
    BY <1>2, <2>1
<1>6. promised'[NumSlots - 1] = 0
  <2>1. NumSlots - 1 \in DaySlots /\ NumSlots - 1 \notin slot .. slot + Stay - 1
    BY <1>1, DayConstants
  <2>2. QED
    BY <1>2, <2>1 DEF DayInv
<1>7. \A s \in DaySlots :
        schedule'[s] = IF s = slot THEN schedule[s] + T
                       ELSE IF s = slot + Stay THEN schedule[s] - T ELSE schedule[s]
  <2>1. slot # slot + Stay /\ DOMAIN schedule = DaySlots
    BY <1>1 DEF DayInv
  <2>2. QED
    BY <1>1, <1>2, <2>1
<1>8. ASSUME NEW s \in DaySlots
      PROVE  schedule'[s] = IF s = 0 THEN promised'[0] ELSE promised'[s] - promised'[s - 1]
  <2>1. s \in Nat /\ promised[s] \in Nat /\ (s # 0 => s - 1 \in DaySlots /\ promised[s - 1] \in Nat)
    BY <1>1, <1>3, DayConstants
  <2>2. schedule[s] = IF s = 0 THEN promised[0] ELSE promised[s] - promised[s - 1]
    BY DEF DayInv
  <2>3. promised'[s] = IF slot <= s /\ s < slot + Stay THEN promised[s] + T ELSE promised[s]
    BY <1>1, <1>2, <2>1
  <2>4. s # 0 => promised'[s - 1] = IF slot <= s - 1 /\ s - 1 < slot + Stay
                                    THEN promised[s - 1] + T ELSE promised[s - 1]
    BY <1>1, <1>2, <2>1
  <2>5. CASE s = 0
    <3>1. s # slot + Stay
      BY <1>1, <2>1, <2>5
    <3>2. (s = slot) <=> (slot <= s /\ s < slot + Stay)
      BY <1>1, <2>5
    <3>3. QED
      BY <1>7, <2>2, <2>3, <2>5, <3>1, <3>2
  <2>6. CASE s # 0 /\ s = slot
    <3>1. ~(slot <= s - 1) /\ slot <= s /\ s < slot + Stay
      BY <1>1, <2>6
    <3>2. QED
      BY <1>1, <1>7, <2>1, <2>2, <2>3, <2>4, <2>6, <3>1
  <2>7. CASE s # 0 /\ s = slot + Stay
    <3>1. slot <= s - 1 /\ s - 1 < slot + Stay /\ ~(s < slot + Stay) /\ s # slot
      BY <1>1, <2>7
    <3>2. QED
      BY <1>1, <1>7, <2>1, <2>2, <2>3, <2>4, <2>7, <3>1
  <2>8. CASE s # 0 /\ s # slot /\ s # slot + Stay
    <3>1. (slot <= s - 1 /\ s - 1 < slot + Stay) <=> (slot <= s /\ s < slot + Stay)
      BY <1>1, <2>1, <2>8
    <3>2. QED
      BY <1>1, <1>7, <2>1, <2>2, <2>3, <2>4, <2>8, <3>1
  <2>9. QED
    BY <2>5, <2>6, <2>7, <2>8
<1>9. schedule' = [s \in DaySlots |-> schedule'[s]]
  BY <1>2 DEF DayInv
<1>10. QED
  <2>1. schedule' = [s \in DaySlots |-> IF s = 0 THEN promised'[0] ELSE promised'[s] - promised'[s - 1]]
    BY <1>8, <1>9
  <2>2. DaySlots' = DaySlots
    OBVIOUS
  <2>3. QED
    BY <1>5, <1>6, <2>1, <2>2 DEF DayInv

LEMMA DayNext == DayInv /\ [ScheduleNext]_scheduleVars => DayInv'
<1>1. ASSUME DayInv, NEW g \in Guests, Checkin(g) PROVE DayInv'
  BY <1>1 DEF Checkin, DayInv, DaySlots
<1>2. ASSUME DayInv, UNCHANGED scheduleVars PROVE DayInv'
  BY <1>2 DEF scheduleVars, DayInv, DaySlots
<1>3. QED
  BY <1>1, <1>2, DayStep DEF ScheduleNext

LEMMA DaySound == DayInv => NeverOverbooked
<1> SUFFICES ASSUME DayInv PROVE NeverOverbooked
  OBVIOUS
<1>1. NumSlots - 1 \in DaySlots
  BY DayConstants
<1>2. \A s \in DaySlots : promised[s] <= tables
  BY DayConstants DEF DayInv
<1>3. InUse(NumSlots - 1) = 0
  BY <1>1, UseIsPromised DEF DayInv
<1>4. QED
  BY <1>2, <1>3, UseIsPromised DEF NeverOverbooked

-----------------------------------------------------------------------------
(* The walk of alternate_reservation_within_2hr over the slots "good" that *)
(* have the tables, from "from" on: what it has kept at slot i.     *)
RunFrom(good, from, i) ==
  {j \in from .. i : j > i - Stay + 1 /\ j .. i \subseteq good}

Kept(good, from, i) ==
  [start |-> IF RunFrom(good, from, i) = {} THEN -1 ELSE Min(RunFrom(good, from, i)),
   found |-> {s \in from .. i : s + Stay - 1 <= i /\ s .. s + Stay - 1 \subseteq good}]

Walked(before, isGood, i, from) ==
  IF i < from THEN [start |-> -1, found |-> {}]
  ELSE IF ~isGood THEN [before EXCEPT !.start = -1]
       ELSE IF before.start < 0 THEN [before EXCEPT !.start = i]
       ELSE IF i - before.start = Stay - 1
            THEN [start |-> before.start + 1, found |-> before.found \cup {before.start}]
       ELSE before

LEMMA KeptBefore ==
  ASSUME NEW good, NEW from \in Nat, NEW isGood, NEW before
  PROVE  Kept(good, from, from - 1) = Walked(before, isGood, from - 1, from)
<1>1. from .. from - 1 = {} /\ from - 1 < from
  OBVIOUS
<1>2. RunFrom(good, from, from - 1) = {}
  BY <1>1 DEF RunFrom
<1>3. QED
  BY <1>1, <1>2 DEF Kept, Walked

(* A run that has begun goes on.                                           *)
LEMMA RunOnward ==
  ASSUME NEW good, NEW a \in Int, NEW i \in Int
  PROVE  a .. i \subseteq good <=> (a .. i - 1 \subseteq good /\ (a <= i => i \in good))
<1>1. \A k \in a .. i : k \in a .. i - 1 \/ k = i
  OBVIOUS
<1>2. a .. i - 1 \subseteq a .. i /\ (a <= i => i \in a .. i)
  OBVIOUS
<1>3. a > i => a .. i = {} /\ a .. i - 1 = {}
  OBVIOUS
<1>4. \A k \in a .. i : a <= i
  OBVIOUS
<1>5. QED
  BY <1>1, <1>2, <1>3, <1>4

LEMMA KeptAfter ==
  ASSUME NEW good, NEW from \in Nat, NEW i \in Nat, from <= i
  PROVE  Kept(good, from, i) = Walked(Kept(good, from, i - 1), i \in good, i, from)
<1> DEFINE b == Kept(good, from, i - 1)
           R == RunFrom(good, from, i)
           R0 == RunFrom(good, from, i - 1)
           F == {s \in from .. i : s + Stay - 1 <= i /\ s .. s + Stay - 1 \subseteq good}
           F0 == {s \in from .. i - 1 : s + Stay - 1 <= i - 1 /\ s .. s + Stay - 1 \subseteq good}
           e == i - Stay + 1
<1>1. Stay \in Nat /\ Stay >= 2 /\ e \in Int /\ e < i /\ e + Stay - 1 = i
  BY DayConstants
<1>2. b = [start |-> IF R0 = {} THEN -1 ELSE Min(R0), found |-> F0]
  BY DEF Kept
<1>3. Kept(good, from, i) = [start |-> IF R = {} THEN -1 ELSE Min(R), found |-> F]
  BY DEF Kept
<1>4. R \subseteq Nat /\ R0 \subseteq Nat
  BY DEF RunFrom
<1>5. \A j : j \in R <=> j \in Nat /\ from <= j /\ j <= i /\ j > e /\ j .. i \subseteq good
  BY <1>1 DEF RunFrom
<1>6. \A j : j \in R0 <=> j \in Nat /\ from <= j /\ j <= i - 1 /\ j >= e /\ j .. i - 1 \subseteq good
  <2>1. (i - 1) - Stay + 1 = e - 1 /\ \A j \in Nat : j > e - 1 <=> j >= e
    BY <1>1
  <2>2. QED
    BY <1>1, <2>1 DEF RunFrom
(* the only new find can be the visit that ends here *)
<1>7. \A s : s \in F <=> s \in F0 \/ (s = e /\ from <= e /\ e .. i \subseteq good)
  <2>1. ASSUME NEW s \in F, s # e PROVE s \in F0
    BY <1>1, <2>1
  <2>2. F0 \subseteq F
    BY <1>1
  <2>3. e \in F <=> from <= e /\ e .. i \subseteq good
    BY <1>1
  <2> HIDE DEF F, F0, e
  <2>4. QED
    BY <2>1, <2>2, <2>3
<1>8. i - 1 \in Int /\ i \in Int
  OBVIOUS
<1> HIDE DEF R, R0, F, F0, e
<1>9. \A j \in Int : j .. i \subseteq good <=> (j .. i - 1 \subseteq good /\ (j <= i => i \in good))
  BY <1>8, RunOnward
<1>10. CASE i \notin good
  <2>1. R = {}
    BY <1>5, <1>9, <1>10
  <2>2. F = F0
    BY <1>1, <1>7, <1>9, <1>10
  <2>3. [b EXCEPT !.start = -1] = [start |-> -1, found |-> F0]
    BY <1>2
  <2>4. Walked(b, i \in good, i, from) = [b EXCEPT !.start = -1]
    BY <1>10 DEF Walked
  <2>5. QED
    BY <1>3, <2>1, <2>2, <2>3, <2>4
<1>11. CASE i \in good /\ R0 = {}
  <2>1. i - 1 \in good => i - 1 < from
    <3>1. SUFFICES ASSUME i - 1 \in good, from <= i - 1 PROVE FALSE
      OBVIOUS
    <3>2. i - 1 \in Nat /\ i - 1 >= e /\ (i - 1) .. (i - 1) = {i - 1}
      BY <1>1, <3>1
    <3>3. i - 1 \in R0
      BY <1>6, <3>1, <3>2
    <3>4. QED
      BY <1>11, <3>3
  <2>2. ASSUME NEW j \in Nat, from <= j, j < i, j .. i \subseteq good PROVE FALSE
    <3>1. i - 1 \in j .. i /\ from <= i - 1
      BY <2>2
    <3>2. QED
      BY <2>1, <2>2, <3>1
  <2>3. i .. i = {i} /\ i > e
    BY <1>1
  <2>4. R = {i}
    <3>1. i \in R
      BY <1>5, <1>11, <2>3
    <3>2. \A j \in R : j = i
      BY <1>5, <2>2
    <3>3. QED
      BY <3>1, <3>2
  <2>5. Min(R) = i
    BY <2>4, MinIs
  <2>6. F = F0
    <3>1. ~(from <= e /\ e .. i \subseteq good)
      <4>1. from <= e => e \in Nat
        BY <1>1
      <4>2. QED
        BY <1>1, <2>2, <4>1
    <3>2. QED
      BY <1>7, <3>1
  <2>7. b.start = -1 /\ [b EXCEPT !.start = i] = [start |-> i, found |-> F0]
    BY <1>2, <1>11
  <2>8. Walked(b, i \in good, i, from) = [b EXCEPT !.start = i]
    BY <1>11, <2>7 DEF Walked
  <2>9. QED
    BY <1>3, <2>4, <2>5, <2>6, <2>7, <2>8
<1>12. CASE i \in good /\ R0 # {}
  <2>1. PICK a \in R0 : \A j \in R0 : a <= j
    BY <1>4, <1>12, LeastOf
  <2>2. Min(R0) = a
    BY <1>4, <2>1, MinIs
  <2>3. a \in Nat /\ from <= a /\ a <= i - 1 /\ a >= e /\ a .. i - 1 \subseteq good /\ a .. i \subseteq good
    BY <1>6, <1>9, <1>12, <2>1
  <2>4. b = [start |-> a, found |-> F0] /\ b.start = a /\ b.found = F0
    BY <1>2, <1>12, <2>2
  <2>5. CASE i - a = Stay - 1
    <3>1. a = e
      BY <1>1, <2>3, <2>5
    <3>2. F = F0 \cup {a}
      BY <1>7, <2>3, <3>1
    <3>3. a + 1 \in R
      <4>1. a + 1 \in Nat /\ from <= a + 1 /\ a + 1 <= i /\ a + 1 > e
        BY <1>1, <2>3, <3>1
      <4>2. a + 1 .. i \subseteq a .. i
        BY <2>3
      <4>3. QED
        BY <1>5, <2>3, <4>1, <4>2
    <3>4. \A j \in R : a + 1 <= j
      BY <1>1, <1>4, <1>5, <2>3, <3>1
    <3>5. Min(R) = a + 1 /\ R # {}
      BY <1>4, <3>3, <3>4, MinIs
    <3>6. Walked(b, i \in good, i, from) = [start |-> a + 1, found |-> F0 \cup {a}]
      <4>1. ~(b.start < 0) /\ ~(i < from) /\ i - b.start = Stay - 1
        BY <2>3, <2>4, <2>5
      <4>2. b.start + 1 = a + 1 /\ b.found \cup {b.start} = F0 \cup {a}
        BY <2>4
      <4> HIDE DEF b
      <4>3. QED
        BY <1>12, <4>1, <4>2 DEF Walked
    <3>7. QED
      BY <1>3, <3>2, <3>5, <3>6
  <2>6. CASE i - a # Stay - 1
    <3>1. a > e
      BY <1>1, <2>3, <2>6
    <3>2. a \in R
      BY <1>5, <2>3, <3>1
    <3>3. ASSUME NEW j \in R PROVE a <= j
      <4>1. j \in Nat /\ from <= j /\ j <= i /\ j > e /\ j .. i - 1 \subseteq good
        BY <1>5, <1>9
      <4>2. CASE j <= i - 1
        <5>1. j \in R0
          BY <1>1, <1>6, <4>1, <4>2
        <5>2. QED
          BY <2>1, <5>1
      <4>3. CASE ~(j <= i - 1)
        BY <2>3, <4>1, <4>3
      <4>4. QED
        BY <4>2, <4>3
    <3>4. Min(R) = a /\ R # {}
      BY <1>4, <3>2, <3>3, MinIs
    <3>5. F = F0
      <4>1. SUFFICES ASSUME from <= e, e .. i \subseteq good PROVE FALSE
        BY <1>7
      <4>2. e \in Nat /\ e <= i - 1 /\ e .. i - 1 \subseteq good
        BY <1>1, <1>9, <4>1
      <4>3. e \in R0
        BY <1>6, <4>1, <4>2
      <4>4. a <= e
        BY <2>1, <4>3
      <4>5. QED
        BY <2>3, <3>1, <4>2, <4>4
    <3>6. Walked(b, i \in good, i, from) = b
      BY <1>12, <2>3, <2>4, <2>6 DEF Walked
    <3>7. QED
      BY <1>3, <2>4, <3>4, <3>5, <3>6
  <2>7. QED
    BY <2>5, <2>6
<1>13. QED
  BY <1>10, <1>11, <1>12

-----------------------------------------------------------------------------
(* The walk as the function it is, and where it begins and ends.           *)
AreWalked(f, from, finish, T) ==
  f = [i \in from - 1 .. finish |-> Walked(f[i - 1], InUse(i) + T <= tables, i, from)]

FirstSlot(min) == MaxOf(0, TimeToSlot(min) - Reach)
LastSlot(min) == MaxOf(FirstSlot(min), MinOf(NumSlots - 1, TimeToSlot(min) + Reach + Stay)) - 1

LEMMA WalkIs ==
  ASSUME NEW from \in Nat, NEW finish \in Int, finish >= from - 1, NEW T
  PROVE  (CHOOSE h : AreWalked(h, from, finish, T))[finish]
           = Kept({i \in from .. finish : InUse(i) + T <= tables}, from, finish)
<1> DEFINE good == {i \in from .. finish : InUse(i) + T <= tables}
           g == [i \in from - 1 .. finish |-> Kept(good, from, i)]
           f == CHOOSE h : AreWalked(h, from, finish, T)
<1>1. \A i \in from .. finish : (i \in good <=> InUse(i) + T <= tables)
  OBVIOUS
<1> HIDE DEF good
<1>2. AreWalked(g, from, finish, T)
  <2>1. ASSUME NEW i \in from - 1 .. finish
        PROVE  g[i] = Walked(g[i - 1], InUse(i) + T <= tables, i, from)
    <3>1. CASE i = from - 1
      <4>1. g[i] = Kept(good, from, from - 1)
        BY <3>1
      <4> HIDE DEF g
      <4>2. QED
        BY <3>1, <4>1, KeptBefore
    <3>2. CASE i # from - 1
      <4>1. i \in Nat /\ from <= i /\ i \in from .. finish /\ i - 1 \in from - 1 .. finish
        BY <3>2
      <4>2. g[i] = Kept(good, from, i) /\ g[i - 1] = Kept(good, from, i - 1)
        BY <4>1
      <4>3. Kept(good, from, i) = Walked(Kept(good, from, i - 1), i \in good, i, from)
        BY <4>1, KeptAfter
      <4>4. i \in good <=> InUse(i) + T <= tables
        BY <1>1, <4>1
      <4> HIDE DEF g
      <4>5. CASE i \in good
        <5>1. Walked(g[i - 1], i \in good, i, from) = Walked(g[i - 1], InUse(i) + T <= tables, i, from)
          BY <4>4, <4>5 DEF Walked
        <5>2. QED
          BY <4>2, <4>3, <5>1
      <4>6. CASE i \notin good
        <5>1. Walked(g[i - 1], i \in good, i, from) = Walked(g[i - 1], InUse(i) + T <= tables, i, from)
          BY <4>4, <4>6 DEF Walked
        <5>2. QED
          BY <4>2, <4>3, <5>1
      <4>7. QED
        BY <4>5, <4>6
    <3>3. QED
      BY <3>1, <3>2
  <2>2. g = [i \in from - 1 .. finish |-> g[i]]
    OBVIOUS
  <2> HIDE DEF g
  <2>3. QED
    BY <2>1, <2>2 DEF AreWalked
<1> HIDE DEF g
<1>3. AreWalked(f, from, finish, T)
  BY <1>2
<1> HIDE DEF f
<1>4. ASSUME NEW i \in from - 1 .. finish
      PROVE  f[i] = Walked(f[i - 1], InUse(i) + T <= tables, i, from)
  BY <1>3 DEF AreWalked
<1> DEFINE P == {n \in Nat : from - 1 + n <= finish => f[from - 1 + n] = Kept(good, from, from - 1 + n)}
<1>5. 0 \in P
  <2>1. from - 1 \in from - 1 .. finish /\ from - 1 + 0 = from - 1
    OBVIOUS
  <2>2. f[from - 1] = Kept(good, from, from - 1)
    BY <1>4, <2>1, KeptBefore
  <2>3. QED
    BY <2>1, <2>2
<1>6. ASSUME NEW n \in Nat, n \in P PROVE n + 1 \in P
  <2>1. SUFFICES ASSUME from - 1 + (n + 1) <= finish
                 PROVE  f[from - 1 + (n + 1)] = Kept(good, from, from - 1 + (n + 1))
    OBVIOUS
  <2> DEFINE i == from - 1 + (n + 1)
  <2>2. i \in Nat /\ from <= i /\ i \in from .. finish /\ i \in from - 1 .. finish
    BY <2>1
  <2>3. from - 1 + n <= finish /\ from - 1 + n = i - 1
    BY <2>1
  <2>4. f[i - 1] = Kept(good, from, i - 1)
    BY <1>6, <2>3
  <2> HIDE DEF i
  <2>5. f[i] = Walked(Kept(good, from, i - 1), InUse(i) + T <= tables, i, from)
    BY <1>4, <2>2, <2>4
  <2>6. Kept(good, from, i) = Walked(Kept(good, from, i - 1), i \in good, i, from)
    BY <2>2, KeptAfter
  <2>7. i \in good <=> InUse(i) + T <= tables
    BY <1>1, <2>2
  <2>8. f[i] = Kept(good, from, i)
    <3>1. CASE i \in good
      BY <2>5, <2>6, <2>7, <3>1 DEF Walked
    <3>2. CASE i \notin good
      BY <2>5, <2>6, <2>7, <3>2 DEF Walked
    <3>3. QED
      BY <3>1, <3>2
  <2>9. QED
    BY <2>8 DEF i
<1>7. finish - (from - 1) \in Nat /\ from - 1 + (finish - (from - 1)) = finish
  OBVIOUS
<1>8. finish - (from - 1) \in P
  <2> HIDE DEF P
  <2>1. QED
    BY <1>5, <1>6, <1>7, Induction
<1>9. f[finish] = Kept(good, from, finish)
  BY <1>7, <1>8
<1>10. QED
  BY <1>9 DEF f, good

(* Whatever is taken, the slots offered are those that fit near the wish.  *)
LEMMA OffersFit == OffersWhatFits
<1>1. SUFFICES ASSUME NEW min \in Minutes, NEW people \in People
               PROVE  Alternates(min, people)
                        = {s \in DaySlots : Fits(s, people) /\ s - TimeToSlot(min) \in -Reach .. Reach}
  BY DEF OffersWhatFits
<1> DEFINE slot == TimeToSlot(min)
           T == TablesFor(people)
           from == FirstSlot(min)
           finish == LastSlot(min)
           good == {i \in from .. finish : InUse(i) + T <= tables}
           found == {s \in from .. finish : s + Stay - 1 <= finish /\ s .. s + Stay - 1 \subseteq good}
<1>2. /\ NumSlots \in Nat /\ Stay \in Nat /\ Stay >= 2 /\ Stay < NumSlots /\ Reach \in Nat
      /\ slot \in Nat /\ T \in Nat /\ DaySlots = 0 .. NumSlots - 1
  BY DayConstants
<1>3. Alternates(min, people) = (CHOOSE h : AreWalked(h, from, finish, T))[finish].found
  BY DEF Alternates, AreWalked, Walked, FirstSlot, LastSlot
<1> HIDE DEF slot, T
<1>4. from = IF 0 > slot - Reach THEN 0 ELSE slot - Reach
  BY DEF FirstSlot, MaxOf, slot
<1>5. finish = (IF from > (IF NumSlots - 1 < slot + Reach + Stay THEN NumSlots - 1
                         ELSE slot + Reach + Stay)
              THEN from
              ELSE IF NumSlots - 1 < slot + Reach + Stay THEN NumSlots - 1
                   ELSE slot + Reach + Stay) - 1
  BY DEF LastSlot, MaxOf, MinOf, slot
<1> HIDE DEF from, finish
<1>6. from \in Nat /\ from >= slot - Reach /\ (from = 0 \/ from = slot - Reach)
  BY <1>2, <1>4
<1>7. finish \in Int /\ finish >= from - 1
  BY <1>2, <1>5, <1>6
<1>8. \A n \in Int : from <= n /\ n <= finish <=>
        from <= n /\ n < NumSlots - 1 /\ n < slot + Reach + Stay
  BY <1>2, <1>5, <1>6
<1>9. Alternates(min, people) = found
  <2>1. (CHOOSE h : AreWalked(h, from, finish, T))[finish] = Kept(good, from, finish)
    BY <1>6, <1>7, WalkIs
  <2>2. Kept(good, from, finish).found = found
    BY DEF Kept
  <2>3. QED
    BY <1>3, <2>1, <2>2
<1>10. ASSUME NEW s \in found
       PROVE  s \in DaySlots /\ Fits(s, people) /\ s - slot \in -Reach .. Reach
  <2>1. s \in Nat /\ from <= s /\ s + Stay - 1 <= finish /\ s .. s + Stay - 1 \subseteq good
    BY <1>6
  <2>2. s + Stay - 1 \in Int /\ from <= s + Stay - 1
    BY <1>2, <1>6, <2>1
  <2>3. s + Stay - 1 < NumSlots - 1 /\ s + Stay - 1 < slot + Reach + Stay
    BY <1>8, <2>1, <2>2
  <2>4. s \in DaySlots /\ s + Stay < NumSlots /\ s - slot \in -Reach .. Reach
    BY <1>2, <1>6, <2>1, <2>3
  <2>5. \A i \in s .. s + Stay - 1 : InUse(i) + T <= tables
    BY <2>1
  <2>6. QED
    BY <2>4, <2>5 DEF Fits, T
<1>11. ASSUME NEW s \in DaySlots, Fits(s, people), s - slot \in -Reach .. Reach
       PROVE  s \in found
  <2>1. s \in Nat /\ s + Stay < NumSlots /\ \A i \in s .. s + Stay - 1 : InUse(i) + T <= tables
    BY <1>2, <1>11 DEF Fits, T
  <2>2. from <= s /\ s <= slot + Reach
    BY <1>2, <1>6, <1>11, <2>1
  <2>3. \A n \in s .. s + Stay - 1 : n \in Int /\ from <= n /\ n < NumSlots - 1 /\ n < slot + Reach + Stay
    BY <1>2, <1>6, <2>1, <2>2
  <2>4. \A n \in s .. s + Stay - 1 : n \in from .. finish
    BY <1>8, <2>3
  <2>5. s \in s .. s + Stay - 1 /\ s + Stay - 1 \in s .. s + Stay - 1
    BY <1>2, <2>1
  <2>6. s \in from .. finish /\ s + Stay - 1 <= finish
    BY <2>4, <2>5
  <2>7. s .. s + Stay - 1 \subseteq good
    BY <2>1, <2>4
  <2>8. QED
    BY <2>6, <2>7
<1> HIDE DEF found
<1>12. found \subseteq DaySlots
  BY <1>10
<1>13. QED
  BY <1>9, <1>10, <1>11, <1>12 DEF slot

-----------------------------------------------------------------------------
(* ReservationSystem.cpp: at no time are more tables promised to guests    *)
(* than there are, and what is offered instead of a time is all that would *)
(* be taken.                                                               *)
THEOREM NothingOverbooked == ScheduleSpec => []MCNothingOverbooked
<1>1. ScheduleInit => DayInv
  BY DayStarts
<1>2. DayInv /\ [ScheduleNext]_scheduleVars => DayInv'
  BY DayNext
<1>3. DayInv => MCNothingOverbooked
  BY DaySound, OffersFit DEF MCNothingOverbooked
<1>4. QED
  BY <1>1, <1>2, <1>3, PTL DEF ScheduleSpec

(* Each structure of one thread takes only the steps its promise allows:   *)
(* the hash tables those of a set of keys, the circular deque those of a   *)
(* bounded queue, the allocator the first run that fits, the registry a    *)
(* number that is out to nobody, the exam room the farthest seat.          *)
THEOREM StepsImplement ==
  ChainedSpec /\ BucketSpec /\ ProbingSpec /\ CircularSpec /\ StorageSpec /\ PhoneSpec /\ RoomSpec
    => MCStepsImplement
BY ChainedIsKeyTable, ChainedTellsTruth, BucketIsKeyTable, ProbingIsKeyTable, CircularIsDeque,
   AllocIsFirstFit, NumberHandedOnce, AlwaysFarthest
DEF MCStepsImplement
-----------------------------------------------------------------------------
(***************************************************************************)
(* AtomicSet and AtomicSet2 of module Feeds.                               *)
(***************************************************************************)

(* What arrived on every stream, of what "got" says arrived; what can no   *)
(* longer arrive on some stream, and did not.                              *)
CompleteOf(got) == {n \in SeqIds : \A s \in Streams : n \in got[s]}
PassedBy(got, n) == \E s \in Streams : n \notin got[s] /\ \E m \in got[s] : m > n

Ascends(seq) == \A i, j \in DOMAIN seq : i < j => seq[i] < seq[j]

(* What AtomicSet2 has dropped up to "floor" it has found or will never    *)
(* find; what is beyond it keeps.                                          *)
Settles(got, q, found, floor) ==
  /\ \A s \in Streams : q[s] \subseteq got[s] /\ \A n \in got[s] : n > floor => n \in q[s]
  /\ found \in Seq(SeqIds) /\ Ascends(found)
  /\ \A m \in ToSet(found) : /\ m \in CompleteOf(got) /\ m <= floor
                             /\ \A s \in Streams : \A n \in q[s] : m < n
  /\ \A n \in SeqIds : n <= floor => n \in ToSet(found) \/ PassedBy(got, n)

AreQueues(q) == q \in [Streams -> SUBSET SeqIds]

LEMMA SeqIdsFinite ==
  /\ MaxSeq \in Nat /\ SeqIds \subseteq Nat /\ IsFiniteSet(SeqIds) /\ Cardinality(SeqIds) = MaxSeq
  /\ \A n \in SeqIds : n \in Nat /\ n >= 1 /\ n <= MaxSeq
  /\ Streams = {1, 2, 3} /\ IsFiniteSet(Streams) /\ Cardinality(Streams) = 3
<1>1. MaxSeq \in Nat
  BY AtomicAssumption
<1>2. SeqIds = 1 .. MaxSeq /\ Streams = 1 .. 3
  BY DEF SeqIds, Streams
<1>3. IsFiniteSet(1 .. MaxSeq) /\ Cardinality(1 .. MaxSeq) = IF 1 > MaxSeq THEN 0 ELSE MaxSeq - 1 + 1
  BY <1>1, FS_Interval
<1>4. IsFiniteSet(1 .. 3) /\ Cardinality(1 .. 3) = 3
  <2>1. 1 \in Int /\ 3 \in Int /\ ~(1 > 3) /\ 3 - 1 + 1 = 3
    OBVIOUS
  <2>2. IsFiniteSet(1 .. 3) /\ Cardinality(1 .. 3) = IF 1 > 3 THEN 0 ELSE 3 - 1 + 1
    BY <2>1, FS_Interval
  <2>3. QED
    BY <2>1, <2>2
<1>5. QED
  BY <1>1, <1>2, <1>3, <1>4

LEMMA ToSetOfAppend ==
  ASSUME NEW S, NEW seq \in Seq(S), NEW e \in S
  PROVE  /\ Append(seq, e) \in Seq(S) /\ ToSet(Append(seq, e)) = ToSet(seq) \cup {e}
         /\ ToSet(seq) \subseteq S
<1>1. Len(seq) \in Nat /\ DOMAIN seq = 1 .. Len(seq) /\ \A i \in DOMAIN seq : seq[i] \in S
  OBVIOUS
<1>2. /\ Append(seq, e) \in Seq(S) /\ DOMAIN Append(seq, e) = 1 .. Len(seq) + 1
      /\ Append(seq, e)[Len(seq) + 1] = e
      /\ \A i \in 1 .. Len(seq) : Append(seq, e)[i] = seq[i]
  OBVIOUS
<1>3. \A i \in 1 .. Len(seq) + 1 : i \in 1 .. Len(seq) \/ i = Len(seq) + 1
  BY <1>1
<1>4. Len(seq) + 1 \in 1 .. Len(seq) + 1 /\ 1 .. Len(seq) \subseteq 1 .. Len(seq) + 1
  BY <1>1
<1>5. ASSUME NEW y \in ToSet(Append(seq, e)) PROVE y \in ToSet(seq) \cup {e}
  BY <1>1, <1>2, <1>3, <1>5 DEF ToSet
<1>6. ASSUME NEW y \in ToSet(seq) PROVE y \in ToSet(Append(seq, e))
  BY <1>1, <1>2, <1>4, <1>6 DEF ToSet
<1>7. e \in ToSet(Append(seq, e))
  BY <1>1, <1>2, <1>4 DEF ToSet
<1>8. ToSet(seq) \subseteq S
  BY <1>1 DEF ToSet
<1>9. QED
  BY <1>2, <1>5, <1>6, <1>7, <1>8

LEMMA AscendsOn ==
  ASSUME NEW S, S \subseteq Nat, NEW seq \in Seq(S), Ascends(seq), NEW e \in Nat, \A m \in ToSet(seq) : m < e
  PROVE  Ascends(Append(seq, e))
<1>1. Len(seq) \in Nat /\ DOMAIN seq = 1 .. Len(seq) /\ \A i \in DOMAIN seq : seq[i] \in Nat
  <2>1. Len(seq) \in Nat /\ DOMAIN seq = 1 .. Len(seq) /\ \A i \in DOMAIN seq : seq[i] \in S
    OBVIOUS
  <2>2. \A x \in S : x \in Nat
    OBVIOUS
  <2>3. QED
    BY <2>1, <2>2
<1>2. /\ DOMAIN Append(seq, e) = 1 .. Len(seq) + 1
      /\ Append(seq, e)[Len(seq) + 1] = e
      /\ \A i \in 1 .. Len(seq) : Append(seq, e)[i] = seq[i]
  OBVIOUS
<1>3. \A i \in DOMAIN seq : seq[i] < e
  BY DEF ToSet
<1>4. SUFFICES ASSUME NEW i \in 1 .. Len(seq) + 1, NEW j \in 1 .. Len(seq) + 1, i < j
               PROVE  Append(seq, e)[i] < Append(seq, e)[j]
  BY <1>2 DEF Ascends
<1>5. i \in 1 .. Len(seq)
  BY <1>1, <1>4
<1>6. CASE j = Len(seq) + 1
  BY <1>1, <1>2, <1>3, <1>5, <1>6
<1>7. CASE j # Len(seq) + 1
  <2>1. j \in 1 .. Len(seq)
    BY <1>1, <1>7
  <2>2. seq[i] < seq[j]
    BY <1>1, <1>4, <1>5, <2>1 DEF Ascends
  <2>3. QED
    BY <1>2, <1>5, <2>1, <2>2
<1>8. QED
  BY <1>6, <1>7

-----------------------------------------------------------------------------
(* The largest front, when no queue is empty.                              *)
FrontOf(q) == Max({Min(q[s]) : s \in Streams})

LEMMA LargestFront ==
  ASSUME NEW q, AreQueues(q), \A s \in Streams : q[s] # {},
         NEW L, L = FrontOf(q)
  PROVE  /\ L \in SeqIds
         /\ \E s \in Streams : L = Min(q[s]) /\ L \in q[s] /\ \A n \in q[s] : L <= n
         /\ \A s \in Streams : \E n \in q[s] : n <= L
         /\ \A s \in Streams : L \in q[s] => Min({n \in q[s] : n >= L}) = L
<1> DEFINE M == {Min(q[s]) : s \in Streams}
<1>1. ASSUME NEW s \in Streams
      PROVE  Min(q[s]) \in q[s] /\ Min(q[s]) \in SeqIds /\ \A n \in q[s] : Min(q[s]) <= n
  <2>1. q[s] \subseteq SeqIds /\ q[s] \subseteq Nat /\ q[s] # {}
    BY SeqIdsFinite DEF AreQueues
  <2>2. PICK x \in q[s] : \A y \in q[s] : x <= y
    BY <2>1, LeastOf
  <2>3. Min(q[s]) = x
    BY <2>1, <2>2, MinIs
  <2>4. QED
    BY <2>1, <2>2, <2>3
<1>2. M \subseteq SeqIds /\ M \subseteq 0 .. MaxSeq /\ M \subseteq Nat
  <2>1. ASSUME NEW m \in M PROVE m \in SeqIds
    BY <1>1, <2>1
  <2>2. \A m \in SeqIds : m \in 0 .. MaxSeq /\ m \in Nat
    BY SeqIdsFinite
  <2> HIDE DEF M
  <2>3. QED
    BY <2>1, <2>2
<1>3. M # {}
  <2>1. PICK s \in Streams : TRUE
    BY SeqIdsFinite
  <2>2. Min(q[s]) \in M
    BY <2>1, Zenon
  <2>3. QED
    BY <2>2, Zenon
<1>4. PICK x \in M : \A y \in M : y <= x
  BY <1>2, <1>3, GreatestOf, SeqIdsFinite
<1>5. L = x
  BY <1>2, <1>4, MaxIs DEF FrontOf
<1>6. L \in SeqIds
  BY <1>2, <1>5
<1>7. \E s \in Streams : L = Min(q[s]) /\ L \in q[s] /\ \A n \in q[s] : L <= n
  BY <1>1, <1>4, <1>5
<1>8. \A s \in Streams : \E n \in q[s] : n <= L
  BY <1>1, <1>4, <1>5
<1>9. ASSUME NEW s \in Streams, L \in q[s] PROVE Min({n \in q[s] : n >= L}) = L
  <2> DEFINE R == {n \in q[s] : n >= L}
  <2>1. L \in Nat /\ q[s] \subseteq Nat
    BY <1>6, SeqIdsFinite DEF AreQueues
  <2>2. L \in R /\ R \subseteq Nat /\ \A y \in R : L <= y
    BY <1>9, <2>1
  <2> HIDE DEF R
  <2>3. Min(R) = L
    BY <2>2, MinIs
  <2>4. QED
    BY <2>3 DEF R
<1>10. QED
  BY <1>6, <1>7, <1>8, <1>9

(* What is left of the queues beyond L, and from L on.                     *)
Beyond(q, L) == [s \in Streams |-> {n \in q[s] : n > L}]
From(q, L) == [s \in Streams |-> {n \in q[s] : n >= L}]

(* The two outcomes of a round, over what the largest front tells.         *)
RoundMakes(q, found, L) ==
  /\ \E s \in Streams : L \in q[s] /\ \A n \in q[s] : L <= n
  /\ \A s \in Streams : \E n \in q[s] : n <= L
  /\ \/ /\ \A s \in Streams : L \in q[s]
        /\ Round([queues |-> q, found |-> found])
             = [queues |-> Beyond(q, L), found |-> Append(found, L)]
     \/ /\ \E s \in Streams : L \notin q[s]
        /\ Round([queues |-> q, found |-> found]) = [queues |-> From(q, L), found |-> found]

LEMMA RoundIs ==
  ASSUME NEW q, AreQueues(q), NEW found, \A s \in Streams : q[s] # {}
  PROVE  \E L \in SeqIds : RoundMakes(q, found, L)
<1> DEFINE L == FrontOf(q)
           w == [queues |-> q, found |-> found]
           rest == [s \in Streams |-> {n \in q[s] : n >= L}]
           all == \A s \in Streams : rest[s] # {} /\ Min(rest[s]) = L
<1>1. /\ L \in SeqIds
      /\ \E s \in Streams : L = Min(q[s]) /\ L \in q[s] /\ \A n \in q[s] : L <= n
      /\ \A s \in Streams : \E n \in q[s] : n <= L
      /\ \A s \in Streams : L \in q[s] => Min({n \in q[s] : n >= L}) = L
  <2> HIDE DEF L
  <2>1. L = FrontOf(q)
    BY DEF L
  <2>2. QED
    BY <2>1, LargestFront
<1>2. w.queues = q /\ w.found = found
  OBVIOUS
<1>3. Round(w) = IF all THEN [queues |-> [s \in Streams |-> rest[s] \ {L}], found |-> Append(found, L)]
                 ELSE [queues |-> rest, found |-> found]
  <2>1. ~\E s \in Streams : w.queues[s] = {}
    BY <1>2
  <2>2. QED
    BY <1>2, <2>1 DEF Round, FrontOf
<1> HIDE DEF L, w
<1>4. L \in Nat /\ \A s \in Streams : \A n \in q[s] : n \in Nat
  BY <1>1, SeqIdsFinite DEF AreQueues
<1>5. \A s \in Streams : rest[s] = {n \in q[s] : n >= L}
  OBVIOUS
<1>6. all <=> \A s \in Streams : L \in q[s]
  <2>1. ASSUME NEW s \in Streams, L \in q[s] PROVE rest[s] # {} /\ Min(rest[s]) = L
    <3>1. L \in {n \in q[s] : n >= L}
      BY <1>4, <2>1
    <3>2. Min({n \in q[s] : n >= L}) = L
      BY <1>1, <2>1
    <3> HIDE DEF rest
    <3>3. QED
      BY <1>5, <3>1, <3>2
  <2>2. ASSUME NEW s \in Streams, rest[s] # {}, Min(rest[s]) = L PROVE L \in q[s]
    <3>1. rest[s] \subseteq q[s] /\ rest[s] \subseteq Nat
      BY <1>4, <1>5
    <3>2. PICK x \in rest[s] : \A y \in rest[s] : x <= y
      BY <2>2, <3>1, LeastOf
    <3>3. Min(rest[s]) = x
      BY <3>1, <3>2, MinIs
    <3>4. QED
      BY <2>2, <3>1, <3>2, <3>3
  <2> HIDE DEF rest
  <2>3. QED
    BY <2>1, <2>2
<1>7. CASE \A s \in Streams : L \in q[s]
  <2>1. [s \in Streams |-> rest[s] \ {L}] = [s \in Streams |-> {n \in q[s] : n > L}]
    <3>1. ASSUME NEW s \in Streams PROVE rest[s] \ {L} = {n \in q[s] : n > L}
      BY <1>4, <1>5
    <3>2. QED
      BY <3>1
  <2>2. Round(w) = [queues |-> Beyond(q, L), found |-> Append(found, L)]
    BY <1>3, <1>6, <1>7, <2>1 DEF Beyond
  <2>3. QED
    BY <1>1, <1>7, <2>2 DEF w, RoundMakes
<1>8. CASE ~\A s \in Streams : L \in q[s]
  <2>1. Round(w) = [queues |-> From(q, L), found |-> found]
    BY <1>3, <1>6, <1>8 DEF From
  <2>2. QED
    BY <1>1, <1>8, <2>1 DEF w, RoundMakes
<1>9. QED
  BY <1>7, <1>8

(* What a round does to the numbers settled: the queue with the largest    *)
(* front has nothing between the old floor and that front.                 *)
LEMMA RoundSettles ==
  ASSUME NEW got, AreQueues(got), NEW q, AreQueues(q), NEW found, NEW floor \in Nat,
         Settles(got, q, found, floor), NEW L \in SeqIds,
         \E s \in Streams : L \in q[s] /\ \A n \in q[s] : L <= n
  PROVE  /\ (\A s \in Streams : L \in q[s]) =>
              \E f \in Nat : Settles(got, Beyond(q, L), Append(found, L), f)
         /\ \E f \in Nat : Settles(got, From(q, L), found, f)
<1>1. PICK z \in Streams : L \in q[z] /\ \A n \in q[z] : L <= n
  OBVIOUS
<1>2. /\ L \in Nat /\ L >= 1
      /\ \A s \in Streams : \A n \in q[s] : n \in Nat /\ n \in SeqIds
      /\ \A s \in Streams : \A n \in got[s] : n \in Nat /\ n \in SeqIds
      /\ \A n \in SeqIds : n \in Nat
  BY SeqIdsFinite DEF AreQueues
<1>3. /\ \A s \in Streams : q[s] \subseteq got[s] /\ \A n \in got[s] : n > floor => n \in q[s]
      /\ found \in Seq(SeqIds) /\ Ascends(found)
      /\ \A m \in ToSet(found) : /\ m \in CompleteOf(got) /\ m <= floor
                                 /\ \A s \in Streams : \A n \in q[s] : m < n
      /\ \A n \in SeqIds : n <= floor => n \in ToSet(found) \/ PassedBy(got, n)
  BY DEF Settles
<1>4. \A m \in ToSet(found) : m \in Nat
  BY <1>2, <1>3 DEF CompleteOf
(* what lies between is on that stream no more *)
<1>5. ASSUME NEW n \in SeqIds, n > floor, n < L PROVE PassedBy(got, n)
  <2>1. n \notin got[z]
    BY <1>1, <1>2, <1>3, <1>5
  <2>2. L \in got[z] /\ L > n
    BY <1>1, <1>2, <1>3, <1>5
  <2>3. QED
    BY <2>1, <2>2 DEF PassedBy
<1>6. ASSUME \A s \in Streams : L \in q[s]
      PROVE  \E f \in Nat : Settles(got, Beyond(q, L), Append(found, L), f)
  <2> DEFINE q2 == Beyond(q, L)
             f == IF L > floor THEN L ELSE floor
  <2>1. f \in Nat /\ f >= L /\ f >= floor /\ (f = L \/ f = floor)
    BY <1>2
  <2> HIDE DEF f
  <2>2. \A s \in Streams : q2[s] = {n \in q[s] : n > L}
    BY DEF Beyond
  <2> HIDE DEF q2
  <2>3. ASSUME NEW s \in Streams
        PROVE  q2[s] \subseteq got[s] /\ \A n \in got[s] : n > f => n \in q2[s]
    BY <1>2, <1>3, <2>1, <2>2
  <2>4. ToSet(Append(found, L)) = ToSet(found) \cup {L} /\ Append(found, L) \in Seq(SeqIds)
    BY <1>3, ToSetOfAppend
  <2>5. Ascends(Append(found, L))
    <3>1. \A m \in ToSet(found) : m < L
      BY <1>1, <1>3
    <3>2. SeqIds \subseteq Nat /\ found \in Seq(SeqIds) /\ Ascends(found) /\ L \in Nat
      BY <1>2, <1>3
    <3>3. QED
      BY <3>1, <3>2, AscendsOn
  <2>6. L \in CompleteOf(got)
    BY <1>3, <1>6 DEF CompleteOf
  <2>7. ASSUME NEW m \in ToSet(found) \cup {L}
        PROVE  /\ m \in CompleteOf(got) /\ m <= f
               /\ \A s \in Streams : \A n \in q2[s] : m < n
    <3>1. CASE m = L
      BY <1>2, <2>1, <2>2, <2>6, <3>1
    <3>2. CASE m \in ToSet(found)
      <4>1. m \in Nat /\ m <= floor /\ m \in CompleteOf(got)
        BY <1>3, <1>4, <3>2
      <4>2. m <= f
        BY <2>1, <4>1
      <4>3. QED
        BY <1>3, <2>2, <3>2, <4>1, <4>2
    <3>3. QED
      BY <3>1, <3>2
  <2>8. ASSUME NEW n \in SeqIds, n <= f PROVE n \in ToSet(found) \cup {L} \/ PassedBy(got, n)
    <3>1. n <= floor \/ (n > floor /\ n < L) \/ n = L
      BY <1>2, <2>1, <2>8
    <3>2. QED
      BY <1>3, <1>5, <3>1
  <2>9. Settles(got, q2, Append(found, L), f)
    BY <2>3, <2>4, <2>5, <2>7, <2>8 DEF Settles
  <2>10. QED
    BY <2>1, <2>9 DEF q2
<1>7. \E f \in Nat : Settles(got, From(q, L), found, f)
  <2> DEFINE q2 == From(q, L)
             f == IF L - 1 > floor THEN L - 1 ELSE floor
  <2>1. f \in Nat /\ f >= L - 1 /\ f >= floor /\ (f = L - 1 \/ f = floor)
    BY <1>2
  <2> HIDE DEF f
  <2>2. \A s \in Streams : q2[s] = {n \in q[s] : n >= L}
    BY DEF From
  <2> HIDE DEF q2
  <2>3. ASSUME NEW s \in Streams
        PROVE  q2[s] \subseteq got[s] /\ \A n \in got[s] : n > f => n \in q2[s]
    BY <1>2, <1>3, <2>1, <2>2
  <2>4. ASSUME NEW m \in ToSet(found)
        PROVE  m <= f /\ \A s \in Streams : \A n \in q2[s] : m < n
    <3>1. m \in Nat /\ m <= floor
      BY <1>3, <1>4
    <3>2. m <= f
      BY <2>1, <3>1
    <3>3. QED
      BY <1>3, <2>2, <3>2
  <2>5. ASSUME NEW n \in SeqIds, n <= f PROVE n \in ToSet(found) \/ PassedBy(got, n)
    <3>1. n <= floor \/ (n > floor /\ n < L)
      BY <1>2, <2>1, <2>5
    <3>2. QED
      BY <1>3, <1>5, <3>1
  <2>6. Settles(got, q2, found, f)
    BY <1>3, <2>3, <2>4, <2>5 DEF Settles
  <2>7. QED
    BY <2>1, <2>6 DEF q2
<1>8. QED
  BY <1>6, <1>7

(* How much is in the queues.                                              *)
SizeOf(q) == Cardinality(q[1]) + Cardinality(q[2]) + Cardinality(q[3])

LEMMA SizesFall ==
  ASSUME NEW q, AreQueues(q), NEW r, AreQueues(r), \A s \in Streams : r[s] \subseteq q[s],
         NEW z \in Streams, NEW n \in q[z], n \notin r[z]
  PROVE  SizeOf(r) < SizeOf(q)
<1>1. ASSUME NEW s \in Streams
      PROVE  /\ Cardinality(q[s]) \in Nat /\ Cardinality(r[s]) \in Nat
             /\ Cardinality(r[s]) <= Cardinality(q[s])
             /\ (r[s] # q[s] => Cardinality(r[s]) < Cardinality(q[s]))
  <2>1. IsFiniteSet(q[s])
    BY SeqIdsFinite, FS_Subset DEF AreQueues
  <2>2. /\ IsFiniteSet(r[s]) /\ Cardinality(r[s]) <= Cardinality(q[s])
        /\ Cardinality(q[s]) = Cardinality(r[s]) => q[s] = r[s]
    BY <2>1, FS_Subset
  <2>3. Cardinality(q[s]) \in Nat /\ Cardinality(r[s]) \in Nat
    BY <2>1, <2>2, FS_CardinalityType
  <2>4. QED
    BY <2>2, <2>3
<1>2. r[z] # q[z]
  OBVIOUS
<1>3. Streams = {1, 2, 3}
  BY SeqIdsFinite
<1>4. /\ Cardinality(q[1]) \in Nat /\ Cardinality(q[2]) \in Nat /\ Cardinality(q[3]) \in Nat
      /\ Cardinality(r[1]) \in Nat /\ Cardinality(r[2]) \in Nat /\ Cardinality(r[3]) \in Nat
      /\ Cardinality(r[1]) <= Cardinality(q[1]) /\ Cardinality(r[2]) <= Cardinality(q[2])
      /\ Cardinality(r[3]) <= Cardinality(q[3])
  BY <1>1, <1>3
<1>5. \/ Cardinality(r[1]) < Cardinality(q[1]) \/ Cardinality(r[2]) < Cardinality(q[2])
      \/ Cardinality(r[3]) < Cardinality(q[3])
  BY <1>1, <1>2, <1>3
<1>6. QED
  BY <1>4, <1>5 DEF SizeOf

LEMMA SizesBounded ==
  ASSUME NEW q, AreQueues(q)
  PROVE  /\ SizeOf(q) \in Nat /\ SizeOf(q) <= 3 * MaxSeq
         /\ (SizeOf(q) = 0 => \A s \in Streams : q[s] = {})
<1>1. ASSUME NEW s \in Streams
      PROVE  /\ Cardinality(q[s]) \in Nat /\ Cardinality(q[s]) <= MaxSeq
             /\ (Cardinality(q[s]) = 0 => q[s] = {})
  <2>1. q[s] \in SUBSET SeqIds
    BY DEF AreQueues
  <2>2. IsFiniteSet(q[s]) /\ Cardinality(q[s]) <= MaxSeq
    BY <2>1, SeqIdsFinite, FS_Subset
  <2>3. QED
    BY <2>2, FS_CardinalityType, FS_EmptySet
<1>2. Streams = {1, 2, 3} /\ MaxSeq \in Nat
  BY SeqIdsFinite
<1>3. /\ Cardinality(q[1]) \in Nat /\ Cardinality(q[2]) \in Nat /\ Cardinality(q[3]) \in Nat
      /\ Cardinality(q[1]) <= MaxSeq /\ Cardinality(q[2]) <= MaxSeq /\ Cardinality(q[3]) <= MaxSeq
  BY <1>1, <1>2
<1>4. SizeOf(q) \in Nat /\ SizeOf(q) <= 3 * MaxSeq
  BY <1>2, <1>3 DEF SizeOf
<1>5. SizeOf(q) = 0 => Cardinality(q[1]) = 0 /\ Cardinality(q[2]) = 0 /\ Cardinality(q[3]) = 0
  BY <1>3 DEF SizeOf
<1>6. QED
  BY <1>1, <1>2, <1>4, <1>5

(* The loop of AtomicSet2::send_atomic, up to round n.                     *)
AreRounds(w, n, q, found) ==
  w = [k \in 0 .. n |-> IF k = 0 THEN [queues |-> q, found |-> found] ELSE Round(w[k - 1])]

LEMMA RoundsExist ==
  ASSUME NEW q, NEW found, NEW n \in Nat
  PROVE  \E w : AreRounds(w, n, q, found)
<1> DEFINE P == {k \in Nat : \E w : AreRounds(w, k, q, found)}
           start == [queues |-> q, found |-> found]
<1>1. 0 \in P
  <2> DEFINE w == [k \in 0 .. 0 |-> start]
  <2>1. w = [k \in 0 .. 0 |-> IF k = 0 THEN start ELSE Round(w[k - 1])]
    OBVIOUS
  <2> HIDE DEF w
  <2>2. AreRounds(w, 0, q, found)
    BY <2>1 DEF AreRounds
  <2>3. QED
    BY <2>2
<1>2. ASSUME NEW k \in Nat, k \in P PROVE k + 1 \in P
  <2>1. PICK w : AreRounds(w, k, q, found)
    BY <1>2
  <2> DEFINE v == [i \in 0 .. k + 1 |-> IF i = k + 1 THEN Round(w[k]) ELSE w[i]]
  <2>2. \A i \in 0 .. k : w[i] = IF i = 0 THEN start ELSE Round(w[i - 1])
    BY <2>1 DEF AreRounds
  <2>3. \A i \in 0 .. k : v[i] = w[i]
    OBVIOUS
  <2>4. v[k + 1] = Round(w[k])
    OBVIOUS
  <2>5. v = [i \in 0 .. k + 1 |-> v[i]]
    OBVIOUS
  <2> HIDE DEF v, start
  <2>6. ASSUME NEW i \in 0 .. k + 1 PROVE v[i] = IF i = 0 THEN start ELSE Round(v[i - 1])
    <3>1. CASE i = k + 1
      <4>1. k \in 0 .. k /\ i # 0 /\ i - 1 = k
        BY <3>1
      <4>2. v[i - 1] = w[k] /\ v[i] = Round(w[k])
        BY <2>3, <2>4, <3>1, <4>1
      <4>3. QED
        BY <4>1, <4>2
    <3>2. CASE i # k + 1
      <4>1. i \in 0 .. k /\ (i # 0 => i - 1 \in 0 .. k)
        BY <3>2
      <4>2. v[i] = w[i] /\ (i # 0 => v[i - 1] = w[i - 1])
        BY <2>3, <4>1
      <4>3. QED
        BY <2>2, <4>1, <4>2
    <3>3. QED
      BY <3>1, <3>2
  <2>7. AreRounds(v, k + 1, q, found)
    BY <2>5, <2>6 DEF AreRounds, start
  <2>8. QED
    BY <2>7
<1>3. n \in P
  <2> HIDE DEF P
  <2>1. QED
    BY <1>1, <1>2, Induction
<1>4. QED
  BY <1>3

(* A state of the loop, and that it is over.                               *)
IsRound(got, w) ==
  /\ w = [queues |-> w.queues, found |-> w.found] /\ AreQueues(w.queues)
  /\ \E f \in Nat : Settles(got, w.queues, w.found, f)

AtRest(q) == \E s \in Streams : q[s] = {}

LEMMA RoundGoesOn ==
  ASSUME NEW got, AreQueues(got), NEW w, IsRound(got, w), ~AtRest(w.queues)
  PROVE  IsRound(got, Round(w)) /\ SizeOf(Round(w).queues) < SizeOf(w.queues)
<1> DEFINE q == w.queues
           found == w.found
<1>1. w = [queues |-> q, found |-> found] /\ AreQueues(q) /\ \A s \in Streams : q[s] # {}
  BY DEF IsRound, AtRest
<1>2. PICK floor \in Nat : Settles(got, q, found, floor)
  BY DEF IsRound
<1> HIDE DEF q, found
<1>3. PICK L \in SeqIds : RoundMakes(q, found, L)
  BY <1>1, RoundIs
<1>4. /\ (\A s \in Streams : L \in q[s]) =>
           \E f \in Nat : Settles(got, Beyond(q, L), Append(found, L), f)
      /\ \E f \in Nat : Settles(got, From(q, L), found, f)
  <2>1. \E s \in Streams : L \in q[s] /\ \A n \in q[s] : L <= n
    BY <1>3 DEF RoundMakes
  <2>2. QED
    BY <1>1, <1>2, <2>1, RoundSettles
<1>5. L \in Nat /\ \A s \in Streams : \A n \in q[s] : n \in Nat
  BY <1>1, SeqIdsFinite DEF AreQueues
<1>6. PICK s0 \in Streams : TRUE
  BY SeqIdsFinite
<1>7. ASSUME NEW r, AreQueues(r), NEW f2, Round(w) = [queues |-> r, found |-> f2],
             \E f \in Nat : Settles(got, r, f2, f),
             \A s \in Streams : r[s] \subseteq q[s],
             NEW z \in Streams, NEW n \in q[z], n \notin r[z]
      PROVE  IsRound(got, Round(w)) /\ SizeOf(Round(w).queues) < SizeOf(w.queues)
  <2>1. Round(w).queues = r /\ Round(w).found = f2
    BY <1>7
  <2>2. SizeOf(r) < SizeOf(q)
    BY <1>1, <1>7, SizesFall
  <2>3. IsRound(got, Round(w))
    BY <1>7, <2>1 DEF IsRound
  <2>4. QED
    BY <2>1, <2>2, <2>3 DEF q
<1>8. CASE /\ \A s \in Streams : L \in q[s]
           /\ Round([queues |-> q, found |-> found])
                = [queues |-> Beyond(q, L), found |-> Append(found, L)]
  <2> DEFINE r == Beyond(q, L)
  <2>1. AreQueues(r) /\ \A s \in Streams : r[s] \subseteq q[s] /\ L \notin r[s]
    BY <1>1, <1>5 DEF AreQueues, Beyond
  <2>2. Round(w) = [queues |-> r, found |-> Append(found, L)]
    BY <1>1, <1>8
  <2>3. \E f \in Nat : Settles(got, r, Append(found, L), f)
    BY <1>4, <1>8
  <2> HIDE DEF r
  <2>4. QED
    BY <1>6, <1>7, <1>8, <2>1, <2>2, <2>3
<1>9. CASE /\ \E s \in Streams : L \notin q[s]
           /\ Round([queues |-> q, found |-> found])
                = [queues |-> From(q, L), found |-> found]
  <2> DEFINE r == From(q, L)
  <2>1. AreQueues(r) /\ \A s \in Streams : r[s] \subseteq q[s] /\ r[s] = {n \in q[s] : n >= L}
    BY <1>1, <1>5 DEF AreQueues, From
  <2>2. Round(w) = [queues |-> r, found |-> found]
    BY <1>1, <1>9
  <2>3. \E f \in Nat : Settles(got, r, found, f)
    BY <1>4
  <2> HIDE DEF r
  <2>4. PICK z \in Streams : L \notin q[z]
    BY <1>9
  <2>5. PICK n \in q[z] : n <= L
    BY <1>3 DEF RoundMakes
  <2>6. n \notin r[z]
    BY <1>5, <2>1, <2>4, <2>5
  <2>7. QED
    BY <1>7, <2>1, <2>2, <2>3, <2>6
<1>10. QED
  BY <1>3, <1>8, <1>9 DEF RoundMakes

(* When the loop is over.                                                  *)
LEMMA MergeEnds ==
  ASSUME NEW got, AreQueues(got), NEW q, AreQueues(q), NEW found, NEW floor \in Nat,
         Settles(got, q, found, floor)
  PROVE  IsRound(got, Merge(q, found)) /\ AtRest(Merge(q, found).queues)
<1> DEFINE top == 3 * MaxSeq
           w == CHOOSE v : AreRounds(v, top, q, found)
           start == [queues |-> q, found |-> found]
<1>1. MaxSeq \in Nat /\ top \in Nat
  BY SeqIdsFinite
<1>2. Merge(q, found) = w[top]
  BY DEF Merge, AreRounds
<1>3. AreRounds(w, top, q, found)
  BY <1>1, RoundsExist
<1> HIDE DEF w
<1>4. \A k \in 0 .. top : w[k] = IF k = 0 THEN start ELSE Round(w[k - 1])
  BY <1>3 DEF AreRounds
<1>5. IsRound(got, start) /\ start.queues = q
  BY DEF IsRound
<1> DEFINE Good(k) == /\ IsRound(got, w[k])
                      /\ AtRest(w[k].queues) \/ SizeOf(w[k].queues) <= top - k
           P == {k \in Nat : k <= top => Good(k)}
<1> HIDE DEF start, top
<1>6. 0 \in P
  <2>1. 0 \in 0 .. top /\ top - 0 = top
    BY <1>1
  <2>2. w[0] = start
    BY <1>4, <2>1
  <2>3. SizeOf(q) <= top
    BY SizesBounded DEF top
  <2>4. QED
    BY <1>5, <2>1, <2>2, <2>3
<1>7. ASSUME NEW k \in Nat, k \in P PROVE k + 1 \in P
  <2>1. SUFFICES ASSUME k + 1 <= top PROVE Good(k + 1)
    OBVIOUS
  <2>2. k <= top /\ k \in 0 .. top /\ k + 1 \in 0 .. top /\ k + 1 # 0 /\ (k + 1) - 1 = k
    BY <1>1, <2>1
  <2>3. w[k + 1] = Round(w[k])
    BY <1>4, <2>2
  <2>4. Good(k)
    BY <1>7, <2>2
  <2>5. CASE AtRest(w[k].queues)
    <3>1. Round(w[k]) = w[k]
      BY <2>5 DEF Round, AtRest
    <3>2. QED
      BY <2>3, <2>4, <2>5, <3>1
  <2>6. CASE ~AtRest(w[k].queues)
    <3>1. IsRound(got, w[k]) /\ SizeOf(w[k].queues) <= top - k
      BY <2>4, <2>6
    <3>2. IsRound(got, Round(w[k])) /\ SizeOf(Round(w[k]).queues) < SizeOf(w[k].queues)
      BY <2>6, <3>1, RoundGoesOn
    <3>3. SizeOf(w[k].queues) \in Nat /\ SizeOf(Round(w[k]).queues) \in Nat
      BY <3>1, <3>2, SizesBounded DEF IsRound
    <3>4. SizeOf(Round(w[k]).queues) <= top - (k + 1)
      BY <1>1, <2>2, <3>1, <3>2, <3>3
    <3>5. QED
      BY <2>3, <3>2, <3>4
  <2>7. QED
    BY <2>5, <2>6
<1>8. top \in P
  <2> HIDE DEF P
  <2>1. QED
    BY <1>1, <1>6, <1>7, Induction
<1>9. Good(top)
  BY <1>1, <1>8
<1>10. AtRest(w[top].queues)
  <2>1. CASE SizeOf(w[top].queues) <= top - top
    <3>1. AreQueues(w[top].queues)
      BY <1>9 DEF IsRound
    <3>2. SizeOf(w[top].queues) \in Nat /\ top - top = 0
      BY <1>1, <3>1, SizesBounded
    <3>3. SizeOf(w[top].queues) = 0
      BY <2>1, <3>2
    <3>4. \A s \in Streams : w[top].queues[s] = {}
      BY <3>1, <3>3, SizesBounded
    <3>5. QED
      BY <3>4, SeqIdsFinite DEF AtRest
  <2>2. QED
    BY <1>9, <2>1
<1>11. QED
  BY <1>2, <1>9, <1>10

(* The messages of both, and what they made of them.                       *)
AtomicInv ==
  /\ AreQueues(sent)
  /\ data = [s \in Streams |-> {n \in sent[s] : \A c \in Complete : n > c}]
  /\ msg_seq_count = [n \in SeqIds |-> IF n \in Complete THEN 0
                                       ELSE Cardinality({s \in Streams : n \in sent[s]})]
  /\ atomic_set \in Seq(SeqIds) /\ ListsInOrder(atomic_set, Complete)
  /\ IsRound(sent, [queues |-> fronts, found |-> atomic_set2]) /\ AtRest(fronts)

(* When a queue is empty, what was found is all there is.                  *)
LEMMA FoundIsComplete ==
  ASSUME NEW got, AreQueues(got), NEW q, NEW found, NEW floor \in Nat,
         Settles(got, q, found, floor), AtRest(q)
  PROVE  ListsInOrder(found, CompleteOf(got))
<1>1. PICK z \in Streams : q[z] = {}
  BY DEF AtRest
<1>2. ASSUME NEW n \in CompleteOf(got) PROVE n \in ToSet(found)
  <2>1. n \in SeqIds /\ n \in Nat /\ \A s \in Streams : n \in got[s]
    BY <1>2, SeqIdsFinite DEF CompleteOf
  <2>2. n <= floor
    BY <1>1, <2>1 DEF Settles
  <2>3. ~PassedBy(got, n)
    BY <2>1 DEF PassedBy
  <2>4. QED
    BY <2>1, <2>2, <2>3 DEF Settles
<1>3. ToSet(found) \subseteq CompleteOf(got)
  BY DEF Settles
<1>4. QED
  BY <1>2, <1>3 DEF Settles, ListsInOrder, Ascends

(* A message on stream z, with a number beyond those it has.               *)
Got(got, z, n) == [got EXCEPT ![z] = @ \cup {n}]

LEMMA GotIs ==
  ASSUME NEW got, AreQueues(got), NEW z \in Streams, NEW n \in SeqIds, \A m \in got[z] : m < n
  PROVE  /\ AreQueues(Got(got, z, n))
         /\ \A s \in Streams : Got(got, z, n)[s] = IF s = z THEN got[z] \cup {n} ELSE got[s]
         /\ n \notin CompleteOf(got) /\ n \notin got[z]
         /\ \A c \in CompleteOf(got) : c < n
         /\ CompleteOf(Got(got, z, n))
              = IF \A s \in Streams : n \in Got(got, z, n)[s] THEN CompleteOf(got) \cup {n}
                ELSE CompleteOf(got)
<1>1. AreQueues(Got(got, z, n))
  BY DEF AreQueues, Got
<1>2. \A s \in Streams : Got(got, z, n)[s] = IF s = z THEN got[z] \cup {n} ELSE got[s]
  BY DEF AreQueues, Got
<1>3. n \in Nat /\ \A s \in Streams : \A m \in got[s] : m \in Nat /\ m \in SeqIds
  BY SeqIdsFinite DEF AreQueues
<1>4. n \notin got[z]
  BY <1>3
<1>5. n \notin CompleteOf(got) /\ \A c \in CompleteOf(got) : c < n
  BY <1>4 DEF CompleteOf
<1>6. \A m \in SeqIds : m # n => \A s \in Streams : m \in Got(got, z, n)[s] <=> m \in got[s]
  BY <1>2
<1>7. CompleteOf(Got(got, z, n)) \ {n} = CompleteOf(got) \ {n}
  BY <1>6 DEF CompleteOf
<1>8. n \in CompleteOf(Got(got, z, n)) <=> \A s \in Streams : n \in Got(got, z, n)[s]
  BY DEF CompleteOf
<1>9. QED
  BY <1>1, <1>2, <1>4, <1>5, <1>7, <1>8

LEMMA MessageSettles ==
  ASSUME NEW got, AreQueues(got), NEW q, AreQueues(q), NEW found, NEW floor \in Nat,
         Settles(got, q, found, floor),
         NEW z \in Streams, NEW n \in SeqIds, \A m \in got[z] : m < n
  PROVE  Settles(Got(got, z, n), Got(q, z, n), found, floor)
<1> DEFINE got2 == Got(got, z, n)
           q2 == Got(q, z, n)
<1>1. /\ \A s \in Streams : got2[s] = IF s = z THEN got[z] \cup {n} ELSE got[s]
      /\ n \notin got[z] /\ \A c \in CompleteOf(got) : c < n
  BY GotIs
<1>2. \A s \in Streams : q2[s] = IF s = z THEN q[z] \cup {n} ELSE q[s]
  BY DEF AreQueues, Got
<1> HIDE DEF got2, q2
<1>9. CompleteOf(got) \subseteq CompleteOf(got2)
  <2>1. \A s \in Streams : got[s] \subseteq got2[s]
    BY <1>1
  <2>2. QED
    BY <2>1 DEF CompleteOf
<1>3. /\ \A s \in Streams : q[s] \subseteq got[s] /\ \A m \in got[s] : m > floor => m \in q[s]
      /\ found \in Seq(SeqIds) /\ Ascends(found)
      /\ \A m \in ToSet(found) : /\ m \in CompleteOf(got) /\ m <= floor
                                 /\ \A s \in Streams : \A k \in q[s] : m < k
      /\ \A m \in SeqIds : m <= floor => m \in ToSet(found) \/ PassedBy(got, m)
  BY DEF Settles
<1>4. \A s \in Streams : q2[s] \subseteq got2[s] /\ \A m \in got2[s] : m > floor => m \in q2[s]
  BY <1>1, <1>2, <1>3
<1>5. ASSUME NEW m \in ToSet(found)
      PROVE  /\ m \in CompleteOf(got2) /\ m <= floor
             /\ \A s \in Streams : \A k \in q2[s] : m < k
  BY <1>1, <1>2, <1>3, <1>9
<1>6. ASSUME NEW m \in SeqIds, PassedBy(got, m) PROVE PassedBy(got2, m)
  <2>1. PICK s \in Streams : m \notin got[s] /\ \E k \in got[s] : k > m
    BY <1>6 DEF PassedBy
  <2>2. PICK k \in got[s] : k > m
    BY <2>1
  <2>3. k \in Nat /\ m \in Nat /\ n \in Nat /\ (s = z => k < n)
    BY <2>2, SeqIdsFinite DEF AreQueues
  <2>4. k \in got2[s] /\ m \notin got2[s]
    BY <1>1, <2>1, <2>2, <2>3
  <2>5. QED
    BY <2>2, <2>4 DEF PassedBy
<1>7. Settles(got2, q2, found, floor)
  BY <1>3, <1>4, <1>5, <1>6 DEF Settles
<1>8. QED
  BY <1>7 DEF got2, q2

(* AtomicSet2, after a message.                                            *)
LEMMA MergeSettles ==
  ASSUME NEW got, AreQueues(got), NEW q, NEW found,
         IsRound(got, [queues |-> q, found |-> found]),
         NEW z \in Streams, NEW n \in SeqIds, \A m \in got[z] : m < n
  PROVE  LET m == Merge(Got(q, z, n), found)
         IN  IsRound(Got(got, z, n), [queues |-> m.queues, found |-> m.found]) /\ AtRest(m.queues)
<1> DEFINE w == [queues |-> q, found |-> found]
           got2 == Got(got, z, n)
           m == Merge(Got(q, z, n), found)
<1>1. w.queues = q /\ w.found = found
  OBVIOUS
<1>2. AreQueues(q) /\ \E f \in Nat : Settles(got, q, found, f)
  <2>1. IsRound(got, w)
    OBVIOUS
  <2> HIDE DEF w
  <2>2. QED
    BY <1>1, <2>1 DEF IsRound
<1>3. PICK f \in Nat : Settles(got, q, found, f)
  BY <1>2
<1>4. AreQueues(got2) /\ AreQueues(Got(q, z, n))
  <2>1. AreQueues(Got(q, z, n))
    BY <1>2 DEF AreQueues, Got
  <2>2. QED
    BY <2>1, GotIs
<1>5. Settles(got2, Got(q, z, n), found, f)
  BY <1>2, <1>3, MessageSettles
<1> HIDE DEF got2
<1>6. IsRound(got2, m) /\ AtRest(m.queues)
  BY <1>4, <1>5, MergeEnds
<1> HIDE DEF m
<1>7. m = [queues |-> m.queues, found |-> m.found]
  BY <1>6 DEF IsRound
<1>8. IsRound(got2, [queues |-> m.queues, found |-> m.found])
  BY <1>6, <1>7
<1>9. QED
  BY <1>6, <1>8 DEF got2, m

(* How often a number has come, of three.                                  *)
LEMMA TimesCome ==
  ASSUME NEW got, AreQueues(got), NEW z \in Streams, NEW n \in SeqIds, n \notin got[z]
  PROVE  LET C(g) == Cardinality({s \in Streams : n \in g[s]})
         IN  /\ C(Got(got, z, n)) = C(got) + 1 /\ C(got) \in Nat
             /\ C(got) + 1 < 3 \/ C(got) + 1 = 3
             /\ C(got) + 1 = 3 <=> \A s \in Streams : n \in Got(got, z, n)[s]
<1> DEFINE S == {s \in Streams : n \in got[s]}
           S2 == {s \in Streams : n \in Got(got, z, n)[s]}
<1>1. \A s \in Streams : Got(got, z, n)[s] = IF s = z THEN got[z] \cup {n} ELSE got[s]
  BY DEF AreQueues, Got
<1>2. S2 = S \cup {z} /\ z \notin S
  BY <1>1
<1>3. S \in SUBSET Streams /\ S2 \in SUBSET Streams
  OBVIOUS
<1>4. S2 = Streams <=> \A s \in Streams : n \in Got(got, z, n)[s]
  OBVIOUS
<1> HIDE DEF S, S2
<1>5. IsFiniteSet(S) /\ Cardinality(S2) = Cardinality(S) + 1 /\ Cardinality(S) \in Nat
  BY <1>2, <1>3, SeqIdsFinite, FS_Subset, FS_AddElement, FS_CardinalityType
<1>6. Cardinality(S2) <= 3 /\ (Cardinality(S2) = 3 => S2 = Streams) /\ (S2 = Streams => Cardinality(S2) = 3)
  BY <1>3, SeqIdsFinite, FS_Subset
<1>7. QED
  BY <1>4, <1>5, <1>6 DEF S, S2

LEMMA AtomicStarts == AtomicInit => AtomicInv
<1> SUFFICES ASSUME AtomicInit PROVE AtomicInv
  OBVIOUS
<1>1. /\ sent = [s \in Streams |-> {}] /\ data = [s \in Streams |-> {}]
      /\ fronts = [s \in Streams |-> {}] /\ atomic_set = <<>> /\ atomic_set2 = <<>>
      /\ msg_seq_count = [n \in SeqIds |-> 0]
  BY DEF AtomicInit
<1>2. AreQueues(sent) /\ AreQueues(fronts) /\ \A s \in Streams : sent[s] = {} /\ fronts[s] = {}
  BY <1>1 DEF AreQueues
<1>3. PICK z \in Streams : TRUE
  BY SeqIdsFinite
<1>4. Complete = {} /\ CompleteOf(sent) = {}
  BY <1>2, <1>3 DEF Complete, CompleteOf
<1>5. data = [s \in Streams |-> {n \in sent[s] : \A c \in Complete : n > c}]
  BY <1>1, <1>2
<1>6. \A n \in SeqIds : Cardinality({s \in Streams : n \in sent[s]}) = 0
  <2>1. \A n \in SeqIds : {s \in Streams : n \in sent[s]} = {}
    BY <1>2
  <2>2. QED
    BY <2>1, FS_EmptySet
<1>7. msg_seq_count = [n \in SeqIds |-> IF n \in Complete THEN 0
                                        ELSE Cardinality({s \in Streams : n \in sent[s]})]
  BY <1>1, <1>4, <1>6
<1>8. /\ <<>> \in Seq(SeqIds) /\ ToSet(<<>>) = {} /\ Ascends(<<>>)
      /\ \A i, j \in DOMAIN <<>> : i < j => <<>>[i] < <<>>[j]
  BY DEF ToSet, Ascends
<1>9. ListsInOrder(<<>>, Complete)
  BY <1>4, <1>8 DEF ListsInOrder
<1>10. Settles(sent, fronts, <<>>, 0)
  <2>1. \A n \in SeqIds : n >= 1 /\ n \in Nat
    BY SeqIdsFinite
  <2>2. \A n \in SeqIds : ~(n <= 0)
    BY <2>1
  <2>3. QED
    BY <1>2, <1>8, <2>2 DEF Settles
<1>11. IsRound(sent, [queues |-> fronts, found |-> atomic_set2])
  <2> DEFINE w == [queues |-> fronts, found |-> atomic_set2]
  <2>1. w.queues = fronts /\ w.found = <<>> /\ w = [queues |-> w.queues, found |-> w.found]
    BY <1>1
  <2> HIDE DEF w
  <2>2. IsRound(sent, w)
    BY <1>2, <1>10, <2>1 DEF IsRound
  <2>3. QED
    BY <2>2 DEF w
<1>12. AtRest(fronts)
  BY <1>2, <1>3 DEF AtRest
<1>13. QED
  BY <1>1, <1>2, <1>5, <1>7, <1>8, <1>9, <1>11, <1>12 DEF AtomicInv

LEMMA AtomicStep ==
  ASSUME AtomicInv, NEW z \in Streams, NEW n \in SeqIds, AddMessage(z, n)
  PROVE  AtomicInv'
<1>1. /\ AreQueues(sent)
      /\ data = [s \in Streams |-> {m \in sent[s] : \A c \in Complete : m > c}]
      /\ msg_seq_count = [m \in SeqIds |-> IF m \in Complete THEN 0
                                           ELSE Cardinality({s \in Streams : m \in sent[s]})]
      /\ atomic_set \in Seq(SeqIds) /\ ListsInOrder(atomic_set, Complete)
      /\ IsRound(sent, [queues |-> fronts, found |-> atomic_set2]) /\ AtRest(fronts)
  BY DEF AtomicInv
<1>2. /\ \A m \in sent[z] : m < n
      /\ sent' = Got(sent, z, n)
      /\ SendAtomic([data EXCEPT ![z] = @ \cup {n}], n)
      /\ fronts' = Merge(Got(fronts, z, n), atomic_set2).queues
      /\ atomic_set2' = Merge(Got(fronts, z, n), atomic_set2).found
  BY DEF AddMessage, Got
<1>3. IsRound(sent', [queues |-> fronts', found |-> atomic_set2']) /\ AtRest(fronts')
  BY <1>1, <1>2, MergeSettles
<1> DEFINE got2 == Got(sent, z, n)
           C2 == CompleteOf(got2)
           all == \A s \in Streams : n \in got2[s]
<1>4. Complete = CompleteOf(sent) /\ Complete' = CompleteOf(sent')
  BY DEF Complete, CompleteOf
<1>5. /\ AreQueues(got2)
      /\ \A s \in Streams : got2[s] = IF s = z THEN sent[z] \cup {n} ELSE sent[s]
      /\ n \notin Complete /\ n \notin sent[z]
      /\ \A c \in Complete : c < n
      /\ C2 = IF all THEN Complete \cup {n} ELSE Complete
  BY <1>1, <1>2, <1>4, GotIs
<1>6. /\ n \in Nat /\ \A c \in Complete : c \in Nat /\ c \in SeqIds
      /\ \A s \in Streams : \A m \in sent[s] : m \in Nat /\ m \in SeqIds
  BY <1>1, SeqIdsFinite DEF AreQueues, Complete
<1> DEFINE Times(m) == Cardinality({s \in Streams : m \in sent[s]})
           Times2(m) == Cardinality({s \in Streams : m \in got2[s]})
           pending == [data EXCEPT ![z] = @ \cup {n}]
<1>7. /\ Times2(n) = Times(n) + 1 /\ Times(n) \in Nat
      /\ Times(n) + 1 < 3 \/ Times(n) + 1 = 3
      /\ Times(n) + 1 = 3 <=> all
  BY <1>1, <1>5, TimesCome
<1>8. \A m \in SeqIds : m # n => Times2(m) = Times(m)
  <2>1. ASSUME NEW m \in SeqIds, m # n
        PROVE  {s \in Streams : m \in sent[s]} = {s \in Streams : m \in got2[s]}
    BY <1>5, <2>1
  <2>2. QED
    BY <2>1
<1>9. sent' = got2 /\ Complete' = C2
  BY <1>2, <1>4
<1> HIDE DEF got2, C2, all, Times, Times2
<1>10. msg_seq_count[n] = Times(n)
  BY <1>1, <1>5 DEF Times
<1>11. /\ pending \in [Streams -> SUBSET SeqIds]
       /\ \A s \in Streams : pending[s] = {m \in got2[s] : \A c \in Complete : m > c}
  <2>1. data \in [Streams -> SUBSET SeqIds]
    BY <1>1, <1>6
  <2>2. \A s \in Streams : pending[s] = IF s = z THEN data[z] \cup {n} ELSE data[s]
    BY <2>1
  <2>3. \A s \in Streams : data[s] = {m \in sent[s] : \A c \in Complete : m > c}
    BY <1>1
  <2>4. \A c \in Complete : n > c
    BY <1>5, <1>6
  <2>5. pending \in [Streams -> SUBSET SeqIds]
    BY <2>1
  <2> HIDE DEF pending
  <2>6. ASSUME NEW s \in Streams
        PROVE  pending[s] = {m \in got2[s] : \A c \in Complete : m > c}
    <3>1. CASE s = z
      BY <1>5, <2>2, <2>3, <2>4, <3>1
    <3>2. CASE s # z
      BY <1>5, <2>2, <2>3, <3>2
    <3>3. QED
      BY <3>1, <3>2
  <2>7. QED
    BY <2>5, <2>6
<1>12. CASE Times(n) + 1 < 3
  <2>1. /\ msg_seq_count' = [msg_seq_count EXCEPT ![n] = @ + 1] /\ data' = pending
        /\ atomic_set' = atomic_set
    BY <1>2, <1>10, <1>12 DEF SendAtomic
  <2>2. ~all /\ C2 = Complete
    BY <1>5, <1>7, <1>12
  <2>3. data' = [s \in Streams |-> {m \in got2[s] : \A c \in C2 : m > c}]
    BY <1>11, <2>1, <2>2
  <2>4. msg_seq_count' = [m \in SeqIds |-> IF m \in C2 THEN 0 ELSE Times2(m)]
    <3>1. msg_seq_count = [m \in SeqIds |-> IF m \in Complete THEN 0 ELSE Times(m)]
      BY <1>1 DEF Times
    <3>2. QED
      BY <1>5, <1>7, <1>8, <2>1, <2>2, <3>1
  <2>5. atomic_set' \in Seq(SeqIds) /\ ListsInOrder(atomic_set', C2)
    BY <1>1, <2>1, <2>2
  <2>6. QED
    BY <1>3, <1>5, <1>9, <2>3, <2>4, <2>5 DEF AtomicInv, Times2
<1>13. CASE Times(n) + 1 = 3
  <2>1. /\ msg_seq_count' = [msg_seq_count EXCEPT ![n] = 0]
        /\ data' = [s \in Streams |-> {m \in pending[s] : m > n}]
        /\ atomic_set' = Append(atomic_set, n)
    <3>1. ~(Times(n) + 1 < 3)
      BY <1>13
    <3>2. QED
      BY <1>2, <1>10, <3>1 DEF SendAtomic
  <2>2. all /\ C2 = Complete \cup {n}
    BY <1>5, <1>7, <1>13
  <2>3. data' = [s \in Streams |-> {m \in got2[s] : \A c \in C2 : m > c}]
    <3>1. ASSUME NEW s \in Streams
          PROVE  {m \in pending[s] : m > n} = {m \in got2[s] : \A c \in C2 : m > c}
      <4> HIDE DEF pending
      <4>1. \A m \in pending[s] : m \in got2[s] /\ \A c \in Complete : m > c
        BY <1>11
      <4>2. \A m \in got2[s] : (\A c \in C2 : m > c) <=> (m > n /\ \A c \in Complete : m > c)
        BY <2>2
      <4>3. QED
        BY <1>11, <4>1, <4>2
    <3>2. QED
      BY <2>1, <3>1
  <2>4. msg_seq_count' = [m \in SeqIds |-> IF m \in C2 THEN 0 ELSE Times2(m)]
    <3>1. msg_seq_count = [m \in SeqIds |-> IF m \in Complete THEN 0 ELSE Times(m)]
      BY <1>1 DEF Times
    <3>2. QED
      BY <1>8, <2>1, <2>2, <3>1
  <2>5. /\ atomic_set' \in Seq(SeqIds) /\ ToSet(atomic_set') = C2
    BY <1>1, <2>1, <2>2, ToSetOfAppend DEF ListsInOrder
  <2>6. Ascends(atomic_set')
    <3>1. SeqIds \subseteq Nat /\ Ascends(atomic_set) /\ \A m \in ToSet(atomic_set) : m < n
      BY <1>1, <1>5, SeqIdsFinite DEF ListsInOrder, Ascends
    <3>2. QED
      BY <1>1, <1>6, <2>1, <3>1, AscendsOn
  <2>7. ListsInOrder(atomic_set', C2)
    BY <2>5, <2>6 DEF ListsInOrder, Ascends
  <2>8. QED
    BY <1>3, <1>5, <1>9, <2>3, <2>4, <2>5, <2>7 DEF AtomicInv, Times2
<1>14. QED
  BY <1>7, <1>12, <1>13

LEMMA AtomicTells == AtomicInv => BothFindComplete /\ NothingNeededDropped
<1> SUFFICES ASSUME AtomicInv PROVE BothFindComplete /\ NothingNeededDropped
  OBVIOUS
<1>1. /\ AreQueues(sent)
      /\ data = [s \in Streams |-> {m \in sent[s] : \A c \in Complete : m > c}]
      /\ msg_seq_count = [m \in SeqIds |-> IF m \in Complete THEN 0
                                           ELSE Cardinality({s \in Streams : m \in sent[s]})]
      /\ ListsInOrder(atomic_set, Complete)
      /\ IsRound(sent, [queues |-> fronts, found |-> atomic_set2]) /\ AtRest(fronts)
  BY DEF AtomicInv
<1>2. /\ AreQueues(fronts) /\ \E f \in Nat : Settles(sent, fronts, atomic_set2, f)
  <2> DEFINE w == [queues |-> fronts, found |-> atomic_set2]
  <2>1. IsRound(sent, w) /\ w.queues = fronts /\ w.found = atomic_set2
    BY <1>1
  <2> HIDE DEF w
  <2>2. QED
    BY <2>1 DEF IsRound
<1>3. PICK floor \in Nat : Settles(sent, fronts, atomic_set2, floor)
  BY <1>2
<1>4. Complete = CompleteOf(sent)
  BY DEF Complete, CompleteOf
<1>5. ListsInOrder(atomic_set2, Complete)
  BY <1>1, <1>3, <1>4, FoundIsComplete
<1>6. /\ \A s \in Streams : fronts[s] \subseteq sent[s]
                            /\ \A n \in sent[s] : n > floor => n \in fronts[s]
      /\ \A m \in ToSet(atomic_set2) : \A s \in Streams : \A n \in fronts[s] : m < n
      /\ \A n \in SeqIds : n <= floor => n \in ToSet(atomic_set2) \/ PassedBy(sent, n)
      /\ ToSet(atomic_set2) = Complete
  BY <1>3, <1>5 DEF Settles, ListsInOrder
<1>7. /\ \A s \in Streams : \A m \in sent[s] : m \in Nat /\ m \in SeqIds
      /\ \A m \in SeqIds : m \in Nat
  BY <1>1, SeqIdsFinite DEF AreQueues
<1>8. ASSUME NEW s \in Streams, NEW n \in fronts[s] PROVE n \in data[s]
  <2>1. n \in sent[s] /\ \A c \in Complete : c < n
    BY <1>6
  <2>2. \A c \in Complete : c \in Nat /\ n \in Nat
    BY <1>7, <2>1, SeqIdsFinite DEF Complete
  <2>3. \A c \in Complete : n > c
    BY <2>1, <2>2
  <2>4. QED
    BY <1>1, <2>1, <2>3
<1>9. ASSUME NEW s \in Streams, NEW n \in SeqIds, n \in sent[s], n \notin Complete,
             \A t \in Streams : n \in sent[t] \/ \A m \in sent[t] : m < n
      PROVE  /\ n \in data[s] \cap fronts[s]
             /\ msg_seq_count[n] = Cardinality({t \in Streams : n \in sent[t]})
  <2>1. ~PassedBy(sent, n)
    BY <1>7, <1>9 DEF PassedBy
  <2>2. n > floor
    BY <1>6, <1>7, <1>9, <2>1
  <2>3. n \in fronts[s]
    BY <1>6, <1>9, <2>2
  <2>4. QED
    BY <1>1, <1>8, <1>9, <2>3
<1>10. NothingNeededDropped
  BY <1>8, <1>9 DEF NothingNeededDropped
<1>11. QED
  BY <1>1, <1>5, <1>10 DEF BothFindComplete

LEMMA SetsFound == AtomicSpec => [](BothFindComplete /\ NothingNeededDropped)
<1>1. ASSUME AtomicInv, [AtomicNext \/ AtomicDone]_atomicVars PROVE AtomicInv'
  <2>1. CASE AtomicNext
    BY <1>1, <2>1, AtomicStep DEF AtomicNext
  <2>2. CASE UNCHANGED atomicVars
    BY <1>1, <2>2 DEF AtomicInv, atomicVars, Complete, IsRound, AtRest
  <2>3. QED
    BY <1>1, <2>1, <2>2 DEF AtomicDone
<1>2. QED
  BY <1>1, AtomicStarts, AtomicTells, PTL DEF AtomicSpec

-----------------------------------------------------------------------------
(***************************************************************************)
(* arbitrate of module Feeds.                                              *)
(***************************************************************************)

(* The pairs of numbers of S between which some are missing.               *)
GapsOf(S) ==
  {g \in S \X S : g[1] + 1 < g[2] /\ \A s \in g[1] + 1 .. g[2] - 1 : s \notin S}

(* out is what came, in order, with its gaps.                              *)
Merged(out, came) ==
  /\ out = [result |-> out.result, gaps |-> out.gaps]
  /\ out.result \in Seq(Nat) /\ Ascends(out.result) /\ ToSet(out.result) = came
  /\ out.gaps \in Seq(Nat \X Nat) /\ ToSet(out.gaps) = GapsOf(came)

LEMMA LastIsLargest ==
  ASSUME NEW r \in Seq(Nat), Ascends(r), r # <<>>
  PROVE  Last(r) \in ToSet(r) /\ Last(r) \in Nat /\ \A x \in ToSet(r) : x \in Nat /\ x <= Last(r)
<1> DEFINE n == Len(r)
<1>1. /\ n \in Nat /\ DOMAIN r = 1 .. n /\ \A i \in 1 .. n : r[i] \in Nat
      /\ n # 0 /\ Last(r) = r[n]
  BY EmptySeq DEF Last
<1> HIDE DEF n
<1>2. n \in 1 .. n
  BY <1>1
<1>3. ASSUME NEW i \in 1 .. n PROVE r[i] <= r[n]
  <2>1. i = n \/ i < n
    BY <1>1
  <2>2. i < n => r[i] < r[n]
    BY <1>1, <1>2 DEF Ascends
  <2>3. QED
    BY <1>1, <1>2, <2>1, <2>2
<1>4. QED
  BY <1>1, <1>2, <1>3 DEF ToSet

(* A number beyond all others opens a gap behind the largest of them, or   *)
(* none.                                                                   *)
LEMMA GapOpened ==
  ASSUME NEW S, S \subseteq Nat, NEW s \in Nat, \A x \in S : x < s,
         NEW x \in S, \A y \in S : y <= x
  PROVE  GapsOf(S \cup {s}) = IF x + 1 < s THEN GapsOf(S) \cup {<<x, s>>} ELSE GapsOf(S)
<1>1. x \in Nat /\ s \notin S /\ \A y \in S : y \in Nat
  OBVIOUS
<1>2. ASSUME NEW g \in GapsOf(S) PROVE g \in GapsOf(S \cup {s})
  <2>1. /\ g \in S \X S /\ g[1] + 1 < g[2] /\ \A n \in g[1] + 1 .. g[2] - 1 : n \notin S
        /\ g[1] \in S /\ g[2] \in S /\ g[1] \in Nat /\ g[2] \in Nat /\ g[2] < s
    BY <1>1, <1>2 DEF GapsOf
  <2>2. \A n \in g[1] + 1 .. g[2] - 1 : n # s
    BY <2>1
  <2>3. g \in (S \cup {s}) \X (S \cup {s})
    BY <2>1
  <2>4. QED
    BY <2>1, <2>2, <2>3 DEF GapsOf
<1>3. ASSUME NEW g \in GapsOf(S \cup {s}), g \notin GapsOf(S) PROVE g = <<x, s>> /\ x + 1 < s
  <2>1. /\ g \in (S \cup {s}) \X (S \cup {s}) /\ g[1] + 1 < g[2]
        /\ \A n \in g[1] + 1 .. g[2] - 1 : n \notin S \cup {s}
        /\ g[1] \in S \cup {s} /\ g[2] \in S \cup {s} /\ g = <<g[1], g[2]>>
    BY <1>3 DEF GapsOf
  <2>2. g[1] \in Nat /\ g[2] \in Nat
    BY <1>1, <2>1
  <2>3. g[1] \in S
    BY <1>1, <2>1, <2>2
  <2>4. g[2] = s
    <3>1. SUFFICES ASSUME g[2] \in S PROVE FALSE
      BY <2>1
    <3>2. g \in S \X S
      BY <2>1, <2>3, <3>1
    <3>3. QED
      BY <1>3, <2>1, <3>2 DEF GapsOf
  <2>5. x = g[1]
    <3>1. g[1] <= x /\ x < s
      BY <2>3
    <3>2. ~(g[1] < x)
      <4>1. SUFFICES ASSUME g[1] < x PROVE FALSE
        OBVIOUS
      <4>2. x \in g[1] + 1 .. g[2] - 1
        BY <1>1, <2>2, <2>4, <3>1, <4>1
      <4>3. QED
        BY <2>1, <4>2
    <3>3. QED
      BY <1>1, <2>2, <3>1, <3>2
  <2>6. QED
    BY <2>1, <2>4, <2>5
<1>4. ASSUME x + 1 < s PROVE <<x, s>> \in GapsOf(S \cup {s})
  <2> DEFINE g == <<x, s>>
  <2>1. g[1] = x /\ g[2] = s /\ g \in (S \cup {s}) \X (S \cup {s})
    OBVIOUS
  <2>2. \A n \in x + 1 .. s - 1 : n \notin S \cup {s}
    BY <1>1
  <2> HIDE DEF g
  <2>3. g \in GapsOf(S \cup {s})
    BY <1>4, <2>1, <2>2 DEF GapsOf
  <2>4. QED
    BY <2>3 DEF g
<1>5. QED
  BY <1>2, <1>3, <1>4

LEMMA FirstHasNoGap == GapsOf({}) = {} /\ \A s \in Nat : GapsOf({s}) = {}
<1>1. GapsOf({}) = {}
  BY DEF GapsOf
<1>2. ASSUME NEW s \in Nat, NEW g \in GapsOf({s}) PROVE FALSE
  <2>1. g \in {s} \X {s} /\ g[1] + 1 < g[2]
    BY <1>2 DEF GapsOf
  <2>2. g[1] = s /\ g[2] = s
    BY <2>1
  <2>3. QED
    BY <2>1, <2>2
<1>3. QED
  BY <1>1, <1>2

LEMMA NumberAdded ==
  ASSUME NEW came, NEW out, Merged(out, came), NEW s \in Nat, \A x \in came : x < s
  PROVE  Merged(AddNumber(out, s), came \cup {s})
<1> DEFINE r == out.result
           g == out.gaps
           g2 == IF r # <<>> /\ Last(r) + 1 < s THEN Append(g, <<Last(r), s>>) ELSE g
<1>1. /\ r \in Seq(Nat) /\ Ascends(r) /\ ToSet(r) = came
      /\ g \in Seq(Nat \X Nat) /\ ToSet(g) = GapsOf(came)
  BY DEF Merged
<1>2. AddNumber(out, s) = [result |-> Append(r, s), gaps |-> g2]
  BY DEF AddNumber
<1>3. /\ Append(r, s) \in Seq(Nat) /\ ToSet(Append(r, s)) = came \cup {s} /\ came \subseteq Nat
  <2> HIDE DEF r
  <2>1. /\ Append(r, s) \in Seq(Nat) /\ ToSet(Append(r, s)) = ToSet(r) \cup {s}
        /\ ToSet(r) \subseteq Nat
    BY <1>1, ToSetOfAppend, Zenon
  <2>2. QED
    BY <1>1, <2>1
<1>4. Ascends(Append(r, s))
  <2>1. Nat \subseteq Nat /\ \A m \in ToSet(r) : m < s
    BY <1>1
  <2>2. QED
    BY <1>1, <2>1, AscendsOn
<1>5. g2 \in Seq(Nat \X Nat) /\ ToSet(g2) = GapsOf(came \cup {s})
  <2>1. CASE r = <<>>
    <3>1. came = {} /\ came \cup {s} = {s} /\ g2 = g
      BY <1>1, <2>1 DEF ToSet
    <3>2. QED
      BY <1>1, <3>1, FirstHasNoGap
  <2>2. CASE r # <<>>
    <3> DEFINE x == Last(r)
    <3>1. x \in came /\ x \in Nat /\ \A y \in came : y <= x
      BY <1>1, <2>2, LastIsLargest
    <3>2. GapsOf(came \cup {s}) = IF x + 1 < s THEN GapsOf(came) \cup {<<x, s>>} ELSE GapsOf(came)
      BY <1>3, <3>1, GapOpened
    <3>3. g2 = IF x + 1 < s THEN Append(g, <<x, s>>) ELSE g
      BY <2>2
    <3>4. <<x, s>> \in Nat \X Nat
      BY <3>1
    <3> DEFINE p == <<x, s>>
               pairs == Nat \X Nat
    <3>5. p \in pairs /\ g \in Seq(pairs) /\ ToSet(g) = GapsOf(came)
      BY <1>1, <3>4
    <3> HIDE DEF x, g2, g, p, pairs
    <3>7. Append(g, p) \in Seq(pairs) /\ ToSet(Append(g, p)) = ToSet(g) \cup {p}
      BY <3>5, ToSetOfAppend
    <3>8. /\ Append(g, <<x, s>>) \in Seq(Nat \X Nat)
          /\ ToSet(Append(g, <<x, s>>)) = GapsOf(came) \cup {<<x, s>>}
      BY <3>5, <3>7 DEF p, pairs
    <3>6. QED
      BY <1>1, <3>2, <3>3, <3>8
  <2>3. QED
    BY <2>1, <2>2
<1> HIDE DEF r, g2
<1>6. QED
  BY <1>2, <1>3, <1>4, <1>5 DEF Merged

(* The lines rise.                                                         *)
LinesInv == A \in Seq(Nat) /\ B \in Seq(Nat) /\ Ascends(A) /\ Ascends(B)

(* What the loop has passed of a line when it stands at n.                 *)
Passed(line, n) == {line[i] : i \in 1 .. n - 1}

Stands(w) ==
  LET came == Passed(A, w.a) \cup Passed(B, w.b)
  IN /\ w.a \in 1 .. Len(A) + 1 /\ w.b \in 1 .. Len(B) + 1
     /\ Merged(w.out, came)
     /\ \A x \in came : (w.a <= Len(A) => x < A[w.a]) /\ (w.b <= Len(B) => x < B[w.b])

AtEnds(w) == w.a > Len(A) /\ w.b > Len(B)

LEMMA PassedOne ==
  ASSUME NEW line \in Seq(Nat), Ascends(line), NEW n \in 1 .. Len(line) + 1
  PROVE  /\ n <= Len(line) => /\ Passed(line, n + 1) = Passed(line, n) \cup {line[n]}
                              /\ line[n] \in Nat /\ n + 1 \in 1 .. Len(line) + 1
                              /\ \A x \in Passed(line, n) : x < line[n]
                              /\ (n + 1 <= Len(line) => line[n] < line[n + 1])
         /\ n > Len(line) => Passed(line, n) = ToSet(line)
         /\ Passed(line, 1) = {} /\ Passed(line, n) \subseteq Nat
<1> DEFINE k == Len(line)
<1>1. k \in Nat /\ DOMAIN line = 1 .. k /\ \A i \in 1 .. k : line[i] \in Nat
  OBVIOUS
<1>2. n \in 1 .. k + 1
  OBVIOUS
<1> HIDE DEF k
<1>3. \A i, j \in 1 .. k : i < j => line[i] < line[j]
  BY <1>1 DEF Ascends
<1>4. ASSUME n <= k
      PROVE  /\ Passed(line, n + 1) = Passed(line, n) \cup {line[n]}
             /\ line[n] \in Nat /\ n + 1 \in 1 .. k + 1
             /\ \A x \in Passed(line, n) : x < line[n]
             /\ (n + 1 <= k => line[n] < line[n + 1])
  <2>1. n \in 1 .. k /\ n \in Nat /\ (n + 1) - 1 = n
    BY <1>1, <1>2, <1>4
  <2>2. \A i : i \in 1 .. n <=> i \in 1 .. n - 1 \/ i = n
    BY <2>1
  <2>3. Passed(line, n + 1) = Passed(line, n) \cup {line[n]}
    BY <2>1, <2>2 DEF Passed
  <2>4. \A x \in Passed(line, n) : x < line[n]
    <3>1. \A i \in 1 .. n - 1 : i \in 1 .. k /\ i < n
      BY <1>1, <2>1
    <3>2. QED
      BY <1>3, <2>1, <3>1 DEF Passed
  <2>5. n + 1 <= k => line[n] < line[n + 1]
    <3>1. n + 1 <= k => n + 1 \in 1 .. k /\ n < n + 1
      BY <1>1, <2>1
    <3>2. QED
      BY <1>3, <2>1, <3>1
  <2>6. line[n] \in Nat /\ n + 1 \in 1 .. k + 1
    BY <1>1, <2>1
  <2>7. QED
    BY <2>3, <2>4, <2>5, <2>6
<1>5. ASSUME n > k PROVE Passed(line, n) = ToSet(line)
  <2>1. n - 1 = k
    BY <1>1, <1>2, <1>5
  <2>2. QED
    BY <1>1, <2>1 DEF Passed, ToSet
<1>6. Passed(line, 1) = {}
  <2>1. 1 .. 1 - 1 = {}
    OBVIOUS
  <2>2. QED
    BY <2>1 DEF Passed
<1>7. Passed(line, n) \subseteq Nat
  <2>1. \A i \in 1 .. n - 1 : i \in 1 .. k
    BY <1>1, <1>2
  <2>2. QED
    BY <1>1, <2>1 DEF Passed
<1>8. QED
  BY <1>4, <1>5, <1>6, <1>7 DEF k

(* A round takes the smaller of the two numbers, or both when they are     *)
(* the same.                                                               *)
LEMMA RoundTakes ==
  ASSUME LinesInv, NEW w, Stands(w), ~AtEnds(w)
  PROVE  /\ Stands(Arbitrate(w))
         /\ Arbitrate(w).a + Arbitrate(w).b > w.a + w.b
<1> DEFINE a == w.a
           b == w.b
           na == Len(A)
           nb == Len(B)
           cameA == Passed(A, a)
           cameB == Passed(B, b)
           takesA == a <= na /\ (b > nb \/ A[a] <= B[b])
           takesB == b <= nb /\ (a > na \/ B[b] <= A[a])
           s == IF takesA THEN A[a] ELSE B[b]
           a2 == IF takesA THEN a + 1 ELSE a
           b2 == IF takesB THEN b + 1 ELSE b
           out2 == AddNumber(w.out, s)
           v == [a |-> a2, b |-> b2, out |-> out2]
<1>1. /\ A \in Seq(Nat) /\ B \in Seq(Nat) /\ Ascends(A) /\ Ascends(B)
      /\ na \in Nat /\ nb \in Nat
  BY DEF LinesInv
<1>2. /\ a \in 1 .. na + 1 /\ b \in 1 .. nb + 1 /\ Merged(w.out, cameA \cup cameB)
      /\ \A x \in cameA \cup cameB : (a <= na => x < A[a]) /\ (b <= nb => x < B[b])
  BY DEF Stands
<1>3. /\ a <= na => /\ Passed(A, a + 1) = cameA \cup {A[a]}
                    /\ A[a] \in Nat /\ a + 1 \in 1 .. na + 1
                    /\ (a + 1 <= na => A[a] < A[a + 1])
      /\ cameA \subseteq Nat
  BY <1>1, <1>2, PassedOne
<1>4. /\ b <= nb => /\ Passed(B, b + 1) = cameB \cup {B[b]}
                    /\ B[b] \in Nat /\ b + 1 \in 1 .. nb + 1
                    /\ (b + 1 <= nb => B[b] < B[b + 1])
      /\ cameB \subseteq Nat
  BY <1>1, <1>2, PassedOne
<1>5. a <= na \/ b <= nb
  BY <1>1, <1>2 DEF AtEnds
<1>6. Arbitrate(w) = IF ~takesA /\ ~takesB THEN w ELSE v
  BY DEF Arbitrate
<1>7. /\ a \in Nat /\ b \in Nat /\ na \in Nat /\ nb \in Nat
      /\ (a > na <=> ~(a <= na)) /\ (b > nb <=> ~(b <= nb))
  BY <1>1, <1>2
<1>15. na = Len(A) /\ nb = Len(B) /\ v.a = a2 /\ v.b = b2 /\ v.out = out2 /\ a = w.a /\ b = w.b
  OBVIOUS
<1> HIDE DEF a, b, na, nb, cameA, cameB, v
<1>8. takesA \/ takesB
  BY <1>3, <1>4, <1>5, <1>7
<1>9. Arbitrate(w) = v
  BY <1>6, <1>8
<1>10. /\ a2 \in 1 .. na + 1 /\ b2 \in 1 .. nb + 1 /\ a2 + b2 > a + b
  BY <1>2, <1>3, <1>4, <1>7, <1>8
<1>11. /\ s \in Nat /\ \A x \in cameA \cup cameB : x < s
       /\ takesA => s = A[a]
       /\ takesB => s = B[b]
  <2>1. CASE takesA
    BY <1>2, <1>3, <1>4, <1>7, <2>1
  <2>2. CASE ~takesA
    BY <1>2, <1>4, <1>7, <1>8, <2>2
  <2>3. QED
    BY <2>1, <2>2
<1>12. Passed(A, a2) \cup Passed(B, b2) = (cameA \cup cameB) \cup {s}
  <2>1. Passed(A, a2) = IF takesA THEN cameA \cup {s} ELSE cameA
    BY <1>3, <1>11 DEF cameA
  <2>2. Passed(B, b2) = IF takesB THEN cameB \cup {s} ELSE cameB
    BY <1>4, <1>11 DEF cameB
  <2> HIDE DEF takesA, takesB, s, a2, b2
  <2>3. QED
    BY <1>8, <2>1, <2>2
<1>13. Merged(out2, (cameA \cup cameB) \cup {s})
  <2> HIDE DEF s
  <2>1. QED
    BY <1>2, <1>11, NumberAdded
<1>14. /\ (a2 <= na => s < A[a2])
       /\ (b2 <= nb => s < B[b2])
  <2>1. a2 <= na => s < A[a2]
    <3>1. CASE takesA
      BY <1>3, <1>7, <1>11, <3>1
    <3>2. CASE ~takesA
      BY <1>3, <1>4, <1>7, <1>8, <3>2
    <3>3. QED
      BY <3>1, <3>2
  <2>2. b2 <= nb => s < B[b2]
    <3>1. CASE takesB
      BY <1>4, <1>7, <1>11, <3>1
    <3>2. CASE ~takesB
      BY <1>3, <1>4, <1>7, <1>8, <3>2
    <3>3. QED
      BY <3>1, <3>2
  <2>3. QED
    BY <2>1, <2>2
<1>16. \A x \in cameA \cup cameB : x \in Nat /\ x < s
  BY <1>3, <1>4, <1>11
<1>17. /\ a2 <= na => A[a2] \in Nat
       /\ b2 <= nb => B[b2] \in Nat
  <2>1. /\ \A i \in 1 .. na : A[i] \in Nat
        /\ \A i \in 1 .. nb : B[i] \in Nat
    BY <1>1 DEF na, nb
  <2> HIDE DEF a2, b2
  <2>2. QED
    BY <1>7, <1>10, <2>1
<1> HIDE DEF s, a2, b2, out2, takesA, takesB
<1>18. \A x \in (cameA \cup cameB) \cup {s} : (a2 <= na => x < A[a2]) /\ (b2 <= nb => x < B[b2])
  <2>1. ASSUME NEW x \in cameA \cup cameB
        PROVE  (a2 <= na => x < A[a2]) /\ (b2 <= nb => x < B[b2])
    <3>1. x \in Nat /\ x < s /\ s \in Nat
      BY <1>11, <1>16
    <3>2. QED
      BY <1>14, <1>17, <3>1
  <2>2. QED
    BY <1>14, <2>1
<1>19. Stands(v)
  BY <1>10, <1>12, <1>13, <1>15, <1>18 DEF Stands
<1>20. QED
  BY <1>9, <1>10, <1>15, <1>19

(* The loops of arbitrate, up to round n.                                  *)
LineStart == [a |-> 1, b |-> 1, out |-> [result |-> <<>>, gaps |-> <<>>]]

AreTaken(w, n) ==
  w = [k \in 0 .. n |-> IF k = 0 THEN LineStart ELSE Arbitrate(w[k - 1])]

LEMMA TakenExist ==
  ASSUME NEW n \in Nat
  PROVE  \E w : AreTaken(w, n)
<1> DEFINE P == {k \in Nat : \E w : AreTaken(w, k)}
<1>1. 0 \in P
  <2> DEFINE w == [k \in 0 .. 0 |-> LineStart]
  <2>1. w = [k \in 0 .. 0 |-> IF k = 0 THEN LineStart ELSE Arbitrate(w[k - 1])]
    OBVIOUS
  <2> HIDE DEF w
  <2>2. AreTaken(w, 0)
    BY <2>1 DEF AreTaken
  <2>3. QED
    BY <2>2
<1>2. ASSUME NEW k \in Nat, k \in P PROVE k + 1 \in P
  <2>1. PICK w : AreTaken(w, k)
    BY <1>2
  <2> DEFINE v == [i \in 0 .. k + 1 |-> IF i = k + 1 THEN Arbitrate(w[k]) ELSE w[i]]
  <2>2. \A i \in 0 .. k : w[i] = IF i = 0 THEN LineStart ELSE Arbitrate(w[i - 1])
    BY <2>1 DEF AreTaken
  <2>3. \A i \in 0 .. k : v[i] = w[i]
    OBVIOUS
  <2>4. v[k + 1] = Arbitrate(w[k])
    OBVIOUS
  <2>5. v = [i \in 0 .. k + 1 |-> v[i]]
    OBVIOUS
  <2> HIDE DEF v
  <2>6. ASSUME NEW i \in 0 .. k + 1
        PROVE  v[i] = IF i = 0 THEN LineStart ELSE Arbitrate(v[i - 1])
    <3>1. CASE i = k + 1
      <4>1. k \in 0 .. k /\ i # 0 /\ i - 1 = k
        BY <3>1
      <4>2. v[i - 1] = w[k] /\ v[i] = Arbitrate(w[k])
        BY <2>3, <2>4, <3>1, <4>1
      <4>3. QED
        BY <4>1, <4>2
    <3>2. CASE i # k + 1
      <4>1. i \in 0 .. k /\ (i # 0 => i - 1 \in 0 .. k)
        BY <3>2
      <4>2. v[i] = w[i] /\ (i # 0 => v[i - 1] = w[i - 1])
        BY <2>3, <4>1
      <4>3. QED
        BY <2>2, <4>1, <4>2
    <3>3. QED
      BY <3>1, <3>2
  <2>7. AreTaken(v, k + 1)
    BY <2>5, <2>6 DEF AreTaken
  <2>8. QED
    BY <2>7
<1>3. n \in P
  <2> HIDE DEF P
  <2>1. QED
    BY <1>1, <1>2, Induction
<1>4. QED
  BY <1>3

LEMMA LineStarts == LinesInv => Stands(LineStart)
<1> SUFFICES ASSUME LinesInv PROVE Stands(LineStart)
  OBVIOUS
<1>1. /\ A \in Seq(Nat) /\ B \in Seq(Nat) /\ Len(A) \in Nat /\ Len(B) \in Nat
      /\ 1 \in 1 .. Len(A) + 1 /\ 1 \in 1 .. Len(B) + 1
  BY DEF LinesInv
<1>2. Passed(A, 1) = {} /\ Passed(B, 1) = {}
  BY <1>1, PassedOne DEF LinesInv
<1> DEFINE out == [result |-> <<>>, gaps |-> <<>>]
<1>3. LineStart.a = 1 /\ LineStart.b = 1 /\ LineStart.out = out
  BY DEF LineStart
<1>4. Merged(out, {})
  <2>1. /\ out.result = <<>> /\ out.gaps = <<>> /\ ToSet(<<>>) = {} /\ Ascends(<<>>)
        /\ <<>> \in Seq(Nat) /\ <<>> \in Seq(Nat \X Nat)
    BY DEF ToSet, Ascends
  <2>2. out = [result |-> out.result, gaps |-> out.gaps]
    OBVIOUS
  <2> HIDE DEF out
  <2>3. QED
    BY <2>1, <2>2, FirstHasNoGap DEF Merged
<1> HIDE DEF out
<1>5. QED
  BY <1>1, <1>2, <1>3, <1>4 DEF Stands

LEMMA TakenMerged ==
  ASSUME LinesInv
  PROVE  Merged(Arbitrated, ToSet(A) \cup ToSet(B))
<1> DEFINE top == Len(A) + Len(B)
           w == CHOOSE v : AreTaken(v, top)
<1>1. /\ A \in Seq(Nat) /\ B \in Seq(Nat) /\ Ascends(A) /\ Ascends(B)
      /\ Len(A) \in Nat /\ Len(B) \in Nat /\ top \in Nat
  BY DEF LinesInv
<1>2. Arbitrated = w[top].out
  BY DEF Arbitrated, AreTaken, LineStart
<1>3. AreTaken(w, top)
  BY <1>1, TakenExist
<1> HIDE DEF w
<1>4. \A k \in 0 .. top : w[k] = IF k = 0 THEN LineStart ELSE Arbitrate(w[k - 1])
  BY <1>3 DEF AreTaken
<1> DEFINE Good(k) == /\ Stands(w[k])
                      /\ AtEnds(w[k]) \/ w[k].a + w[k].b >= k + 2
           P == {k \in Nat : k <= top => Good(k)}
<1>5. top = Len(A) + Len(B)
  OBVIOUS
<1> HIDE DEF top
<1>6. 0 \in P
  <2>1. 0 \in 0 .. top
    BY <1>1
  <2>2. w[0] = LineStart
    BY <1>4, <2>1
  <2>3. LineStart.a + LineStart.b >= 0 + 2
    BY DEF LineStart
  <2>4. QED
    BY <2>2, <2>3, LineStarts
<1>7. ASSUME NEW k \in Nat, k \in P PROVE k + 1 \in P
  <2>1. SUFFICES ASSUME k + 1 <= top PROVE Good(k + 1)
    OBVIOUS
  <2>2. k <= top /\ k \in 0 .. top /\ k + 1 \in 0 .. top /\ k + 1 # 0 /\ (k + 1) - 1 = k
    BY <1>1, <2>1
  <2>3. w[k + 1] = Arbitrate(w[k])
    BY <1>4, <2>2
  <2>4. Good(k)
    BY <1>7, <2>2
  <2>5. w[k].a \in Nat /\ w[k].b \in Nat
    BY <1>1, <2>4 DEF Stands
  <2>6. CASE AtEnds(w[k])
    <3>1. ~(w[k].a <= Len(A)) /\ ~(w[k].b <= Len(B))
      BY <1>1, <2>5, <2>6 DEF AtEnds
    <3>2. Arbitrate(w[k]) = w[k]
      BY <3>1 DEF Arbitrate
    <3>3. QED
      BY <2>3, <2>4, <2>6, <3>2
  <2>7. CASE ~AtEnds(w[k])
    <3>1. /\ Stands(Arbitrate(w[k]))
          /\ Arbitrate(w[k]).a + Arbitrate(w[k]).b > w[k].a + w[k].b
      BY <2>4, <2>7, RoundTakes
    <3>2. Arbitrate(w[k]).a \in Nat /\ Arbitrate(w[k]).b \in Nat
      BY <1>1, <3>1 DEF Stands
    <3>3. w[k].a + w[k].b >= k + 2
      BY <2>4, <2>7
    <3>4. Arbitrate(w[k]).a + Arbitrate(w[k]).b >= (k + 1) + 2
      BY <2>5, <3>1, <3>2, <3>3
    <3>5. QED
      BY <2>3, <3>1, <3>4
  <2>8. QED
    BY <2>6, <2>7
<1>8. Good(top)
  <2> HIDE DEF P
  <2>1. top \in P
    BY <1>1, <1>6, <1>7, Induction
  <2>2. QED
    BY <1>1, <2>1 DEF P
<1>9. AtEnds(w[top])
  <2>1. w[top].a \in 1 .. Len(A) + 1 /\ w[top].b \in 1 .. Len(B) + 1
    BY <1>8 DEF Stands
  <2>2. CASE w[top].a + w[top].b >= top + 2
    BY <1>1, <1>5, <2>1, <2>2 DEF AtEnds
  <2>3. QED
    BY <1>8, <2>2
<1>10. /\ Merged(w[top].out, Passed(A, w[top].a) \cup Passed(B, w[top].b))
       /\ w[top].a \in 1 .. Len(A) + 1 /\ w[top].b \in 1 .. Len(B) + 1
  BY <1>8 DEF Stands
<1>11. Passed(A, w[top].a) = ToSet(A) /\ Passed(B, w[top].b) = ToSet(B)
  BY <1>1, <1>9, <1>10, PassedOne DEF AtEnds
<1>12. QED
  BY <1>2, <1>10, <1>11

LEMMA LineLonger ==
  ASSUME NEW line \in Seq(Nat), Ascends(line), NEW s \in Nat, After(line, s)
  PROVE  Append(line, s) \in Seq(Nat) /\ Ascends(Append(line, s))
<1>1. DOMAIN line = 1 .. Len(line)
  OBVIOUS
<1>2. \A m \in ToSet(line) : m < s
  BY <1>1 DEF After, ToSet
<1>3. Nat \subseteq Nat
  OBVIOUS
<1>4. Ascends(Append(line, s))
  BY <1>2, <1>3, AscendsOn
<1>5. QED
  BY <1>4

LEMMA LinesMerged == LinesSpec => []NothingLostInMerge
<1>1. LinesInit => LinesInv
  BY DEF LinesInit, LinesInv, Ascends
<1>2. ASSUME LinesInv, [LinesMove]_lineVars PROVE LinesInv'
  <2>1. /\ A \in Seq(Nat) /\ B \in Seq(Nat) /\ Ascends(A) /\ Ascends(B)
    BY <1>2 DEF LinesInv
  <2>2. ASSUME NEW s \in 1 .. LastNumber, After(A, s), A' = Append(A, s), B' = B PROVE LinesInv'
    <3>1. s \in Nat
      BY MergeAssumption
    <3>2. A' \in Seq(Nat) /\ Ascends(A')
      BY <2>1, <2>2, <3>1, LineLonger
    <3>3. QED
      BY <2>1, <2>2, <3>2 DEF LinesInv
  <2>3. ASSUME NEW s \in 1 .. LastNumber, After(B, s), B' = Append(B, s), A' = A PROVE LinesInv'
    <3>1. s \in Nat
      BY MergeAssumption
    <3>2. B' \in Seq(Nat) /\ Ascends(B')
      BY <2>1, <2>3, <3>1, LineLonger
    <3>3. QED
      BY <2>1, <2>3, <3>2 DEF LinesInv
  <2>4. CASE UNCHANGED lineVars
    BY <1>2, <2>4 DEF LinesInv, lineVars
  <2>5. QED
    BY <1>2, <2>2, <2>3, <2>4 DEF LinesMove
<1>3. LinesInv => NothingLostInMerge
  <2> SUFFICES ASSUME LinesInv PROVE NothingLostInMerge
    OBVIOUS
  <2> DEFINE came == ToSet(A) \cup ToSet(B)
  <2>1. Merged(Arbitrated, came)
    BY TakenMerged
  <2> HIDE DEF came
  <2>2. ListsInOrder(Arbitrated.result, came) /\ ToSet(Arbitrated.gaps) = GapsOf(came)
    BY <2>1 DEF Merged, ListsInOrder, Ascends
  <2>3. QED
    BY <2>2 DEF NothingLostInMerge, GapsOf, came
<1>4. QED
  BY <1>1, <1>2, <1>3, PTL DEF LinesSpec

-----------------------------------------------------------------------------
(***************************************************************************)
(* compute_docks of module Feeds.                                          *)
(***************************************************************************)

(* Each loading ends after it began, on the same day.                      *)
DocksInv ==
  /\ Len(loadings) \in Nat /\ DOMAIN loadings = 1 .. Len(loadings)
  /\ \A i \in 1 .. Len(loadings) :
       /\ loadings[i].start \in 0 .. LastMinute /\ loadings[i].end \in 0 .. LastMinute
       /\ loadings[i].start < loadings[i].end

Rows == 1 .. Len(loadings)
StartedBy(m) == {i \in Rows : loadings[i].start <= m}
StartAt(m) == {i \in Rows : loadings[i].start = m}
EndAt(m) == {i \in Rows : loadings[i].end = m}
LoadingAt(m) == {i \in Rows : loadings[i].start <= m /\ m < loadings[i].end}

LEMMA RowsFinite ==
  ASSUME DocksInv
  PROVE  \A S \in SUBSET Rows : IsFiniteSet(S) /\ Cardinality(S) \in Nat
<1>1. IsFiniteSet(Rows)
  BY FS_Interval DEF Rows, DocksInv
<1>2. QED
  BY <1>1, FS_Subset, FS_CardinalityType

(* Two sets without a common member.                                       *)
LEMMA Apartness ==
  ASSUME NEW S, NEW T, IsFiniteSet(S), IsFiniteSet(T), S \cap T = {},
         Cardinality(S) \in Nat, Cardinality(T) \in Nat
  PROVE  Cardinality(S \cup T) = Cardinality(S) + Cardinality(T)
<1>1. Cardinality(S \cup T) = Cardinality(S) + Cardinality(T) - Cardinality(S \cap T)
  BY FS_Union
<1>2. Cardinality(S \cap T) = 0
  BY FS_EmptySet
<1>3. QED
  BY <1>1, <1>2

LEMMA SumOnward ==
  ASSUME DocksInv, NEW m \in Nat
  PROVE  Cardinality(LoadingAt(m)) = Cardinality(LoadingAt(m - 1)) + Count(m)
<1>1. \A i \in Rows : /\ loadings[i].start \in Nat /\ loadings[i].end \in Nat
                      /\ loadings[i].start < loadings[i].end
  BY MergeAssumption DEF DocksInv, Rows
<1> DEFINE L1 == LoadingAt(m)
           L0 == LoadingAt(m - 1)
           S == StartAt(m)
           E == EndAt(m)
<1>2. L1 \in SUBSET Rows /\ L0 \in SUBSET Rows /\ S \in SUBSET Rows /\ E \in SUBSET Rows
  BY DEF LoadingAt, StartAt, EndAt
<1>3. L1 \cup E = L0 \cup S
  BY <1>1 DEF LoadingAt, StartAt, EndAt
<1>4. L1 \cap E = {} /\ L0 \cap S = {}
  BY <1>1 DEF LoadingAt, StartAt, EndAt
<1>5. Count(m) = Cardinality(S) - Cardinality(E)
  BY DEF Count, StartAt, EndAt, Rows
<1> HIDE DEF L1, L0, S, E
<1>6. /\ IsFiniteSet(L1) /\ IsFiniteSet(L0) /\ IsFiniteSet(S) /\ IsFiniteSet(E)
      /\ Cardinality(L1) \in Nat /\ Cardinality(L0) \in Nat
      /\ Cardinality(S) \in Nat /\ Cardinality(E) \in Nat
  BY <1>2, RowsFinite
<1>7. /\ Cardinality(L1 \cup E) = Cardinality(L1) + Cardinality(E)
      /\ Cardinality(L0 \cup S) = Cardinality(L0) + Cardinality(S)
  BY <1>4, <1>6, Apartness
<1>8. Cardinality(L1) = Cardinality(L0) + Count(m)
  <2>1. Cardinality(L1) + Cardinality(E) = Cardinality(L0) + Cardinality(S)
    BY <1>3, <1>7
  <2>2. Cardinality(L1) = Cardinality(L0) + (Cardinality(S) - Cardinality(E))
    BY <1>6, <2>1
  <2>3. QED
    BY <1>5, <2>2
<1>9. QED
  BY <1>8 DEF L1, L0

(* The loop over the minutes, up to minute n - 1.                          *)
DockStart == [sum |-> 0, max_val |-> 0]

NextDock(before, count) ==
  [sum |-> before.sum + count,
   max_val |-> IF before.sum + count > before.max_val THEN before.sum + count ELSE before.max_val]

AreCounted(w, n) ==
  w = [m \in -1 .. n |-> IF m = -1 THEN DockStart ELSE NextDock(w[m - 1], Count(m))]

LEMMA CountedExist ==
  ASSUME NEW n \in Nat
  PROVE  \E w : AreCounted(w, n - 1)
<1> DEFINE P == {k \in Nat : \E w : AreCounted(w, k - 1)}
<1>1. 0 \in P
  <2> DEFINE w == [m \in -1 .. 0 - 1 |-> DockStart]
  <2>1. w = [m \in -1 .. 0 - 1 |-> IF m = -1 THEN DockStart ELSE NextDock(w[m - 1], Count(m))]
    OBVIOUS
  <2> HIDE DEF w
  <2>2. AreCounted(w, 0 - 1)
    BY <2>1 DEF AreCounted
  <2>3. QED
    BY <2>2
<1>2. ASSUME NEW k \in Nat, k \in P PROVE k + 1 \in P
  <2>1. PICK w : AreCounted(w, k - 1)
    BY <1>2
  <2> DEFINE v == [m \in -1 .. k |-> IF m = k THEN NextDock(w[k - 1], Count(k)) ELSE w[m]]
  <2>2. \A m \in -1 .. k - 1 : w[m] = IF m = -1 THEN DockStart ELSE NextDock(w[m - 1], Count(m))
    BY <2>1 DEF AreCounted
  <2>3. \A m \in -1 .. k - 1 : v[m] = w[m]
    OBVIOUS
  <2>4. v[k] = NextDock(w[k - 1], Count(k))
    OBVIOUS
  <2>5. v = [m \in -1 .. k |-> v[m]]
    OBVIOUS
  <2> HIDE DEF v
  <2>6. ASSUME NEW m \in -1 .. k
        PROVE  v[m] = IF m = -1 THEN DockStart ELSE NextDock(v[m - 1], Count(m))
    <3>1. CASE m = k
      <4>1. k - 1 \in -1 .. k - 1 /\ m # -1
        BY <3>1
      <4>2. v[m - 1] = w[k - 1]
        BY <2>3, <3>1, <4>1
      <4>3. QED
        BY <2>4, <3>1, <4>1, <4>2
    <3>2. CASE m # k
      <4>1. m \in -1 .. k - 1 /\ (m # -1 => m - 1 \in -1 .. k - 1)
        BY <3>2
      <4>2. v[m] = w[m] /\ (m # -1 => v[m - 1] = w[m - 1])
        BY <2>3, <4>1
      <4>3. QED
        BY <2>2, <4>1, <4>2
    <3>3. QED
      BY <3>1, <3>2
  <2>7. (k + 1) - 1 = k
    OBVIOUS
  <2>8. AreCounted(v, (k + 1) - 1)
    BY <2>5, <2>6, <2>7 DEF AreCounted
  <2>9. QED
    BY <2>8
<1>3. n \in P
  <2> HIDE DEF P
  <2>1. QED
    BY <1>1, <1>2, Induction
<1>4. QED
  BY <1>3

(* x is the most docks used at once up to minute m.                        *)
IsPeak(x, m) ==
  /\ x \in Nat /\ \A j \in 0 .. m : Cardinality(LoadingAt(j)) <= x
  /\ x = 0 \/ \E j \in 0 .. m : x = Cardinality(LoadingAt(j))

LEMMA DocksCounted == DocksInv => IsPeak(ComputeDocks, LastMinute)
<1> SUFFICES ASSUME DocksInv PROVE IsPeak(ComputeDocks, LastMinute)
  OBVIOUS
<1> DEFINE w == CHOOSE v : AreCounted(v, LastMinute)
<1>1. LastMinute \in Nat
  BY MergeAssumption
<1>2. ComputeDocks = w[LastMinute].max_val
  BY DEF ComputeDocks, AreCounted, NextDock, DockStart
<1>3. AreCounted(w, LastMinute)
  <2>1. LastMinute + 1 \in Nat /\ (LastMinute + 1) - 1 = LastMinute
    BY <1>1
  <2>2. \E v : AreCounted(v, LastMinute)
    BY <2>1, CountedExist
  <2>3. QED
    BY <2>2
<1> HIDE DEF w
<1>4. \A m \in -1 .. LastMinute :
        w[m] = IF m = -1 THEN DockStart ELSE NextDock(w[m - 1], Count(m))
  BY <1>3 DEF AreCounted
<1>5. \A m \in Int : Cardinality(LoadingAt(m)) \in Nat
  <2>1. \A m \in Int : LoadingAt(m) \in SUBSET Rows
    BY DEF LoadingAt
  <2>2. QED
    BY <2>1, RowsFinite
<1> DEFINE Good(m) == w[m].sum = Cardinality(LoadingAt(m)) /\ IsPeak(w[m].max_val, m)
           P == {k \in Nat : k - 1 <= LastMinute => Good(k - 1)}
<1>6. 0 \in P
  <2>1. -1 \in -1 .. LastMinute /\ 0 - 1 = -1 /\ 0 .. -1 = {}
    BY <1>1
  <2>2. w[-1] = DockStart
    BY <1>4, <2>1
  <2>3. LoadingAt(-1) = {}
    BY MergeAssumption DEF LoadingAt, DocksInv, Rows
  <2>4. Good(-1)
    BY <2>1, <2>2, <2>3, FS_EmptySet DEF DockStart, IsPeak
  <2>5. QED
    BY <2>1, <2>4
<1>7. ASSUME NEW k \in Nat, k \in P PROVE k + 1 \in P
  <2>1. SUFFICES ASSUME k <= LastMinute PROVE Good(k)
    <3>1. (k + 1) - 1 = k
      OBVIOUS
    <3>2. QED
      BY <3>1
  <2>2. k - 1 <= LastMinute /\ k \in -1 .. LastMinute /\ k # -1
    BY <1>1, <2>1
  <2>3. w[k] = NextDock(w[k - 1], Count(k))
    BY <1>4, <2>2
  <2>4. Good(k - 1)
    BY <1>7, <2>2
  <2> DEFINE x == w[k - 1].max_val
             c == Cardinality(LoadingAt(k))
  <2>5. w[k - 1].sum + Count(k) = c
    BY <2>4, SumOnward
  <2>6. w[k].sum = c /\ w[k].max_val = IF c > x THEN c ELSE x
    BY <2>3, <2>5 DEF NextDock
  <2>7. c \in Nat
    BY <1>5
  <2>8. \A j \in 0 .. k : j \in 0 .. k - 1 \/ j = k
    OBVIOUS
  <2>9. 0 .. k - 1 \subseteq 0 .. k /\ k \in 0 .. k
    OBVIOUS
  <2>10. /\ x \in Nat /\ \A j \in 0 .. k - 1 : Cardinality(LoadingAt(j)) <= x
         /\ x = 0 \/ \E j \in 0 .. k - 1 : x = Cardinality(LoadingAt(j))
    BY <2>4 DEF IsPeak
  <2>11. c = Cardinality(LoadingAt(k)) /\ \A j \in 0 .. k : Cardinality(LoadingAt(j)) \in Nat
    BY <1>5
  <2> HIDE DEF x, c
  <2>12. CASE c > x
    <3>1. w[k].max_val = c
      BY <2>6, <2>12
    <3>2. \A j \in 0 .. k : Cardinality(LoadingAt(j)) <= c
      BY <2>7, <2>8, <2>10, <2>11, <2>12
    <3>3. IsPeak(c, k)
      BY <2>7, <2>9, <2>11, <3>2 DEF IsPeak
    <3>4. QED
      BY <2>6, <2>11, <3>1, <3>3
  <2>13. CASE ~(c > x)
    <3>1. w[k].max_val = x
      BY <2>6, <2>13
    <3>2. \A j \in 0 .. k : Cardinality(LoadingAt(j)) <= x
      BY <2>7, <2>8, <2>10, <2>11, <2>13
    <3>3. IsPeak(x, k)
      BY <2>9, <2>10, <3>2 DEF IsPeak
    <3>4. QED
      BY <2>6, <2>11, <3>1, <3>3
  <2>14. QED
    BY <2>12, <2>13
<1>8. Good(LastMinute)
  <2>1. LastMinute + 1 \in Nat /\ (LastMinute + 1) - 1 = LastMinute
    BY <1>1
  <2> HIDE DEF P
  <2>2. LastMinute + 1 \in P
    BY <1>6, <1>7, <2>1, Induction
  <2>3. QED
    BY <1>1, <2>1, <2>2 DEF P
<1>9. QED
  BY <1>2, <1>8

LEMMA PeakIsMax ==
  ASSUME NEW x, IsPeak(x, LastMinute), DocksInv
  PROVE  x = Max({Cardinality(LoadingAt(m)) : m \in 0 .. LastMinute})
<1> DEFINE S == {Cardinality(LoadingAt(m)) : m \in 0 .. LastMinute}
<1>1. LastMinute \in Nat /\ 0 \in 0 .. LastMinute
  BY MergeAssumption
<1>2. \A m \in 0 .. LastMinute : Cardinality(LoadingAt(m)) \in Nat
  <2>1. \A m \in 0 .. LastMinute : LoadingAt(m) \in SUBSET Rows
    BY DEF LoadingAt
  <2>2. QED
    BY <2>1, RowsFinite
<1>3. \A y \in S : y \in Nat /\ y <= x
  BY <1>2 DEF IsPeak
<1>4. x \in S
  <2>1. CASE x = 0
    <3>1. Cardinality(LoadingAt(0)) = 0
      BY <1>1, <1>2, <2>1 DEF IsPeak
    <3>2. QED
      BY <1>1, <2>1, <3>1
  <2>2. CASE x # 0
    BY <2>2 DEF IsPeak
  <2>3. QED
    BY <2>1, <2>2
<1> HIDE DEF S
<1>5. S \subseteq Nat
  BY <1>3
<1>6. Max(S) = x
  BY <1>3, <1>4, <1>5, MaxIs
<1>7. QED
  BY <1>6 DEF S

LEMMA DocksEnough == DocksSpec => []DocksAreNeeded
<1>1. DocksInit => DocksInv
  <2> SUFFICES ASSUME DocksInit PROVE DocksInv
    OBVIOUS
  <2>1. loadings = <<>> /\ Len(<<>>) = 0 /\ DOMAIN <<>> = 1 .. 0 /\ 1 .. 0 = {}
    BY DEF DocksInit
  <2>2. QED
    BY <2>1 DEF DocksInv
<1>2. ASSUME DocksInv, [DocksMove]_loadings PROVE DocksInv'
  <2>1. ASSUME NEW start \in 0 .. LastMinute, NEW end \in 0 .. LastMinute, start < end,
               loadings' = Append(loadings, [start |-> start, end |-> end])
        PROVE  DocksInv'
    <3> DEFINE k == Len(loadings)
               e == [start |-> start, end |-> end]
    <3>1. /\ k \in Nat /\ DOMAIN loadings = 1 .. k
          /\ \A i \in 1 .. k :
               /\ loadings[i].start \in 0 .. LastMinute /\ loadings[i].end \in 0 .. LastMinute
               /\ loadings[i].start < loadings[i].end
      BY <1>2 DEF DocksInv
    <3>2. e.start = start /\ e.end = end
      OBVIOUS
    <3> HIDE DEF e
    <3>3. loadings' = [i \in 1 .. k + 1 |-> IF i = k + 1 THEN e ELSE loadings[i]]
      BY <2>1 DEF Append, e
    <3>4. Len(loadings') = k + 1 /\ DOMAIN loadings' = 1 .. k + 1
      BY <3>1, <3>3
    <3> HIDE DEF k
    <3>5. \A i \in 1 .. k + 1 : loadings'[i] = IF i = k + 1 THEN e ELSE loadings[i]
      BY <3>3
    <3>6. \A i \in 1 .. k + 1 : i = k + 1 \/ i \in 1 .. k
      BY <3>1
    <3>7. QED
      BY <2>1, <3>1, <3>2, <3>4, <3>5, <3>6 DEF DocksInv
  <2>2. CASE loadings' = loadings
    BY <1>2, <2>2 DEF DocksInv
  <2>3. QED
    BY <1>2, <2>1, <2>2 DEF DocksMove
<1>3. DocksInv => DocksAreNeeded
  BY DocksCounted, PeakIsMax DEF DocksAreNeeded, LoadingAt, Rows
<1>4. QED
  BY <1>1, <1>2, <1>3, PTL DEF DocksSpec

-----------------------------------------------------------------------------
(***************************************************************************)
(* OrderTiers of module Feeds.                                             *)
(***************************************************************************)

(* w adds up g over every set of members of D, in whatever order.          *)
Additive(w, g, D) ==
  /\ w \in [SUBSET D -> Nat] /\ w[{}] = 0
  /\ \A S \in SUBSET D : \A x \in D \ S : w[S \cup {x}] = w[S] + g[x]

(* g with v for d, and what is added up of sets without d as it was.       *)
WithWeight(g, d, v) == [g EXCEPT ![d] = v]
SameWithout(w2, w, D, d) == \A S \in SUBSET D : d \notin S => w2[S] = w[S]

(* What is added up where one number is another.                           *)
LEMMA AdditiveChanged ==
  ASSUME NEW D, NEW g \in [D -> Nat], NEW w, Additive(w, g, D), NEW d \in D, NEW v \in Nat
  PROVE  \E w2 : Additive(w2, WithWeight(g, d, v), D) /\ SameWithout(w2, w, D, d)
<1> DEFINE w2 == [S \in SUBSET D |-> IF d \in S THEN w[S \ {d}] + v ELSE w[S]]
           g2 == [g EXCEPT ![d] = v]
<1>1. /\ \A S \in SUBSET D : w[S] \in Nat
      /\ w[{}] = 0
      /\ \A S \in SUBSET D : \A x \in D \ S : w[S \cup {x}] = w[S] + g[x]
  BY DEF Additive
<1>2. \A x \in D : g2[x] = (IF x = d THEN v ELSE g[x]) /\ g[x] \in Nat
  OBVIOUS
<1>3. \A S \in SUBSET D : w2[S] = IF d \in S THEN w[S \ {d}] + v ELSE w[S]
  OBVIOUS
<1>4. \A S \in SUBSET D : S \ {d} \in SUBSET D
  OBVIOUS
<1>5. w2 \in [SUBSET D -> Nat]
  BY <1>1, <1>4
<1> HIDE DEF w2, g2
<1>6. w2[{}] = 0
  BY <1>1, <1>3
<1>7. ASSUME NEW S \in SUBSET D, NEW x \in D \ S PROVE w2[S \cup {x}] = w2[S] + g2[x]
  <2>1. S \cup {x} \in SUBSET D /\ S \ {d} \in SUBSET D
    OBVIOUS
  <2>2. w2[S \cup {x}] = IF d \in S \cup {x} THEN w[(S \cup {x}) \ {d}] + v ELSE w[S \cup {x}]
    BY <1>3, <2>1
  <2>3. w2[S] = IF d \in S THEN w[S \ {d}] + v ELSE w[S]
    BY <1>3
  <2>4. CASE x = d
    <3>1. (S \cup {x}) \ {d} = S /\ d \notin S
      BY <2>4
    <3>2. QED
      BY <1>2, <2>2, <2>3, <2>4, <3>1
  <2>5. CASE x # d /\ d \in S
    <3>1. (S \cup {x}) \ {d} = (S \ {d}) \cup {x} /\ x \in D \ (S \ {d})
      BY <2>5
    <3>2. w[(S \ {d}) \cup {x}] = w[S \ {d}] + g[x]
      BY <1>1, <2>1, <3>1
    <3>3. w[S \ {d}] \in Nat /\ g[x] \in Nat /\ g2[x] = g[x]
      BY <1>1, <1>2, <2>1, <2>5
    <3>4. w2[S \cup {x}] = (w[S \ {d}] + g[x]) + v /\ w2[S] = w[S \ {d}] + v
      BY <2>2, <2>3, <2>5, <3>1, <3>2
    <3>5. QED
      BY <3>3, <3>4
  <2>6. CASE x # d /\ d \notin S
    BY <1>1, <1>2, <2>2, <2>3, <2>6
  <2>7. QED
    BY <2>4, <2>5, <2>6
<1>8. Additive(w2, g2, D)
  BY <1>5, <1>6, <1>7 DEF Additive
<1>9. QED
  BY <1>3, <1>8 DEF g2, WithWeight, SameWithout

-----------------------------------------------------------------------------
Order == [price : Prices, size : Sizes, side : Sides]
IsBook(book) == book \in [OrderIds -> Order \cup {NoOrder}]

SizeOfOrder(o) == IF o = NoOrder THEN 0 ELSE o.size
SizesIn(book) == [id \in OrderIds |-> SizeOfOrder(book[id])]
IsAt(o, side, p) == o # NoOrder /\ o.side = side /\ o.price = p
AtIn(book, side, p) == {id \in OrderIds : IsAt(book[id], side, p)}
Weight(o, side, p) == IF IsAt(o, side, p) THEN o.size ELSE 0

LEMMA OrderTypes ==
  ASSUME NEW o \in Order \cup {NoOrder}
  PROVE  /\ SizeOfOrder(o) \in Nat
         /\ o # NoOrder => /\ o.price \in Prices /\ o.price \in Nat /\ o.side \in Sides
                           /\ o.size \in Nat /\ o.size # 0 /\ o.size \in Sizes
                           /\ o = [price |-> o.price, size |-> o.size, side |-> o.side]
         /\ \A side, p : Weight(o, side, p) \in Nat
<1>1. /\ \A p \in Prices : p \in Nat
      /\ \A s \in Sizes : s \in Nat /\ s # 0
  BY FeedAssumption
<1>2. o # NoOrder => /\ o.price \in Prices /\ o.side \in Sides /\ o.size \in Sizes
                     /\ o = [price |-> o.price, size |-> o.size, side |-> o.side]
  BY DEF Order
<1>3. QED
  BY <1>1, <1>2 DEF SizeOfOrder, Weight, IsAt

(* An order in the place of another: the sums of all prices follow.        *)
Reweighed(w2, w, book2, book, old, new) ==
  \A side, p : w2[AtIn(book2, side, p)] + Weight(old, side, p)
                 = w[AtIn(book, side, p)] + Weight(new, side, p)

LEMMA BookChanged ==
  ASSUME NEW book, IsBook(book), NEW w, Additive(w, SizesIn(book), OrderIds),
         NEW id \in OrderIds, NEW o \in Order \cup {NoOrder},
         NEW book2, book2 = [book EXCEPT ![id] = o]
  PROVE  /\ IsBook(book2)
         /\ \E w2 : /\ Additive(w2, SizesIn(book2), OrderIds)
                    /\ Reweighed(w2, w, book2, book, book[id], o)
<1>1. IsBook(book2) /\ \A j \in OrderIds : book2[j] = IF j = id THEN o ELSE book[j]
  BY DEF IsBook
<1> DEFINE g == SizesIn(book)
           v == SizeOfOrder(o)
           g2 == [g EXCEPT ![id] = v]
<1>2. g \in [OrderIds -> Nat]
  <2>1. \A j \in OrderIds : SizeOfOrder(book[j]) \in Nat
    BY OrderTypes DEF IsBook
  <2>2. QED
    BY <2>1 DEF SizesIn
<1>3. v \in Nat
  BY OrderTypes
<1>4. g2 = SizesIn(book2) /\ \A j \in OrderIds : g[j] = SizeOfOrder(book[j])
  BY <1>1 DEF SizesIn
<1>5. PICK w2 : Additive(w2, g2, OrderIds) /\ \A S \in SUBSET OrderIds : id \notin S => w2[S] = w[S]
  <2>1. Additive(w, g, OrderIds)
    OBVIOUS
  <2> HIDE DEF g, v
  <2>2. \E w2 : Additive(w2, WithWeight(g, id, v), OrderIds) /\ SameWithout(w2, w, OrderIds, id)
    BY Zenon, <1>2, <1>3, <2>1, AdditiveChanged
  <2>3. QED
    BY Zenon, <2>2 DEF WithWeight, SameWithout
<1>6. g2[id] = SizeOfOrder(o) /\ g[id] = SizeOfOrder(book[id])
  BY <1>2, <1>4
<1>7. Additive(w, g, OrderIds)
  OBVIOUS
<1> HIDE DEF g, g2, v
<1>8. ASSUME NEW side, NEW p
      PROVE  w2[AtIn(book2, side, p)] + Weight(book[id], side, p)
               = w[AtIn(book, side, p)] + Weight(o, side, p)
  <2> DEFINE S == AtIn(book, side, p)
             S2 == AtIn(book2, side, p)
             R == S \ {id}
  <2>1. /\ S \in SUBSET OrderIds /\ S2 \in SUBSET OrderIds
        /\ id \in S <=> IsAt(book[id], side, p)
        /\ id \in S2 <=> IsAt(o, side, p)
        /\ S2 \ {id} = S \ {id}
    BY <1>1 DEF AtIn
  <2>2. R \in SUBSET OrderIds /\ id \in OrderIds \ R /\ w2[R] = w[R] /\ w[R] \in Nat
    BY <1>5, <2>1 DEF Additive
  <2>3. /\ id \in S => S = R \cup {id}
        /\ id \notin S => S = R
        /\ id \in S2 => S2 = R \cup {id}
        /\ id \notin S2 => S2 = R
    BY <2>1
  <2> HIDE DEF S, S2, R
  <2>4. w[R \cup {id}] = w[R] + g[id] /\ w2[R \cup {id}] = w2[R] + g2[id]
    BY <1>5, <1>7, <2>2 DEF Additive
  <2>5. w[S] = w[R] + Weight(book[id], side, p)
    <3>1. CASE id \in S
      BY <1>6, <2>1, <2>3, <2>4, <3>1 DEF Weight, SizeOfOrder, IsAt
    <3>2. CASE id \notin S
      BY <2>1, <2>2, <2>3, <3>2 DEF Weight
    <3>3. QED
      BY <3>1, <3>2
  <2>6. w2[S2] = w[R] + Weight(o, side, p)
    <3>1. CASE id \in S2
      BY <1>6, <2>1, <2>2, <2>3, <2>4, <3>1 DEF Weight, SizeOfOrder, IsAt
    <3>2. CASE id \notin S2
      BY <2>1, <2>2, <2>3, <3>2 DEF Weight
    <3>3. QED
      BY <3>1, <3>2
  <2>7. Weight(book[id], side, p) \in Nat /\ Weight(o, side, p) \in Nat
    BY OrderTypes DEF IsBook
  <2>8. w2[S2] + Weight(book[id], side, p) = w[S] + Weight(o, side, p)
    BY <2>2, <2>5, <2>6, <2>7
  <2>9. QED
    BY <2>8 DEF S, S2
<1>9. Reweighed(w2, w, book2, book, book[id], o)
  BY <1>8 DEF Reweighed
<1>10. QED
  BY <1>1, <1>4, <1>5, <1>9

-----------------------------------------------------------------------------
TierHas(tier, p) == IF p \in DOMAIN tier THEN tier[p] ELSE 0

(* A tier has what tot says there is at each price, and none at others.    *)
TierShows(tier, tot) ==
  /\ DOMAIN tier \subseteq Prices
  /\ \A p \in Prices : /\ tot[p] \in Nat /\ TierHas(tier, p) = tot[p]
                       /\ p \in DOMAIN tier <=> tot[p] # 0

HasAfter(tier, p, size, q) == TierHas(tier, q) + (IF q = p THEN size ELSE 0)

LEMMA PlusIs ==
  ASSUME NEW tier, NEW p, NEW size
  PROVE  /\ DOMAIN Plus(tier, p, size) = DOMAIN tier \cup {p}
         /\ \A q : TierHas(Plus(tier, p, size), q) = HasAfter(tier, p, size, q)
<1> DEFINE t == Plus(tier, p, size)
<1>1. DOMAIN t = DOMAIN tier \cup {p}
  BY DEF Plus
<1>2. \A q \in DOMAIN tier \cup {p} :
        t[q] = TierHas(tier, q) + (IF q = p THEN size ELSE 0)
  BY DEF Plus, TierHas
<1> HIDE DEF t
<1>3. ASSUME NEW q PROVE TierHas(t, q) = TierHas(tier, q) + (IF q = p THEN size ELSE 0)
  <2>1. CASE q \in DOMAIN tier \cup {p}
    BY <1>1, <1>2, <2>1 DEF TierHas
  <2>2. CASE q \notin DOMAIN tier \cup {p}
    BY <1>1, <2>2 DEF TierHas
  <2>3. QED
    BY <2>1, <2>2
<1>4. QED
  BY <1>1, <1>3 DEF t, HasAfter

LEMMA TrimmedIs ==
  ASSUME NEW tier, NEW p \in DOMAIN tier
  PROVE  /\ DOMAIN Trimmed(tier, p) = {q \in DOMAIN tier : q # p \/ TierHas(tier, p) # 0}
         /\ \A q : TierHas(Trimmed(tier, p), q) = TierHas(tier, q)
<1>1. CASE tier[p] = 0
  <2>1. /\ DOMAIN Trimmed(tier, p) = DOMAIN tier \ {p}
        /\ \A q \in DOMAIN tier \ {p} : Trimmed(tier, p)[q] = tier[q]
    BY <1>1 DEF Trimmed
  <2>2. QED
    BY <1>1, <2>1 DEF TierHas
<1>2. CASE tier[p] # 0
  BY <1>2 DEF Trimmed, TierHas
<1>3. QED
  BY <1>1, <1>2

GrowsBy(tot2, tot, p, size) ==
  \A q \in Prices : tot2[q] = tot[q] + (IF q = p THEN size ELSE 0)
MovesBy(tot2, tot, p0, s0, p, size) ==
  \A q \in Prices :
    tot2[q] = (tot[q] - (IF q = p0 THEN s0 ELSE 0)) + (IF q = p THEN size ELSE 0)

(* An order less at price p0 and one more at price p: modify_order takes   *)
(* the tier through both.                                                  *)
LEMMA TierMoves ==
  ASSUME NEW tier, NEW tot, NEW tot2, TierShows(tier, tot),
         NEW p0 \in Prices, NEW s0 \in Nat, s0 # 0, s0 <= tot[p0],
         NEW p \in Prices, NEW size \in Nat, MovesBy(tot2, tot, p0, s0, p, size)
  PROVE  /\ size # 0 => TierShows(Trimmed(Plus(Plus(tier, p0, -s0), p, size), p0), tot2)
         /\ size = 0 => TierShows(Trimmed(Plus(tier, p0, -s0), p0), tot2)
<1> DEFINE t1 == Plus(tier, p0, -s0)
           t2 == Plus(t1, p, size)
<1>1. /\ DOMAIN tier \subseteq Prices
      /\ \A q \in Prices : /\ tot[q] \in Nat /\ TierHas(tier, q) = tot[q]
                           /\ q \in DOMAIN tier <=> tot[q] # 0
  BY DEF TierShows
<1>2. \A q : TierHas(tier, q) \in Int
  BY <1>1 DEF TierHas
<1> DEFINE m == -s0
<1>3. m \in Int
  OBVIOUS
<1>4. /\ DOMAIN t1 = DOMAIN tier \cup {p0}
      /\ \A q : TierHas(t1, q) = TierHas(tier, q) + (IF q = p0 THEN -s0 ELSE 0)
  <2>1. DOMAIN t1 = DOMAIN tier \cup {p0} /\ \A q : TierHas(t1, q) = HasAfter(tier, p0, m, q)
    BY Zenon, PlusIs
  <2> HIDE DEF t1
  <2>2. QED
    BY Zenon, <2>1 DEF HasAfter
<1> HIDE DEF t1
<1>5. \A q : TierHas(t1, q) \in Int
  BY <1>2, <1>3, <1>4
<1>6. /\ DOMAIN t2 = DOMAIN t1 \cup {p}
      /\ \A q : TierHas(t2, q) = TierHas(t1, q) + (IF q = p THEN size ELSE 0)
  <2>1. DOMAIN t2 = DOMAIN t1 \cup {p} /\ \A q : TierHas(t2, q) = HasAfter(t1, p, size, q)
    BY Zenon, PlusIs
  <2> HIDE DEF t2
  <2>2. QED
    BY Zenon, <2>1 DEF HasAfter
<1> HIDE DEF t2
<1>7. tot[p0] # 0 /\ p0 \in DOMAIN tier
  BY <1>1
<1>8. ASSUME size # 0 PROVE TierShows(Trimmed(t2, p0), tot2)
  <2>1. p0 \in DOMAIN t2
    BY <1>4, <1>6
  <2>2. /\ DOMAIN Trimmed(t2, p0) = {q \in DOMAIN t2 : q # p0 \/ TierHas(t2, p0) # 0}
        /\ \A q : TierHas(Trimmed(t2, p0), q) = TierHas(t2, q)
    BY <2>1, TrimmedIs
  <2>3. ASSUME NEW q \in Prices
        PROVE  /\ tot2[q] \in Nat /\ TierHas(Trimmed(t2, p0), q) = tot2[q]
               /\ q \in DOMAIN Trimmed(t2, p0) <=> tot2[q] # 0
    <3>1. tot[q] \in Nat /\ TierHas(tier, q) = tot[q] /\ (q \in DOMAIN tier <=> tot[q] # 0)
      BY <1>1
    <3>2. TierHas(t2, q) = (tot[q] + (IF q = p0 THEN -s0 ELSE 0)) + (IF q = p THEN size ELSE 0)
      BY <1>4, <1>6, <3>1
    <3>3. tot2[q] \in Nat /\ TierHas(t2, q) = tot2[q]
      <4>1. tot2[q] = (tot[q] - (IF q = p0 THEN s0 ELSE 0)) + (IF q = p THEN size ELSE 0)
        BY DEF MovesBy
      <4>2. QED
        BY <3>1, <3>2, <4>1
    <3>4. q \in DOMAIN t2 <=> (q \in DOMAIN tier \/ q = p)
      BY <1>4, <1>6, <1>7
    <3>5. CASE q = p0
      BY <2>2, <3>1, <3>3, <3>4, <3>5, <1>7
    <3>6. CASE q # p0
      <4>1. tot2[q] = tot[q] + (IF q = p THEN size ELSE 0)
        BY <3>1, <3>6 DEF MovesBy
      <4>2. q \in DOMAIN Trimmed(t2, p0) <=> q \in DOMAIN t2
        BY <2>2, <3>6
      <4>3. tot2[q] # 0 <=> tot[q] # 0 \/ q = p
        BY <1>8, <3>1, <4>1
      <4>4. QED
        BY <2>2, <3>1, <3>3, <3>4, <4>2, <4>3
    <3>7. QED
      BY <3>5, <3>6
  <2>4. DOMAIN Trimmed(t2, p0) \subseteq Prices
    BY <1>1, <1>4, <1>6, <2>2
  <2>5. QED
    BY <2>3, <2>4 DEF TierShows
<1>9. ASSUME size = 0 PROVE TierShows(Trimmed(t1, p0), tot2)
  <2>1. p0 \in DOMAIN t1
    BY <1>4
  <2>2. /\ DOMAIN Trimmed(t1, p0) = {q \in DOMAIN t1 : q # p0 \/ TierHas(t1, p0) # 0}
        /\ \A q : TierHas(Trimmed(t1, p0), q) = TierHas(t1, q)
    BY <2>1, TrimmedIs
  <2>3. ASSUME NEW q \in Prices
        PROVE  /\ tot2[q] \in Nat /\ TierHas(Trimmed(t1, p0), q) = tot2[q]
               /\ q \in DOMAIN Trimmed(t1, p0) <=> tot2[q] # 0
    <3>1. tot[q] \in Nat /\ TierHas(tier, q) = tot[q] /\ (q \in DOMAIN tier <=> tot[q] # 0)
      BY <1>1
    <3>2. TierHas(t1, q) = tot[q] + (IF q = p0 THEN -s0 ELSE 0)
      BY <1>4, <3>1
    <3>3. tot2[q] = tot[q] - (IF q = p0 THEN s0 ELSE 0)
      BY <1>9, <3>1 DEF MovesBy
    <3>4. tot2[q] \in Nat /\ TierHas(t1, q) = tot2[q]
      BY <3>1, <3>2, <3>3
    <3>5. q \in DOMAIN t1 <=> q \in DOMAIN tier
      BY <1>4, <1>7
    <3>6. QED
      BY <1>7, <2>2, <3>1, <3>3, <3>4, <3>5
  <2>4. DOMAIN Trimmed(t1, p0) \subseteq Prices
    BY <1>1, <1>4, <2>2
  <2>5. QED
    BY <2>3, <2>4 DEF TierShows
<1>10. QED
  BY <1>8, <1>9 DEF t1, t2

LEMMA TierGrows ==
  ASSUME NEW tier, NEW tot, NEW tot2, TierShows(tier, tot),
         NEW p \in Prices, NEW size \in Nat, size # 0, GrowsBy(tot2, tot, p, size)
  PROVE  TierShows(Plus(tier, p, size), tot2)
<1>1. /\ DOMAIN tier \subseteq Prices
      /\ \A q \in Prices : /\ tot[q] \in Nat /\ TierHas(tier, q) = tot[q]
                           /\ q \in DOMAIN tier <=> tot[q] # 0
  BY DEF TierShows
<1>2. \A q : TierHas(tier, q) \in Int
  BY <1>1 DEF TierHas
<1>3. /\ DOMAIN Plus(tier, p, size) = DOMAIN tier \cup {p}
      /\ \A q : TierHas(Plus(tier, p, size), q) = TierHas(tier, q) + (IF q = p THEN size ELSE 0)
  <2> DEFINE t == Plus(tier, p, size)
  <2>1. DOMAIN t = DOMAIN tier \cup {p} /\ \A q : TierHas(t, q) = HasAfter(tier, p, size, q)
    BY Zenon, PlusIs
  <2> HIDE DEF t
  <2>2. DOMAIN t = DOMAIN tier \cup {p}
        /\ \A q : TierHas(t, q) = TierHas(tier, q) + (IF q = p THEN size ELSE 0)
    BY Zenon, <2>1 DEF HasAfter
  <2>3. QED
    BY Zenon, <2>2 DEF t
<1>4. ASSUME NEW q \in Prices
      PROVE  /\ tot2[q] \in Nat /\ TierHas(Plus(tier, p, size), q) = tot2[q]
             /\ q \in DOMAIN Plus(tier, p, size) <=> tot2[q] # 0
  BY <1>1, <1>3 DEF GrowsBy
<1>5. QED
  BY <1>1, <1>3, <1>4 DEF TierShows

-----------------------------------------------------------------------------
(* What a tier should have: what orders added again left, and what w adds  *)
(* up for the orders at the price.                                         *)
Totals(rest, w, book, side) == [p \in Prices |-> rest[side][p] + w[AtIn(book, side, p)]]

LEMMA TotalAt ==
  ASSUME NEW rest, NEW w, NEW book, NEW side, NEW p \in Prices
  PROVE  Totals(rest, w, book, side)[p] = rest[side][p] + w[AtIn(book, side, p)]
BY DEF Totals

AreTiers(t) == t = [side \in Sides |-> t[side]]

FeedInv ==
  /\ IsBook(order_book)
  /\ left \in [Sides -> [Prices -> Nat]]
  /\ AreTiers(tiers)
  /\ \E w : /\ Additive(w, SizesIn(order_book), OrderIds)
            /\ \A side \in Sides : TierShows(tiers[side], Totals(left, w, order_book, side))

LEMMA FeedStarts == FeedInit => FeedInv
<1> SUFFICES ASSUME FeedInit PROVE FeedInv
  OBVIOUS
<1> DEFINE w == [S \in SUBSET OrderIds |-> 0]
<1>1. /\ order_book = [id \in OrderIds |-> NoOrder]
      /\ tiers = [side \in Sides |-> [p \in {} |-> NoTier]]
      /\ left = [side \in Sides |-> [p \in Prices |-> 0]]
  BY DEF FeedInit
<1>2. IsBook(order_book) /\ \A id \in OrderIds : order_book[id] = NoOrder
  BY <1>1 DEF IsBook
<1>3. left \in [Sides -> [Prices -> Nat]] /\ \A side \in Sides, p \in Prices : left[side][p] = 0
  BY <1>1
<1>4. AreTiers(tiers) /\ \A side \in Sides : DOMAIN tiers[side] = {}
  BY <1>1 DEF AreTiers
<1>5. \A id \in OrderIds : SizesIn(order_book)[id] = 0
  BY <1>2 DEF SizesIn, SizeOfOrder
<1>6. /\ w \in [SUBSET OrderIds -> Nat] /\ w[{}] = 0
      /\ \A S \in SUBSET OrderIds : w[S] = 0
      /\ \A S \in SUBSET OrderIds : \A x \in OrderIds \ S : S \cup {x} \in SUBSET OrderIds
  OBVIOUS
<1> HIDE DEF w
<1>7. Additive(w, SizesIn(order_book), OrderIds)
  BY <1>5, <1>6 DEF Additive
<1>8. ASSUME NEW side \in Sides
      PROVE  TierShows(tiers[side], Totals(left, w, order_book, side))
  <2>1. ASSUME NEW p \in Prices
        PROVE  /\ Totals(left, w, order_book, side)[p] = 0
               /\ TierHas(tiers[side], p) = 0 /\ p \notin DOMAIN tiers[side]
    <3>1. AtIn(order_book, side, p) \in SUBSET OrderIds
      BY DEF AtIn
    <3>2. QED
      BY <1>3, <1>4, <1>6, <3>1, TotalAt DEF TierHas
  <2>2. QED
    BY <1>4, <2>1 DEF TierShows
<1>9. QED
  BY <1>2, <1>3, <1>4, <1>7, <1>8 DEF FeedInv

(* An order's size is part of what its tier has.                           *)
LEMMA SizeIsThere ==
  ASSUME NEW book, IsBook(book), NEW w, Additive(w, SizesIn(book), OrderIds),
         NEW id \in OrderIds, book[id] # NoOrder
  PROVE  book[id].size <= w[AtIn(book, book[id].side, book[id].price)]
<1> DEFINE S == AtIn(book, book[id].side, book[id].price)
           R == S \ {id}
<1>1. S \in SUBSET OrderIds /\ id \in S
  BY DEF AtIn, IsAt
<1>2. R \in SUBSET OrderIds /\ id \in OrderIds \ R /\ S = R \cup {id}
  BY <1>1
<1> HIDE DEF S, R
<1>3. w[R] \in Nat /\ w[S] = w[R] + SizesIn(book)[id]
  BY <1>2 DEF Additive
<1>4. SizesIn(book)[id] = book[id].size /\ book[id].size \in Nat
  <2>1. SizeOfOrder(book[id]) \in Nat
    BY OrderTypes DEF IsBook
  <2>2. QED
    BY <2>1 DEF SizesIn, SizeOfOrder
<1>5. book[id].size <= w[S]
  BY <1>3, <1>4
<1>6. QED
  BY <1>5 DEF S

LEMMA SameShows ==
  ASSUME NEW tier, NEW tot, NEW tot2, TierShows(tier, tot), \A q \in Prices : tot2[q] = tot[q]
  PROVE  TierShows(tier, tot2)
BY DEF TierShows

LEMMA AddKeeps ==
  ASSUME FeedInv, NEW id \in OrderIds, NEW price \in Prices, NEW size \in Sizes, NEW side \in Sides,
         AddOrder(id, price, size, side)
  PROVE  FeedInv'
<1> DEFINE new == [price |-> price, size |-> size, side |-> side]
           old == order_book[id]
<1>1. /\ IsBook(order_book) /\ left \in [Sides -> [Prices -> Nat]] /\ AreTiers(tiers)
  BY DEF FeedInv
<1>2. PICK w : /\ Additive(w, SizesIn(order_book), OrderIds)
               /\ \A sd \in Sides : TierShows(tiers[sd], Totals(left, w, order_book, sd))
  BY DEF FeedInv
<1>3. new \in Order \cup {NoOrder} /\ old \in Order \cup {NoOrder} /\ new # NoOrder
  BY <1>1, FeedAssumption DEF IsBook, Order, Sides
<1>4. order_book' = [order_book EXCEPT ![id] = new]
  BY DEF AddOrder
<1> HIDE DEF new
<1>5. PICK w2 : /\ IsBook(order_book')
                /\ Additive(w2, SizesIn(order_book'), OrderIds)
                /\ Reweighed(w2, w, order_book', order_book, old, new)
  BY Zenon, <1>1, <1>2, <1>3, <1>4, BookChanged
<1>6. left' \in [Sides -> [Prices -> Nat]]
      /\ \A sd \in Sides, q \in Prices : left'[sd][q] = left[sd][q] + Weight(old, sd, q)
  <2>1. \A sd \in Sides, q \in Prices : left[sd][q] \in Nat
    BY <1>1
  <2>2. CASE old = NoOrder
    <3>1. left' = left
      BY <2>2 DEF AddOrder
    <3>2. \A sd, q : Weight(old, sd, q) = 0
      BY <2>2 DEF Weight, IsAt
    <3>3. QED
      BY <1>1, <2>1, <3>1, <3>2
  <2>3. CASE old # NoOrder
    <3>1. old.side \in Sides /\ old.price \in Prices /\ old.size \in Nat
      BY <1>3, <2>3, OrderTypes
    <3>2. left' = [left EXCEPT ![old.side][old.price] = @ + old.size]
      BY <2>3 DEF AddOrder
    <3>3. left[old.side][old.price] + old.size \in Nat
      BY <2>1, <3>1
    <3> DEFINE more == left[old.side][old.price] + old.size
               s0 == old.side
               p0 == old.price
    <3>4. left' = [left EXCEPT ![s0] = [left[s0] EXCEPT ![p0] = more]]
      BY <3>2
    <3>5. s0 \in Sides /\ p0 \in Prices /\ more \in Nat
      BY <3>1, <3>3
    <3>6. \A sd \in Sides, q \in Prices :
            Weight(old, sd, q) = IF sd = s0 /\ q = p0 THEN old.size ELSE 0
      BY <2>3 DEF Weight, IsAt
    <3>7. more = left[s0][p0] + old.size
      OBVIOUS
    <3> HIDE DEF more, s0, p0, old
    <3>8. left' \in [Sides -> [Prices -> Nat]]
      BY <1>1, <3>4, <3>5
    <3>9. \A sd \in Sides, q \in Prices :
             left'[sd][q] = IF sd = s0 /\ q = p0 THEN more ELSE left[sd][q]
      BY <1>1, <3>4, <3>5
    <3>10. QED
      BY <2>1, <3>6, <3>7, <3>8, <3>9
  <2>4. QED
    BY <2>2, <2>3
<1> DEFINE tot(sd) == Totals(left, w, order_book, sd)
           tot2(sd) == Totals(left', w2, order_book', sd)
<1>7. ASSUME NEW sd \in Sides, NEW q \in Prices
      PROVE  tot(sd)[q] \in Nat /\ tot2(sd)[q] = tot(sd)[q] + Weight(new, sd, q)
  <2>1. /\ tot(sd)[q] = left[sd][q] + w[AtIn(order_book, sd, q)]
        /\ tot2(sd)[q] = left'[sd][q] + w2[AtIn(order_book', sd, q)]
    BY TotalAt
  <2>2. w[AtIn(order_book, sd, q)] \in Nat /\ w2[AtIn(order_book', sd, q)] \in Nat
    <3>1. AtIn(order_book, sd, q) \in SUBSET OrderIds /\ AtIn(order_book', sd, q) \in SUBSET OrderIds
      BY DEF AtIn
    <3>2. QED
      BY <1>2, <1>5, <3>1 DEF Additive
  <2>3. Weight(old, sd, q) \in Nat /\ Weight(new, sd, q) \in Nat
    BY <1>3, OrderTypes
  <2>4. left'[sd][q] = left[sd][q] + Weight(old, sd, q) /\ left[sd][q] \in Nat
    BY <1>1, <1>6
  <2>5. w2[AtIn(order_book', sd, q)] + Weight(old, sd, q)
          = w[AtIn(order_book, sd, q)] + Weight(new, sd, q)
    BY <1>5 DEF Reweighed
  <2> HIDE DEF tot, tot2, old
  <2>6. QED
    BY <2>1, <2>2, <2>3, <2>4, <2>5
<1>8. size \in Nat /\ size # 0
  BY FeedAssumption
<1>9. \A sd, q : Weight(new, sd, q) = IF sd = side /\ q = price THEN size ELSE 0
  BY <1>3 DEF Weight, IsAt, new
<1>10. tiers' = [tiers EXCEPT ![side] = Plus(tiers[side], price, size)]
  BY DEF AddOrder
<1>11. /\ AreTiers(tiers')
       /\ tiers'[side] = Plus(tiers[side], price, size)
       /\ \A sd \in Sides : sd # side => tiers'[sd] = tiers[sd]
  <2> DEFINE t == Plus(tiers[side], price, size)
  <2>1. tiers' = [tiers EXCEPT ![side] = t]
    BY <1>10
  <2> HIDE DEF t
  <2>2. AreTiers(tiers') /\ tiers'[side] = t
        /\ \A sd \in Sides : sd # side => tiers'[sd] = tiers[sd]
    BY <1>1, <2>1 DEF AreTiers
  <2>3. QED
    BY <2>2 DEF t
<1>12. ASSUME NEW sd \in Sides PROVE TierShows(tiers'[sd], tot2(sd))
  <2>1. TierShows(tiers[sd], tot(sd))
    BY <1>2
  <2>2. \A q \in Prices : tot2(sd)[q] = tot(sd)[q] + (IF sd = side /\ q = price THEN size ELSE 0)
    BY <1>7, <1>9
  <2>3. CASE sd = side
    <3> DEFINE a == tot(side)
               b == tot2(side)
    <3>1. TierShows(tiers[side], a) /\ GrowsBy(b, a, price, size)
      BY <2>1, <2>2, <2>3 DEF GrowsBy
    <3> HIDE DEF a, b
    <3>2. TierShows(Plus(tiers[side], price, size), b)
      BY Zenon, <1>8, <3>1, TierGrows
    <3>3. QED
      BY <1>11, <2>3, <3>2 DEF b
  <2>4. CASE sd # side
    <3> DEFINE a == tot(sd)
               b == tot2(sd)
    <3>1. \A q \in Prices : a[q] \in Nat /\ b[q] = a[q]
      <4>1. \A q \in Prices : a[q] \in Nat /\ b[q] = a[q] + 0
        BY <1>7, <2>2, <2>4
      <4> HIDE DEF a, b
      <4>2. QED
        BY <4>1
    <3>2. TierShows(tiers[sd], a)
      BY <2>1
    <3> HIDE DEF a, b
    <3>3. TierShows(tiers[sd], b)
      BY Zenon, <3>1, <3>2, SameShows
    <3>4. QED
      BY <1>11, <2>4, <3>3 DEF b
  <2>5. QED
    BY <2>3, <2>4
<1>13. QED
  BY <1>5, <1>6, <1>11, <1>12 DEF FeedInv

-----------------------------------------------------------------------------
(* The tier of a side, with an order less and perhaps another one more.    *)
Moved(tier, p0, s0, p, size) ==
  Trimmed(IF size = 0 THEN Plus(tier, p0, -s0) ELSE Plus(Plus(tier, p0, -s0), p, size), p0)

LEMMA MovedShows ==
  ASSUME NEW tier, NEW tot, NEW tot2, TierShows(tier, tot),
         NEW p0 \in Prices, NEW s0 \in Nat, s0 # 0, s0 <= tot[p0],
         NEW p \in Prices, NEW size \in Nat, MovesBy(tot2, tot, p0, s0, p, size)
  PROVE  TierShows(Moved(tier, p0, s0, p, size), tot2)
<1>1. CASE size = 0
  <2>1. TierShows(Trimmed(Plus(tier, p0, -s0), p0), tot2)
    BY Zenon, <1>1, TierMoves
  <2>2. QED
    BY Zenon, <1>1, <2>1 DEF Moved
<1>2. CASE size # 0
  <2>1. TierShows(Trimmed(Plus(Plus(tier, p0, -s0), p, size), p0), tot2)
    BY Zenon, <1>2, TierMoves
  <2>2. QED
    BY Zenon, <1>2, <2>1 DEF Moved
<1>3. QED
  BY <1>1, <1>2

(* An order taken out of the book, or changed on its side.                 *)
LEMMA RebookedKeeps ==
  ASSUME FeedInv, NEW id \in OrderIds, NEW old, old = order_book[id], old # NoOrder,
         NEW o \in Order \cup {NoOrder}, NEW p \in Prices, NEW size \in Nat,
         o = NoOrder => size = 0,
         o # NoOrder => o.side = old.side /\ o.price = p /\ o.size = size,
         order_book' = [order_book EXCEPT ![id] = o], left' = left,
         tiers' = [tiers EXCEPT ![old.side] = Moved(tiers[old.side], old.price, old.size, p, size)]
  PROVE  FeedInv'
<1>1. IsBook(order_book) /\ left \in [Sides -> [Prices -> Nat]] /\ AreTiers(tiers)
  BY DEF FeedInv
<1>2. PICK w : /\ Additive(w, SizesIn(order_book), OrderIds)
               /\ \A sd \in Sides : TierShows(tiers[sd], Totals(left, w, order_book, sd))
  BY DEF FeedInv
<1>3. old \in Order \cup {NoOrder}
  BY <1>1 DEF IsBook
<1>4. /\ old.side \in Sides /\ old.price \in Prices /\ old.size \in Nat /\ old.size # 0
  BY <1>3, OrderTypes
<1>5. PICK w2 : /\ IsBook(order_book')
                /\ Additive(w2, SizesIn(order_book'), OrderIds)
                /\ Reweighed(w2, w, order_book', order_book, old, o)
  BY Zenon, <1>1, <1>2, BookChanged
<1> DEFINE s0 == old.size
           p0 == old.price
           side == old.side
           tot(sd) == Totals(left, w, order_book, sd)
           tot2(sd) == Totals(left', w2, order_book', sd)
<1>6. \A sd, q : /\ Weight(old, sd, q) = (IF sd = side /\ q = p0 THEN s0 ELSE 0)
                 /\ Weight(o, sd, q) = (IF sd = side /\ q = p THEN size ELSE 0)
  <2>1. \A sd, q : Weight(old, sd, q) = (IF sd = side /\ q = p0 THEN s0 ELSE 0)
    BY DEF Weight, IsAt
  <2>2. CASE o = NoOrder
    BY <2>1, <2>2 DEF Weight, IsAt
  <2>3. CASE o # NoOrder
    BY <2>1, <2>3 DEF Weight, IsAt
  <2>4. QED
    BY <2>2, <2>3
<1>7. s0 \in Nat /\ s0 # 0 /\ p0 \in Prices /\ side \in Sides
  BY <1>4
<1>8. ASSUME NEW sd \in Sides, NEW q \in Prices
      PROVE  /\ tot(sd)[q] \in Nat /\ tot2(sd)[q] \in Nat
             /\ tot2(sd)[q] + Weight(old, sd, q) = tot(sd)[q] + Weight(o, sd, q)
             /\ tot(sd)[q] = left[sd][q] + w[AtIn(order_book, sd, q)]
             /\ left[sd][q] \in Nat /\ w[AtIn(order_book, sd, q)] \in Nat
  <2>1. /\ tot(sd)[q] = left[sd][q] + w[AtIn(order_book, sd, q)]
        /\ tot2(sd)[q] = left[sd][q] + w2[AtIn(order_book', sd, q)]
    BY TotalAt
  <2>2. w[AtIn(order_book, sd, q)] \in Nat /\ w2[AtIn(order_book', sd, q)] \in Nat
    <3>1. AtIn(order_book, sd, q) \in SUBSET OrderIds /\ AtIn(order_book', sd, q) \in SUBSET OrderIds
      BY DEF AtIn
    <3>2. QED
      BY <1>2, <1>5, <3>1 DEF Additive
  <2>3. Weight(old, sd, q) \in Nat /\ Weight(o, sd, q) \in Nat
    BY <1>3, OrderTypes
  <2>4. left[sd][q] \in Nat
    BY <1>1
  <2>5. w2[AtIn(order_book', sd, q)] + Weight(old, sd, q)
          = w[AtIn(order_book, sd, q)] + Weight(o, sd, q)
    BY <1>5 DEF Reweighed
  <2> HIDE DEF tot, tot2
  <2>6. QED
    BY <2>1, <2>2, <2>3, <2>4, <2>5
<1>9. s0 <= w[AtIn(order_book, side, p0)]
  BY <1>1, <1>2, SizeIsThere
<1> DEFINE new == Moved(tiers[side], p0, s0, p, size)
<1>10. tiers' = [tiers EXCEPT ![side] = new]
  OBVIOUS
<1> DEFINE Same(sd) == tiers'[sd] = tiers[sd]
<1>11. AreTiers(tiers') /\ tiers'[side] = new /\ \A sd \in Sides : sd # side => Same(sd)
  <2> HIDE DEF new, side
  <2>1. QED
    BY <1>1, <1>7, <1>10 DEF AreTiers
<1> HIDE DEF s0, p0, side
<1>12. ASSUME NEW sd \in Sides PROVE TierShows(tiers'[sd], tot2(sd))
  <2>1. TierShows(tiers[sd], tot(sd))
    BY <1>2
  <2> DEFINE a == tot(sd)
             b == tot2(sd)
  <2>2. \A q \in Prices : /\ a[q] \in Nat /\ b[q] \in Nat
                          /\ b[q] + Weight(old, sd, q) = a[q] + Weight(o, sd, q)
    BY <1>8
  <2>3. CASE sd = side
    <3>1. \A q \in Prices : b[q] + (IF q = p0 THEN s0 ELSE 0) = a[q] + (IF q = p THEN size ELSE 0)
      <4> HIDE DEF a, b
      <4>1. QED
        BY <1>6, <2>2, <2>3
    <3>2. s0 <= a[p0]
      <4>1. /\ a[p0] = left[sd][p0] + w[AtIn(order_book, sd, p0)]
            /\ left[sd][p0] \in Nat /\ w[AtIn(order_book, sd, p0)] \in Nat
        BY <1>7, <1>8
      <4> HIDE DEF a
      <4>2. QED
        BY <1>7, <1>9, <2>3, <4>1
    <3>3. TierShows(tiers[side], a)
      BY <2>1, <2>3
    <3> HIDE DEF a, b, tot, tot2
    <3>4. MovesBy(b, a, p0, s0, p, size)
      BY <1>7, <2>2, <3>1 DEF MovesBy
    <3>5. TierShows(new, b)
      BY Zenon, <1>7, <3>2, <3>3, <3>4, MovedShows
    <3> HIDE DEF new
    <3>6. QED
      BY <1>11, <2>3, <3>5 DEF b
  <2>4. CASE sd # side
    <3>1. \A q \in Prices : b[q] = a[q]
      <4> HIDE DEF a, b
      <4>1. \A q : Weight(old, sd, q) = 0 /\ Weight(o, sd, q) = 0
        BY <1>6, <2>4
      <4>2. QED
        BY <2>2, <4>1
    <3>2. TierShows(tiers[sd], a)
      BY <2>1
    <3> HIDE DEF a, b, new
    <3>3. TierShows(tiers[sd], b)
      BY Zenon, <3>1, <3>2, SameShows
    <3>4. QED
      BY <1>11, <2>4, <3>3 DEF b
  <2>5. QED
    BY <2>3, <2>4
<1>13. left' \in [Sides -> [Prices -> Nat]]
  BY <1>1
<1>14. QED
  BY <1>5, <1>11, <1>12, <1>13 DEF FeedInv

LEMMA FeedSteps == FeedInv /\ [FeedNext]_feedVars => FeedInv'
<1> SUFFICES ASSUME FeedInv, [FeedNext]_feedVars PROVE FeedInv'
  OBVIOUS
<1>0. IsBook(order_book)
  BY DEF FeedInv
<1>1. ASSUME NEW id \in OrderIds, NEW p \in Prices, NEW size \in Sizes, ModifyOrder(id, p, size)
      PROVE  FeedInv'
  <2> DEFINE old == order_book[id]
             o == [old EXCEPT !.price = p, !.size = size]
  <2>1. old # NoOrder /\ old \in Order \cup {NoOrder} /\ size \in Nat /\ size # 0
    BY <1>0, <1>1, FeedAssumption DEF ModifyOrder, IsBook
  <2>2. o \in Order /\ o # NoOrder /\ o.side = old.side /\ o.price = p /\ o.size = size
    <3>1. old \in [price : Prices, size : Sizes, side : Sides]
      BY <2>1 DEF Order
    <3>2. o \in [price : Prices, size : Sizes, side : Sides]
          /\ o.side = old.side /\ o.price = p /\ o.size = size
      BY <3>1
    <3> HIDE DEF o, old
    <3>3. QED
      BY <3>2, FeedAssumption DEF Order, Sides
  <2>3. /\ order_book' = [order_book EXCEPT ![id] = o] /\ left' = left
    BY <1>1 DEF ModifyOrder
  <2>4. tiers' = [tiers EXCEPT ![old.side] = Moved(tiers[old.side], old.price, old.size, p, size)]
    BY <1>1, <2>1 DEF ModifyOrder, Moved
  <2> HIDE DEF o
  <2>5. QED
    BY <2>1, <2>2, <2>3, <2>4, RebookedKeeps
<1>2. ASSUME NEW id \in OrderIds, DeleteOrder(id) PROVE FeedInv'
  <2> DEFINE old == order_book[id]
  <2>1. old # NoOrder /\ old \in Order \cup {NoOrder}
    BY <1>0, <1>2 DEF DeleteOrder, IsBook
  <2>2. old.price \in Prices
    BY <2>1 DEF Order
  <2>3. order_book' = [order_book EXCEPT ![id] = NoOrder] /\ left' = left
    BY <1>2 DEF DeleteOrder
  <2>4. tiers' = [tiers EXCEPT ![old.side] = Moved(tiers[old.side], old.price, old.size, old.price, 0)]
    BY <1>2 DEF DeleteOrder, Moved
  <2>5. QED
    BY <2>1, <2>2, <2>3, <2>4, RebookedKeeps
<1>3. CASE UNCHANGED feedVars
  BY <1>3 DEF feedVars, FeedInv
<1>4. QED
  BY <1>1, <1>2, <1>3, AddKeeps DEF FeedNext

-----------------------------------------------------------------------------
(* What MapThenSumSet makes of the sizes at a price is what w adds up.     *)
LEMMA SumIs ==
  ASSUME IsBook(order_book), NEW w, Additive(w, SizesIn(order_book), OrderIds),
         NEW S \in SUBSET OrderIds, \A id \in S : order_book[id] # NoOrder
  PROVE  MapThenSumSet(LAMBDA id : order_book[id].size, S) = w[S]
<1> DEFINE Pick(s) == CHOOSE x \in s : TRUE
           Sums(f) == f = [s \in SUBSET S |-> IF s = {} THEN 0
                                              ELSE order_book[Pick(s)].size + f[s \ {Pick(s)}]]
           sum == CHOOSE f : Sums(f)
<1>1. MapThenSumSet(LAMBDA id : order_book[id].size, S) = sum[S]
  BY DEF MapThenSumSet, MapThenFoldSet
<1>2. \A s \in SUBSET S : s # {} => Pick(s) \in s
  OBVIOUS
<1> HIDE DEF Pick
<1>3. /\ \A s \in SUBSET S : w[s] \in Nat
      /\ w[{}] = 0
      /\ \A s \in SUBSET S : \A x \in s : w[s] = order_book[x].size + w[s \ {x}]
  <2>1. \A s \in SUBSET OrderIds : w[s] \in Nat
    BY DEF Additive
  <2>2. ASSUME NEW s \in SUBSET S, NEW x \in s PROVE w[s] = order_book[x].size + w[s \ {x}]
    <3> DEFINE R == s \ {x}
    <3>1. R \in SUBSET OrderIds /\ x \in OrderIds \ R /\ s = R \cup {x}
      OBVIOUS
    <3> HIDE DEF R
    <3>2. w[s] = w[R] + SizesIn(order_book)[x] /\ w[s] \in Nat /\ w[R] \in Nat
      BY <2>1, <3>1 DEF Additive
    <3>3. SizesIn(order_book)[x] = order_book[x].size /\ order_book[x].size \in Nat
      <4>1. SizesIn(order_book)[x] = order_book[x].size
        BY <3>1 DEF SizesIn, SizeOfOrder
      <4>2. order_book[x] \in Order \cup {NoOrder} /\ order_book[x] # NoOrder
        BY <3>1 DEF IsBook
      <4>3. QED
        BY <4>1, <4>2, OrderTypes
    <3>4. QED
      BY <3>2, <3>3 DEF R
  <2>3. QED
    BY <2>1, <2>2 DEF Additive
<1>4. Sums([s \in SUBSET S |-> w[s]])
  <2> DEFINE f == [s \in SUBSET S |-> w[s]]
  <2>1. \A s \in SUBSET S : f[s] = w[s]
    OBVIOUS
  <2>2. \A s \in SUBSET S : s # {} => w[s] = order_book[Pick(s)].size + f[s \ {Pick(s)}]
    <3>1. \A s \in SUBSET S : s \ {Pick(s)} \in SUBSET S
      OBVIOUS
    <3> HIDE DEF f
    <3>2. QED
      BY <1>2, <1>3, <2>1, <3>1
  <2>3. \A s \in SUBSET S : f[s] = IF s = {} THEN 0 ELSE order_book[Pick(s)].size + f[s \ {Pick(s)}]
    <3> HIDE DEF f
    <3>1. QED
      BY <1>3, <2>1, <2>2
  <2>4. QED
    BY <2>3
<1>5. Sums(sum)
  BY <1>4
<1> HIDE DEF sum
<1> DEFINE Bad == {s \in SUBSET S : sum[s] # w[s]}
           Counts == {Cardinality(s) : s \in Bad}
<1>6. \A s \in SUBSET S : IsFiniteSet(s) /\ Cardinality(s) \in Nat
  BY FeedAssumption, FS_Subset, FS_CardinalityType
<1>7. Bad = {}
  <2>1. SUFFICES ASSUME Bad # {} PROVE FALSE
    OBVIOUS
  <2>2. Counts \subseteq Nat /\ Counts # {}
    BY <1>6, <2>1
  <2>3. PICK n \in Counts : \A m \in Counts : n <= m
    <3> HIDE DEF Counts
    <3> QED
      BY <2>2, LeastOf
  <2>4. PICK s \in Bad : n = Cardinality(s)
    BY <2>3
  <2>5. s \in SUBSET S /\ sum[s] # w[s]
    BY <2>4
  <2>6. sum[s] = IF s = {} THEN 0 ELSE order_book[Pick(s)].size + sum[s \ {Pick(s)}]
    BY <1>5, <2>5
  <2>7. s # {}
    BY <1>3, <2>5, <2>6
  <2>8. PICK x \in s : x = Pick(s)
    BY <1>2, <2>5, <2>7
  <2>9. Cardinality(s \ {x}) = Cardinality(s) - 1 /\ s \ {x} \in SUBSET S
    BY <1>6, <2>5, <2>8, FS_RemoveElement
  <2>10. s \ {x} \notin Bad
    <3>1. ASSUME s \ {x} \in Bad PROVE FALSE
      <4>1. Cardinality(s \ {x}) \in Counts
        BY <3>1
      <4>2. n <= Cardinality(s) - 1
        BY <2>3, <2>9, <4>1
      <4>3. QED
        BY <1>6, <2>4, <2>5, <4>2
    <3>2. QED
      BY <3>1
  <2>11. sum[s \ {x}] = w[s \ {x}]
    BY <2>9, <2>10
  <2>12. QED
    BY <1>3, <2>5, <2>6, <2>7, <2>8, <2>11
<1>8. QED
  BY <1>1, <1>7

LEMMA AtIsAtIn ==
  ASSUME NEW side, NEW p
  PROVE  At(side, p) = AtIn(order_book, side, p)
BY DEF At, Orders, AtIn, IsAt

LEMMA FeedAddsUp == FeedInv => TiersAddUp
<1> SUFFICES ASSUME FeedInv PROVE TiersAddUp
  OBVIOUS
<1>1. PICK w : /\ Additive(w, SizesIn(order_book), OrderIds)
               /\ \A side \in Sides : TierShows(tiers[side], Totals(left, w, order_book, side))
  BY DEF FeedInv
<1>0. IsBook(order_book)
  BY DEF FeedInv
<1>2. ASSUME NEW side \in Sides, NEW p \in Prices
      PROVE  LET has == left[side][p] + MapThenSumSet(LAMBDA id : order_book[id].size, At(side, p))
             IN IF has = 0 THEN p \notin DOMAIN tiers[side]
                ELSE p \in DOMAIN tiers[side] /\ tiers[side][p] = has
  <2> DEFINE S == AtIn(order_book, side, p)
             has == left[side][p] + MapThenSumSet(LAMBDA id : order_book[id].size, At(side, p))
             tot == Totals(left, w, order_book, side)
  <2>1. S \in SUBSET OrderIds /\ \A id \in S : order_book[id] # NoOrder
    BY DEF AtIn, IsAt
  <2>2. MapThenSumSet(LAMBDA id : order_book[id].size, S) = w[S]
    <3> HIDE DEF S
    <3>1. QED
      BY <1>0, <1>1, <2>1, SumIs
  <2>3. At(side, p) = S
    BY AtIsAtIn
  <2>4. has = tot[p]
    BY <2>2, <2>3, TotalAt
  <2>5. /\ tot[p] \in Nat /\ TierHas(tiers[side], p) = tot[p]
        /\ p \in DOMAIN tiers[side] <=> tot[p] # 0
    BY <1>1 DEF TierShows
  <2> HIDE DEF has, tot
  <2>6. IF has = 0 THEN p \notin DOMAIN tiers[side]
        ELSE p \in DOMAIN tiers[side] /\ tiers[side][p] = has
    BY <2>4, <2>5 DEF TierHas
  <2>7. QED
    BY <2>6 DEF has
<1>3. QED
  BY <1>2 DEF TiersAddUp

-----------------------------------------------------------------------------
(* A finite set has a member of which a number is largest.                 *)
LEMMA HasLargest ==
  ASSUME NEW S, IsFiniteSet(S), S # {}, NEW f, \A x \in S : f[x] \in Nat
  PROVE  \E x \in S : \A y \in S : f[y] <= f[x]
<1> DEFINE Has(s) == \E x \in s : \A y \in s : f[y] <= f[x]
           Bad == {s \in SUBSET S : s # {} /\ ~Has(s)}
           Counts == {Cardinality(s) : s \in Bad}
<1>1. \A s \in SUBSET S : IsFiniteSet(s) /\ Cardinality(s) \in Nat
  BY FS_Subset, FS_CardinalityType
<1>2. Bad = {}
  <2>1. SUFFICES ASSUME Bad # {} PROVE FALSE
    OBVIOUS
  <2>2. Counts \subseteq Nat /\ Counts # {}
    BY <1>1, <2>1
  <2>3. PICK n \in Counts : \A m \in Counts : n <= m
    <3> HIDE DEF Counts
    <3> QED
      BY <2>2, LeastOf
  <2>4. PICK s \in Bad : n = Cardinality(s)
    BY <2>3
  <2>5. s \in SUBSET S /\ s # {} /\ ~Has(s)
    BY <2>4
  <2>6. PICK x \in s : TRUE
    BY <2>5
  <2>7. Cardinality(s \ {x}) = Cardinality(s) - 1 /\ s \ {x} \in SUBSET S
    BY <1>1, <2>5, <2>6, FS_RemoveElement
  <2>8. s \ {x} \notin Bad
    <3>1. ASSUME s \ {x} \in Bad PROVE FALSE
      <4>1. Cardinality(s \ {x}) \in Counts
        BY <3>1
      <4>2. n <= Cardinality(s) - 1
        BY <2>3, <2>7, <4>1
      <4>3. QED
        BY <1>1, <2>4, <2>5, <4>2
    <3>2. QED
      BY <3>1
  <2>9. \A y \in s : f[y] \in Nat
    BY <2>5
  <2>10. CASE s \ {x} = {}
    <3>1. \A y \in s : f[y] <= f[x]
      BY <2>6, <2>9, <2>10
    <3>2. QED
      BY <2>5, <2>6, <3>1
  <2>11. CASE s \ {x} # {}
    <3>1. PICK z \in s \ {x} : \A y \in s \ {x} : f[y] <= f[z]
      BY <2>7, <2>8, <2>11
    <3>2. \A y \in s : y = x \/ f[y] <= f[z]
      BY <3>1
    <3>3. CASE f[x] <= f[z]
      BY <2>5, <3>1, <3>2, <3>3
    <3>4. CASE f[z] <= f[x]
      <4>1. \A y \in s : f[y] <= f[x]
        BY <2>6, <2>9, <3>1, <3>2, <3>4
      <4>2. QED
        BY <2>5, <2>6, <4>1
    <3>5. f[x] \in Nat /\ f[z] \in Nat
      BY <2>6, <2>9, <3>1
    <3>6. QED
      BY <3>3, <3>4, <3>5
  <2>12. QED
    BY <2>10, <2>11
<1>3. S \in SUBSET S /\ S \notin Bad
  BY <1>2
<1>4. QED
  BY <1>3

(* As long as nothing is left behind, the prices of the tiers are those of *)
(* the orders.                                                             *)
LEMMA TierPrices ==
  ASSUME FeedInv, NEW side \in Sides, \A p \in Prices : left[side][p] = 0
  PROVE  /\ DOMAIN tiers[side] \subseteq Prices
         /\ \A p \in Prices : p \in DOMAIN tiers[side] <=> At(side, p) # {}
<1>1. IsBook(order_book)
  BY DEF FeedInv
<1>2. PICK w : /\ Additive(w, SizesIn(order_book), OrderIds)
               /\ \A sd \in Sides : TierShows(tiers[sd], Totals(left, w, order_book, sd))
  BY DEF FeedInv
<1>3. TierShows(tiers[side], Totals(left, w, order_book, side))
  BY <1>2
<1>4. DOMAIN tiers[side] \subseteq Prices
  BY <1>3 DEF TierShows
<1>5. ASSUME NEW p \in Prices PROVE p \in DOMAIN tiers[side] <=> At(side, p) # {}
  <2> DEFINE S == AtIn(order_book, side, p)
  <2>1. S \in SUBSET OrderIds
    BY DEF AtIn
  <2>2. w[S] \in Nat /\ w[{}] = 0
    BY <1>2, <2>1 DEF Additive
  <2>3. Totals(left, w, order_book, side)[p] = w[S]
    BY <2>2, TotalAt
  <2>4. p \in DOMAIN tiers[side] <=> w[S] # 0
    BY <1>3, <2>3 DEF TierShows
  <2>5. ASSUME S # {} PROVE w[S] # 0
    <3>1. PICK id \in OrderIds : id \in S
      BY <2>1, <2>5
    <3>2. order_book[id] # NoOrder /\ order_book[id].side = side /\ order_book[id].price = p
      BY <3>1 DEF AtIn, IsAt
    <3>3. order_book[id].size <= w[AtIn(order_book, order_book[id].side, order_book[id].price)]
      BY <1>1, <1>2, <3>2, SizeIsThere
    <3>4. order_book[id].size \in Nat /\ order_book[id].size # 0
      BY <1>1, <3>2, OrderTypes DEF IsBook
    <3>5. order_book[id].size <= w[S]
      BY <3>2, <3>3
    <3> HIDE DEF S
    <3>6. QED
      BY <2>2, <3>4, <3>5
  <2>6. At(side, p) = S
    BY AtIsAtIn
  <2> HIDE DEF S
  <2>7. QED
    BY <2>2, <2>4, <2>5, <2>6
<1>6. QED
  BY <1>4, <1>5

LEMMA FeedQuotes == FeedInv => InsideQuoteIsReal
<1> SUFFICES ASSUME FeedInv, \A side \in Sides, p \in Prices : left[side][p] = 0,
                    NEW side \in Sides
             PROVE  IF Orders(side) = {} THEN DOMAIN tiers[side] = {}
                    ELSE /\ At(side, Best(side)) # {}
                         /\ \A id \in Orders(side) :
                              IF side = "B" THEN order_book[id].price <= Best(side)
                              ELSE Best(side) <= order_book[id].price
  BY DEF InsideQuoteIsReal
<1> DEFINE D == DOMAIN tiers[side]
<1>1. D \subseteq Prices /\ \A p \in Prices : p \in D <=> At(side, p) # {}
  BY TierPrices
<1>2. \A id \in Orders(side) : order_book[id].price \in Prices
  <2>1. ASSUME NEW id \in Orders(side) PROVE order_book[id].price \in Prices
    <3>1. order_book[id] \in Order \cup {NoOrder} /\ order_book[id] # NoOrder
      BY DEF FeedInv, IsBook, Orders
    <3>2. QED
      BY <3>1, OrderTypes
  <2>2. QED
    BY <2>1
<1>3. \A id \in Orders(side) : order_book[id].price \in D
  BY <1>1, <1>2 DEF At
<1>4. \A p \in D : \E id \in Orders(side) : order_book[id].price = p
  BY <1>1 DEF At
<1>5. \A p \in Prices : p \in Nat
  BY FeedAssumption
<1>6. D \subseteq Nat
  BY <1>1, <1>5
<1>7. CASE Orders(side) = {}
  BY <1>4, <1>7
<1>8. CASE Orders(side) # {}
  <2> DEFINE Beats(p) == \A q \in D : IF side = "B" THEN q <= p ELSE p <= q
  <2>1. \E p \in D : Beats(p)
    <3>1. CASE side = "B"
      <4> DEFINE f == [id \in Orders(side) |-> order_book[id].price]
      <4>1. IsFiniteSet(Orders(side))
        <5>1. Orders(side) \in SUBSET OrderIds
          BY DEF Orders
        <5>2. QED
          BY <5>1, FeedAssumption, FS_Subset
      <4>2. \A id \in Orders(side) : f[id] = order_book[id].price /\ f[id] \in Nat
        BY <1>2, <1>5
      <4> HIDE DEF f
      <4>3. PICK x \in Orders(side) : \A y \in Orders(side) : f[y] <= f[x]
        BY <1>8, <4>1, <4>2, HasLargest
      <4>4. \A q \in D : q <= order_book[x].price
        <5>1. ASSUME NEW q \in D PROVE q <= order_book[x].price
          <6>1. PICK y \in Orders(side) : order_book[y].price = q
            BY <1>4
          <6>2. QED
            BY <4>2, <4>3, <6>1
        <5>2. QED
          BY <5>1
      <4>5. QED
        BY <1>3, <3>1, <4>4
    <3>2. CASE side # "B"
      <4>1. D # {}
        BY <1>3, <1>8
      <4> HIDE DEF D
      <4>2. PICK p \in D : \A q \in D : p <= q
        BY <1>6, <4>1, LeastOf
      <4>3. QED
        BY <3>2, <4>2
    <3>3. QED
      BY <3>1, <3>2
  <2>2. Best(side) = CHOOSE p \in D : Beats(p)
    BY DEF Best
  <2> HIDE DEF Beats
  <2>3. Best(side) \in D /\ Beats(Best(side))
    BY <2>1, <2>2
  <2>4. At(side, Best(side)) # {}
    BY <1>1, <2>3
  <2>5. \A id \in Orders(side) : IF side = "B" THEN order_book[id].price <= Best(side)
                                 ELSE Best(side) <= order_book[id].price
    BY <1>3, <2>3 DEF Beats
  <2>6. QED
    BY <1>8, <2>4, <2>5
<1>9. QED
  BY <1>7, <1>8

LEMMA TiersEnough == FeedSpec => [](TiersAddUp /\ InsideQuoteIsReal)
<1>1. FeedSpec => []FeedInv
  BY FeedStarts, FeedSteps, PTL DEF FeedSpec
<1>2. FeedInv => TiersAddUp /\ InsideQuoteIsReal
  BY FeedAddsUp, FeedQuotes
<1>3. QED
  BY <1>1, <1>2, PTL

-----------------------------------------------------------------------------
(* Whatever the order of the messages, the sets found are the complete     *)
(* ones, the tiers hold the sizes of their orders and quote the best of    *)
(* them, two lines merged lose nothing, and the docks are those that some  *)
(* moment needs (atomic_set.cpp, DataFeed.cpp, arbitrate.cpp,              *)
(* DockingSchedule.cpp).                                                   *)
THEOREM FeedsExact == AtomicSpec /\ FeedSpec /\ LinesSpec /\ DocksSpec => []MCFeedsExact
<1>1. BothFindComplete /\ NothingNeededDropped /\ TiersAddUp /\ InsideQuoteIsReal
      /\ NothingLostInMerge /\ DocksAreNeeded => MCFeedsExact
  BY DEF MCFeedsExact
<1>2. QED
  BY <1>1, SetsFound, TiersEnough, LinesMerged, DocksEnough, PTL
=============================================================================
