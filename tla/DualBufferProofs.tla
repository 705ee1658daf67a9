-------------------------- MODULE DualBufferProofs --------------------------
(***************************************************************************)
(* Proofs about module DualBuffer for every number of senders, updates and *)
(* records in a block, every limit and every DWORD.                        *)
(***************************************************************************)
EXTENDS DualBuffer, SequenceTheorems, FiniteSetTheorems, WellFoundedInduction, TLAPS

(* Induction over the natural numbers, for a set instead of a predicate.   *)
LEMMA Induction ==
  ASSUME NEW S, 0 \in S, \A n \in Nat : n \in S => n + 1 \in S
  PROVE  Nat \subseteq S
<1> DEFINE Less == OpToRel(<, Nat)
<1> DEFINE T == Nat \ S
<1>1. IsWellFoundedOn(Less, Nat)
  BY NatLessThanWellFounded
<1>2. \A x, y \in Nat : <<x, y>> \in Less <=> x < y
  BY DEF OpToRel
<1> HIDE DEF Less
<1>3. SUFFICES ASSUME T # {} PROVE FALSE
  OBVIOUS
<1>4. PICK x \in T : \A y \in T : ~(<<y, x>> \in Less)
  BY <1>1, <1>3, WFMin
<1>5. x # 0 /\ x - 1 \in Nat
  OBVIOUS
<1>6. <<x - 1, x>> \in Less
  BY <1>2, <1>5
<1> QED
  BY <1>4, <1>5, <1>6

(* g concatenates the first n sequences of q, for every n up to k. *)
Joins(g, q, k) ==
  g = [i \in 1 .. k |-> IF i = 1 THEN q[i] ELSE g[i - 1] \o q[i]]

(* The recursive definition can be unfolded.                               *)
LEMMA JoinStep ==
  ASSUME NEW g, NEW q, NEW k \in Nat, Joins(g, q, k), NEW i \in 1 .. k
  PROVE  g[i] = IF i = 1 THEN q[i] ELSE g[i - 1] \o q[i]
<1> DEFINE e(j) == IF j = 1 THEN q[j] ELSE g[j - 1] \o q[j]
<1>1. g = [j \in 1 .. k |-> e(j)]
  BY DEF Joins
<1> HIDE DEF e
<1>2. g[i] = e(i)
  BY <1>1
<1> QED
  BY <1>2 DEF e

(* A concatenation exists for every length, by induction.                  *)
LEMMA JoinExists ==
  ASSUME NEW q
  PROVE  \A k \in Nat : \E g : Joins(g, q, k)
<1> DEFINE S == {k \in Nat : \E g : Joins(g, q, k)}
<1>1. 0 \in S
  <2>1. Joins([i \in 1 .. 0 |-> 0], q, 0)
    BY DEF Joins
  <2> QED
    BY <2>1
<1>2. ASSUME NEW k \in Nat, k \in S PROVE k + 1 \in S
  <2>1. PICK g : Joins(g, q, k)
    BY <1>2
  <2> DEFINE h == [i \in 1 .. k + 1 |->
                     IF i <= k THEN g[i] ELSE IF i = 1 THEN q[i] ELSE g[k] \o q[i]]
  <2>2. ASSUME NEW i \in 1 .. k + 1 PROVE h[i] = IF i = 1 THEN q[i] ELSE h[i - 1] \o q[i]
    <3>1. CASE i <= k
      <4>1. g[i] = IF i = 1 THEN q[i] ELSE g[i - 1] \o q[i]
        BY <2>1, <3>1, JoinStep
      <4>2. i # 1 => h[i-1] = g[i-1]
        BY <3>1
      <4> QED
        BY <4>1, <4>2, <3>1
    <3>2. CASE i = k + 1
      <4>1. i # 1 => h[i - 1] = g[k]
        BY <3>2
      <4>2. h[i] = IF i = 1 THEN q[i] ELSE g[k] \o q[i]
        BY <3>2
      <4> HIDE DEF h
      <4> QED
        BY <4>1, <4>2
    <3> QED
      BY <3>1, <3>2
  <2>3. h = [i \in 1 .. k + 1 |-> IF i = 1 THEN q[i] ELSE h[i - 1] \o q[i]]
    <3>1. h = [i \in 1 .. k + 1 |-> h[i]]
      OBVIOUS
    <3> HIDE DEF h
    <3> QED
      BY <2>2, <3>1
  <2> HIDE DEF h
  <2>4. Joins(h, q, k + 1)
    BY <2>3 DEF Joins
  <2> QED
    BY <2>4
<1> HIDE DEF S
<1>3. Nat \subseteq S
  BY <1>1, <1>2, Induction
<1> QED
  BY <1>3 DEF S

(* FlattenSeq chooses the last of these concatenations.                    *)
LEMMA FlattenIs ==
  ASSUME NEW q, Len(q) \in Nat, Len(q) # 0
  PROVE  \E g : Joins(g, q, Len(q)) /\ FlattenSeq(q) = g[Len(q)]
<1> DEFINE f == CHOOSE g : Joins(g, q, Len(q))
<1>1. Joins(f, q, Len(q))
  BY JoinExists
<1>2. FlattenSeq(q) = f[Len(q)]
  BY DEF FlattenSeq, Joins
<1> QED
  BY <1>1, <1>2

(* Two ways to join the same sequences agree as far as the sequences do. *)
LEMMA JoinUnique ==
  ASSUME NEW g, NEW h, NEW q, NEW r, NEW k \in Nat, NEW m \in Nat,
         Joins(g, q, k), Joins(h, r, m), \A i \in 1 .. k : i <= m => q[i] = r[i]
  PROVE  \A i \in 1 .. k : i <= m => g[i] = h[i]
<1> DEFINE S == {n \in Nat : n \in 1 .. k /\ n <= m => g[n] = h[n]}
<1>1. 0 \in S
  OBVIOUS
<1>2. ASSUME NEW n \in Nat, n \in S PROVE n + 1 \in S
  <2>1. SUFFICES ASSUME n + 1 \in 1 .. k, n + 1 <= m PROVE g[n + 1] = h[n + 1]
    OBVIOUS
  <2>2. g[n + 1] = IF n + 1 = 1 THEN q[n + 1] ELSE g[n + 1 - 1] \o q[n + 1]
    BY <2>1, JoinStep
  <2>3. h[n + 1] = IF n + 1 = 1 THEN r[n + 1] ELSE h[n + 1 - 1] \o r[n + 1]
    BY <2>1, JoinStep
  <2>4. n + 1 - 1 = n /\ q[n + 1] = r[n + 1]
    BY <2>1
  <2>5. n # 0 => g[n] = h[n]
    BY <1>2, <2>1
  <2> QED
    BY <2>2, <2>3, <2>4, <2>5
<1> HIDE DEF S
<1>3. Nat \subseteq S
  BY <1>1, <1>2, Induction
<1> QED
  BY <1>3 DEF S

(* Concatenating sequences over R stays over R.                            *)
LEMMA JoinType ==
  ASSUME NEW R, NEW q \in Seq(Seq(R)), NEW g, Joins(g, q, Len(q))
  PROVE  \A i \in 1 .. Len(q) : g[i] \in Seq(R)
<1> DEFINE S == {n \in Nat : n \in 1 .. Len(q) => g[n] \in Seq(R)}
<1>0. Len(q) \in Nat
  BY LenProperties
<1>1. 0 \in S
  OBVIOUS
<1>2. ASSUME NEW n \in Nat, n \in S PROVE n + 1 \in S
  <2>1. SUFFICES ASSUME n + 1 \in 1 .. Len(q) PROVE g[n + 1] \in Seq(R)
    OBVIOUS
  <2>2. g[n + 1] = IF n + 1 = 1 THEN q[n + 1] ELSE g[n + 1 - 1] \o q[n + 1]
    BY <1>0, <2>1, JoinStep
  <2>3. q[n + 1] \in Seq(R)
    BY <2>1, ElementOfSeq
  <2>4. CASE n = 0
    BY <2>2, <2>3, <2>4
  <2>5. CASE n # 0
    <3>1. g[n] \in Seq(R)
      BY <1>2, <2>1, <2>5
    <3>2. n + 1 # 1 /\ n + 1 - 1 = n
      BY <2>5
    <3>3. g[n + 1] = g[n] \o q[n + 1]
      BY <2>2, <3>2, Zenon
    <3>4. g[n] \o q[n + 1] \in Seq(R)
      BY <2>3, <3>1, ConcatProperties
    <3> QED
      BY <3>3, <3>4
  <2> QED
    BY <2>4, <2>5
<1> HIDE DEF S
<1>3. Nat \subseteq S
  BY <1>1, <1>2, Induction
<1> QED
  BY <1>3, <1>0 DEF S

(* What a queue of blocks of records holds is records.                     *)
LEMMA FlattenType ==
  ASSUME NEW R, NEW q \in Seq(Seq(R)) PROVE FlattenSeq(q) \in Seq(R)
<1>0. Len(q) \in Nat
  BY LenProperties
<1>1. CASE Len(q) = 0
  <2>1. q = <<>>
    BY <1>1, EmptySeq
  <2> QED
    BY <2>1, EmptySeq DEF FlattenSeq
<1>2. CASE Len(q) # 0
  <2>1. PICK g : Joins(g, q, Len(q)) /\ FlattenSeq(q) = g[Len(q)]
    BY <1>0, <1>2, FlattenIs
  <2>2. Len(q) \in 1 .. Len(q)
    BY <1>0, <1>2
  <2> QED
    BY <2>1, <2>2, JoinType
<1> QED
  BY <1>1, <1>2

(* An empty queue holds nothing.                                           *)
LEMMA FlattenEmpty == FlattenSeq(<<>>) = <<>>
<1>1. Len(<<>>) = 0
  BY EmptySeq
<1> QED
  BY <1>1 DEF FlattenSeq

(* Appending a block to the queue appends its records.                     *)
LEMMA FlattenAppend ==
  ASSUME NEW R, NEW q \in Seq(Seq(R)), NEW b \in Seq(R)
  PROVE  FlattenSeq(Append(q, b)) = FlattenSeq(q) \o b
<1> DEFINE a == Append(q, b)
<1> DEFINE n == Len(q)
<1>0. n \in Nat
  BY LenProperties
<1>1. a \in Seq(Seq(R)) /\ Len(a) = n + 1 /\ a[n + 1] = b /\ \A i \in 1 .. n : a[i] = q[i]
  BY AppendProperties
<1> HIDE DEF a
<1>2. PICK g : Joins(g, a, n + 1) /\ FlattenSeq(a) = g[n + 1]
  <2>1. Len(a) \in Nat /\ Len(a) # 0
    BY <1>0, <1>1
  <2> QED
    BY <1>1, <2>1, FlattenIs
<1>3. g[n + 1] = IF n + 1 = 1 THEN a[n + 1] ELSE g[n + 1 - 1] \o a[n + 1]
  <2>1. n + 1 \in 1 .. n + 1 /\ n + 1 \in Nat
    BY <1>0
  <2> QED
    BY <1>2, <2>1, JoinStep
<1>4. CASE n = 0
  <2>1. q = <<>>
    BY <1>4, EmptySeq
  <2>2. FlattenSeq(q) \o b = b
    BY <2>1, FlattenEmpty, ConcatEmptySeq
  <2> QED
    BY <1>1, <1>2, <1>3, <1>4, <2>2 DEF a
<1>5. CASE n # 0
  <2>1. PICK h : Joins(h, q, n) /\ FlattenSeq(q) = h[n]
    BY <1>0, <1>5, FlattenIs
  <2>2. h[n] = g[n]
    <3>1. n \in 1 .. n /\ n + 1 \in Nat /\ n <= n + 1
      BY <1>0, <1>5
    <3>2. \A i \in 1 .. n : i <= n + 1 => q[i] = a[i]
      BY <1>1
    <3>3. Joins(h, q, n) /\ Joins(g, a, n + 1)
      BY <1>2, <2>1
    <3> DEFINE m == n + 1
    <3> HIDE DEF n, m
    <3>4. /\ n \in Nat /\ m \in Nat /\ Joins(h, q, n) /\ Joins(g, a, m)
          /\ \A i \in 1 .. n : i <= m => q[i] = a[i]
      BY <1>0, <3>1, <3>2, <3>3 DEF m
    <3>5. \A i \in 1 .. n : i <= m => h[i] = g[i]
      BY <3>4, JoinUnique
    <3> QED
      BY <3>1, <3>5 DEF m
  <2>3. g[n + 1] = g[n] \o b
    BY <1>0, <1>1, <1>3, <1>5
  <2> QED
    BY <1>2, <2>1, <2>2, <2>3 DEF a
<1> QED
  BY <1>4, <1>5
-----------------------------------------------------------------------------
(* The invariant. *)

Words == 0 .. Word - 1
BuffersOf(R) ==
  [curr : Seq(R), mem : BOOLEAN, queue : Seq(Seq(R)), qsize : Words,
   in : Words, out : Words, inRec : Words, outRec : Words]

(* TypeOK, with the buffers as a function to records.                      *)
Shape ==
  /\ test \in Tests /\ buf \in [Senders -> BuffersOf(Records)]
  /\ delivered \in [Senders -> Seq(Records)] /\ lost \in [Senders -> SUBSET Records]
  /\ pc \in [Senders -> {"add", "wait", "push", "check", "heartbeat", "exit", "done"}]
  /\ next \in [Senders -> 1 .. Updates + 1] /\ tries \in [Senders -> 0 .. WaitLimit]
  /\ bExit \in [Senders -> BOOLEAN] /\ bExited \in [Senders -> BOOLEAN]
  /\ rpc \in {"peek", "grab", "finished?", "exited"} /\ rs \in Senders
  /\ rdone \in 0 .. test.senders /\ retry \in [Senders -> {0, 1}]
  /\ resets \in 0 .. MaxResets

Queued(b) == FlattenSeq(b.queue)

(* The counters of a buffer, and what keeps them from wrapping around: no  *)
(* block in the queue is empty.                                            *)
Counted(b) ==
  /\ b.qsize = Len(b.queue) /\ b.qsize = DWord(b.in - b.out)
  /\ QRec(b) = Len(Queued(b))
  /\ Len(b.queue) <= Len(Queued(b))

(* What the place of a sender says about its buffer and its counter.       *)
Placed(s) ==
  /\ pc[s] \in {"add", "wait", "push"} => next[s] <= Updates
  /\ pc[s] \in {"wait", "push"} => ~Batched
  /\ pc[s] = "heartbeat" => Batched
  /\ ~Batched => buf[s].curr = <<>>
  /\ Len(buf[s].curr) <= Block
  /\ bExited[s] => pc[s] = "done"

(* The room that the check of the limit found is still there.              *)
Limited(s) ==
  /\ Len(Queued(buf[s])) <= MaxAllowed + (IF Batched THEN Block ELSE 1)
  /\ pc[s] = "push" => Len(Queued(buf[s])) <= MaxAllowed

(* All that was added and not dropped: delivered, queued, or in the block. *)
Line(d, b) == (d \o Queued(b)) \o b.curr

Ascends(x) == \A j, k \in 1 .. Len(x) : j < k => x[j] < x[k]

InLine(d, b, l, n) ==
  /\ Ascends(Line(d, b))
  /\ ToSet(Line(d, b)) \cap l = {}
  /\ ToSet(Line(d, b)) \cup l = 1 .. n - 1

Lined(s) == InLine(delivered[s], buf[s], lost[s], next[s])

(* A sender is retried once at most, and is done by then.                  *)
Retried ==
  /\ \A s \in Senders : retry[s] = 1 => bExited[s]
  /\ rpc = "finished?" /\ retry[rs] = 1 => IsEmpty(buf[rs])

(* The pass that found all senders finished left them so.                  *)
Finished(s) == bExited[s] /\ IsEmpty(buf[s])
Passed ==
  /\ rdone <= rs - 1
  /\ rdone = rs - 1 => \A s \in 1 .. rs - 1 : Finished(s)
  /\ rpc = "exited" => \A s \in Senders : Finished(s)

IInv ==
  /\ Shape /\ Retried /\ Passed
  /\ \A s \in Senders : Counted(buf[s]) /\ Placed(s) /\ Limited(s) /\ Lined(s)

(* With the last heartbeat always due no block is left with its sender.    *)
Flushed == \A s \in Senders : pc[s] \in {"exit", "done"} => buf[s].curr = <<>>
-----------------------------------------------------------------------------
(* DWORD arithmetic. *)

(* What a DWORD is, of a number less than twice too large or negative.     *)
LEMMA WordValue ==
  ASSUME NEW x \in Int
  PROVE  /\ x \in 0 .. Word - 1 => DWord(x) = x
         /\ x \in Word .. 2 * Word - 1 => DWord(x) = x - Word
         /\ x \in -Word .. -1 => DWord(x) = x + Word
<1>1. Word \in Nat /\ Word > 0
  BY DualBufferAssumption
<1>2. QED
  BY <1>1 DEF DWord

(* A DWORD is below 2^32, whatever was stored in it.                       *)
LEMMA WordIsWord ==
  ASSUME NEW x \in Int
  PROVE  DWord(x) \in Words
<1>1. Word \in Nat /\ Word > 0
  BY DualBufferAssumption
<1>2. QED
  BY <1>1 DEF DWord, Words

(* Adding to a counter adds to its distance from another one, as long as   *)
(* the distance stays a word.                                              *)
LEMMA WordAdd ==
  ASSUME NEW a \in Words, NEW o \in Words, NEW n \in Nat, DWord(a - o) + n < Word
  PROVE  DWord(DWord(a + n) - o) = DWord(a - o) + n
<1>1. Word \in Nat /\ Word > 0
  BY DualBufferAssumption
<1>2. DWord(a - o) = IF a >= o THEN a - o ELSE a - o + Word
  BY <1>1, WordValue DEF Words
<1>3. DWord(a + n) = IF a + n < Word THEN a + n ELSE a + n - Word
  BY <1>1, <1>2, WordValue DEF Words
<1>4. CASE a >= o
  BY <1>1, <1>2, <1>3, <1>4, WordValue DEF Words
<1>5. CASE a < o
  BY <1>1, <1>2, <1>3, <1>5, WordValue DEF Words
<1>6. QED
  BY <1>4, <1>5 DEF Words

(* Adding the distance to the counter behind makes the two equal.          *)
LEMMA WordCatchUp ==
  ASSUME NEW a \in Words, NEW o \in Words
  PROVE  DWord(o + DWord(a - o)) = a
<1>1. Word \in Nat /\ Word > 0
  BY DualBufferAssumption
<1>2. DWord(a - o) = IF a >= o THEN a - o ELSE a - o + Word
  BY <1>1, WordValue DEF Words
<1>3. QED
  BY <1>1, <1>2, WordValue DEF Words
-----------------------------------------------------------------------------
(* Sequences of records. *)

(* Concatenation is associative, for sequences of records.                 *)
LEMMA Associates ==
  \A x, y, z \in Seq(Nat) : (x \o y) \o z = x \o (y \o z)
<1>1. SUFFICES ASSUME NEW x \in Seq(Nat), NEW y \in Seq(Nat), NEW z \in Seq(Nat)
               PROVE  (x \o y) \o z = x \o (y \o z)
  OBVIOUS
<1>2. QED
  BY <1>1, ConcatAssociative, SMTT(20)

(* What two sequences hold together.                                       *)
LEMMA ToSetConcat ==
  ASSUME NEW R, NEW x \in Seq(R), NEW y \in Seq(R)
  PROVE  ToSet(x \o y) = ToSet(x) \cup ToSet(y)
<1>1. /\ x \o y \in Seq(R) /\ Len(x \o y) = Len(x) + Len(y)
      /\ \A k \in 1 .. Len(x) + Len(y) :
           (x \o y)[k] = IF k <= Len(x) THEN x[k] ELSE y[k - Len(x)]
  BY ConcatProperties
<1>2. /\ DOMAIN x = 1 .. Len(x) /\ DOMAIN y = 1 .. Len(y)
      /\ DOMAIN (x \o y) = 1 .. Len(x) + Len(y) /\ Len(x) \in Nat /\ Len(y) \in Nat
  BY <1>1, LenProperties
<1>3. ASSUME NEW e \in ToSet(x) PROVE e \in ToSet(x \o y)
  BY <1>1, <1>2 DEF ToSet
<1>4. ASSUME NEW e \in ToSet(y) PROVE e \in ToSet(x \o y)
  <2>1. PICK k \in 1 .. Len(y) : y[k] = e
    BY <1>2 DEF ToSet
  <2>2. k + Len(x) \in 1 .. Len(x) + Len(y) /\ ~(k + Len(x) <= Len(x)) /\ k + Len(x) - Len(x) = k
    BY <1>2
  <2>3. (x \o y)[k + Len(x)] = e
    BY <1>1, <2>1, <2>2
  <2>4. QED
    BY <1>2, <2>2, <2>3 DEF ToSet
<1>5. ASSUME NEW e \in ToSet(x \o y) PROVE e \in ToSet(x) \cup ToSet(y)
  <2>1. PICK k \in 1 .. Len(x) + Len(y) : (x \o y)[k] = e
    BY <1>2 DEF ToSet
  <2>2. CASE k <= Len(x)
    BY <1>1, <1>2, <2>1, <2>2 DEF ToSet
  <2>3. CASE k > Len(x)
    <3>1. k - Len(x) \in 1 .. Len(y) /\ y[k - Len(x)] = e
      BY <1>1, <1>2, <2>1, <2>3
    <3>2. QED
      BY <1>2, <3>1 DEF ToSet
  <2>4. QED
    BY <1>2, <2>2, <2>3
<1>6. QED
  BY <1>3, <1>4, <1>5

(* The two parts of a line in order share nothing, and the first is in     *)
(* order.                                                                  *)
LEMMA AscendsParts ==
  ASSUME NEW x \in Seq(Nat), NEW y \in Seq(Nat), Ascends(x \o y)
  PROVE  Ascends(x) /\ ToSet(x) \cap ToSet(y) = {}
<1>1. /\ x \o y \in Seq(Nat) /\ Len(x \o y) = Len(x) + Len(y)
      /\ \A k \in 1 .. Len(x) + Len(y) :
           (x \o y)[k] = IF k <= Len(x) THEN x[k] ELSE y[k - Len(x)]
  BY ConcatProperties
<1>2. /\ DOMAIN x = 1 .. Len(x) /\ DOMAIN y = 1 .. Len(y)
      /\ Len(x) \in Nat /\ Len(y) \in Nat
  BY LenProperties
<1>3. Ascends(x)
  <2>1. SUFFICES ASSUME NEW j \in 1 .. Len(x), NEW k \in 1 .. Len(x), j < k
                 PROVE  x[j] < x[k]
    BY DEF Ascends
  <2>2. j \in 1 .. Len(x \o y) /\ k \in 1 .. Len(x \o y)
    BY <1>1, <1>2
  <2>3. (x \o y)[j] = x[j] /\ (x \o y)[k] = x[k]
    BY <1>1, <1>2, <2>2
  <2>4. QED
    BY <2>1, <2>2, <2>3 DEF Ascends
<1>4. ASSUME NEW e \in ToSet(x), e \in ToSet(y) PROVE FALSE
  <2>1. PICK j \in 1 .. Len(x) : x[j] = e
    BY <1>2 DEF ToSet
  <2>2. PICK k \in 1 .. Len(y) : y[k] = e
    BY <1>2, <1>4 DEF ToSet
  <2>3. /\ j \in 1 .. Len(x) + Len(y) /\ k + Len(x) \in 1 .. Len(x) + Len(y)
        /\ j < k + Len(x) /\ ~(k + Len(x) <= Len(x)) /\ k + Len(x) - Len(x) = k
    BY <1>2
  <2>4. (x \o y)[j] = e /\ (x \o y)[k + Len(x)] = e
    BY <1>1, <1>2, <2>1, <2>2, <2>3
  <2>5. e < e
    BY <1>1, <2>3, <2>4 DEF Ascends
  <2>6. e \in Nat
    BY <2>1, ElementOfSeq
  <2>7. QED
    BY <2>5, <2>6
<1>5. QED
  BY <1>3, <1>4

(* A later record at the end keeps the order.                              *)
LEMMA AscendsAppend ==
  ASSUME NEW x \in Seq(Nat), NEW n \in Nat, Ascends(x), \A e \in ToSet(x) : e < n
  PROVE  Ascends(Append(x, n)) /\ ToSet(Append(x, n)) = ToSet(x) \cup {n}
<1>1. /\ Append(x, n) \in Seq(Nat) /\ Len(Append(x, n)) = Len(x) + 1
      /\ \A k \in 1 .. Len(x) : Append(x, n)[k] = x[k]
      /\ Append(x, n)[Len(x) + 1] = n
  BY AppendProperties
<1>2. /\ DOMAIN x = 1 .. Len(x) /\ Len(x) \in Nat
      /\ DOMAIN Append(x, n) = 1 .. Len(x) + 1
  BY <1>1, LenProperties
<1>3. \A k \in 1 .. Len(x) : x[k] \in ToSet(x)
  BY <1>2 DEF ToSet
<1>4. Ascends(Append(x, n))
  BY <1>1, <1>2, <1>3 DEF Ascends
<1>5. ToSet(Append(x, n)) = ToSet(x) \cup {n}
  <2>1. \A e \in ToSet(Append(x, n)) : e \in ToSet(x) \cup {n}
    BY <1>1, <1>2, <1>3 DEF ToSet
  <2>2. n \in ToSet(Append(x, n))
    <3>1. Len(x) + 1 \in 1 .. Len(x) + 1
      BY <1>2
    <3>2. QED
      BY <1>1, <1>2, <3>1 DEF ToSet
  <2>3. \A e \in ToSet(x) : e \in ToSet(Append(x, n))
    BY <1>1, <1>2 DEF ToSet
  <2>4. QED
    BY <2>1, <2>2, <2>3
<1>6. QED
  BY <1>4, <1>5
-----------------------------------------------------------------------------
(* Buffers. *)

(* What is queued is records.                                              *)
LEMMA QueuedType ==
  ASSUME NEW R, NEW b \in BuffersOf(R)
  PROVE  Queued(b) \in Seq(R) /\ Len(Queued(b)) \in Nat
<1>1. b.queue \in Seq(Seq(R))
  BY DEF BuffersOf
<1>2. QED
  BY <1>1, FlattenType, LenProperties DEF Queued

(* The block of the sender is not the counters' business.                  *)
SameQueue(b, d) ==
  /\ d.queue = b.queue /\ d.qsize = b.qsize /\ d.in = b.in /\ d.out = b.out
  /\ d.inRec = b.inRec /\ d.outRec = b.outRec

(* Buffers with the same queue and counters count alike.                   *)
LEMMA BlockApart ==
  ASSUME NEW b, NEW d, SameQueue(b, d)
  PROVE  /\ Queued(d) = Queued(b) /\ QRec(d) = QRec(b)
         /\ (IsEmpty(b) => IsEmpty(d)) /\ (Counted(b) => Counted(d))
BY DEF SameQueue, Queued, QRec, IsEmpty, Counted

(* A block that has room is queued and counted.                            *)
LEMMA EnqueueCounts ==
  ASSUME NEW R, NEW b \in BuffersOf(R), Counted(b), NEW block \in Seq(R),
         block # <<>>, Len(block) <= Block, Len(Queued(b)) <= MaxAllowed,
         NEW d, d = Enqueue(b, block)
  PROVE  /\ d \in BuffersOf(R) /\ Counted(d) /\ d.curr = b.curr /\ d.mem = b.mem
         /\ Queued(d) = Queued(b) \o block
         /\ Len(Queued(d)) = Len(Queued(b)) + Len(block)
<1>1. /\ b.qsize \in Words /\ b.in \in Words /\ b.out \in Words
      /\ b.inRec \in Words /\ b.outRec \in Words /\ b.queue \in Seq(Seq(R))
  BY DEF BuffersOf
<1>2. /\ Word \in Nat /\ MaxAllowed \in Nat /\ Block \in Nat
      /\ MaxAllowed + Block < Word
  BY DualBufferAssumption
<1>3. Len(block) \in Nat /\ Len(block) >= 1
  BY EmptySeq, LenProperties
<1>4. /\ Queued(b) \in Seq(R) /\ Len(Queued(b)) \in Nat /\ Len(b.queue) \in Nat
  BY <1>1, QueuedType, LenProperties
<1>5. /\ d = [b EXCEPT !.in = DWord(b.in + 1), !.inRec = DWord(b.inRec + Len(block)),
                       !.qsize = DWord(b.qsize + 1), !.queue = Append(b.queue, block)]
  BY DEF Enqueue
<1>6. /\ DWord(b.in + 1) \in Words /\ DWord(b.qsize + 1) \in Words
      /\ DWord(b.inRec + Len(block)) \in Words /\ Append(b.queue, block) \in Seq(Seq(R))
      /\ Len(Append(b.queue, block)) = Len(b.queue) + 1
  <2>1. b.in + 1 \in Int /\ b.qsize + 1 \in Int /\ b.inRec + Len(block) \in Int
    BY <1>1, <1>3 DEF Words
  <2>2. QED
    BY <1>1, <2>1, WordIsWord, AppendProperties
<1>7. /\ d \in BuffersOf(R) /\ d.curr = b.curr /\ d.mem = b.mem
      /\ d.in = DWord(b.in + 1) /\ d.inRec = DWord(b.inRec + Len(block))
      /\ d.qsize = DWord(b.qsize + 1) /\ d.queue = Append(b.queue, block)
      /\ d.out = b.out /\ d.outRec = b.outRec
  BY <1>5, <1>6 DEF BuffersOf
<1>8. Queued(d) = Queued(b) \o block
  BY <1>1, <1>7, FlattenAppend DEF Queued
<1>9. Len(Queued(d)) = Len(Queued(b)) + Len(block)
  BY <1>4, <1>8, ConcatProperties
<1>10. /\ b.qsize = Len(b.queue) /\ b.qsize = DWord(b.in - b.out)
       /\ DWord(b.inRec - b.outRec) = Len(Queued(b)) /\ Len(b.queue) <= Len(Queued(b))
  BY DEF Counted, QRec
<1>11. b.qsize + 1 < Word /\ Len(Queued(b)) + Len(block) < Word
  BY <1>2, <1>3, <1>4, <1>10
<1>12. DWord(b.qsize + 1) = b.qsize + 1
  BY <1>1, <1>2, <1>11, WordValue DEF Words
<1>13. DWord(DWord(b.in + 1) - b.out) = b.qsize + 1
  BY <1>1, <1>10, <1>11, WordAdd
<1>14. DWord(DWord(b.inRec + Len(block)) - b.outRec) = Len(Queued(b)) + Len(block)
  <2>1. DWord(b.inRec - b.outRec) + Len(block) < Word
    BY <1>10, <1>11
  <2>2. DWord(DWord(b.inRec + Len(block)) - b.outRec) = DWord(b.inRec - b.outRec) + Len(block)
    BY <1>1, <1>3, <2>1, WordAdd
  <2>3. QED
    BY <1>10, <2>2
<1>15. Counted(d)
  <2>1. Len(d.queue) = d.qsize
    BY <1>6, <1>7, <1>10, <1>12
  <2>2. d.qsize = DWord(d.in - d.out)
    BY <1>7, <1>12, <1>13
  <2>3. QRec(d) = Len(Queued(d))
    BY <1>7, <1>9, <1>14 DEF QRec
  <2>4. Len(d.queue) <= Len(Queued(d))
    BY <1>3, <1>4, <1>6, <1>7, <1>9, <1>10
  <2>5. QED
    BY <2>1, <2>2, <2>3, <2>4 DEF Counted
<1>16. QED
  BY <1>7, <1>8, <1>9, <1>15

(* The limit is about what is queued.                                      *)
LEMMA LimitMeans ==
  ASSUME NEW R, NEW b \in BuffersOf(R), Counted(b)
  PROVE  OverLimit(b) <=> ~(Len(Queued(b)) <= MaxAllowed)
BY QueuedType, DualBufferAssumption DEF OverLimit, Counted

(* add2Queue empties the block, into the queue or away.                    *)
LEMMA Add2QueueCounts ==
  ASSUME NEW R, NEW b \in BuffersOf(R), Counted(b), b.curr # <<>>,
         Len(b.curr) <= Block, NEW d, d = Add2Queue(b)
  PROVE  /\ d \in BuffersOf(R) /\ Counted(d) /\ d.curr = <<>>
         /\ \/ OverLimit(b) /\ Queued(d) = Queued(b)
            \/ /\ ~OverLimit(b) /\ Queued(d) = Queued(b) \o b.curr
               /\ Len(Queued(d)) <= MaxAllowed + Block
<1>1. b.curr \in Seq(R) /\ b.mem \in BOOLEAN /\ <<>> \in Seq(R)
  BY EmptySeq DEF BuffersOf
<1>2. CASE OverLimit(b)
  <2>1. d \in BuffersOf(R) /\ d.curr = <<>> /\ SameQueue(b, d)
    BY <1>1, <1>2 DEF Add2Queue, BuffersOf, SameQueue
  <2>2. QED
    BY <1>1, <1>2, <2>1, BlockApart
<1>3. CASE ~OverLimit(b)
  <2> DEFINE e == Enqueue(b, b.curr)
  <2>1. Len(Queued(b)) <= MaxAllowed
    BY <1>3, LimitMeans
  <2>2. /\ e \in BuffersOf(R) /\ Counted(e) /\ Queued(e) = Queued(b) \o b.curr
        /\ Len(Queued(e)) = Len(Queued(b)) + Len(b.curr)
    BY <1>1, <2>1, EnqueueCounts
  <2>3. d = [e EXCEPT !.curr = <<>>, !.mem = FALSE]
    BY <1>3 DEF Add2Queue
  <2> HIDE DEF e
  <2>4. d \in BuffersOf(R) /\ Counted(d) /\ d.curr = <<>> /\ Queued(d) = Queued(e)
    <3>1. d \in BuffersOf(R) /\ d.curr = <<>> /\ SameQueue(e, d)
      BY <1>1, <2>2, <2>3 DEF BuffersOf, SameQueue
    <3>2. QED
      BY <2>2, <3>1, BlockApart
  <2>5. Len(b.curr) \in Nat /\ Len(Queued(b)) \in Nat /\ MaxAllowed \in Nat /\ Block \in Nat
    BY <1>1, QueuedType, LenProperties, DualBufferAssumption
  <2>6. QED
    BY <1>3, <2>1, <2>2, <2>4, <2>5
<1>4. QED
  BY <1>2, <1>3

(* An empty buffer holds nothing.                                          *)
LEMMA EmptyMeans ==
  ASSUME NEW R, NEW b \in BuffersOf(R), Counted(b)
  PROVE  /\ IsEmpty(b) <=> b.queue = <<>>
         /\ IsEmpty(b) <=> b.in = b.out
         /\ IsEmpty(b) <=> b.qsize = 0
         /\ IsEmpty(b) => Queued(b) = <<>>
<1>1. /\ b.in \in Words /\ b.out \in Words /\ b.queue \in Seq(Seq(R))
      /\ b.qsize = Len(b.queue) /\ b.qsize = DWord(b.in - b.out)
  BY DEF BuffersOf, Counted
<1>2. Word \in Nat /\ Word > 0
  BY DualBufferAssumption
<1>3. DWord(b.in - b.out) = IF b.in >= b.out THEN b.in - b.out ELSE b.in - b.out + Word
  BY <1>1, <1>2, WordValue DEF Words
<1>4. b.qsize = 0 <=> b.in = b.out
  BY <1>1, <1>2, <1>3 DEF Words
<1>5. b.qsize = 0 <=> b.queue = <<>>
  BY <1>1, EmptySeq
<1>6. QED
  BY <1>4, <1>5, FlattenEmpty DEF IsEmpty, Queued

(* Grabbing the queue empties it, and the counters agree.                  *)
LEMMA GrabCounts ==
  ASSUME NEW R, NEW b \in BuffersOf(R), Counted(b), NEW d, d = Grab(b)
  PROVE  /\ d \in BuffersOf(R) /\ Counted(d) /\ d.curr = b.curr
         /\ IsEmpty(d) /\ Queued(d) = <<>>
<1>1. /\ b.in \in Words /\ b.out \in Words /\ b.inRec \in Words /\ b.outRec \in Words
      /\ b.queue \in Seq(Seq(R)) /\ b.qsize = Len(b.queue) /\ b.qsize = DWord(b.in - b.out)
      /\ Len(Queued(b)) = DWord(b.inRec - b.outRec)
  BY DEF BuffersOf, Counted, QRec
<1>2. Word \in Nat /\ Word > 0 /\ 0 \in Words
  BY DualBufferAssumption DEF Words
<1>3. d = [b EXCEPT !.out = b.in, !.outRec = b.inRec, !.qsize = 0, !.queue = <<>>]
  <2>1. DWord(b.out + Len(b.queue)) = b.in
    BY <1>1, WordCatchUp
  <2>2. DWord(b.outRec + Len(Queued(b))) = b.inRec
    BY <1>1, WordCatchUp
  <2>3. QED
    BY <2>1, <2>2 DEF Grab, Queued
<1>4. <<>> \in Seq(Seq(R)) /\ Len(<<>>) = 0
  BY EmptySeq
<1>5. /\ d \in BuffersOf(R) /\ d.curr = b.curr /\ d.queue = <<>> /\ d.qsize = 0
      /\ d.in = b.in /\ d.out = b.in /\ d.inRec = b.inRec /\ d.outRec = b.inRec
  BY <1>1, <1>2, <1>3, <1>4 DEF BuffersOf
<1>6. DWord(0) = 0 /\ b.in - b.in = 0 /\ b.inRec - b.inRec = 0
  BY <1>1, <1>2, WordValue DEF Words
<1>7. Queued(d) = <<>>
  BY <1>5, FlattenEmpty DEF Queued
<1>8. QED
  BY <1>4, <1>5, <1>6, <1>7 DEF Counted, QRec, IsEmpty

(* clearStats changes no buffer that holds something.                      *)
LEMMA ClearTotalsCounts ==
  ASSUME NEW R, NEW b \in BuffersOf(R), Counted(b), NEW d, d = ClearTotals(b)
  PROVE  /\ d \in BuffersOf(R) /\ Counted(d) /\ d.curr = b.curr
         /\ Queued(d) = Queued(b) /\ (IsEmpty(b) => IsEmpty(d))
<1>1. CASE IsEmpty(b)
  <2>1. d = [b EXCEPT !.qsize = 0, !.in = 0, !.out = 0, !.inRec = 0, !.outRec = 0]
    BY <1>1 DEF ClearTotals
  <2>2. Word \in Nat /\ Word > 0 /\ 0 \in Words
    BY DualBufferAssumption DEF Words
  <2>3. /\ d \in BuffersOf(R) /\ d.curr = b.curr /\ d.queue = b.queue /\ d.qsize = 0
        /\ d.in = 0 /\ d.out = 0 /\ d.inRec = 0 /\ d.outRec = 0
    BY <2>1, <2>2 DEF BuffersOf
  <2>4. DWord(0) = 0 /\ 0 - 0 = 0
    BY <2>2, WordValue
  <2>5. b.queue = <<>> /\ Queued(b) = <<>> /\ Len(<<>>) = 0
    BY <1>1, EmptyMeans, EmptySeq
  <2>6. QED
    BY <2>3, <2>4, <2>5 DEF Counted, QRec, IsEmpty, Queued
<1>2. CASE ~IsEmpty(b)
  BY <1>2 DEF ClearTotals
<1>3. QED
  BY <1>1, <1>2
-----------------------------------------------------------------------------
(* Every operation keeps the records in line. *)

(* The records on their way are numbers.                                   *)
LEMMA LineType ==
  ASSUME NEW R \in SUBSET Nat, NEW d \in Seq(R), NEW b \in BuffersOf(R)
  PROVE  /\ d \o Queued(b) \in Seq(Nat) /\ b.curr \in Seq(Nat)
         /\ Line(d, b) \in Seq(Nat) /\ d \in Seq(Nat) /\ Queued(b) \in Seq(Nat)
<1>1. d \in Seq(Nat)
  BY SeqMonotonic
<1>2. Queued(b) \in Seq(R) /\ b.curr \in Seq(R)
  BY QueuedType DEF BuffersOf
<1>3. Queued(b) \in Seq(Nat) /\ b.curr \in Seq(Nat)
  BY <1>2, SeqMonotonic
<1>4. d \o Queued(b) \in Seq(Nat)
  BY <1>1, <1>3, ConcatProperties
<1>5. QED
  BY <1>1, <1>3, <1>4, ConcatProperties DEF Line

(* A record added to the block goes to the end of the line.                *)
LEMMA AddLine ==
  ASSUME NEW R \in SUBSET Nat, NEW d \in Seq(R), NEW b \in BuffersOf(R), NEW l,
         NEW n \in Nat \ {0}, InLine(d, b, l, n),
         NEW e \in BuffersOf(R), Queued(e) = Queued(b), e.curr = Append(b.curr, n)
  PROVE  InLine(d, e, l, n + 1)
<1>1. /\ d \o Queued(b) \in Seq(Nat) /\ b.curr \in Seq(Nat)
      /\ Line(d, b) \in Seq(Nat) /\ <<n>> \in Seq(Nat)
  BY LineType
<1>2. Line(d, e) = Append(Line(d, b), n)
  <2>1. Append(b.curr, n) = b.curr \o <<n>>
    BY <1>1, AppendIsConcat
  <2>2. Append(Line(d, b), n) = Line(d, b) \o <<n>>
    BY <1>1, AppendIsConcat
  <2>3. ((d \o Queued(b)) \o b.curr) \o <<n>> = (d \o Queued(b)) \o (b.curr \o <<n>>)
    <3> DEFINE q == d \o Queued(b)
    <3> DEFINE c == b.curr
    <3> DEFINE u == <<n>>
    <3>1. q \in Seq(Nat) /\ c \in Seq(Nat) /\ u \in Seq(Nat)
      BY <1>1
    <3> HIDE DEF q, c, u
    <3>2. (q \o c) \o u = q \o (c \o u)
      BY <3>1, Associates
    <3>3. QED
      BY <3>2 DEF q, c, u
  <2>4. QED
    BY <2>1, <2>2, <2>3 DEF Line
<1>3. \A r \in ToSet(Line(d, b)) : r < n
  BY DEF InLine
<1>4. Ascends(Line(d, e)) /\ ToSet(Line(d, e)) = ToSet(Line(d, b)) \cup {n}
  <2>1. Ascends(Line(d, b))
    BY DEF InLine
  <2>2. QED
    BY <1>1, <1>2, <1>3, <2>1, AscendsAppend
<1>5. n \notin l /\ (1 .. n - 1) \cup {n} = 1 .. n + 1 - 1
  BY DEF InLine
<1>6. QED
  BY <1>4, <1>5 DEF InLine

(* A record that is lost leaves a gap at the end of the line.              *)
LEMMA LoseLine ==
  ASSUME NEW R \in SUBSET Nat, NEW d \in Seq(R), NEW b \in BuffersOf(R), NEW l,
         NEW n \in Nat \ {0}, InLine(d, b, l, n)
  PROVE  InLine(d, b, l \cup {n}, n + 1)
<1>1. (1 .. n - 1) \cup {n} = 1 .. n + 1 - 1 /\ n \notin 1 .. n - 1
  OBVIOUS
<1>2. QED
  BY <1>1 DEF InLine

(* The flush moves the block to the queue, or its records to the lost.     *)
LEMMA FlushLine ==
  ASSUME NEW R \in SUBSET Nat, NEW d \in Seq(R), NEW b \in BuffersOf(R), NEW l,
         NEW n, InLine(d, b, l, n), NEW e \in BuffersOf(R), e.curr = <<>>,
         \/ OverLimit(b) /\ Queued(e) = Queued(b)
         \/ ~OverLimit(b) /\ Queued(e) = Queued(b) \o b.curr
  PROVE  InLine(d, e, l \cup Dropped(b), n)
<1>1. /\ d \o Queued(b) \in Seq(Nat) /\ b.curr \in Seq(Nat)
      /\ d \in Seq(Nat) /\ Queued(b) \in Seq(Nat)
  BY LineType
<1>2. CASE OverLimit(b)
  <2>1. Line(d, e) = d \o Queued(b)
    BY <1>1, <1>2, ConcatEmptySeq DEF Line
  <2>2. Ascends(d \o Queued(b)) /\ ToSet(d \o Queued(b)) \cap ToSet(b.curr) = {}
    BY <1>1, AscendsParts DEF InLine, Line
  <2>3. ToSet(Line(d, b)) = ToSet(d \o Queued(b)) \cup ToSet(b.curr)
    <3> DEFINE q == d \o Queued(b)
    <3> DEFINE c == b.curr
    <3>1. q \in Seq(Nat) /\ c \in Seq(Nat)
      BY <1>1
    <3> HIDE DEF q, c
    <3>2. ToSet(q \o c) = ToSet(q) \cup ToSet(c)
      BY <3>1, ToSetConcat
    <3>3. QED
      BY <3>2 DEF q, c, Line
  <2>4. Dropped(b) = ToSet(b.curr)
    BY <1>2 DEF Dropped
  <2>5. QED
    BY <2>1, <2>2, <2>3, <2>4 DEF InLine
<1>3. CASE ~OverLimit(b)
  <2>1. Queued(b) \o b.curr \in Seq(Nat) /\ d \o (Queued(b) \o b.curr) \in Seq(Nat)
    BY <1>1, ConcatProperties
  <2>2. Line(d, e) = d \o (Queued(b) \o b.curr)
    BY <1>3, <2>1, ConcatEmptySeq DEF Line
  <2>3. Line(d, e) = Line(d, b)
    <3> DEFINE q == Queued(b)
    <3> DEFINE c == b.curr
    <3>1. d \in Seq(Nat) /\ q \in Seq(Nat) /\ c \in Seq(Nat)
      BY <1>1
    <3> HIDE DEF q, c
    <3>2. (d \o q) \o c = d \o (q \o c)
      BY <3>1, Associates
    <3>3. QED
      BY <2>2, <3>2 DEF q, c, Line
  <2>4. Dropped(b) = {}
    BY <1>3 DEF Dropped
  <2>5. QED
    BY <2>3, <2>4 DEF InLine
<1>4. QED
  BY <1>2, <1>3

(* An update that is queued by itself, from a sender without a block       *)
LEMMA PushLine ==
  ASSUME NEW R \in SUBSET Nat, NEW d \in Seq(R), NEW b \in BuffersOf(R), NEW l,
         NEW n \in Nat \ {0}, InLine(d, b, l, n), b.curr = <<>>,
         NEW e \in BuffersOf(R), Queued(e) = Queued(b) \o <<n>>, e.curr = <<>>
  PROVE  InLine(d, e, l, n + 1)
<1>1. /\ d \o Queued(b) \in Seq(Nat) /\ <<n>> \in Seq(Nat)
      /\ d \in Seq(Nat) /\ Queued(b) \in Seq(Nat)
  BY LineType
<1>2. Queued(b) \o <<n>> \in Seq(Nat) /\ d \o (Queued(b) \o <<n>>) \in Seq(Nat)
  BY <1>1, ConcatProperties
<1>3. Line(d, b) = d \o Queued(b) /\ Line(d, e) = d \o (Queued(b) \o <<n>>)
  BY <1>1, <1>2, ConcatEmptySeq DEF Line
<1>4. Line(d, e) = Append(Line(d, b), n)
  BY <1>1, <1>3, Associates, AppendIsConcat
<1>5. \A r \in ToSet(Line(d, b)) : r < n
  BY DEF InLine
<1>6. Ascends(Line(d, e)) /\ ToSet(Line(d, e)) = ToSet(Line(d, b)) \cup {n}
  <2>1. Ascends(Line(d, b)) /\ Line(d, b) \in Seq(Nat)
    BY <1>1, <1>3 DEF InLine
  <2>2. QED
    BY <1>4, <1>5, <2>1, AscendsAppend
<1>7. n \notin l /\ (1 .. n - 1) \cup {n} = 1 .. n + 1 - 1
  BY DEF InLine
<1>8. QED
  BY <1>6, <1>7 DEF InLine

(* What the receiver grabs it delivers.                                    *)
LEMMA GrabLine ==
  ASSUME NEW R \in SUBSET Nat, NEW d \in Seq(R), NEW b \in BuffersOf(R), NEW l,
         NEW n, InLine(d, b, l, n),
         NEW e \in BuffersOf(R), Queued(e) = <<>>, e.curr = b.curr
  PROVE  InLine(d \o Queued(b), e, l, n)
<1>1. d \o Queued(b) \in Seq(Nat)
  BY LineType
<1>2. Line(d \o Queued(b), e) = Line(d, b)
  BY <1>1, ConcatEmptySeq DEF Line
<1>3. QED
  BY <1>2 DEF InLine

(* The line does not depend on the counters.                               *)
LEMMA SameLine ==
  ASSUME NEW d, NEW b, NEW l, NEW n, InLine(d, b, l, n), NEW e,
         Queued(e) = Queued(b), e.curr = b.curr
  PROVE  InLine(d, e, l, n)
BY DEF InLine, Line
-----------------------------------------------------------------------------
(* The invariant holds at the start and is kept by the senders. *)

(* What the assumption says of the test that runs.                         *)
LEMMA TestFacts ==
  ASSUME test \in Tests
  PROVE  /\ test.senders \in Nat \ {0} /\ Updates \in Nat \ {0} /\ Senders = 1 .. test.senders
         /\ Batched \in BOOLEAN /\ AllocFails \in BOOLEAN /\ Alloc \subseteq BOOLEAN
         /\ Records \in SUBSET Nat /\ Records = 1 .. Updates
<1>1. /\ test.senders \in Nat \ {0} /\ test.updates \in Nat \ {0}
      /\ test.batched \in BOOLEAN /\ test.allocFails \in BOOLEAN
  BY DualBufferAssumption
<1>2. Senders = 1 .. test.senders /\ Updates = test.updates /\ Records = 1 .. Updates
  BY DEF Senders, Updates, Records
<1>3. Batched \in BOOLEAN /\ AllocFails \in BOOLEAN
  BY <1>1 DEF Batched, AllocFails
<1>4. Alloc \subseteq BOOLEAN
  BY DEF Alloc
<1>5. QED
  BY <1>1, <1>2, <1>3, <1>4

(* A new buffer is empty, with or without its block.                       *)
LEMMA NewBufferFacts ==
  ASSUME NEW R, NEW m \in BOOLEAN, NEW b, b = [NewBuffer EXCEPT !.mem = m]
  PROVE  /\ b \in BuffersOf(R) /\ Counted(b) /\ b.curr = <<>> /\ Queued(b) = <<>>
         /\ InLine(<<>>, b, {}, 1)
<1>1. Word \in Nat /\ Word > 0 /\ 0 \in Words
  BY DualBufferAssumption DEF Words
<1>2. <<>> \in Seq(R) /\ <<>> \in Seq(Seq(R)) /\ <<>> \in Seq(Nat) /\ Len(<<>>) = 0
  BY EmptySeq
<1>3. /\ b \in BuffersOf(R) /\ b.curr = <<>> /\ b.queue = <<>> /\ b.qsize = 0
      /\ b.in = 0 /\ b.out = 0 /\ b.inRec = 0 /\ b.outRec = 0
  BY <1>1, <1>2 DEF BuffersOf, NewBuffer
<1>4. Queued(b) = <<>>
  BY <1>3, FlattenEmpty DEF Queued
<1>5. DWord(0) = 0 /\ 0 - 0 = 0
  BY <1>1, WordValue
<1>6. Counted(b)
  BY <1>2, <1>3, <1>4, <1>5 DEF Counted, QRec
<1>7. Line(<<>>, b) = <<>>
  BY <1>2, <1>3, <1>4, ConcatEmptySeq DEF Line
<1>8. Ascends(<<>>) /\ ToSet(<<>>) = {}
  BY <1>2 DEF Ascends, ToSet
<1>9. InLine(<<>>, b, {}, 1)
  <2>1. 1 .. 1 - 1 = {}
    OBVIOUS
  <2>2. QED
    BY <1>7, <1>8, <2>1 DEF InLine
<1>10. QED
  BY <1>3, <1>4, <1>6, <1>9

(* The invariant holds at the start.                                       *)
LEMMA InitInv == Init => IInv
<1> SUFFICES ASSUME Init PROVE IInv
  OBVIOUS
<1> USE DEF Init
<1>1. test \in Tests
  OBVIOUS
<1>2. <<>> \in Seq(Records) /\ Len(<<>>) = 0
  BY EmptySeq
<1>3. ASSUME NEW s \in Senders
      PROVE  /\ buf[s] \in BuffersOf(Records) /\ Counted(buf[s]) /\ buf[s].curr = <<>>
             /\ Queued(buf[s]) = <<>> /\ InLine(<<>>, buf[s], {}, 1)
  <2>1. PICK m \in BOOLEAN : buf[s] = [NewBuffer EXCEPT !.mem = m]
    <3>1. buf[s] \in {[NewBuffer EXCEPT !.mem = m] : m \in IF AllocFails THEN BOOLEAN ELSE {TRUE}}
      BY Zenon
    <3>2. (IF AllocFails THEN BOOLEAN ELSE {TRUE}) \subseteq BOOLEAN
      OBVIOUS
    <3>3. QED
      BY <3>1, <3>2, Zenon
  <2>2. QED
    BY <2>1, NewBufferFacts
<1>4. buf \in [Senders -> BuffersOf(Records)]
  BY <1>3
<1>5. Shape
  BY <1>1, <1>2, <1>4, TestFacts, DualBufferAssumption DEF Shape
<1>6. Retried /\ Passed
  BY <1>1, TestFacts DEF Retried, Passed
<1>7. ASSUME NEW s \in Senders PROVE Placed(s) /\ Limited(s) /\ Lined(s)
  <2>1. Placed(s)
    BY <1>1, <1>2, <1>3, TestFacts, DualBufferAssumption DEF Placed
  <2>2. Limited(s)
    BY <1>1, <1>2, <1>3, TestFacts, DualBufferAssumption DEF Limited
  <2>3. Lined(s)
    BY <1>3 DEF Lined
  <2>4. QED
    BY <2>1, <2>2, <2>3
<1>8. QED
  BY <1>3, <1>5, <1>6, <1>7 DEF IInv

(* What a step does at one sender, once it is known that it does nothing   *)
(* elsewhere.                                                              *)
LEMMA AtOneSender ==
  ASSUME IInv, NEW s \in Senders, Shape', UNCHANGED <<test, recvVars>>,
         \A r \in Senders \ {s} :
           /\ buf'[r] = buf[r] /\ pc'[r] = pc[r] /\ next'[r] = next[r]
           /\ bExited'[r] = bExited[r] /\ lost'[r] = lost[r],
         Counted(buf'[s]), Placed(s)', Limited(s)', Lined(s)',
         bExited[s] => bExited'[s] /\ (IsEmpty(buf[s]) => IsEmpty(buf'[s]))
  PROVE  IInv'
<1>1. Senders' = Senders /\ Batched' = Batched /\ Updates' = Updates
  BY DEF Senders, Batched, Updates
<1>2. \A r \in Senders : Finished(r) => Finished(r)'
  BY DEF Finished
<1>3. Retried'
  <2>1. \A r \in Senders : retry[r] = 1 => bExited'[r]
    BY DEF IInv, Retried
  <2>2. rpc = "finished?" /\ retry[rs] = 1 => IsEmpty(buf'[rs])
    BY DEF IInv, Retried, Shape
  <2>3. QED
    BY <1>1, <2>1, <2>2 DEF Retried, recvVars
<1>4. Passed'
  <2>1. rs' = rs /\ rdone' = rdone /\ rpc' = rpc
    BY DEF recvVars
  <2>2. rs \in 1 .. test.senders /\ Senders = 1 .. test.senders /\ test.senders \in Nat
    BY TestFacts DEF IInv, Shape
  <2>3. \A r \in 1 .. rs - 1 : r \in Senders
    BY <2>2
  <2>4. Passed
    BY DEF IInv
  <2>5. QED
    BY <1>1, <1>2, <2>1, <2>3, <2>4 DEF Passed
<1>5. ASSUME NEW r \in Senders, r # s
      PROVE  Counted(buf'[r]) /\ Placed(r)' /\ Limited(r)' /\ Lined(r)'
  BY <1>1, <1>5 DEF IInv, Placed, Limited, Lined, recvVars
<1>6. QED
  BY <1>1, <1>3, <1>4, <1>5 DEF IInv

(* What the invariant says of one sender.                                  *)
LEMMA SenderFacts ==
  ASSUME IInv, NEW s \in Senders
  PROVE  /\ buf[s] \in BuffersOf(Records) /\ buf[s].curr \in Seq(Records)
         /\ buf[s].mem \in BOOLEAN /\ Len(buf[s].curr) \in Nat
         /\ Counted(buf[s]) /\ Placed(s) /\ Limited(s) /\ Lined(s)
         /\ delivered[s] \in Seq(Records) /\ lost[s] \in SUBSET Records
         /\ next[s] \in 1 .. Updates + 1 /\ next[s] \in Nat \ {0} /\ test \in Tests
<1>1. buf[s] \in BuffersOf(Records) /\ Shape
  BY DEF IInv, Shape
<1>2. buf[s].curr \in Seq(Records) /\ buf[s].mem \in BOOLEAN
  BY <1>1 DEF BuffersOf
<1>3. test \in Tests /\ next[s] \in 1 .. Updates + 1
  BY <1>1 DEF Shape
<1>4. next[s] \in Nat \ {0}
  BY <1>3, TestFacts
<1>5. QED
  BY <1>1, <1>2, <1>3, <1>4, LenProperties DEF IInv, Shape

(* The steps that only move a sender, or set its flags.                    *)
LEMMA MoveStep ==
  ASSUME IInv, NEW s \in Senders,
         \/ CheckExit(s) \/ Exit(s) \/ Tal4Check(s) \/ Tal4Wait(s) \/ Stop(s)
  PROVE  IInv'
<1>0. Shape
  BY DEF IInv
<1>1. UNCHANGED <<test, recvVars, buf, next, lost, resets>>
  BY DEF CheckExit, Exit, Tal4Check, Tal4Wait, Stop
<1>2. Shape'
  <2>1. CASE CheckExit(s)
    BY <1>0, <1>1, <2>1 DEF Shape, CheckExit, Goto, recvVars, Senders, Updates, Records
  <2>2. CASE Exit(s)
    BY <1>0, <1>1, <2>2 DEF Shape, Exit, Goto, recvVars, Senders, Updates, Records
  <2>3. CASE Tal4Check(s)
    BY <1>0, <1>1, <2>3 DEF Shape, Tal4Check, Goto, recvVars, Senders, Updates, Records
  <2>4. CASE Tal4Wait(s)
    <3>1. tries[s] \in 0 .. WaitLimit /\ WaitLimit \in Nat
      BY <1>0, DualBufferAssumption DEF Shape
    <3>2. tries' \in [Senders -> 0 .. WaitLimit]
      <4>1. tries \in [Senders -> 0 .. WaitLimit] /\ 0 \in 0 .. WaitLimit
        BY <1>0, <3>1 DEF Shape
      <4>2. tries[s] + 1 \in 0 .. WaitLimit \/ ~(tries[s] < WaitLimit)
        BY <3>1
      <4>3. tries[s] < WaitLimit
        BY <2>4 DEF Tal4Wait
      <4>4. tries' = [tries EXCEPT ![s] = 0] \/ tries' = [tries EXCEPT ![s] = tries[s] + 1]
        BY <2>4 DEF Tal4Wait
      <4>5. QED
        BY <4>1, <4>2, <4>3, <4>4
    <3>3. pc' \in [Senders -> {"add", "wait", "push", "check", "heartbeat", "exit", "done"}]
      BY <1>0, <2>4 DEF Shape, Tal4Wait, Goto
    <3>4. QED
      BY <1>0, <1>1, <2>4, <3>2, <3>3 DEF Shape, Tal4Wait, recvVars, Senders, Updates, Records
  <2>5. CASE Stop(s)
    BY <1>0, <1>1, <2>5 DEF Shape, Stop, recvVars, Senders, Updates, Records
  <2>6. QED
    BY <2>1, <2>2, <2>3, <2>4, <2>5
<1>3. \A r \in Senders \ {s} : pc'[r] = pc[r] /\ bExited'[r] = bExited[r]
  BY <1>0 DEF Shape, CheckExit, Exit, Tal4Check, Tal4Wait, Stop, Goto
<1>4. bExited[s] => bExited'[s]
  BY <1>0 DEF Shape, CheckExit, Exit, Tal4Check, Tal4Wait, Stop
<1>5. Placed(s)'
  <2>1. Placed(s) /\ next[s] \in Nat /\ Updates \in Nat /\ Batched \in BOOLEAN
    BY SenderFacts, TestFacts
  <2>2. Batched' = Batched /\ Updates' = Updates
    BY <1>1 DEF Batched, Updates
  <2>3. CASE CheckExit(s)
    BY <1>0, <1>1, <2>1, <2>2, <2>3 DEF Placed, CheckExit, Goto, Shape
  <2>4. CASE Exit(s)
    BY <1>0, <1>1, <2>1, <2>2, <2>4 DEF Placed, Exit, Goto, Shape
  <2>5. CASE Tal4Check(s)
    BY <1>0, <1>1, <2>1, <2>2, <2>5 DEF Placed, Tal4Check, Goto, Shape
  <2>6. CASE Tal4Wait(s)
    BY <1>0, <1>1, <2>1, <2>2, <2>6 DEF Placed, Tal4Wait, Goto, Shape
  <2>7. CASE Stop(s)
    BY <1>0, <1>1, <2>1, <2>2, <2>7 DEF Placed, Stop, Shape
  <2>8. QED
    BY <2>3, <2>4, <2>5, <2>6, <2>7
<1>6. Limited(s)'
  <2>1. Limited(s) /\ Counted(buf[s]) /\ buf[s] \in BuffersOf(Records)
    BY SenderFacts
  <2>2. pc'[s] = "push" => pc[s] = "push" \/ Len(Queued(buf[s])) <= MaxAllowed
    <3>1. CASE Tal4Check(s)
      <4>1. ~OverLimit(buf[s]) => Len(Queued(buf[s])) <= MaxAllowed
        BY <2>1, LimitMeans
      <4>2. QED
        BY <1>0, <3>1, <4>1 DEF Shape, Tal4Check, Goto
    <3>2. CASE Tal4Wait(s)
      <4>1. QRec(buf[s]) < MaxAllowed => Len(Queued(buf[s])) <= MaxAllowed
        BY <2>1, QueuedType, DualBufferAssumption DEF Counted
      <4>2. QED
        BY <1>0, <3>2, <4>1 DEF Shape, Tal4Wait, Goto
    <3>3. CASE ~Tal4Check(s) /\ ~Tal4Wait(s)
      BY <1>0, <3>3 DEF Shape, CheckExit, Exit, Stop, Goto
    <3>4. QED
      BY <3>1, <3>2, <3>3
  <2>3. Batched' = Batched
    BY <1>1 DEF Batched
  <2>4. QED
    BY <1>1, <2>1, <2>2, <2>3 DEF Limited
<1>7. Lined(s)'
  BY <1>1, SenderFacts DEF Lined, recvVars
<1>8. Counted(buf'[s])
  BY <1>1, SenderFacts
<1>9. QED
  BY <1>1, <1>2, <1>3, <1>4, <1>5, <1>6, <1>7, <1>8, AtOneSender

(* A step that puts a new buffer in the place of the sender's.             *)
LEMMA BufferShape ==
  ASSUME Shape, NEW s \in Senders, NEW b \in BuffersOf(Records),
         buf' = [buf EXCEPT ![s] = b], NEW l \in SUBSET Records,
         lost' = [lost EXCEPT ![s] = l],
         pc' \in [Senders -> {"add", "wait", "push", "check", "heartbeat", "exit", "done"}],
         next' \in [Senders -> 1 .. Updates + 1], tries' \in [Senders -> 0 .. WaitLimit],
         UNCHANGED <<test, bExit, bExited, recvVars>>, resets' \in 0 .. MaxResets
  PROVE  /\ Shape' /\ buf'[s] = b /\ lost'[s] = l
         /\ \A r \in Senders \ {s} : buf'[r] = buf[r] /\ lost'[r] = lost[r]
<1>1. Senders' = Senders /\ Updates' = Updates /\ Records' = Records
  BY DEF Senders, Updates, Records
<1>2. /\ buf' \in [Senders -> BuffersOf(Records)] /\ buf'[s] = b
      /\ \A r \in Senders \ {s} : buf'[r] = buf[r]
  BY DEF Shape
<1>3. /\ lost' \in [Senders -> SUBSET Records] /\ lost'[s] = l
      /\ \A r \in Senders \ {s} : lost'[r] = lost[r]
  BY DEF Shape
<1>4. QED
  BY <1>1, <1>2, <1>3 DEF Shape, recvVars

(* After queueWait gave up the update is counted as lost.                  *)
LEMMA DropStep ==
  ASSUME IInv, NEW s \in Senders, Tal4Drop(s)
  PROVE  IInv'
<1>0. Shape /\ Senders' = Senders /\ Batched' = Batched /\ Updates' = Updates /\ test \in Tests
  BY DEF IInv, Shape, Tal4Drop, Senders, Batched, Updates
<1>1. /\ Placed(s) /\ Lined(s) /\ Limited(s) /\ Counted(buf[s])
      /\ buf[s] \in BuffersOf(Records) /\ delivered[s] \in Seq(Records)
      /\ lost[s] \in SUBSET Records /\ next[s] \in Nat \ {0}
  BY SenderFacts
<1>2. /\ next[s] <= Updates /\ ~Batched /\ Updates \in Nat /\ Records = 1 .. Updates
      /\ ~bExited[s] /\ buf[s].curr = <<>>
  BY <1>0, <1>1, TestFacts DEF Placed, Tal4Drop
<1>3. next[s] \in Records /\ next[s] + 1 \in 1 .. Updates + 1
  BY <1>1, <1>2
<1>4. /\ pc' = [pc EXCEPT ![s] = "check"] /\ next' = [next EXCEPT ![s] = next[s] + 1]
      /\ lost' = [lost EXCEPT ![s] = lost[s] \cup {next[s]}]
      /\ tries' = [tries EXCEPT ![s] = 0]
      /\ UNCHANGED <<test, buf, bExit, bExited, recvVars, resets>>
  BY DEF Tal4Drop, Goto
<1>5. buf' = [buf EXCEPT ![s] = buf[s]]
  BY <1>0, <1>4 DEF Shape
<1>6. /\ pc' \in [Senders -> {"add", "wait", "push", "check", "heartbeat", "exit", "done"}]
      /\ next' \in [Senders -> 1 .. Updates + 1] /\ tries' \in [Senders -> 0 .. WaitLimit]
      /\ resets' \in 0 .. MaxResets
  BY <1>0, <1>3, <1>4, DualBufferAssumption DEF Shape
<1>7. Shape' /\ lost'[s] = lost[s] \cup {next[s]} /\ \A r \in Senders \ {s} : lost'[r] = lost[r]
  <2>1. lost[s] \cup {next[s]} \in SUBSET Records
    BY <1>1, <1>3
  <2> DEFINE l == lost[s] \cup {next[s]}
  <2> DEFINE b == buf[s]
  <2>2. l \in SUBSET Records /\ lost' = [lost EXCEPT ![s] = l]
    BY <1>4, <2>1
  <2>3. b \in BuffersOf(Records) /\ buf' = [buf EXCEPT ![s] = b]
    BY <1>1, <1>5
  <2>4. UNCHANGED <<test, bExit, bExited, recvVars>>
    BY <1>4
  <2> HIDE DEF l, b
  <2>5. Shape' /\ lost'[s] = l /\ \A r \in Senders \ {s} : lost'[r] = lost[r]
    BY <1>0, <1>6, <2>2, <2>3, <2>4, BufferShape
  <2>6. QED
    BY <2>5 DEF l
<1>8. /\ pc'[s] = "check" /\ next'[s] = next[s] + 1
      /\ \A r \in Senders \ {s} : pc'[r] = pc[r] /\ next'[r] = next[r]
  BY <1>0, <1>4 DEF Shape
<1>9. Placed(s)' /\ Limited(s)' /\ Counted(buf'[s])
  BY <1>0, <1>1, <1>2, <1>4, <1>8 DEF Placed, Limited
<1>10. Lined(s)'
  <2>1. InLine(delivered[s], buf[s], lost[s] \cup {next[s]}, next[s] + 1)
    BY <1>0, <1>1, TestFacts, LoseLine DEF Lined
  <2>2. QED
    BY <1>4, <1>7, <1>8, <2>1 DEF Lined, recvVars
<1>11. QED
  BY <1>4, <1>7, <1>8, <1>9, <1>10, AtOneSender

(* Tal4 queues the update by itself, or without memory loses it.           *)
LEMMA PushStep ==
  ASSUME IInv, NEW s \in Senders, Tal4Push(s)
  PROVE  IInv'
<1>0. Shape /\ Senders' = Senders /\ Batched' = Batched /\ Updates' = Updates /\ test \in Tests
  BY DEF IInv, Shape, Tal4Push, Senders, Batched, Updates
<1>1. /\ Placed(s) /\ Lined(s) /\ Limited(s) /\ Counted(buf[s])
      /\ buf[s] \in BuffersOf(Records) /\ delivered[s] \in Seq(Records)
      /\ lost[s] \in SUBSET Records /\ next[s] \in Nat \ {0}
  BY SenderFacts
<1>2. /\ next[s] <= Updates /\ ~Batched /\ Updates \in Nat /\ Records = 1 .. Updates
      /\ Records \in SUBSET Nat /\ buf[s].curr = <<>> /\ Len(Queued(buf[s])) <= MaxAllowed
      /\ ~bExited[s]
  BY <1>0, <1>1, TestFacts DEF Placed, Limited, Tal4Push
<1>3. next[s] \in Records /\ next[s] + 1 \in 1 .. Updates + 1
  BY <1>1, <1>2
<1>4. /\ pc' = [pc EXCEPT ![s] = "check"] /\ next' = [next EXCEPT ![s] = next[s] + 1]
      /\ UNCHANGED <<test, tries, bExit, bExited, recvVars, resets>>
  BY DEF Tal4Push, Goto
<1>5. /\ pc' \in [Senders -> {"add", "wait", "push", "check", "heartbeat", "exit", "done"}]
      /\ next' \in [Senders -> 1 .. Updates + 1] /\ tries' \in [Senders -> 0 .. WaitLimit]
      /\ resets' \in 0 .. MaxResets
  BY <1>0, <1>3, <1>4 DEF Shape
<1>6. /\ pc'[s] = "check" /\ next'[s] = next[s] + 1
      /\ \A r \in Senders \ {s} : pc'[r] = pc[r] /\ next'[r] = next[r]
  BY <1>0, <1>4 DEF Shape
<1>7. CASE buf' = [buf EXCEPT ![s] = Enqueue(buf[s], <<next[s]>>)] /\ lost' = lost
  <2> DEFINE b == Enqueue(buf[s], <<next[s]>>)
  <2>1. <<next[s]>> \in Seq(Records) /\ <<next[s]>> # <<>> /\ Len(<<next[s]>>) = 1
    BY <1>3
  <2>2. 1 <= Block /\ MaxAllowed \in Nat
    BY DualBufferAssumption
  <2>3. /\ b \in BuffersOf(Records) /\ Counted(b) /\ b.curr = <<>>
        /\ Queued(b) = Queued(buf[s]) \o <<next[s]>>
        /\ Len(Queued(b)) = Len(Queued(buf[s])) + 1
    <3> DEFINE a == buf[s]
    <3> DEFINE c == <<next[s]>>
    <3>1. /\ a \in BuffersOf(Records) /\ Counted(a) /\ c \in Seq(Records) /\ c # <<>>
          /\ Len(c) <= Block /\ Len(Queued(a)) <= MaxAllowed /\ b = Enqueue(a, c)
      BY <1>1, <1>2, <2>1, <2>2
    <3> HIDE DEF a, b, c
    <3>2. /\ b \in BuffersOf(Records) /\ Counted(b) /\ b.curr = a.curr
          /\ Queued(b) = Queued(a) \o c /\ Len(Queued(b)) = Len(Queued(a)) + Len(c)
      BY <3>1, EnqueueCounts
    <3>3. QED
      BY <1>2, <2>1, <3>2 DEF a, c
  <2> HIDE DEF b
  <2>4. lost' = [lost EXCEPT ![s] = lost[s]] /\ buf' = [buf EXCEPT ![s] = b]
    BY <1>0, <1>7 DEF Shape, b
  <2>5. /\ Shape' /\ buf'[s] = b /\ lost'[s] = lost[s]
        /\ \A r \in Senders \ {s} : buf'[r] = buf[r] /\ lost'[r] = lost[r]
    BY <1>0, <1>1, <1>4, <1>5, <2>3, <2>4, BufferShape
  <2>6. Placed(s)'
    BY <1>0, <1>1, <1>2, <1>4, <1>6, <2>3, <2>5, EmptySeq DEF Placed
  <2>7. Limited(s)'
    <3>1. Len(Queued(buf[s])) \in Nat
      BY <1>1, QueuedType
    <3>2. Len(Queued(b)) <= MaxAllowed + 1
      BY <1>2, <2>2, <2>3, <3>1
    <3>3. QED
      BY <1>0, <1>2, <1>6, <2>5, <3>2 DEF Limited
  <2>8. Lined(s)'
    <3>1. InLine(delivered[s], b, lost[s], next[s] + 1)
      BY <1>1, <1>2, <2>3, PushLine DEF Lined
    <3>2. QED
      BY <1>4, <1>6, <2>5, <3>1 DEF Lined, recvVars
  <2>9. QED
    BY <1>2, <1>4, <1>6, <2>3, <2>5, <2>6, <2>7, <2>8, AtOneSender
<1>8. CASE lost' = [lost EXCEPT ![s] = lost[s] \cup {next[s]}] /\ buf' = buf
  <2>1. buf' = [buf EXCEPT ![s] = buf[s]]
    BY <1>0, <1>8 DEF Shape
  <2>2. Shape' /\ lost'[s] = lost[s] \cup {next[s]} /\ \A r \in Senders \ {s} : lost'[r] = lost[r]
    <3>1. lost[s] \cup {next[s]} \in SUBSET Records
      BY <1>1, <1>3
    <3> DEFINE l == lost[s] \cup {next[s]}
    <3> DEFINE b == buf[s]
    <3>2. l \in SUBSET Records /\ lost' = [lost EXCEPT ![s] = l]
      BY <1>8, <3>1
    <3>3. b \in BuffersOf(Records) /\ buf' = [buf EXCEPT ![s] = b]
      BY <1>1, <2>1
    <3>4. UNCHANGED <<test, bExit, bExited, recvVars>>
      BY <1>4
    <3> HIDE DEF l, b
    <3>5. Shape' /\ lost'[s] = l /\ \A r \in Senders \ {s} : lost'[r] = lost[r]
      BY <1>0, <1>5, <3>2, <3>3, <3>4, BufferShape
    <3>6. QED
      BY <3>5 DEF l
  <2>3. Placed(s)' /\ Limited(s)' /\ Counted(buf'[s])
    BY <1>0, <1>1, <1>2, <1>4, <1>6, <1>8 DEF Placed, Limited
  <2>4. Lined(s)'
    <3>1. InLine(delivered[s], buf[s], lost[s] \cup {next[s]}, next[s] + 1)
      BY <1>1, <1>2, LoseLine DEF Lined
    <3>2. QED
      BY <1>4, <1>6, <1>8, <2>2, <3>1 DEF Lined, recvVars
  <2>5. QED
    BY <1>4, <1>6, <1>8, <2>2, <2>3, <2>4, AtOneSender
<1>9. QED
  BY <1>7, <1>8 DEF Tal4Push

(* Flushing the block of a sender, from any place.                         *)
LEMMA FlushFacts ==
  ASSUME IInv, NEW s \in Senders, buf[s].curr # <<>>,
         NEW b, b = Add2Queue(buf[s])
  PROVE  /\ b \in BuffersOf(Records) /\ Counted(b) /\ b.curr = <<>> /\ b.mem \in BOOLEAN
         /\ Len(Queued(b)) <= MaxAllowed + Block /\ Batched
         /\ lost[s] \cup Dropped(buf[s]) \in SUBSET Records
         /\ InLine(delivered[s], b, lost[s] \cup Dropped(buf[s]), next[s])
<1>1. /\ Placed(s) /\ Lined(s) /\ Limited(s) /\ Counted(buf[s])
      /\ buf[s] \in BuffersOf(Records) /\ delivered[s] \in Seq(Records)
      /\ buf[s].curr \in Seq(Records) /\ lost[s] \in SUBSET Records /\ test \in Tests
  BY SenderFacts
<1>2. Batched /\ Len(buf[s].curr) <= Block
  BY <1>1, TestFacts DEF Placed
<1>3. /\ b \in BuffersOf(Records) /\ Counted(b) /\ b.curr = <<>>
      /\ \/ OverLimit(buf[s]) /\ Queued(b) = Queued(buf[s])
         \/ /\ ~OverLimit(buf[s]) /\ Queued(b) = Queued(buf[s]) \o buf[s].curr
            /\ Len(Queued(b)) <= MaxAllowed + Block
  <2> DEFINE a == buf[s]
  <2>1. a \in BuffersOf(Records) /\ Counted(a) /\ a.curr # <<>> /\ Len(a.curr) <= Block
        /\ b = Add2Queue(a)
    BY <1>1, <1>2
  <2> HIDE DEF a
  <2>2. /\ b \in BuffersOf(Records) /\ Counted(b) /\ b.curr = <<>>
        /\ \/ OverLimit(a) /\ Queued(b) = Queued(a)
           \/ /\ ~OverLimit(a) /\ Queued(b) = Queued(a) \o a.curr
              /\ Len(Queued(b)) <= MaxAllowed + Block
    BY <2>1, Add2QueueCounts
  <2>3. QED
    BY <2>2 DEF a
<1>4. Len(Queued(b)) <= MaxAllowed + Block
  BY <1>1, <1>2, <1>3 DEF Limited
<1>5. Dropped(buf[s]) \in SUBSET Records
  <2>1. ToSet(buf[s].curr) \subseteq Records
    <3>1. DOMAIN buf[s].curr = 1 .. Len(buf[s].curr)
      BY <1>1, LenProperties
    <3>2. \A k \in 1 .. Len(buf[s].curr) : buf[s].curr[k] \in Records
      BY <1>1, ElementOfSeq
    <3>3. QED
      BY <3>1, <3>2 DEF ToSet
  <2>2. QED
    BY <2>1 DEF Dropped
<1>6. InLine(delivered[s], b, lost[s] \cup Dropped(buf[s]), next[s])
  <2>1. Records \in SUBSET Nat
    BY <1>1, TestFacts
  <2> DEFINE a == buf[s]
  <2> DEFINE d == delivered[s]
  <2> DEFINE l == lost[s]
  <2>2. /\ a \in BuffersOf(Records) /\ d \in Seq(Records) /\ InLine(d, a, l, next[s])
        /\ \/ OverLimit(a) /\ Queued(b) = Queued(a)
           \/ ~OverLimit(a) /\ Queued(b) = Queued(a) \o a.curr
    BY <1>1, <1>3 DEF Lined
  <2> HIDE DEF a, d, l
  <2>3. InLine(d, b, l \cup Dropped(a), next[s])
    BY <1>3, <2>1, <2>2, FlushLine
  <2>4. QED
    BY <2>3 DEF a, d, l
<1>7. b.mem \in BOOLEAN
  BY <1>3 DEF BuffersOf
<1>8. QED
  BY <1>1, <1>2, <1>3, <1>4, <1>5, <1>6, <1>7

(* The last heartbeat flushes the block or leaves it.                      *)
LEMMA HeartbeatStep ==
  ASSUME IInv, NEW s \in Senders, Heartbeat(s)
  PROVE  IInv'
<1>0. Shape /\ Senders' = Senders /\ Batched' = Batched /\ Updates' = Updates /\ test \in Tests
  BY DEF IInv, Shape, Heartbeat, Senders, Batched, Updates
<1>1. /\ Placed(s) /\ Lined(s) /\ Limited(s) /\ Counted(buf[s])
      /\ buf[s] \in BuffersOf(Records) /\ lost[s] \in SUBSET Records
  BY SenderFacts
<1>2. /\ pc' = [pc EXCEPT ![s] = "exit"] /\ pc[s] = "heartbeat"
      /\ UNCHANGED <<test, next, tries, bExit, bExited, recvVars, resets>>
  BY DEF Heartbeat, Goto
<1>3. /\ pc' \in [Senders -> {"add", "wait", "push", "check", "heartbeat", "exit", "done"}]
      /\ next' \in [Senders -> 1 .. Updates + 1] /\ tries' \in [Senders -> 0 .. WaitLimit]
      /\ resets' \in 0 .. MaxResets /\ pc'[s] = "exit"
      /\ \A r \in Senders \ {s} : pc'[r] = pc[r]
  BY <1>0, <1>2 DEF Shape
<1>4. Batched /\ ~bExited[s]
  BY <1>1, <1>2 DEF Placed
<1>5. ASSUME NEW b \in BuffersOf(Records), buf' = [buf EXCEPT ![s] = b], Counted(b),
             NEW l \in SUBSET Records, lost' = [lost EXCEPT ![s] = l],
             Len(b.curr) <= Block, Len(Queued(b)) <= MaxAllowed + Block,
             InLine(delivered[s], b, l, next[s])
      PROVE  IInv'
  <2>1. /\ Shape' /\ buf'[s] = b /\ lost'[s] = l
        /\ \A r \in Senders \ {s} : buf'[r] = buf[r] /\ lost'[r] = lost[r]
    BY <1>0, <1>2, <1>3, <1>5, BufferShape
  <2>2. Placed(s)' /\ Limited(s)' /\ Lined(s)' /\ Counted(buf'[s])
    BY <1>0, <1>2, <1>3, <1>4, <1>5, <2>1 DEF Placed, Limited, Lined, recvVars
  <2>3. QED
    BY <1>2, <1>3, <1>4, <2>1, <2>2, AtOneSender
<1>6. CASE buf[s].curr # <<>> /\ buf' = [buf EXCEPT ![s] = Add2Queue(buf[s])]
           /\ lost' = [lost EXCEPT ![s] = lost[s] \cup Dropped(buf[s])]
  <2> DEFINE b == Add2Queue(buf[s])
  <2> DEFINE l == lost[s] \cup Dropped(buf[s])
  <2>1. b = Add2Queue(buf[s])
    OBVIOUS
  <2> HIDE DEF b
  <2>2. /\ b \in BuffersOf(Records) /\ Counted(b) /\ b.curr = <<>>
        /\ Len(Queued(b)) <= MaxAllowed + Block /\ l \in SUBSET Records
        /\ InLine(delivered[s], b, l, next[s])
    BY <1>6, <2>1, FlushFacts
  <2>3. Len(b.curr) <= Block
    BY <2>2, EmptySeq, DualBufferAssumption
  <2>4. buf' = [buf EXCEPT ![s] = b] /\ lost' = [lost EXCEPT ![s] = l]
    BY <1>6, <2>1
  <2> HIDE DEF l
  <2>5. QED
    BY <1>5, <2>2, <2>3, <2>4
<1>7. CASE UNCHANGED <<buf, lost>>
  <2>1. buf' = [buf EXCEPT ![s] = buf[s]] /\ lost' = [lost EXCEPT ![s] = lost[s]]
    BY <1>0, <1>7 DEF Shape
  <2>2. /\ Len(buf[s].curr) <= Block /\ Len(Queued(buf[s])) <= MaxAllowed + Block
        /\ InLine(delivered[s], buf[s], lost[s], next[s])
    BY <1>1, <1>4 DEF Placed, Limited, Lined
  <2>3. QED
    BY <1>1, <1>5, <2>1, <2>2
<1>8. QED
  BY <1>6, <1>7 DEF Heartbeat

(* The batching sender adds an update: after the flush that may come first *)
(* the update goes to the block, or without memory for one to the lost.    *)
LEMMA AddStep ==
  ASSUME IInv, NEW s \in Senders, AddDataSqf(s)
  PROVE  IInv'
<1>0. Shape /\ Senders' = Senders /\ Batched' = Batched /\ Updates' = Updates /\ test \in Tests
  BY DEF IInv, Shape, AddDataSqf, Senders, Batched, Updates
<1>1. /\ Placed(s) /\ Lined(s) /\ Limited(s) /\ Counted(buf[s])
      /\ buf[s] \in BuffersOf(Records) /\ buf[s].curr \in Seq(Records)
      /\ Len(buf[s].curr) \in Nat /\ delivered[s] \in Seq(Records)
      /\ lost[s] \in SUBSET Records /\ next[s] \in Nat \ {0}
  BY SenderFacts
<1>2. /\ next[s] <= Updates /\ Batched /\ Updates \in Nat /\ Records = 1 .. Updates
      /\ Records \in SUBSET Nat /\ ~bExited[s] /\ Len(buf[s].curr) <= Block
  BY <1>0, <1>1, TestFacts DEF Placed, AddDataSqf
<1>3. next[s] \in Records /\ next[s] + 1 \in 1 .. Updates + 1
  BY <1>1, <1>2
<1>4. /\ pc' = [pc EXCEPT ![s] = "check"] /\ next' = [next EXCEPT ![s] = next[s] + 1]
      /\ UNCHANGED <<test, tries, bExit, bExited, recvVars, resets>>
  BY DEF AddDataSqf, Goto
<1>5. /\ pc' \in [Senders -> {"add", "wait", "push", "check", "heartbeat", "exit", "done"}]
      /\ next' \in [Senders -> 1 .. Updates + 1] /\ tries' \in [Senders -> 0 .. WaitLimit]
      /\ resets' \in 0 .. MaxResets /\ pc'[s] = "check" /\ next'[s] = next[s] + 1
      /\ \A r \in Senders \ {s} : pc'[r] = pc[r] /\ next'[r] = next[r]
  BY <1>0, <1>3, <1>4 DEF Shape
<1>6. Block \in Nat /\ 1 <= Block
  BY DualBufferAssumption
<1>7. PICK due \in BOOLEAN, ok \in Alloc :
        LET flush == Len(buf[s].curr) = Block \/ (due /\ buf[s].curr # <<>>)
            b == IF flush THEN Add2Queue(buf[s]) ELSE buf[s]
            kept == b.mem \/ ok
        IN /\ buf' = [buf EXCEPT ![s] =
                        IF kept
                          THEN [b EXCEPT !.mem = TRUE, !.curr = Append(b.curr, next[s])]
                          ELSE b]
           /\ lost' = [lost EXCEPT ![s] = (lost[s]
                         \cup (IF flush THEN Dropped(buf[s]) ELSE {}))
                         \cup (IF kept THEN {} ELSE {next[s]})]
  BY DEF AddDataSqf
<1> DEFINE flush == Len(buf[s].curr) = Block \/ (due /\ buf[s].curr # <<>>)
<1> DEFINE b == IF flush THEN Add2Queue(buf[s]) ELSE buf[s]
<1> DEFINE m == lost[s] \cup (IF flush THEN Dropped(buf[s]) ELSE {})
<1> DEFINE kept == b.mem \/ ok
<1> DEFINE c == [b EXCEPT !.mem = TRUE, !.curr = Append(b.curr, next[s])]
<1> DEFINE e == IF kept THEN c ELSE b
<1> DEFINE l == m \cup (IF kept THEN {} ELSE {next[s]})
<1>8. buf' = [buf EXCEPT ![s] = e] /\ lost' = [lost EXCEPT ![s] = l]
  BY <1>7
<1>9. /\ b \in BuffersOf(Records) /\ Counted(b) /\ Len(b.curr) + 1 <= Block
      /\ Len(Queued(b)) <= MaxAllowed + Block /\ m \in SUBSET Records
      /\ InLine(delivered[s], b, m, next[s])
  <2>1. CASE flush
    <3>1. buf[s].curr # <<>>
      BY <1>1, <1>6, <2>1, EmptySeq
    <3>2. b = Add2Queue(buf[s]) /\ m = lost[s] \cup Dropped(buf[s])
      BY <2>1
    <3> HIDE DEF b, m, flush
    <3>3. /\ b \in BuffersOf(Records) /\ Counted(b) /\ b.curr = <<>>
          /\ Len(Queued(b)) <= MaxAllowed + Block /\ m \in SUBSET Records
          /\ InLine(delivered[s], b, m, next[s])
      BY <3>1, <3>2, FlushFacts
    <3>4. QED
      BY <1>6, <3>3, EmptySeq
  <2>2. CASE ~flush
    <3>1. b = buf[s] /\ m = lost[s] /\ Len(buf[s].curr) # Block
      BY <2>2
    <3> HIDE DEF b, m, flush
    <3>2. Len(b.curr) + 1 <= Block
      BY <1>1, <1>2, <1>6, <3>1
    <3>3. Len(Queued(b)) <= MaxAllowed + Block /\ InLine(delivered[s], b, m, next[s])
      BY <1>1, <1>2, <3>1 DEF Limited, Lined
    <3>4. QED
      BY <1>1, <3>1, <3>2, <3>3
  <2>3. QED
    BY <2>1, <2>2
<1> HIDE DEF b, m, flush
<1>10. /\ e \in BuffersOf(Records) /\ Counted(e) /\ Len(e.curr) <= Block
       /\ Len(Queued(e)) <= MaxAllowed + Block /\ l \in SUBSET Records
       /\ InLine(delivered[s], e, l, next[s] + 1)
  <2>1. b.curr \in Seq(Records) /\ Len(b.curr) \in Nat
    BY <1>9, LenProperties DEF BuffersOf
  <2>2. CASE kept
    <3>1. e = c /\ l = m
      BY <2>2
    <3>2. Append(b.curr, next[s]) \in Seq(Records) /\ Len(Append(b.curr, next[s])) = Len(b.curr) + 1
      BY <1>3, <2>1, AppendProperties
    <3>3. /\ c \in BuffersOf(Records) /\ c.curr = Append(b.curr, next[s]) /\ SameQueue(b, c)
      BY <1>9, <3>2 DEF BuffersOf, SameQueue
    <3> HIDE DEF c, e, l, kept
    <3>4. Counted(c) /\ Queued(c) = Queued(b)
      BY <1>9, <3>3, BlockApart
    <3>5. InLine(delivered[s], c, m, next[s] + 1)
      BY <1>1, <1>2, <1>9, <3>3, <3>4, AddLine
    <3>6. QED
      BY <1>9, <3>1, <3>2, <3>3, <3>4, <3>5
  <2>3. CASE ~kept
    <3>1. e = b /\ l = m \cup {next[s]}
      BY <2>3
    <3> HIDE DEF c, e, kept
    <3>2. InLine(delivered[s], b, m \cup {next[s]}, next[s] + 1)
      BY <1>1, <1>2, <1>9, LoseLine
    <3> HIDE DEF l
    <3>3. Len(b.curr) <= Block
      BY <1>6, <1>9, <2>1
    <3>4. l \in SUBSET Records
      BY <1>3, <1>9, <3>1
    <3>5. QED
      BY <1>9, <3>1, <3>2, <3>3, <3>4
  <2>4. QED
    BY <2>2, <2>3
<1> HIDE DEF e, l, c, kept
<1>11. /\ Shape' /\ buf'[s] = e /\ lost'[s] = l
       /\ \A r \in Senders \ {s} : buf'[r] = buf[r] /\ lost'[r] = lost[r]
  <2>1. UNCHANGED <<test, bExit, bExited, recvVars>>
    BY <1>4
  <2>2. QED
    BY <1>0, <1>5, <1>8, <1>10, <2>1, BufferShape
<1>12. Placed(s)' /\ Limited(s)' /\ Lined(s)' /\ Counted(buf'[s])
  BY <1>0, <1>2, <1>4, <1>5, <1>10, <1>11 DEF Placed, Limited, Lined, recvVars
<1>13. QED
  BY <1>2, <1>4, <1>5, <1>11, <1>12, AtOneSender

(* clearStats resets the totals of a buffer in which nothing is counted.   *)
LEMMA ClearStatsStep ==
  ASSUME IInv, NEW s \in Senders, ClearStats(s)
  PROVE  IInv'
<1>0. Shape /\ Senders' = Senders /\ Batched' = Batched /\ Updates' = Updates /\ test \in Tests
  BY DEF IInv, Shape, ClearStats, sendVars, Senders, Batched, Updates
<1>1. /\ Placed(s) /\ Lined(s) /\ Limited(s) /\ Counted(buf[s])
      /\ buf[s] \in BuffersOf(Records) /\ lost[s] \in SUBSET Records
  BY SenderFacts
<1>2. /\ buf' = [buf EXCEPT ![s] = ClearTotals(buf[s])] /\ resets < MaxResets
      /\ resets' = resets + 1
      /\ UNCHANGED <<test, pc, next, tries, bExit, bExited, recvVars, lost>>
  BY DEF ClearStats, sendVars
<1> DEFINE b == ClearTotals(buf[s])
<1>3. b = ClearTotals(buf[s])
  OBVIOUS
<1> HIDE DEF b
<1>4. /\ b \in BuffersOf(Records) /\ Counted(b) /\ b.curr = buf[s].curr
      /\ Queued(b) = Queued(buf[s]) /\ (IsEmpty(buf[s]) => IsEmpty(b))
  BY <1>1, <1>3, ClearTotalsCounts
<1>5. /\ pc' \in [Senders -> {"add", "wait", "push", "check", "heartbeat", "exit", "done"}]
      /\ next' \in [Senders -> 1 .. Updates + 1] /\ tries' \in [Senders -> 0 .. WaitLimit]
      /\ resets' \in 0 .. MaxResets
  BY <1>0, <1>2, DualBufferAssumption DEF Shape
<1>6. /\ Shape' /\ buf'[s] = b
      /\ \A r \in Senders \ {s} : buf'[r] = buf[r]
  <2>1. lost' = [lost EXCEPT ![s] = lost[s]] /\ buf' = [buf EXCEPT ![s] = b]
    BY <1>0, <1>2, <1>3 DEF Shape
  <2>2. UNCHANGED <<test, bExit, bExited, recvVars>>
    BY <1>2
  <2>3. QED
    BY <1>0, <1>1, <1>4, <1>5, <2>1, <2>2, BufferShape
<1>7. Placed(s)' /\ Limited(s)' /\ Counted(buf'[s])
  BY <1>0, <1>1, <1>2, <1>4, <1>6 DEF Placed, Limited
<1>8. Lined(s)'
  <2>1. InLine(delivered[s], b, lost[s], next[s])
    BY <1>1, <1>4, SameLine DEF Lined
  <2>2. QED
    BY <1>2, <1>6, <2>1 DEF Lined, recvVars
<1>9. QED
  BY <1>2, <1>4, <1>6, <1>7, <1>8, AtOneSender
-----------------------------------------------------------------------------
(* The receiver keeps the invariant. *)

(* Going on with the pass: what is counted as finished is finished.        *)
LEMMA PassOnFacts ==
  ASSUME Shape, Passed, test' = test, NEW done \in {rdone, rdone + 1}, PassOn(done),
         done = rdone + 1 => bExited'[rs] /\ IsEmpty(buf'[rs]),
         \A s \in Senders : Finished(s) => Finished(s)'
  PROVE  /\ Passed' /\ rs' \in Senders /\ rdone' \in 0 .. test.senders
         /\ rpc' \in {"peek", "exited"}
<1>1. test.senders \in Nat \ {0} /\ Senders = 1 .. test.senders
  BY TestFacts DEF Shape
<1>2. Cardinality(Senders) = test.senders
  <2>1. Cardinality(1 .. test.senders) = test.senders
    <3>1. \A a, b \in Int : Cardinality(a .. b) = IF a > b THEN 0 ELSE b - a + 1
      BY FS_Interval
    <3>2. QED
      BY <1>1, <3>1
  <2>2. QED
    BY <1>1, <2>1
<1>3. /\ rs \in 1 .. test.senders /\ rdone \in 0 .. test.senders /\ rdone <= rs - 1
      /\ rdone = rs - 1 => \A s \in 1 .. rs - 1 : Finished(s)
  BY <1>1 DEF Shape, Passed
<1>4. done <= rs /\ done \in Nat
  BY <1>1, <1>3
<1>5. done = rs => \A s \in 1 .. rs : Finished(s)'
  <2>1. ASSUME done = rs, NEW s \in 1 .. rs PROVE Finished(s)'
    <3>1. rdone = rs - 1 /\ done = rdone + 1 /\ s \in Senders /\ (s = rs \/ s \in 1 .. rs - 1)
      BY <1>1, <1>3, <2>1
    <3>2. CASE s = rs
      BY <3>1, <3>2 DEF Finished
    <3>3. CASE s \in 1 .. rs - 1
      BY <1>3, <3>1, <3>3
    <3>4. QED
      BY <3>1, <3>2, <3>3
  <2>2. QED
    BY <2>1
<1>6. Senders' = Senders
  BY DEF Senders
<1>7. CASE rs < test.senders
  <2>1. rs' = rs + 1 /\ rdone' = done /\ rpc' = "peek"
    BY <1>2, <1>7 DEF PassOn
  <2>2. rs' - 1 = rs /\ rs' \in 1 .. test.senders /\ rdone' \in 0 .. test.senders
    BY <1>1, <1>3, <1>4, <1>7, <2>1
  <2>3. QED
    BY <1>1, <1>4, <1>5, <2>1, <2>2 DEF Passed
<1>8. CASE ~(rs < test.senders)
  <2>1. rs' = 1 /\ rdone' = 0 /\ rpc' = IF done = test.senders THEN "exited" ELSE "peek"
    BY <1>2, <1>8 DEF PassOn
  <2>2. rs = test.senders
    BY <1>1, <1>3, <1>8
  <2>3. rpc' = "exited" => \A s \in Senders : Finished(s)'
    BY <1>1, <1>5, <2>1, <2>2
  <2>4. 1 \in Senders /\ 0 \in 0 .. test.senders /\ rs' - 1 = 0 /\ \A s : s \notin 1 .. 0
    BY <1>1, <2>1
  <2>5. QED
    BY <1>6, <2>1, <2>3, <2>4 DEF Passed
<1>9. QED
  BY <1>7, <1>8

(* The look before the lock misses nothing: with equal counters or a zero  *)
(* length nothing is queued.                                               *)
LEMMA PeekStep ==
  ASSUME IInv, Peek
  PROVE  IInv'
<1>1. /\ UNCHANGED <<test, buf, pc, next, tries, bExit, bExited, rs, rdone, retry,
                     delivered, lost, resets>>
      /\ rpc' = IF buf[rs].in = buf[rs].out \/ buf[rs].qsize = 0 THEN "finished?" ELSE "grab"
      /\ Shape /\ Senders' = Senders /\ Batched' = Batched /\ Updates' = Updates
      /\ Records' = Records
  BY DEF IInv, Peek, sendVars, Senders, Batched, Updates, Records
<1>2. Shape'
  BY <1>1 DEF Shape
<1>3. Passed'
  BY <1>1 DEF IInv, Passed, Finished
<1>4. Retried'
  <2>1. rs \in Senders /\ buf[rs] \in BuffersOf(Records) /\ Counted(buf[rs])
    BY <1>1, SenderFacts DEF Shape
  <2>2. buf[rs].in = buf[rs].out \/ buf[rs].qsize = 0 => IsEmpty(buf[rs])
    BY <2>1, EmptyMeans
  <2>3. QED
    BY <1>1, <2>2 DEF IInv, Retried
<1>5. ASSUME NEW s \in Senders PROVE Counted(buf'[s]) /\ Placed(s)' /\ Limited(s)' /\ Lined(s)'
  BY <1>1 DEF IInv, Placed, Limited, Lined
<1>6. QED
  BY <1>1, <1>2, <1>3, <1>4, <1>5 DEF IInv

(* The receiver takes the whole queue, or finds it empty after all.        *)
LEMMA ProcessStep ==
  ASSUME IInv, ProcessDataAll
  PROVE  IInv'
<1>1. /\ UNCHANGED <<test, pc, next, tries, bExit, bExited, retry, lost, resets>>
      /\ Shape /\ Senders' = Senders /\ Batched' = Batched /\ Updates' = Updates
      /\ Records' = Records /\ rs \in Senders /\ test \in Tests
  BY DEF IInv, Shape, ProcessDataAll, sendVars, Senders, Batched, Updates, Records
<1>2. /\ buf[rs] \in BuffersOf(Records) /\ Counted(buf[rs]) /\ Limited(rs) /\ Placed(rs)
      /\ Lined(rs) /\ delivered[rs] \in Seq(Records)
  BY <1>1, SenderFacts
<1>3. CASE buf[rs].qsize = 0
  <2>1. rpc' = "finished?" /\ UNCHANGED <<buf, rs, rdone, delivered>>
    BY <1>3 DEF ProcessDataAll
  <2>2. Shape'
    BY <1>1, <2>1 DEF Shape
  <2>3. Passed'
    BY <1>1, <2>1 DEF IInv, Passed, Finished
  <2>4. Retried'
    BY <1>1, <1>2, <1>3, <2>1, EmptyMeans DEF IInv, Retried
  <2>5. ASSUME NEW s \in Senders PROVE Counted(buf'[s]) /\ Placed(s)' /\ Limited(s)' /\ Lined(s)'
    BY <1>1, <2>1 DEF IInv, Placed, Limited, Lined
  <2>6. QED
    BY <1>1, <2>2, <2>3, <2>4, <2>5 DEF IInv
<1>4. CASE buf[rs].qsize # 0
  <2> DEFINE b == Grab(buf[rs])
  <2> DEFINE d == delivered[rs] \o Queued(buf[rs])
  <2>1. /\ buf' = [buf EXCEPT ![rs] = b] /\ delivered' = [delivered EXCEPT ![rs] = d]
        /\ PassOn(rdone) /\ b = Grab(buf[rs])
    BY <1>4 DEF ProcessDataAll, Queued
  <2> HIDE DEF b
  <2>2. /\ b \in BuffersOf(Records) /\ Counted(b) /\ b.curr = buf[rs].curr
        /\ IsEmpty(b) /\ Queued(b) = <<>>
    BY <1>2, <2>1, GrabCounts
  <2>3. d \in Seq(Records)
    BY <1>2, QueuedType, ConcatProperties
  <2>4. InLine(d, b, lost[rs], next[rs])
    BY <1>1, <1>2, <2>2, TestFacts, GrabLine DEF Lined
  <2> HIDE DEF d
  <2>5. /\ buf' \in [Senders -> BuffersOf(Records)] /\ buf'[rs] = b
        /\ \A s \in Senders \ {rs} : buf'[s] = buf[s]
        /\ delivered' \in [Senders -> Seq(Records)] /\ delivered'[rs] = d
        /\ \A s \in Senders \ {rs} : delivered'[s] = delivered[s]
    BY <1>1, <2>1, <2>2, <2>3 DEF Shape
  <2>6. \A s \in Senders : Finished(s) => Finished(s)'
    BY <1>1, <2>2, <2>5 DEF Finished
  <2>7. /\ Passed' /\ rs' \in Senders /\ rdone' \in 0 .. test.senders
        /\ rpc' \in {"peek", "exited"}
    <3>1. rdone \in Nat /\ rdone # rdone + 1
      BY <1>1, TestFacts DEF Shape
    <3>2. Passed
      BY DEF IInv
    <3>3. QED
      BY <1>1, <2>1, <2>6, <3>1, <3>2, PassOnFacts
  <2>8. Shape'
    BY <1>1, <2>5, <2>7 DEF Shape
  <2>9. Retried'
    BY <1>1, <2>7 DEF IInv, Retried
  <2>10. ASSUME NEW s \in Senders
         PROVE  Counted(buf'[s]) /\ Placed(s)' /\ Limited(s)' /\ Lined(s)'
    <3>1. CASE s = rs
      <4>1. Len(Queued(b)) <= Len(Queued(buf[rs])) /\ Len(Queued(buf[rs])) \in Nat
        BY <1>2, <2>2, QueuedType, EmptySeq
      <4>2. Limited(s)'
        <5>1. Len(Queued(b)) = 0
          BY <2>2, EmptySeq
        <5>2. QED
          BY <1>1, <2>5, <3>1, <5>1, DualBufferAssumption, TestFacts DEF Limited
      <4>3. QED
        BY <1>1, <1>2, <2>2, <2>4, <2>5, <3>1, <4>2 DEF Placed, Lined
    <3>2. CASE s # rs
      BY <1>1, <2>5, <3>2 DEF IInv, Placed, Limited, Lined
    <3>3. QED
      BY <3>1, <3>2
  <2>11. QED
    BY <1>1, <2>7, <2>8, <2>9, <2>10 DEF IInv
<1>5. QED
  BY <1>3, <1>4

(* A sender that is done is retried once at most, so clear() is not called.*)
LEMMA CheckFinishedStep ==
  ASSUME IInv, CheckFinished
  PROVE  IInv'
<1>1. /\ UNCHANGED <<test, pc, next, tries, bExit, bExited, delivered, resets>>
      /\ Shape /\ Senders' = Senders /\ Batched' = Batched /\ Updates' = Updates
      /\ Records' = Records /\ rs \in Senders /\ test \in Tests /\ retry[rs] \in {0, 1}
      /\ rpc = "finished?" /\ rdone \in 0 .. test.senders
  BY DEF IInv, Shape, CheckFinished, sendVars, Senders, Batched, Updates, Records
<1> DEFINE again == retry[rs] + (IF bExited[rs] /\ ~IsEmpty(buf[rs]) THEN 1 ELSE 0)
<1> DEFINE done == rdone + (IF bExited[rs] /\ IsEmpty(buf[rs]) THEN 1 ELSE 0)
<1>2. again \in {0, 1} /\ (again = 1 => bExited[rs])
  BY <1>1 DEF IInv, Retried
<1>3. ~(again >= RetryLimit /\ ~IsEmpty(buf[rs]))
  BY <1>2, DualBufferAssumption
<1>4. retry' = [retry EXCEPT ![rs] = again] /\ buf' = buf /\ lost' = lost /\ PassOn(done)
  BY <1>3 DEF CheckFinished
<1> HIDE DEF again
<1>5. \A s \in Senders : Finished(s) => Finished(s)'
  BY <1>1, <1>4 DEF Finished
<1>6. /\ Passed' /\ rs' \in Senders /\ rdone' \in 0 .. test.senders
      /\ rpc' \in {"peek", "exited"}
  <2>1. rdone \in Nat
    BY <1>1, TestFacts
  <2>2. done \in {rdone, rdone + 1} /\ (done = rdone + 1 => bExited[rs] /\ IsEmpty(buf[rs]))
    BY <2>1
  <2> HIDE DEF done
  <2>3. Passed
    BY DEF IInv
  <2>4. QED
    BY <1>1, <1>4, <1>5, <2>2, <2>3, PassOnFacts
<1>7. retry' \in [Senders -> {0, 1}] /\ retry'[rs] = again
      /\ \A s \in Senders \ {rs} : retry'[s] = retry[s]
  BY <1>1, <1>2, <1>4 DEF Shape
<1>8. Shape'
  BY <1>1, <1>4, <1>6, <1>7 DEF Shape
<1>9. Retried'
  BY <1>1, <1>2, <1>6, <1>7 DEF IInv, Retried
<1>10. ASSUME NEW s \in Senders PROVE Counted(buf'[s]) /\ Placed(s)' /\ Limited(s)' /\ Lined(s)'
  BY <1>1, <1>4 DEF IInv, Placed, Limited, Lined
<1>11. QED
  BY <1>1, <1>6, <1>8, <1>9, <1>10 DEF IInv

(* Every step keeps the invariant.                                         *)
LEMMA NextInv == IInv /\ [Next]_vars => IInv'
<1> SUFFICES ASSUME IInv, [Next]_vars PROVE IInv'
  OBVIOUS
<1>1. ASSUME NEW s \in Senders, Sender(s) \/ Stop(s) \/ ClearStats(s) PROVE IInv'
  <2>1. CASE AddDataSqf(s)
    BY <2>1, AddStep
  <2>2. CASE CheckExit(s) \/ Exit(s) \/ Tal4Check(s) \/ Tal4Wait(s) \/ Stop(s)
    BY <2>2, MoveStep
  <2>3. CASE Heartbeat(s)
    BY <2>3, HeartbeatStep
  <2>4. CASE Tal4Drop(s)
    BY <2>4, DropStep
  <2>5. CASE Tal4Push(s)
    BY <2>5, PushStep
  <2>6. CASE ClearStats(s)
    BY <2>6, ClearStatsStep
  <2>7. QED
    BY <1>1, <2>1, <2>2, <2>3, <2>4, <2>5, <2>6 DEF Sender
<1>2. CASE Receiver
  BY <1>2, PeekStep, ProcessStep, CheckFinishedStep DEF Receiver
<1>3. CASE UNCHANGED vars
  BY <1>3 DEF IInv, Shape, Retried, Passed, Finished, Placed, Limited, Lined, vars,
              sendVars, recvVars, Senders, Updates, Batched, Records
<1>4. QED
  BY <1>1, <1>2, <1>3 DEF Next, Terminated

(* So it always holds.                                                     *)
LEMMA Always == Spec => []IInv
BY InitInv, NextInv, PTL DEF Spec
-----------------------------------------------------------------------------
(* What the invariant says of the program. *)

(* The counters of every buffer, taken modulo 2^32, are the size of its    *)
(* queue (dualBuffer.hpp:410-415, :519-522).                               *)
THEOREM CountersAlwaysMatch == Spec => []CountersMatchQueue
<1>1. IInv => CountersMatchQueue
  <2> SUFFICES ASSUME IInv PROVE CountersMatchQueue
    OBVIOUS
  <2>1. Shape /\ test \in Tests /\ test.senders \in Nat \ {0} /\ Senders = 1 .. test.senders
    BY TestFacts DEF IInv, Shape
  <2>2. Cardinality(Senders) = test.senders
    <3>1. \A a, b \in Int : Cardinality(a .. b) = IF a > b THEN 0 ELSE b - a + 1
      BY FS_Interval
    <3>2. QED
      BY <2>1, <3>1
  <2>3. retry \in [Senders -> Nat]
    <3>1. retry \in [Senders -> {0, 1}]
      BY <2>1 DEF Shape
    <3>2. QED
      BY <3>1
  <2>4. ASSUME NEW s \in Senders
        PROVE  /\ buf[s].mem \in BOOLEAN /\ buf[s].curr \in Seq(Records)
               /\ buf[s].queue \in Seq(Seq(Records))
               /\ {buf[s].qsize, buf[s].in, buf[s].out, buf[s].inRec, buf[s].outRec}
                    \subseteq 0 .. Word - 1
               /\ delivered[s] \in Seq(Records)
    BY SenderFacts DEF BuffersOf, Words
  <2>5. TypeOK
    BY <2>1, <2>2, <2>3, <2>4 DEF TypeOK, Shape
  <2>6. QED
    BY <2>5 DEF IInv, Counted, Queued, CountersMatchQueue
<1>2. QED
  BY <1>1, Always, PTL

(* dwMaxAllowedQSize bounds the queue up to one block, although it is      *)
(* looked at without the lock (dualBuffer.hpp:165-190, :250-287).          *)
THEOREM BacklogAlwaysBounded == Spec => []BacklogBounded
<1>1. IInv => BacklogBounded
  BY DEF IInv, Limited, Queued, BacklogBounded
<1>2. QED
  BY <1>1, Always, PTL

(* The line ends in what a sender has: its parts ascend and miss the lost. *)
LEMMA DeliveredInLine ==
  ASSUME IInv, NEW s \in Senders
  PROVE  Ascends(delivered[s]) /\ ToSet(delivered[s]) \cap lost[s] = {}
<1>1. /\ Lined(s) /\ delivered[s] \in Seq(Records) /\ buf[s] \in BuffersOf(Records)
      /\ Records \in SUBSET Nat
  BY SenderFacts, TestFacts
<1> DEFINE d == delivered[s]
<1> DEFINE q == Queued(buf[s])
<1> DEFINE c == buf[s].curr
<1>2. d \in Seq(Nat) /\ q \in Seq(Nat) /\ c \in Seq(Nat) /\ d \o q \in Seq(Nat)
  BY <1>1, LineType
<1>3. Ascends((d \o q) \o c) /\ ToSet((d \o q) \o c) \cap lost[s] = {}
  BY <1>1 DEF Lined, InLine, Line
<1> HIDE DEF d, q, c
<1>4. Ascends(d \o q)
  BY <1>2, <1>3, AscendsParts
<1>5. Ascends(d)
  BY <1>2, <1>4, AscendsParts
<1>6. ToSet((d \o q) \o c) = ToSet(d \o q) \cup ToSet(c)
  <2> DEFINE u == d \o q
  <2>1. u \in Seq(Nat) /\ c \in Seq(Nat)
    BY <1>2
  <2> HIDE DEF u
  <2>2. ToSet(u \o c) = ToSet(u) \cup ToSet(c)
    BY <2>1, ToSetConcat
  <2>3. QED
    BY <2>2 DEF u
<1>7. ToSet(d \o q) = ToSet(d) \cup ToSet(q)
  BY <1>2, ToSetConcat
<1>8. QED
  BY <1>3, <1>5, <1>6, <1>7 DEF d

(* Each sender's records reach the receiver in order, none twice and none  *)
(* that was counted as dropped (dualBuffer.hpp:165-190, :403-440).         *)
THEOREM AlwaysInOrder == Spec => []InOrder
<1>1. IInv => InOrder
  BY DeliveredInLine DEF Ascends, InOrder
<1>2. QED
  BY <1>1, Always, PTL

(* A sender that is done is retried once at most.                          *)
LEMMA FewRetries == IInv => ClearNeverNeeded
<1>1. IInv => retry \in [Senders -> {0, 1}]
  BY DEF IInv, Shape
<1>2. QED
  BY <1>1 DEF ClearNeverNeeded

(* With more than one retry allowed DoReceive never has to call clear()    *)
(* (dualBuffer.hpp:832-846).                                               *)
THEOREM ClearNeverCalled == Spec => []ClearNeverNeeded
<1>1. IInv => ClearNeverNeeded
  BY FewRetries
<1>2. QED
  BY <1>1, Always, PTL
-----------------------------------------------------------------------------
(* The last block. *)

(* When the interval has always passed at the last heartbeat, no step      *)
(* takes a sender out of its loop with records in its block.               *)
LEMMA FlushedStep ==
  ASSUME LastDue = {TRUE}
  PROVE  IInv /\ Flushed /\ [Next]_vars => Flushed'
<1> SUFFICES ASSUME IInv, Flushed, [Next]_vars PROVE Flushed'
  OBVIOUS
<1>0. Shape /\ Senders' = Senders
  BY DEF IInv, Next, Sender, Receiver, Terminated, vars, sendVars, recvVars, Senders, AddDataSqf,
         CheckExit, Heartbeat, Exit, Tal4Check, Tal4Wait, Tal4Drop, Tal4Push, Stop, ClearStats,
         Peek, ProcessDataAll, CheckFinished
<1> SUFFICES ASSUME NEW r \in Senders, pc'[r] \in {"exit", "done"} PROVE buf'[r].curr = <<>>
  BY <1>0 DEF Flushed
<1>1. \A s \in Senders : buf[s] \in BuffersOf(Records) /\ Placed(s)
  BY DEF IInv, Shape
<1>2. pc[r] \in {"exit", "done"} => buf[r].curr = <<>>
  BY DEF Flushed
<1>3. ASSUME NEW s \in Senders, Sender(s) PROVE buf'[r].curr = <<>>
  <2>1. CASE r # s
    <3>1. pc'[r] = pc[r] /\ buf'[r] = buf[r]
      BY <1>0, <1>3, <2>1 DEF Shape, Sender, Goto, AddDataSqf, CheckExit, Heartbeat, Exit,
                              Tal4Check, Tal4Wait, Tal4Drop, Tal4Push
    <3>2. QED
      BY <1>2, <3>1
  <2>2. CASE r = s /\ (CheckExit(s) \/ Exit(s))
    <3>1. buf' = buf /\ (pc[s] = "exit" \/ ~Batched)
      BY <1>0, <2>2 DEF Shape, CheckExit, Exit, Goto
    <3>2. QED
      BY <1>1, <1>2, <2>2, <3>1 DEF Placed
  <2>3. CASE r = s /\ Heartbeat(s)
    <3>1. \/ buf[s].curr = <<>> /\ buf' = buf
          \/ buf[s].curr # <<>> /\ buf' = [buf EXCEPT ![s] = Add2Queue(buf[s])]
      BY <2>3 DEF Heartbeat
    <3>2. CASE buf[s].curr # <<>> /\ buf' = [buf EXCEPT ![s] = Add2Queue(buf[s])]
      <4> DEFINE b == Add2Queue(buf[s])
      <4>1. b = Add2Queue(buf[s]) /\ buf'[s] = b
        BY <1>0, <3>2 DEF Shape
      <4> HIDE DEF b
      <4>2. b.curr = <<>>
        BY <3>2, <4>1, FlushFacts
      <4>3. QED
        BY <2>3, <4>1, <4>2
    <3>3. QED
      BY <2>3, <3>1, <3>2
  <2>4. CASE r = s /\ (AddDataSqf(s) \/ Tal4Check(s) \/ Tal4Wait(s) \/ Tal4Drop(s) \/ Tal4Push(s))
    BY <1>0, <2>4 DEF Shape, Goto, AddDataSqf, Tal4Check, Tal4Wait, Tal4Drop, Tal4Push
  <2>5. QED
    BY <1>3, <2>1, <2>2, <2>3, <2>4 DEF Sender
<1>4. ASSUME UNCHANGED pc, buf' = buf \/ \E s \in Senders : \E b :
               buf' = [buf EXCEPT ![s] = b] /\ b.curr = buf[s].curr
      PROVE  buf'[r].curr = <<>>
  BY <1>0, <1>2, <1>4 DEF Shape
<1>5. ASSUME NEW s \in Senders, Stop(s) PROVE buf'[r].curr = <<>>
  BY <1>4, <1>5 DEF Stop
<1>6. ASSUME NEW s \in Senders, ClearStats(s) PROVE buf'[r].curr = <<>>
  <2> DEFINE b == ClearTotals(buf[s])
  <2>1. b.curr = buf[s].curr
    BY <1>1 DEF ClearTotals, BuffersOf
  <2>2. buf' = [buf EXCEPT ![s] = b] /\ UNCHANGED pc
    BY <1>6 DEF ClearStats, sendVars
  <2> HIDE DEF b
  <2>3. QED
    BY <1>4, <2>1, <2>2
<1>7. ASSUME Receiver PROVE buf'[r].curr = <<>>
  <2> DEFINE g == Grab(buf[rs])
  <2> DEFINE c == Clear(buf[rs])
  <2>1. rs \in Senders
    BY <1>0 DEF Shape
  <2>2. g.curr = buf[rs].curr /\ c.curr = buf[rs].curr
    BY <1>1, <2>1 DEF Grab, Clear, BuffersOf
  <2>3. /\ UNCHANGED pc
        /\ buf' = buf \/ buf' = [buf EXCEPT ![rs] = g] \/ buf' = [buf EXCEPT ![rs] = c]
    BY <1>7 DEF Receiver, Peek, ProcessDataAll, CheckFinished, sendVars
  <2> HIDE DEF g, c
  <2>4. QED
    BY <1>4, <2>1, <2>2, <2>3
<1>8. CASE UNCHANGED vars
  BY <1>4, <1>8 DEF vars, sendVars
<1>9. QED
  BY <1>3, <1>5, <1>6, <1>7, <1>8 DEF Next, Terminated

(* Then, when DoReceive returns, every record a sender added was delivered *)
(* or counted as lost: none is left in a block or in a queue               *)
(* (dualBuffer.hpp:683-691, :821-884).                                     *)
THEOREM NothingIsLeftBehind ==
  ASSUME LastDue = {TRUE}
  PROVE  Spec => []NothingLeftBehind
<1>1. Init => Flushed
  BY DEF Init, Flushed
<1>2. IInv /\ Flushed /\ [Next]_vars => Flushed'
  BY FlushedStep
<1>3. IInv /\ Flushed => NothingLeftBehind
  <2> SUFFICES ASSUME IInv, Flushed PROVE NothingLeftBehind
    OBVIOUS
  <2>1. ClearNeverNeeded
    BY FewRetries
  <2>2. ASSUME rpc = "exited", NEW s \in Senders
        PROVE  ToSet(delivered[s]) \cup lost[s] = 1 .. next[s] - 1
    <3>1. bExited[s] /\ IsEmpty(buf[s])
      BY <2>2 DEF IInv, Passed, Finished
    <3>2. /\ buf[s] \in BuffersOf(Records) /\ Counted(buf[s]) /\ Placed(s) /\ Lined(s)
          /\ delivered[s] \in Seq(Records)
      BY SenderFacts
    <3>3. buf[s].curr = <<>>
      BY <3>1, <3>2 DEF Placed, Flushed
    <3>4. Queued(buf[s]) = <<>>
      BY <3>1, <3>2, EmptyMeans
    <3>5. Line(delivered[s], buf[s]) = delivered[s]
      <4>1. delivered[s] \o <<>> = delivered[s]
        BY <3>2, ConcatEmptySeq
      <4>2. QED
        BY <3>3, <3>4, <4>1 DEF Line
    <3>6. QED
      BY <3>2, <3>5 DEF Lined, InLine
  <2>3. QED
    BY <2>1, <2>2 DEF NothingLeftBehind
<1>4. QED
  BY <1>1, <1>2, <1>3, Always, PTL DEF Spec
=============================================================================
