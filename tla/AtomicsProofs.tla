--------------------------- MODULE AtomicsProofs ----------------------------
(***************************************************************************)
(* Proofs about the protocols over bare atomics: the ring buffer, for      *)
(* every capacity, with both ways to wait for it; counted pointers, for    *)
(* every number of threads, pointers and objects; and the lock-free list,  *)
(* for every number of pushers and nodes.                                  *)
(***************************************************************************)
EXTENDS RingBufferWait, SharedPtr, LockFreeList, FiniteSetTheorems,
        SequenceTheorems, WellFoundedInduction, TLAPS

(* What ties the two threads' private indices to the shared ones.          *)
IndexInv ==
  /\ ppc \in {"check", "fill", "publish"} => wpos = write
  /\ cpc \in {"check", "release"} => rpos = read
  /\ cpc = "move" => read = NextPos(rpos)

(* What each thread's check established, for as long as it relies on it.   *)
CheckInv ==
  /\ ppc \in {"fill", "publish"} => NextPos(wpos) # read
  /\ cpc = "release" => rpos # write

RingInv == TypeOK /\ IndexInv /\ CheckInv

(* The index arithmetic stays in range and steps without % elsewhere.      *)
LEMMA NextPosValue ==
  ASSUME NEW i \in Index
  PROVE  NextPos(i) = IF i = BUF_SIZE THEN 0 ELSE i + 1
<1>1. BUF_SIZE \in Nat /\ BUF_SIZE > 0
  BY RingAssumption
<1>2. CASE i = BUF_SIZE
  BY <1>1, <1>2 DEF NextPos, RING_SIZE, Index
<1>3. CASE i # BUF_SIZE
  BY <1>1, <1>3 DEF NextPos, RING_SIZE, Index
<1>4. QED
  BY <1>2, <1>3

(* The next index is in range and differs from the index itself.          *)
LEMMA NextPosFacts ==
  /\ \A i \in Index : NextPos(i) \in Index
  /\ \A i, j \in Index : NextPos(i) = NextPos(j) => i = j
<1>1. BUF_SIZE \in Nat /\ BUF_SIZE > 0
  BY RingAssumption
<1>2. ASSUME NEW i \in Index PROVE NextPos(i) \in Index
  BY <1>1, NextPosValue DEF Index
<1>3. ASSUME NEW i \in Index, NEW j \in Index, NextPos(i) = NextPos(j)
      PROVE  i = j
  BY <1>1, <1>3, NextPosValue DEF Index
<1>4. QED
  BY <1>2, <1>3

(* Publishing adds one to the number of queued values, releasing takes one *)
(* away, and the number never leaves Index.                                *)
LEMMA DistanceSteps ==
  ASSUME NEW r \in Index, NEW w \in Index
  PROVE  /\ Distance(r, w) \in Index
         /\ NextPos(w) # r => Distance(r, NextPos(w)) = Distance(r, w) + 1
         /\ r # w => Distance(NextPos(r), w) = Distance(r, w) - 1
<1>1. BUF_SIZE \in Nat /\ BUF_SIZE > 0
  BY RingAssumption
<1>2. Distance(r, w) \in Index
  BY <1>1 DEF Distance, Index, RING_SIZE
<1>3. NextPos(w) # r => Distance(r, NextPos(w)) = Distance(r, w) + 1
  BY <1>1, NextPosValue DEF Distance, Index, RING_SIZE
<1>4. r # w => Distance(NextPos(r), w) = Distance(r, w) - 1
  BY <1>1, NextPosValue DEF Distance, Index, RING_SIZE
<1>5. QED
  BY <1>2, <1>3, <1>4

(* The number of queued values is what size() computes from the indices.  *)
LEMMA CountIsDistance ==
  ASSUME read \in Index, write \in Index
  PROVE  Count = Distance(read, write)
BY RingAssumption DEF Count, Distance, Index, RING_SIZE
-----------------------------------------------------------------------------
(* The ring starts in the inductive invariant.                             *)
LEMMA RingInitInv == RingInit => RingInv
<1> SUFFICES ASSUME RingInit PROVE RingInv
  OBVIOUS
<1>1. 0 \in Index
  BY RingAssumption DEF Index
<1>2. TypeOK
  BY <1>1 DEF RingInit, TypeOK
<1>3. IndexInv /\ CheckInv
  BY DEF RingInit, IndexInv, CheckInv
<1>4. QED
  BY <1>2, <1>3 DEF RingInv

(* Every load, store and slot access of push, pop and size keeps it.       *)
LEMMA RingStepInv == RingInv /\ [RingNext]_ringVars => RingInv'
<1> SUFFICES ASSUME RingInv, [RingNext]_ringVars
             PROVE  RingInv'
  OBVIOUS
<1> USE NextPosFacts DEF RingInv, TypeOK, IndexInv, CheckInv, prodVars, consVars
<1>1. ASSUME NEW v \in Values, PushLoad(v) PROVE RingInv'
  BY <1>1 DEF PushLoad
<1>2. CASE PushFull
  BY <1>2 DEF PushFull
<1>3. CASE PushRoom
  BY <1>3 DEF PushRoom, Full
<1>4. CASE PushFill
  BY <1>4 DEF PushFill
<1>5. CASE PushPublish
  <2>1. BUF_SIZE \in Index
    BY RingAssumption DEF Index
  <2>2. QED
    BY <1>5, <2>1 DEF PushPublish
<1>6. CASE PopLoad
  BY <1>6 DEF PopLoad
<1>7. CASE PopEmpty
  BY <1>7 DEF PopEmpty
<1>8. CASE PopFound
  BY <1>8 DEF PopFound
<1>9. CASE PopRelease
  <2>1. 0 \in Index
    BY RingAssumption DEF Index
  <2>2. QED
    BY <1>9, <2>1 DEF PopRelease
<1>10. CASE PopMove
  BY <1>10 DEF PopMove
<1>11. CASE WriterSizeBegin
  BY <1>11 DEF WriterSizeBegin
<1>12. CASE WriterSizeEnd
  BY <1>12, DistanceSteps DEF WriterSizeEnd
<1>13. CASE ReaderSize
  BY <1>13, DistanceSteps DEF ReaderSize
<1>14. CASE UNCHANGED ringVars
  BY <1>14 DEF ringVars
<1>15. QED
  BY <1>1, <1>2, <1>3, <1>4, <1>5, <1>6, <1>7, <1>8, <1>9, <1>10, <1>11,
     <1>12, <1>13, <1>14 DEF RingNext, Writer, Reader

(* Every reachable state satisfies the inductive invariant.                *)
THEOREM RingInvariance == RingSpec => []RingInv
BY RingInitInv, RingStepInv, PTL DEF RingSpec

(* The variables keep their types (circular_queue's indices stay inside    *)
(* the array, RingBufferAtomic.h:81-82).                                   *)
THEOREM RingTypeCorrect == RingSpec => []TypeOK
<1>1. RingInv => TypeOK
  BY DEF RingInv
<1>2. QED
  BY <1>1, RingInvariance, PTL

(* The slot pop still has to move out is never the slot push fills, for    *)
(* every capacity: the store of read before the move is safe.              *)
THEOREM SlotRaceFree == RingSpec => []NoSlotRace
<1>1. RingInv => NoSlotRace
  BY DEF RingInv, IndexInv, CheckInv, NoSlotRace
<1>2. QED
  BY <1>1, RingInvariance, PTL
-----------------------------------------------------------------------------
(* The size() results. *)
SizeInv ==
  /\ least <= Count
  /\ Count <= most
  /\ ppc = "size" => Count <= Distance(sizer, write)

(* The step for what a size() under way has loaded so far.                 *)
LEMMA SizeStep == RingInv /\ RingInv' /\ SizeInv /\ [RingNext]_ringVars => SizeInv'
<1> SUFFICES ASSUME RingInv, RingInv', SizeInv, [RingNext]_ringVars
             PROVE  SizeInv'
  OBVIOUS
<1>1. BUF_SIZE \in Nat
  BY RingAssumption
<1>2. /\ read \in Index /\ write \in Index /\ sizer \in Index
      /\ most \in Index /\ least \in Index
      /\ read' \in Index /\ write' \in Index
  BY DEF RingInv, TypeOK
<1>3. /\ Count = Distance(read, write)
      /\ Count' = Distance(read', write')
  BY <1>1, <1>2 DEF Count, Distance, Index, RING_SIZE
<1>4. /\ Distance(read, write) \in Index
      /\ Distance(read', write') \in Index
      /\ Distance(sizer, write) \in Index
  BY <1>2, DistanceSteps
<1> DEFINE Quiet == UNCHANGED <<read, write, sizer, most, least>>
<1>5. ASSUME Quiet, ppc' = "size" => ppc = "size" PROVE SizeInv'
  BY <1>3, <1>5 DEF SizeInv
<1>6. CASE PushPublish
  <2>1. write' = NextPos(write) /\ NextPos(write) # read /\ read' = read
    BY <1>6 DEF PushPublish, RingInv, IndexInv, CheckInv, consVars
  <2>2. Count' = Count + 1
    BY <1>2, <1>3, <2>1, DistanceSteps
  <2>3. least' = least /\ most' = BUF_SIZE /\ ppc' = "idle"
    BY <1>6 DEF PushPublish, consVars
  <2>4. QED
    BY <1>1, <1>2, <1>3, <1>4, <2>2, <2>3 DEF SizeInv, Index
<1>7. CASE PopRelease
  <2>1. read' = NextPos(read) /\ read # write /\ write' = write
    BY <1>7 DEF PopRelease, RingInv, IndexInv, CheckInv
  <2>2. Count' = Count - 1
    BY <1>2, <1>3, <2>1, DistanceSteps
  <2>3. least' = 0 /\ most' = most /\ ppc' = ppc /\ sizer' = sizer
    BY <1>7 DEF PopRelease, prodVars
  <2>4. QED
    BY <1>1, <1>2, <1>3, <1>4, <2>1, <2>2, <2>3 DEF SizeInv, Index
<1>8. CASE WriterSizeBegin
  BY <1>1, <1>2, <1>3, <1>4, <1>8 DEF WriterSizeBegin, SizeInv, consVars, Index
<1>9. CASE WriterSizeEnd
  BY <1>3, <1>9 DEF WriterSizeEnd, SizeInv, consVars
<1>10. CASE ReaderSize
  BY <1>1, <1>2, <1>3, <1>4, <1>10 DEF ReaderSize, SizeInv, prodVars, Index
<1>11. ASSUME NEW v \in Values, PushLoad(v) PROVE SizeInv'
  BY <1>5, <1>11 DEF PushLoad, consVars
<1>12. CASE PushFull
  BY <1>5, <1>12 DEF PushFull, consVars
<1>13. CASE PushRoom
  BY <1>5, <1>13 DEF PushRoom, consVars
<1>14. CASE PushFill
  BY <1>5, <1>14 DEF PushFill, consVars
<1>15. CASE PopLoad
  BY <1>5, <1>15 DEF PopLoad, prodVars
<1>16. CASE PopEmpty
  BY <1>5, <1>16 DEF PopEmpty, prodVars
<1>17. CASE PopFound
  BY <1>5, <1>17 DEF PopFound, prodVars
<1>18. CASE PopMove
  BY <1>5, <1>18 DEF PopMove, prodVars
<1>19. CASE UNCHANGED ringVars
  BY <1>5, <1>19 DEF ringVars, prodVars, consVars
<1>20. QED
  BY <1>6, <1>7, <1>8, <1>9, <1>10, <1>11, <1>12, <1>13, <1>14, <1>15,
     <1>16, <1>17, <1>18, <1>19 DEF RingNext, Writer, Reader

(* What size() told a thread stays true until that thread pushes or pops,  *)
(* although the two loads are not one step.                                *)
THEOREM SizeReliable == RingSpec => []SizeIsSafe
<1>1. RingInit => SizeInv
  BY RingAssumption DEF RingInit, SizeInv, Count
<1>2. SizeInv => SizeIsSafe
  BY DEF SizeInv, SizeIsSafe
<1>3. QED
  BY <1>1, <1>2, RingInvariance, SizeStep, PTL DEF RingSpec
-----------------------------------------------------------------------------
(* The slots that hold the queued values.                                  *)
LEMMA SlotFacts ==
  ASSUME NEW r \in Index, NEW w \in Index
  PROVE  /\ \A k \in 1 .. Distance(r, w) :
              /\ Wrap(r + k - 1) \in Index
              /\ Wrap(r + k - 1) # w
              /\ \A p \in Index : r = NextPos(p) => Wrap(r + k - 1) # p
         /\ Wrap(r + Distance(r, w)) = w
         /\ r # w => \A k \in 1 .. Distance(r, w) - 1 :
                       Wrap(NextPos(r) + k - 1) = Wrap(r + k)
<1>1. BUF_SIZE \in Nat /\ BUF_SIZE > 0
  BY RingAssumption
<1>2. ASSUME NEW k \in 1 .. Distance(r, w)
      PROVE  Wrap(r + k - 1) \in Index /\ Wrap(r + k - 1) # w
  BY <1>1 DEF Wrap, Distance, Index, RING_SIZE
<1>3. ASSUME NEW k \in 1 .. Distance(r, w), NEW p \in Index, r = NextPos(p)
      PROVE  Wrap(r + k - 1) # p
  BY <1>1, <1>3, NextPosValue DEF Wrap, Distance, Index, RING_SIZE
<1>4. Wrap(r + Distance(r, w)) = w
  BY <1>1 DEF Wrap, Distance, Index, RING_SIZE
<1>5. ASSUME r # w, NEW k \in 1 .. Distance(r, w) - 1
      PROVE  Wrap(NextPos(r) + k - 1) = Wrap(r + k)
  BY <1>1, <1>5, NextPosValue DEF Wrap, Distance, Index, RING_SIZE
<1>6. QED
  BY <1>2, <1>3, <1>4, <1>5

(* The data the indices stand for: queued slots, and the slot a pop still  *)
(* moves out, hold pushed values.                                          *)
DataInv ==
  /\ ppc \in {"check", "fill", "publish"} => item \in Values
  /\ ppc = "publish" => queue[wpos] = item
  /\ cpc = "move" => queue[rpos] \in Values
  /\ \A k \in 1 .. Count : queue[Wrap(read + k - 1)] \in Values

(* The slots between the indices keep holding values: push fills the slot  *)
(* after them, pop empties the slot it took out before.                    *)
LEMMA DataStep == RingInv /\ RingInv' /\ DataInv /\ [RingNext]_ringVars => DataInv'
<1> SUFFICES ASSUME RingInv, RingInv', DataInv, [RingNext]_ringVars
             PROVE  DataInv'
  OBVIOUS
<1>1. BUF_SIZE \in Nat
  BY RingAssumption
<1>2. /\ read \in Index /\ write \in Index /\ wpos \in Index /\ rpos \in Index
      /\ read' \in Index /\ write' \in Index
      /\ queue \in [Index -> Values \cup {NoValue}]
  BY DEF RingInv, TypeOK
<1>3. /\ Count = Distance(read, write)
      /\ Count' = Distance(read', write')
  BY <1>1, <1>2 DEF Count, Distance, Index, RING_SIZE
<1>4. Distance(read, write) \in 0 .. BUF_SIZE
  BY <1>2, DistanceSteps DEF Index
<1>5. \A k \in 1 .. Count : Wrap(read + k - 1) \in Index
  BY <1>2, <1>3, SlotFacts
<1> DEFINE Quiet == UNCHANGED <<read, write, queue, wpos, rpos>>
<1>6. ASSUME Quiet, ppc' \in {"check", "fill", "publish"} => item' \in Values,
             ppc' = "publish" => ppc = "publish" /\ item' = item,
             cpc' = "move" => cpc = "move"
      PROVE  DataInv'
  BY <1>3, <1>6 DEF DataInv, Wrap, RING_SIZE
<1>7. ASSUME NEW v \in Values, PushLoad(v) PROVE DataInv'
  BY <1>2, <1>3, <1>7 DEF PushLoad, DataInv, consVars, Wrap, RING_SIZE
<1>8. CASE PushFull
  BY <1>6, <1>8 DEF PushFull, DataInv, consVars
<1>9. CASE PushRoom
  BY <1>6, <1>9 DEF PushRoom, DataInv, consVars
<1>10. CASE PushFill
  <2>1. /\ queue' = [queue EXCEPT ![write] = item] /\ wpos = write /\ item \in Values
        /\ UNCHANGED <<read, write, wpos, rpos, item, cpc>>
    BY <1>10 DEF PushFill, RingInv, IndexInv, DataInv, consVars
  <2>2. cpc = "move" => rpos # wpos
    BY <1>10 DEF PushFill, RingInv, IndexInv, CheckInv
  <2>3. \A k \in 1 .. Count : queue'[Wrap(read + k - 1)] \in Values
    BY <1>2, <1>3, <1>5, <2>1, SlotFacts DEF DataInv
  <2>4. QED
    BY <1>2, <1>3, <2>1, <2>2, <2>3 DEF DataInv
<1>11. CASE PushPublish
  <2>1. /\ write' = NextPos(write) /\ NextPos(write) # read /\ wpos = write
        /\ UNCHANGED <<read, queue, wpos, rpos, item, cpc>> /\ ppc = "publish"
        /\ ppc' = "idle"
    BY <1>11 DEF PushPublish, RingInv, IndexInv, CheckInv, consVars
  <2>2. Count' = Count + 1
    BY <1>2, <1>3, <2>1, DistanceSteps
  <2>3. queue[Wrap(read + Count)] \in Values
    BY <1>2, <1>3, <2>1, SlotFacts DEF DataInv
  <2>4. ASSUME NEW k \in 1 .. Count' PROVE queue[Wrap(read + k - 1)] \in Values
    <3>1. CASE k = Count + 1
      BY <1>1, <1>2, <1>3, <1>4, <2>3, <3>1 DEF Index
    <3>2. CASE k # Count + 1
      BY <1>3, <1>4, <2>2, <3>2 DEF DataInv
    <3>3. QED
      BY <3>1, <3>2
  <2>5. QED
    BY <2>1, <2>4 DEF DataInv, Wrap, RING_SIZE
<1>12. CASE PopLoad
  <2>1. /\ UNCHANGED <<read, write, queue, wpos, item, ppc>> /\ cpc' = "check"
    BY <1>12 DEF PopLoad, prodVars
  <2>2. QED
    BY <1>3, <2>1 DEF DataInv, Wrap, RING_SIZE
<1>13. CASE PopEmpty
  BY <1>6, <1>13 DEF PopEmpty, DataInv, prodVars
<1>14. CASE PopFound
  BY <1>6, <1>14 DEF PopFound, DataInv, prodVars
<1>15. CASE PopRelease
  <2>1. /\ read' = NextPos(read) /\ read # write /\ rpos = read
        /\ UNCHANGED <<write, queue, wpos, rpos, item, ppc>>
    BY <1>15 DEF PopRelease, RingInv, IndexInv, CheckInv, prodVars
  <2>2. Count' = Count - 1
    BY <1>2, <1>3, <2>1, DistanceSteps
  <2>3. queue[rpos] \in Values
    <3>1. Count >= 1
      BY <1>1, <1>2, <1>3, <2>1 DEF Distance, Index, RING_SIZE
    <3>2. Wrap(read + 1 - 1) = read
      BY <1>1, <1>2 DEF Wrap, RING_SIZE, Index
    <3>3. 1 \in 1 .. Count
      BY <1>3, <1>4, <3>1
    <3>4. QED
      BY <2>1, <3>2, <3>3 DEF DataInv
  <2>4. ASSUME NEW k \in 1 .. Count' PROVE queue[Wrap(NextPos(read) + k - 1)] \in Values
    <3>1. k \in 1 .. Count - 1 /\ k + 1 \in 1 .. Count
      BY <1>3, <1>4, <2>2
    <3>2. Wrap(NextPos(read) + k - 1) = Wrap(read + k)
      BY <1>2, <1>3, <2>1, <3>1, SlotFacts
    <3>3. queue[Wrap(read + (k + 1) - 1)] \in Values
      BY <3>1 DEF DataInv
    <3>4. read + (k + 1) - 1 = read + k
      BY <1>1, <1>2, <3>1 DEF Index
    <3>5. QED
      BY <3>2, <3>3, <3>4
  <2>5. QED
    BY <2>1, <2>3, <2>4 DEF DataInv, Wrap, RING_SIZE
<1>16. CASE PopMove
  <2>1. /\ queue' = [queue EXCEPT ![rpos] = NoValue] /\ read = NextPos(rpos)
        /\ UNCHANGED <<read, write, wpos, rpos, item, ppc>> /\ cpc' = "idle"
    BY <1>16 DEF PopMove, RingInv, IndexInv, prodVars
  <2>2. ppc = "publish" => rpos # wpos
    BY <1>16 DEF PopMove, RingInv, IndexInv, CheckInv
  <2>3. \A k \in 1 .. Count : queue'[Wrap(read + k - 1)] \in Values
    BY <1>2, <1>3, <1>5, <2>1, SlotFacts DEF DataInv
  <2>4. QED
    BY <1>2, <1>3, <2>1, <2>2, <2>3 DEF DataInv
<1>17. CASE WriterSizeBegin
  BY <1>6, <1>17 DEF WriterSizeBegin, DataInv, consVars
<1>18. CASE WriterSizeEnd
  BY <1>6, <1>18 DEF WriterSizeEnd, DataInv, consVars
<1>19. CASE ReaderSize
  BY <1>6, <1>19 DEF ReaderSize, DataInv, prodVars
<1>20. CASE UNCHANGED ringVars
  BY <1>6, <1>20 DEF ringVars, prodVars, consVars, DataInv
<1>21. QED
  BY <1>7, <1>8, <1>9, <1>10, <1>11, <1>12, <1>13, <1>14, <1>15, <1>16,
     <1>17, <1>18, <1>19, <1>20 DEF RingNext, Writer, Reader

(* So the queued slots hold values in every reachable state.               *)
LEMMA DataInvariance == RingSpec => []DataInv
<1>1. RingInit => DataInv
  BY RingAssumption DEF RingInit, DataInv, Count
<1>2. QED
  BY <1>1, RingInvariance, DataStep, PTL DEF RingSpec
-----------------------------------------------------------------------------
(* The refinement of BoundedFifo. *)

(* The queue the ring stands for: its length and its elements.             *)
LEMMA ContentsFacts ==
  ASSUME RingInv, DataInv
  PROVE  /\ Contents \in Seq(Values)
         /\ Len(Contents) = Count
         /\ Count \in 0 .. BUF_SIZE
         /\ \A k \in 1 .. Count : Contents[k] = queue[Wrap(read + k - 1)]
<1>1. Count \in 0 .. BUF_SIZE
  BY CountIsDistance, DistanceSteps DEF RingInv, TypeOK, Index
<1>2. BUF_SIZE \in Nat
  BY RingAssumption
<1>3. Count \in Nat
  BY <1>1, <1>2
<1>4. Contents \in Seq(Values)
  BY <1>3 DEF Contents, DataInv
<1>5. Len(Contents) = Count
  BY <1>3, <1>4 DEF Contents
<1>6. QED
  BY <1>1, <1>4, <1>5 DEF Contents

(* A step that leaves indices and queued slots alone leaves the queue alone. *)
LEMMA ContentsSame ==
  ASSUME UNCHANGED <<read, write>>,
         \A k \in 1 .. Count : queue'[Wrap(read + k - 1)] = queue[Wrap(read + k - 1)]
  PROVE  Contents' = Contents
<1>1. Count' = Count
  BY DEF Count, RING_SIZE
<1>2. QED
  BY <1>1 DEF Contents, Wrap, RING_SIZE

(* Every step of the ring is a step of the bounded queue or none.          *)
LEMMA RefineStep ==
  RingInv /\ RingInv' /\ DataInv /\ DataInv' /\ [RingNext]_ringVars
    => [Fifo!FifoNext]_(Fifo!fifoVars)
<1> SUFFICES ASSUME RingInv, RingInv', DataInv, DataInv', [RingNext]_ringVars
             PROVE  Fifo!FifoNext \/ UNCHANGED (Fifo!fifoVars)
  OBVIOUS
<1> DEFINE takenNow == IF cpc = "move" THEN queue[rpos] ELSE NoValue
<1>1. BUF_SIZE \in Nat /\ NoValue \notin Values
  BY RingAssumption
<1>2. /\ read \in Index /\ write \in Index /\ wpos \in Index /\ rpos \in Index
      /\ queue \in [Index -> Values \cup {NoValue}]
  BY DEF RingInv, TypeOK
<1>3. /\ Count = Distance(read, write)
      /\ Count' = Distance(read', write')
  BY <1>1 DEF RingInv, TypeOK, Count, Distance, Index, RING_SIZE
<1>4. /\ Contents \in Seq(Values) /\ Len(Contents) = Count /\ Count \in 0 .. BUF_SIZE
      /\ \A k \in 1 .. Count : Contents[k] = queue[Wrap(read + k - 1)]
  BY ContentsFacts
<1>5. /\ Contents' \in Seq(Values) /\ Len(Contents') = Count'
      /\ Count' \in 0 .. BUF_SIZE
      /\ \A k \in 1 .. Count' : Contents'[k] = queue'[Wrap(read' + k - 1)]
  <2>1. Count' \in 0 .. BUF_SIZE
    BY <1>3, DistanceSteps DEF RingInv, TypeOK, Index
  <2>2. \A n : Wrap(n)' = Wrap(n)
    BY DEF Wrap, RING_SIZE
  <2>3. /\ Contents' \in [1 .. Count' -> Values]
        /\ \A k \in 1 .. Count' : Contents'[k] = queue'[Wrap(read' + k - 1)]
    BY DEF Contents, DataInv, Wrap, RING_SIZE
  <2>4. QED
    BY <1>1, <2>1, <2>3
<1>6. ASSUME UNCHANGED <<read, write, queue, pushed, popped>>, takenNow' = takenNow
      PROVE  UNCHANGED (Fifo!fifoVars)
  <2>1. Contents' = Contents
    BY <1>6, ContentsSame
  <2>2. QED
    BY <1>6, <2>1 DEF Fifo!fifoVars
<1>7. CASE PushPublish
  <2>1. /\ write' = NextPos(write) /\ NextPos(write) # read
        /\ UNCHANGED <<read, queue, cpc, rpos, popped>>
        /\ pushed' = TRUE /\ item \in Values /\ queue[write] = item
    BY <1>7 DEF PushPublish, RingInv, IndexInv, CheckInv, DataInv, consVars
  <2>2. Count' = Count + 1
    BY <1>2, <1>3, <2>1, DistanceSteps
  <2>3. Len(Contents) < BUF_SIZE
    BY <1>1, <1>4, <1>5, <2>2
  <2>4. Contents'[Count + 1] = item
    <3>1. Contents'[Count + 1] = queue[Wrap(read + (Count + 1) - 1)]
      BY <1>4, <1>5, <2>1, <2>2
    <3>2. read + (Count + 1) - 1 = read + Count
      BY <1>1, <1>2, <1>4 DEF Index
    <3>3. Wrap(read + Count) = write
      BY <1>2, <1>3, SlotFacts
    <3>4. QED
      BY <2>1, <3>1, <3>2, <3>3
  <2>5. \A k \in 1 .. Count : Contents'[k] = Contents[k]
    <3>1. \A k \in 1 .. Count : k \in 1 .. Count'
      BY <1>1, <1>4, <2>2
    <3>2. QED
      BY <1>4, <1>5, <2>1, <3>1
  <2>6. Contents' = Append(Contents, item)
    BY <1>4, <1>5, <2>1, <2>2, <2>4, <2>5
  <2>7. Fifo!Push(item)
    BY <2>1, <2>3, <2>6 DEF Fifo!Push
  <2>8. QED
    BY <2>1, <2>7 DEF Fifo!FifoNext
<1>8. CASE PushFull
  <2>1. /\ NextPos(write) = read /\ pushed' = FALSE
        /\ UNCHANGED <<read, write, queue, cpc, rpos, popped>>
    BY <1>8 DEF PushFull, Full, RingInv, IndexInv, consVars
  <2>2. Count = BUF_SIZE
    BY <1>1, <1>2, <1>3, <2>1, NextPosValue DEF Distance, Index, RING_SIZE
  <2>3. Contents' = Contents
    BY <2>1, ContentsSame
  <2>4. Fifo!PushFails
    BY <1>4, <2>1, <2>2, <2>3 DEF Fifo!PushFails
  <2>5. QED
    BY <2>4 DEF Fifo!FifoNext
<1>9. CASE PopEmpty
  <2>1. /\ write = read /\ popped' = NoValue /\ cpc = "check" /\ cpc' = "idle"
        /\ UNCHANGED <<read, write, queue, rpos, pushed>>
    BY <1>9 DEF PopEmpty, RingInv, IndexInv, prodVars
  <2>2. Count = 0
    BY <1>1, <1>2, <1>3, <2>1 DEF Distance, Index
  <2>3. Contents = <<>>
    BY <1>4, <2>2
  <2>4. Contents' = Contents
    BY <2>1, ContentsSame
  <2>5. Fifo!PopFails
    BY <2>1, <2>3, <2>4 DEF Fifo!PopFails
  <2>6. QED
    BY <2>5 DEF Fifo!FifoNext
<1>10. CASE PopRelease
  <2>1. /\ read' = NextPos(read) /\ read # write /\ rpos = read
        /\ cpc = "release" /\ cpc' = "move"
        /\ UNCHANGED <<write, queue, rpos, pushed, popped>>
    BY <1>10 DEF PopRelease, RingInv, IndexInv, CheckInv, prodVars
  <2>2. Count' = Count - 1
    BY <1>2, <1>3, <2>1, DistanceSteps
  <2>3. Contents[1] = queue[rpos]
    <3>1. 1 \in 1 .. Count
      BY <1>1, <1>4, <1>5, <2>2
    <3>2. Wrap(read + 1 - 1) = read
      BY <1>1, <1>2 DEF Wrap, RING_SIZE, Index
    <3>3. QED
      BY <1>4, <2>1, <3>1, <3>2
  <2>4. ASSUME NEW k \in 1 .. Count' PROVE Contents'[k] = Contents[k + 1]
    <3>1. k \in 1 .. Count - 1 /\ k + 1 \in 1 .. Count
      BY <1>4, <2>2
    <3>2. Wrap(NextPos(read) + k - 1) = Wrap(read + k)
      BY <1>2, <1>3, <2>1, <3>1, SlotFacts
    <3>3. read + (k + 1) - 1 = read + k
      BY <1>1, <1>2, <3>1 DEF Index
    <3>4. QED
      BY <1>4, <1>5, <2>1, <3>1, <3>2, <3>3
  <2>5. Contents # <<>> /\ Contents' = Tail(Contents) /\ Head(Contents) = queue[rpos]
    <3>1. Count >= 1
      BY <1>1, <1>4, <1>5, <2>2
    <3>2. Len(Tail(Contents)) = Count - 1 /\ Tail(Contents) \in Seq(Values)
      BY <1>4, <3>1
    <3>3. \A k \in 1 .. Count - 1 : Tail(Contents)[k] = Contents[k + 1]
      BY <1>4, <3>1
    <3>4. Contents' = Tail(Contents)
      BY <1>5, <2>2, <2>4, <3>2, <3>3
    <3>5. QED
      BY <1>4, <2>3, <3>1, <3>4
  <2>6. Fifo!Take
    BY <2>1, <2>5 DEF Fifo!Take
  <2>7. QED
    BY <2>6 DEF Fifo!FifoNext
<1>11. CASE PopMove
  <2>1. /\ queue' = [queue EXCEPT ![rpos] = NoValue] /\ read = NextPos(rpos)
        /\ cpc = "move" /\ cpc' = "idle" /\ popped' = queue[rpos]
        /\ UNCHANGED <<read, write, pushed>> /\ queue[rpos] \in Values
    BY <1>11 DEF PopMove, RingInv, IndexInv, DataInv, prodVars
  <2>2. \A k \in 1 .. Count : queue'[Wrap(read + k - 1)] = queue[Wrap(read + k - 1)]
    BY <1>2, <1>3, <2>1, SlotFacts
  <2>3. Contents' = Contents
    BY <2>1, <2>2, ContentsSame
  <2>4. Fifo!Deliver
    BY <1>1, <2>1, <2>3 DEF Fifo!Deliver
  <2>5. QED
    BY <2>4 DEF Fifo!FifoNext
<1>12. CASE PushFill
  <2>1. /\ queue' = [queue EXCEPT ![write] = item] /\ wpos = write
        /\ UNCHANGED <<read, write, pushed, popped, cpc, rpos>>
    BY <1>12 DEF PushFill, RingInv, IndexInv, consVars
  <2>2. cpc = "move" => rpos # write
    BY <1>12, <2>1 DEF PushFill, RingInv, IndexInv, CheckInv
  <2>3. \A k \in 1 .. Count : queue'[Wrap(read + k - 1)] = queue[Wrap(read + k - 1)]
    BY <1>2, <1>3, <2>1, SlotFacts
  <2>4. Contents' = Contents
    BY <2>1, <2>3, ContentsSame
  <2>5. takenNow' = takenNow
    BY <1>2, <2>1, <2>2
  <2>6. QED
    BY <2>1, <2>4, <2>5 DEF Fifo!fifoVars
<1>13. ASSUME NEW v \in Values, PushLoad(v) PROVE UNCHANGED (Fifo!fifoVars)
  BY <1>6, <1>13 DEF PushLoad, consVars
<1>14. CASE PushRoom
  BY <1>6, <1>14 DEF PushRoom, consVars
<1>15. CASE PopLoad
  BY <1>6, <1>15 DEF PopLoad, prodVars
<1>16. CASE PopFound
  BY <1>6, <1>16 DEF PopFound, prodVars
<1>17. CASE WriterSizeBegin
  BY <1>6, <1>17 DEF WriterSizeBegin, consVars
<1>18. CASE WriterSizeEnd
  BY <1>6, <1>18 DEF WriterSizeEnd, consVars
<1>19. CASE ReaderSize
  BY <1>6, <1>19 DEF ReaderSize, prodVars
<1>20. CASE UNCHANGED ringVars
  BY <1>6, <1>20 DEF ringVars, prodVars, consVars
<1>21. QED
  BY <1>7, <1>8, <1>9, <1>10, <1>11, <1>12, <1>13, <1>14, <1>15, <1>16,
     <1>17, <1>18, <1>19, <1>20 DEF RingNext, Writer, Reader

(* circular_queue is a bounded FIFO queue of BUF_SIZE values, for every    *)
(* capacity, every set of values and every interleaving of its writer and  *)
(* its reader.                                                             *)
THEOREM Refinement == RingSpec => ImplementsFifo
<1>1. RingInit => Fifo!FifoInit
  <2>1. RingInit => Contents = <<>>
    BY DEF RingInit, Contents, Count
  <2>2. QED
    BY <2>1 DEF RingInit, Fifo!FifoInit
<1>2. QED
  BY <1>1, RingInvariance, DataInvariance, RefineStep, PTL
     DEF RingSpec, ImplementsFifo, Fifo!FifoSpec
-----------------------------------------------------------------------------
(* The blocking ring, push_wait and pop_wait. *)

(* The test's counters and the use of event_signal.                        *)
WaitInv ==
  /\ lock \in Threads \cup {"free"}
  /\ stage \in [Threads -> {"none", "lock", "test", "sleep", "asleep", "notify"}]
  /\ begun \in 0 .. Total /\ received \in 0 .. Total
  /\ cpc \in {"check", "release", "move"} => received < Total

(* The steps that only use event_signal and leave the ring alone.          *)
SignalOnly ==
  UNCHANGED <<ringVars, begun, received>>

(* A step of either thread is a step of the ring with the counters it      *)
(* moves, or a use of event_signal.                                        *)
LEMMA WaitSteps ==
  ASSUME [WaitNext]_allVars
  PROVE  \/ SignalOnly
         \/ begun < Total /\ PushLoad(begun) /\ begun' = begun + 1 /\ received' = received
         \/ (PushRoom \/ PushFill \/ PushPublish \/ PopFound \/ PopRelease)
              /\ UNCHANGED <<begun, received>>
         \/ received < Total /\ PopLoad /\ UNCHANGED <<begun, received>>
         \/ PopMove /\ begun' = begun /\ received' = received + 1
<1>1. CASE UNCHANGED allVars
  BY <1>1 DEF allVars, waitVars, SignalOnly
<1>2. ASSUME NEW t \in Threads, Signal(t) \/ WakeSpuriously(t)
      PROVE  \/ SignalOnly
             \/ (PushRoom \/ PopFound) /\ UNCHANGED <<begun, received>>
  BY <1>2 DEF Signal, WakeSpuriously, Blocked, TakeLock, TestFails, TestHolds,
     Sleep, Notify, SignalOnly
<1>3. CASE PushWaitLoad \/ PushWaitRoom \/ PushWaitFill \/ PushWaitPublish
  BY <1>3 DEF PushWaitLoad, PushWaitRoom, PushWaitFill, PushWaitPublish, waitVars
<1>4. CASE PopWaitLoad \/ PopWaitFound \/ PopWaitRelease \/ PopWaitMove
  BY <1>4 DEF PopWaitLoad, PopWaitFound, PopWaitRelease, PopWaitMove, waitVars
<1>5. "writer" \in Threads /\ "reader" \in Threads
  BY DEF Threads
<1>6. QED
  BY <1>1, <1>2, <1>3, <1>4, <1>5 DEF WaitNext, WaitWriter, WaitReader

(* Every use of event_signal keeps the shape of its state.                 *)
LEMMA StageStep ==
  ASSUME WaitInv, [WaitNext]_allVars
  PROVE  /\ lock' \in Threads \cup {"free"}
         /\ stage' \in [Threads -> {"none", "lock", "test", "sleep", "asleep", "notify"}]
<1>1. "writer" \in Threads /\ "reader" \in Threads
  BY DEF Threads
<1>2. ASSUME NEW t \in Threads, Signal(t) \/ WakeSpuriously(t)
      PROVE  /\ lock' \in Threads \cup {"free"}
             /\ stage' \in [Threads -> {"none", "lock", "test", "sleep", "asleep", "notify"}]
  BY <1>1, <1>2 DEF WaitInv, Signal, WakeSpuriously, Blocked, TakeLock, TestFails,
     TestHolds, Sleep, Notify, SetStage, Other
<1>3. CASE PushWaitLoad \/ PushWaitRoom \/ PushWaitFill \/ PushWaitPublish
  BY <1>1, <1>3 DEF WaitInv, PushWaitLoad, PushWaitRoom, PushWaitFill,
     PushWaitPublish, waitVars, SetStage
<1>4. CASE PopWaitLoad \/ PopWaitFound \/ PopWaitRelease \/ PopWaitMove
  BY <1>1, <1>4 DEF WaitInv, PopWaitLoad, PopWaitFound, PopWaitRelease,
     PopWaitMove, waitVars, SetStage
<1>5. CASE UNCHANGED allVars
  BY <1>5 DEF allVars, waitVars, WaitInv
<1>6. QED
  BY <1>1, <1>2, <1>3, <1>4, <1>5 DEF WaitNext, WaitWriter, WaitReader

(* The counters stay within the values of the test.                        *)
LEMMA WaitInvStep == WaitInv /\ [WaitNext]_allVars => WaitInv'
<1> SUFFICES ASSUME WaitInv, [WaitNext]_allVars PROVE WaitInv'
  OBVIOUS
<1>1. Total \in Nat
  BY TotalAssumption
<1>2. CASE SignalOnly
  BY <1>2, StageStep DEF SignalOnly, WaitInv, ringVars, consVars
<1>3. CASE begun < Total /\ PushLoad(begun) /\ begun' = begun + 1 /\ received' = received
  BY <1>1, <1>3, StageStep DEF PushLoad, WaitInv, consVars
<1>4. CASE /\ PushRoom \/ PushFill \/ PushPublish \/ PopFound \/ PopRelease
           /\ UNCHANGED <<begun, received>>
  BY <1>4, StageStep DEF PushRoom, PushFill, PushPublish, PopFound, PopRelease,
     WaitInv, consVars
<1>5. CASE received < Total /\ PopLoad /\ UNCHANGED <<begun, received>>
  BY <1>5, StageStep DEF PopLoad, WaitInv
<1>6. CASE PopMove /\ begun' = begun /\ received' = received + 1
  BY <1>1, <1>6, StageStep DEF PopMove, WaitInv
<1>7. QED
  BY <1>2, <1>3, <1>4, <1>5, <1>6, WaitSteps

(* A step of the blocking operations is a step of the ring.                *)
LEMMA WaitIsRing == WaitInv /\ [WaitNext]_allVars => [RingNext]_ringVars
<1> SUFFICES ASSUME WaitInv, [WaitNext]_allVars PROVE [RingNext]_ringVars
  OBVIOUS
<1>1. begun < Total => begun \in Values
  BY TotalAssumption DEF WaitInv
<1>2. QED
  BY <1>1, WaitSteps DEF SignalOnly, RingNext, Writer, Reader

(* The counters are right in every reachable state.                        *)
LEMMA WaitInvariance == WaitSpec => []WaitInv
<1>1. WaitInit => WaitInv
  BY TotalAssumption DEF WaitInit, WaitInv, RingInit
<1>2. QED
  BY <1>1, WaitInvStep, PTL DEF WaitSpec, WaitSafety

(* push_wait and pop_wait, with their mutex, their condition variable and  *)
(* whatever wakeups they get, only do what push and pop may do             *)
(* (RingBufferAtomic.h:31-66).                                             *)
THEOREM WaitImplementsRing == WaitSpec => ImplementsRing
<1>1. WaitInit => RingInit
  BY DEF WaitInit
<1>2. QED
  BY <1>1, WaitInvariance, WaitIsRing, PTL
     DEF WaitSpec, WaitSafety, ImplementsRing, RingSpec

(* The variables of the blocking ring keep their types.                    *)
THEOREM WaitTypeCorrect == WaitSpec => []WaitTypeOK
<1>1. WaitInv /\ TypeOK => WaitTypeOK
  BY DEF WaitInv, WaitTypeOK
<1>2. QED
  BY <1>1, WaitInvariance, WaitImplementsRing, RingTypeCorrect, PTL DEF ImplementsRing
-----------------------------------------------------------------------------
(* The order of the values. *)

(* The values taken out of the ring, the one being moved included.         *)
TakenOut == received + (IF cpc = "move" THEN 1 ELSE 0)

(* The ring holds the numbers from TakenOut on, one after the other, and   *)
(* the writer is at the number after them.                                 *)
OrderInv ==
  /\ begun = TakenOut + Count
              + (IF ppc \in {"check", "fill", "publish"} THEN 1 ELSE 0)
  /\ ppc \in {"check", "fill", "publish"} => item = begun - 1
  /\ ppc = "publish" => queue[wpos] = item
  /\ cpc = "move" => queue[rpos] = received
  /\ \A k \in 1 .. Count : queue[Wrap(read + k - 1)] = TakenOut + k - 1
  /\ received > 0 => popped = received - 1

(* Every load, store and slot access keeps the order.                      *)
LEMMA OrderStep ==
  RingInv /\ RingInv' /\ WaitInv /\ OrderInv /\ [WaitNext]_allVars => OrderInv'
<1> SUFFICES ASSUME RingInv, RingInv', WaitInv, OrderInv, [WaitNext]_allVars
             PROVE  OrderInv'
  OBVIOUS
<1>1. BUF_SIZE \in Nat /\ BUF_SIZE > 0 /\ Total \in Nat
  BY RingAssumption, TotalAssumption
<1>2. /\ read \in Index /\ write \in Index /\ wpos \in Index /\ rpos \in Index
      /\ read' \in Index /\ write' \in Index
      /\ queue \in [Index -> Values \cup {NoValue}]
  BY DEF RingInv, TypeOK
<1>3. /\ Count = Distance(read, write)
      /\ Count' = Distance(read', write')
  BY <1>1, <1>2 DEF Count, Distance, Index, RING_SIZE
<1>4. Count \in 0 .. BUF_SIZE /\ Count' \in 0 .. BUF_SIZE
  BY <1>2, <1>3, DistanceSteps DEF Index
<1>5. \A k \in 1 .. Count : Wrap(read + k - 1) \in Index
  BY <1>2, <1>3, SlotFacts
<1>6. begun \in Nat /\ received \in Nat
  BY <1>1 DEF WaitInv
<1>7. CASE SignalOnly
  BY <1>7 DEF SignalOnly, ringVars, prodVars, consVars, OrderInv, TakenOut, Count,
     RING_SIZE, Wrap
<1>8. CASE begun < Total /\ PushLoad(begun) /\ begun' = begun + 1 /\ received' = received
  <2>1. /\ UNCHANGED <<read, write, queue, cpc, rpos, popped, received>>
        /\ ppc = "idle" /\ ppc' = "check" /\ item' = begun /\ begun' = begun + 1
    BY <1>8 DEF PushLoad, consVars
  <2>2. Count' = Count /\ TakenOut' = TakenOut
    BY <1>3, <2>1 DEF TakenOut
  <2>3. begun = TakenOut + Count
    BY <1>4, <1>6, <2>1 DEF OrderInv, TakenOut
  <2>4. begun' = TakenOut' + Count' + 1 /\ item' = begun' - 1
    BY <1>6, <2>1, <2>2, <2>3
  <2>5. QED
    BY <2>1, <2>2, <2>4 DEF OrderInv, Wrap, RING_SIZE
<1>9. CASE PushRoom /\ UNCHANGED <<begun, received>>
  <2>1. /\ UNCHANGED <<read, write, queue, cpc, rpos, popped, received, begun, item>>
        /\ ppc = "check" /\ ppc' = "fill"
    BY <1>9 DEF PushRoom, consVars
  <2>2. Count' = Count /\ TakenOut' = TakenOut
    BY <1>3, <2>1 DEF TakenOut
  <2>3. QED
    BY <2>1, <2>2 DEF OrderInv, Wrap, RING_SIZE
<1>10. CASE PushFill /\ UNCHANGED <<begun, received>>
  <2>1. /\ queue' = [queue EXCEPT ![write] = item] /\ wpos = write
        /\ UNCHANGED <<read, write, wpos, rpos, item, cpc, popped, begun, received>>
        /\ ppc = "fill" /\ ppc' = "publish"
    BY <1>10 DEF PushFill, RingInv, IndexInv, consVars
  <2>2. cpc = "move" => rpos # wpos
    BY <1>10 DEF PushFill, RingInv, IndexInv, CheckInv
  <2>3. \A k \in 1 .. Count : Wrap(read + k - 1) # write
    BY <1>2, <1>3, SlotFacts
  <2>4. Count' = Count /\ TakenOut' = TakenOut
    BY <1>3, <2>1 DEF TakenOut
  <2>5. \A k \in 1 .. Count' : queue'[Wrap(read' + k - 1)] = TakenOut' + k - 1
    BY <1>2, <1>5, <2>1, <2>3, <2>4 DEF OrderInv
  <2>6. queue'[wpos'] = item' /\ (cpc' = "move" => queue'[rpos'] = received')
    BY <1>2, <2>1, <2>2 DEF OrderInv
  <2>7. QED
    BY <2>1, <2>4, <2>5, <2>6 DEF OrderInv
<1>11. CASE PushPublish /\ UNCHANGED <<begun, received>>
  <2>1. /\ write' = NextPos(write) /\ NextPos(write) # read /\ wpos = write
        /\ UNCHANGED <<read, queue, wpos, rpos, item, cpc, popped, begun, received>>
        /\ ppc = "publish" /\ ppc' = "idle"
    BY <1>11 DEF PushPublish, RingInv, IndexInv, CheckInv, consVars
  <2>2. Count' = Count + 1 /\ TakenOut' = TakenOut
    BY <1>2, <1>3, <2>1, DistanceSteps DEF TakenOut
  <2>3. /\ begun = TakenOut + Count + 1 /\ queue[write] = begun - 1
        /\ TakenOut \in Nat
    BY <1>4, <1>6, <2>1 DEF OrderInv, TakenOut
  <2>4. Wrap(read + Count) = write
    BY <1>2, <1>3, SlotFacts
  <2>5. ASSUME NEW k \in 1 .. Count'
        PROVE  queue'[Wrap(read' + k - 1)] = TakenOut' + k - 1
    <3>1. CASE k = Count + 1
      <4>1. read + k - 1 = read + Count
        BY <1>1, <1>2, <1>4, <3>1 DEF Index
      <4>2. TakenOut + k - 1 = begun - 1
        BY <1>4, <1>6, <2>3, <3>1
      <4>3. QED
        BY <2>1, <2>2, <2>3, <2>4, <4>1, <4>2 DEF Wrap, RING_SIZE
    <3>2. CASE k # Count + 1
      <4>1. k \in 1 .. Count
        BY <1>4, <2>2, <3>2
      <4>2. QED
        BY <2>1, <2>2, <4>1 DEF OrderInv, Wrap, RING_SIZE
    <3>3. QED
      BY <3>1, <3>2
  <2>6. begun' = TakenOut' + Count'
    BY <1>4, <2>1, <2>2, <2>3
  <2>7. QED
    BY <1>4, <1>6, <2>1, <2>3, <2>2, <2>5, <2>6 DEF OrderInv
<1>12. CASE received < Total /\ PopLoad /\ UNCHANGED <<begun, received>>
  <2>1. /\ UNCHANGED <<read, write, queue, ppc, wpos, item, popped, begun, received>>
        /\ cpc = "idle" /\ cpc' = "check"
    BY <1>12 DEF PopLoad, prodVars
  <2>2. Count' = Count /\ TakenOut' = TakenOut
    BY <1>3, <2>1 DEF TakenOut
  <2>3. QED
    BY <2>1, <2>2 DEF OrderInv, Wrap, RING_SIZE
<1>13. CASE PopFound /\ UNCHANGED <<begun, received>>
  <2>1. /\ UNCHANGED <<read, write, queue, ppc, wpos, item, popped, begun, received>>
        /\ cpc = "check" /\ cpc' = "release"
    BY <1>13 DEF PopFound, prodVars
  <2>2. Count' = Count /\ TakenOut' = TakenOut
    BY <1>3, <2>1 DEF TakenOut
  <2>3. QED
    BY <2>1, <2>2 DEF OrderInv, Wrap, RING_SIZE
<1>14. CASE PopRelease /\ UNCHANGED <<begun, received>>
  <2>1. /\ read' = NextPos(read) /\ read # write /\ rpos = read
        /\ UNCHANGED <<write, queue, ppc, wpos, item, rpos, popped, begun, received>>
        /\ cpc = "release" /\ cpc' = "move"
    BY <1>14 DEF PopRelease, RingInv, IndexInv, CheckInv, prodVars
  <2>2. Count' = Count - 1 /\ TakenOut = received /\ TakenOut' = received + 1
    BY <1>2, <1>3, <1>6, <2>1, DistanceSteps DEF TakenOut
  <2>3. 1 \in 1 .. Count /\ Wrap(read + 1 - 1) = read
    BY <1>1, <1>2, <1>3, <1>4, <2>1 DEF Distance, Wrap, Index, RING_SIZE
  <2>4. queue[rpos] = received
    <3>1. queue[Wrap(read + 1 - 1)] = TakenOut + 1 - 1
      BY <2>3 DEF OrderInv
    <3>2. QED
      BY <1>6, <2>1, <2>2, <2>3, <3>1
  <2>5. ASSUME NEW k \in 1 .. Count'
        PROVE  queue[Wrap(NextPos(read) + k - 1)] = TakenOut' + k - 1
    <3>1. k \in 1 .. Count - 1 /\ k + 1 \in 1 .. Count
      BY <1>4, <2>2
    <3>2. Wrap(NextPos(read) + k - 1) = Wrap(read + k)
      BY <1>2, <1>3, <2>1, <3>1, SlotFacts
    <3>3. queue[Wrap(read + (k + 1) - 1)] = TakenOut + (k + 1) - 1
      BY <3>1 DEF OrderInv
    <3>4. read + (k + 1) - 1 = read + k /\ TakenOut + (k + 1) - 1 = TakenOut' + k - 1
      BY <1>1, <1>2, <1>6, <2>2, <3>1 DEF Index
    <3>5. QED
      BY <3>2, <3>3, <3>4
  <2>6. begun' = TakenOut' + Count'
                 + (IF ppc' \in {"check", "fill", "publish"} THEN 1 ELSE 0)
    BY <1>4, <1>6, <2>1, <2>2 DEF OrderInv
  <2>7. QED
    BY <2>1, <2>2, <2>4, <2>5, <2>6 DEF OrderInv, Wrap, RING_SIZE
<1>15. CASE PopMove /\ begun' = begun /\ received' = received + 1
  <2>1. /\ queue' = [queue EXCEPT ![rpos] = NoValue] /\ read = NextPos(rpos)
        /\ popped' = queue[rpos]
        /\ UNCHANGED <<read, write, ppc, wpos, item, rpos, begun>>
        /\ cpc = "move" /\ cpc' = "idle"
    BY <1>15 DEF PopMove, RingInv, IndexInv, prodVars
  <2>2. ppc = "publish" => rpos # wpos
    BY <1>15 DEF PopMove, RingInv, IndexInv, CheckInv
  <2>3. \A k \in 1 .. Count : Wrap(read + k - 1) # rpos
    BY <1>2, <1>3, <2>1, SlotFacts
  <2>4. Count' = Count /\ TakenOut' = TakenOut
    BY <1>3, <1>6, <1>15, <2>1 DEF TakenOut
  <2>5. \A k \in 1 .. Count' : queue'[Wrap(read' + k - 1)] = TakenOut' + k - 1
    BY <1>2, <1>5, <2>1, <2>3, <2>4 DEF OrderInv
  <2>6. ppc' = "publish" => queue'[wpos'] = item'
    BY <1>2, <2>1, <2>2 DEF OrderInv
  <2>7. popped' = received' - 1
    BY <1>6, <1>15, <2>1 DEF OrderInv
  <2>8. QED
    BY <2>1, <2>4, <2>5, <2>6, <2>7 DEF OrderInv
<1>16. QED
  BY <1>7, <1>8, <1>9, <1>10, <1>11, <1>12, <1>13, <1>14, <1>15, WaitSteps

(* lock_free_Q_consumer's comparison holds: the k-th value it pops is k,   *)
(* for every capacity and every number of values                           *)
(* (TestslistRingBuffer.cpp:157-169).                                      *)
THEOREM ValuesInOrder == WaitSpec => []NothingOutOfOrder
<1>1. WaitInit => OrderInv
  BY RingAssumption DEF WaitInit, RingInit, OrderInv, TakenOut, Count
<1>2. OrderInv => NothingOutOfOrder
  BY DEF OrderInv, NothingOutOfOrder
<1>3. WaitSpec => []RingInv
  BY WaitImplementsRing, RingInvariance, PTL DEF ImplementsRing
<1>4. QED
  BY <1>1, <1>2, <1>3, WaitInvariance, OrderStep, PTL DEF WaitSpec, WaitSafety
-----------------------------------------------------------------------------
Refs == Objects \cup {NoObject}
Loads == 0 .. Cardinality(Pointers)
Places == Pointers \cup {NoObject}

SharedTypes ==
  /\ naked \in [Pointers -> Refs] /\ count \in [Objects -> Loads]
  /\ created \subseteq Objects /\ stale \subseteq Objects
  /\ deletes \in [Objects -> 0 .. 1]
  /\ doing \in [Holders -> [p : Places, seen : Loads, how : Kinds \cup {"none"}, from : Places]]

(* What a thread is in the middle of concerns its own pointers; "copy" and *)
(* "move" have two of them.                                                *)
OwnPointers ==
  \A t \in Holders :
    \/ doing[t] = Idle
    \/ /\ doing[t].p \in Of(t) /\ doing[t].from \in Of(t) /\ doing[t].how \in Kinds
       /\ doing[t].how # "end" => doing[t].p # doing[t].from

(* Pointers lead to objects that were created, and only those are deleted. *)
OnlyCreated ==
  /\ \A p \in Pointers : naked[p] # NoObject => naked[p] \in created
  /\ \A o \in Objects : deletes[o] > 0 => o \in created

(* What a thread inside delete_me knows: the pointer is null when nothing  *)
(* was loaded, and the only one when the count loaded was 1.               *)
Knows(t) ==
  doing[t].how # "none" =>
    /\ doing[t].seen = 0 <=> naked[doing[t].p] = NoObject
    /\ doing[t].seen = 1 => HoldersOf(naked[doing[t].p]) = {doing[t].p}
LoadsHold == \A t \in Holders : Knows(t)

SharedInv ==
  SharedTypes /\ OwnPointers /\ OnlyCreated /\ LoadsHold /\ CountsPointers /\ NotDeletedInUse
-----------------------------------------------------------------------------
(* The pointers to an object are some of the pointers.                     *)
LEMMA FewHolders ==
  ASSUME NEW S \in SUBSET Pointers
  PROVE  /\ IsFiniteSet(S) /\ Cardinality(S) \in Loads
         /\ \A p : Cardinality(S \ {p}) = IF p \in S THEN Cardinality(S) - 1 ELSE Cardinality(S)
         /\ \A p : Cardinality(S \cup {p}) = IF p \in S THEN Cardinality(S) ELSE Cardinality(S) + 1
<1>1. IsFiniteSet(S) /\ Cardinality(S) <= Cardinality(Pointers)
  BY FS_Subset, SharedAssumption
<1>2. Cardinality(S) \in Nat /\ Cardinality(Pointers) \in Nat
  BY <1>1, FS_CardinalityType, SharedAssumption
<1>3. ASSUME NEW p
      PROVE  Cardinality(S \ {p}) = IF p \in S THEN Cardinality(S) - 1 ELSE Cardinality(S)
  BY <1>1, FS_RemoveElement
<1>4. ASSUME NEW p
      PROVE  Cardinality(S \cup {p}) = IF p \in S THEN Cardinality(S) ELSE Cardinality(S) + 1
  BY <1>1, FS_AddElement
<1>5. QED
  BY <1>1, <1>2, <1>3, <1>4 DEF Loads

LEMMA HoldersSubset == \A o : HoldersOf(o) \in SUBSET Pointers
BY DEF HoldersOf

(* A pointer that is emptied.                                              *)
LEMMA Emptying ==
  ASSUME SharedTypes, NEW p \in Pointers, naked[p] # NoObject,
         naked' = [naked EXCEPT ![p] = NoObject]
  PROVE  /\ \A q \in Pointers : naked'[q] = IF q = p THEN NoObject ELSE naked[q]
         /\ \A o \in Objects :
              HoldersOf(o)' = IF o = naked[p] THEN HoldersOf(o) \ {p} ELSE HoldersOf(o)
<1>1. \A q \in Pointers : naked'[q] = IF q = p THEN NoObject ELSE naked[q]
  BY DEF SharedTypes
<1>2. \A o \in Objects : o # NoObject
  BY SharedAssumption
<1>3. QED
  BY <1>1, <1>2 DEF HoldersOf

(* A null pointer that gets an object.                                     *)
LEMMA Filling ==
  ASSUME SharedTypes, NEW p \in Pointers, naked[p] = NoObject, NEW v \in Refs,
         naked' = [naked EXCEPT ![p] = v]
  PROVE  /\ \A q \in Pointers : naked'[q] = IF q = p THEN v ELSE naked[q]
         /\ \A o \in Objects :
              HoldersOf(o)' = IF o = v THEN HoldersOf(o) \cup {p} ELSE HoldersOf(o)
         /\ \A o \in Objects : p \notin HoldersOf(o)
<1>1. \A q \in Pointers : naked'[q] = IF q = p THEN v ELSE naked[q]
  BY DEF SharedTypes
<1>2. \A o \in Objects : o # NoObject
  BY SharedAssumption
<1>3. QED
  BY <1>1, <1>2 DEF HoldersOf

(* A null pointer that takes over what another one has.                    *)
LEMMA Handing ==
  ASSUME SharedTypes, NEW p \in Pointers, NEW g \in Pointers, p # g, naked[p] = NoObject,
         naked' = [naked EXCEPT ![p] = naked[g], ![g] = NoObject]
  PROVE  /\ \A q \in Pointers :
              naked'[q] = IF q = g THEN NoObject ELSE IF q = p THEN naked[g] ELSE naked[q]
         /\ \A o \in Objects :
              HoldersOf(o)' = IF o = naked[g] THEN (HoldersOf(o) \ {g}) \cup {p} ELSE HoldersOf(o)
         /\ \A o \in Objects : p \notin HoldersOf(o)
<1>1. \A q \in Pointers :
        naked'[q] = IF q = g THEN NoObject ELSE IF q = p THEN naked[g] ELSE naked[q]
  BY DEF SharedTypes
<1>2. \A o \in Objects : o # NoObject
  BY SharedAssumption
<1>3. QED
  BY <1>1, <1>2 DEF HoldersOf

(* A pointer belongs to one thread, so what two threads have in hand       *)
(* differs; and a thread that is idle has nothing in hand.                 *)
LEMMA Apart ==
  ASSUME SharedTypes, OwnPointers, NEW t \in Holders, NEW q \in Pointers,
         doing[t].how # "none", doing[OwnerOf[q]] = Idle \/ OwnerOf[q] # t
  PROVE  doing[t].p # q /\ doing[t].p \in Pointers
BY DEF OwnPointers, Of, Idle

(* An object somebody points to is not deleted, and its count is right.    *)
LEMMA InUse ==
  ASSUME SharedInv, NEW p \in Pointers, naked[p] # NoObject
  PROVE  /\ naked[p] \in Objects /\ naked[p] \in created
         /\ p \in HoldersOf(naked[p])
         /\ deletes[naked[p]] = 0
         /\ count[naked[p]] = Cardinality(HoldersOf(naked[p]))
<1>1. naked[p] \in Objects /\ naked[p] \in created /\ p \in HoldersOf(naked[p])
  BY DEF SharedInv, SharedTypes, OnlyCreated, HoldersOf, Refs
<1>2. ~(deletes[naked[p]] > 0)
  BY <1>1 DEF SharedInv, NotDeletedInUse
<1>3. deletes[naked[p]] \in 0 .. 1
  BY <1>1 DEF SharedInv, SharedTypes
<1>4. deletes[naked[p]] = 0
  BY <1>2, <1>3
<1>5. QED
  BY <1>1, <1>4 DEF SharedInv, CountsPointers

(* What a thread knows stays true when its pointer and, if it is the only  *)
(* one, its object are left alone.                                         *)
LEMMA KnowsKept ==
  ASSUME NEW t \in Holders, Knows(t), doing'[t] = doing[t],
         doing[t].how # "none" => naked'[doing[t].p] = naked[doing[t].p],
         doing[t].how # "none" /\ doing[t].seen = 1 =>
           {q \in Pointers : naked'[q] = naked[doing[t].p]} = HoldersOf(naked[doing[t].p])
  PROVE  Knows(t)'
BY DEF Knows, HoldersOf

(* No holder of the object, except t's own pointer, when t loaded 1.       *)
LEMMA Alone ==
  ASSUME SharedInv, NEW t \in Holders, NEW q \in Pointers,
         doing[t].how # "none", doing[t].seen = 1,
         doing[OwnerOf[q]] = Idle \/ OwnerOf[q] # t
  PROVE  naked[q] # naked[doing[t].p]
<1>1. doing[t].p # q
  BY Apart DEF SharedInv
<1>2. HoldersOf(naked[doing[t].p]) = {doing[t].p}
  BY DEF SharedInv, LoadsHold, Knows
<1>3. QED
  BY <1>1, <1>2 DEF HoldersOf

(* delete_me has been called.                                              *)
LEMMA Begins ==
  ASSUME SharedInv, NEW p \in Pointers, NEW g \in Of(OwnerOf[p]), NEW how \in Kinds,
         how # "end" => p # g, Begin(p, how, g)
  PROVE  SharedInv'
<1> DEFINE t == OwnerOf[p]
           seen == IF naked[p] = NoObject THEN 0 ELSE count[naked[p]]
<1>1. t \in Holders /\ p \in Of(t) /\ g \in Pointers
  BY SharedAssumption DEF Of
<1>2. /\ UNCHANGED <<naked, count, created, deletes, stale>>
      /\ doing' = [doing EXCEPT ![t] = [p |-> p, how |-> how, from |-> g, seen |-> seen]]
  BY DEF Begin
<1>3. /\ seen \in Loads
      /\ naked[p] # NoObject => seen = Cardinality(HoldersOf(naked[p])) /\ p \in HoldersOf(naked[p])
  <2>1. CASE naked[p] = NoObject
    <3>1. 0 \in Loads
      BY FS_CardinalityType, SharedAssumption DEF Loads
    <3>2. QED
      BY <2>1, <3>1
  <2>2. CASE naked[p] # NoObject
    BY <2>2, InUse DEF SharedInv, SharedTypes
  <2>3. QED
    BY <2>1, <2>2
<1>4. SharedTypes'
  <2>1. [p |-> p, how |-> how, from |-> g, seen |-> seen]
          \in [p : Places, seen : Loads, how : Kinds \cup {"none"}, from : Places]
    BY <1>1, <1>3 DEF Places
  <2>2. doing' \in [Holders -> [p : Places, seen : Loads, how : Kinds \cup {"none"}, from : Places]]
    BY <1>2, <2>1 DEF SharedInv, SharedTypes
  <2>3. QED
    BY <1>2, <2>2 DEF SharedInv, SharedTypes
<1>5. \A u \in Holders :
        doing'[u] = IF u = t THEN [p |-> p, how |-> how, from |-> g, seen |-> seen] ELSE doing[u]
  BY <1>2 DEF SharedInv, SharedTypes
<1>6. OwnPointers'
  BY <1>1, <1>5 DEF SharedInv, OwnPointers, Of, Idle
<1>7. LoadsHold'
  <2>1. ASSUME NEW u \in Holders, u # t PROVE Knows(u)'
    BY <1>2, <1>5, <2>1 DEF SharedInv, LoadsHold, Knows, HoldersOf
  <2>2. seen = 0 <=> naked[p] = NoObject
    <3>1. ASSUME naked[p] # NoObject PROVE Cardinality(HoldersOf(naked[p])) # 0
      BY <1>3, <3>1, HoldersSubset, FewHolders, FS_EmptySet
    <3>2. QED
      BY <1>3, <3>1
  <2>3. ASSUME seen = 1 PROVE HoldersOf(naked[p]) = {p}
    <3>1. naked[p] # NoObject /\ Cardinality(HoldersOf(naked[p])) = 1 /\ p \in HoldersOf(naked[p])
      BY <1>3, <2>2, <2>3
    <3>2. IsFiniteSet(HoldersOf(naked[p]))
      BY HoldersSubset, FewHolders
    <3>3. \E x : HoldersOf(naked[p]) = {x}
      BY <3>1, <3>2, FS_Singleton
    <3>4. QED
      BY <3>1, <3>3
  <2>4. Knows(t)'
    <3>1. doing'[t].p = p /\ doing'[t].seen = seen
      BY <1>1, <1>5
    <3>2. naked' = naked /\ HoldersOf(naked[p]) = {q \in Pointers : naked'[q] = naked[p]}
      BY <1>2 DEF HoldersOf
    <3>3. doing'[t].seen = 0 <=> naked'[doing'[t].p] = NoObject
      BY <3>1, <3>2, <2>2
    <3>4. doing'[t].seen = 1 =>
            {q \in Pointers : naked'[q] = naked'[doing'[t].p]} = {doing'[t].p}
      BY <3>1, <3>2, <2>3
    <3>5. QED
      BY <3>3, <3>4 DEF Knows, HoldersOf
  <2>5. QED
    BY <2>1, <2>4 DEF LoadsHold
<1>8. (OnlyCreated /\ CountsPointers /\ NotDeletedInUse)'
  BY <1>2 DEF SharedInv, OnlyCreated, CountsPointers, NotDeletedInUse, HoldersOf
<1>9. QED
  BY <1>4, <1>6, <1>7, <1>8 DEF SharedInv

(* A new object.                                                           *)
LEMMA Constructs ==
  ASSUME SharedInv, NEW p \in Pointers, Construct(p)
  PROVE  SharedInv'
<1>1. PICK o \in Objects \ created :
        /\ created' = created \cup {o}
        /\ naked' = [naked EXCEPT ![p] = o]
        /\ count' = [count EXCEPT ![o] = 1]
  BY DEF Construct
<1>2. naked[p] = NoObject /\ doing[OwnerOf[p]] = Idle /\ UNCHANGED <<deletes, doing, stale>>
  BY DEF Construct
<1>3. /\ \A q \in Pointers : naked'[q] = IF q = p THEN o ELSE naked[q]
      /\ \A x \in Objects :
           HoldersOf(x)' = IF x = o THEN HoldersOf(x) \cup {p} ELSE HoldersOf(x)
  <2>1. SharedTypes /\ o \in Refs
    BY DEF SharedInv, Refs
  <2>2. QED
    BY <1>1, <1>2, <2>1, Filling
<1>4. HoldersOf(o) = {}
  BY SharedAssumption DEF SharedInv, OnlyCreated, HoldersOf
<1>5. HoldersOf(o)' = {p} /\ Cardinality({p}) = 1 /\ 1 \in Loads
  <2>1. Cardinality({p}) = 1
    BY FS_Singleton
  <2>2. QED
    BY <1>3, <1>4, <2>1, FewHolders
<1>6. \A x \in Objects : count'[x] = IF x = o THEN 1 ELSE count[x]
  BY <1>1 DEF SharedInv, SharedTypes
<1>7. SharedTypes'
  <2>1. naked' \in [Pointers -> Refs]
    BY <1>1 DEF SharedInv, SharedTypes, Refs
  <2>2. count' \in [Objects -> Loads]
    BY <1>1, <1>5 DEF SharedInv, SharedTypes
  <2>3. QED
    BY <1>1, <1>2, <2>1, <2>2 DEF SharedInv, SharedTypes
<1>8. OwnPointers'
  BY <1>2 DEF SharedInv, OwnPointers, Of
<1>9. OnlyCreated'
  BY <1>1, <1>2, <1>3 DEF SharedInv, OnlyCreated
<1>10. LoadsHold'
  <2>1. ASSUME NEW t \in Holders PROVE Knows(t)'
    <3>1. doing[t].how # "none" => doing[t].p # p /\ doing[t].p \in Pointers
      BY <1>2, Apart DEF SharedInv
    <3>2. ASSUME doing[t].how # "none", doing[t].seen = 1
          PROVE  {q \in Pointers : naked'[q] = naked[doing[t].p]} = HoldersOf(naked[doing[t].p])
      <4>1. naked[doing[t].p] # NoObject
        BY <3>2 DEF SharedInv, LoadsHold, Knows
      <4>2. naked[doing[t].p] \in created
        BY <3>1, <3>2, <4>1 DEF SharedInv, OnlyCreated
      <4>3. QED
        BY <1>2, <1>3, <4>1, <4>2 DEF HoldersOf
    <3>3. doing[t].how # "none" => naked'[doing[t].p] = naked[doing[t].p]
      BY <1>3, <3>1
    <3>4. doing'[t] = doing[t] /\ Knows(t)
      BY <1>2 DEF SharedInv, LoadsHold
    <3>5. QED
      BY <3>2, <3>3, <3>4, KnowsKept
  <2>2. QED
    BY <2>1 DEF LoadsHold
<1>11. CountsPointers'
  BY <1>1, <1>2, <1>3, <1>5, <1>6 DEF SharedInv, SharedTypes, CountsPointers
<1>12. NotDeletedInUse'
  <2>1. ~(deletes[o] > 0)
    BY <1>1 DEF SharedInv, OnlyCreated
  <2>2. QED
    BY <1>2, <1>3, <2>1 DEF SharedInv, NotDeletedInUse
<1>13. QED
  BY <1>7, <1>8, <1>9, <1>10, <1>11, <1>12 DEF SharedInv

(* One of two pointers to the same object is given up.                     *)
LEMMA MovesSame ==
  ASSUME SharedInv, NEW p \in Pointers, NEW g \in Of(OwnerOf[p]), MoveSame(p, g)
  PROVE  SharedInv'
<1>0. PICK o \in Objects : o = naked[p]
  BY InUse DEF MoveSame
<1>1. /\ p # g /\ g \in Pointers /\ naked[g] = o /\ o # NoObject
      /\ doing[OwnerOf[p]] = Idle /\ doing[OwnerOf[g]] = Idle
      /\ count' = [count EXCEPT ![o] = @ - 1]
      /\ naked' = [naked EXCEPT ![g] = NoObject]
      /\ UNCHANGED <<created, deletes, doing, stale>>
  BY <1>0 DEF MoveSame, Of
<1>2. /\ \A q \in Pointers : naked'[q] = IF q = g THEN NoObject ELSE naked[q]
      /\ \A x \in Objects :
           HoldersOf(x)' = IF x = o THEN HoldersOf(x) \ {g} ELSE HoldersOf(x)
  BY <1>1, Emptying DEF SharedInv
<1>3. /\ g \in HoldersOf(o) /\ deletes[o] = 0
      /\ count[o] = Cardinality(HoldersOf(o))
  BY <1>1, InUse
<1>4. Cardinality(HoldersOf(o)') = count[o] - 1 /\ Cardinality(HoldersOf(o)') \in Loads
  <2>1. HoldersOf(o)' = HoldersOf(o) \ {g}
    BY <1>2, <1>3
  <2>2. HoldersOf(o) \in SUBSET Pointers /\ HoldersOf(o) \ {g} \in SUBSET Pointers
    BY HoldersSubset
  <2>3. Cardinality(HoldersOf(o) \ {g}) = Cardinality(HoldersOf(o)) - 1
    BY <1>3, <2>2, FewHolders
  <2>4. Cardinality(HoldersOf(o) \ {g}) \in Loads
    BY <2>2, FewHolders
  <2>5. QED
    BY <1>3, <2>1, <2>3, <2>4
<1>5. \A x \in Objects : count'[x] = IF x = o THEN count[o] - 1 ELSE count[x]
  BY <1>1, <1>3 DEF SharedInv, SharedTypes
<1>6. SharedTypes'
  <2>1. naked' \in [Pointers -> Refs]
    BY <1>1 DEF SharedInv, SharedTypes, Refs
  <2>2. count' \in [Objects -> Loads]
    <3>1. count[o] - 1 \in Loads
      BY <1>4
    <3>2. QED
      BY <1>1, <1>3, <3>1 DEF SharedInv, SharedTypes
  <2>3. QED
    BY <1>1, <2>1, <2>2 DEF SharedInv, SharedTypes
<1>7. OwnPointers'
  BY <1>1 DEF SharedInv, OwnPointers, Of
<1>8. OnlyCreated'
  BY <1>1, <1>2 DEF SharedInv, OnlyCreated
<1>9. LoadsHold'
  <2>1. ASSUME NEW t \in Holders PROVE Knows(t)'
    <3>1. doing[t].how # "none" => doing[t].p # g /\ doing[t].p \in Pointers
      BY <1>1, Apart DEF SharedInv
    <3>2. ASSUME doing[t].how # "none", doing[t].seen = 1
          PROVE  {q \in Pointers : naked'[q] = naked[doing[t].p]} = HoldersOf(naked[doing[t].p])
      <4>1. naked[doing[t].p] # NoObject
        BY <3>2 DEF SharedInv, LoadsHold, Knows
      <4>2. naked[g] # naked[doing[t].p]
        BY <1>1, <3>2, Alone
      <4>3. QED
        BY <1>2, <4>1, <4>2 DEF HoldersOf
    <3>3. doing[t].how # "none" => naked'[doing[t].p] = naked[doing[t].p]
      BY <1>2, <3>1
    <3>4. doing'[t] = doing[t] /\ Knows(t)
      BY <1>1 DEF SharedInv, LoadsHold
    <3>5. QED
      BY <3>2, <3>3, <3>4, KnowsKept
  <2>2. QED
    BY <2>1 DEF LoadsHold
<1>10. CountsPointers'
  BY <1>1, <1>2, <1>4, <1>5 DEF SharedInv, SharedTypes, CountsPointers
<1>11. NotDeletedInUse'
  BY <1>1, <1>2, <1>3 DEF SharedInv, NotDeletedInUse
<1>12. QED
  BY <1>6, <1>7, <1>8, <1>9, <1>10, <1>11 DEF SharedInv

(* What the two ends of delete_me have in common: p was t's pointer to o.  *)
EmptiedAt(t, p, o) ==
  /\ p = doing[t].p /\ o = naked[p] /\ p \in HoldersOf(o)
  /\ o \in created /\ deletes[o] = 0 /\ count[o] = Cardinality(HoldersOf(o))
  /\ doing[t].seen = 1 => HoldersOf(o) = {p}
  /\ HoldersOf(o)' = HoldersOf(o) \ {p}
  /\ \A x \in Objects : x # o => HoldersOf(x)' = HoldersOf(x)
  /\ naked' \in [Pointers -> Refs]
  /\ doing' \in [Holders ->
       [p : Places, seen : Loads, how : Kinds \cup {"none"}, from : Places]]
  /\ \A q \in Pointers : naked'[q] # NoObject => naked'[q] \in created'
  /\ created' = created
  /\ OwnPointers' /\ LoadsHold'

LEMMA Empties ==
  ASSUME SharedInv, NEW t \in Holders, doing[t].seen # 0, Emptied(t)
  PROVE  \E p \in Pointers, o \in Objects : EmptiedAt(t, p, o)
<1>1. /\ doing[t].p \in Of(t) /\ doing[t].from \in Of(t) /\ doing[t].how \in Kinds
      /\ doing[t].how # "end" => doing[t].p # doing[t].from
  BY DEF SharedInv, OwnPointers, Idle
<1>2. PICK p \in Pointers : p = doing[t].p
  BY <1>1 DEF Of
<1>3. OwnerOf[p] = t /\ naked[p] # NoObject /\ (doing[t].seen = 1 => HoldersOf(naked[p]) = {p})
  BY <1>1, <1>2 DEF SharedInv, LoadsHold, Knows, Of, Kinds
<1>4. PICK o \in Objects : o = naked[p]
  BY <1>3, InUse
<1>5. /\ p \in HoldersOf(o) /\ o \in created /\ deletes[o] = 0
      /\ count[o] = Cardinality(HoldersOf(o))
  BY <1>3, <1>4, InUse
<1>6. /\ naked' = [naked EXCEPT ![p] = NoObject]
      /\ doing' = [doing EXCEPT ![t].seen = 0]
      /\ created' = created
  BY <1>2 DEF Emptied
<1>7. /\ \A q \in Pointers : naked'[q] = IF q = p THEN NoObject ELSE naked[q]
      /\ \A x \in Objects :
           HoldersOf(x)' = IF x = o THEN HoldersOf(x) \ {p} ELSE HoldersOf(x)
  BY <1>3, <1>4, <1>6, Emptying DEF SharedInv
<1>8. /\ \A u \in Holders : u # t => doing'[u] = doing[u]
      /\ doing'[t].p = doing[t].p /\ doing'[t].from = doing[t].from
      /\ doing'[t].how = doing[t].how /\ doing'[t].seen = 0
  BY <1>6 DEF SharedInv, SharedTypes
<1>9. naked' \in [Pointers -> Refs]
  BY <1>6 DEF SharedInv, SharedTypes, Refs
<1>10. doing' \in [Holders ->
         [p : Places, seen : Loads, how : Kinds \cup {"none"}, from : Places]]
  <2>1. 0 \in Loads
    BY FS_CardinalityType, SharedAssumption DEF Loads
  <2>2. QED
    BY <1>6, <2>1 DEF SharedInv, SharedTypes
<1>11. \A q \in Pointers : naked'[q] # NoObject => naked'[q] \in created'
  BY <1>6, <1>7 DEF SharedInv, OnlyCreated
<1>12. OwnPointers'
  <2>1. ASSUME NEW u \in Holders, u # t
        PROVE  \/ doing'[u] = Idle
               \/ /\ doing'[u].p \in Of(u) /\ doing'[u].from \in Of(u) /\ doing'[u].how \in Kinds
                  /\ doing'[u].how # "end" => doing'[u].p # doing'[u].from
    BY <1>8, <2>1 DEF SharedInv, OwnPointers
  <2>2. /\ doing'[t].p \in Of(t) /\ doing'[t].from \in Of(t) /\ doing'[t].how \in Kinds
        /\ doing'[t].how # "end" => doing'[t].p # doing'[t].from
    BY <1>1, <1>8
  <2>3. QED
    BY <2>1, <2>2 DEF OwnPointers, Of
<1>13. LoadsHold'
  <2>1. ASSUME NEW u \in Holders, u # t PROVE Knows(u)'
    <3>1. doing[u].how # "none" => doing[u].p # p /\ doing[u].p \in Pointers
      BY <1>3, <2>1, Apart DEF SharedInv
    <3>2. ASSUME doing[u].how # "none", doing[u].seen = 1
          PROVE  {q \in Pointers : naked'[q] = naked[doing[u].p]} = HoldersOf(naked[doing[u].p])
      <4>1. naked[doing[u].p] # NoObject
        BY <3>2 DEF SharedInv, LoadsHold, Knows
      <4>2. naked[p] # naked[doing[u].p]
        BY <1>3, <2>1, <3>2, Alone
      <4>3. QED
        BY <1>7, <4>1, <4>2 DEF HoldersOf
    <3>3. doing[u].how # "none" => naked'[doing[u].p] = naked[doing[u].p]
      BY <1>7, <3>1
    <3>4. doing'[u] = doing[u] /\ Knows(u)
      BY <1>8, <2>1 DEF SharedInv, LoadsHold
    <3>5. QED
      BY <3>2, <3>3, <3>4, KnowsKept
  <2>2. Knows(t)'
    <3>1. naked'[doing'[t].p] = NoObject /\ doing'[t].seen = 0
      BY <1>2, <1>7, <1>8
    <3>2. QED
      BY <3>1 DEF Knows
  <2>3. QED
    BY <2>1, <2>2 DEF LoadsHold
<1>14. QED
  BY <1>2, <1>3, <1>4, <1>5, <1>6, <1>7, <1>9, <1>10, <1>11, <1>12, <1>13 DEF EmptiedAt

(* delete naked.                                                           *)
LEMMA Deletes ==
  ASSUME SharedInv, NEW t \in Holders, Delete(t)
  PROVE  SharedInv'
<1>1. /\ doing[t].seen = 1 /\ Emptied(t)
      /\ deletes' = [deletes EXCEPT ![naked[doing[t].p]] = @ + 1]
      /\ UNCHANGED <<count, stale>>
  BY DEF Delete
<1>2. PICK p \in Pointers, o \in Objects : EmptiedAt(t, p, o)
  BY <1>1, Empties
<1>3. deletes' \in [Objects -> 0 .. 1]
      /\ \A x \in Objects : deletes'[x] = IF x = o THEN 1 ELSE deletes[x]
  <2>1. deletes' = [deletes EXCEPT ![o] = 1]
    BY <1>1, <1>2 DEF EmptiedAt
  <2>2. QED
    BY <2>1 DEF SharedInv, SharedTypes
<1>4. HoldersOf(o)' = {}
  BY <1>1, <1>2 DEF EmptiedAt
<1>5. SharedTypes'
  BY <1>1, <1>2, <1>3 DEF EmptiedAt, SharedInv, SharedTypes
<1>6. OnlyCreated'
  BY <1>2, <1>3 DEF EmptiedAt, SharedInv, OnlyCreated
<1>7. CountsPointers'
  BY <1>1, <1>2, <1>3 DEF EmptiedAt, SharedInv, SharedTypes, CountsPointers
<1>8. NotDeletedInUse'
  BY <1>2, <1>3, <1>4 DEF EmptiedAt, SharedInv, NotDeletedInUse
<1>9. QED
  BY <1>2, <1>5, <1>6, <1>7, <1>8 DEF EmptiedAt, SharedInv

(* counter->count--.                                                       *)
LEMMA Decrements ==
  ASSUME SharedInv, NEW t \in Holders, Decrement(t)
  PROVE  SharedInv'
<1>1. /\ doing[t].seen # 0 /\ Emptied(t) /\ UNCHANGED deletes
      /\ count' = [count EXCEPT ![naked[doing[t].p]] = @ - 1]
      /\ stale' \subseteq stale \cup {naked[doing[t].p]}
  <2>1. doing[t].seen > 1
    BY DEF Decrement
  <2>2. doing[t].seen # 0
    BY <2>1
  <2>3. QED
    BY <2>2 DEF Decrement
<1>2. PICK p \in Pointers, o \in Objects : EmptiedAt(t, p, o)
  BY <1>1, Empties
<1>3. Cardinality(HoldersOf(o)') = count[o] - 1 /\ Cardinality(HoldersOf(o)') \in Loads
  <2>1. HoldersOf(o) \in SUBSET Pointers /\ HoldersOf(o) \ {p} \in SUBSET Pointers
    BY HoldersSubset
  <2>2. Cardinality(HoldersOf(o) \ {p}) = Cardinality(HoldersOf(o)) - 1
    BY <1>2, <2>1, FewHolders DEF EmptiedAt
  <2>3. Cardinality(HoldersOf(o) \ {p}) \in Loads
    BY <2>1, FewHolders
  <2>4. QED
    BY <1>2, <2>2, <2>3 DEF EmptiedAt
<1>4. count' \in [Objects -> Loads]
      /\ \A x \in Objects : count'[x] = IF x = o THEN count[o] - 1 ELSE count[x]
  <2>1. count[o] - 1 \in Loads
    BY <1>3
  <2>2. count' = [count EXCEPT ![o] = count[o] - 1]
    BY <1>1, <1>2 DEF EmptiedAt
  <2>3. QED
    BY <2>1, <2>2 DEF SharedInv, SharedTypes
<1>5. SharedTypes'
  BY <1>1, <1>2, <1>4 DEF EmptiedAt, SharedInv, SharedTypes
<1>6. OnlyCreated'
  BY <1>1, <1>2 DEF EmptiedAt, SharedInv, OnlyCreated
<1>7. CountsPointers'
  <2>1. ASSUME NEW x \in Objects, x # o, x \in created', deletes'[x] = 0
        PROVE  count'[x] = Cardinality(HoldersOf(x)')
    <3>1. count'[x] = count[x] /\ HoldersOf(x)' = HoldersOf(x)
      BY <1>2, <1>4, <2>1 DEF EmptiedAt
    <3>2. x \in created /\ deletes[x] = 0
      BY <1>1, <1>2, <2>1 DEF EmptiedAt
    <3>3. QED
      BY <3>1, <3>2 DEF SharedInv, CountsPointers
  <2>2. count'[o] = Cardinality(HoldersOf(o)')
    BY <1>3, <1>4
  <2>3. created' \subseteq Objects
    BY <1>5 DEF SharedTypes
  <2>4. QED
    BY <2>1, <2>2, <2>3 DEF CountsPointers
<1>8. NotDeletedInUse'
  BY <1>1, <1>2 DEF EmptiedAt, SharedInv, NotDeletedInUse
<1>9. QED
  BY <1>2, <1>5, <1>6, <1>7, <1>8 DEF EmptiedAt, SharedInv

(* What follows delete_me: t is idle again, and p was null.                *)
FinishedAt(t, p, g) ==
  /\ p = doing[t].p /\ g = doing[t].from /\ p \in Of(t) /\ g \in Of(t)
  /\ naked[p] = NoObject
  /\ doing[t].how # "end" => p # g
  /\ doing'[t] = Idle /\ \A u \in Holders : u # t => doing'[u] = doing[u]
  /\ doing' \in [Holders ->
       [p : Places, seen : Loads, how : Kinds \cup {"none"}, from : Places]]
  /\ OwnPointers' /\ deletes' = deletes /\ stale' = stale

LEMMA Finishes ==
  ASSUME SharedInv, NEW t \in Holders, Done(t)
  PROVE  \E p \in Pointers, g \in Pointers : FinishedAt(t, p, g)
<1>1. /\ doing[t].how # "none" /\ doing[t].seen = 0
      /\ doing' = [doing EXCEPT ![t] = Idle] /\ deletes' = deletes /\ stale' = stale
  BY DEF Done
<1>2. /\ doing[t].p \in Of(t) /\ doing[t].from \in Of(t)
      /\ doing[t].how # "end" => doing[t].p # doing[t].from
  BY <1>1 DEF SharedInv, OwnPointers, Idle
<1>3. PICK p \in Pointers, g \in Pointers : p = doing[t].p /\ g = doing[t].from
  BY <1>2 DEF Of
<1>4. naked[p] = NoObject
  BY <1>1, <1>3 DEF SharedInv, LoadsHold, Knows
<1>5. doing'[t] = Idle /\ \A u \in Holders : u # t => doing'[u] = doing[u]
  BY <1>1 DEF SharedInv, SharedTypes
<1>6. doing' \in [Holders ->
        [p : Places, seen : Loads, how : Kinds \cup {"none"}, from : Places]]
  <2>1. 0 \in Loads
    BY FS_CardinalityType, SharedAssumption DEF Loads
  <2>2. Idle \in [p : Places, seen : Loads, how : Kinds \cup {"none"}, from : Places]
    BY <2>1 DEF Idle, Places
  <2>3. QED
    BY <1>1, <2>2 DEF SharedInv, SharedTypes
<1>7. OwnPointers'
  BY <1>5 DEF SharedInv, OwnPointers, Of
<1>8. QED
  BY <1>1, <1>2, <1>3, <1>4, <1>5, <1>6, <1>7 DEF FinishedAt

(* What the others know survives a step that hands around t's pointers.    *)
LEMMA OthersKnow ==
  ASSUME SharedInv, NEW t \in Holders, doing'[t] = Idle,
         \A u \in Holders : u # t => doing'[u] = doing[u],
         \A q \in Pointers :
           \/ naked'[q] = naked[q]
           \/ OwnerOf[q] = t /\ (naked'[q] = NoObject \/ \E g \in Of(t) : naked'[q] = naked[g])
  PROVE  LoadsHold'
<1>1. Knows(t)'
  BY DEF Knows, Idle
<1>2. ASSUME NEW u \in Holders, u # t PROVE Knows(u)'
  <2>1. doing[u].how # "none" => doing[u].p \in Pointers /\ OwnerOf[doing[u].p] = u
    BY DEF SharedInv, OwnPointers, Of, Idle
  <2>2. doing[u].how # "none" => naked'[doing[u].p] = naked[doing[u].p]
    BY <1>2, <2>1
  <2>3. ASSUME doing[u].how # "none", doing[u].seen = 1
        PROVE  {q \in Pointers : naked'[q] = naked[doing[u].p]} = HoldersOf(naked[doing[u].p])
    <3>1. naked[doing[u].p] # NoObject
      BY <2>3 DEF SharedInv, LoadsHold, Knows
    <3>2. ASSUME NEW q \in Pointers, OwnerOf[q] = t PROVE naked[q] # naked[doing[u].p]
      BY <1>2, <2>3, <3>2, Alone
    <3>3. ASSUME NEW q \in Pointers
          PROVE  naked'[q] = naked[doing[u].p] <=> naked[q] = naked[doing[u].p]
      <4>1. CASE naked'[q] = naked[q]
        BY <4>1
      <4>2. CASE OwnerOf[q] = t /\ (naked'[q] = NoObject \/ \E g \in Of(t) : naked'[q] = naked[g])
        BY <3>1, <3>2, <4>2 DEF Of
      <4>3. QED
        BY <4>1, <4>2
    <3>4. QED
      BY <3>3 DEF HoldersOf
  <2>4. doing'[u] = doing[u] /\ Knows(u)
    BY <1>2 DEF SharedInv, LoadsHold
  <2>5. QED
    BY <2>2, <2>3, <2>4, KnowsKept
<1>3. QED
  BY <1>1, <1>2 DEF LoadsHold

(* The destructor returns.                                                 *)
LEMMA Destroys ==
  ASSUME SharedInv, NEW t \in Holders, Destroyed(t)
  PROVE  SharedInv'
<1>1. Done(t) /\ UNCHANGED <<naked, count, created>>
  BY DEF Destroyed
<1>2. PICK p \in Pointers, g \in Pointers : FinishedAt(t, p, g)
  BY <1>1, Finishes
<1>3. SharedTypes'
  BY <1>1, <1>2 DEF FinishedAt, SharedInv, SharedTypes
<1>4. LoadsHold'
  BY <1>1, <1>2, OthersKnow DEF FinishedAt
<1>5. (OnlyCreated /\ CountsPointers /\ NotDeletedInUse)'
  BY <1>1, <1>2
  DEF FinishedAt, SharedInv, OnlyCreated, CountsPointers, NotDeletedInUse, HoldersOf
<1>6. QED
  BY <1>2, <1>3, <1>4, <1>5 DEF FinishedAt, SharedInv

(* copy: one pointer and one count more.                                   *)
LEMMA Copies ==
  ASSUME SharedInv, NEW t \in Holders, Copied(t)
  PROVE  SharedInv'
<1>1. Done(t) /\ doing[t].how = "copy" /\ created' = created
  BY DEF Copied
<1>2. PICK p \in Pointers, g \in Pointers : FinishedAt(t, p, g)
  BY <1>1, Finishes
<1>3. PICK v \in Refs : v = naked[g]
  BY DEF SharedInv, SharedTypes
<1>4. /\ naked' = [naked EXCEPT ![p] = v]
      /\ count' = IF v = NoObject THEN count ELSE [count EXCEPT ![v] = @ + 1]
  BY <1>2, <1>3 DEF Copied, FinishedAt
<1>5. /\ \A q \in Pointers : naked'[q] = IF q = p THEN v ELSE naked[q]
      /\ \A x \in Objects :
           HoldersOf(x)' = IF x = v THEN HoldersOf(x) \cup {p} ELSE HoldersOf(x)
      /\ \A x \in Objects : p \notin HoldersOf(x)
  <2>1. SharedTypes /\ naked[p] = NoObject
    BY <1>2 DEF FinishedAt, SharedInv
  <2>2. QED
    BY <1>4, <2>1, Filling
<1>6. naked' \in [Pointers -> Refs]
  BY <1>4 DEF SharedInv, SharedTypes
<1>7. v # NoObject =>
        /\ v \in Objects /\ v \in created /\ deletes[v] = 0
        /\ count[v] + 1 = Cardinality(HoldersOf(v)') /\ count[v] + 1 \in Loads
  <2>1. ASSUME v # NoObject
        PROVE  /\ v \in Objects /\ v \in created /\ deletes[v] = 0
               /\ count[v] = Cardinality(HoldersOf(v))
    BY <1>3, <2>1, InUse
  <2>2. ASSUME v # NoObject
        PROVE  count[v] + 1 = Cardinality(HoldersOf(v)') /\ count[v] + 1 \in Loads
    <3>1. HoldersOf(v) \in SUBSET Pointers /\ HoldersOf(v) \cup {p} \in SUBSET Pointers
      BY HoldersSubset
    <3>2. Cardinality(HoldersOf(v) \cup {p}) = Cardinality(HoldersOf(v)) + 1
      BY <1>5, <2>1, <2>2, <3>1, FewHolders
    <3>3. Cardinality(HoldersOf(v) \cup {p}) \in Loads
      BY <3>1, FewHolders
    <3>4. QED
      BY <1>5, <2>1, <2>2, <3>2, <3>3
  <2>3. QED
    BY <2>1, <2>2
<1>8. /\ count' \in [Objects -> Loads]
      /\ \A x \in Objects : count'[x] = IF x = v THEN count[v] + 1 ELSE count[x]
  <2>1. CASE v = NoObject
    BY <1>4, <2>1, SharedAssumption DEF SharedInv, SharedTypes
  <2>2. CASE v # NoObject
    <3>1. count' = [count EXCEPT ![v] = count[v] + 1] /\ count[v] + 1 \in Loads
      BY <1>4, <1>7, <2>2
    <3>2. count \in [Objects -> Loads] /\ v \in Objects
      BY <1>7, <2>2 DEF SharedInv, SharedTypes
    <3>3. QED
      BY <3>1, <3>2
  <2>3. QED
    BY <2>1, <2>2
<1>9. SharedTypes'
  BY <1>1, <1>2, <1>6, <1>8 DEF FinishedAt, SharedInv, SharedTypes
<1>10. LoadsHold'
  <2>1. \A q \in Pointers :
          \/ naked'[q] = naked[q]
          \/ OwnerOf[q] = t /\ (naked'[q] = NoObject \/ \E h \in Of(t) : naked'[q] = naked[h])
    BY <1>2, <1>3, <1>5 DEF FinishedAt, Of
  <2>2. QED
    BY <1>2, <2>1, OthersKnow DEF FinishedAt
<1>11. OnlyCreated'
  BY <1>1, <1>2, <1>5, <1>7 DEF FinishedAt, SharedInv, OnlyCreated
<1>12. CountsPointers'
  <2>1. ASSUME NEW x \in created, deletes[x] = 0
        PROVE  count'[x] = Cardinality(HoldersOf(x)')
    <3>1. x \in Objects /\ count[x] = Cardinality(HoldersOf(x))
      BY <2>1 DEF SharedInv, SharedTypes, CountsPointers
    <3>2. CASE x = v
      BY <1>7, <1>8, <3>1, <3>2, SharedAssumption
    <3>3. CASE x # v
      BY <1>5, <1>8, <3>1, <3>3
    <3>4. QED
      BY <3>2, <3>3
  <2>2. QED
    BY <1>1, <1>2, <2>1 DEF FinishedAt, CountsPointers
<1>13. NotDeletedInUse'
  <2>1. ASSUME NEW x \in Objects, deletes[x] > 0 PROVE deletes[x] = 1 /\ HoldersOf(x)' = {}
    <3>1. deletes[x] = 1 /\ HoldersOf(x) = {}
      BY <2>1 DEF SharedInv, NotDeletedInUse
    <3>2. x # v
      BY <1>7, <2>1, <3>1, SharedAssumption
    <3>3. QED
      BY <1>5, <3>1, <3>2
  <2>2. QED
    BY <1>2, <2>1 DEF FinishedAt, NotDeletedInUse
<1>14. QED
  BY <1>2, <1>9, <1>10, <1>11, <1>12, <1>13 DEF FinishedAt, SharedInv

(* The move assignment takes over: as many pointers as before.             *)
LEMMA Moves ==
  ASSUME SharedInv, NEW t \in Holders, Moved(t)
  PROVE  SharedInv'
<1>1. Done(t) /\ doing[t].how = "move" /\ UNCHANGED <<count, created>>
  BY DEF Moved
<1>2. PICK p \in Pointers, g \in Pointers : FinishedAt(t, p, g)
  BY <1>1, Finishes
<1>3. naked' = [naked EXCEPT ![p] = naked[g], ![g] = NoObject] /\ p # g
  BY <1>1, <1>2 DEF Moved, FinishedAt
<1>4. /\ \A q \in Pointers :
           naked'[q] = IF q = g THEN NoObject ELSE IF q = p THEN naked[g] ELSE naked[q]
      /\ \A x \in Objects :
           HoldersOf(x)' = IF x = naked[g] THEN (HoldersOf(x) \ {g}) \cup {p} ELSE HoldersOf(x)
      /\ \A x \in Objects : p \notin HoldersOf(x)
  <2>1. SharedTypes /\ naked[p] = NoObject
    BY <1>2 DEF FinishedAt, SharedInv
  <2>2. QED
    BY <1>3, <2>1, Handing
<1>5. naked' \in [Pointers -> Refs]
  BY <1>3 DEF SharedInv, SharedTypes, Refs
<1>6. \A x \in Objects : Cardinality(HoldersOf(x)') = Cardinality(HoldersOf(x))
  <2>1. ASSUME NEW x \in Objects, x = naked[g]
        PROVE  Cardinality((HoldersOf(x) \ {g}) \cup {p}) = Cardinality(HoldersOf(x))
    <3>1. HoldersOf(x) \in SUBSET Pointers /\ HoldersOf(x) \ {g} \in SUBSET Pointers
      BY HoldersSubset
    <3>2. g \in HoldersOf(x) /\ p \notin HoldersOf(x) \ {g}
      BY <1>4, <2>1 DEF HoldersOf
    <3>3. Cardinality(HoldersOf(x)) \in Loads
      BY <3>1, FewHolders
    <3>4. Cardinality(HoldersOf(x) \ {g}) = Cardinality(HoldersOf(x)) - 1
      BY <3>1, <3>2, FewHolders
    <3>5. Cardinality((HoldersOf(x) \ {g}) \cup {p}) = Cardinality(HoldersOf(x) \ {g}) + 1
      BY <3>1, <3>2, FewHolders
    <3>6. QED
      BY <3>3, <3>4, <3>5 DEF Loads
  <2>2. ASSUME NEW x \in Objects PROVE Cardinality(HoldersOf(x)') = Cardinality(HoldersOf(x))
    <3>1. CASE x = naked[g]
      <4>1. HoldersOf(x)' = (HoldersOf(x) \ {g}) \cup {p}
        BY <1>4, <3>1
      <4>2. QED
        BY <2>1, <3>1, <4>1
    <3>2. CASE x # naked[g]
      <4>1. HoldersOf(x)' = HoldersOf(x)
        BY <1>4, <3>2
      <4>2. QED
        BY <4>1
    <3>3. QED
      BY <3>1, <3>2
  <2>3. QED
    BY <2>2
<1>7. SharedTypes'
  BY <1>1, <1>2, <1>5 DEF FinishedAt, SharedInv, SharedTypes
<1>8. LoadsHold'
  <2>1. \A q \in Pointers :
          \/ naked'[q] = naked[q]
          \/ OwnerOf[q] = t /\ (naked'[q] = NoObject \/ \E h \in Of(t) : naked'[q] = naked[h])
    BY <1>2, <1>4 DEF FinishedAt, Of
  <2>2. QED
    BY <1>2, <2>1, OthersKnow DEF FinishedAt
<1>9. OnlyCreated'
  BY <1>1, <1>2, <1>4 DEF FinishedAt, SharedInv, OnlyCreated
<1>10. CountsPointers'
  <2>1. created \subseteq Objects
    BY DEF SharedInv, SharedTypes
  <2>2. \A x \in created : deletes[x] = 0 => count[x] = Cardinality(HoldersOf(x)')
    BY <1>6, <2>1 DEF SharedInv, CountsPointers
  <2>3. QED
    BY <1>1, <1>2, <2>2 DEF FinishedAt, CountsPointers
<1>11. NotDeletedInUse'
  <2>1. ASSUME NEW x \in Objects, deletes[x] > 0 PROVE deletes[x] = 1 /\ HoldersOf(x)' = {}
    <3>1. deletes[x] = 1 /\ HoldersOf(x) = {}
      BY <2>1 DEF SharedInv, NotDeletedInUse
    <3>2. x # naked[g]
      BY <1>2, <3>1 DEF HoldersOf
    <3>3. QED
      BY <1>4, <3>1, <3>2
  <2>2. QED
    BY <1>2, <2>1 DEF FinishedAt, NotDeletedInUse
<1>12. QED
  BY <1>2, <1>7, <1>8, <1>9, <1>10, <1>11 DEF FinishedAt, SharedInv
-----------------------------------------------------------------------------
(* Before the threads start the count is the number of pointers.           *)
LEMMA SharedInitInv == SharedInit => SharedInv
<1> SUFFICES ASSUME SharedInit PROVE SharedInv
  OBVIOUS
<1>1. naked \in [Pointers -> {First, NoObject}] /\ created = {First} /\ First \in Objects
      /\ deletes = [o \in Objects |-> 0] /\ stale = {}
      /\ doing = [t \in Holders |-> Idle]
      /\ count = [o \in Objects |-> Cardinality(HoldersOf(o))]
  BY SharedAssumption DEF SharedInit
<1>2. count \in [Objects -> Loads]
  <2>1. \A o \in Objects : Cardinality(HoldersOf(o)) \in Loads
    BY HoldersSubset, FewHolders
  <2>2. QED
    BY <1>1, <2>1
<1>3. doing \in [Holders -> [p : Places, seen : Loads, how : Kinds \cup {"none"}, from : Places]]
  <2>1. 0 \in Loads
    BY FS_CardinalityType, SharedAssumption DEF Loads
  <2>2. Idle \in [p : Places, seen : Loads, how : Kinds \cup {"none"}, from : Places]
    BY <2>1 DEF Idle, Places
  <2>3. QED
    BY <1>1, <2>2
<1>4. SharedTypes
  BY <1>1, <1>2, <1>3 DEF SharedTypes, Refs
<1>5. OwnPointers /\ OnlyCreated /\ NotDeletedInUse
  BY <1>1 DEF OwnPointers, OnlyCreated, NotDeletedInUse
<1>6. LoadsHold
  BY <1>1 DEF LoadsHold, Knows, Idle
<1>7. CountsPointers
  BY <1>1 DEF CountsPointers
<1>8. QED
  BY <1>4, <1>5, <1>6, <1>7 DEF SharedInv

(* Nothing happens.                                                        *)
LEMMA SharedStutter == SharedInv /\ UNCHANGED sharedVars => SharedInv'
BY DEF sharedVars, SharedInv, SharedTypes, OwnPointers, OnlyCreated, LoadsHold, Knows,
       CountsPointers, NotDeletedInUse, HoldersOf, Of

(* One step of any thread.                                                 *)
LEMMA SharedStep ==
  SharedInv /\ [SharedNext \/ SharedDone]_sharedVars => SharedInv'
<1> SUFFICES ASSUME SharedInv, [SharedNext \/ SharedDone]_sharedVars PROVE SharedInv'
  OBVIOUS
<1>1. CASE SharedDone \/ UNCHANGED sharedVars
  BY <1>1, SharedStutter DEF SharedDone
<1>2. ASSUME NEW p \in Pointers, Operation(p) PROVE SharedInv'
  <2>1. p \in Of(OwnerOf[p])
    BY DEF Of
  <2>2. CASE Destroy(p)
    <3>1. Begin(p, "end", p) /\ "end" \in Kinds
      BY <2>2 DEF Destroy, Kinds
    <3>2. QED
      BY <2>1, <3>1, Begins
  <2>3. CASE Construct(p)
    BY <2>3, Constructs
  <2>4. ASSUME NEW g \in Of(OwnerOf[p]), CopyAssign(p, g) PROVE SharedInv'
    <3>1. p # g /\ Begin(p, "copy", g) /\ "copy" \in Kinds
      BY <2>4 DEF CopyAssign, Kinds
    <3>2. QED
      BY <3>1, Begins
  <2>5. ASSUME NEW g \in Of(OwnerOf[p]), MoveAssign(p, g) PROVE SharedInv'
    <3>1. p # g /\ Begin(p, "move", g) /\ "move" \in Kinds
      BY <2>5 DEF MoveAssign, Kinds
    <3>2. QED
      BY <3>1, Begins
  <2>6. ASSUME NEW g \in Of(OwnerOf[p]), MoveSame(p, g) PROVE SharedInv'
    BY <2>6, MovesSame
  <2>7. QED
    BY <1>2, <2>2, <2>3, <2>4, <2>5, <2>6 DEF Operation
<1>3. ASSUME NEW t \in Holders, Continue(t) PROVE SharedInv'
  BY <1>3, Deletes, Decrements, Destroys, Copies, Moves DEF Continue
<1>4. QED
  BY <1>1, <1>2, <1>3 DEF SharedNext

(* The shape of the state of SharedPtr.cpp:7-13, and the inductive         *)
(* invariant of its threads.                                               *)
THEOREM SharedPtrIsInductive == SharedSpec => []SharedInv
<1>1. SharedInit => SharedInv
  BY SharedInitInv
<1>2. SharedInv /\ [SharedNext \/ SharedDone]_sharedVars => SharedInv'
  BY SharedStep
<1>3. QED
  BY <1>1, <1>2, PTL DEF SharedSpec

(* Every pointer, count and delete_me has a value of its type              *)
(* (SharedPtr.cpp:7-13), and the count fits the pointers there are.        *)
THEOREM SharedPtrTypes == SharedSpec => []SharedTypeOK
<1>1. SharedInv => SharedTypeOK
  BY DEF SharedInv, SharedTypes, OwnPointers, SharedTypeOK, Refs, Loads
<1>2. QED
  BY <1>1, SharedPtrIsInductive, PTL

(* SharedPtr.cpp:81-99: the count of a live object is the number of        *)
(* pointers to it.                                                         *)
THEOREM SharedPtrCounts == SharedSpec => []CountsPointers
<1>1. SharedInv => CountsPointers
  BY DEF SharedInv
<1>2. QED
  BY <1>1, SharedPtrIsInductive, PTL

(* SharedPtr.cpp:81-92: an object is deleted at most once, and only when   *)
(* nobody points to it, although delete_me tests and decrements in two     *)
(* steps.                                                                  *)
THEOREM SharedPtrDeletesLast == SharedSpec => []NotDeletedInUse
<1>1. SharedInv => NotDeletedInUse
  BY DEF SharedInv
<1>2. QED
  BY <1>1, SharedPtrIsInductive, PTL
-----------------------------------------------------------------------------
(* A step that leaves every object somebody points to with a pointer, or   *)
(* deletes it or marks it, leaks nothing.                                  *)
LEMMA NothingLeaks ==
  ASSUME SharedInv, LeaksOnlyByOverlap, stale \subseteq stale',
         \A o \in created' : HoldersOf(o)' = {} /\ deletes'[o] = 0 =>
           o \in stale' \/ (o \in created /\ HoldersOf(o) = {} /\ deletes[o] = 0)
  PROVE  LeaksOnlyByOverlap'
BY DEF LeaksOnlyByOverlap

(* delete_me: the last pointer either deletes the object, or loaded a      *)
(* count that others have changed since.                                   *)
LEMMA LastIsStale ==
  ASSUME SharedInv, LeaksOnlyByOverlap, NEW t \in Holders, Delete(t) \/ Decrement(t)
  PROVE  LeaksOnlyByOverlap'
<1>0. doing[t].seen # 0 /\ doing[t].how # "none"
  BY DEF Delete, Decrement, SharedInv, OwnPointers, Idle, Kinds
<1>1. PICK p \in Pointers : p = doing[t].p
  BY <1>0 DEF SharedInv, OwnPointers, Of, Idle
<1>2. naked[p] # NoObject
  BY <1>0, <1>1 DEF SharedInv, LoadsHold, Knows
<1>3. PICK o \in Objects : o = naked[p]
  BY <1>2, InUse
<1>4. /\ o \in created /\ p \in HoldersOf(o) /\ deletes[o] = 0
      /\ count[o] = Cardinality(HoldersOf(o))
  BY <1>2, <1>3, InUse
<1>5. naked' = [naked EXCEPT ![p] = NoObject] /\ created' = created
  BY <1>1 DEF Delete, Decrement, Emptied
<1>6. \A x \in Objects : HoldersOf(x)' = IF x = o THEN HoldersOf(o) \ {p} ELSE HoldersOf(x)
  BY <1>2, <1>3, <1>5, Emptying DEF SharedInv
<1>7. created \subseteq Objects /\ deletes \in [Objects -> 0 .. 1]
  BY DEF SharedInv, SharedTypes
<1>8. CASE Delete(t)
  <2>1. deletes' = [deletes EXCEPT ![o] = @ + 1] /\ stale' = stale
    BY <1>1, <1>3, <1>8 DEF Delete
  <2>2. deletes'[o] # 0 /\ \A x \in Objects : x # o => deletes'[x] = deletes[x]
    BY <1>4, <1>7, <2>1
  <2>3. QED
    BY <1>5, <1>6, <1>7, <2>1, <2>2, NothingLeaks
<1>9. CASE Decrement(t)
  <2>1. /\ deletes' = deletes /\ doing[t].seen > 1
        /\ stale' = IF count[o] = doing[t].seen THEN stale ELSE stale \cup {o}
    BY <1>1, <1>3, <1>9 DEF Decrement
  <2>2. ASSUME HoldersOf(o) \ {p} = {} PROVE o \in stale'
    <3>1. HoldersOf(o) = {p}
      BY <1>4, <2>2
    <3>2. count[o] = 1
      BY <1>4, <3>1, FS_Singleton
    <3>3. count[o] # doing[t].seen
      BY <2>1, <3>2
    <3>4. QED
      BY <2>1, <3>3
  <2>3. QED
    BY <1>5, <1>6, <1>7, <2>1, <2>2, NothingLeaks
<1>10. QED
  BY <1>8, <1>9

(* Every other step leaves the objects in use in use.                      *)
LEMMA OthersLeakNothing ==
  ASSUME SharedInv, LeaksOnlyByOverlap, UNCHANGED <<deletes, stale>>,
         \A x \in Objects : x \in created' => x \in created \/ HoldersOf(x)' # {},
         created' \subseteq Objects,
         \A x \in Objects : HoldersOf(x) # {} => HoldersOf(x)' # {}
  PROVE  LeaksOnlyByOverlap'
BY NothingLeaks

LEMMA LeakStep ==
  ASSUME SharedInv, LeaksOnlyByOverlap, [SharedNext \/ SharedDone]_sharedVars
  PROVE  LeaksOnlyByOverlap'
<1>1. ASSUME UNCHANGED <<naked, created, deletes, stale>> PROVE LeaksOnlyByOverlap'
  BY <1>1 DEF LeaksOnlyByOverlap, HoldersOf
<1>2. ASSUME NEW p \in Pointers, Construct(p) PROVE LeaksOnlyByOverlap'
  <2>1. PICK o \in Objects \ created :
          /\ created' = created \cup {o} /\ naked' = [naked EXCEPT ![p] = o]
          /\ naked[p] = NoObject /\ UNCHANGED <<deletes, stale>>
    BY <1>2 DEF Construct
  <2>2. SharedTypes /\ o \in Refs
    BY DEF SharedInv, Refs
  <2>3. \A x \in Objects : HoldersOf(x)' = IF x = o THEN HoldersOf(x) \cup {p} ELSE HoldersOf(x)
    BY <2>1, <2>2, Filling
  <2>4. QED
    BY <2>1, <2>2, <2>3, OthersLeakNothing DEF SharedTypes
<1>3. ASSUME NEW p \in Pointers, NEW g \in Of(OwnerOf[p]), MoveSame(p, g)
      PROVE  LeaksOnlyByOverlap'
  <2>1. /\ p # g /\ naked[p] = naked[g] /\ naked[g] # NoObject /\ g \in Pointers
        /\ naked' = [naked EXCEPT ![g] = NoObject] /\ UNCHANGED <<created, deletes, stale>>
    BY <1>3 DEF MoveSame, Of
  <2>2. SharedTypes
    BY DEF SharedInv
  <2>3. \A x \in Objects :
          HoldersOf(x)' = IF x = naked[g] THEN HoldersOf(x) \ {g} ELSE HoldersOf(x)
    BY <2>1, <2>2, Emptying
  <2>4. p \in HoldersOf(naked[g]) \ {g}
    BY <2>1 DEF HoldersOf
  <2>5. \A x \in Objects : HoldersOf(x) # {} => HoldersOf(x)' # {}
    BY <2>3, <2>4
  <2>6. QED
    BY <2>1, <2>2, <2>5, OthersLeakNothing DEF SharedTypes
<1>4. ASSUME NEW t \in Holders, Copied(t) \/ Moved(t) PROVE LeaksOnlyByOverlap'
  <2>1. Done(t) /\ created' = created /\ UNCHANGED <<deletes, stale>>
    BY <1>4 DEF Copied, Moved, Done
  <2>2. PICK p \in Pointers, g \in Pointers : FinishedAt(t, p, g)
    BY <2>1, Finishes
  <2>3. SharedTypes /\ naked[p] = NoObject /\ naked[g] \in Refs
    BY <2>2 DEF FinishedAt, SharedInv, SharedTypes
  <2>4. \A x \in Objects : HoldersOf(x) # {} => HoldersOf(x)' # {}
    <3>1. CASE Copied(t)
      <4>1. naked' = [naked EXCEPT ![p] = naked[g]]
        BY <2>2, <3>1 DEF Copied, FinishedAt
      <4>2. \A x \in Objects :
              HoldersOf(x)' = IF x = naked[g] THEN HoldersOf(x) \cup {p} ELSE HoldersOf(x)
        BY <2>3, <4>1, Filling
      <4>3. QED
        BY <4>2
    <3>2. CASE Moved(t)
      <4>1. naked' = [naked EXCEPT ![p] = naked[g], ![g] = NoObject] /\ p # g
        BY <2>2, <3>2 DEF Moved, FinishedAt
      <4>2. \A x \in Objects : HoldersOf(x)' =
              IF x = naked[g] THEN (HoldersOf(x) \ {g}) \cup {p} ELSE HoldersOf(x)
        BY <2>3, <4>1, Handing
      <4>3. QED
        BY <4>2
    <3>3. QED
      BY <1>4, <3>1, <3>2
  <2>5. QED
    BY <2>1, <2>3, <2>4, OthersLeakNothing DEF SharedTypes
<1>5. ASSUME NEW p \in Pointers, Operation(p) PROVE LeaksOnlyByOverlap'
  BY <1>1, <1>2, <1>3, <1>5 DEF Operation, Destroy, CopyAssign, MoveAssign, Begin
<1>6. ASSUME NEW t \in Holders, Continue(t) PROVE LeaksOnlyByOverlap'
  BY <1>1, <1>4, <1>6, LastIsStale DEF Continue, Destroyed, Done
<1>7. CASE SharedDone \/ UNCHANGED sharedVars
  BY <1>1, <1>7 DEF SharedDone, sharedVars
<1>8. QED
  BY <1>5, <1>6, <1>7 DEF SharedNext

(* SharedPtr.cpp:81-92: an object that nobody points to was deleted,       *)
(* unless a delete_me decremented a count that had changed since its load. *)
THEOREM SharedPtrLeaks == SharedSpec => []LeaksOnlyByOverlap
<1>1. SharedInit => LeaksOnlyByOverlap
  <2>1. SUFFICES ASSUME SharedInit PROVE HoldersOf(First) # {}
    BY SharedAssumption DEF SharedInit, LeaksOnlyByOverlap
  <2>2. PICK t \in Holders : \E p \in Of(t) : naked[p] = First
    BY <2>1, SharedAssumption DEF SharedInit
  <2>3. QED
    BY <2>2 DEF HoldersOf, Of
<1>2. SharedInv /\ LeaksOnlyByOverlap /\ [SharedNext \/ SharedDone]_sharedVars
        => LeaksOnlyByOverlap'
  BY LeakStep
<1>3. QED
  BY <1>1, <1>2, SharedPtrIsInductive, PTL DEF SharedSpec
-----------------------------------------------------------------------------
(* The lock-free list.                                                     *)

(* Induction over the natural numbers, for a set instead of a predicate.   *)
LEMMA Induction ==
  ASSUME NEW S, 0 \in S, \A n \in Nat : n \in S => n + 1 \in S
  PROVE  Nat \subseteq S
<1> DEFINE Less == OpToRel(<, Nat)
<1> DEFINE T == Nat \ S
<1>1. IsWellFoundedOn(Less, Nat)
  BY NatLessThanWellFounded
<1>2. \A x, y \in Nat : <<x, y>> \in Less <=> x < y
  BY DEF OpToRel
<1> HIDE DEF Less
<1>3. SUFFICES ASSUME T # {} PROVE FALSE
  OBVIOUS
<1>4. PICK x \in T : \A y \in T : ~(<<y, x>> \in Less)
  BY <1>1, <1>3, WFMin
<1>5. x # 0 /\ x - 1 \in Nat
  OBVIOUS
<1>6. <<x - 1, x>> \in Less
  BY <1>2, <1>5
<1> QED
  BY <1>4, <1>5, <1>6
-----------------------------------------------------------------------------
(* Chains of any links between nodes, and not only of those the list has   *)
(* at the moment.                                                          *)

Ends == Nodes \cup {Null}

ChainFrom(links, n) ==
  LET from[m \in Nodes \cup {Null}] ==
        IF m = Null THEN <<>> ELSE <<m>> \o from[links[m]]
  IN from[n]

Along(links, n) == Range(ChainFrom(links, n))

(* Every link leads to a node of smaller rank, so no links form a circle.  *)
Ranked(links, rank, top) ==
  /\ links \in [Nodes -> Ends] /\ top \in Nat /\ rank \in [Nodes -> 0 .. top]
  /\ \A n \in Nodes : links[n] # Null => rank[links[n]] < rank[n]

Follows(f, links, m) == f[m] = IF m = Null THEN <<>> ELSE <<m>> \o f[links[m]]
FollowsAll(f, links) ==
  f = [m \in Ends |-> IF m = Null THEN <<>> ELSE <<m>> \o f[links[m]]]

LEMMA NullIsNoNode == Null \notin Nodes
BY ListAssumption DEF Nodes

(* A function that is right up to a rank exists for every rank.            *)
LEMMA ChainsExist ==
  ASSUME NEW links, NEW rank, NEW top, Ranked(links, rank, top)
  PROVE  \E f : FollowsAll(f, links)
<1> DEFINE Low(k) == {m \in Ends : m = Null \/ rank[m] < k}
           Upto(f, k) == f = [m \in Ends |-> f[m]] /\ \A m \in Low(k) : Follows(f, links, m)
           S == {k \in Nat : \E f : Upto(f, k)}
<1>0. Null \notin Nodes /\ \A m \in Nodes : links[m] \in Ends /\ rank[m] \in Nat
  BY NullIsNoNode DEF Ranked
<1>1. 0 \in S
  <2> DEFINE e == [m \in Ends |-> <<>>]
  <2>1. \A m \in Low(0) : m = Null
    BY <1>0 DEF Ends
  <2>2. Null \in Ends /\ e[Null] = <<>> /\ e = [m \in Ends |-> e[m]]
    BY DEF Ends
  <2> HIDE DEF e
  <2>3. Upto(e, 0)
    BY <2>1, <2>2 DEF Follows
  <2> QED
    BY <2>3
<1>2. ASSUME NEW k \in Nat, k \in S PROVE k + 1 \in S
  <2>1. PICK f : Upto(f, k)
    BY <1>2
  <2> DEFINE h == [m \in Ends |-> IF m \in Nodes /\ rank[m] = k THEN <<m>> \o f[links[m]] ELSE f[m]]
  <2>2. \A m \in Ends : m \notin Nodes \/ rank[m] # k => h[m] = f[m]
    OBVIOUS
  <2>3. \A m \in Nodes : rank[m] = k => h[m] = <<m>> \o f[links[m]]
    BY DEF Ends
  <2>4. h = [m \in Ends |-> h[m]]
    OBVIOUS
  <2> HIDE DEF h
  <2>5. ASSUME NEW m \in Low(k + 1) PROVE Follows(h, links, m)
    <3>1. CASE m = Null
      <4>1. m \in Low(k) /\ h[m] = f[m]
        BY <1>0, <2>2, <3>1
      <4>2. QED
        BY <2>1, <3>1, <4>1 DEF Follows
    <3>2. CASE m # Null
      <4>1. m \in Nodes /\ rank[m] \in Nat /\ rank[m] < k + 1
        BY <1>0, <3>2 DEF Ends
      <4>2. /\ links[m] \in Ends
            /\ links[m] \in Nodes => rank[links[m]] < rank[m] /\ rank[links[m]] \in Nat
        BY <1>0, <4>1 DEF Ranked
      <4>3. h[links[m]] = f[links[m]]
        BY <2>2, <4>1, <4>2
      <4>4. CASE rank[m] = k
        BY <2>3, <3>2, <4>1, <4>3, <4>4 DEF Follows
      <4>5. CASE rank[m] # k
        <5>1. m \in Low(k) /\ h[m] = f[m]
          BY <2>2, <4>1, <4>5
        <5>2. f[m] = <<m>> \o f[links[m]]
          BY <2>1, <3>2, <5>1 DEF Follows
        <5>3. QED
          BY <3>2, <4>3, <5>1, <5>2 DEF Follows
      <4>6. QED
        BY <4>4, <4>5
    <3>3. QED
      BY <3>1, <3>2
  <2>6. Upto(h, k + 1)
    BY <2>4, <2>5
  <2> QED
    BY <2>6
<1>3. top + 1 \in S
  <2> HIDE DEF S
  <2>1. Nat \subseteq S
    BY <1>1, <1>2, Induction
  <2>2. top + 1 \in Nat
    BY DEF Ranked
  <2> QED
    BY <2>1, <2>2
<1>4. PICK f : Upto(f, top + 1)
  BY <1>3
<1>5. \A m \in Ends : m \in Low(top + 1)
  BY <1>0 DEF Ranked, Ends
<1>6. \A m \in Ends : f[m] = IF m = Null THEN <<>> ELSE <<m>> \o f[links[m]]
  BY <1>4, <1>5 DEF Follows
<1>7. FollowsAll(f, links)
  BY <1>4, <1>6 DEF FollowsAll
<1>8. QED
  BY <1>7

(* The chain of a node is the node and the chain of its successor.         *)
LEMMA ChainUnfolds ==
  ASSUME NEW links, NEW rank, NEW top, Ranked(links, rank, top)
  PROVE  /\ ChainFrom(links, Null) = <<>>
         /\ \A n \in Nodes : ChainFrom(links, n) = <<n>> \o ChainFrom(links, links[n])
<1> DEFINE f == CHOOSE f : FollowsAll(f, links)
<1>1. FollowsAll(f, links)
  BY ChainsExist
<1>2. \A n : ChainFrom(links, n) = f[n]
  BY DEF ChainFrom, FollowsAll, Ends
<1> HIDE DEF f
<1> DEFINE e(m) == IF m = Null THEN <<>> ELSE <<m>> \o f[links[m]]
<1>3. f = [m \in Ends |-> e(m)]
  BY <1>1 DEF FollowsAll
<1> HIDE DEF e
<1>4. \A m \in Ends : f[m] = e(m)
  BY <1>3
<1>5. \A m \in Ends : f[m] = IF m = Null THEN <<>> ELSE <<m>> \o f[links[m]]
  BY <1>4 DEF e
<1>6. QED
  BY <1>2, <1>5, NullIsNoNode DEF Ends

(* What holds of nullptr, and of a node when it holds of its successor,    *)
(* holds of all.                                                           *)
LEMMA AlongLinks ==
  ASSUME NEW links, NEW rank, NEW top, Ranked(links, rank, top), NEW G, Null \in G,
         \A n \in Nodes : links[n] \in G => n \in G
  PROVE  Ends \subseteq G
<1> DEFINE S == {k \in Nat : \A n \in Nodes : rank[n] < k => n \in G}
<1>0. \A n \in Nodes : rank[n] \in Nat /\ links[n] \in Ends
  BY DEF Ranked
<1>1. 0 \in S
  BY <1>0
<1>2. ASSUME NEW k \in Nat, k \in S PROVE k + 1 \in S
  <2>1. ASSUME NEW n \in Nodes, rank[n] < k + 1 PROVE n \in G
    <3>1. links[n] # Null => links[n] \in Nodes /\ rank[links[n]] < k
      BY <1>0, <2>1 DEF Ranked, Ends
    <3>2. links[n] \in G
      BY <1>2, <3>1
    <3>3. QED
      BY <3>2
  <2> QED
    BY <2>1
<1>3. Nat \subseteq S
  <2> HIDE DEF S
  <2> QED
    BY <1>1, <1>2, Induction
<1>4. ASSUME NEW n \in Nodes PROVE n \in G
  <2>1. rank[n] + 1 \in S /\ rank[n] < rank[n] + 1
    BY <1>0, <1>3
  <2> QED
    BY <2>1
<1>5. QED
  BY <1>4 DEF Ends

LEMMA InFront ==
  ASSUME NEW n \in Nodes, NEW s \in Seq(Nodes)
  PROVE  /\ <<n>> \o s \in Seq(Nodes) /\ Len(<<n>> \o s) = Len(s) + 1 /\ Len(s) \in Nat
         /\ (<<n>> \o s)[1] = n /\ \A i \in 1 .. Len(s) : (<<n>> \o s)[i + 1] = s[i]
         /\ Range(<<n>> \o s) = {n} \cup Range(s)
<1>1. <<n>> \in Seq(Nodes) /\ Len(<<n>>) = 1 /\ <<n>>[1] = n
  OBVIOUS
<1>2. Len(s) \in Nat /\ DOMAIN s = 1 .. Len(s)
  BY LenProperties
<1> DEFINE t == <<n>> \o s
<1>3. /\ t \in Seq(Nodes) /\ Len(t) = 1 + Len(s)
      /\ \A i \in 1 .. 1 + Len(s) : t[i] = IF i <= 1 THEN <<n>>[i] ELSE s[i - 1]
  BY <1>1, ConcatProperties
<1>4. DOMAIN t = 1 .. Len(t)
  BY <1>3, LenProperties
<1> HIDE DEF t
<1>5. t[1] = n /\ \A i \in 1 .. Len(s) : i + 1 \in 1 .. Len(t) /\ t[i + 1] = s[i]
  <2>1. t[1] = n
    BY <1>1, <1>2, <1>3
  <2>2. ASSUME NEW i \in 1 .. Len(s) PROVE i + 1 \in 1 .. Len(t) /\ t[i + 1] = s[i]
    <3>1. i + 1 \in 1 .. 1 + Len(s) /\ ~(i + 1 <= 1) /\ (i + 1) - 1 = i
      BY <1>2
    <3>2. QED
      BY <1>3, <3>1
  <2>3. QED
    BY <2>1, <2>2
<1>6. \A i \in 1 .. Len(t) : i = 1 \/ (i - 1 \in 1 .. Len(s) /\ i = (i - 1) + 1)
  BY <1>2, <1>3
<1>7. Range(t) = {n} \cup Range(s)
  <2>1. 1 \in DOMAIN t
    BY <1>2, <1>3, <1>4
  <2>2. ASSUME NEW x \in Range(t) PROVE x \in {n} \cup Range(s)
    <3>1. PICK i \in 1 .. Len(t) : x = t[i]
      BY <1>4 DEF Range
    <3>2. CASE i = 1
      BY <1>5, <3>1, <3>2
    <3>3. CASE i # 1
      <4>1. i - 1 \in 1 .. Len(s) /\ x = s[i - 1]
        BY <1>5, <1>6, <3>1, <3>3
      <4>2. QED
        BY <1>2, <4>1 DEF Range
    <3>4. QED
      BY <3>2, <3>3
  <2>3. ASSUME NEW x \in Range(s) PROVE x \in Range(t)
    <3>1. PICK i \in 1 .. Len(s) : x = s[i]
      BY <1>2 DEF Range
    <3>2. QED
      BY <1>4, <1>5, <3>1 DEF Range
  <2>4. n \in Range(t)
    BY <1>5, <2>1 DEF Range
  <2>5. QED
    BY <2>2, <2>3, <2>4
<1>8. QED
  BY <1>2, <1>3, <1>5, <1>7 DEF t

(* The nodes of a chain.                                                   *)
LEMMA ChainShape ==
  ASSUME NEW links, NEW rank, NEW top, Ranked(links, rank, top)
  PROVE  /\ \A m \in Ends : ChainFrom(links, m) \in Seq(Nodes) /\ Along(links, m) \subseteq Nodes
         /\ Along(links, Null) = {}
         /\ \A n \in Nodes : Along(links, n) = {n} \cup Along(links, links[n])
<1> DEFINE G == {m \in Ends : ChainFrom(links, m) \in Seq(Nodes)}
<1>1. Null \in G
  BY ChainUnfolds, EmptySeq DEF Ends
<1>2. ASSUME NEW n \in Nodes, links[n] \in G PROVE n \in G
  <2>1. PICK s \in Seq(Nodes) : ChainFrom(links, links[n]) = s
    BY <1>2
  <2>2. ChainFrom(links, n) = <<n>> \o s
    BY <2>1, ChainUnfolds
  <2>3. <<n>> \o s \in Seq(Nodes)
    BY InFront
  <2>4. QED
    BY <2>2, <2>3 DEF Ends
<1>3. Ends \subseteq G
  <2> HIDE DEF G
  <2> QED
    BY <1>1, <1>2, AlongLinks
<1>4. \A m \in Ends : Along(links, m) \subseteq Nodes
  BY <1>3, RangeOfSeq DEF Along
<1>5. Along(links, Null) = {}
  BY ChainUnfolds DEF Along, Range
<1>6. ASSUME NEW n \in Nodes PROVE Along(links, n) = {n} \cup Along(links, links[n])
  <2> DEFINE s == ChainFrom(links, links[n])
  <2>1. links[n] \in Ends
    BY DEF Ranked
  <2>2. s \in Seq(Nodes) /\ ChainFrom(links, n) = <<n>> \o s
    BY <1>3, <2>1, ChainUnfolds
  <2> HIDE DEF s
  <2>3. Range(<<n>> \o s) = {n} \cup Range(s)
    BY <2>2, InFront
  <2>4. QED
    BY <2>2, <2>3 DEF Along, s
<1>7. QED
  BY <1>3, <1>4, <1>5, <1>6

(* A chain leads on, and the chain of each of its nodes is part of it.     *)
LEMMA ChainCloses ==
  ASSUME NEW links, NEW rank, NEW top, Ranked(links, rank, top), NEW m \in Ends,
         NEW x \in Along(links, m)
  PROVE  /\ links[x] # Null => links[x] \in Along(links, m)
         /\ Along(links, x) \subseteq Along(links, m)
<1> DEFINE G == {y \in Ends : \A z \in Along(links, y) :
                   /\ links[z] # Null => links[z] \in Along(links, y)
                   /\ Along(links, z) \subseteq Along(links, y)}
<1>1. Null \in G
  BY ChainShape DEF Ends
<1>2. ASSUME NEW n \in Nodes, links[n] \in G PROVE n \in G
  <2>1. links[n] \in Ends /\ Along(links, n) = {n} \cup Along(links, links[n])
    BY ChainShape DEF Ranked
  <2>2. links[n] # Null => links[n] \in Along(links, links[n])
    BY <2>1, ChainShape DEF Ends
  <2>3. QED
    BY <1>2, <2>1, <2>2 DEF Ends
<1>3. Ends \subseteq G
  <2> HIDE DEF G
  <2> QED
    BY <1>1, <1>2, AlongLinks
<1>4. QED
  BY <1>3

(* Ranks fall along a chain, so no node comes twice.                       *)
LEMMA ChainFalls ==
  ASSUME NEW links, NEW rank, NEW top, Ranked(links, rank, top)
  PROVE  /\ \A n \in Nodes : \A x \in Along(links, links[n]) : rank[x] < rank[n]
         /\ \A m \in Ends : \A j \in 1 .. Len(ChainFrom(links, m)) : \A i \in 1 .. j - 1 :
              rank[ChainFrom(links, m)[j]] < rank[ChainFrom(links, m)[i]]
<1>0. \A n \in Nodes : rank[n] \in Nat /\ links[n] \in Ends
  BY DEF Ranked
<1> DEFINE G == {m \in Ends : \A x \in Along(links, m) : m \in Nodes /\ rank[x] <= rank[m]}
<1>1. Null \in G
  BY ChainShape DEF Ends
<1>2. ASSUME NEW n \in Nodes, links[n] \in G PROVE n \in G
  <2>1. ASSUME NEW x \in Along(links, n) PROVE rank[x] <= rank[n]
    <3>1. CASE x = n
      BY <1>0, <3>1
    <3>2. CASE x \in Along(links, links[n])
      <4>1. links[n] \in Nodes /\ x \in Nodes /\ rank[x] <= rank[links[n]]
        BY <1>0, <1>2, <3>2, ChainShape
      <4>2. rank[links[n]] < rank[n]
        BY <4>1, NullIsNoNode DEF Ranked
      <4>3. QED
        BY <1>0, <4>1, <4>2
    <3>3. QED
      BY <2>1, <3>1, <3>2, ChainShape
  <2>2. QED
    BY <2>1 DEF Ends
<1>3. Ends \subseteq G
  <2> HIDE DEF G
  <2> QED
    BY <1>1, <1>2, AlongLinks
<1>4. ASSUME NEW n \in Nodes, NEW x \in Along(links, links[n]) PROVE rank[x] < rank[n]
  <2>1. links[n] \in Nodes /\ x \in Nodes /\ rank[x] <= rank[links[n]]
    BY <1>0, <1>3, ChainShape
  <2>2. rank[links[n]] < rank[n]
    BY <2>1, NullIsNoNode DEF Ranked
  <2>3. QED
    BY <1>0, <2>1, <2>2
<1> HIDE DEF G
<1> DEFINE H == {m \in Ends : \A j \in 1 .. Len(ChainFrom(links, m)) : \A i \in 1 .. j - 1 :
                   rank[ChainFrom(links, m)[j]] < rank[ChainFrom(links, m)[i]]}
<1>5. Null \in H
  BY ChainUnfolds, EmptySeq DEF Ends
<1>6. ASSUME NEW n \in Nodes, links[n] \in H PROVE n \in H
  <2> DEFINE s == ChainFrom(links, links[n])
             t == <<n>> \o s
  <2>1. s \in Seq(Nodes) /\ t = ChainFrom(links, n) /\ Range(s) = Along(links, links[n])
    BY <1>0, ChainShape, ChainUnfolds DEF Along
  <2>2. \A j \in 1 .. Len(s) : \A i \in 1 .. j - 1 : rank[s[j]] < rank[s[i]]
    BY <1>6
  <2> HIDE DEF s
  <2>3. /\ Len(t) = Len(s) + 1 /\ Len(s) \in Nat
        /\ t[1] = n /\ \A i \in 1 .. Len(s) : t[i + 1] = s[i]
    BY <2>1, InFront
  <2> HIDE DEF t
  <2>4. \A j \in 1 .. Len(s) : rank[s[j]] < rank[n]
    BY <1>4, <2>1, LenProperties DEF Range
  <2>5. ASSUME NEW j \in 1 .. Len(t), NEW i \in 1 .. j - 1 PROVE rank[t[j]] < rank[t[i]]
    <3>1. j - 1 \in 1 .. Len(s) /\ t[j] = s[j - 1]
      <4>1. j - 1 \in 1 .. Len(s) /\ (j - 1) + 1 = j
        BY <2>3
      <4>2. QED
        BY <2>3, <4>1
    <3>2. CASE i = 1
      BY <2>3, <2>4, <3>1, <3>2
    <3>3. CASE i # 1
      <4>1. i - 1 \in 1 .. (j - 1) - 1 /\ i - 1 \in 1 .. Len(s) /\ (i - 1) + 1 = i
        BY <2>3, <3>3
      <4>2. t[i] = s[i - 1]
        BY <2>3, <4>1
      <4>3. QED
        BY <2>2, <3>1, <4>1, <4>2
    <3>4. QED
      BY <3>2, <3>3
  <2>6. QED
    BY <2>1, <2>5 DEF Ends
<1>7. Ends \subseteq H
  <2> HIDE DEF H
  <2> QED
    BY <1>5, <1>6, AlongLinks
<1>8. QED
  BY <1>4, <1>7

(* Nodes whose links stay, and lead to one another.                        *)
SameLinks(links, after, A) ==
  A \subseteq Nodes /\ \A n \in A : after[n] = links[n] /\ links[n] \in A \cup {Null}

(* Their chains stay.                                                      *)
LEMMA ChainStays ==
  ASSUME NEW links, NEW rank, NEW top, Ranked(links, rank, top),
         NEW after, NEW rank2, NEW top2, Ranked(after, rank2, top2),
         NEW A, SameLinks(links, after, A)
  PROVE  \A m \in A \cup {Null} :
           /\ ChainFrom(after, m) = ChainFrom(links, m)
           /\ Along(after, m) = Along(links, m) /\ Along(links, m) \subseteq A
<1> DEFINE G == {m \in Ends : m \in A \cup {Null} =>
                   /\ ChainFrom(after, m) = ChainFrom(links, m)
                   /\ Along(links, m) \subseteq A}
<1>1. Null \in G
  BY ChainUnfolds, ChainShape DEF Ends
<1>2. ASSUME NEW n \in Nodes, links[n] \in G PROVE n \in G
  <2>1. SUFFICES ASSUME n \in A
                 PROVE  /\ ChainFrom(after, n) = ChainFrom(links, n)
                        /\ Along(links, n) \subseteq A
    BY NullIsNoNode DEF Ends, SameLinks
  <2>2. /\ after[n] = links[n]
        /\ ChainFrom(after, links[n]) = ChainFrom(links, links[n])
        /\ Along(links, links[n]) \subseteq A
    BY <1>2, <2>1 DEF SameLinks
  <2>3. ChainFrom(after, n) = ChainFrom(links, n)
    BY <2>2, ChainUnfolds
  <2>4. QED
    BY <2>1, <2>2, <2>3, ChainShape
<1>3. Ends \subseteq G
  <2> HIDE DEF G
  <2> QED
    BY <1>1, <1>2, AlongLinks
<1>4. QED
  BY <1>3 DEF Ends, Along, SameLinks

(* The chain of a node of a chain is a rest of that chain.                 *)
LEMMA ChainRest ==
  ASSUME NEW links, NEW rank, NEW top, Ranked(links, rank, top), NEW m \in Ends,
         NEW x \in Along(links, m) \cup {Null}
  PROVE  LET c == ChainFrom(links, m)
         IN  \E k \in 0 .. Len(c) : ChainFrom(links, x) = SubSeq(c, k + 1, Len(c))
<1> DEFINE Rest(y, z) ==
             \E k \in 0 .. Len(ChainFrom(links, y)) :
               ChainFrom(links, z) =
                 SubSeq(ChainFrom(links, y), k + 1, Len(ChainFrom(links, y)))
           G == {y \in Ends : \A z \in Along(links, y) \cup {Null} : Rest(y, z)}
<1>0. \A y \in Ends : /\ ChainFrom(links, y) \in Seq(Nodes)
                      /\ Len(ChainFrom(links, y)) \in Nat
                      /\ Rest(y, y) /\ Rest(y, Null)
  <2>1. SUFFICES ASSUME NEW y \in Ends
                 PROVE  /\ ChainFrom(links, y) \in Seq(Nodes)
                        /\ Len(ChainFrom(links, y)) \in Nat
                        /\ Rest(y, y) /\ Rest(y, Null)
    OBVIOUS
  <2> DEFINE c == ChainFrom(links, y)
             l == Len(c)
  <2>2. c \in Seq(Nodes) /\ l \in Nat
    BY ChainShape, LenProperties
  <2>3. SubSeq(c, 0 + 1, l) = c
    BY <2>2, SubSeqFull
  <2>4. SubSeq(c, l + 1, l) = <<>>
    <3>1. l + 1 \in Int /\ l \in Int /\ l < l + 1
      BY <2>2
    <3> HIDE DEF l, c
    <3> QED
      BY <3>1, SubSeqEmpty
  <2>5. ChainFrom(links, Null) = <<>>
    BY ChainUnfolds
  <2>6. 0 \in 0 .. l /\ l \in 0 .. l
    BY <2>2
  <2>7. QED
    BY <2>2, <2>3, <2>4, <2>5, <2>6
<1>1. Null \in G
  BY <1>0, ChainShape DEF Ends
<1>2. ASSUME NEW n \in Nodes, links[n] \in G PROVE n \in G
  <2>1. SUFFICES ASSUME NEW z \in Along(links, links[n]) PROVE Rest(n, z)
    <3>1. n \in Ends /\ Rest(n, n) /\ Rest(n, Null)
      BY <1>0 DEF Ends
    <3>2. Along(links, n) = {n} \cup Along(links, links[n])
      BY ChainShape
    <3> HIDE DEF Rest
    <3>3. QED
      BY <3>1, <3>2
  <2> DEFINE s == ChainFrom(links, links[n])
             t == <<n>> \o s
             u == ChainFrom(links, z)
  <2>2. s \in Seq(Nodes) /\ t = ChainFrom(links, n)
    BY <1>2, ChainShape, ChainUnfolds
  <2>3. PICK k \in 0 .. Len(s) : u = SubSeq(s, k + 1, Len(s))
    BY <1>2
  <2>u. u \in Seq(Nodes)
    BY <1>2, <2>1, ChainShape DEF Ends
  <2> HIDE DEF s, u
  <2>4. /\ t \in Seq(Nodes) /\ Len(t) = Len(s) + 1 /\ Len(s) \in Nat
        /\ \A i \in 1 .. Len(s) : t[i + 1] = s[i]
    BY <2>2, InFront
  <2> HIDE DEF t
  <2>5. u = SubSeq(t, (k + 1) + 1, Len(t))
    <3> DEFINE v == SubSeq(t, (k + 1) + 1, Len(t))
               a == SubSeq(s, k + 1, Len(s))
    <3>1. (k + 1) + 1 \in Int /\ k + 1 \in Int /\ Len(t) \in Int /\ Len(s) \in Int
      BY <2>4
    <3>2. \A i \in (k + 1) + 1 .. Len(t) : t[i] \in Nodes
      <4>1. \A i \in (k + 1) + 1 .. Len(t) : i \in 1 .. Len(t)
        BY <2>4
      <4>2. QED
        BY <2>4, <4>1, ElementOfSeq
    <3>3. \A i \in k + 1 .. Len(s) : s[i] \in Nodes
      <4>1. \A i \in k + 1 .. Len(s) : i \in 1 .. Len(s)
        BY <2>4
      <4>2. QED
        BY <2>2, <4>1, ElementOfSeq
    <3>4. /\ v \in Seq(Nodes)
          /\ Len(v) = IF (k + 1) + 1 <= Len(t) THEN Len(t) - ((k + 1) + 1) + 1 ELSE 0
          /\ \A i \in 1 .. Len(t) - ((k + 1) + 1) + 1 : v[i] = t[((k + 1) + 1) + i - 1]
      BY <3>1, <3>2, SubSeqProperties
    <3>5. /\ a \in Seq(Nodes)
          /\ Len(a) = IF k + 1 <= Len(s) THEN Len(s) - (k + 1) + 1 ELSE 0
          /\ \A i \in 1 .. Len(s) - (k + 1) + 1 : a[i] = s[(k + 1) + i - 1]
      BY <3>1, <3>3, SubSeqProperties
    <3> HIDE DEF v, a
    <3>6. Len(v) = Len(s) - k /\ Len(a) = Len(s) - k /\ Len(s) - k \in Nat
      BY <2>4, <3>4, <3>5
    <3>7. ASSUME NEW i \in 1 .. Len(s) - k PROVE a[i] = v[i]
      <4>1. /\ i \in 1 .. Len(t) - ((k + 1) + 1) + 1 /\ i \in 1 .. Len(s) - (k + 1) + 1
            /\ (k + 1) + i - 1 = k + i /\ ((k + 1) + 1) + i - 1 = (k + i) + 1
            /\ k + i \in 1 .. Len(s)
        BY <2>4
      <4>2. a[i] = s[k + i] /\ v[i] = t[(k + i) + 1]
        BY <3>4, <3>5, <4>1
      <4>3. QED
        BY <2>4, <4>1, <4>2
    <3>8. v = a
      BY <3>4, <3>5, <3>6, <3>7, SeqEqual
    <3>9. QED
      BY <2>3, <3>8 DEF a, v
  <2>6. k + 1 \in 0 .. Len(t)
    BY <2>4
  <2>7. QED
    BY <2>2, <2>5, <2>6 DEF u
<1>3. Ends \subseteq G
  <2> HIDE DEF G
  <2> QED
    BY <1>1, <1>2, AlongLinks
<1>4. QED
  BY <1>3
-----------------------------------------------------------------------------
(* Only nodes that were pushed can be reached by a pointer, and only those *)
(* were read; what was read was deleted.                                   *)
Reached == Pushed \cup {Null}
OnlyPushed ==
  /\ head \in Reached /\ old \in Reached /\ desired \in Reached
  /\ \A n \in Nodes : next[n] \in Reached
  /\ Range(taken) \subseteq Pushed /\ freed = Range(taken)

(* The order in which the nodes were pushed, "top" of them: it is that of  *)
(* every pusher's calls, and links lead back in it.                        *)
Clock(rank, top) ==
  /\ Ranked(next, rank, top)
  /\ \A n \in Nodes : n \in Pushed <=> rank[n] < top
  /\ \A m, n \in Pushed : m[1] = n[1] /\ m[2] < n[2] => rank[m] < rank[n]
Timed == \E rank, top : Clock(rank, top)

(* What consumer3 knows: that the list is not empty, because nobody else   *)
(* takes from it; in the exchange of pop_front that the old head is still  *)
(* in the list, and that desired is further down.                          *)
Position ==
  /\ cpc3 \in {"all", "allExchange", "read"} => way = "all"
  /\ cpc3 \in {"front", "frontExchange", "cut", "delete"} => way = "front"
  /\ cpc3 \in {"all", "allExchange", "front", "frontExchange"} => head # Null
  /\ cpc3 = "frontExchange" =>
       /\ old \in InList /\ desired \in Along(next, next[old]) \cup {Null}
       /\ ~retried => desired = next[old]
  /\ cpc3 \in {"cut", "delete"} => old \in Nodes
  /\ cpc3 = "delete" => next[old] = Null

(* With pop_all, what was read was pushed before what is in hand, and that *)
(* before what is in the list.                                             *)
PushedBefore(M, N) == \A m \in M, n \in N : m[1] = n[1] => m[2] < n[2]
Lined ==
  way = "all" =>
    PushedBefore(Range(taken), InHand) /\ PushedBefore(Range(taken), InList) /\ PushedBefore(InHand, InList)

ListInv ==
  /\ RefTypeOK /\ OnlyPushed /\ Timed /\ Position /\ Lined
  /\ NoNodeTwice /\ LostOnlyByRetry /\ ReadInOrder
-----------------------------------------------------------------------------
LEMMA ChainIs ==
  /\ \A n : Chain(n) = ChainFrom(next, n)
  /\ InList = Along(next, head)
BY DEF Chain, ChainFrom, InList, Along

LEMMA ChainWillBe ==
  /\ \A n : Chain(n)' = ChainFrom(next', n')
  /\ InList' = Along(next', head')
BY DEF Chain, ChainFrom, InList, Along

(* The nodes the taking thread holds, by its place.                        *)
LEMMA HandIs ==
  /\ cpc3 = "read" => InHand = Along(next, old)
  /\ cpc3 \in {"cut", "delete"} => InHand = {old}
  /\ cpc3 \notin {"read", "cut", "delete"} => InHand = {}
BY ChainIs DEF InHand, Along

LEMMA HandWillBe ==
  /\ cpc3' = "read" => InHand' = Along(next', old')
  /\ cpc3' \in {"cut", "delete"} => InHand' = {old'}
  /\ cpc3' \notin {"read", "cut", "delete"} => InHand' = {}
<1>1. Range(Chain(old))' = Along(next', old')
  BY DEF Chain, ChainFrom, Along
<1>2. QED
  BY <1>1 DEF InHand

(* Every pointer leads to nodes that were pushed, and to no others.        *)
LEMMA OnlyPushedReached ==
  ASSUME ListInv
  PROVE  /\ Pushed \subseteq Nodes /\ Reached \subseteq Ends /\ Null \notin Pushed
         /\ \A m \in Reached : Along(next, m) \subseteq Pushed
         /\ InList \subseteq Pushed /\ InHand \subseteq Pushed
<1>1. PICK rank, top : Clock(rank, top)
  BY DEF ListInv, Timed
<1>2. Pushed \subseteq Nodes /\ Null \notin Nodes /\ OnlyPushed /\ Ranked(next, rank, top)
  BY <1>1, NullIsNoNode DEF Pushed, ListInv, Clock
<1>3. \A m \in Reached : Along(next, m) \subseteq Pushed
  <2>1. SameLinks(next, next, Pushed)
    BY <1>2 DEF OnlyPushed, Reached, SameLinks
  <2>2. QED
    BY <1>2, <2>1, ChainStays DEF Reached
<1>4. InList \subseteq Pushed
  BY <1>2, <1>3, ChainIs DEF OnlyPushed
<1>5. InHand \subseteq Pushed
  <2>1. old \in Reached /\ (cpc3 \in {"cut", "delete"} => old \in Nodes)
    BY <1>2 DEF OnlyPushed, ListInv, Position
  <2>2. QED
    BY <1>2, <1>3, <2>1, HandIs DEF Reached
<1>6. QED
  BY <1>2, <1>3, <1>4, <1>5 DEF Reached, Ends

(* A step that only moves the taking thread, with nothing in its hands.    *)
LEMMA QuietKeeps ==
  ASSUME ListInv, UNCHANGED <<way, head, next, made, pushing, retried, taken, freed>>,
         cpc3 \notin {"read", "cut", "delete"}, cpc3' \notin {"read", "cut", "delete"},
         RefTypeOK', old' \in Reached, desired' \in Reached, Position'
  PROVE  ListInv'
<1>1. Pushed' = Pushed
  BY DEF Pushed
<1>2. InList' = InList
  BY ChainIs, ChainWillBe
<1>3. InHand = {} /\ InHand' = {}
  BY HandIs, HandWillBe
<1>4. OnlyPushed'
  BY <1>1 DEF ListInv, OnlyPushed, Reached
<1>5. Timed'
  <2>1. PICK rank, top : Clock(rank, top)
    BY DEF ListInv, Timed
  <2>2. Clock(rank, top)'
    BY <1>1, <2>1 DEF Clock
  <2>3. QED
    BY <2>2 DEF Timed
<1>6. Lined' /\ NoNodeTwice' /\ LostOnlyByRetry' /\ ReadInOrder'
  BY <1>1, <1>2, <1>3
     DEF ListInv, Lined, PushedBefore, NoNodeTwice, LostOnlyByRetry, ReadInOrder
<1>7. QED
  BY <1>4, <1>5, <1>6 DEF ListInv

(* A pusher changes the link of a node that no pointer leads to.           *)
LEMMA LinkKeeps ==
  ASSUME ListInv, NEW n \in Nodes \ Pushed, next' = [next EXCEPT ![n] = head],
         Pushed' = Pushed, RefTypeOK',
         UNCHANGED <<way, head, cpc3, old, desired, retried, taken, freed>>
  PROVE  ListInv'
<1>0. /\ Pushed \subseteq Nodes /\ Reached \subseteq Ends /\ Null \notin Pushed
      /\ RefTypeOK /\ OnlyPushed /\ Position
  BY OnlyPushedReached DEF ListInv
<1>1. next'[n] = head /\ \A m \in Nodes : m # n => next'[m] = next[m]
  BY <1>0 DEF RefTypeOK
<1>2. PICK rank, top : Clock(rank, top)
  BY DEF ListInv, Timed
<1>3. Clock(rank, top)'
  <2>1. rank \in [Nodes -> 0 .. top] /\ top \in Nat /\ \A m \in Nodes : m \in Pushed <=> rank[m] < top
    BY <1>2 DEF Clock, Ranked
  <2>2. rank[n] \in 0 .. top /\ ~(rank[n] < top)
    BY <2>1
  <2>3. rank[n] = top
    BY <2>1, <2>2
  <2>4. head # Null => rank[head] < top
    BY <1>0, <2>1 DEF OnlyPushed, Reached
  <2>5. \A m \in Nodes : next'[m] # Null => rank[next'[m]] < rank[m]
    BY <1>1, <1>2, <2>3, <2>4 DEF Clock, Ranked
  <2>6. next' \in [Nodes -> Ends]
    BY <1>0 DEF RefTypeOK, Ends
  <2>7. QED
    BY <1>2, <2>1, <2>5, <2>6 DEF Clock, Ranked
<1>4. \A m \in Reached : Along(next', m) = Along(next, m)
  <2>1. Ranked(next, rank, top) /\ Ranked(next', rank, top)
    BY <1>2, <1>3 DEF Clock
  <2>2. SameLinks(next, next', Pushed)
    BY <1>0, <1>1 DEF OnlyPushed, Reached, SameLinks
  <2>3. QED
    BY <2>1, <2>2, ChainStays DEF Reached
<1>5. InList' = InList /\ InHand' = InHand
  <2>1. head \in Reached /\ old \in Reached
    BY <1>0 DEF OnlyPushed
  <2>2. InList' = InList
    BY <1>4, <2>1, ChainIs, ChainWillBe
  <2>3. InHand' = InHand
    BY <1>4, <2>1, HandIs, HandWillBe
  <2>4. QED
    BY <2>2, <2>3
<1>6. OnlyPushed'
  BY <1>0, <1>1 DEF OnlyPushed, Reached
<1>7. Timed'
  BY <1>3 DEF Timed
<1>8. Position'
  <2>1. ASSUME old \in Nodes, old \in Reached
        PROVE  next'[old] = next[old] /\ Along(next', next'[old]) = Along(next, next[old])
    <3>1. old # n /\ next[old] \in Reached
      BY <1>0, <2>1, NullIsNoNode DEF OnlyPushed, Reached
    <3>2. QED
      BY <1>1, <1>4, <2>1, <3>1
  <2>2. cpc3 = "frontExchange" => old \in Nodes
    BY <1>0, OnlyPushedReached DEF Position
  <2>3. cpc3 = "delete" => old \in Nodes
    BY <1>0 DEF Position
  <2>4. old \in Reached
    BY <1>0 DEF OnlyPushed
  <2>5. QED
    BY <1>0, <1>5, <2>1, <2>2, <2>3, <2>4 DEF Position
<1>9. Lined' /\ NoNodeTwice' /\ LostOnlyByRetry' /\ ReadInOrder'
  BY <1>5 DEF ListInv, Lined, PushedBefore, NoNodeTwice, LostOnlyByRetry, ReadInOrder
<1>10. QED
  BY <1>6, <1>7, <1>8, <1>9 DEF ListInv

(* A node is pushed: its link leads to the head, and it becomes the head.  *)
LEMMA PublishKeeps ==
  ASSUME ListInv, NEW n \in Nodes \ Pushed, next[n] = head, head' = n,
         Pushed' = Pushed \cup {n}, \A m \in Pushed : m[1] = n[1] => m[2] < n[2],
         RefTypeOK', UNCHANGED <<way, next, cpc3, old, desired, retried, taken, freed>>
  PROVE  ListInv'
<1>0. /\ Pushed \subseteq Nodes /\ Reached \subseteq Ends /\ Null \notin Pushed
      /\ RefTypeOK /\ OnlyPushed /\ Position /\ n # Null
      /\ InList \subseteq Pushed /\ InHand \subseteq Pushed
  BY OnlyPushedReached, NullIsNoNode DEF ListInv
<1>1. PICK rank, top : Clock(rank, top)
  BY DEF ListInv, Timed
<1>2. /\ Ranked(next, rank, top) /\ top \in Nat /\ rank \in [Nodes -> 0 .. top]
      /\ \A m \in Nodes : m \in Pushed <=> rank[m] < top
      /\ \A l, m \in Pushed : l[1] = m[1] /\ l[2] < m[2] => rank[l] < rank[m]
  BY <1>1 DEF Clock, Ranked
<1>3. InList' = InList \cup {n}
  <2>1. Along(next, n) = {n} \cup Along(next, next[n])
    BY <1>2, ChainShape
  <2>2. QED
    BY <2>1, ChainIs, ChainWillBe
<1>4. InHand' = InHand
  BY HandIs, HandWillBe
<1>5. OnlyPushed'
  BY <1>0 DEF OnlyPushed, Reached
<1>6. Timed'
  <2>0. PICK later : later = [m \in Nodes |-> IF m \in Pushed \cup {n} THEN rank[m] ELSE top + 1]
    OBVIOUS
  <2>1. /\ \A m \in Pushed \cup {n} : later[m] = rank[m]
        /\ \A m \in Nodes : m \notin Pushed \cup {n} => later[m] = top + 1
    BY <1>0, <2>0
  <2>2. \A m \in Nodes : rank[m] \in 0 .. top
    BY <1>2
  <2>3. rank[n] = top
    BY <1>2, <2>2
  <2>4. later \in [Nodes -> 0 .. top + 1]
    BY <1>2, <2>0, <2>2
  <2>5. \A m \in Nodes : m \in Pushed \cup {n} <=> later[m] < top + 1
    BY <1>0, <1>2, <2>1, <2>2
  <2>6. ASSUME NEW m \in Nodes, next[m] # Null PROVE later[next[m]] < later[m]
    <3>1. next[m] \in Pushed
      BY <1>0, <2>6 DEF OnlyPushed, Reached
    <3>2. later[next[m]] = rank[next[m]] /\ rank[next[m]] < rank[m]
      BY <1>2, <2>1, <2>6, <3>1 DEF Ranked
    <3>3. later[m] = rank[m] \/ later[m] = top + 1
      BY <2>1
    <3>4. rank[next[m]] \in 0 .. top /\ rank[m] \in 0 .. top
      BY <1>0, <2>2, <3>1
    <3>5. QED
      BY <1>2, <3>2, <3>3, <3>4
  <2>7. Ranked(next, later, top + 1)
    BY <1>2, <2>4, <2>6 DEF Ranked
  <2>8. ASSUME NEW l \in Pushed \cup {n}, NEW m \in Pushed \cup {n}, l[1] = m[1], l[2] < m[2]
        PROVE  later[l] < later[m]
    <3>1. l[2] \in Nat /\ m[2] \in Nat /\ n[2] \in Nat
      BY <1>0, ListAssumption DEF Nodes
    <3>2. CASE l \in Pushed /\ m \in Pushed
      BY <1>2, <2>1, <2>8, <3>2
    <3>3. CASE l \in Pushed /\ m = n
      BY <1>0, <1>2, <2>1, <2>3, <3>3
    <3>4. CASE l = n
      BY <2>8, <3>1, <3>4
    <3>5. QED
      BY <3>2, <3>3, <3>4
  <2>9. Clock(later, top + 1)'
    BY <2>5, <2>7, <2>8 DEF Clock
  <2>10. QED
    BY <2>9 DEF Timed
<1>7. Position'
  BY <1>0, <1>3 DEF Position
<1>8. Lined'
  BY <1>0, <1>3, <1>4 DEF ListInv, Lined, PushedBefore, OnlyPushed
<1>9. NoNodeTwice'
  BY <1>0, <1>3, <1>4 DEF ListInv, NoNodeTwice, OnlyPushed
<1>10. LostOnlyByRetry' /\ ReadInOrder'
  BY <1>3, <1>4 DEF ListInv, LostOnlyByRetry, ReadInOrder
<1>11. QED
  BY <1>5, <1>6, <1>7, <1>8, <1>9, <1>10 DEF ListInv

(* A step of the taking thread that leaves the links alone: the nodes that *)
(* were pushed, and their order, stay.                                     *)
LEMMA TakerKeeps ==
  ASSUME ListInv, UNCHANGED <<next, made, pushing>>
  PROVE  /\ Pushed' = Pushed /\ Reached' = Reached /\ Timed'
         /\ \A m : Along(next', m) = Along(next, m)
<1>1. Pushed' = Pushed
  BY DEF Pushed
<1>2. PICK rank, top : Clock(rank, top)
  BY DEF ListInv, Timed
<1>3. Clock(rank, top)'
  BY <1>1, <1>2 DEF Clock
<1>4. QED
  BY <1>1, <1>3 DEF Timed, Reached

(* pop_all takes the whole list.                                           *)
LEMMA PopAllKeeps ==
  ASSUME ListInv, PopAllExchange, UNCHANGED way, RefTypeOK'
  PROVE  ListInv'
<1>0. /\ RefTypeOK /\ OnlyPushed /\ Position /\ cpc3 = "allExchange" /\ way = "all"
      /\ UNCHANGED <<way, next, made, pushing, desired, taken, freed, retried>>
  BY DEF ListInv, PopAllExchange, Position
<1>1. CASE head # old
  <2>1. old' = head /\ UNCHANGED <<head, cpc3>>
    BY <1>1 DEF PopAllExchange
  <2>2. Position'
    BY <1>0, <2>1 DEF Position
  <2>3. QED
    BY <1>0, <2>1, <2>2, QuietKeeps DEF OnlyPushed
<1>2. CASE head = old
  <2>1. head' = Null /\ cpc3' = "read" /\ old' = old
    BY <1>2 DEF PopAllExchange
  <2>2. Pushed' = Pushed /\ Reached' = Reached /\ Timed' /\ \A m : Along(next', m) = Along(next, m)
    BY <1>0, TakerKeeps
  <2>3. InHand = {} /\ InHand' = InList
    BY <1>0, <1>2, <2>1, <2>2, HandIs, HandWillBe, ChainIs
  <2>4. InList' = {}
    <3>1. PICK rank, top : Ranked(next, rank, top)
      BY DEF ListInv, Timed, Clock
    <3>2. Along(next, Null) = {}
      BY <3>1, ChainShape
    <3>3. QED
      BY <2>1, <2>2, <3>2, ChainWillBe
  <2>5. OnlyPushed'
    BY <1>0, <2>1, <2>2 DEF OnlyPushed, Reached
  <2>6. Position'
    BY <1>0, <2>1 DEF Position
  <2>7. Lined' /\ NoNodeTwice' /\ LostOnlyByRetry' /\ ReadInOrder'
    BY <1>0, <2>2, <2>3, <2>4
       DEF ListInv, Lined, PushedBefore, NoNodeTwice, LostOnlyByRetry, ReadInOrder
  <2>8. QED
    BY <2>2, <2>5, <2>6, <2>7 DEF ListInv
<1>3. QED
  BY <1>1, <1>2

(* pop_front puts desired in the place of the head, or sees another head.  *)
LEMMA PopFrontKeeps ==
  ASSUME ListInv, PopFrontExchange, UNCHANGED way, RefTypeOK'
  PROVE  ListInv'
<1>0. /\ RefTypeOK /\ OnlyPushed /\ Position /\ cpc3 = "frontExchange" /\ way = "front"
      /\ UNCHANGED <<way, next, made, pushing, desired, taken, freed>>
      /\ old \in InList /\ desired \in Along(next, next[old]) \cup {Null}
  BY DEF ListInv, PopFrontExchange, Position
<1>1. PICK rank, top : Ranked(next, rank, top)
  BY DEF ListInv, Timed, Clock
<1>2. /\ Pushed' = Pushed /\ Reached' = Reached /\ Timed'
      /\ \A m : Along(next', m) = Along(next, m)
  BY <1>0, TakerKeeps
<1>3. InHand = {} /\ InList = Along(next, head) /\ InList' = Along(next, head')
  BY <1>0, <1>2, HandIs, ChainIs, ChainWillBe
<1>4. /\ InList \subseteq Pushed /\ Pushed \subseteq Nodes /\ Null \notin Pushed
      /\ head \in Ends /\ next[old] \in Ends /\ old \in Nodes /\ Reached \subseteq Ends
  BY <1>0, OnlyPushedReached DEF OnlyPushed
<1>5. CASE head # old
  <2>1. old' = head /\ retried' = TRUE /\ UNCHANGED <<head, cpc3>>
    BY <1>5 DEF PopFrontExchange
  <2>2. InList' = InList /\ InHand' = {}
    BY <1>0, <1>3, <2>1, HandWillBe
  <2>3. head \in Nodes /\ head \in InList
    <3>1. head # Null
      BY <1>0 DEF Position
    <3>2. QED
      BY <1>1, <1>3, <1>4, <3>1, ChainShape DEF Ends
  <2>4. desired \in Along(next, next[head]) \cup {Null}
    <3>1. next[head] \in Ends
      BY <1>1, <2>3 DEF Ranked
    <3>2. old \in Along(next, next[head])
      BY <1>0, <1>1, <1>3, <1>5, <2>3, ChainShape
    <3>3. Along(next, old) \subseteq Along(next, next[head])
      BY <1>1, <3>1, <3>2, ChainCloses
    <3>4. Along(next, next[old]) \subseteq Along(next, old)
      BY <1>1, <1>4, ChainShape
    <3>5. QED
      BY <1>0, <3>3, <3>4
  <2>5. OnlyPushed'
    BY <1>0, <1>2, <2>1 DEF OnlyPushed
  <2>6. Position'
    BY <1>0, <1>2, <2>1, <2>2, <2>3, <2>4 DEF Position
  <2>7. Lined' /\ NoNodeTwice' /\ LostOnlyByRetry' /\ ReadInOrder'
    BY <1>0, <1>3, <2>1, <2>2
       DEF ListInv, Lined, NoNodeTwice, LostOnlyByRetry, ReadInOrder
  <2>8. QED
    BY <1>2, <2>5, <2>6, <2>7 DEF ListInv
<1>6. CASE head = old
  <2>1. head' = desired /\ cpc3' = "cut" /\ UNCHANGED <<old, retried>>
    BY <1>6 DEF PopFrontExchange
  <2>2. InHand' = {old} /\ InList' = Along(next, desired)
    BY <1>3, <2>1, HandWillBe
  <2>3. InList = {old} \cup Along(next, next[old])
    BY <1>1, <1>3, <1>4, <1>6, ChainShape
  <2>4. old \notin Along(next, next[old])
    <3>1. \A x \in Along(next, next[old]) : rank[x] < rank[old]
      BY <1>1, <1>4, ChainFalls
    <3>2. rank[old] \in Nat
      BY <1>1, <1>4 DEF Ranked
    <3>3. QED
      BY <3>1, <3>2
  <2>5. InList' \subseteq Along(next, next[old])
    <3>1. CASE desired = Null
      BY <1>1, <2>2, <3>1, ChainShape
    <3>2. CASE desired \in Along(next, next[old])
      BY <1>1, <1>4, <2>2, <3>2, ChainCloses
    <3>3. QED
      BY <1>0, <3>1, <3>2
  <2>6. OnlyPushed'
    BY <1>0, <1>2, <2>1 DEF OnlyPushed
  <2>7. Position'
    BY <1>0, <1>4, <2>1 DEF Position
  <2>8. NoNodeTwice'
    BY <1>0, <1>3, <2>2, <2>3, <2>4, <2>5 DEF ListInv, NoNodeTwice
  <2>9. LostOnlyByRetry'
    <3>1. SUFFICES ASSUME ~retried PROVE Pushed = InList' \cup InHand' \cup Range(taken)
      BY <1>0, <1>2, <2>1 DEF LostOnlyByRetry
    <3>2. Pushed = InList \cup InHand \cup Range(taken)
      BY <3>1 DEF ListInv, LostOnlyByRetry
    <3>3. desired = next[old]
      BY <1>0, <3>1 DEF Position
    <3>4. QED
      BY <1>3, <2>2, <2>3, <3>2, <3>3
  <2>10. Lined' /\ ReadInOrder'
    BY <1>0 DEF Lined, ReadInOrder
  <2>11. QED
    BY <1>2, <2>6, <2>7, <2>8, <2>9, <2>10 DEF ListInv
<1>7. QED
  BY <1>5, <1>6

(* old->next = nullptr: the list does not lead through old any more.       *)
LEMMA CutKeeps ==
  ASSUME ListInv, PopFrontCut, UNCHANGED way, RefTypeOK'
  PROVE  ListInv'
<1>0. /\ RefTypeOK /\ OnlyPushed /\ Position /\ cpc3 = "cut" /\ cpc3' = "delete"
      /\ way = "front" /\ old \in Nodes /\ next' = [next EXCEPT ![old] = Null]
      /\ UNCHANGED <<way, head, made, pushing, old, desired, retried, taken, freed>>
  BY DEF ListInv, PopFrontCut, Position
<1>1. /\ InHand = {old} /\ InHand' = {old} /\ InList = Along(next, head)
      /\ InList' = Along(next', head) /\ Pushed' = Pushed
  BY <1>0, HandIs, HandWillBe, ChainIs, ChainWillBe DEF Pushed
<1>2. /\ old \notin InList /\ InList \subseteq Nodes /\ head \in Ends
  BY <1>1, OnlyPushedReached DEF ListInv, NoNodeTwice, OnlyPushed
<1>3. next'[old] = Null /\ \A n \in Nodes : n # old => next'[n] = next[n]
  BY <1>0 DEF RefTypeOK
<1>4. PICK rank, top : Clock(rank, top)
  BY DEF ListInv, Timed
<1>5. Ranked(next, rank, top) /\ Ranked(next', rank, top)
  <2>1. next' \in [Nodes -> Ends]
    BY <1>0 DEF RefTypeOK, Ends
  <2>2. \A n \in Nodes : next'[n] # Null => rank[next'[n]] < rank[n]
    BY <1>3, <1>4 DEF Clock, Ranked
  <2>3. QED
    BY <1>4, <2>1, <2>2 DEF Clock, Ranked
<1>6. Timed'
  <2>1. Clock(rank, top)'
    BY <1>1, <1>4, <1>5 DEF Clock
  <2>2. QED
    BY <2>1 DEF Timed
<1>7. InList' = InList
  <2>1. \A n \in InList : next[n] # Null => next[n] \in InList
    BY <1>1, <1>2, <1>5, ChainCloses
  <2>2. SameLinks(next, next', InList)
    BY <1>2, <1>3, <2>1 DEF SameLinks
  <2>3. head \in InList \cup {Null}
    BY <1>1, <1>2, <1>5, ChainShape DEF Ends
  <2>4. QED
    BY <1>1, <1>5, <2>2, <2>3, ChainStays
<1>8. OnlyPushed'
  BY <1>0, <1>1, <1>3 DEF OnlyPushed, Reached
<1>9. Position'
  BY <1>0, <1>3 DEF Position
<1>10. Lined' /\ NoNodeTwice' /\ LostOnlyByRetry' /\ ReadInOrder'
  BY <1>0, <1>1, <1>7
     DEF ListInv, Lined, NoNodeTwice, LostOnlyByRetry, ReadInOrder
<1>11. QED
  BY <1>6, <1>8, <1>9, <1>10 DEF ListInv

(* A sequence has as many values as places exactly when no value comes     *)
(* twice.                                                                  *)
LEMMA DistinctCount ==
  ASSUME NEW s \in Seq(Nodes)
  PROVE  /\ IsFiniteSet(Range(s)) /\ Len(s) \in Nat
         /\ Cardinality(Range(s)) = Len(s)
              <=> \A i, j \in 1 .. Len(s) : s[i] = s[j] => i = j
<1>1. /\ Len(s) \in Nat /\ DOMAIN s = 1 .. Len(s) /\ s \in [1 .. Len(s) -> Nodes]
  BY LenProperties
<1>2. s \in Surjection(1 .. Len(s), Range(s))
  BY <1>1 DEF Surjection, Range
<1>3. IsFiniteSet(1 .. Len(s)) /\ Cardinality(1 .. Len(s)) = Len(s)
  BY <1>1, FS_Interval
<1>4. s \in Injection(1 .. Len(s), Range(s)) <=> \A i, j \in 1 .. Len(s) : s[i] = s[j] => i = j
  BY <1>1, <1>2 DEF Injection, IsInjective, Surjection
<1>5. QED
  BY <1>1, <1>2, <1>3, <1>4, FS_Surjection

(* What is read next to what was: all of it, once.                         *)
LEMMA ReadOn ==
  ASSUME NEW s \in Seq(Nodes), NEW t \in Seq(Nodes), Range(s) \cap Range(t) = {},
         Cardinality(Range(s)) = Len(s), Cardinality(Range(t)) = Len(t)
  PROVE  /\ s \o t \in Seq(Nodes) /\ Range(s \o t) = Range(s) \cup Range(t)
         /\ Cardinality(Range(s \o t)) = Len(s \o t)
<1>1. /\ s \o t \in Seq(Nodes) /\ Len(s \o t) = Len(s) + Len(t)
      /\ Range(s \o t) = Range(s) \cup Range(t)
  BY ConcatProperties, RangeConcatenation
<1>2. IsFiniteSet(Range(s)) /\ IsFiniteSet(Range(t)) /\ Len(s) \in Nat /\ Len(t) \in Nat
  BY DistinctCount
<1>3. Cardinality(Range(s) \cup Range(t)) = Len(s) + Len(t) - Cardinality({})
  BY <1>2, FS_Union
<1>4. Cardinality({}) = 0
  BY FS_EmptySet
<1>5. QED
  BY <1>1, <1>2, <1>3, <1>4

(* The node that pop_front cut off is read and deleted, alone.             *)
LEMMA ReadFrontKeeps ==
  ASSUME ListInv, ReadFront, UNCHANGED way, RefTypeOK'
  PROVE  ListInv'
<1>0. /\ RefTypeOK /\ OnlyPushed /\ Position /\ cpc3 = "delete" /\ cpc3' = "look"
      /\ way = "front" /\ old \in Nodes /\ next[old] = Null
      /\ taken' = Append(taken, old) /\ freed' = freed \cup Range(Chain(old))
      /\ UNCHANGED <<way, head, next, made, pushing, old, desired, retried>>
  BY DEF ListInv, ReadFront, Position
<1>1. PICK rank, top : Ranked(next, rank, top)
  BY DEF ListInv, Timed, Clock
<1>2. /\ Pushed' = Pushed /\ Reached' = Reached /\ Timed'
      /\ \A m : Along(next', m) = Along(next, m)
  BY <1>0, TakerKeeps
<1>3. InHand = {old} /\ InHand' = {} /\ InList' = InList
  BY <1>0, HandIs, HandWillBe, ChainIs, ChainWillBe
<1>4. Range(Chain(old)) = {old}
  <2>1. Along(next, old) = {old}
    BY <1>0, <1>1, ChainShape
  <2>2. QED
    BY <2>1, ChainIs DEF Along
<1>5. taken \in Seq(Nodes) /\ old \notin Range(taken) /\ old \notin InList
  BY <1>0, <1>3 DEF ListInv, NoNodeTwice, RefTypeOK
<1>6. Range(taken') = Range(taken) \cup {old} /\ Cardinality(Range(taken')) = Len(taken')
  <2>0. ASSUME NEW n \in Nodes PROVE <<n>> \in Seq(Nodes)
    OBVIOUS
  <2>1. PICK t \in Seq(Nodes) : t = <<old>>
    BY <1>0, <2>0
  <2>2. taken' = taken \o t
    BY <1>0, <1>5, <2>1, AppendIsConcat
  <2>3. Range(t) = {old} /\ Len(t) = 1
    BY <2>1 DEF Range
  <2>4. Cardinality(Range(taken)) = Len(taken) /\ Cardinality(Range(t)) = Len(t)
    BY <2>3, FS_Singleton DEF ListInv, NoNodeTwice
  <2>5. Range(taken) \cap Range(t) = {}
    BY <1>5, <2>3
  <2>6. Range(taken \o t) = Range(taken) \cup Range(t) /\ Cardinality(Range(taken \o t)) = Len(taken \o t)
    BY <1>5, <2>4, <2>5, ReadOn
  <2>7. QED
    BY <2>2, <2>3, <2>6
<1>7. OnlyPushed'
  <2>1. old \in Pushed
    BY <1>3, OnlyPushedReached
  <2>2. QED
    BY <1>0, <1>2, <1>4, <1>6, <2>1 DEF OnlyPushed, Reached
<1>8. Position' /\ Lined' /\ ReadInOrder'
  BY <1>0 DEF Position, Lined, ReadInOrder
<1>9. NoNodeTwice'
  BY <1>0, <1>3, <1>4, <1>5, <1>6 DEF ListInv, NoNodeTwice
<1>10. LostOnlyByRetry'
  BY <1>0, <1>2, <1>3, <1>6 DEF ListInv, LostOnlyByRetry
<1>11. QED
  BY <1>2, <1>7, <1>8, <1>9, <1>10 DEF ListInv

LEMMA Reversed ==
  ASSUME NEW s \in Seq(Nodes)
  PROVE  /\ Reverse(s) \in Seq(Nodes) /\ Len(Reverse(s)) = Len(s) /\ Len(s) \in Nat
         /\ \A i \in 1 .. Len(s) : /\ Len(s) - i + 1 \in 1 .. Len(s)
                                   /\ Reverse(s)[i] = s[Len(s) - i + 1]
         /\ Range(Reverse(s)) = Range(s)
<1>1. Len(s) \in Nat /\ DOMAIN s = 1 .. Len(s) /\ s \in [1 .. Len(s) -> Nodes]
  BY LenProperties
<1> DEFINE l == Len(s)
           r == Reverse(s)
<1>2. r = [i \in 1 .. l |-> s[(l - i) + 1]]
  BY DEF Reverse
<1>3. \A i \in 1 .. l : l - i + 1 \in 1 .. l /\ (l - i) + 1 = l - i + 1
  BY <1>1
<1>4. /\ \A i \in 1 .. l : r[i] = s[l - i + 1]
      /\ r \in [1 .. l -> Nodes] /\ DOMAIN r = 1 .. l
  BY <1>1, <1>2, <1>3
<1> HIDE DEF r
<1>5. r \in Seq(Nodes) /\ Len(r) = l
  BY <1>1, <1>4
<1>6. Range(r) = Range(s)
  <2>1. \A i \in 1 .. l : l - (l - i + 1) + 1 = i
    BY <1>1
  <2>2. \A i \in 1 .. l : s[i] = r[l - i + 1]
    BY <1>3, <1>4, <2>1
  <2>3. QED
    BY <1>1, <1>3, <1>4, <2>2 DEF Range
<1>7. QED
  BY <1>1, <1>3, <1>4, <1>5, <1>6 DEF r

(* The list that pop_all took is read in the order of the pushes, and      *)
(* deleted.                                                                *)
LEMMA ReadAllKeeps ==
  ASSUME ListInv, ReverseAndRead, UNCHANGED way, RefTypeOK'
  PROVE  ListInv'
<1>0. /\ RefTypeOK /\ OnlyPushed /\ Position /\ cpc3 = "read" /\ cpc3' = "look" /\ way = "all"
      /\ taken' = taken \o Reverse(Chain(old)) /\ freed' = freed \cup Range(Chain(old))
      /\ UNCHANGED <<way, head, next, made, pushing, old, desired, retried>>
  BY DEF ListInv, ReverseAndRead, Position
<1>1. PICK rank, top : Clock(rank, top)
  BY DEF ListInv, Timed
<1>r. /\ Ranked(next, rank, top) /\ rank \in [Nodes -> 0 .. top] /\ top \in Nat
      /\ \A m, n \in Pushed : m[1] = n[1] /\ m[2] < n[2] => rank[m] < rank[n]
  BY <1>1 DEF Clock, Ranked
<1>2. /\ Pushed' = Pushed /\ Reached' = Reached /\ Timed'
      /\ \A m : Along(next', m) = Along(next, m)
  BY <1>0, TakerKeeps
<1>3. PICK c : c = ChainFrom(next, old)
  OBVIOUS
<1>4. /\ Chain(old) = c /\ Range(c) = InHand /\ InHand' = {} /\ InList' = InList
  BY <1>0, <1>2, <1>3, HandIs, HandWillBe, ChainIs, ChainWillBe DEF Along
<1>5. /\ old \in Ends /\ InHand \subseteq Pushed /\ Pushed \subseteq Nodes
  BY <1>0, OnlyPushedReached DEF OnlyPushed
<1>6. c \in Seq(Nodes)
  BY <1>3, <1>5, <1>r, ChainShape
<1>7. \A j \in 1 .. Len(c) : \A i \in 1 .. j - 1 : rank[c[j]] < rank[c[i]]
  BY <1>3, <1>5, <1>r, ChainFalls
<1>8. \A i \in 1 .. Len(c) : c[i] \in Pushed /\ c[i] \in Range(c)
  BY <1>4, <1>5, <1>6, LenProperties DEF Range
<1>9. Len(c) \in Nat /\ \A i \in 1 .. Len(c) : rank[c[i]] \in Nat
  BY <1>5, <1>6, <1>8, <1>r, LenProperties
<1>10. \A i, j \in 1 .. Len(c) : c[i] = c[j] => i = j
  <2>1. SUFFICES ASSUME NEW i \in 1 .. Len(c), NEW j \in 1 .. Len(c), c[i] = c[j], i # j
                 PROVE  FALSE
    OBVIOUS
  <2>2. j \in 1 .. i - 1 \/ i \in 1 .. j - 1
    BY <1>9, <2>1
  <2>3. rank[c[i]] < rank[c[j]] \/ rank[c[j]] < rank[c[i]]
    BY <1>7, <2>2
  <2>4. QED
    BY <1>9, <2>1, <2>3
<1>11. PICK r : r = Reverse(c)
  OBVIOUS
<1>12. /\ r \in Seq(Nodes) /\ Len(r) = Len(c) /\ Range(r) = Range(c)
       /\ \A i \in 1 .. Len(c) : Len(c) - i + 1 \in 1 .. Len(c) /\ r[i] = c[Len(c) - i + 1]
  BY <1>6, <1>11, Reversed
<1>13. /\ taken \in Seq(Nodes) /\ Range(taken) \cap Range(r) = {}
       /\ Cardinality(Range(taken)) = Len(taken)
  BY <1>4, <1>12 DEF ListInv, RefTypeOK, NoNodeTwice
<1>14. Cardinality(Range(r)) = Len(r)
  BY <1>6, <1>10, <1>12, DistinctCount
<1>15. /\ Range(taken') = Range(taken) \cup InHand /\ Cardinality(Range(taken')) = Len(taken')
  <2>1. /\ Range(taken \o r) = Range(taken) \cup Range(r)
        /\ Cardinality(Range(taken \o r)) = Len(taken \o r)
    BY <1>12, <1>13, <1>14, ReadOn
  <2>2. QED
    BY <1>0, <1>4, <1>11, <1>12, <2>1
<1>16. freed' = freed \cup InHand
  BY <1>0, <1>4
<1>17. OnlyPushed'
  BY <1>0, <1>2, <1>5, <1>15, <1>16 DEF OnlyPushed
<1>18. Position'
  BY <1>0 DEF Position
<1>19. Lined'
  BY <1>0, <1>4, <1>15 DEF ListInv, Lined, PushedBefore
<1>20. NoNodeTwice'
  BY <1>4, <1>15, <1>16 DEF ListInv, NoNodeTwice
<1>21. LostOnlyByRetry'
  BY <1>0, <1>2, <1>4, <1>15 DEF ListInv, LostOnlyByRetry
<1>22. ReadInOrder'
  <2>1. /\ taken' = taken \o r /\ taken \o r \in Seq(Nodes)
        /\ Len(taken \o r) = Len(taken) + Len(r) /\ Len(taken) \in Nat /\ Len(r) \in Nat
        /\ \A i \in 1 .. Len(taken) + Len(r) :
             (taken \o r)[i] = IF i <= Len(taken) THEN taken[i] ELSE r[i - Len(taken)]
    <3>1. taken' = taken \o r
      BY <1>0, <1>4, <1>11
    <3>2. Len(taken) \in Nat /\ Len(r) \in Nat
      BY <1>9, <1>12, <1>13, LenProperties
    <3>3. /\ taken \o r \in Seq(Nodes) /\ Len(taken \o r) = Len(taken) + Len(r)
          /\ \A i \in 1 .. Len(taken) + Len(r) :
               (taken \o r)[i] = IF i <= Len(taken) THEN taken[i] ELSE r[i - Len(taken)]
      <4>1. PICK s \in Seq(Nodes) : s = taken
        BY <1>13
      <4>2. r \in Seq(Nodes)
        BY <1>12
      <4>3. /\ s \o r \in Seq(Nodes) /\ Len(s \o r) = Len(s) + Len(r)
            /\ \A i \in 1 .. Len(s) + Len(r) :
                 (s \o r)[i] = IF i <= Len(s) THEN s[i] ELSE r[i - Len(s)]
        BY <4>2, ConcatProperties
      <4>4. QED
        BY <4>1, <4>3
    <3>4. QED
      BY <3>1, <3>2, <3>3
  <2>2. DOMAIN taken' = 1 .. Len(taken) + Len(r) /\ DOMAIN taken = 1 .. Len(taken)
    BY <1>13, <2>1, LenProperties
  <2>3. \A i \in 1 .. Len(taken) : taken[i] \in Range(taken)
    BY <2>2 DEF Range
  <2>4. \A i \in 1 .. Len(r) : r[i] \in InHand
    BY <1>4, <1>8, <1>12
  <2>5. ASSUME NEW k \in DOMAIN taken', NEW m \in 1 .. k - 1, taken'[m][1] = taken'[k][1]
        PROVE  taken'[m][2] < taken'[k][2]
    <3>1. k \in 1 .. Len(taken) + Len(r) /\ m \in 1 .. Len(taken) + Len(r) /\ m < k
      BY <2>1, <2>2
    <3>2. CASE k <= Len(taken)
      <4>1. k \in DOMAIN taken /\ taken'[k] = taken[k] /\ taken'[m] = taken[m]
        BY <2>1, <2>2, <3>1, <3>2
      <4>2. \A l \in DOMAIN taken : \A n \in 1 .. l - 1 :
              taken[n][1] = taken[l][1] => taken[n][2] < taken[l][2]
        BY <1>0 DEF ListInv, ReadInOrder
      <4>3. QED
        BY <2>5, <4>1, <4>2
    <3>3. CASE k > Len(taken) /\ m <= Len(taken)
      <4>1. /\ k - Len(taken) \in 1 .. Len(r) /\ m \in 1 .. Len(taken)
            /\ taken'[k] = r[k - Len(taken)] /\ taken'[m] = taken[m]
        BY <2>1, <3>1, <3>3
      <4>2. taken'[k] \in InHand /\ taken'[m] \in Range(taken)
        BY <2>3, <2>4, <4>1
      <4>3. QED
        BY <1>0, <2>5, <4>2 DEF ListInv, Lined, PushedBefore
    <3>4. CASE m > Len(taken)
      <4> DEFINE a == Len(c) - (m - Len(taken)) + 1
                 b == Len(c) - (k - Len(taken)) + 1
      <4>1. /\ k - Len(taken) \in 1 .. Len(c) /\ m - Len(taken) \in 1 .. Len(c)
            /\ taken'[k] = r[k - Len(taken)] /\ taken'[m] = r[m - Len(taken)]
        BY <1>12, <2>1, <3>1, <3>4
      <4>2. /\ a \in 1 .. Len(c) /\ b \in 1 .. Len(c) /\ taken'[k] = c[b] /\ taken'[m] = c[a]
        BY <1>12, <4>1
      <4>3. b \in 1 .. a - 1
        BY <1>9, <2>1, <3>1, <4>2
      <4> HIDE DEF a, b
      <4>4. rank[c[a]] < rank[c[b]] /\ c[a] \in Pushed /\ c[b] \in Pushed
        BY <1>7, <1>8, <4>2, <4>3
      <4>5. rank[c[a]] \in Nat /\ rank[c[b]] \in Nat
        BY <1>9, <4>2
      <4>6. ~(c[b][2] < c[a][2])
        BY <1>r, <2>5, <4>2, <4>4, <4>5
      <4>7. c[a] # c[b]
        BY <4>4, <4>5
      <4>8. c[a][2] # c[b][2]
        BY <1>5, <2>5, <4>2, <4>4, <4>7 DEF Nodes
      <4>9. c[a][2] \in Nat /\ c[b][2] \in Nat
        BY <1>5, <4>4, ListAssumption DEF Nodes
      <4>10. QED
        BY <4>2, <4>6, <4>8, <4>9
    <3>5. QED
      BY <2>1, <3>1, <3>2, <3>3, <3>4
  <2>6. QED
    BY <2>5 DEF ReadInOrder
<1>23. QED
  BY <1>2, <1>17, <1>18, <1>19, <1>20, <1>21, <1>22 DEF ListInv
-----------------------------------------------------------------------------
(* Whoever is in the loop of push_front has a node.                        *)
Building == \A p \in Pushers : pushing[p] => made[p] > 0

RefInv == ListInv /\ Building

LEMMA NodeTotalNat == NodeTotal \in Nat
<1>1. Cardinality(Pushers) \in Nat /\ PerPusher \in Nat
  BY ListAssumption, FS_CardinalityType
<1>2. QED
  BY <1>1 DEF NodeTotal

(* push_front takes a new node, whose link is the head.                    *)
LEMMA PushLoads ==
  ASSUME RefInv, NEW p \in Pushers, PushFrontLoad(p), UNCHANGED way
  PROVE  RefInv'
<1>0. /\ RefTypeOK /\ OnlyPushed /\ Building /\ PerPusher \in Nat
      /\ ~pushing[p] /\ made[p] < PerPusher
      /\ made' = [made EXCEPT ![p] = made[p] + 1] /\ pushing' = [pushing EXCEPT ![p] = TRUE]
      /\ next' = [next EXCEPT ![<<p, made[p] + 1>>] = head]
      /\ UNCHANGED <<way, head, cpc3, old, desired, retried, taken, freed, sleeps>>
  BY ListAssumption DEF RefInv, ListInv, PushFrontLoad
<1>1. /\ made \in [Pushers -> 0 .. PerPusher] /\ pushing \in [Pushers -> BOOLEAN]
      /\ next \in [Nodes -> Nodes \cup {Null}] /\ head \in Nodes \cup {Null}
  BY <1>0 DEF RefTypeOK
<1>2. made[p] \in Nat /\ made[p] + 1 \in 1 .. PerPusher
  BY <1>0, <1>1
<1>3. PICK n : n = <<p, made[p] + 1>>
  OBVIOUS
<1>4. n \in Nodes /\ n[1] = p /\ n[2] = made[p] + 1 /\ next' = [next EXCEPT ![n] = head]
  BY <1>0, <1>2, <1>3 DEF Nodes
<1>5. /\ \A q \in Pushers : made'[q] = IF q = p THEN made[p] + 1 ELSE made[q]
      /\ \A q \in Pushers : pushing'[q] = IF q = p THEN TRUE ELSE pushing[q]
  BY <1>0, <1>1
<1>6. n \notin Pushed
  BY <1>2, <1>4 DEF Pushed
<1>7. Pushed' = Pushed
  <2>1. ASSUME NEW m \in Nodes
        PROVE  (m[2] < made'[m[1]] \/ (m[2] = made'[m[1]] /\ ~pushing'[m[1]]))
                 <=> (m[2] < made[m[1]] \/ (m[2] = made[m[1]] /\ ~pushing[m[1]]))
    <3>1. m[1] \in Pushers /\ m[2] \in Nat
      BY ListAssumption DEF Nodes
    <3>2. CASE m[1] = p
      <4>1. m[2] < made[p] + 1 <=> m[2] < made[p] \/ m[2] = made[p]
        BY <1>2, <3>1
      <4>2. QED
        BY <1>0, <1>5, <3>1, <3>2, <4>1
    <3>3. CASE m[1] # p
      BY <1>5, <3>1, <3>3
    <3>4. QED
      BY <3>2, <3>3
  <2>2. QED
    BY <2>1 DEF Pushed
<1>8. RefTypeOK'
  <2>1. made' \in [Pushers -> 0 .. PerPusher]
    BY <1>0, <1>1, <1>2
  <2>2. pushing' \in [Pushers -> BOOLEAN] /\ next' \in [Nodes -> Nodes \cup {Null}]
    BY <1>0, <1>1, <1>4
  <2>3. QED
    BY <1>0, <2>1, <2>2 DEF RefTypeOK
<1>9. ListInv'
  BY <1>0, <1>4, <1>6, <1>7, <1>8, LinkKeeps DEF RefInv
<1>10. Building'
  BY <1>0, <1>2, <1>5 DEF Building
<1>11. QED
  BY <1>9, <1>10 DEF RefInv

(* The exchange of push_front: the node is pushed, or its link follows the *)
(* head.                                                                   *)
LEMMA PushExchanges ==
  ASSUME RefInv, NEW p \in Pushers, PushFrontExchange(p), UNCHANGED way
  PROVE  RefInv'
<1>0. /\ RefTypeOK /\ OnlyPushed /\ Building /\ PerPusher \in Nat /\ pushing[p] /\ ListInv
      /\ UNCHANGED <<way, made, cpc3, old, desired, retried, taken, freed, sleeps>>
  BY ListAssumption DEF RefInv, ListInv, PushFrontExchange
<1>1. /\ made \in [Pushers -> 0 .. PerPusher] /\ pushing \in [Pushers -> BOOLEAN]
      /\ next \in [Nodes -> Nodes \cup {Null}] /\ head \in Nodes \cup {Null}
  BY <1>0 DEF RefTypeOK
<1>2. made[p] \in 1 .. PerPusher
  BY <1>0, <1>1 DEF Building
<1>3. PICK n : n = <<p, made[p]>>
  OBVIOUS
<1>4. n \in Nodes /\ n[1] = p /\ n[2] = made[p]
  BY <1>2, <1>3 DEF Nodes
<1>5. n \notin Pushed
  BY <1>0, <1>2, <1>4 DEF Pushed
<1>6. CASE head = next[n]
  <2>1. head' = n /\ pushing' = [pushing EXCEPT ![p] = FALSE] /\ UNCHANGED next
    BY <1>3, <1>6 DEF PushFrontExchange
  <2>2. \A q \in Pushers : pushing'[q] = IF q = p THEN FALSE ELSE pushing[q]
    BY <1>1, <2>1
  <2>3. Pushed' = Pushed \cup {n}
    <3>1. ASSUME NEW m \in Nodes
          PROVE  (m[2] < made[m[1]] \/ (m[2] = made[m[1]] /\ ~pushing'[m[1]]))
                   <=> m = n \/ (m[2] < made[m[1]] \/ (m[2] = made[m[1]] /\ ~pushing[m[1]]))
      <4>1. m[1] \in Pushers /\ m = <<m[1], m[2]>>
        BY DEF Nodes
      <4>2. CASE m[1] = p
        BY <1>0, <1>3, <1>4, <2>2, <4>1, <4>2
      <4>3. CASE m[1] # p
        BY <1>4, <2>2, <4>1, <4>3
      <4>4. QED
        BY <4>2, <4>3
    <3>2. QED
      BY <1>0, <1>4, <3>1 DEF Pushed
  <2>4. \A m \in Pushed : m[1] = n[1] => m[2] < n[2]
    BY <1>0, <1>4 DEF Pushed
  <2>5. RefTypeOK'
    <3>1. pushing' \in [Pushers -> BOOLEAN]
      BY <1>1, <2>1
    <3>2. QED
      BY <1>0, <1>4, <2>1, <3>1 DEF RefTypeOK
  <2>6. ListInv'
    BY <1>0, <1>4, <1>5, <1>6, <2>1, <2>3, <2>4, <2>5, PublishKeeps
  <2>7. Building'
    BY <1>0, <2>2 DEF Building
  <2>8. QED
    BY <2>6, <2>7 DEF RefInv
<1>7. CASE head # next[n]
  <2>1. next' = [next EXCEPT ![n] = head] /\ UNCHANGED <<head, pushing>>
    BY <1>3, <1>7 DEF PushFrontExchange
  <2>2. Pushed' = Pushed /\ Building'
    BY <1>0, <2>1 DEF Pushed, Building
  <2>3. RefTypeOK'
    <3>1. next' \in [Nodes -> Nodes \cup {Null}]
      BY <1>1, <2>1
    <3>2. QED
      BY <1>0, <2>1, <3>1 DEF RefTypeOK
  <2>4. ListInv'
    BY <1>0, <1>4, <1>5, <2>1, <2>2, <2>3, LinkKeeps
  <2>5. QED
    BY <2>2, <2>4 DEF RefInv
<1>8. QED
  BY <1>6, <1>7

(* consumer3 looks, loads or ends.                                         *)
LEMMA LooksKeep ==
  ASSUME ListInv, UNCHANGED way,
         PeekEmpty \/ PeekFound \/ PopAllLoad \/ PopFrontLoad \/ ConsumerEnds
  PROVE  ListInv'
<1>0. /\ RefTypeOK /\ OnlyPushed /\ Position
      /\ UNCHANGED <<way, head, next, made, pushing, retried, taken, freed>>
  BY DEF ListInv, PeekEmpty, PeekFound, PopAllLoad, PopFrontLoad, ConsumerEnds, Load
<1>1. CASE PeekEmpty
  <2>1. cpc3 = "look" /\ sleeps < NodeTotal /\ sleeps' = sleeps + 1
        /\ UNCHANGED <<cpc3, old, desired>>
    BY <1>1 DEF PeekEmpty, GoesOn
  <2>2. sleeps' \in 0 .. NodeTotal
    BY <1>0, <2>1, NodeTotalNat DEF RefTypeOK
  <2>3. RefTypeOK'
    BY <1>0, <2>1, <2>2 DEF RefTypeOK
  <2>4. Position'
    BY <1>0, <2>1 DEF Position
  <2>5. QED
    BY <1>0, <2>1, <2>3, <2>4, QuietKeeps DEF OnlyPushed
<1>2. CASE PeekFound
  <2>1. cpc3 = "look" /\ head # Null /\ cpc3' = way /\ UNCHANGED <<old, desired, sleeps>>
        /\ way \in {"all", "front"}
    BY <1>0, <1>2 DEF PeekFound, RefTypeOK
  <2>2. RefTypeOK'
    BY <1>0, <2>1 DEF RefTypeOK
  <2>3. Position'
    BY <1>0, <2>1 DEF Position
  <2>4. QED
    BY <1>0, <2>1, <2>2, <2>3, QuietKeeps DEF OnlyPushed
<1>3. CASE PopAllLoad
  <2>1. cpc3 = "all" /\ cpc3' = "allExchange" /\ old' = head /\ UNCHANGED <<desired, sleeps>>
    BY <1>3 DEF PopAllLoad, Load
  <2>2. RefTypeOK'
    BY <1>0, <2>1 DEF RefTypeOK
  <2>3. Position'
    BY <1>0, <2>1 DEF Position
  <2>4. QED
    BY <1>0, <2>1, <2>2, <2>3, QuietKeeps DEF OnlyPushed
<1>4. CASE PopFrontLoad
  <2>1. cpc3 = "front" /\ cpc3' = "frontExchange" /\ old' = head /\ desired' = next[head]
        /\ UNCHANGED sleeps
    BY <1>4 DEF PopFrontLoad, Load
  <2>2. head \in Nodes /\ next[head] \in Nodes \cup {Null}
    BY <1>0, <2>1 DEF Position, RefTypeOK
  <2>3. RefTypeOK'
    BY <1>0, <2>1, <2>2 DEF RefTypeOK
  <2>4. head \in InList /\ next[head] \in Along(next, next[head]) \cup {Null}
    <3>1. PICK rank, top : Ranked(next, rank, top)
      BY DEF ListInv, Timed, Clock
    <3>2. QED
      BY <2>2, <3>1, ChainShape, ChainIs
  <2>5. InList' = InList
    BY <1>0, ChainIs, ChainWillBe
  <2>6. Position'
    BY <1>0, <2>1, <2>4, <2>5 DEF Position, Along, ChainFrom
  <2>7. old' \in Reached /\ desired' \in Reached
    BY <1>0, <2>1, <2>2 DEF OnlyPushed
  <2>8. QED
    BY <1>0, <2>1, <2>3, <2>6, <2>7, QuietKeeps
<1>5. CASE ConsumerEnds
  <2>1. cpc3 = "look" /\ cpc3' = "done" /\ UNCHANGED <<old, desired, sleeps>>
    BY <1>5 DEF ConsumerEnds
  <2>2. RefTypeOK'
    BY <1>0, <2>1 DEF RefTypeOK
  <2>3. Position'
    BY <1>0, <2>1 DEF Position
  <2>4. QED
    BY <1>0, <2>1, <2>2, <2>3, QuietKeeps DEF OnlyPushed
<1>6. QED
  BY <1>1, <1>2, <1>3, <1>4, <1>5

(* Every step of consumer3.                                                *)
LEMMA TakerStep ==
  ASSUME ListInv, Consumer3
  PROVE  ListInv'
<1>0. /\ RefTypeOK /\ OnlyPushed /\ Position /\ UNCHANGED way
      /\ head \in Nodes \cup {Null} /\ next \in [Nodes -> Nodes \cup {Null}]
      /\ taken \in Seq(Nodes) /\ freed \subseteq Nodes
  BY DEF ListInv, Consumer3, RefTypeOK
<1>1. PICK rank, top : Ranked(next, rank, top)
  BY DEF ListInv, Timed, Clock
<1>2. Chain(old) \in Seq(Nodes) /\ Range(Chain(old)) \subseteq Nodes
  <2>1. old \in Ends
    BY <1>0 DEF RefTypeOK, Ends
  <2>2. QED
    BY <1>1, <2>1, ChainShape, ChainIs DEF Along
<1>3. CASE PopAllExchange
  <2>1. RefTypeOK'
    BY <1>0, <1>3 DEF PopAllExchange, RefTypeOK
  <2>2. QED
    BY <1>0, <1>3, <2>1, PopAllKeeps
<1>4. CASE PopFrontExchange
  <2>1. RefTypeOK'
    BY <1>0, <1>4 DEF PopFrontExchange, RefTypeOK
  <2>2. QED
    BY <1>0, <1>4, <2>1, PopFrontKeeps
<1>5. CASE PopFrontCut
  <2>1. next' \in [Nodes -> Nodes \cup {Null}]
    BY <1>0, <1>5 DEF PopFrontCut
  <2>2. RefTypeOK'
    BY <1>0, <1>5, <2>1 DEF PopFrontCut, RefTypeOK
  <2>3. QED
    BY <1>0, <1>5, <2>2, CutKeeps
<1>6. CASE ReadFront
  <2>1. old \in Nodes
    BY <1>0, <1>6 DEF ReadFront, Position
  <2>2. taken' \in Seq(Nodes)
    BY <1>0, <1>6, <2>1, AppendProperties DEF ReadFront
  <2>3. RefTypeOK'
    BY <1>0, <1>2, <1>6, <2>2 DEF ReadFront, RefTypeOK
  <2>4. QED
    BY <1>0, <1>6, <2>3, ReadFrontKeeps
<1>7. CASE ReverseAndRead
  <2>1. Reverse(Chain(old)) \in Seq(Nodes)
    BY <1>2, Reversed
  <2>2. taken' \in Seq(Nodes)
    BY <1>0, <1>7, <2>1, ConcatProperties DEF ReverseAndRead
  <2>3. RefTypeOK'
    BY <1>0, <1>2, <1>7, <2>2 DEF ReverseAndRead, RefTypeOK
  <2>4. QED
    BY <1>0, <1>7, <2>3, ReadAllKeeps
<1>8. QED
  BY <1>0, <1>3, <1>4, <1>5, <1>6, <1>7, LooksKeep DEF Consumer3

LEMMA RefStutter == RefInv /\ UNCHANGED listRefVars => RefInv'
<1> SUFFICES ASSUME RefInv, UNCHANGED listRefVars PROVE RefInv'
  OBVIOUS
<1>1. UNCHANGED <<way, head, next, made, pushing, cpc3, old, desired, retried, taken, freed,
                  sleeps>>
  BY DEF listRefVars
<1>2. /\ Pushed' = Pushed /\ Reached' = Reached /\ Timed'
      /\ \A m : Along(next', m) = Along(next, m)
  BY <1>1, TakerKeeps DEF RefInv
<1>3. InList' = InList /\ InHand' = InHand
  BY <1>1, <1>2, ChainIs, ChainWillBe, HandIs, HandWillBe
<1>4. RefTypeOK' /\ Building' /\ OnlyPushed'
  BY <1>1, <1>2 DEF RefInv, ListInv, RefTypeOK, Building, OnlyPushed
<1>5. Position'
  BY <1>1, <1>3 DEF RefInv, ListInv, Position, Along, ChainFrom
<1>6. Lined' /\ NoNodeTwice' /\ LostOnlyByRetry' /\ ReadInOrder'
  BY <1>1, <1>2, <1>3
     DEF RefInv, ListInv, Lined, PushedBefore, NoNodeTwice, LostOnlyByRetry, ReadInOrder
<1>7. QED
  BY <1>2, <1>4, <1>5, <1>6 DEF RefInv, ListInv

LEMMA RefStep == RefInv /\ [RefNext \/ RefDone]_listRefVars => RefInv'
<1> SUFFICES ASSUME RefInv, [RefNext \/ RefDone]_listRefVars PROVE RefInv'
  OBVIOUS
<1>1. CASE Consumer3
  <2>1. UNCHANGED <<made, pushing>>
    BY <1>1 DEF Consumer3, PeekEmpty, PeekFound, PopAllLoad, PopAllExchange, ReverseAndRead,
                PopFrontLoad, PopFrontExchange, PopFrontCut, ReadFront, ConsumerEnds, Load
  <2>2. QED
    BY <1>1, <2>1, TakerStep DEF RefInv, Building
<1>2. ASSUME NEW p \in Pushers, PushFront(p) PROVE RefInv'
  BY <1>2, PushLoads, PushExchanges DEF PushFront
<1>3. CASE RefDone \/ UNCHANGED listRefVars
  BY <1>3, RefStutter DEF RefDone
<1>4. QED
  BY <1>1, <1>2, <1>3 DEF RefNext

(* The list is empty and every node is new.                                *)
LEMMA RefStarts == RefInit => RefInv
<1> SUFFICES ASSUME RefInit PROVE RefInv
  OBVIOUS
<1>1. /\ way \in {"all", "front"} /\ head = Null /\ next = [n \in Nodes |-> Null]
      /\ made = [p \in Pushers |-> 0] /\ pushing = [p \in Pushers |-> FALSE]
      /\ cpc3 = "look" /\ old = Null /\ desired = Null /\ retried = FALSE
      /\ taken = <<>> /\ freed = {} /\ sleeps = 0
  BY DEF RefInit
<1>2. RefTypeOK
  <2>1. 0 \in 0 .. PerPusher /\ 0 \in 0 .. NodeTotal
    BY ListAssumption, NodeTotalNat
  <2>2. taken \in Seq(Nodes)
    BY <1>1, EmptySeq
  <2>3. QED
    BY <1>1, <2>1, <2>2 DEF RefTypeOK
<1>3. Pushed = {}
  <2>1. \A n \in Nodes : n[1] \in Pushers /\ n[2] \in Nat /\ n[2] > 0
    BY ListAssumption DEF Nodes
  <2>2. \A n \in Nodes : made[n[1]] = 0
    BY <1>1, <2>1
  <2>3. QED
    BY <2>1, <2>2 DEF Pushed
<1>4. PICK rank : rank = [n \in Nodes |-> 0]
  OBVIOUS
<1>5. Ranked(next, rank, 0)
  BY <1>1, <1>4 DEF Ranked, Ends
<1>6. Timed
  <2>1. Clock(rank, 0)
    BY <1>3, <1>4, <1>5 DEF Clock
  <2>2. QED
    BY <2>1 DEF Timed
<1>7. InList = {} /\ InHand = {} /\ Range(taken) = {}
  <2>1. InList = {}
    BY <1>1, <1>5, ChainShape, ChainIs
  <2>2. QED
    BY <1>1, <2>1, HandIs DEF Range
<1>8. Cardinality(Range(taken)) = Len(taken)
  BY <1>1, <1>7, FS_EmptySet, EmptySeq
<1>9. OnlyPushed /\ Position
  BY <1>1, <1>3, <1>7 DEF OnlyPushed, Reached, Position
<1>10. Lined /\ NoNodeTwice /\ LostOnlyByRetry
  BY <1>1, <1>3, <1>7, <1>8 DEF Lined, PushedBefore, NoNodeTwice, LostOnlyByRetry
<1>11. ReadInOrder
  BY <1>1 DEF ReadInOrder
<1>12. Building
  BY <1>1 DEF Building
<1>13. QED
  BY <1>2, <1>6, <1>9, <1>10, <1>11, <1>12 DEF RefInv, ListInv

LEMMA RefInductive == RefSpec => []RefInv
<1>1. RefInit => RefInv
  BY RefStarts
<1>2. RefInv /\ [RefNext \/ RefDone]_listRefVars => RefInv'
  BY RefStep
<1>3. QED
  BY <1>1, <1>2, PTL DEF RefSpec

(* slist.h:94-131 and listvslist-gc.cpp:154-165: no node is read or        *)
(* deleted twice or used after it was deleted, the only way to lose one is *)
(* an exchange of pop_front that fails, and pop_all keeps each pusher's    *)
(* order, for every number of pushers and nodes.                           *)
THEOREM NodesAlwaysAccounted == RefSpec => [](RefTypeOK /\ NodesAccounted)
<1>1. RefInv => RefTypeOK /\ NodesAccounted
  BY DEF RefInv, ListInv, NodesAccounted
<1>2. QED
  BY <1>1, RefInductive, PTL
-----------------------------------------------------------------------------
(* The list is a stack.                                                    *)

(* A step that leaves the links of the list alone.                         *)
LEMMA StackStays ==
  ASSUME RefInv, RefInv', head' = head, NEW A, SameLinks(next, next', A),
         head \in A \cup {Null}
  PROVE  Chain(head)' = Chain(head)
<1>1. PICK rank, top : Ranked(next, rank, top)
  BY DEF RefInv, ListInv, Timed, Clock
<1>2. PICK rank2, top2 : Ranked(next', rank2, top2)
  BY DEF RefInv, ListInv, Timed, Clock
<1>3. ChainFrom(next', head) = ChainFrom(next, head)
  BY <1>1, <1>2, ChainStays
<1>4. QED
  BY <1>3, ChainIs, ChainWillBe

LEMMA StackSame ==
  ASSUME UNCHANGED <<head, next>>
  PROVE  Chain(head)' = Chain(head)
BY ChainIs, ChainWillBe

(* push_front puts a node on the stack, or changes the link of one that is *)
(* not in it.                                                              *)
LEMMA PushIsPush ==
  ASSUME RefInv, RefInv', NEW p \in Pushers, PushFront(p)
  PROVE  Promise!Push \/ UNCHANGED Chain(head)
<1>0. /\ RefTypeOK /\ OnlyPushed /\ Building /\ Pushed \subseteq Nodes /\ Null \notin Pushed
      /\ head \in Reached /\ PerPusher \in Nat
  BY OnlyPushedReached, ListAssumption DEF RefInv, ListInv, OnlyPushed
<1>1. /\ made \in [Pushers -> 0 .. PerPusher] /\ next \in [Nodes -> Nodes \cup {Null}]
  BY <1>0 DEF RefTypeOK
<1>2. ASSUME NEW n \in Nodes \ Pushed, next' = [next EXCEPT ![n] = head], head' = head
      PROVE  UNCHANGED Chain(head)
  <2>1. SameLinks(next, next', Pushed)
    BY <1>0, <1>1, <1>2 DEF SameLinks, OnlyPushed, Reached
  <2>2. QED
    BY <1>0, <1>2, <2>1, StackStays DEF Reached
<1>3. CASE PushFrontLoad(p)
  <2>1. PICK n : n = <<p, made[p] + 1>>
    OBVIOUS
  <2>2. made[p] \in 0 .. PerPusher /\ made[p] < PerPusher
    BY <1>1, <1>3 DEF PushFrontLoad
  <2>3. n \in Nodes /\ n \notin Pushed
    <3>1. made[p] + 1 \in 1 .. PerPusher /\ ~(made[p] + 1 < made[p]) /\ made[p] + 1 # made[p]
      BY <1>0, <2>2
    <3>2. QED
      BY <2>1, <3>1 DEF Nodes, Pushed
  <2>4. next' = [next EXCEPT ![n] = head] /\ head' = head
    BY <1>3, <2>1 DEF PushFrontLoad
  <2>5. QED
    BY <1>2, <2>3, <2>4
<1>4. CASE PushFrontExchange(p)
  <2>1. PICK n : n = <<p, made[p]>>
    OBVIOUS
  <2>2. pushing[p] /\ made[p] \in 1 .. PerPusher
    BY <1>0, <1>1, <1>4 DEF PushFrontExchange, Building
  <2>3. n \in Nodes /\ n \notin Pushed
    BY <1>0, <2>1, <2>2 DEF Nodes, Pushed
  <2>4. CASE head = next[n]
    <3>1. head' = n /\ next' = next
      BY <1>4, <2>1, <2>4 DEF PushFrontExchange
    <3>2. PICK rank, top : Ranked(next, rank, top)
      BY DEF RefInv, ListInv, Timed, Clock
    <3>3. ChainFrom(next, n) = <<n>> \o ChainFrom(next, head)
      BY <2>3, <2>4, <3>2, ChainUnfolds
    <3>4. Chain(head)' = <<n>> \o Chain(head)
      BY <3>1, <3>3, ChainIs, ChainWillBe
    <3>5. QED
      BY <2>3, <3>4 DEF Promise!Push
  <2>5. CASE head # next[n]
    <3>1. next' = [next EXCEPT ![n] = head] /\ head' = head
      BY <1>4, <2>1, <2>5 DEF PushFrontExchange
    <3>2. QED
      BY <1>2, <2>3, <3>1
  <2>6. QED
    BY <2>4, <2>5
<1>5. QED
  BY <1>3, <1>4 DEF PushFront

(* pop_all takes the whole stack.                                          *)
LEMMA PopAllTakes ==
  ASSUME RefInv, PopAllExchange
  PROVE  Promise!TakeAll \/ UNCHANGED Chain(head)
<1>1. cpc3 = "allExchange" /\ next' = next /\ (head' = head \/ head' = Null)
  BY DEF PopAllExchange
<1>2. head \in Nodes
  BY <1>1 DEF RefInv, ListInv, Position, RefTypeOK
<1>3. CASE head' = head
  BY <1>1, <1>3, StackSame
<1>4. CASE head' = Null
  <2>1. PICK rank, top : Ranked(next, rank, top)
    BY DEF RefInv, ListInv, Timed, Clock
  <2>2. ChainFrom(next, Null) = <<>>
    BY <2>1, ChainUnfolds
  <2>3. Chain(head)' = <<>>
    BY <1>1, <1>4, <2>2, ChainWillBe
  <2>4. head \in Along(next, head)
    BY <1>2, <2>1, ChainShape
  <2>5. Chain(head) # <<>>
    BY <2>4, ChainIs DEF Along, Range
  <2>6. QED
    BY <2>3, <2>5 DEF Promise!TakeAll
<1>5. QED
  BY <1>1, <1>3, <1>4

(* pop_front takes the first node, and what lies between it and desired.   *)
LEMMA PopFrontTakes ==
  ASSUME RefInv, PopFrontExchange
  PROVE  Promise!TakeFirst \/ UNCHANGED Chain(head)
<1>1. /\ cpc3 = "frontExchange" /\ next' = next
      /\ head' = head \/ (head = old /\ head' = desired)
  BY DEF PopFrontExchange
<1>2. head \in Nodes /\ desired \in Nodes \cup {Null}
  BY <1>1 DEF RefInv, ListInv, Position, RefTypeOK
<1>3. CASE head' = head
  BY <1>1, <1>3, StackSame
<1>4. CASE head = old /\ head' = desired
  <2>1. PICK rank, top : Ranked(next, rank, top)
    BY DEF RefInv, ListInv, Timed, Clock
  <2>2. desired \in Along(next, next[head]) \cup {Null}
    BY <1>1, <1>4 DEF RefInv, ListInv, Position
  <2>3. next[head] \in Ends /\ head \in Ends /\ rank[head] \in Nat
    BY <1>2, <2>1 DEF Ranked, Ends
  <2>4. Along(next, head) = {head} \cup Along(next, next[head])
    BY <1>2, <2>1, ChainShape
  <2>5. PICK c : c = ChainFrom(next, head)
    OBVIOUS
  <2>6. PICK k \in 0 .. Len(c) : ChainFrom(next, desired) = SubSeq(c, k + 1, Len(c))
    BY <2>1, <2>2, <2>3, <2>4, <2>5, ChainRest
  <2>7. c \in Seq(Nodes) /\ Range(c) = Along(next, head)
    BY <2>1, <2>3, <2>5, ChainShape DEF Along
  <2>8. head \notin Along(next, desired)
    <3>1. head \notin Along(next, next[head])
      BY <1>2, <2>1, <2>3, ChainFalls
    <3>2. Along(next, desired) \subseteq Along(next, next[head])
      <4>1. CASE desired = Null
        BY <2>1, <4>1, ChainShape
      <4>2. CASE desired \in Along(next, next[head])
        BY <2>1, <2>3, <4>2, ChainCloses
      <4>3. QED
        BY <2>2, <4>1, <4>2
    <3>3. QED
      BY <3>1, <3>2
  <2>9. k # 0
    <3>1. ASSUME k = 0 PROVE FALSE
      <4>1. SubSeq(c, 1, Len(c)) = c
        BY <2>7, SubSeqFull
      <4>2. ChainFrom(next, desired) = c
        BY <2>6, <3>1, <4>1
      <4>3. QED
        BY <2>4, <2>7, <2>8, <4>2 DEF Along
    <3>2. QED
      BY <3>1
  <2>10. k \in 1 .. Len(c)
    BY <2>6, <2>9
  <2>11. Chain(head)' = SubSeq(Chain(head), k + 1, Len(Chain(head))) /\ k \in 1 .. Len(Chain(head))
    BY <1>1, <1>4, <2>5, <2>6, <2>10, ChainIs, ChainWillBe
  <2>12. QED
    BY <2>11 DEF Promise!TakeFirst
<1>5. QED
  BY <1>1, <1>3, <1>4

LEMMA StackStep ==
  RefInv /\ RefInv' /\ [RefNext \/ RefDone]_listRefVars =>
    [Promise!Push \/ Promise!TakeAll \/ Promise!TakeFirst]_(Chain(head))
<1> SUFFICES ASSUME RefInv, RefInv', [RefNext \/ RefDone]_listRefVars
             PROVE  Promise!Push \/ Promise!TakeAll \/ Promise!TakeFirst \/ UNCHANGED Chain(head)
  OBVIOUS
<1>1. CASE PopFrontCut
  <2>1. /\ cpc3 = "cut" /\ next' = [next EXCEPT ![old] = Null] /\ head' = head
    BY <1>1 DEF PopFrontCut
  <2>2. /\ old \notin InList /\ InList = Along(next, head) /\ InList \subseteq Nodes
        /\ head \in Ends /\ next \in [Nodes -> Nodes \cup {Null}]
    BY <2>1, OnlyPushedReached, HandIs, ChainIs
       DEF RefInv, ListInv, NoNodeTwice, OnlyPushed, RefTypeOK
  <2>3. PICK rank, top : Ranked(next, rank, top)
    BY DEF RefInv, ListInv, Timed, Clock
  <2>4. \A n \in InList : next[n] # Null => next[n] \in InList
    BY <2>2, <2>3, ChainCloses
  <2>5. SameLinks(next, next', InList)
    BY <2>1, <2>2, <2>4 DEF SameLinks
  <2>6. head \in InList \cup {Null}
    BY <2>2, <2>3, ChainShape DEF Ends
  <2>7. QED
    BY <2>1, <2>5, <2>6, StackStays
<1>2. CASE \/ PeekEmpty \/ PeekFound \/ PopAllLoad \/ ReverseAndRead \/ PopFrontLoad
           \/ ReadFront \/ ConsumerEnds \/ RefDone \/ UNCHANGED listRefVars
  <2>1. UNCHANGED <<head, next>>
    BY <1>2 DEF PeekEmpty, PeekFound, PopAllLoad, ReverseAndRead, PopFrontLoad, ReadFront,
                ConsumerEnds, Load, RefDone, listRefVars
  <2>2. QED
    BY <2>1, StackSame
<1>3. CASE Consumer3
  BY <1>1, <1>2, <1>3, PopAllTakes, PopFrontTakes DEF Consumer3
<1>4. ASSUME NEW p \in Pushers, PushFront(p)
      PROVE  Promise!Push \/ UNCHANGED Chain(head)
  BY <1>4, PushIsPush
<1>5. QED
  BY <1>2, <1>3, <1>4 DEF RefNext

(* push_front, pop_all and pop_front are single steps of a stack           *)
(* (slist.h:94-131), although each reads the head before it exchanges it   *)
(* and other threads change it in between.                                 *)
THEOREM ListIsStack == RefSpec => ImplementsStack
<1>1. RefInit => Promise!StackInit
  <2>1. SUFFICES ASSUME RefInit PROVE Chain(head) = <<>>
    BY DEF Promise!StackInit
  <2>2. RefInv /\ head = Null
    BY <2>1, RefStarts DEF RefInit
  <2>3. PICK rank, top : Ranked(next, rank, top)
    BY <2>2 DEF RefInv, ListInv, Timed, Clock
  <2>4. ChainFrom(next, Null) = <<>>
    BY <2>3, ChainUnfolds
  <2>5. QED
    BY <2>2, <2>4, ChainIs
<1>2. RefInv /\ RefInv' /\ [RefNext \/ RefDone]_listRefVars =>
        [Promise!Push \/ Promise!TakeAll \/ Promise!TakeFirst]_(Chain(head))
  BY StackStep
<1>3. QED
  BY <1>1, <1>2, RefInductive, PTL DEF RefSpec, ImplementsStack, Promise!StackSpec
=============================================================================
