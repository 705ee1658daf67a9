----------------------------- MODULE DualBuffer -----------------------------
(***************************************************************************)
(* DataBatchingBuffer of src/cpp11/dualBuffer.hpp, driven the way          *)
(* DualBufferTest and DualBufferTestReceiver drive it: several sender      *)
(* threads, each with a buffer of its own, and one receiver thread that    *)
(* polls all of them.                                                      *)
(*                                                                         *)
(* A sender batches records in a private block (currSqf) and takes the     *)
(* lock only to move a full or overdue block to the queue; the receiver    *)
(* looks at the counters without the lock, then takes it to grab the whole *)
(* queue.  Each critical section is one step.  Time is abstracted: whether *)
(* the update interval has passed is a free choice where the code asks.    *)
(***************************************************************************)
EXTENDS Integers, FiniteSets, SequencesExt

CONSTANTS
  Tests,         (* the tests StartTest or StartTestTal4 may start          *)
  Block,         (* how many records fit in MEM_BLOCK_SIZE                  *)
  MaxAllowed,    (* dwMaxAllowedQSize, in records                           *)
  WaitLimit,     (* the 10 sleeps of queueWait                              *)
  RetryLimit,    (* the 10 retries of DoReceive                             *)
  Word,          (* DWORD arithmetic is modulo Word                         *)
  LastDue,       (* the answers the last heartbeat may get: {TRUE} when     *)
                 (* UpdateInterval is below the 50 ms it sleeps first       *)
  MaxResets      (* bound: how often clearStats is called                   *)

(* senders: totSenders; updates: updatesToSend, for each sender; batched:   *)
(* DoUpdates (SQF), else DoUpdatesTal4; allocFails: whether "new" may fail. *)
ASSUME DualBufferAssumption ==
  /\ \A t \in Tests :
       /\ t.senders \in Nat \ {0} /\ t.updates \in Nat \ {0}
       /\ t.batched \in BOOLEAN /\ t.allocFails \in BOOLEAN
  /\ Block \in Nat \ {0} /\ MaxAllowed \in Nat
  /\ WaitLimit \in Nat \ {0} /\ RetryLimit \in Nat \ {0, 1}
  /\ Word \in Nat /\ MaxAllowed + Block < Word
  /\ LastDue \in (SUBSET BOOLEAN) \ {{}} /\ MaxResets \in Nat

VARIABLES
  test,       (* the test that runs                                        *)
  buf,        (* the buffer of each sender, a record of Buffer             *)
  pc,         (* where each sender is                                      *)
  next,       (* i: the update each sender is at                           *)
  tries,      (* the sleeps of the queueWait under way                     *)
  bExit,      (* set by Stop                                               *)
  bExited,    (* set by a sender as its last act                           *)
  rpc,        (* where the receiver is                                     *)
  rs,         (* the sender it polls                                       *)
  rdone,      (* done: how many senders it found finished in this pass     *)
  retry,      (* retryOnDone                                               *)
  delivered,  (* the records it processed, per sender                      *)
  lost,       (* history: records dropped or without memory, per sender    *)
  resets      (* history: calls of clearStats                              *)

sendVars == <<pc, next, tries, bExit, bExited>>
recvVars == <<rpc, rs, rdone, retry, delivered>>
vars == <<test, buf, sendVars, recvVars, lost, resets>>

MaxSenders == Max({t.senders : t \in Tests})
Senders == 1 .. test.senders
Updates == test.updates
Batched == test.batched
AllocFails == test.allocFails
-----------------------------------------------------------------------------
(* DataBatchingBuffer. *)

NewBuffer ==
  [curr |-> <<>>, mem |-> TRUE, queue |-> <<>>, qsize |-> 0,
   in |-> 0, out |-> 0, inRec |-> 0, outRec |-> 0]

DWord(n) == n % Word

(* getQRec *)
QRec(b) == DWord(b.inRec - b.outRec)

(* empty() *)
IsEmpty(b) == b.in = b.out /\ b.qsize = 0

(* Mutant: the record counter is forgotten. *)
EnqueueUncounted(b, block) ==
  [b EXCEPT !.in = DWord(@ + 1), !.qsize = DWord(@ + 1),
            !.queue = Append(@, block)]

(* What add2Queue and addTal4NoBatch do under the lock with a good block. *)
Enqueue(b, block) ==
  [b EXCEPT !.in = DWord(@ + 1), !.inRec = DWord(@ + Len(block)),
            !.qsize = DWord(@ + 1), !.queue = Append(@, block)]

(* Mutant: add2Queue compares the number of blocks, not of records. *)
OverLimitBlocks(b) == b.qsize > MaxAllowed

OverLimit(b) == QRec(b) > MaxAllowed

(* Mutant: the block stays with the sender after it was queued. *)
Add2QueueKeeps(b) ==
  IF OverLimit(b) THEN [b EXCEPT !.curr = <<>>] ELSE Enqueue(b, b.curr)

(* add2Queue: with too many records queued the block is dropped, else it   *)
(* is handed to the queue and the buffer has no block any more.  Callers   *)
(* flush only blocks with a record in it, so its size check always passes. *)
Add2Queue(b) ==
  IF OverLimit(b)
    THEN [b EXCEPT !.curr = <<>>]
    ELSE [Enqueue(b, b.curr) EXCEPT !.curr = <<>>, !.mem = FALSE]

Dropped(b) == IF OverLimit(b) THEN ToSet(b.curr) ELSE {}

(* processDataAll under the lock, with a queue that is not empty *)
Grab(b) ==
  [b EXCEPT !.out = DWord(@ + Len(b.queue)),
            !.outRec = DWord(@ + Len(FlattenSeq(b.queue))),
            !.qsize = 0, !.queue = <<>>]

(* clear(): the queue is emptied; the record counters stay. *)
Clear(b) == [b EXCEPT !.queue = <<>>, !.out = b.in, !.qsize = 0]

(* clearStats(): the totals are reset only when the queue is empty. *)
ClearTotals(b) ==
  IF IsEmpty(b)
    THEN [b EXCEPT !.qsize = 0, !.in = 0, !.out = 0, !.inRec = 0, !.outRec = 0]
    ELSE b
-----------------------------------------------------------------------------
Init ==
  /\ test \in Tests
  /\ buf \in [Senders -> {[NewBuffer EXCEPT !.mem = m] :
                             m \in IF AllocFails THEN BOOLEAN ELSE {TRUE}}]
  /\ pc = [s \in Senders |-> "add"]
  /\ next = [s \in Senders |-> 1]
  /\ tries = [s \in Senders |-> 0]
  /\ bExit = [s \in Senders |-> FALSE]
  /\ bExited = [s \in Senders |-> FALSE]
  /\ rpc = "peek" /\ rs = 1 /\ rdone = 0
  /\ retry = [s \in Senders |-> 0]
  /\ delivered = [s \in Senders |-> <<>>]
  /\ lost = [s \in Senders |-> {}]
  /\ resets = 0

Goto(s, l) == pc' = [pc EXCEPT ![s] = l]

(* The outcomes of allocMemChunk. *)
Alloc == IF AllocFails THEN BOOLEAN ELSE {TRUE}
-----------------------------------------------------------------------------
(* DoUpdates: the batching sender. *)

(* addDataSqf, with due: the update interval has passed.  The flush takes  *)
(* the lock, the rest touches only the sender's own block; without memory  *)
(* for a new block the record is gone.                                     *)
AddDataSqf(s) ==
  /\ Batched /\ pc[s] = "add"
  /\ \E due \in BOOLEAN, ok \in Alloc :
       LET flush == Len(buf[s].curr) = Block \/ (due /\ buf[s].curr # <<>>)
           b == IF flush THEN Add2Queue(buf[s]) ELSE buf[s]
           kept == b.mem \/ ok
       IN /\ buf' = [buf EXCEPT ![s] =
                       IF kept
                         THEN [b EXCEPT !.mem = TRUE, !.curr = Append(@, next[s])]
                         ELSE b]
          /\ lost' = [lost EXCEPT ![s] = @
                        \cup (IF flush THEN Dropped(buf[s]) ELSE {})
                        \cup (IF kept THEN {} ELSE {next[s]})]
  /\ next' = [next EXCEPT ![s] = @ + 1]
  /\ Goto(s, "check")
  /\ UNCHANGED <<test, tries, bExit, bExited, recvVars, resets>>

(* Mutant: bExited is set before the last flush. *)
CheckExitEarly(s) ==
  /\ pc[s] = "check"
  /\ bExited' = [bExited EXCEPT ![s] = bExit[s] \/ next[s] > Updates]
  /\ Goto(s, IF ~bExit[s] /\ next[s] <= Updates THEN "add"
             ELSE IF Batched THEN "heartbeat" ELSE "exit")
  /\ UNCHANGED <<test, buf, next, tries, bExit, recvVars, lost, resets>>

(* The loop of either sender looks at bExit after each update. *)
CheckExit(s) ==
  /\ pc[s] = "check"
  /\ Goto(s, IF ~bExit[s] /\ next[s] <= Updates THEN "add"
             ELSE IF Batched THEN "heartbeat" ELSE "exit")
  /\ UNCHANGED <<test, buf, next, tries, bExit, bExited, recvVars, lost, resets>>

(* heartbeat(): flush the last block if its time is up *)
Heartbeat(s) ==
  /\ pc[s] = "heartbeat"
  /\ \E due \in LastDue :
       IF buf[s].curr # <<>> /\ due
         THEN /\ buf' = [buf EXCEPT ![s] = Add2Queue(@)]
              /\ lost' = [lost EXCEPT ![s] = @ \cup Dropped(buf[s])]
         ELSE UNCHANGED <<buf, lost>>
  /\ Goto(s, "exit")
  /\ UNCHANGED <<test, next, tries, bExit, bExited, recvVars, resets>>

Exit(s) ==
  /\ pc[s] = "exit"
  /\ bExited' = [bExited EXCEPT ![s] = TRUE]
  /\ Goto(s, "done")
  /\ UNCHANGED <<test, buf, next, tries, bExit, recvVars, lost, resets>>

-----------------------------------------------------------------------------
(* DoUpdatesTal4: addTal4NoBatch queues each update as a block of its own. *)

(* The backlog is looked at without the lock. *)
Tal4Check(s) ==
  /\ ~Batched /\ pc[s] = "add"
  /\ Goto(s, IF OverLimit(buf[s]) THEN "wait" ELSE "push")
  /\ UNCHANGED <<test, buf, next, tries, bExit, bExited, recvVars, lost, resets>>

(* queueWait: one Sleep(1) and the look at the backlog after it *)
Tal4Wait(s) ==
  /\ pc[s] = "wait" /\ tries[s] < WaitLimit
  /\ IF QRec(buf[s]) < MaxAllowed
       THEN /\ tries' = [tries EXCEPT ![s] = 0]
            /\ Goto(s, "push")
       ELSE /\ tries' = [tries EXCEPT ![s] = @ + 1]
            /\ UNCHANGED pc
  /\ UNCHANGED <<test, buf, next, bExit, bExited, recvVars, lost, resets>>

(* queueWait gave up: the update is dropped. *)
Tal4Drop(s) ==
  /\ pc[s] = "wait" /\ tries[s] = WaitLimit
  /\ lost' = [lost EXCEPT ![s] = @ \cup {next[s]}]
  /\ tries' = [tries EXCEPT ![s] = 0]
  /\ next' = [next EXCEPT ![s] = @ + 1]
  /\ Goto(s, "check")
  /\ UNCHANGED <<test, buf, bExit, bExited, recvVars, resets>>

(* Copy the update, without memory for it return, and queue the copy. *)
Tal4Push(s) ==
  /\ pc[s] = "push"
  /\ \E ok \in Alloc :
       IF ok THEN /\ buf' = [buf EXCEPT ![s] = Enqueue(@, <<next[s]>>)]
                  /\ UNCHANGED lost
             ELSE /\ lost' = [lost EXCEPT ![s] = @ \cup {next[s]}]
                  /\ UNCHANGED buf
  /\ next' = [next EXCEPT ![s] = @ + 1]
  /\ Goto(s, "check")
  /\ UNCHANGED <<test, tries, bExit, bExited, recvVars, resets>>
-----------------------------------------------------------------------------
(* Stop(), by the thread that owns the sender: it sets bExit and joins. *)
Stop(s) ==
  /\ ~bExit[s] /\ pc[s] # "done"
  /\ bExit' = [bExit EXCEPT ![s] = TRUE]
  /\ UNCHANGED <<test, buf, pc, next, tries, bExited, recvVars, lost, resets>>

(* clearStats(), by DataQManager::clearStats *)
ClearStats(s) ==
  /\ resets < MaxResets
  /\ buf' = [buf EXCEPT ![s] = ClearTotals(@)]
  /\ resets' = resets + 1
  /\ UNCHANGED <<test, sendVars, recvVars, lost>>
-----------------------------------------------------------------------------
(* DoReceive: the receiver's pass over the senders. *)

(* Mutant: done starts again with every sender. *)
PassOnForgets(done) ==
  IF rs < Cardinality(Senders)
    THEN rs' = rs + 1 /\ rdone' = 0 /\ rpc' = "peek"
    ELSE /\ rs' = 1 /\ rdone' = 0
         /\ rpc' = IF done = Cardinality(Senders) THEN "exited" ELSE "peek"

(* continue with the next sender; after the last one the pass ends, and    *)
(* with it the receiver if all senders were found finished                 *)
PassOn(done) ==
  IF rs < Cardinality(Senders)
    THEN rs' = rs + 1 /\ rdone' = done /\ rpc' = "peek"
    ELSE /\ rs' = 1 /\ rdone' = 0
         /\ rpc' = IF done = Cardinality(Senders) THEN "exited" ELSE "peek"

(* processDataAll before the lock *)
Peek ==
  /\ rpc = "peek"
  /\ rpc' = IF buf[rs].in = buf[rs].out \/ buf[rs].qsize = 0
              THEN "finished?" ELSE "grab"
  /\ UNCHANGED <<test, buf, sendVars, rs, rdone, retry, delivered, lost, resets>>

(* processDataAll under the lock, then the loop that empties dList *)
ProcessDataAll ==
  /\ rpc = "grab"
  /\ IF buf[rs].qsize = 0
       THEN /\ rpc' = "finished?"
            /\ UNCHANGED <<buf, rs, rdone, delivered>>
       ELSE /\ delivered' = [delivered EXCEPT ![rs] = @ \o FlattenSeq(buf[rs].queue)]
            /\ buf' = [buf EXCEPT ![rs] = Grab(@)]
            /\ PassOn(rdone)
  /\ UNCHANGED <<test, sendVars, retry, lost, resets>>

(* Nothing came: is the sender done, and is its buffer empty?  A sender    *)
(* that is done changes nothing any more, so the two questions and clear() *)
(* need no steps of their own.                                             *)
CheckFinished ==
  /\ rpc = "finished?"
  /\ LET again == retry[rs] + (IF bExited[rs] /\ ~IsEmpty(buf[rs]) THEN 1 ELSE 0)
         clear == again >= RetryLimit /\ ~IsEmpty(buf[rs])
     IN /\ retry' = [retry EXCEPT ![rs] = again]
        /\ IF clear
             THEN /\ buf' = [buf EXCEPT ![rs] = Clear(@)]
                  /\ lost' = [lost EXCEPT ![rs] = @ \cup ToSet(FlattenSeq(buf[rs].queue))]
             ELSE UNCHANGED <<buf, lost>>
        /\ PassOn(rdone + (IF bExited[rs] /\ IsEmpty(buf[rs]) THEN 1 ELSE 0))
  /\ UNCHANGED <<test, sendVars, delivered, resets>>

(* clear(), called from outside the receiver's loop *)
ClearQueue(s) ==
  /\ resets < MaxResets
  /\ buf' = [buf EXCEPT ![s] = Clear(@)]
  /\ lost' = [lost EXCEPT ![s] = @ \cup ToSet(FlattenSeq(buf[s].queue))]
  /\ resets' = resets + 1
  /\ UNCHANGED <<test, sendVars, recvVars>>

Sender(s) ==
  \/ AddDataSqf(s) \/ CheckExit(s) \/ Heartbeat(s) \/ Exit(s)
  \/ Tal4Check(s) \/ Tal4Wait(s) \/ Tal4Drop(s) \/ Tal4Push(s)

Receiver == Peek \/ ProcessDataAll \/ CheckFinished

Terminated == rpc = "exited" /\ (\A s \in Senders : pc[s] = "done") /\ UNCHANGED vars

Next ==
  \/ \E s \in Senders : Sender(s) \/ Stop(s) \/ ClearStats(s)
  \/ Receiver
  \/ Terminated

(* Every thread keeps running.  Nobody has to call Stop or clearStats.     *)
Spec ==
  /\ Init /\ [][Next]_vars
  /\ \A s \in 1 .. MaxSenders : WF_vars(s \in Senders /\ Sender(s))
  /\ WF_vars(Receiver)

(* The same program, in which the owner of a buffer also calls clear().    *)
SpecWithClear == Init /\ [][Next \/ \E s \in Senders : ClearQueue(s)]_vars
-----------------------------------------------------------------------------
Records == 1 .. Updates

(* The shape of the state; every DWORD stays a DWORD                       *)
(* (dualBuffer.hpp:53-75, :750-755, :798-804).                             *)
TypeOK ==
  /\ test \in Tests
  /\ \A s \in Senders :
       /\ buf[s].mem \in BOOLEAN /\ buf[s].curr \in Seq(Records)
       /\ buf[s].queue \in Seq(Seq(Records))
       /\ {buf[s].qsize, buf[s].in, buf[s].out, buf[s].inRec, buf[s].outRec}
            \subseteq 0 .. Word - 1
       /\ delivered[s] \in Seq(Records)
  /\ pc \in [Senders -> {"add", "wait", "push", "check", "heartbeat", "exit", "done"}]
  /\ next \in [Senders -> 1 .. Updates + 1] /\ tries \in [Senders -> 0 .. WaitLimit]
  /\ bExit \in [Senders -> BOOLEAN] /\ bExited \in [Senders -> BOOLEAN]
  /\ rpc \in {"peek", "grab", "finished?", "exited"} /\ rs \in Senders
  /\ rdone \in 0 .. Cardinality(Senders) /\ retry \in [Senders -> Nat]
  /\ lost \in [Senders -> SUBSET Records] /\ resets \in 0 .. MaxResets

(* What tbAssert checks in processDataAll (dualBuffer.hpp:410-415) and     *)
(* what getQRec is meant to say (:519-522): between two critical sections  *)
(* the counters, taken modulo 2^32, are the size of the queue.             *)
CountersMatchQueue ==
  TypeOK /\ \A s \in Senders :
    /\ buf[s].qsize = Len(buf[s].queue)
    /\ buf[s].qsize = DWord(buf[s].in - buf[s].out)
    /\ QRec(buf[s]) = Len(FlattenSeq(buf[s].queue))

(* getQRec "queued rec" (dualBuffer.hpp:521), also after clear(). *)
QRecIsQueued == \A s \in Senders : QRec(buf[s]) = Len(FlattenSeq(buf[s].queue))

(* dwMaxAllowedQSize bounds the queue up to one block, in records, however *)
(* the unlocked looks at the counters interleave with the receiver.        *)
BacklogBounded ==
  \A s \in Senders :
    Len(FlattenSeq(buf[s].queue)) <= MaxAllowed + (IF Batched THEN Block ELSE 1)

(* The receiver gets each sender's records in the order they were added,   *)
(* none twice, and never one that was counted as dropped.                  *)
InOrder ==
  \A s \in Senders :
    /\ \A i, j \in 1 .. Len(delivered[s]) : i < j => delivered[s][i] < delivered[s][j]
    /\ ToSet(delivered[s]) \cap lost[s] = {}

(* The receiver never needs clear(): a sender that is done is found with a *)
(* full queue at most once, in the window between processDataAll's look at *)
(* the counters and done().                                                *)
ClearNeverNeeded == \A s \in Senders : retry[s] <= 1

(* When DoReceive returns, every record a sender added was delivered,      *)
(* dropped at the limit, or lost for want of memory: none is left behind   *)
(* in a block or in a queue, and none had to be cleared away.              *)
NothingLeftBehind ==
  /\ ClearNeverNeeded
  /\ rpc = "exited" =>
       \A s \in Senders : ToSet(delivered[s]) \cup lost[s] = 1 .. next[s] - 1

(* DoReceive returns. *)
ReceiverReturns == <>(rpc = "exited")
=============================================================================
