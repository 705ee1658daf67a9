--------------------------- MODULE RingBufferWait ---------------------------
(***************************************************************************)
(* push_wait and pop_wait of circular_queue (RingBufferAtomic.h), run as   *)
(* the test "atomic queue test events" runs them                           *)
(* (src/cpp11/TestslistRingBuffer.cpp): the writer pushes 0 .. Total-1,    *)
(* the reader pops Total values and compares each with its position.       *)
(*                                                                         *)
(* The loads and stores are those of module RingBuffer.  What is new is    *)
(* the condition variable event_signal with its mutex event_lock: a thread *)
(* that finds the ring full (empty) takes the mutex, evaluates the         *)
(* predicate, and sleeps; the thread that stores an index notifies without *)
(* taking the mutex.                                                       *)
(***************************************************************************)
EXTENDS RingBuffer

CONSTANT Total     (* how many values the test sends *)

ASSUME TotalAssumption == Total \in Nat \ {0} /\ Values = 0 .. Total - 1

VARIABLES
  lock,      (* the holder of event_lock, or "free"                       *)
  stage,     (* how far each thread is in its use of event_signal         *)
  begun,     (* pushes begun: the test's i on the writer's side           *)
  received   (* pops completed: i on the reader's side                    *)

waitVars == <<lock, stage, begun, received>>
allVars == <<ringVars, waitVars>>

Threads == {"writer", "reader"}
Other(t) == IF t = "writer" THEN "reader" ELSE "writer"

(* The predicate a thread passes to event_signal.wait. *)
MayGoOn(t) == IF t = "writer" THEN ~Full(NextPos(wpos)) ELSE write # rpos

WaitInit ==
  /\ RingInit
  /\ lock = "free"
  /\ stage = [t \in Threads |-> "none"]
  /\ begun = 0 /\ received = 0

SetStage(t, s) == stage' = [stage EXCEPT ![t] = s]
-----------------------------------------------------------------------------
(* event_signal, for either thread t. *)

(* The check outside the lock failed: full(next_write), or empty(read_pos) *)
Blocked(t) ==
  /\ stage[t] = "none"
  /\ IF t = "writer" THEN ppc = "check" ELSE cpc = "check"
  /\ ~MayGoOn(t)
  /\ SetStage(t, "lock")
  /\ UNCHANGED <<ringVars, lock, begun, received>>

(* unique_lock lock(event_lock), and the relock when wait wakes up *)
TakeLock(t) ==
  /\ stage[t] = "lock"
  /\ lock = "free"
  /\ lock' = t
  /\ SetStage(t, "test")
  /\ UNCHANGED <<ringVars, begun, received>>

(* The predicate is false under the lock. *)
TestFails(t) ==
  /\ stage[t] = "test"
  /\ ~MayGoOn(t)
  /\ SetStage(t, "sleep")
  /\ UNCHANGED <<ringVars, lock, begun, received>>

(* Mutant: wait is called without a predicate, so any wakeup goes on. *)
TestIgnored(t) ==
  /\ stage[t] = "test"
  /\ IF t = "writer"
       THEN ppc' = "fill" /\ UNCHANGED cpc
       ELSE cpc' = "release" /\ UNCHANGED ppc
  /\ lock' = "free"
  /\ SetStage(t, "none")
  /\ UNCHANGED <<read, write, queue, wpos, item, pushed, rpos, popped, sizer,
                 most, least, begun, received>>

(* The predicate is true: wait returns and the lock goes out of scope. *)
TestHolds(t) ==
  /\ stage[t] = "test"
  /\ IF t = "writer" THEN PushRoom ELSE PopFound
  /\ lock' = "free"
  /\ SetStage(t, "none")
  /\ UNCHANGED <<begun, received>>

(* wait gives the lock back and sleeps in one step. *)
Sleep(t) ==
  /\ stage[t] = "sleep"
  /\ lock' = "free"
  /\ SetStage(t, "asleep")
  /\ UNCHANGED <<ringVars, begun, received>>

(* notify_one: only the other thread can be asleep *)
Notify(t) ==
  /\ stage[t] = "notify"
  /\ stage' = [stage EXCEPT ![t] = "none",
                 ![Other(t)] = IF @ = "asleep" THEN "lock" ELSE @]
  /\ UNCHANGED <<ringVars, lock, begun, received>>

(* A condition variable may wake up for no reason. *)
WakeSpuriously(t) ==
  /\ stage[t] = "asleep"
  /\ SetStage(t, "lock")
  /\ UNCHANGED <<ringVars, lock, begun, received>>
-----------------------------------------------------------------------------
(* push_wait(move(i)) *)
PushWaitLoad ==
  /\ stage["writer"] = "none"
  /\ begun < Total
  /\ PushLoad(begun)
  /\ begun' = begun + 1
  /\ UNCHANGED <<lock, stage, received>>

PushWaitRoom ==
  /\ stage["writer"] = "none"
  /\ PushRoom
  /\ UNCHANGED waitVars

PushWaitFill == PushFill /\ UNCHANGED waitVars

PushWaitPublish ==
  /\ PushPublish
  /\ SetStage("writer", "notify")
  /\ UNCHANGED <<lock, begun, received>>

(* pop_wait() *)
PopWaitLoad ==
  /\ stage["reader"] = "none"
  /\ received < Total
  /\ PopLoad
  /\ UNCHANGED waitVars

PopWaitFound ==
  /\ stage["reader"] = "none"
  /\ PopFound
  /\ UNCHANGED waitVars

PopWaitRelease ==
  /\ PopRelease
  /\ SetStage("reader", "notify")
  /\ UNCHANGED <<lock, begun, received>>

(* The value is moved out after the notification. *)
PopWaitMove ==
  /\ stage["reader"] = "none"
  /\ PopMove
  /\ received' = received + 1
  /\ UNCHANGED <<lock, stage, begun>>

Signal(t) ==
  \/ Blocked(t) \/ TakeLock(t) \/ TestFails(t) \/ TestHolds(t)
  \/ Sleep(t) \/ Notify(t)

WaitWriter ==
  \/ Signal("writer")
  \/ PushWaitLoad \/ PushWaitRoom \/ PushWaitFill \/ PushWaitPublish

WaitReader ==
  \/ Signal("reader")
  \/ PopWaitLoad \/ PopWaitFound \/ PopWaitRelease \/ PopWaitMove

WaitNext ==
  \/ WaitWriter
  \/ WaitReader
  \/ \E t \in Threads : WakeSpuriously(t)

(* Both threads keep running; nobody promises a spurious wakeup. *)
WaitFairness ==
  /\ WF_allVars(WaitWriter)
  /\ WF_allVars(WaitReader)
  /\ \A t \in Threads : SF_allVars(TakeLock(t))

WaitSafety == WaitInit /\ [][WaitNext]_allVars
WaitSpec == WaitSafety /\ WaitFairness
-----------------------------------------------------------------------------
(* The shape of the state (RingBufferAtomic.h:80-85).                      *)
WaitTypeOK ==
  /\ TypeOK
  /\ lock \in Threads \cup {"free"}
  /\ stage \in [Threads -> {"none", "lock", "test", "sleep", "asleep", "notify"}]
  /\ begun \in 0 .. Total /\ received \in 0 .. Total

(* The blocking operations only ever do what the non-blocking ring may do, *)
(* so everything shown of module RingBuffer holds of them (push_wait and   *)
(* pop_wait share the indices with push and pop).                          *)
ImplementsRing == RingSpec

(* The comparison of lock_free_Q_consumer: the k-th value popped is k.     *)
NothingOutOfOrder ==
  received > 0 /\ cpc # "move" => popped = received - 1

(* The test can fail to end in one way only: a thread sleeps for ever for  *)
(* a condition that holds.  event_lock is never the reason, and two        *)
(* threads never wait for each other with the ring really full and empty   *)
(* (wait and notify_one in push_wait and pop_wait).                        *)
OnlyMissedWakeupsHang ==
  <>(received = Total) \/ <>[](\E t \in Threads : stage[t] = "asleep" /\ MayGoOn(t))

(* "atomic queue test events": the consumer gets all values and the test   *)
(* ends (TestslistRingBuffer.cpp:157-169, RingBufferAtomic.h:41 and :61).  *)
AllReceived == <>(received = Total)
=============================================================================
