----------------------------- MODULE MCProtocols -----------------------------
(***************************************************************************)
(* Protocols that share nothing: the ring buffer, the thread pool, the     *)
(* chains of TaskWaiting, the futures of SimpleAsync, the lock-free list   *)
(* and the counted pointers.  A behaviour is a behaviour of one of them, chosen by *)
(* "subject", while the others stay where they start.  The ring has the    *)
(* two tests of TestslistRingBuffer.cpp: "polling" calls push and pop, and *)
(* here size() too; "events" calls push_wait and pop_wait, and may stop:   *)
(* it ends, or hangs.                                                      *)
(***************************************************************************)
EXTENDS RingBufferWait, ThreadPool, TaskChain, SimpleAsync, LockFreeList, SharedPtr

VARIABLE subject

Subjects == {"polling", "events", "pool", "chain", "async", "list", "pointers"}

mcVars == <<allVars, poolVars, chainVars, asyncVars, listRefVars, sharedVars, subject>>

(* The polling test has two values to tell apart. *)
Polled == {0, 1, NoValue}

(* The two chains of three tasks that main builds. *)
SixTasks == (1 .. 2) \X (1 .. 3)

(* Two pointers in each of two threads. *)
FourPointers == {"a1", "a2", "b1", "b2"}
TwoHolders == {"a", "b"}
ByName == [p \in FourPointers |-> IF p \in {"a1", "a2"} THEN "a" ELSE "b"]

MCInit ==
  /\ subject \in Subjects
  /\ WaitInit /\ PoolInit /\ ChainInit /\ AsyncInit /\ RefInit /\ SharedInit
  /\ subject # "list" => way = "all"
  /\ subject # "pointers" => naked = [p \in Pointers |-> First]

RingMoves ==
  /\ \/ subject = "polling" /\ RingNext /\ item' \in Polled /\ UNCHANGED waitVars
     \/ subject = "events" /\ (WaitNext \/ UNCHANGED allVars)
  /\ UNCHANGED <<poolVars, chainVars, asyncVars, listRefVars, sharedVars>>

TasksMove ==
  /\ \/ subject = "pool" /\ PoolNext /\ UNCHANGED <<chainVars, asyncVars>>
     \/ subject = "chain" /\ ChainNextState /\ UNCHANGED <<poolVars, asyncVars>>
     \/ subject = "async" /\ AsyncNext /\ UNCHANGED <<poolVars, chainVars>>
  /\ UNCHANGED <<allVars, listRefVars, sharedVars>>

NodesMove ==
  /\ \/ subject = "list" /\ (RefNext \/ RefDone) /\ UNCHANGED sharedVars
     \/ subject = "pointers" /\ (SharedNext \/ SharedDone) /\ UNCHANGED listRefVars
  /\ UNCHANGED <<allVars, poolVars, chainVars, asyncVars>>

MCNext == (RingMoves \/ TasksMove \/ NodesMove) /\ UNCHANGED subject

(* Each protocol under its own fairness: WaitFairness, that of PoolSpec,   *)
(* ChainFairness, AsyncFairness and RefFairness, of the behaviours they    *)
(* are about.                                                              *)
MCFairness ==
  /\ WF_allVars(subject = "events" /\ WaitWriter)
  /\ WF_allVars(subject = "events" /\ WaitReader)
  /\ \A t \in Threads : SF_allVars(subject = "events" /\ TakeLock(t))
  /\ \A w \in PoolWorkers : WF_poolVars(subject = "pool" /\ Worker(w))
  /\ \A c \in Clients : WF_poolVars(subject = "pool" /\ Client(c))
  /\ WF_poolVars(subject = "pool" /\ Owner)
  /\ WF_chainVars(subject = "chain" /\ Main)
  /\ WF_chainVars(subject = "chain" /\ RunStart)
  /\ \A t \in Tasks : WF_chainVars(subject = "chain" /\ Run(t))
  /\ \A u \in Users : WF_asyncVars(subject = "async" /\ User(u))
  /\ \A t \in AllTasks : WF_asyncVars(subject = "async" /\ TaskEnds(t))
  /\ WF_asyncVars(subject = "async" /\ Collector)
  /\ WF_asyncVars(subject = "async" /\ Destructor)
  /\ WF_listRefVars(subject = "list" /\ Consumer3)

MCSpec == MCInit /\ [][MCNext]_mcVars /\ MCFairness

(* The variables of every protocol keep their types (RingBufferAtomic.h:80,*)
(* thread_pool.h:41, TaskWaiting.cpp:112, simple_async.h:53, slist.h:62,   *)
(* SharedPtr.cpp:7).                                                       *)
MCTypesOK ==
  TypeOK /\ WaitTypeOK /\ PoolTypeOK /\ ChainTypeOK /\ AsyncTypeOK
  /\ RefTypeOK /\ SharedTypeOK

(* What must end does, each protocol under its own fairness: push_wait and *)
(* pop_wait hang for a missed wakeup only (RingBufferAtomic.h:41 and :61); *)
(* the destructor of the pool returns (thread_pool.h:73-81); every task of *)
(* the chains runs (TaskWaiting.cpp:115-130); the destructor of SimpleAsync*)
(* returns (simple_async.h:45-51); consumer3 comes to its end              *)
(* (listvslist-gc.cpp:154).                                                *)
MCEverythingReturns ==
  /\ subject = "events" => OnlyMissedWakeupsHang
  /\ subject = "pool" => DestructorReturns
  /\ subject = "chain" => AllTasksRun
  /\ subject = "async" => AsyncDestructorReturns
  /\ subject = "list" => ConsumerReturns
=============================================================================
