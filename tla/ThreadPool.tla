----------------------------- MODULE ThreadPool -----------------------------
(***************************************************************************)
(* thread_pool and task_queue of src/cpp11/threading_model/thread_pool.h   *)
(* (the thread_pool of src/cppcon/TaskWaiting.cpp is the same program):    *)
(* worker threads that take tasks from one locked deque, clients that      *)
(* submit, and the owner that destroys the pool when the clients are done. *)
(*                                                                         *)
(* A critical section of the mutex m is one step; the notifications come   *)
(* after it, as steps of their own.  A worker that finds the deque empty   *)
(* releases m and sleeps on cv in that same step.  The plain bool          *)
(* stop_token is read outside m: a late read of false is the same as a     *)
(* read before the store, so the interleavings below cover it.             *)
(***************************************************************************)
EXTENDS Integers, Sequences, FiniteSets

CONSTANTS
  PoolWorkers, (* the threads of the pool                                  *)
  Clients,     (* the threads that submit                                  *)
  PerClient,   (* bound: how many tasks each client submits                *)
  StopTask     (* the empty task the destructor submits                    *)

PoolTasks == Clients \X (1 .. PerClient)

ASSUME PoolAssumption ==
  /\ IsFiniteSet(PoolWorkers) /\ PoolWorkers # {} /\ IsFiniteSet(Clients)
  /\ PerClient \in Nat \ {0}
  /\ StopTask \notin PoolTasks

VARIABLES
  tasks,       (* the deque                                                *)
  stopping,    (* stop_token                                               *)
  wpc,         (* where each worker is                                     *)
  task,        (* the task each worker took last                           *)
  spc,         (* where each client is                                     *)
  given,       (* how many tasks each client has submitted                 *)
  dpc,         (* where the owner is                                       *)
  ran          (* history: the tasks that ran to their end                 *)

poolVars == <<tasks, stopping, wpc, task, spc, given, dpc, ran>>

PoolInit ==
  /\ tasks = <<>> /\ stopping = FALSE
  /\ wpc = [w \in PoolWorkers |-> "loop"]
  /\ task = [w \in PoolWorkers |-> StopTask]
  /\ spc = [c \in Clients |-> "submit"]
  /\ given = [c \in Clients |-> 0]
  /\ dpc = "alive"
  /\ ran = {}
-----------------------------------------------------------------------------
(* cv *)

Asleep == {w \in PoolWorkers : wpc[w] = "asleep"}

(* notify_one: one sleeping worker, any of them, goes for the lock again *)
NotifyOne ==
  IF Asleep = {} THEN UNCHANGED wpc
  ELSE \E w \in Asleep : wpc' = [wpc EXCEPT ![w] = "get"]

NotifyAll ==
  wpc' = [w \in PoolWorkers |-> IF w \in Asleep THEN "get" ELSE wpc[w]]

(* A condition variable may wake up for no reason. *)
WakeForNothing(w) ==
  /\ wpc[w] = "asleep"
  /\ wpc' = [wpc EXCEPT ![w] = "get"]
  /\ UNCHANGED <<tasks, stopping, task, spc, given, dpc, ran>>
-----------------------------------------------------------------------------
(* The worker loop. *)

(* while (!stop_token) *)
TestStop(w) ==
  /\ wpc[w] = "loop"
  /\ wpc' = [wpc EXCEPT ![w] = IF stopping THEN "exited" ELSE "get"]
  /\ UNCHANGED <<tasks, stopping, task, spc, given, dpc, ran>>

(* Mutant: the front of the deque is read and not removed. *)
GetTaskKeeps(w) ==
  /\ wpc[w] = "get"
  /\ tasks # <<>>
  /\ task' = [task EXCEPT ![w] = Head(tasks)]
  /\ tasks' = IF Len(tasks) > 1 THEN Tail(tasks) ELSE tasks
  /\ wpc' = [wpc EXCEPT ![w] = "run"]
  /\ UNCHANGED <<stopping, spc, given, dpc, ran>>

(* get_task, with a task in the deque *)
GetTask(w) ==
  /\ wpc[w] = "get"
  /\ tasks # <<>>
  /\ task' = [task EXCEPT ![w] = Head(tasks)]
  /\ tasks' = Tail(tasks)
  /\ wpc' = [wpc EXCEPT ![w] = "run"]
  /\ UNCHANGED <<stopping, spc, given, dpc, ran>>

(* get_task: cv.wait, nothing to do *)
Wait(w) ==
  /\ wpc[w] = "get"
  /\ tasks = <<>>
  /\ wpc' = [wpc EXCEPT ![w] = "asleep"]
  /\ UNCHANGED <<tasks, stopping, task, spc, given, dpc, ran>>

(* task() returns *)
RunTask(w) ==
  /\ wpc[w] = "run"
  /\ ran' = IF task[w] = StopTask THEN ran ELSE ran \cup {task[w]}
  /\ wpc' = [wpc EXCEPT ![w] = "loop"]
  /\ UNCHANGED <<tasks, stopping, task, spc, given, dpc>>
-----------------------------------------------------------------------------
(* submit *)

SubmitPush(c) ==
  /\ spc[c] = "submit" /\ given[c] < PerClient
  /\ tasks' = Append(tasks, <<c, given[c] + 1>>)
  /\ given' = [given EXCEPT ![c] = @ + 1]
  /\ spc' = [spc EXCEPT ![c] = "notify"]
  /\ UNCHANGED <<stopping, wpc, task, dpc, ran>>

(* Mutant: submit notifies only when the deque was empty before. *)
NotifyWorkerFirst(c) ==
  /\ spc[c] = "notify"
  /\ IF Len(tasks) <= 1 THEN NotifyOne ELSE UNCHANGED wpc
  /\ spc' = [spc EXCEPT ![c] = "submit"]
  /\ UNCHANGED <<tasks, stopping, task, given, dpc, ran>>

NotifyWorker(c) ==
  /\ spc[c] = "notify"
  /\ NotifyOne
  /\ spc' = [spc EXCEPT ![c] = "submit"]
  /\ UNCHANGED <<tasks, stopping, task, given, dpc, ran>>
-----------------------------------------------------------------------------
(* ~thread_pool; the owner calls it when no client is inside submit and    *)
(* none will submit again.                                                 *)

ClientsDone == \A c \in Clients : spc[c] = "submit" /\ given[c] = PerClient

(* stop_token = true *)
PoolStop ==
  /\ dpc = "alive" /\ ClientsDone
  /\ stopping' = TRUE
  /\ dpc' = "push"
  /\ UNCHANGED <<tasks, wpc, task, spc, given, ran>>

(* Mutant: one empty task, whatever the size of the pool. *)
PoolPushOne ==
  /\ dpc = "push"
  /\ tasks' = Append(tasks, StopTask)
  /\ dpc' = "notify"
  /\ UNCHANGED <<stopping, wpc, task, spc, given, ran>>

(* submit_empty_task: one for each worker *)
PoolPush ==
  /\ dpc = "push"
  /\ tasks' = tasks \o [i \in 1 .. Cardinality(PoolWorkers) |-> StopTask]
  /\ dpc' = "notify"
  /\ UNCHANGED <<stopping, wpc, task, spc, given, ran>>

PoolNotifyAll ==
  /\ dpc = "notify"
  /\ NotifyAll
  /\ dpc' = "join"
  /\ UNCHANGED <<tasks, stopping, task, spc, given, ran>>

(* All threads joined. *)
PoolJoin ==
  /\ dpc = "join"
  /\ \A w \in PoolWorkers : wpc[w] = "exited"
  /\ dpc' = "destroyed"
  /\ UNCHANGED <<tasks, stopping, wpc, task, spc, given, ran>>

Worker(w) == TestStop(w) \/ GetTask(w) \/ Wait(w) \/ RunTask(w)
Client(c) == SubmitPush(c) \/ NotifyWorker(c)
Owner == PoolStop \/ PoolPush \/ PoolNotifyAll \/ PoolJoin
PoolDestroyed == dpc = "destroyed" /\ UNCHANGED poolVars

PoolNext ==
  \/ \E w \in PoolWorkers : Worker(w) \/ WakeForNothing(w)
  \/ \E c \in Clients : Client(c)
  \/ Owner
  \/ PoolDestroyed

PoolSafety == PoolInit /\ [][PoolNext]_poolVars

(* Every thread keeps running, tasks return, and the owner destroys the    *)
(* pool once the clients are done.                                         *)
PoolSpec ==
  /\ PoolSafety
  /\ \A w \in PoolWorkers : WF_poolVars(Worker(w))
  /\ \A c \in Clients : WF_poolVars(Client(c))
  /\ WF_poolVars(Owner)
-----------------------------------------------------------------------------
(* The shape of the state (thread_pool.h:33-37, :82-86); the stop tasks     *)
(* never count as work that was done.                                      *)
PoolTypeOK ==
  /\ tasks \in Seq(PoolTasks \cup {StopTask})
  /\ stopping \in BOOLEAN
  /\ wpc \in [PoolWorkers -> {"loop", "get", "asleep", "run", "exited"}]
  /\ task \in [PoolWorkers -> PoolTasks \cup {StopTask}]
  /\ spc \in [Clients -> {"submit", "notify"}]
  /\ given \in [Clients -> 0 .. PerClient]
  /\ dpc \in {"alive", "push", "notify", "join", "destroyed"}
  /\ ran \subseteq PoolTasks

(* Workers on their way to the deque, and notifications on their way to a  *)
(* worker.                                                                 *)
Getting == {w \in PoolWorkers : wpc[w] = "get"}
Notifying == {c \in Clients : spc[c] = "notify"}

(* No lost wakeup: while a worker sleeps, every queued task has a worker   *)
(* coming for it or a notification under way (submit notifies after the    *)
(* lock is released, thread_pool.h:6-23).                                  *)
NoTaskForgotten ==
  Asleep # {} /\ dpc # "notify" =>
    Len(tasks) <= Cardinality(Getting) + Cardinality(Notifying)

(* A worker that has seen stop_token never takes a task again, so after    *)
(* the destructor began each worker takes at most one, and the deque never *)
(* runs out of empty tasks for the workers still inside get_task           *)
(* (thread_pool.h:48-49 and :73-81).                                       *)
EnoughStopTasks ==
  dpc \in {"notify", "join"} => Len(tasks) >= Cardinality(Getting \cup Asleep)

(* The deque without the empty tasks of the destructor, which come last.   *)
RealTasks ==
  CHOOSE n \in 0 .. Len(tasks) :
    (\A k \in 1 .. n : tasks[k] # StopTask) /\ (n = Len(tasks) \/ tasks[n + 1] = StopTask)
Unstarted == [k \in 1 .. RealTasks |-> tasks[k]]

(* The pool is a task service: FIFO, no task twice, none after the         *)
(* destructor has returned.                                                *)
Service ==
  INSTANCE TaskService
    WITH Tasks <- PoolTasks, Workers <- PoolWorkers, waiting <- Unstarted,
         running <- {task[w] : w \in {v \in PoolWorkers : wpc[v] = "run"}}
                      \ {StopTask},
         finished <- ran, open <- dpc # "destroyed"

ImplementsService == Service!ServiceSpec

(* The destructor returns: every worker wakes up, leaves its loop and is   *)
(* joined (thread_pool.h:73-81).                                           *)
DestructorReturns == <>(dpc = "destroyed")
=============================================================================
