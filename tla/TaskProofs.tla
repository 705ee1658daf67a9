------------------------------ MODULE TaskProofs -----------------------------
(***************************************************************************)
(* Proofs about tasks: the thread pool, for every number of workers,       *)
(* clients and tasks, the chains of TaskChain, for every number and length *)
(* of chains and every number of workers, and SimpleAsync, for every       *)
(* number of users and tasks.  With those of module AtomicsProofs they     *)
(* give what the composed protocols of MCProtocols keep.                   *)
(***************************************************************************)
EXTENDS MCProtocols, AtomicsProofs

Queued == PoolTasks \cup {StopTask}

(* A task that a client is about to submit is a task.                      *)
LEMMA NextTask ==
  ASSUME NEW c \in Clients, NEW n \in 0 .. PerClient, n < PerClient
  PROVE  <<c, n + 1>> \in PoolTasks /\ n + 1 \in 0 .. PerClient
<1>1. PerClient \in Nat
  BY PoolAssumption
<1>2. n + 1 \in 1 .. PerClient /\ n + 1 \in 0 .. PerClient
  BY <1>1
<1>3. QED
  BY <1>2 DEF PoolTasks

(* The destructor's stop tasks: a sequence with one for each worker.       *)
LEMMA StopTasks ==
  LET stops == [i \in 1 .. Cardinality(PoolWorkers) |-> StopTask]
  IN  stops \in Seq(Queued) /\ Len(stops) = Cardinality(PoolWorkers)
<1> DEFINE n == Cardinality(PoolWorkers)
           stops == [i \in 1 .. n |-> StopTask]
<1>1. n \in Nat
  BY PoolAssumption, FS_CardinalityType
<1>2. stops \in [1 .. n -> Queued]
  BY DEF Queued
<1> HIDE DEF n
<1>3. stops \in Seq(Queued) /\ Len(stops) = n
  BY <1>1, <1>2
<1>4. QED
  BY <1>3 DEF n
-----------------------------------------------------------------------------
(* The pool starts with the types of its variables.                        *)
LEMMA PoolInitType == PoolInit => PoolTypeOK
<1> SUFFICES ASSUME PoolInit PROVE PoolTypeOK
  OBVIOUS
<1>1. PerClient \in Nat
  BY PoolAssumption
<1>2. given \in [Clients -> 0 .. PerClient]
  BY <1>1 DEF PoolInit
<1>3. tasks \in Seq(PoolTasks \cup {StopTask})
  BY EmptySeq DEF PoolInit
<1>4. QED
  BY <1>2, <1>3 DEF PoolInit, PoolTypeOK

(* A notification wakes a sleeper, if there is one, and changes nothing    *)
(* else.                                                                   *)
LEMMA NotifyOneFacts ==
  ASSUME PoolTypeOK, NotifyOne
  PROVE  /\ wpc' \in [PoolWorkers -> {"loop", "get", "asleep", "run", "exited"}]
         /\ \/ Asleep = {} /\ wpc' = wpc
            \/ \E w \in Asleep : wpc' = [wpc EXCEPT ![w] = "get"]
BY DEF PoolTypeOK, NotifyOne, Asleep

(* Every step of a worker, a client and the owner keeps the types.         *)
LEMMA PoolStepType == PoolTypeOK /\ [PoolNext]_poolVars => PoolTypeOK'
<1> SUFFICES ASSUME PoolTypeOK, [PoolNext]_poolVars
             PROVE  PoolTypeOK'
  OBVIOUS
<1> USE DEF PoolTypeOK
<1>1. ASSUME NEW w \in PoolWorkers, TestStop(w) PROVE PoolTypeOK'
  BY <1>1 DEF TestStop
<1>2. ASSUME NEW w \in PoolWorkers, GetTask(w) PROVE PoolTypeOK'
  <2>1. Head(tasks) \in PoolTasks \cup {StopTask} /\ Tail(tasks) \in Seq(PoolTasks \cup {StopTask})
    BY <1>2, HeadTailProperties DEF GetTask
  <2>2. QED
    BY <1>2, <2>1 DEF GetTask
<1>3. ASSUME NEW w \in PoolWorkers, Wait(w) PROVE PoolTypeOK'
  BY <1>3 DEF Wait
<1>4. ASSUME NEW w \in PoolWorkers, RunTask(w) PROVE PoolTypeOK'
  BY <1>4 DEF RunTask
<1>5. ASSUME NEW w \in PoolWorkers, WakeForNothing(w) PROVE PoolTypeOK'
  BY <1>5 DEF WakeForNothing
<1>6. ASSUME NEW c \in Clients, SubmitPush(c) PROVE PoolTypeOK'
  <2>1. <<c, given[c] + 1>> \in PoolTasks /\ given[c] + 1 \in 0 .. PerClient
    BY <1>6, NextTask DEF SubmitPush
  <2>2. QED
    BY <1>6, <2>1 DEF SubmitPush
<1>7. ASSUME NEW c \in Clients, NotifyWorker(c) PROVE PoolTypeOK'
  BY <1>7, NotifyOneFacts DEF NotifyWorker
<1>8. CASE PoolStop
  BY <1>8 DEF PoolStop
<1>9. CASE PoolPush
  <2>1. tasks' \in Seq(PoolTasks \cup {StopTask})
    BY <1>9, StopTasks, ConcatProperties DEF PoolPush, Queued
  <2>2. QED
    BY <1>9, <2>1 DEF PoolPush
<1>10. CASE PoolNotifyAll
  BY <1>10 DEF PoolNotifyAll, NotifyAll, Asleep
<1>11. CASE PoolJoin
  BY <1>11 DEF PoolJoin
<1>12. CASE UNCHANGED poolVars
  BY <1>12 DEF poolVars
<1>13. QED
  BY <1>1, <1>2, <1>3, <1>4, <1>5, <1>6, <1>7, <1>8, <1>9, <1>10, <1>11,
     <1>12 DEF PoolNext, Worker, Client, Owner, PoolDestroyed

(* The variables of the pool keep their types, and no stop task counts as  *)
(* work that ran (thread_pool.h:29-44, :73-81).                            *)
THEOREM PoolTypeCorrect == PoolSafety => []PoolTypeOK
BY PoolInitType, PoolStepType, PTL DEF PoolSafety
-----------------------------------------------------------------------------
(* Counting the workers at a place.                                        *)

(* The workers that are asleep or on their way to the deque are finitely   *)
(* many, and so are the clients with a notification to give.               *)
LEMMA PlacesFinite ==
  /\ IsFiniteSet(Getting) /\ IsFiniteSet(Asleep) /\ IsFiniteSet(Notifying)
  /\ IsFiniteSet(Getting \cup Asleep)
  /\ Cardinality(Getting) \in Nat /\ Cardinality(Notifying) \in Nat
  /\ Cardinality(Getting \cup Asleep) \in Nat
  /\ Cardinality(Getting \cup Asleep) <= Cardinality(PoolWorkers)
<1>1. /\ Getting \subseteq PoolWorkers /\ Asleep \subseteq PoolWorkers
      /\ Notifying \subseteq Clients
  BY DEF Getting, Asleep, Notifying
<1>2. IsFiniteSet(PoolWorkers) /\ IsFiniteSet(Clients)
  BY PoolAssumption
<1>3. IsFiniteSet(Getting) /\ IsFiniteSet(Asleep) /\ IsFiniteSet(Notifying)
  BY <1>1, <1>2, FS_Subset
<1>4. /\ IsFiniteSet(Getting \cup Asleep)
      /\ Cardinality(Getting \cup Asleep) <= Cardinality(PoolWorkers)
  BY <1>1, <1>2, FS_Subset
<1>5. QED
  BY <1>3, <1>4, FS_CardinalityType

(* A worker that becomes "get" from anywhere, and one that stops being it. *)
LEMMA GettingSteps ==
  ASSUME PoolTypeOK, NEW w \in PoolWorkers, NEW l
  PROVE  /\ wpc' = [wpc EXCEPT ![w] = "get"] => Getting' = Getting \cup {w}
         /\ wpc' = [wpc EXCEPT ![w] = l] /\ l # "get" => Getting' = Getting \ {w}
         /\ wpc' = [wpc EXCEPT ![w] = "get"] => Asleep' = Asleep \ {w}
         /\ wpc' = [wpc EXCEPT ![w] = l] /\ l # "asleep" => Asleep' = Asleep \ {w}
         /\ wpc' = [wpc EXCEPT ![w] = "asleep"] => Asleep' = Asleep \cup {w}
BY DEF PoolTypeOK, Getting, Asleep
-----------------------------------------------------------------------------
(* The destructor has set stop_token before it submits anything: from then *)
(* on the loop test lets no worker into get_task.                          *)
StopFirst == dpc # "alive" => stopping

StopInv == PoolTypeOK /\ StopFirst /\ EnoughStopTasks

(* Who is inside get_task, asleep or not, after a step that takes no task: *)
(* nobody new, once stop_token is set.                                     *)
LEMMA StopStep == StopInv /\ PoolTypeOK' /\ [PoolNext]_poolVars => StopInv'
<1> SUFFICES ASSUME StopInv, PoolTypeOK', [PoolNext]_poolVars
             PROVE  StopInv'
  OBVIOUS
<1> DEFINE Inside == Getting \cup Asleep
<1>1. /\ IsFiniteSet(Inside) /\ Cardinality(Inside) \in Nat
      /\ Cardinality(Inside) <= Cardinality(PoolWorkers)
      /\ Cardinality(PoolWorkers) \in Nat
  BY PlacesFinite, PoolAssumption, FS_CardinalityType
<1>2. tasks \in Seq(Queued) /\ Len(tasks) \in Nat
  BY LenProperties DEF StopInv, PoolTypeOK, Queued
<1>3. ASSUME Inside' = Inside, dpc' = dpc, stopping' = stopping, tasks' = tasks
      PROVE  StopInv'
  BY <1>3 DEF StopInv, StopFirst, EnoughStopTasks
<1>4. ASSUME NEW w \in PoolWorkers, TestStop(w) PROVE StopInv'
  <2>1. CASE stopping
    <3>1. Inside' = Inside
      BY <1>4, <2>1 DEF TestStop, Getting, Asleep, StopInv, PoolTypeOK
    <3>2. QED
      BY <1>3, <1>4, <3>1 DEF TestStop
  <2>2. CASE ~stopping
    <3>1. dpc = "alive" /\ dpc' = "alive"
      BY <1>4, <2>2 DEF TestStop, StopInv, StopFirst
    <3>2. QED
      BY <3>1 DEF StopInv, StopFirst, EnoughStopTasks
  <2>3. QED
    BY <2>1, <2>2
<1>5. ASSUME NEW w \in PoolWorkers, GetTask(w) PROVE StopInv'
  <2>1. w \in Inside /\ Inside' = Inside \ {w}
    BY <1>5 DEF GetTask, Getting, Asleep, StopInv, PoolTypeOK
  <2>2. Cardinality(Inside') = Cardinality(Inside) - 1
    BY <1>1, <2>1, FS_RemoveElement
  <2>3. Len(tasks') = Len(tasks) - 1
    BY <1>2, <1>5, HeadTailProperties DEF GetTask
  <2>4. dpc' = dpc /\ stopping' = stopping
    BY <1>5 DEF GetTask
  <2>5. QED
    BY <1>1, <1>2, <2>2, <2>3, <2>4 DEF StopInv, StopFirst, EnoughStopTasks
<1>6. ASSUME NEW w \in PoolWorkers, Wait(w) \/ WakeForNothing(w) PROVE StopInv'
  <2>1. Inside' = Inside
    BY <1>6 DEF Wait, WakeForNothing, Getting, Asleep, StopInv, PoolTypeOK
  <2>2. QED
    BY <1>3, <1>6, <2>1 DEF Wait, WakeForNothing
<1>7. ASSUME NEW w \in PoolWorkers, RunTask(w) PROVE StopInv'
  <2>1. Inside' = Inside
    BY <1>7 DEF RunTask, Getting, Asleep, StopInv, PoolTypeOK
  <2>2. QED
    BY <1>3, <1>7, <2>1 DEF RunTask
<1>8. ASSUME NEW c \in Clients, SubmitPush(c) PROVE StopInv'
  <2>1. <<c, given[c] + 1>> \in Queued
    BY <1>8, NextTask DEF SubmitPush, StopInv, PoolTypeOK, Queued
  <2>2. Len(tasks') = Len(tasks) + 1
    BY <1>2, <1>8, <2>1 DEF SubmitPush
  <2>3. Inside' = Inside /\ dpc' = dpc /\ stopping' = stopping
    BY <1>8 DEF SubmitPush, Getting, Asleep
  <2>4. dpc \in {"notify", "join"} => Len(tasks) >= Cardinality(Inside)
    BY DEF StopInv, EnoughStopTasks
  <2>5. Cardinality(Inside') = Cardinality(Inside)
    BY <2>3
  <2>6. dpc' \in {"notify", "join"} => Len(tasks') >= Cardinality(Inside')
    BY <1>1, <1>2, <2>2, <2>3, <2>4, <2>5
  <2>7. QED
    BY <2>3, <2>6 DEF StopInv, StopFirst, EnoughStopTasks
<1>9. ASSUME NEW c \in Clients, NotifyWorker(c) PROVE StopInv'
  <2>1. NotifyOne
    BY <1>9 DEF NotifyWorker
  <2>2. Inside' = Inside
    BY <2>1 DEF NotifyOne, Getting, Asleep, StopInv, PoolTypeOK
  <2>3. QED
    BY <1>3, <1>9, <2>2 DEF NotifyWorker
<1>10. CASE PoolStop
  BY <1>10 DEF PoolStop, StopInv, StopFirst, EnoughStopTasks
<1>11. CASE PoolPush
  <2>1. Len(tasks') = Len(tasks) + Cardinality(PoolWorkers)
    BY <1>2, <1>11, StopTasks, ConcatProperties DEF PoolPush
  <2>2. Inside' = Inside
    BY <1>11 DEF PoolPush, Getting, Asleep
  <2>3. stopping' = stopping /\ dpc = "push"
    BY <1>11 DEF PoolPush
  <2>4. Cardinality(Inside') = Cardinality(Inside)
    BY <2>2
  <2>5. Len(tasks') >= Cardinality(Inside')
    BY <1>1, <1>2, <2>1, <2>4
  <2>6. QED
    BY <2>3, <2>5 DEF StopInv, StopFirst, EnoughStopTasks
<1>12. CASE PoolNotifyAll
  <2>1. Inside' = Inside
    BY <1>12 DEF PoolNotifyAll, NotifyAll, Getting, Asleep, StopInv, PoolTypeOK
  <2>2. dpc = "notify" /\ stopping' = stopping /\ tasks' = tasks
    BY <1>12 DEF PoolNotifyAll
  <2>3. QED
    BY <2>1, <2>2 DEF StopInv, StopFirst, EnoughStopTasks
<1>13. CASE PoolJoin
  BY <1>13 DEF PoolJoin, StopInv, StopFirst, EnoughStopTasks
<1>14. CASE UNCHANGED poolVars
  BY <1>3, <1>14 DEF poolVars, Getting, Asleep
<1>15. QED
  BY <1>4, <1>5, <1>6, <1>7, <1>8, <1>9, <1>10, <1>11, <1>12, <1>13, <1>14
     DEF PoolNext, Worker, Client, Owner, PoolDestroyed

(* Once the destructor has submitted its stop tasks, the deque holds one   *)
(* for every worker that may still wait for a task (thread_pool.h:48-49,   *)
(* :73-81): no worker sleeps through the destruction for want of one.      *)
THEOREM StopTasksSuffice == PoolSafety => []EnoughStopTasks
<1>1. PoolInit => StopInv
  BY PoolInitType DEF PoolInit, StopInv, StopFirst, EnoughStopTasks
<1>2. StopInv => EnoughStopTasks
  BY DEF StopInv
<1>3. QED
  BY <1>1, <1>2, StopStep, PoolTypeCorrect, PTL DEF PoolSafety
-----------------------------------------------------------------------------
(* NoTaskForgotten is inductive, given the types: each task that is queued *)
(* brings a notification, each notification brings a worker to the deque   *)
(* if there is a sleeper, and a worker sleeps only on an empty deque.      *)
LEMMA ForgottenStep ==
  PoolTypeOK /\ NoTaskForgotten /\ [PoolNext]_poolVars => NoTaskForgotten'
<1> SUFFICES ASSUME PoolTypeOK, NoTaskForgotten, [PoolNext]_poolVars,
                    Asleep' # {}, dpc' # "notify"
             PROVE  Len(tasks') <= Cardinality(Getting') + Cardinality(Notifying')
  BY DEF NoTaskForgotten
<1>1. /\ IsFiniteSet(Getting) /\ IsFiniteSet(Notifying)
      /\ Cardinality(Getting) \in Nat /\ Cardinality(Notifying) \in Nat
  BY PlacesFinite
<1>2. tasks \in Seq(Queued) /\ Len(tasks) \in Nat
  BY LenProperties DEF PoolTypeOK, Queued
<1>3. ASSUME Asleep # {}, dpc # "notify"
      PROVE  Len(tasks) <= Cardinality(Getting) + Cardinality(Notifying)
  BY <1>3 DEF NoTaskForgotten
<1>4. ASSUME NEW w \in PoolWorkers, TestStop(w)
      PROVE  Len(tasks') <= Cardinality(Getting') + Cardinality(Notifying')
  <2>1. Asleep' = Asleep /\ dpc' = dpc /\ tasks' = tasks /\ Notifying' = Notifying
    BY <1>4 DEF TestStop, Asleep, Notifying, PoolTypeOK
  <2>2. Getting' = Getting \/ Getting' = Getting \cup {w}
    BY <1>4 DEF TestStop, Getting, PoolTypeOK
  <2>3. Cardinality(Getting') \in Nat /\ Cardinality(Getting) <= Cardinality(Getting')
    <3>1. Cardinality(Getting \cup {w}) \in {Cardinality(Getting), Cardinality(Getting) + 1}
      BY <1>1, FS_AddElement
    <3>2. Cardinality(Getting') \in {Cardinality(Getting), Cardinality(Getting) + 1}
      BY <2>2, <3>1
    <3>3. QED
      BY <1>1, <3>2
  <2>4. Len(tasks') <= Cardinality(Getting') + Cardinality(Notifying')
    BY <1>1, <1>2, <1>3, <2>1, <2>3
  <2>5. QED
    BY <2>4
<1>5. ASSUME NEW w \in PoolWorkers, GetTask(w)
      PROVE  Len(tasks') <= Cardinality(Getting') + Cardinality(Notifying')
  <2>1. Asleep' = Asleep /\ dpc' = dpc /\ Notifying' = Notifying
    BY <1>5 DEF GetTask, Asleep, Notifying, PoolTypeOK
  <2>2. w \in Getting /\ Getting' = Getting \ {w}
    BY <1>5 DEF GetTask, Getting, PoolTypeOK
  <2>3. Cardinality(Getting') = Cardinality(Getting) - 1
    BY <1>1, <2>2, FS_RemoveElement
  <2>4. Len(tasks') = Len(tasks) - 1
    BY <1>2, <1>5, HeadTailProperties DEF GetTask
  <2>5. QED
    BY <1>1, <1>2, <1>3, <2>1, <2>3, <2>4
<1>6. ASSUME NEW w \in PoolWorkers, Wait(w)
      PROVE  Len(tasks') <= Cardinality(Getting') + Cardinality(Notifying')
  <2>1. Len(tasks') = 0 /\ Notifying' = Notifying
    BY <1>6, EmptySeq DEF Wait, Notifying
  <2>2. Getting' = Getting \ {w}
    BY <1>6 DEF Wait, Getting, PoolTypeOK
  <2>3. Cardinality(Getting') \in Nat
    BY <1>1, <2>2, FS_RemoveElement, FS_CardinalityType
  <2>4. QED
    BY <1>1, <2>1, <2>3
<1>7. ASSUME NEW w \in PoolWorkers, RunTask(w)
      PROVE  Len(tasks') <= Cardinality(Getting') + Cardinality(Notifying')
  <2>1. Asleep' = Asleep /\ Getting' = Getting
    BY <1>7 DEF RunTask, Asleep, Getting, PoolTypeOK
  <2>2. dpc' = dpc /\ tasks' = tasks /\ Notifying' = Notifying
    BY <1>7 DEF RunTask, Notifying
  <2>3. QED
    BY <1>3, <2>1, <2>2
<1>8. ASSUME NEW w \in Asleep, wpc' = [wpc EXCEPT ![w] = "get"]
      PROVE  /\ Asleep # {}
             /\ Cardinality(Getting') = Cardinality(Getting) + 1
  <2>1. w \in PoolWorkers /\ w \notin Getting
    BY DEF Asleep, Getting
  <2>2. Getting' = Getting \cup {w}
    BY <1>8, <2>1 DEF Getting, PoolTypeOK
  <2>3. QED
    BY <1>1, <2>1, <2>2, FS_AddElement
<1>9. ASSUME NEW w \in PoolWorkers, WakeForNothing(w)
      PROVE  Len(tasks') <= Cardinality(Getting') + Cardinality(Notifying')
  <2>1. w \in Asleep /\ wpc' = [wpc EXCEPT ![w] = "get"]
    BY <1>9 DEF WakeForNothing, Asleep
  <2>2. dpc' = dpc /\ tasks' = tasks /\ Notifying' = Notifying
    BY <1>9 DEF WakeForNothing, Notifying
  <2>3. Asleep # {} /\ Cardinality(Getting') = Cardinality(Getting) + 1
    BY <1>8, <2>1
  <2>4. QED
    BY <1>1, <1>2, <1>3, <2>2, <2>3
<1>10. ASSUME NEW c \in Clients, SubmitPush(c)
       PROVE  Len(tasks') <= Cardinality(Getting') + Cardinality(Notifying')
  <2>1. <<c, given[c] + 1>> \in Queued
    BY <1>10, NextTask DEF SubmitPush, PoolTypeOK, Queued
  <2>2. Len(tasks') = Len(tasks) + 1
    BY <1>2, <1>10, <2>1 DEF SubmitPush
  <2>3. Asleep' = Asleep /\ Getting' = Getting /\ dpc' = dpc
    BY <1>10 DEF SubmitPush, Asleep, Getting
  <2>4. c \notin Notifying /\ Notifying' = Notifying \cup {c}
    BY <1>10 DEF SubmitPush, Notifying, PoolTypeOK
  <2>5. Cardinality(Notifying') = Cardinality(Notifying) + 1
    BY <1>1, <2>4, FS_AddElement
  <2>6. QED
    BY <1>1, <1>2, <1>3, <2>2, <2>3, <2>5
<1>11. ASSUME NEW c \in Clients, NotifyWorker(c)
       PROVE  Len(tasks') <= Cardinality(Getting') + Cardinality(Notifying')
  <2>1. c \in Notifying /\ Notifying' = Notifying \ {c}
    BY <1>11 DEF NotifyWorker, Notifying, PoolTypeOK
  <2>2. Cardinality(Notifying') = Cardinality(Notifying) - 1
    BY <1>1, <2>1, FS_RemoveElement
  <2>3. dpc' = dpc /\ tasks' = tasks /\ NotifyOne
    BY <1>11 DEF NotifyWorker
  <2>4. PICK w \in Asleep : wpc' = [wpc EXCEPT ![w] = "get"]
    <3>1. Asleep # {}
      BY <2>3 DEF NotifyOne, Asleep
    <3>2. QED
      BY <2>3, <3>1 DEF NotifyOne
  <2>5. Cardinality(Getting') = Cardinality(Getting) + 1 /\ Asleep # {}
    BY <1>8, <2>4
  <2>6. QED
    BY <1>1, <1>2, <1>3, <2>2, <2>3, <2>5
<1>12. CASE PoolStop
  BY <1>3, <1>12 DEF PoolStop, Asleep, Getting, Notifying
<1>13. CASE PoolPush
  BY <1>13 DEF PoolPush
<1>14. CASE PoolNotifyAll
  <2>1. Asleep' = {}
    BY <1>14 DEF PoolNotifyAll, NotifyAll, Asleep, PoolTypeOK
  <2>2. QED
    BY <2>1
<1>15. CASE PoolJoin
  BY <1>3, <1>15 DEF PoolJoin, Asleep, Getting, Notifying
<1>16. CASE UNCHANGED poolVars
  BY <1>3, <1>16 DEF poolVars, Asleep, Getting, Notifying
<1>17. QED
  BY <1>4, <1>5, <1>6, <1>7, <1>9, <1>10, <1>11, <1>12, <1>13, <1>14, <1>15,
     <1>16 DEF PoolNext, Worker, Client, Owner, PoolDestroyed

(* No wakeup is lost, whatever the number of workers and clients and       *)
(* although submit notifies after it has released the mutex                *)
(* (thread_pool.h:6-23).                                                   *)
THEOREM TasksNotForgotten == PoolSafety => []NoTaskForgotten
<1>1. PoolInit => NoTaskForgotten
  <2>1. PoolInit => Asleep = {}
    BY DEF PoolInit, Asleep
  <2>2. QED
    BY <2>1 DEF NoTaskForgotten
<1>2. QED
  BY <1>1, ForgottenStep, PoolTypeCorrect, PTL DEF PoolSafety
-----------------------------------------------------------------------------
(* The pool implements the task service.                                   *)

(* The first n tasks of the queue are the clients', the others are empty.  *)
Border(s, n) == \A k \in 1 .. Len(s) : s[k] # StopTask <=> k <= n

(* No task is queued behind an empty one; the empty ones come only with    *)
(* the destructor, which runs when the clients are done and returns when   *)
(* every worker has left its loop.                                         *)
StopsLast ==
  /\ dpc \in {"alive", "push"} => \A k \in 1 .. Len(tasks) : tasks[k] # StopTask
  /\ \E n \in 0 .. Len(tasks) : Border(tasks, n)
  /\ dpc # "alive" => ClientsDone
  /\ dpc = "destroyed" => \A w \in PoolWorkers : wpc[w] = "exited"

(* The tasks handed over are queued, with a worker or finished, each once. *)
Submitted(t, g) == t[2] <= g[t[1]]
Distinct ==
  /\ \A k \in 1 .. Len(tasks) :
       tasks[k] # StopTask => tasks[k] \notin ran /\ Submitted(tasks[k], given)
  /\ \A j, k \in 1 .. Len(tasks) : tasks[j] = tasks[k] /\ tasks[k] # StopTask => j = k
  /\ \A w \in PoolWorkers : wpc[w] = "run" /\ task[w] # StopTask =>
       /\ task[w] \notin ran /\ Submitted(task[w], given)
       /\ \A k \in 1 .. Len(tasks) : tasks[k] # task[w]
  /\ \A v, w \in PoolWorkers :
       wpc[v] = "run" /\ wpc[w] = "run" /\ task[v] = task[w] /\ task[w] # StopTask => v = w
  /\ \A t \in ran : Submitted(t, given)

ServiceInv == PoolTypeOK /\ StopsLast /\ Distinct

(* What is left when the first task is taken, and what it was.             *)
LEMMA FrontFacts ==
  ASSUME PoolTypeOK, tasks # <<>>
  PROVE  /\ Head(tasks) = tasks[1] /\ tasks[1] \in Queued /\ 1 \in 1 .. Len(tasks)
         /\ Tail(tasks) \in Seq(Queued) /\ Len(Tail(tasks)) = Len(tasks) - 1
         /\ \A k \in 1 .. Len(Tail(tasks)) :
              /\ k + 1 \in 1 .. Len(tasks) /\ Tail(tasks)[k] = tasks[k + 1]
              /\ 1 < k + 1 /\ k + 1 # 1
<1>1. tasks \in Seq(Queued)
  BY DEF PoolTypeOK, Queued
<1>2. /\ Head(tasks) = tasks[1] /\ Tail(tasks) \in Seq(Queued) /\ Len(tasks) \in Nat
      /\ Len(Tail(tasks)) = Len(tasks) - 1 /\ Len(tasks) >= 1
      /\ \A k \in 1 .. Len(Tail(tasks)) : Tail(tasks)[k] = tasks[k + 1]
  BY <1>1, HeadTailProperties, LenProperties, EmptySeq
<1>3. 1 \in 1 .. Len(tasks)
  BY <1>2
<1>4. \A k \in 1 .. Len(Tail(tasks)) : k + 1 \in 1 .. Len(tasks) /\ 1 < k + 1 /\ k + 1 # 1
  BY <1>2
<1>5. QED
  BY <1>1, <1>2, <1>3, <1>4

(* What the deque is when one task is put at its end.                      *)
LEMMA EndFacts ==
  ASSUME PoolTypeOK, NEW t \in Queued
  PROVE  /\ Len(Append(tasks, t)) = Len(tasks) + 1 /\ Len(tasks) \in Nat
         /\ Append(tasks, t)[Len(tasks) + 1] = t
         /\ \A k \in 1 .. Len(tasks) : Append(tasks, t)[k] = tasks[k]
         /\ \A k \in 1 .. Len(Append(tasks, t)) : k \in 1 .. Len(tasks) \/ k = Len(tasks) + 1
<1>1. tasks \in Seq(Queued)
  BY DEF PoolTypeOK, Queued
<1>2. QED
  BY <1>1, AppendProperties, LenProperties

(* What it is when the destructor has put its empty tasks at the end.      *)
LEMMA StopsFacts ==
  ASSUME PoolTypeOK, PoolPush
  PROVE  /\ Len(tasks) \in Nat /\ Len(tasks') \in Nat /\ Len(tasks) <= Len(tasks')
         /\ \A k \in 1 .. Len(tasks) : tasks'[k] = tasks[k]
         /\ \A k \in 1 .. Len(tasks') : k \in 1 .. Len(tasks) \/ (tasks'[k] = StopTask /\ k > Len(tasks))
<1> DEFINE stops == [i \in 1 .. Cardinality(PoolWorkers) |-> StopTask]
<1>1. tasks \in Seq(Queued) /\ stops \in Seq(Queued) /\ tasks' = tasks \o stops
  BY StopTasks DEF PoolTypeOK, Queued, PoolPush
<1>2. \A k \in 1 .. Len(stops) : stops[k] = StopTask
  BY StopTasks
<1> HIDE DEF stops
<1>3. /\ Len(tasks') = Len(tasks) + Len(stops) /\ Len(tasks) \in Nat /\ Len(stops) \in Nat
      /\ \A k \in 1 .. Len(tasks) + Len(stops) :
           tasks'[k] = IF k <= Len(tasks) THEN tasks[k] ELSE stops[k - Len(tasks)]
  BY <1>1, ConcatProperties, LenProperties
<1>4. ASSUME NEW k \in 1 .. Len(tasks) PROVE tasks'[k] = tasks[k]
  BY <1>3
<1>5. ASSUME NEW k \in 1 .. Len(tasks'), k \notin 1 .. Len(tasks)
      PROVE  tasks'[k] = StopTask /\ k > Len(tasks)
  <2>1. k \in 1 .. Len(tasks) + Len(stops) /\ ~(k <= Len(tasks)) /\ k - Len(tasks) \in 1 .. Len(stops)
    BY <1>3, <1>5
  <2>2. QED
    BY <1>2, <1>3, <2>1
<1>6. QED
  BY <1>3, <1>4, <1>5

(* A step that moves no task, and after which no worker runs that did not. *)
LEMMA TasksStay ==
  ASSUME Distinct, UNCHANGED <<tasks, given, ran, task>>,
         \A w \in PoolWorkers : wpc'[w] = "run" => wpc[w] = "run"
  PROVE  Distinct'
BY DEF Distinct, Submitted

(* A client submits its next task: nobody has seen it before.              *)
LEMMA SubmitDistinct ==
  ASSUME ServiceInv, NEW c \in Clients, SubmitPush(c)
  PROVE  Distinct'
<1> DEFINE t == <<c, given[c] + 1>>
<1>1. /\ PoolTypeOK /\ Distinct /\ given[c] \in 0 .. PerClient /\ PerClient \in Nat
      /\ given \in [Clients -> 0 .. PerClient]
  BY PoolAssumption DEF ServiceInv, PoolTypeOK
<1>2. /\ tasks' = Append(tasks, t) /\ given' = [given EXCEPT ![c] = given[c] + 1]
      /\ UNCHANGED <<wpc, task, ran>> /\ t \in PoolTasks /\ t \in Queued /\ t # StopTask
  BY <1>1, NextTask, PoolAssumption DEF SubmitPush, Queued
<1>3. t[1] = c /\ t[2] = given[c] + 1
  OBVIOUS
<1>4. ASSUME NEW x \in PoolTasks, Submitted(x, given) PROVE Submitted(x, given') /\ x # t
  <2>1. x[1] \in Clients /\ x[2] \in Nat /\ x[2] <= given[x[1]] /\ given[x[1]] \in Nat
    BY <1>1, <1>4 DEF PoolTasks, Submitted
  <2>2. given'[x[1]] = IF x[1] = c THEN given[c] + 1 ELSE given[x[1]]
    BY <1>1, <1>2, <2>1
  <2>3. x[2] <= given'[x[1]]
    BY <1>1, <2>1, <2>2
  <2>4. x # t
    BY <1>1, <1>3, <2>1
  <2>5. QED
    BY <2>3, <2>4 DEF Submitted
<1>5. Submitted(t, given')
  <2>1. given'[c] = given[c] + 1
    BY <1>1, <1>2
  <2>2. given[c] + 1 \in Int
    BY <1>1
  <2>3. t[2] <= given'[t[1]]
    BY <1>3, <2>1, <2>2
  <2>4. QED
    BY <2>3 DEF Submitted
<1>6. /\ ran \subseteq PoolTasks /\ \A w \in PoolWorkers : task[w] # StopTask => task[w] \in PoolTasks
      /\ \A k \in 1 .. Len(tasks) : tasks[k] # StopTask => tasks[k] \in PoolTasks
  BY <1>1 DEF PoolTypeOK
<1> HIDE DEF t
<1>7. /\ Len(tasks') = Len(tasks) + 1 /\ Len(tasks) \in Nat /\ tasks'[Len(tasks) + 1] = t
      /\ \A k \in 1 .. Len(tasks) : tasks'[k] = tasks[k]
      /\ \A k \in 1 .. Len(tasks') : k \in 1 .. Len(tasks) \/ k = Len(tasks) + 1
  BY <1>1, <1>2, EndFacts
<1>8. ASSUME NEW k \in 1 .. Len(tasks), tasks[k] # StopTask
      PROVE  tasks[k] \notin ran /\ Submitted(tasks[k], given') /\ tasks[k] # t
  BY <1>1, <1>4, <1>6, <1>8 DEF Distinct
<1>9. ASSUME NEW w \in PoolWorkers, wpc[w] = "run", task[w] # StopTask
      PROVE  /\ task[w] \notin ran /\ Submitted(task[w], given') /\ task[w] # t
             /\ \A k \in 1 .. Len(tasks) : tasks[k] # task[w]
  BY <1>1, <1>4, <1>6, <1>9 DEF Distinct
<1>10. t \notin ran /\ \A x \in ran : Submitted(x, given')
  BY <1>1, <1>4, <1>6 DEF Distinct
<1>11. ASSUME NEW k \in 1 .. Len(tasks'), tasks'[k] # StopTask
       PROVE  tasks'[k] \notin ran' /\ Submitted(tasks'[k], given')
  <2>1. CASE k \in 1 .. Len(tasks)
    <3>1. tasks'[k] = tasks[k]
      BY <1>7, <2>1
    <3>2. tasks[k] \notin ran /\ Submitted(tasks[k], given')
      BY <1>8, <1>11, <2>1, <3>1
    <3>3. QED
      BY <1>2, <3>1, <3>2
  <2>2. CASE k = Len(tasks) + 1
    BY <1>2, <1>5, <1>7, <1>10, <2>2 DEF Submitted
  <2>3. QED
    BY <1>7, <2>1, <2>2
<1>12. ASSUME NEW j \in 1 .. Len(tasks'), NEW k \in 1 .. Len(tasks'),
              tasks'[j] = tasks'[k], tasks'[k] # StopTask
       PROVE  j = k
  <2>1. CASE j \in 1 .. Len(tasks) /\ k \in 1 .. Len(tasks)
    BY <1>1, <1>7, <1>12, <2>1 DEF Distinct
  <2>2. CASE j \in 1 .. Len(tasks) /\ k = Len(tasks) + 1
    BY <1>2, <1>7, <1>8, <1>12, <2>2
  <2>3. CASE j = Len(tasks) + 1 /\ k \in 1 .. Len(tasks)
    BY <1>2, <1>7, <1>8, <1>12, <2>3
  <2>4. QED
    BY <1>7, <2>1, <2>2, <2>3
<1>13. ASSUME NEW w \in PoolWorkers, wpc'[w] = "run", task'[w] # StopTask
       PROVE  /\ task'[w] \notin ran' /\ Submitted(task'[w], given')
              /\ \A k \in 1 .. Len(tasks') : tasks'[k] # task'[w]
  <2>1. task[w] \notin ran /\ Submitted(task[w], given') /\ task[w] # t
    BY <1>2, <1>9, <1>13
  <2>2. \A k \in 1 .. Len(tasks) : tasks[k] # task[w]
    BY <1>2, <1>9, <1>13
  <2>3. \A k \in 1 .. Len(tasks') : tasks'[k] # task[w]
    BY <1>7, <2>1, <2>2
  <2>4. QED
    BY <1>2, <2>1, <2>3 DEF Submitted
<1>14. /\ \A v, w \in PoolWorkers :
            wpc'[v] = "run" /\ wpc'[w] = "run" /\ task'[v] = task'[w] /\ task'[w] # StopTask => v = w
       /\ \A x \in ran' : Submitted(x, given')
  BY <1>1, <1>2, <1>10 DEF Distinct
<1>15. QED
  BY <1>11, <1>12, <1>13, <1>14 DEF Distinct

(* A worker takes the front task: nobody else has it.                      *)
LEMMA TakeDistinct ==
  ASSUME ServiceInv, NEW w \in PoolWorkers, GetTask(w)
  PROVE  Distinct'
<1>1. /\ PoolTypeOK /\ Distinct /\ tasks # <<>> /\ wpc[w] = "get"
      /\ tasks' = Tail(tasks) /\ task' = [task EXCEPT ![w] = tasks[1]]
      /\ wpc' = [wpc EXCEPT ![w] = "run"] /\ UNCHANGED <<given, ran>>
  BY FrontFacts DEF ServiceInv, GetTask
<1>2. /\ tasks[1] \in Queued /\ 1 \in 1 .. Len(tasks) /\ Len(tasks') = Len(tasks) - 1
      /\ \A k \in 1 .. Len(tasks') :
           k + 1 \in 1 .. Len(tasks) /\ tasks'[k] = tasks[k + 1] /\ k + 1 # 1
  BY <1>1, FrontFacts
<1>3. /\ task'[w] = tasks[1] /\ wpc'[w] = "run"
      /\ \A v \in PoolWorkers \ {w} : task'[v] = task[v] /\ wpc'[v] = wpc[v]
  BY <1>1 DEF PoolTypeOK
<1>4. ASSUME NEW k \in 1 .. Len(tasks'), tasks'[k] # StopTask
      PROVE  tasks'[k] \notin ran' /\ Submitted(tasks'[k], given') /\ tasks'[k] # tasks[1]
  <2>1. k + 1 \in 1 .. Len(tasks) /\ tasks'[k] = tasks[k + 1] /\ k + 1 # 1
    BY <1>2
  <2>2. tasks[k + 1] \notin ran /\ Submitted(tasks[k + 1], given) /\ tasks[k + 1] # tasks[1]
    BY <1>1, <1>2, <1>4, <2>1 DEF Distinct
  <2>3. QED
    BY <1>1, <2>1, <2>2 DEF Submitted
<1>5. ASSUME NEW j \in 1 .. Len(tasks'), NEW k \in 1 .. Len(tasks'),
             tasks'[j] = tasks'[k], tasks'[k] # StopTask
      PROVE  j = k
  <2>1. j + 1 = k + 1
    BY <1>1, <1>2, <1>5 DEF Distinct
  <2>2. QED
    BY <2>1
<1>6. ASSUME NEW v \in PoolWorkers, wpc'[v] = "run", task'[v] # StopTask
      PROVE  /\ task'[v] \notin ran' /\ Submitted(task'[v], given')
             /\ \A k \in 1 .. Len(tasks') : tasks'[k] # task'[v]
  <2>1. CASE v = w
    <3>1. task'[v] \notin ran' /\ Submitted(task'[v], given')
      BY <1>1, <1>2, <1>3, <1>6, <2>1 DEF Distinct, Submitted
    <3>2. ASSUME NEW k \in 1 .. Len(tasks') PROVE tasks'[k] # task'[v]
      BY <1>3, <1>4, <1>6, <2>1
    <3>3. QED
      BY <3>1, <3>2
  <2>2. CASE v # w
    <3>1. task'[v] \notin ran' /\ Submitted(task'[v], given')
      BY <1>1, <1>3, <1>6, <2>2 DEF Distinct, Submitted
    <3>2. \A k \in 1 .. Len(tasks) : tasks[k] # task[v]
      BY <1>1, <1>3, <1>6, <2>2 DEF Distinct
    <3>3. ASSUME NEW k \in 1 .. Len(tasks') PROVE tasks'[k] # task'[v]
      BY <1>2, <1>3, <2>2, <3>2
    <3>4. QED
      BY <3>1, <3>3
  <2>3. QED
    BY <2>1, <2>2
<1>7. ASSUME NEW u \in PoolWorkers, NEW v \in PoolWorkers,
             wpc'[u] = "run", wpc'[v] = "run", task'[u] = task'[v], task'[v] # StopTask
      PROVE  u = v
  <2>1. ASSUME NEW x \in PoolWorkers \ {w}, wpc[x] = "run", task[x] # StopTask
        PROVE  task[x] # tasks[1]
    BY <1>1, <1>2, <2>1 DEF Distinct
  <2>2. CASE u # w /\ v # w
    BY <1>1, <1>3, <1>7, <2>2 DEF Distinct
  <2>3. CASE u = w \/ v = w
    BY <1>3, <1>7, <2>1, <2>3
  <2>4. QED
    BY <2>2, <2>3
<1>8. \A x \in ran' : Submitted(x, given')
  BY <1>1 DEF Distinct, Submitted
<1>9. QED
  BY <1>4, <1>5, <1>6, <1>7, <1>8 DEF Distinct

(* A worker finishes its task: nobody else had it.                         *)
LEMMA FinishDistinct ==
  ASSUME ServiceInv, NEW w \in PoolWorkers, RunTask(w)
  PROVE  Distinct'
<1>1. /\ PoolTypeOK /\ Distinct /\ wpc[w] = "run" /\ wpc' = [wpc EXCEPT ![w] = "loop"]
      /\ ran' = IF task[w] = StopTask THEN ran ELSE ran \cup {task[w]}
      /\ UNCHANGED <<tasks, given, task>>
  BY DEF ServiceInv, RunTask
<1>2. wpc'[w] # "run" /\ \A v \in PoolWorkers \ {w} : wpc'[v] = wpc[v]
  BY <1>1 DEF PoolTypeOK
<1>3. ASSUME NEW v \in PoolWorkers, wpc'[v] = "run" PROVE v # w /\ wpc[v] = "run"
  BY <1>2, <1>3
<1>4. CASE task[w] = StopTask
  BY <1>1, <1>3, <1>4, TasksStay
<1>5. CASE task[w] # StopTask
  <2>1. ran' = ran \cup {task[w]} /\ Submitted(task[w], given)
    BY <1>1, <1>5 DEF Distinct
  <2>2. ASSUME NEW k \in 1 .. Len(tasks), tasks[k] # StopTask
        PROVE  tasks[k] \notin ran' /\ Submitted(tasks[k], given)
    BY <1>1, <1>5, <2>1, <2>2 DEF Distinct
  <2>3. ASSUME NEW v \in PoolWorkers, wpc'[v] = "run", task[v] # StopTask
        PROVE  /\ task[v] \notin ran' /\ Submitted(task[v], given)
               /\ \A k \in 1 .. Len(tasks) : tasks[k] # task[v]
    BY <1>1, <1>3, <1>5, <2>1, <2>3 DEF Distinct
  <2>4. \A x \in ran' : Submitted(x, given)
    BY <1>1, <2>1 DEF Distinct
  <2>5. \A u, v \in PoolWorkers :
          wpc'[u] = "run" /\ wpc'[v] = "run" /\ task[u] = task[v] /\ task[v] # StopTask => u = v
    BY <1>1, <1>3 DEF Distinct
  <2>6. QED
    BY <1>1, <2>2, <2>3, <2>4, <2>5 DEF Distinct, Submitted
<1>6. QED
  BY <1>4, <1>5
-----------------------------------------------------------------------------
(* The empty tasks stay at the end of the deque.                           *)

(* A step that leaves the deque, the clients and the owner where they are. *)
LEMMA StopsKept ==
  ASSUME StopsLast, UNCHANGED <<tasks, spc, given, dpc>>,
         \A w \in PoolWorkers : wpc[w] = "exited" => wpc'[w] = "exited"
  PROVE  StopsLast'
BY DEF StopsLast, Border, ClientsDone

(* While a client has something to do the owner has not begun.             *)
LEMMA ClientsFirst ==
  ASSUME StopsLast, NEW c \in Clients, spc[c] # "submit" \/ given[c] # PerClient
  PROVE  dpc = "alive"
BY DEF StopsLast, ClientsDone

(* A client puts its task at the end.                                      *)
LEMMA SubmitStops ==
  ASSUME ServiceInv, NEW c \in Clients, SubmitPush(c)
  PROVE  StopsLast' /\ dpc = "alive"
<1> DEFINE t == <<c, given[c] + 1>>
<1>1. /\ PoolTypeOK /\ StopsLast /\ given[c] \in 0 .. PerClient /\ PerClient \in Nat
      /\ given[c] < PerClient
  BY PoolAssumption DEF ServiceInv, PoolTypeOK, SubmitPush
<1>2. dpc = "alive"
  BY <1>1, ClientsFirst
<1>3. tasks' = Append(tasks, t) /\ UNCHANGED dpc /\ t \in Queued /\ t # StopTask
  BY <1>1, NextTask, PoolAssumption DEF SubmitPush, Queued
<1> HIDE DEF t
<1>4. /\ Len(tasks') = Len(tasks) + 1 /\ Len(tasks) \in Nat /\ tasks'[Len(tasks) + 1] = t
      /\ \A k \in 1 .. Len(tasks) : tasks'[k] = tasks[k]
      /\ \A k \in 1 .. Len(tasks') : k \in 1 .. Len(tasks) \/ k = Len(tasks) + 1
  BY <1>1, <1>3, EndFacts
<1>5. ASSUME NEW k \in 1 .. Len(tasks') PROVE tasks'[k] # StopTask
  <2>1. CASE k \in 1 .. Len(tasks)
    BY <1>1, <1>2, <1>4, <2>1 DEF StopsLast
  <2>2. QED
    BY <1>3, <1>4, <2>1
<1>6. Len(tasks') \in 0 .. Len(tasks') /\ Border(tasks', Len(tasks'))
  BY <1>4, <1>5 DEF Border
<1>7. QED
  BY <1>2, <1>3, <1>5, <1>6 DEF StopsLast

(* A worker takes the front task.                                          *)
LEMMA TakeStops ==
  ASSUME ServiceInv, NEW w \in PoolWorkers, GetTask(w), NEW n \in 0 .. Len(tasks),
         Border(tasks, n)
  PROVE  /\ StopsLast'
         /\ tasks[1] = StopTask => n = 0 /\ Border(tasks', 0)
         /\ tasks[1] # StopTask => n - 1 \in 0 .. Len(tasks') /\ Border(tasks', n - 1)
<1>1. /\ PoolTypeOK /\ StopsLast /\ tasks # <<>> /\ wpc[w] = "get" /\ tasks' = Tail(tasks)
      /\ wpc' = [wpc EXCEPT ![w] = "run"] /\ UNCHANGED <<spc, given, dpc>>
  BY DEF ServiceInv, GetTask
<1>2. /\ 1 \in 1 .. Len(tasks) /\ Len(tasks') = Len(tasks) - 1 /\ Len(tasks) \in Nat
      /\ \A k \in 1 .. Len(tasks') : k + 1 \in 1 .. Len(tasks) /\ tasks'[k] = tasks[k + 1]
  BY <1>1, FrontFacts, LenProperties DEF PoolTypeOK
<1>3. tasks[1] # StopTask <=> 1 <= n
  BY <1>2 DEF Border
<1>4. ASSUME tasks[1] = StopTask PROVE n = 0 /\ Border(tasks', 0)
  <2>1. n = 0
    BY <1>2, <1>3, <1>4
  <2>2. ASSUME NEW k \in 1 .. Len(tasks') PROVE tasks'[k] # StopTask <=> k <= 0
    <3>1. tasks[k + 1] # StopTask <=> k + 1 <= n
      BY <1>2 DEF Border
    <3>2. QED
      BY <1>2, <2>1, <3>1
  <2>3. QED
    BY <2>1, <2>2 DEF Border
<1>5. ASSUME tasks[1] # StopTask PROVE n - 1 \in 0 .. Len(tasks') /\ Border(tasks', n - 1)
  <2>1. n - 1 \in 0 .. Len(tasks')
    BY <1>2, <1>3, <1>5
  <2>2. ASSUME NEW k \in 1 .. Len(tasks') PROVE tasks'[k] # StopTask <=> k <= n - 1
    <3>1. tasks[k + 1] # StopTask <=> k + 1 <= n
      BY <1>2 DEF Border
    <3>2. QED
      BY <1>2, <3>1
  <2>3. QED
    BY <2>1, <2>2 DEF Border
<1>6. \E m \in 0 .. Len(tasks') : Border(tasks', m)
  <2>1. 0 \in 0 .. Len(tasks')
    BY <1>2
  <2>2. QED
    BY <1>4, <1>5, <2>1
<1>7. dpc \in {"alive", "push"} => \A k \in 1 .. Len(tasks') : tasks'[k] # StopTask
  BY <1>1, <1>2 DEF StopsLast
<1>8. dpc # "destroyed"
  BY <1>1 DEF StopsLast
<1>9. dpc' # "alive" => ClientsDone'
  BY <1>1 DEF StopsLast, ClientsDone
<1>10. StopsLast'
  BY <1>1, <1>6, <1>7, <1>8, <1>9 DEF StopsLast
<1>11. QED
  BY <1>4, <1>5, <1>10

(* The destructor puts its empty tasks behind all others.                  *)
LEMMA PushStops ==
  ASSUME ServiceInv, PoolPush
  PROVE  /\ StopsLast' /\ Distinct'
         /\ Border(tasks, Len(tasks)) /\ Border(tasks', Len(tasks))
<1>1. /\ PoolTypeOK /\ StopsLast /\ Distinct /\ dpc = "push" /\ dpc' = "notify"
      /\ UNCHANGED <<stopping, wpc, task, spc, given, ran>>
  BY DEF ServiceInv, PoolPush
<1>2. /\ Len(tasks) \in Nat /\ Len(tasks') \in Nat /\ Len(tasks) <= Len(tasks')
      /\ \A k \in 1 .. Len(tasks) : tasks'[k] = tasks[k] /\ tasks[k] # StopTask
      /\ \A k \in 1 .. Len(tasks') : k \in 1 .. Len(tasks) \/ (tasks'[k] = StopTask /\ k > Len(tasks))
  BY <1>1, StopsFacts DEF StopsLast
<1>3. Border(tasks, Len(tasks))
  BY <1>2 DEF Border
<1>4. Border(tasks', Len(tasks)) /\ Len(tasks) \in 0 .. Len(tasks')
  <2>1. ASSUME NEW k \in 1 .. Len(tasks') PROVE tasks'[k] # StopTask <=> k <= Len(tasks)
    <3>1. CASE k \in 1 .. Len(tasks)
      BY <1>2, <3>1
    <3>2. CASE tasks'[k] = StopTask /\ k > Len(tasks)
      BY <1>2, <3>2
    <3>3. QED
      BY <1>2, <3>1, <3>2
  <2>2. QED
    BY <1>2, <2>1 DEF Border
<1>5. ClientsDone'
  BY <1>1 DEF StopsLast, ClientsDone
<1>6. StopsLast'
  BY <1>1, <1>4, <1>5 DEF StopsLast
<1>7. ASSUME NEW k \in 1 .. Len(tasks'), tasks'[k] # StopTask
      PROVE  k \in 1 .. Len(tasks) /\ tasks'[k] = tasks[k]
  BY <1>2, <1>7
<1>8. Distinct'
  <2>1. \A k \in 1 .. Len(tasks') :
          tasks'[k] # StopTask => tasks'[k] \notin ran /\ Submitted(tasks'[k], given)
    BY <1>1, <1>7 DEF Distinct
  <2>2. \A j, k \in 1 .. Len(tasks') : tasks'[j] = tasks'[k] /\ tasks'[k] # StopTask => j = k
    BY <1>1, <1>7 DEF Distinct
  <2>3. \A w \in PoolWorkers : wpc[w] = "run" /\ task[w] # StopTask =>
          \A k \in 1 .. Len(tasks') : tasks'[k] # task[w]
    BY <1>1, <1>7 DEF Distinct
  <2>4. QED
    BY <1>1, <2>1, <2>2, <2>3 DEF Distinct
<1>9. QED
  BY <1>3, <1>4, <1>6, <1>8

(* Every step keeps the tasks in their places.                             *)
LEMMA ServiceStep == ServiceInv /\ [PoolNext]_poolVars => ServiceInv'
<1> SUFFICES ASSUME ServiceInv, [PoolNext]_poolVars PROVE ServiceInv'
  OBVIOUS
<1>0. PoolTypeOK /\ StopsLast /\ Distinct
  BY DEF ServiceInv
<1>t. PoolTypeOK'
  BY <1>0, PoolStepType
<1>w. wpc \in [PoolWorkers -> {"loop", "get", "asleep", "run", "exited"}]
  BY <1>0 DEF PoolTypeOK
<1>1. ASSUME NEW w \in PoolWorkers, TestStop(w) \/ Wait(w) \/ WakeForNothing(w)
      PROVE  StopsLast' /\ Distinct'
  <2>1. /\ UNCHANGED <<tasks, spc, given, dpc, task, ran>>
        /\ \A v \in PoolWorkers :
             /\ wpc[v] = "exited" => wpc'[v] = "exited"
             /\ wpc'[v] = "run" => wpc[v] = "run"
    BY <1>1, <1>w DEF TestStop, Wait, WakeForNothing
  <2>2. QED
    BY <1>0, <2>1, StopsKept, TasksStay
<1>2. ASSUME NEW w \in PoolWorkers, GetTask(w) PROVE StopsLast' /\ Distinct'
  <2>1. PICK n \in 0 .. Len(tasks) : Border(tasks, n)
    BY <1>0 DEF StopsLast
  <2>2. StopsLast'
    BY <1>2, <2>1, TakeStops
  <2>3. Distinct'
    BY <1>2, TakeDistinct
  <2>4. QED
    BY <2>2, <2>3
<1>3. ASSUME NEW w \in PoolWorkers, RunTask(w) PROVE StopsLast' /\ Distinct'
  <2>1. /\ UNCHANGED <<tasks, spc, given, dpc>>
        /\ \A v \in PoolWorkers : wpc[v] = "exited" => wpc'[v] = "exited"
    BY <1>3, <1>w DEF RunTask
  <2>2. QED
    BY <1>0, <1>3, <2>1, StopsKept, FinishDistinct
<1>4. ASSUME NEW c \in Clients, SubmitPush(c) PROVE StopsLast' /\ Distinct'
  BY <1>4, SubmitStops, SubmitDistinct
<1>5. ASSUME NEW c \in Clients, NotifyWorker(c) PROVE StopsLast' /\ Distinct'
  <2>1. dpc = "alive" /\ UNCHANGED <<tasks, given, dpc, task, ran>>
    BY <1>0, <1>5, ClientsFirst DEF NotifyWorker
  <2>2. \A v \in PoolWorkers : wpc'[v] = "run" => wpc[v] = "run"
    BY <1>0, <1>5, <1>w, NotifyOneFacts DEF NotifyWorker
  <2>3. StopsLast'
    BY <1>0, <2>1 DEF StopsLast, Border
  <2>4. QED
    BY <1>0, <2>1, <2>2, <2>3, TasksStay
<1>6. CASE PoolStop
  <2>1. /\ dpc = "alive" /\ dpc' = "push" /\ ClientsDone
        /\ UNCHANGED <<tasks, wpc, task, spc, given, ran>>
    BY <1>6 DEF PoolStop
  <2>2. StopsLast'
    BY <1>0, <2>1 DEF StopsLast, Border, ClientsDone
  <2>3. QED
    BY <1>0, <1>t, <2>1, <2>2, TasksStay DEF ServiceInv
<1>7. CASE PoolPush
  BY <1>t, <1>7, PushStops DEF ServiceInv
<1>8. CASE PoolNotifyAll
  <2>1. dpc = "notify" /\ dpc' = "join" /\ UNCHANGED <<tasks, task, spc, given, ran>>
    BY <1>8 DEF PoolNotifyAll
  <2>2. \A v \in PoolWorkers : wpc'[v] = "run" => wpc[v] = "run"
    BY <1>8 DEF PoolNotifyAll, NotifyAll
  <2>3. StopsLast'
    BY <1>0, <2>1 DEF StopsLast, Border, ClientsDone
  <2>4. QED
    BY <1>0, <1>t, <2>1, <2>2, <2>3, TasksStay DEF ServiceInv
<1>9. CASE PoolJoin
  <2>1. /\ dpc = "join" /\ dpc' = "destroyed" /\ \A w \in PoolWorkers : wpc[w] = "exited"
        /\ UNCHANGED <<tasks, wpc, task, spc, given, ran>>
    BY <1>9 DEF PoolJoin
  <2>2. StopsLast'
    BY <1>0, <2>1 DEF StopsLast, Border, ClientsDone
  <2>3. QED
    BY <1>0, <1>t, <2>1, <2>2, TasksStay DEF ServiceInv
<1>10. CASE UNCHANGED poolVars
  BY <1>0, <1>t, <1>10, StopsKept, TasksStay DEF poolVars, ServiceInv
<1>11. QED
  BY <1>t, <1>1, <1>2, <1>3, <1>4, <1>5, <1>6, <1>7, <1>8, <1>9, <1>10
     DEF ServiceInv, PoolNext, Worker, Client, Owner, PoolDestroyed
-----------------------------------------------------------------------------
(* What the pool is to its clients.                                        *)

(* The tasks that the workers run.                                         *)
Running == {task[w] : w \in {v \in PoolWorkers : wpc[v] = "run"}} \ {StopTask}

(* There is one border between the tasks and the empty tasks.              *)
LEMMA OneBorder ==
  ASSUME NEW s \in Seq(Queued), NEW n \in 0 .. Len(s), Border(s, n)
  PROVE  (CHOOSE m \in 0 .. Len(s) :
            (\A k \in 1 .. m : s[k] # StopTask) /\ (m = Len(s) \/ s[m + 1] = StopTask)) = n
<1>0. Len(s) \in Nat
  BY LenProperties
<1> DEFINE At(m) == (\A k \in 1 .. m : s[k] # StopTask) /\ (m = Len(s) \/ s[m + 1] = StopTask)
<1>1. At(n)
  <2>1. \A k \in 1 .. n : s[k] # StopTask
    BY <1>0 DEF Border
  <2>2. n = Len(s) \/ s[n + 1] = StopTask
    <3>1. ASSUME n # Len(s) PROVE n + 1 \in 1 .. Len(s) /\ ~(n + 1 <= n)
      BY <1>0, <3>1
    <3>2. QED
      BY <3>1 DEF Border
  <2>3. QED
    BY <2>1, <2>2
<1>2. ASSUME NEW m \in 0 .. Len(s), At(m) PROVE m = n
  <2>1. CASE m < n
    <3>1. m + 1 \in 1 .. Len(s) /\ m + 1 <= n /\ m # Len(s)
      BY <1>0, <2>1
    <3>2. QED
      BY <1>2, <3>1 DEF Border
  <2>2. CASE n < m
    <3>1. n + 1 \in 1 .. Len(s) /\ n + 1 \in 1 .. m /\ ~(n + 1 <= n)
      BY <1>0, <2>2
    <3>2. QED
      BY <1>2, <3>1 DEF Border
  <2>3. QED
    BY <1>0, <2>1, <2>2
<1> HIDE DEF At
<1>3. (CHOOSE m \in 0 .. Len(s) : At(m)) = n
  BY <1>1, <1>2
<1>4. QED
  BY <1>3 DEF At

(* The tasks in waiting are those before it.                               *)
LEMMA BeforeBorder ==
  ASSUME NEW s \in Seq(Queued), NEW n \in 0 .. Len(s), Border(s, n),
         NEW u, u = [k \in 1 .. n |-> s[k]]
  PROVE  /\ u \in Seq(PoolTasks) /\ Len(u) = n /\ n \in Nat /\ Len(s) \in Nat
         /\ \A k \in 1 .. n : k \in 1 .. Len(s) /\ u[k] = s[k]
<1>1. Len(s) \in Nat
  BY LenProperties
<1>2. \A k \in 1 .. n : k \in 1 .. Len(s)
  BY <1>1
<1>3. \A k \in 1 .. n : s[k] \in PoolTasks
  BY <1>1, <1>2 DEF Border, Queued
<1>4. u \in [1 .. n -> PoolTasks] /\ n \in Nat
  BY <1>1, <1>3
<1>5. QED
  BY <1>1, <1>2, <1>4

LEMMA WaitingFacts ==
  ASSUME PoolTypeOK, NEW n \in 0 .. Len(tasks), Border(tasks, n)
  PROVE  /\ Unstarted \in Seq(PoolTasks) /\ Len(Unstarted) = n /\ n \in Nat
         /\ \A k \in 1 .. n : k \in 1 .. Len(tasks) /\ Unstarted[k] = tasks[k]
<1>1. tasks \in Seq(Queued)
  BY DEF PoolTypeOK, Queued
<1>2. RealTasks = n
  BY <1>1, OneBorder DEF RealTasks
<1>3. Unstarted = [k \in 1 .. n |-> tasks[k]]
  BY <1>2 DEF Unstarted
<1>4. QED
  BY <1>1, <1>3, BeforeBorder

LEMMA WaitingNext ==
  ASSUME PoolTypeOK', NEW n \in 0 .. Len(tasks'), Border(tasks', n)
  PROVE  /\ Unstarted' \in Seq(PoolTasks) /\ Len(Unstarted') = n /\ n \in Nat
         /\ \A k \in 1 .. n : k \in 1 .. Len(tasks') /\ Unstarted'[k] = tasks'[k]
<1>1. tasks' \in Seq(Queued)
  BY DEF PoolTypeOK, Queued
<1>2. RealTasks' = n
  BY <1>1, OneBorder DEF RealTasks
<1>3. Unstarted' = [k \in 1 .. n |-> tasks'[k]]
  BY <1>2 DEF Unstarted
<1>4. QED
  BY <1>1, <1>3, BeforeBorder

(* A step that moves no task and starts and stops no worker running.       *)
LEMMA NothingSeen ==
  ASSUME Unstarted' = Unstarted, Running' = Running, ran' = ran,
         dpc' = "destroyed" <=> dpc = "destroyed"
  PROVE  UNCHANGED Service!serviceVars
BY DEF Service!serviceVars, Running

LEMMA RunningSame ==
  ASSUME UNCHANGED task, \A w \in PoolWorkers : wpc'[w] = "run" <=> wpc[w] = "run"
  PROVE  Running' = Running
BY DEF Running

(* A client hands over a task.                                             *)
LEMMA SubmitAccepts ==
  ASSUME ServiceInv, PoolTypeOK', NEW c \in Clients, SubmitPush(c)
  PROVE  \E t \in PoolTasks : Service!Accept(t)
<1> DEFINE t == <<c, given[c] + 1>>
<1>1. /\ PoolTypeOK /\ StopsLast /\ Distinct /\ given[c] \in 0 .. PerClient /\ PerClient \in Nat
      /\ given[c] < PerClient /\ dpc = "alive" /\ StopsLast'
  BY PoolAssumption, SubmitStops DEF ServiceInv, PoolTypeOK, SubmitPush
<1>2. /\ tasks' = Append(tasks, t) /\ UNCHANGED <<dpc, ran, task, wpc>>
      /\ t \in PoolTasks /\ t \in Queued
  BY <1>1, NextTask, PoolAssumption DEF SubmitPush, Queued
<1>3. ASSUME NEW x, Submitted(x, given) PROVE x # t
  BY <1>1, <1>3 DEF Submitted
<1>4. t \notin ran /\ t \notin Running
  BY <1>1, <1>3 DEF Distinct, Running
<1> HIDE DEF t
<1>5. /\ Len(tasks') = Len(tasks) + 1 /\ Len(tasks) \in Nat /\ tasks'[Len(tasks) + 1] = t
      /\ \A k \in 1 .. Len(tasks) : tasks'[k] = tasks[k]
  BY <1>1, <1>2, EndFacts
<1>6. Border(tasks, Len(tasks)) /\ Border(tasks', Len(tasks'))
  <2>1. (\A k \in 1 .. Len(tasks) : tasks[k] # StopTask) /\ \A k \in 1 .. Len(tasks') : tasks'[k] # StopTask
    BY <1>1, <1>2 DEF StopsLast
  <2>2. QED
    BY <1>5, <2>1 DEF Border
<1>7. /\ Unstarted \in Seq(PoolTasks) /\ Len(Unstarted) = Len(tasks)
      /\ \A k \in 1 .. Len(tasks) : Unstarted[k] = tasks[k]
  BY <1>1, <1>5, <1>6, WaitingFacts
<1>8. /\ Unstarted' \in Seq(PoolTasks) /\ Len(Unstarted') = Len(tasks) + 1
      /\ \A k \in 1 .. Len(tasks) + 1 : Unstarted'[k] = tasks'[k]
  <2>1. Len(tasks') \in 0 .. Len(tasks')
    BY <1>5
  <2>2. QED
    BY <1>5, <1>6, <2>1, WaitingNext
<1>9. Unstarted' = Append(Unstarted, t)
  <2>1. /\ Append(Unstarted, t) \in Seq(PoolTasks)
        /\ Len(Append(Unstarted, t)) = Len(tasks) + 1
        /\ \A k \in 1 .. Len(tasks) : Append(Unstarted, t)[k] = Unstarted[k]
        /\ Append(Unstarted, t)[Len(tasks) + 1] = t
    BY <1>2, <1>7, AppendProperties
  <2>2. ASSUME NEW k \in 1 .. Len(tasks) + 1 PROVE Unstarted'[k] = Append(Unstarted, t)[k]
    <3>1. CASE k \in 1 .. Len(tasks)
      BY <1>5, <1>7, <1>8, <2>1, <3>1
    <3>2. CASE k = Len(tasks) + 1
      BY <1>5, <1>8, <2>1, <3>2
    <3>3. Len(tasks) \in Nat
      BY <1>5
    <3>4. k \in 1 .. Len(tasks) \/ k = Len(tasks) + 1
      BY <3>3
    <3>5. QED
      BY <3>1, <3>2, <3>4
  <2>3. QED
    BY <1>8, <2>1, <2>2, SeqEqual
<1>10. Running' = Running
  BY <1>2, RunningSame
<1>11. Service!Accept(t)
  BY <1>1, <1>2, <1>4, <1>9, <1>10 DEF Service!Accept, Running
<1>12. QED
  BY <1>2, <1>11

(* Fewer tasks run than there are workers while one of them does not.      *)
LEMMA RunningFew ==
  ASSUME NEW w \in PoolWorkers, wpc[w] # "run"
  PROVE  Cardinality(Running) < Cardinality(PoolWorkers)
<1> DEFINE R == {v \in PoolWorkers : wpc[v] = "run"}
<1> DEFINE T == {task[v] : v \in R}
<1> DEFINE f == [v \in R |-> task[v]]
<1>1. /\ IsFiniteSet(PoolWorkers \ {w}) /\ IsFiniteSet(PoolWorkers)
      /\ Cardinality(PoolWorkers \ {w}) = Cardinality(PoolWorkers) - 1
      /\ Cardinality(PoolWorkers) \in Nat
  BY PoolAssumption, FS_RemoveElement, FS_CardinalityType
<1>2. R \subseteq PoolWorkers \ {w}
  OBVIOUS
<1> HIDE DEF R
<1>3. IsFiniteSet(R) /\ Cardinality(R) <= Cardinality(PoolWorkers \ {w})
  BY <1>1, <1>2, FS_Subset
<1>4. f \in Surjection(R, T)
  BY DEF Surjection
<1> HIDE DEF T, f
<1>5. IsFiniteSet(T) /\ Cardinality(T) <= Cardinality(R)
  BY <1>3, <1>4, FS_Surjection
<1>6. Running \subseteq T
  BY DEF Running, T, R
<1>7. IsFiniteSet(Running) /\ Cardinality(Running) <= Cardinality(T)
  BY <1>5, <1>6, FS_Subset
<1>8. Cardinality(T) \in Nat /\ Cardinality(R) \in Nat /\ Cardinality(Running) \in Nat
  BY <1>3, <1>5, <1>7, FS_CardinalityType
<1>9. QED
  BY <1>1, <1>3, <1>5, <1>7, <1>8

(* A worker takes a task of a client: it starts.                           *)
LEMMA TakeStarts ==
  ASSUME ServiceInv, PoolTypeOK', NEW w \in PoolWorkers, GetTask(w), tasks[1] # StopTask
  PROVE  Service!Start
<1>1. /\ PoolTypeOK /\ StopsLast /\ Distinct /\ tasks # <<>> /\ wpc[w] = "get"
      /\ tasks' = Tail(tasks) /\ task' = [task EXCEPT ![w] = tasks[1]]
      /\ wpc' = [wpc EXCEPT ![w] = "run"] /\ UNCHANGED <<dpc, ran>>
  BY FrontFacts DEF ServiceInv, GetTask
<1>2. /\ 1 \in 1 .. Len(tasks) /\ Len(tasks') = Len(tasks) - 1
      /\ \A k \in 1 .. Len(tasks') : tasks'[k] = tasks[k + 1]
  BY <1>1, FrontFacts
<1>3. PICK n \in 0 .. Len(tasks) : Border(tasks, n)
  BY <1>1 DEF StopsLast
<1>4. n - 1 \in 0 .. Len(tasks') /\ Border(tasks', n - 1)
  BY <1>3, TakeStops
<1>5. /\ Unstarted \in Seq(PoolTasks) /\ Len(Unstarted) = n /\ n \in Nat
      /\ \A k \in 1 .. n : Unstarted[k] = tasks[k]
  BY <1>1, <1>3, WaitingFacts
<1>6. /\ Unstarted' \in Seq(PoolTasks) /\ Len(Unstarted') = n - 1 /\ n - 1 \in Nat
      /\ \A k \in 1 .. n - 1 : k \in 1 .. Len(tasks') /\ Unstarted'[k] = tasks'[k]
  BY <1>4, WaitingNext
<1>7. Unstarted # <<>> /\ Head(Unstarted) = tasks[1] /\ 1 \in 1 .. n
  <2>1. 1 \in 1 .. n
    BY <1>5, <1>6
  <2>2. Unstarted # <<>>
    BY <1>5, <2>1, EmptySeq
  <2>3. Head(Unstarted) = Unstarted[1]
    BY <1>5, <2>2, HeadTailProperties
  <2>4. QED
    BY <1>5, <2>1, <2>2, <2>3
<1>8. Unstarted' = Tail(Unstarted)
  <2>1. /\ Tail(Unstarted) \in Seq(PoolTasks) /\ Len(Tail(Unstarted)) = n - 1
        /\ \A k \in 1 .. n - 1 : Tail(Unstarted)[k] = Unstarted[k + 1]
    BY <1>5, <1>7, HeadTailProperties
  <2>2. ASSUME NEW k \in 1 .. n - 1 PROVE Unstarted'[k] = Tail(Unstarted)[k]
    <3>1. k + 1 \in 1 .. n
      BY <1>5
    <3>2. QED
      BY <1>2, <1>5, <1>6, <2>1, <3>1
  <2>3. QED
    BY <1>6, <2>1, <2>2, SeqEqual
<1>9. tasks[1] \notin ran /\ tasks[1] \notin Running
  BY <1>1, <1>2 DEF Distinct, Running
<1>10. Running' = Running \cup {tasks[1]}
  <2>1. /\ task'[w] = tasks[1] /\ wpc'[w] = "run"
        /\ \A v \in PoolWorkers \ {w} : task'[v] = task[v] /\ wpc'[v] = wpc[v]
    BY <1>1 DEF PoolTypeOK
  <2>2. QED
    BY <1>1, <2>1 DEF Running
<1>11. Cardinality(Running) < Cardinality(PoolWorkers)
  BY <1>1, RunningFew
<1>12. dpc # "destroyed"
  BY <1>1 DEF StopsLast
<1>13. /\ dpc # "destroyed" /\ Unstarted # <<>>
       /\ Cardinality(Running) < Cardinality(PoolWorkers)
       /\ Head(Unstarted) \notin Running \cup ran
       /\ Running' = Running \cup {Head(Unstarted)}
       /\ Unstarted' = Tail(Unstarted)
       /\ UNCHANGED <<ran, dpc # "destroyed">>
  BY <1>1, <1>7, <1>8, <1>9, <1>10, <1>11, <1>12
<1>14. QED
  BY <1>13 DEF Service!Start, Running, Service!Cardinality, Cardinality, Service!IsFiniteSet, IsFiniteSet

(* A worker takes an empty task: nobody sees it.                           *)
LEMMA TakeStopHidden ==
  ASSUME ServiceInv, PoolTypeOK', NEW w \in PoolWorkers, GetTask(w), tasks[1] = StopTask
  PROVE  UNCHANGED Service!serviceVars
<1>1. /\ PoolTypeOK /\ StopsLast /\ tasks # <<>> /\ wpc[w] = "get"
      /\ task' = [task EXCEPT ![w] = StopTask]
      /\ wpc' = [wpc EXCEPT ![w] = "run"] /\ UNCHANGED <<dpc, ran>>
  BY FrontFacts DEF ServiceInv, GetTask
<1>2. PICK n \in 0 .. Len(tasks) : Border(tasks, n)
  BY <1>1 DEF StopsLast
<1>3. Border(tasks, 0) /\ Border(tasks', 0) /\ n = 0
  BY <1>2, TakeStops
<1>4. 0 \in 0 .. Len(tasks) /\ 0 \in 0 .. Len(tasks')
  <2>1. Len(tasks) \in Nat /\ Len(tasks') \in Nat
    BY <1>1, LenProperties DEF PoolTypeOK
  <2>2. QED
    BY <2>1
<1>5. Unstarted \in Seq(PoolTasks) /\ Len(Unstarted) = 0
  BY <1>1, <1>3, <1>4, WaitingFacts
<1>6. Unstarted' \in Seq(PoolTasks) /\ Len(Unstarted') = 0
  BY <1>3, <1>4, WaitingNext
<1>7. Unstarted' = Unstarted
  BY <1>5, <1>6, EmptySeq
<1>8. Running' = Running
  <2>1. /\ task'[w] = StopTask /\ wpc'[w] = "run"
        /\ \A v \in PoolWorkers \ {w} : task'[v] = task[v] /\ wpc'[v] = wpc[v]
    BY <1>1 DEF PoolTypeOK
  <2>2. QED
    BY <1>1, <2>1 DEF Running
<1>9. QED
  BY <1>1, <1>7, <1>8, NothingSeen

(* A worker finishes the task of a client.                                 *)
LEMMA RunFinishes ==
  ASSUME ServiceInv, NEW w \in PoolWorkers, RunTask(w)
  PROVE  (\E t \in PoolTasks : Service!Finish(t)) \/ UNCHANGED Service!serviceVars
<1>1. /\ PoolTypeOK /\ Distinct /\ wpc[w] = "run" /\ wpc' = [wpc EXCEPT ![w] = "loop"]
      /\ ran' = IF task[w] = StopTask THEN ran ELSE ran \cup {task[w]}
      /\ UNCHANGED <<tasks, dpc, task>>
  BY DEF ServiceInv, RunTask
<1>2. wpc'[w] = "loop" /\ \A v \in PoolWorkers \ {w} : wpc'[v] = wpc[v]
  BY <1>1 DEF PoolTypeOK
<1>3. Unstarted' = Unstarted
  BY <1>1 DEF Unstarted, RealTasks
<1>4. CASE task[w] = StopTask
  <2>1. Running' = Running
    BY <1>1, <1>2, <1>4 DEF Running
  <2>2. QED
    BY <1>1, <1>3, <1>4, <2>1, NothingSeen
<1>5. CASE task[w] # StopTask
  <2>t. PICK t \in PoolTasks : t = task[w]
    BY <1>1, <1>5 DEF PoolTypeOK
  <2>1. ran' = ran \cup {t} /\ t \in Running
    BY <1>1, <1>5, <2>t DEF Running
  <2>2. Running' = Running \ {t}
    <3>1. ASSUME NEW v \in PoolWorkers, v # w, wpc[v] = "run" PROVE task[v] # t
      BY <1>1, <1>5, <2>t, <3>1 DEF Distinct
    <3>2. QED
      BY <1>1, <1>2, <2>t, <3>1 DEF Running
  <2>3. Service!Finish(t)
    BY <1>1, <1>3, <2>1, <2>2 DEF Service!Finish, Running
  <2>4. QED
    BY <2>3
<1>6. QED
  BY <1>4, <1>5

(* The empty tasks of the destructor are not seen.                         *)
LEMMA PushHidden ==
  ASSUME ServiceInv, PoolTypeOK', PoolPush
  PROVE  UNCHANGED Service!serviceVars
<1>1. /\ PoolTypeOK /\ dpc = "push" /\ dpc' = "notify" /\ UNCHANGED <<wpc, task, ran>>
  BY DEF ServiceInv, PoolPush
<1>2. /\ Len(tasks) \in Nat /\ Len(tasks') \in Nat /\ Len(tasks) <= Len(tasks')
      /\ \A k \in 1 .. Len(tasks) : tasks'[k] = tasks[k]
  BY <1>1, StopsFacts
<1>3. /\ Len(tasks) \in 0 .. Len(tasks) /\ Len(tasks) \in 0 .. Len(tasks')
      /\ Border(tasks, Len(tasks)) /\ Border(tasks', Len(tasks))
  BY <1>2, PushStops
<1> DEFINE n == Len(tasks)
<1>4. /\ Unstarted \in Seq(PoolTasks) /\ Len(Unstarted) = n
      /\ \A k \in 1 .. n : Unstarted[k] = tasks[k]
  BY <1>1, <1>3, WaitingFacts
<1>5. /\ Unstarted' \in Seq(PoolTasks) /\ Len(Unstarted') = n
      /\ \A k \in 1 .. n : Unstarted'[k] = tasks'[k]
  BY <1>3, WaitingNext
<1>6. Unstarted' = Unstarted
  <2>1. \A k \in 1 .. n : Unstarted'[k] = Unstarted[k]
    BY <1>2, <1>4, <1>5
  <2> HIDE DEF n
  <2>2. QED
    BY <1>4, <1>5, <2>1, SeqEqual
<1>7. QED
  BY <1>1, <1>6, RunningSame, NothingSeen

(* Every step of the pool is a step of the service or none.                *)
LEMMA ServiceSteps ==
  ServiceInv /\ ServiceInv' /\ [PoolNext]_poolVars => [Service!ServiceNext]_(Service!serviceVars)
<1> SUFFICES ASSUME ServiceInv, ServiceInv', [PoolNext]_poolVars
             PROVE  Service!ServiceNext \/ UNCHANGED Service!serviceVars
  OBVIOUS
<1>0. PoolTypeOK /\ PoolTypeOK' /\ StopsLast
  BY DEF ServiceInv
<1>w. wpc \in [PoolWorkers -> {"loop", "get", "asleep", "run", "exited"}]
  BY <1>0 DEF PoolTypeOK
<1>s. ASSUME UNCHANGED <<tasks, task, ran>>, dpc' = "destroyed" <=> dpc = "destroyed",
             \A w \in PoolWorkers : wpc'[w] = "run" <=> wpc[w] = "run"
      PROVE  UNCHANGED Service!serviceVars
  <2>1. Unstarted' = Unstarted
    BY <1>s DEF Unstarted, RealTasks
  <2>2. QED
    BY <1>s, <2>1, RunningSame, NothingSeen
<1>1. ASSUME NEW w \in PoolWorkers, TestStop(w) \/ Wait(w) \/ WakeForNothing(w)
      PROVE  UNCHANGED Service!serviceVars
  <2>1. /\ UNCHANGED <<tasks, task, ran, dpc>>
        /\ \A v \in PoolWorkers : wpc'[v] = "run" <=> wpc[v] = "run"
    BY <1>1, <1>w DEF TestStop, Wait, WakeForNothing
  <2>2. QED
    BY <1>s, <2>1
<1>2. ASSUME NEW w \in PoolWorkers, GetTask(w)
      PROVE  Service!Start \/ UNCHANGED Service!serviceVars
  BY <1>0, <1>2, TakeStarts, TakeStopHidden
<1>3. ASSUME NEW w \in PoolWorkers, RunTask(w)
      PROVE  (\E t \in PoolTasks : Service!Finish(t)) \/ UNCHANGED Service!serviceVars
  BY <1>3, RunFinishes
<1>4. ASSUME NEW c \in Clients, SubmitPush(c) PROVE \E t \in PoolTasks : Service!Accept(t)
  BY <1>0, <1>4, SubmitAccepts
<1>5. ASSUME NEW c \in Clients, NotifyWorker(c) PROVE UNCHANGED Service!serviceVars
  <2>1. UNCHANGED <<tasks, task, ran, dpc>>
    BY <1>5 DEF NotifyWorker
  <2>2. \A v \in PoolWorkers : wpc'[v] = "run" <=> wpc[v] = "run"
    BY <1>0, <1>5, <1>w, NotifyOneFacts DEF NotifyWorker, Asleep
  <2>3. QED
    BY <1>s, <2>1, <2>2
<1>6. CASE PoolStop
  BY <1>s, <1>6 DEF PoolStop
<1>7. CASE PoolPush
  BY <1>0, <1>7, PushHidden
<1>8. CASE PoolNotifyAll
  <2>1. dpc = "notify" /\ dpc' = "join" /\ UNCHANGED <<tasks, task, ran>>
    BY <1>8 DEF PoolNotifyAll
  <2>2. \A v \in PoolWorkers : wpc'[v] = "run" <=> wpc[v] = "run"
    BY <1>8 DEF PoolNotifyAll, NotifyAll, Asleep
  <2>3. QED
    BY <1>s, <2>1, <2>2
<1>9. CASE PoolJoin
  <2>1. /\ dpc = "join" /\ dpc' = "destroyed" /\ \A w \in PoolWorkers : wpc[w] = "exited"
        /\ UNCHANGED <<tasks, wpc, task, ran>>
    BY <1>9 DEF PoolJoin
  <2>2. Running = {} /\ Running' = Running /\ Unstarted' = Unstarted
    BY <2>1 DEF Running, Unstarted, RealTasks
  <2>3. Service!Close
    BY <2>1, <2>2 DEF Service!Close, Running
  <2>4. QED
    BY <2>3 DEF Service!ServiceNext
<1>10. CASE UNCHANGED poolVars
  BY <1>s, <1>10 DEF poolVars
<1>11. QED
  BY <1>1, <1>2, <1>3, <1>4, <1>5, <1>6, <1>7, <1>8, <1>9, <1>10
     DEF PoolNext, Worker, Client, Owner, PoolDestroyed, Service!ServiceNext

(* The pool starts as the service does.                                    *)
LEMMA ServiceStarts == PoolInit => ServiceInv /\ Service!ServiceInit
<1> SUFFICES ASSUME PoolInit PROVE ServiceInv /\ Service!ServiceInit
  OBVIOUS
<1>1. PoolTypeOK /\ tasks = <<>> /\ Len(tasks) = 0
  BY PoolInitType, EmptySeq DEF PoolInit
<1>2. (\A j : j \notin 1 .. 0) /\ 0 \in 0 .. 0
  OBVIOUS
<1>3. Border(tasks, 0)
  BY <1>1, <1>2 DEF Border
<1>4. StopsLast /\ Distinct
  BY <1>1, <1>2, <1>3 DEF PoolInit, StopsLast, Distinct
<1>5. Unstarted = <<>>
  BY <1>1, <1>2, <1>3, WaitingFacts, EmptySeq
<1>6. Running = {}
  BY DEF PoolInit, Running
<1>7. QED
  BY <1>1, <1>4, <1>5, <1>6 DEF ServiceInv, PoolInit, Service!ServiceInit, Running

(* The pool is a task service for every number of workers, clients and     *)
(* tasks: tasks start in the order of their submission, each runs once, no *)
(* more at a time than there are workers, and none once the destructor has *)
(* returned (thread_pool.h:6-23, :29-44, :73-81).                          *)
THEOREM PoolIsTaskService == PoolSafety => ImplementsService
<1>1. PoolInit => ServiceInv
  BY ServiceStarts
<1>2. PoolInit => Service!ServiceInit
  BY ServiceStarts
<1>3. QED
  BY <1>1, <1>2, ServiceStep, ServiceSteps, PTL
     DEF PoolSafety, ImplementsService, Service!ServiceSpec
-----------------------------------------------------------------------------
(* Dividing a position below N * L by L gives a chain below N and a place  *)
(* below L.                                                                *)
LEMMA DivisionBounds ==
  ASSUME NEW L \in Nat \ {0}, NEW N \in Nat \ {0}, NEW m \in Nat, m < N * L
  PROVE  m \div L \in 0 .. N - 1 /\ m % L \in 0 .. L - 1
<1>1. m \div L \in Int /\ m % L \in 0 .. L - 1
  OBVIOUS
<1>2. m = L * (m \div L) + (m % L)
  OBVIOUS
<1> DEFINE q == m \div L
           r == m % L
<1>3. q \in Int /\ r \in 0 .. L - 1 /\ m = L * q + r
  BY <1>1, <1>2
<1> HIDE DEF q, r
<1>4. q >= 0
  <2>1. SUFFICES ASSUME q <= -1 PROVE FALSE
    BY <1>3
  <2>2. L * (q + 1) <= 0
    BY <1>3, <2>1
  <2>3. QED
    BY <1>3, <2>2
<1>5. q < N
  <2>1. SUFFICES ASSUME q >= N PROVE FALSE
    BY <1>3
  <2>2. L * (q - N) >= 0
    BY <1>3, <2>1
  <2>3. QED
    BY <1>3, <2>2
<1>6. QED
  BY <1>3, <1>4, <1>5 DEF q, r

(* main hands over tasks that exist, each after its predecessor.           *)
LEMMA NthIsTask ==
  ASSUME NEW n \in 1 .. NumTasks
  PROVE  Nth(n) \in Tasks
<1>1. NumChains \in Nat \ {0} /\ Length \in Nat \ {0}
  BY ChainAssumption
<1>2. NumTasks \in Nat
  BY <1>1 DEF NumTasks
<1>3. n - 1 \in Nat /\ n - 1 < NumChains * Length
  BY <1>1, <1>2 DEF NumTasks
<1>4. /\ (n - 1) \div Length \in 0 .. NumChains - 1
      /\ (n - 1) % Length \in 0 .. Length - 1
  BY <1>1, <1>3, DivisionBounds
<1>5. /\ ((n - 1) \div Length) + 1 \in 1 .. NumChains
      /\ ((n - 1) % Length) + 1 \in 1 .. Length
  BY <1>1, <1>4
<1>6. QED
  BY <1>5, ChainAssumption DEF Nth

(* The predecessor of a task that is not the first of its chain.           *)
LEMMA BeforeIsTask ==
  ASSUME NEW t \in Tasks, t[2] > 1
  PROVE  Before(t) \in Tasks
<1>1. Tasks = (1 .. NumChains) \X (1 .. Length) /\ Length \in Nat
  BY ChainAssumption
<1>2. t[1] \in 1 .. NumChains /\ t[2] \in 1 .. Length
  BY <1>1
<1>3. t[2] - 1 \in 1 .. Length
  BY <1>1, <1>2
<1>4. QED
  BY <1>1, <1>2, <1>3 DEF Before
-----------------------------------------------------------------------------
(* The chain starts with the types of its variables.                       *)
LEMMA ChainInitType == ChainInit => ChainTypeOK
<1> SUFFICES ASSUME ChainInit PROVE ChainTypeOK
  OBVIOUS
<1>1. waiting \in Seq(Tasks)
  BY EmptySeq DEF ChainInit, ServiceInit
<1>2. 0 \in 0 .. NumTasks
  BY ChainAssumption DEF NumTasks
<1>3. QED
  BY <1>1, <1>2 DEF ChainInit, ServiceInit, ChainTypeOK

(* The n-th task exists whenever main hands one over.                      *)
LEMMA NextHandedOver ==
  ASSUME ChainTypeOK, built < NumTasks
  PROVE  Nth(built + 1) \in Tasks /\ built + 1 \in 0 .. NumTasks
<1>1. NumTasks \in Nat /\ built \in 0 .. NumTasks
  BY ChainAssumption DEF ChainTypeOK, NumTasks
<1>2. built + 1 \in 1 .. NumTasks /\ built + 1 \in 0 .. NumTasks
  BY <1>1
<1>3. QED
  BY <1>2, NthIsTask

(* Submitting a task and leaving a continuation keep the types.            *)
LEMMA AcceptType ==
  ASSUME ChainTypeOK, NEW t \in Tasks, Accept(t)
  PROVE  /\ waiting' \in Seq(Tasks) /\ running' \subseteq Tasks
         /\ finished' \subseteq Tasks /\ open' \in BOOLEAN
<1>1. waiting \in Seq(Tasks)
  BY DEF ChainTypeOK
<1>2. Append(waiting, t) \in Seq(Tasks)
  BY <1>1, AppendProperties
<1>3. QED
  BY <1>2 DEF ChainTypeOK, Accept

LEMMA ContinuationType ==
  ASSUME ChainTypeOK, NEW b \in Tasks, NEW t \in Tasks
  PROVE  [continuation EXCEPT ![b] = t] \in [Tasks -> Tasks \cup {None}]
BY DEF ChainTypeOK

LEMMA CompleteType ==
  ASSUME ChainTypeOK, NEW t \in Tasks
  PROVE  [complete EXCEPT ![t] = TRUE] \in [Tasks -> BOOLEAN]
BY DEF ChainTypeOK

(* Every step of main and of a worker keeps the types.                     *)
LEMMA ChainStepType == ChainTypeOK /\ [ChainNextState]_chainVars => ChainTypeOK'
<1> SUFFICES ASSUME ChainTypeOK, [ChainNextState]_chainVars
             PROVE  ChainTypeOK'
  OBVIOUS
<1>1. CASE SubmitAndContinue
  <2> DEFINE t == Nth(built + 1)
  <2>1. t \in Tasks /\ built + 1 \in 0 .. NumTasks /\ Accept(t)
    BY <1>1, NextHandedOver DEF SubmitAndContinue
  <2>2. built' = built + 1 /\ UNCHANGED <<ended, complete, continuation>>
    BY <1>1 DEF SubmitAndContinue
  <2> HIDE DEF t
  <2>3. QED
    BY <2>1, <2>2, AcceptType DEF ChainTypeOK
<1>2. CASE Then
  <2> DEFINE t == Nth(built + 1)
  <2>1. t \in Tasks /\ built + 1 \in 0 .. NumTasks /\ t[2] > 1 /\ ChainNext(t)
    BY <1>2, NextHandedOver DEF Then
  <2>2. built' = built + 1 /\ UNCHANGED <<ended, complete>>
    BY <1>2 DEF Then
  <2>3. Before(t) \in Tasks
    BY <2>1, BeforeIsTask
  <2> HIDE DEF t
  <2>4. CASE Accept(t) /\ UNCHANGED continuation
    BY <2>1, <2>2, <2>4, AcceptType DEF ChainTypeOK
  <2>5. CASE /\ continuation' = [continuation EXCEPT ![Before(t)] = t]
             /\ UNCHANGED serviceVars
    <3>1. continuation' \in [Tasks -> Tasks \cup {None}]
      BY <2>1, <2>3, <2>5, ContinuationType
    <3>2. QED
      BY <2>1, <2>2, <2>5, <3>1 DEF ChainTypeOK, serviceVars
  <2>6. QED
    BY <2>1, <2>4, <2>5 DEF ChainNext
<1>3. CASE RunStart
  <2>1. /\ waiting \in Seq(Tasks) /\ waiting # <<>>
        /\ running' = running \cup {Head(waiting)} /\ waiting' = Tail(waiting)
        /\ UNCHANGED <<finished, open, built, ended, complete, continuation>>
    BY <1>3 DEF RunStart, Start, ChainTypeOK
  <2>2. Head(waiting) \in Tasks /\ Tail(waiting) \in Seq(Tasks)
    BY <2>1, HeadTailProperties
  <2>3. QED
    BY <2>1, <2>2 DEF ChainTypeOK
<1>4. ASSUME NEW t \in Tasks, CurrentTaskEnds(t) PROVE ChainTypeOK'
  BY <1>4 DEF CurrentTaskEnds, ChainTypeOK, serviceVars
<1>5. ASSUME NEW t \in Tasks, RunCompletes(t) PROVE ChainTypeOK'
  <2>1. complete' \in [Tasks -> BOOLEAN] /\ UNCHANGED <<built, ended, continuation>>
    BY <1>5, CompleteType DEF RunCompletes
  <2>2. CASE continuation[t] = None
    BY <1>5, <2>1, <2>2 DEF RunCompletes, ChainTypeOK, serviceVars
  <2>3. CASE continuation[t] # None
    <3>1. continuation[t] \in Tasks /\ Accept(continuation[t])
      BY <1>5, <2>3 DEF RunCompletes, ChainTypeOK
    <3>2. QED
      BY <2>1, <3>1, AcceptType DEF ChainTypeOK
  <2>4. QED
    BY <2>2, <2>3
<1>6. ASSUME NEW t \in Tasks, RunReturns(t) PROVE ChainTypeOK'
  BY <1>6 DEF RunReturns, Finish, ChainTypeOK
<1>7. CASE MainReturns
  BY <1>7 DEF MainReturns, Close, ChainTypeOK
<1>8. CASE UNCHANGED chainVars
  BY <1>8 DEF chainVars, serviceVars, ChainTypeOK
<1>9. QED
  BY <1>1, <1>2, <1>3, <1>4, <1>5, <1>6, <1>7, <1>8
     DEF ChainNextState, Main, Run, Returned

(* The pool is only ever given tasks that exist (TaskWaiting.cpp:115-130). *)
THEOREM ChainTypeCorrect == ChainSpec => []ChainTypeOK
BY ChainInitType, ChainStepType, PTL DEF ChainSpec
-----------------------------------------------------------------------------
(* What run() has published is true: a completed task has ended.           *)
CompleteInv == \A t \in Tasks : complete[t] => t \in ended

(* A continuation is left with the task it has to wait for.                *)
LeftInv ==
  \A t \in Tasks :
    continuation[t] # None => continuation[t][2] > 1 /\ Before(continuation[t]) = t

(* What the pool has got may run.                                          *)
QueuedInv ==
  \A t \in Tasks :
    t[2] > 1 /\ t \in Waiting \cup running \cup finished => Before(t) \in ended

ChainInv == CompleteInv /\ LeftInv /\ QueuedInv

(* Submitting t to the pool adds it to the waiting tasks.                  *)
LEMMA AcceptFacts ==
  ASSUME ChainTypeOK, NEW t \in Tasks, Accept(t)
  PROVE  /\ Waiting' = Waiting \cup {t}
         /\ UNCHANGED <<running, finished, open>>
<1>1. waiting \in Seq(Tasks) /\ waiting' = Append(waiting, t)
  BY DEF ChainTypeOK, Accept
<1>2. /\ Len(waiting) \in Nat
      /\ DOMAIN waiting = 1 .. Len(waiting)
      /\ DOMAIN waiting' = 1 .. Len(waiting) + 1
      /\ \A i \in 1 .. Len(waiting) : waiting'[i] = waiting[i]
      /\ waiting'[Len(waiting) + 1] = t
  BY <1>1
<1>3. QED
  BY <1>2 DEF Accept, Waiting

(* Starting a task takes the head off the waiting tasks.                   *)
LEMMA StartFacts ==
  ASSUME ChainTypeOK, Start
  PROVE  /\ Waiting' \cup running' \subseteq Waiting \cup running
         /\ UNCHANGED <<finished, open>>
<1>1. waiting \in Seq(Tasks) /\ waiting # <<>>
  BY DEF ChainTypeOK, Start
<1>2. Len(waiting) \in Nat \ {0} /\ DOMAIN waiting = 1 .. Len(waiting)
  BY <1>1, EmptySeq, LenProperties
<1>3. Head(waiting) = waiting[1] /\ waiting' = Tail(waiting)
  BY <1>1 DEF Start
<1>4. /\ DOMAIN waiting' = 1 .. Len(waiting) - 1
      /\ \A i \in 1 .. Len(waiting) - 1 : waiting'[i] = waiting[i + 1]
  BY <1>1, <1>3, HeadTailProperties, LenProperties
<1>5. Head(waiting) \in Waiting /\ Waiting' \subseteq Waiting
  BY <1>2, <1>3, <1>4 DEF Waiting
<1>6. QED
  BY <1>5 DEF Start

(* Every step keeps the three: the mutex of a task makes "complete" and    *)
(* the continuation agree.                                                 *)
LEMMA ChainStep == ChainTypeOK /\ ChainInv /\ [ChainNextState]_chainVars => ChainInv'
<1> SUFFICES ASSUME ChainTypeOK, ChainInv, [ChainNextState]_chainVars
             PROVE  ChainInv'
  OBVIOUS
<1>1. CASE SubmitAndContinue
  <2> DEFINE s == Nth(built + 1)
  <2>1. s \in Tasks /\ s[2] = 1 /\ Accept(s)
    BY <1>1, NextHandedOver DEF SubmitAndContinue
  <2>2. UNCHANGED <<ended, complete, continuation>>
    BY <1>1 DEF SubmitAndContinue
  <2> HIDE DEF s
  <2>3. Waiting' = Waiting \cup {s} /\ UNCHANGED <<running, finished>>
    BY <2>1, AcceptFacts
  <2>4. QED
    BY <2>1, <2>2, <2>3 DEF ChainInv, CompleteInv, LeftInv, QueuedInv
<1>2. CASE Then
  <2> DEFINE s == Nth(built + 1)
  <2>1. s \in Tasks /\ s[2] > 1 /\ ChainNext(s)
    BY <1>2, NextHandedOver DEF Then
  <2>2. UNCHANGED <<ended, complete>>
    BY <1>2 DEF Then
  <2> HIDE DEF s
  <2>3. Before(s) \in Tasks
    BY <2>1, BeforeIsTask
  <2>4. CASE complete[Before(s)] /\ Accept(s) /\ UNCHANGED continuation
    <3>1. Waiting' = Waiting \cup {s} /\ UNCHANGED <<running, finished>>
      BY <2>1, <2>4, AcceptFacts
    <3>2. Before(s) \in ended
      BY <2>3, <2>4 DEF ChainInv, CompleteInv
    <3>3. QED
      BY <2>2, <2>4, <3>1, <3>2 DEF ChainInv, CompleteInv, LeftInv, QueuedInv
  <2>5. CASE /\ continuation' = [continuation EXCEPT ![Before(s)] = s]
             /\ UNCHANGED serviceVars
    <3>1. LeftInv'
      BY <2>1, <2>3, <2>5 DEF ChainInv, LeftInv, ChainTypeOK
    <3>2. QED
      BY <2>2, <2>5, <3>1 DEF ChainInv, CompleteInv, QueuedInv, Waiting, serviceVars
  <2>6. QED
    BY <2>1, <2>4, <2>5 DEF ChainNext
<1>3. CASE RunStart
  <2>1. /\ Waiting' \cup running' \subseteq Waiting \cup running
        /\ UNCHANGED finished
    BY <1>3, StartFacts DEF RunStart
  <2>2. UNCHANGED <<ended, complete, continuation>>
    BY <1>3 DEF RunStart
  <2>3. QED
    BY <2>1, <2>2 DEF ChainInv, CompleteInv, LeftInv, QueuedInv
<1>4. ASSUME NEW t \in Tasks, CurrentTaskEnds(t) PROVE ChainInv'
  BY <1>4 DEF CurrentTaskEnds, ChainInv, CompleteInv, LeftInv, QueuedInv, Waiting,
     serviceVars
<1>5. ASSUME NEW t \in Tasks, RunCompletes(t) PROVE ChainInv'
  <2>1. t \in ended /\ complete' = [complete EXCEPT ![t] = TRUE]
        /\ UNCHANGED <<ended, continuation>>
    BY <1>5 DEF RunCompletes
  <2>2. CompleteInv' /\ LeftInv'
    BY <2>1 DEF ChainInv, CompleteInv, LeftInv, ChainTypeOK
  <2>3. CASE continuation[t] = None
    BY <1>5, <2>1, <2>2, <2>3 DEF RunCompletes, ChainInv, QueuedInv, Waiting, serviceVars
  <2>4. CASE continuation[t] # None
    <3>1. continuation[t] \in Tasks /\ Accept(continuation[t])
      BY <1>5, <2>4 DEF RunCompletes, ChainTypeOK
    <3>2. Before(continuation[t]) = t
      BY <2>4 DEF ChainInv, LeftInv
    <3>3. Waiting' = Waiting \cup {continuation[t]} /\ UNCHANGED <<running, finished>>
      BY <3>1, AcceptFacts
    <3>4. QED
      BY <2>1, <2>2, <3>2, <3>3 DEF ChainInv, QueuedInv
  <2>5. QED
    BY <2>3, <2>4
<1>6. ASSUME NEW t \in Tasks, RunReturns(t) PROVE ChainInv'
  BY <1>6 DEF RunReturns, Finish, ChainInv, CompleteInv, LeftInv, QueuedInv, Waiting
<1>7. CASE MainReturns
  BY <1>7 DEF MainReturns, Close, ChainInv, CompleteInv, LeftInv, QueuedInv, Waiting
<1>8. CASE UNCHANGED chainVars
  BY <1>8 DEF chainVars, serviceVars, ChainInv, CompleteInv, LeftInv, QueuedInv, Waiting
<1>9. QED
  BY <1>1, <1>2, <1>3, <1>4, <1>5, <1>6, <1>7, <1>8
     DEF ChainNextState, Main, Run, Returned

(* However then() races with the end of the task it is called on, a        *)
(* continuation starts only when current_task() of its predecessor has     *)
(* returned (TaskWaiting.cpp:115-130).                                     *)
THEOREM RunsInOrder == ChainSpec => []RunsAfterPredecessor
<1>1. ChainInit => ChainInv
  BY DEF ChainInit, ServiceInit, ChainInv, CompleteInv, LeftInv, QueuedInv, Waiting
<1>2. ChainInv => RunsAfterPredecessor
  BY DEF ChainInv, QueuedInv, RunsAfterPredecessor
<1>3. QED
  BY <1>1, <1>2, ChainStep, ChainTypeCorrect, PTL DEF ChainSpec
-----------------------------------------------------------------------------
(* main hands over no task twice: a position has one chain and one place.  *)
LEMMA NthOnce ==
  ASSUME NEW m \in 1 .. NumTasks, NEW n \in 1 .. NumTasks, Nth(m) = Nth(n)
  PROVE  m = n
<1>1. Length \in Nat \ {0} /\ NumTasks \in Nat
  BY ChainAssumption DEF NumTasks
<1>2. (m - 1) \div Length = (n - 1) \div Length /\ (m - 1) % Length = (n - 1) % Length
  <2>1. /\ (m - 1) \div Length \in Int /\ (n - 1) \div Length \in Int
        /\ (m - 1) % Length \in Int /\ (n - 1) % Length \in Int
    BY <1>1
  <2>2. /\ ((m - 1) \div Length) + 1 = ((n - 1) \div Length) + 1
        /\ ((m - 1) % Length) + 1 = ((n - 1) % Length) + 1
    BY DEF Nth
  <2>3. QED
    BY <2>1, <2>2
<1>3. /\ m - 1 = Length * ((m - 1) \div Length) + ((m - 1) % Length)
      /\ n - 1 = Length * ((n - 1) \div Length) + ((n - 1) % Length)
  BY <1>1
<1>4. m - 1 = n - 1
  BY <1>2, <1>3
<1>5. QED
  BY <1>1, <1>4

(* A task that is not the first of its chain is known by the one before.   *)
LEMMA BeforeOnce ==
  ASSUME NEW s \in Tasks, NEW t \in Tasks, Before(s) = Before(t)
  PROVE  s = t
<1>1. Tasks = (1 .. NumChains) \X (1 .. Length)
  BY ChainAssumption
<1>2. s[1] = t[1] /\ s[2] - 1 = t[2] - 1 /\ s[2] \in Int /\ t[2] \in Int
  BY <1>1 DEF Before
<1>3. s[2] = t[2]
  BY <1>2
<1>4. QED
  BY <1>1, <1>2, <1>3

(* t was handed over; t is with its predecessor, which will still look.    *)
Built(t) == \E n \in 1 .. built : Nth(n) = t
Left(t) == t[2] > 1 /\ continuation[Before(t)] = t /\ ~complete[Before(t)]

AllDistinct(q) == \A i, j \in DOMAIN q : q[i] = q[j] => i = j

(* The places exclude each other, hold what was handed over and nothing    *)
(* else.                                                                   *)
PlacesApart ==
  /\ AllDistinct(waiting)
  /\ Waiting \cap running = {} /\ Waiting \cap finished = {} /\ running \cap finished = {}
  /\ \A t \in Tasks : Left(t) => t \notin Waiting \cup running \cup finished

Handed ==
  /\ Waiting \cup running \cup finished \subseteq {t \in Tasks : Built(t)}
  /\ \A t \in Tasks : continuation[t] # None => Built(continuation[t])
  /\ \A t \in Tasks : Built(t) => Left(t) \/ t \in Waiting \cup running \cup finished

PlaceInv == PlacesApart /\ Handed

(* The next task of main is nowhere yet.                                   *)
LEMMA NextIsNowhere ==
  ASSUME ChainTypeOK, PlaceInv, built < NumTasks
  PROVE  /\ ~Built(Nth(built + 1))
         /\ Nth(built + 1) \notin Waiting \cup running \cup finished
         /\ \A t \in Tasks : continuation[t] # Nth(built + 1)
<1>1. built \in Nat /\ NumTasks \in Nat /\ built + 1 \in 1 .. NumTasks
  BY ChainAssumption DEF ChainTypeOK, NumTasks
<1>2. ASSUME NEW n \in 1 .. built, Nth(n) = Nth(built + 1) PROVE FALSE
  <2>1. n \in 1 .. NumTasks /\ n # built + 1
    BY <1>1
  <2>2. QED
    BY <1>1, <1>2, <2>1, NthOnce
<1>3. ~Built(Nth(built + 1))
  BY <1>2 DEF Built
<1>4. Nth(built + 1) # None
  BY NextHandedOver, ChainAssumption
<1>5. QED
  BY <1>3, <1>4 DEF PlaceInv, Handed

(* Handing over one more task.                                             *)
LEMMA BuiltGrows ==
  ASSUME ChainTypeOK, built' = built + 1
  PROVE  \A t : Built(t)' <=> Built(t) \/ t = Nth(built + 1)
<1>1. built \in Nat
  BY ChainAssumption DEF ChainTypeOK, NumTasks
<1>2. \A n : n \in 1 .. built + 1 <=> n \in 1 .. built \/ n = built + 1
  BY <1>1
<1>3. QED
  BY <1>2 DEF Built

(* A task that is submitted while it is not queued is queued once.         *)
LEMMA AcceptOnce ==
  ASSUME ChainTypeOK, AllDistinct(waiting), NEW t \in Tasks, t \notin Waiting, Accept(t)
  PROVE  AllDistinct(waiting')
<1>1. waiting \in Seq(Tasks) /\ waiting' = Append(waiting, t)
  BY DEF ChainTypeOK, Accept
<1>2. /\ Len(waiting) \in Nat
      /\ DOMAIN waiting = 1 .. Len(waiting)
      /\ DOMAIN waiting' = 1 .. Len(waiting) + 1
      /\ \A i \in 1 .. Len(waiting) : waiting'[i] = waiting[i]
      /\ waiting'[Len(waiting) + 1] = t
  BY <1>1
<1>3. ASSUME NEW i \in DOMAIN waiting', NEW j \in DOMAIN waiting', waiting'[i] = waiting'[j]
      PROVE  i = j
  <2>1. /\ i \in DOMAIN waiting \/ i = Len(waiting) + 1
        /\ j \in DOMAIN waiting \/ j = Len(waiting) + 1
    BY <1>2
  <2>2. \A k \in DOMAIN waiting : waiting'[k] = waiting[k] /\ waiting[k] # t
    BY <1>2 DEF Waiting
  <2>3. QED
    BY <1>2, <1>3, <2>1, <2>2 DEF AllDistinct
<1>4. QED
  BY <1>3 DEF AllDistinct

(* The task that starts leaves the queue.                                  *)
LEMMA StartOnce ==
  ASSUME ChainTypeOK, AllDistinct(waiting), Start
  PROVE  /\ AllDistinct(waiting')
         /\ Head(waiting) \in Waiting
         /\ Waiting' = Waiting \ {Head(waiting)}
<1>1. waiting \in Seq(Tasks) /\ waiting # <<>>
  BY DEF ChainTypeOK, Start
<1>2. Len(waiting) \in Nat \ {0} /\ DOMAIN waiting = 1 .. Len(waiting)
  BY <1>1, EmptySeq, LenProperties
<1>3. Head(waiting) = waiting[1] /\ waiting' = Tail(waiting)
  BY <1>1 DEF Start
<1>4. /\ DOMAIN waiting' = 1 .. Len(waiting) - 1
      /\ \A i \in 1 .. Len(waiting) - 1 : waiting'[i] = waiting[i + 1]
  BY <1>1, <1>3, HeadTailProperties, LenProperties
<1>5. \A i \in 1 .. Len(waiting) - 1 : i \in Int /\ i + 1 \in DOMAIN waiting /\ i + 1 # 1
  BY <1>2
<1>6. ASSUME NEW i \in DOMAIN waiting', NEW j \in DOMAIN waiting', waiting'[i] = waiting'[j]
      PROVE  i = j
  <2>1. i + 1 = j + 1 /\ i \in Int /\ j \in Int
    BY <1>4, <1>5, <1>6 DEF AllDistinct
  <2>2. QED
    BY <2>1
<1>7. ASSUME NEW i \in DOMAIN waiting, i # 1
      PROVE  i - 1 \in DOMAIN waiting' /\ waiting'[i - 1] = waiting[i]
  BY <1>2, <1>4, <1>7
<1>8. 1 \in DOMAIN waiting
  BY <1>2
<1>9. Head(waiting) \in Waiting
  BY <1>3, <1>8 DEF Waiting
<1>10. \A t \in Waiting' : t \in Waiting /\ t # Head(waiting)
  BY <1>3, <1>4, <1>5, <1>8 DEF Waiting, AllDistinct
<1>11. \A t \in Waiting : t = Head(waiting) \/ t \in Waiting'
  BY <1>3, <1>7 DEF Waiting
<1>12. QED
  BY <1>6, <1>9, <1>10, <1>11 DEF AllDistinct

(* Where the tasks are does not change while neither they nor their        *)
(* predecessors' marks do.                                                 *)
LEMMA PlacesStay ==
  ASSUME PlaceInv, UNCHANGED <<waiting, running, finished, built, complete, continuation>>
  PROVE  PlaceInv'
BY DEF PlaceInv, PlacesApart, Handed, AllDistinct, Waiting, Built, Left

(* Every step moves a task from one place to the next: the mutex of a task *)
(* makes then() and the end of the task decide about the continuation one  *)
(* after the other.                                                        *)
LEMMA PlaceStep ==
  ChainTypeOK /\ ChainInv /\ PlaceInv /\ [ChainNextState]_chainVars => PlaceInv'
<1> SUFFICES ASSUME ChainTypeOK, ChainInv, PlaceInv, [ChainNextState]_chainVars
             PROVE  PlaceInv'
  OBVIOUS
<1>1. ASSUME SubmitAndContinue \/ Then PROVE PlaceInv'
  <2>0. PICK s \in Tasks : s = Nth(built + 1)
    BY <1>1, NextHandedOver DEF SubmitAndContinue, Then
  <2>1. s \in Tasks /\ built' = built + 1 /\ built < NumTasks /\ UNCHANGED complete
    BY <1>1 DEF SubmitAndContinue, Then
  <2>2. /\ ~Built(s) /\ s \notin Waiting \cup running \cup finished
        /\ \A t \in Tasks : continuation[t] # s
    BY <2>0, <2>1, NextIsNowhere
  <2>3. \A t : Built(t)' <=> Built(t) \/ t = s
    BY <2>0, <2>1, BuiltGrows
  <2>4. \/ Accept(s) /\ UNCHANGED continuation
        \/ /\ s[2] > 1 /\ ~complete[Before(s)]
           /\ continuation' = [continuation EXCEPT ![Before(s)] = s]
           /\ UNCHANGED serviceVars
    BY <1>1, <2>0 DEF SubmitAndContinue, Then, ChainNext
  <2>5. CASE Accept(s) /\ UNCHANGED continuation
    <3>1. Waiting' = Waiting \cup {s} /\ UNCHANGED <<running, finished>>
      BY <2>1, <2>5, AcceptFacts
    <3>2. AllDistinct(waiting')
      BY <2>1, <2>2, <2>5, AcceptOnce DEF PlaceInv, PlacesApart
    <3>3. \A t \in Tasks : Left(t)' <=> Left(t)
      BY <2>1, <2>5 DEF Left
    <3>4. ~Left(s)
      <4>1. s[2] > 1 => Before(s) \in Tasks
        BY <2>1, BeforeIsTask
      <4>2. QED
        BY <2>2, <4>1 DEF Left
    <3>5. PlacesApart'
      BY <2>2, <3>1, <3>2, <3>3, <3>4 DEF PlaceInv, PlacesApart
    <3>6. Handed'
      BY <2>1, <2>3, <2>5, <3>1, <3>3 DEF PlaceInv, Handed
    <3>7. QED
      BY <3>5, <3>6 DEF PlaceInv
  <2>6. CASE /\ s[2] > 1 /\ ~complete[Before(s)]
             /\ continuation' = [continuation EXCEPT ![Before(s)] = s]
             /\ UNCHANGED serviceVars
    <3>1. Before(s) \in Tasks
      BY <2>1, <2>6, BeforeIsTask
    <3>2. UNCHANGED <<waiting, running, finished>> /\ Waiting' = Waiting
      BY <2>6 DEF serviceVars, Waiting
    <3>3. continuation'[Before(s)] = s
          /\ \A t \in Tasks : t # Before(s) => continuation'[t] = continuation[t]
      BY <2>6, <3>1 DEF ChainTypeOK
    <3>4. Left(s)'
      BY <2>1, <2>6, <3>3 DEF Left
    <3>5. ASSUME NEW t \in Tasks, t # s PROVE Left(t)' <=> Left(t)
      <4>1. CASE t[2] > 1
        <5>1. Before(t) \in Tasks /\ Before(t) # Before(s)
          BY <2>1, <3>5, <4>1, BeforeIsTask, BeforeOnce
        <5>2. QED
          BY <2>1, <3>3, <5>1 DEF Left
      <4>2. QED
        BY <4>1 DEF Left
    <3>6. PlacesApart'
      BY <2>2, <3>2, <3>5 DEF PlaceInv, PlacesApart
    <3>7. Handed'
      BY <2>1, <2>3, <3>2, <3>3, <3>4, <3>5 DEF PlaceInv, Handed
    <3>8. QED
      BY <3>6, <3>7 DEF PlaceInv
  <2>7. QED
    BY <2>4, <2>5, <2>6
<1>2. CASE RunStart
  <2>1. Start /\ UNCHANGED <<built, complete, continuation>>
    BY <1>2 DEF RunStart
  <2>2. /\ AllDistinct(waiting') /\ Head(waiting) \in Waiting
        /\ Waiting' = Waiting \ {Head(waiting)}
    BY <2>1, StartOnce DEF PlaceInv, PlacesApart
  <2>3. running' = running \cup {Head(waiting)} /\ finished' = finished
    BY <2>1 DEF Start
  <2>4. \A t \in Tasks : (Left(t)' <=> Left(t)) /\ (Built(t)' <=> Built(t))
    BY <2>1 DEF Left, Built
  <2>5. PlacesApart'
    BY <2>2, <2>3, <2>4 DEF PlaceInv, PlacesApart
  <2>6. Handed'
    BY <2>1, <2>2, <2>3, <2>4 DEF PlaceInv, Handed, ChainTypeOK
  <2>7. QED
    BY <2>5, <2>6 DEF PlaceInv
<1>3. ASSUME NEW t \in Tasks, CurrentTaskEnds(t) PROVE PlaceInv'
  BY <1>3, PlacesStay DEF CurrentTaskEnds, serviceVars
<1>4. ASSUME NEW t \in Tasks, RunCompletes(t) PROVE PlaceInv'
  <2>1. ~complete[t] /\ complete' = [complete EXCEPT ![t] = TRUE]
        /\ UNCHANGED <<built, continuation>>
    BY <1>4 DEF RunCompletes
  <2>2. complete'[t] /\ \A r \in Tasks : r # t => complete'[r] = complete[r]
    BY <2>1 DEF ChainTypeOK
  <2>3. \A r \in Tasks : Built(r)' <=> Built(r)
    BY <2>1 DEF Built
  <2>4. ASSUME NEW r \in Tasks PROVE Left(r)' <=> Left(r) /\ r # continuation[t]
    <3>1. CASE r[2] > 1
      <4>1. Before(r) \in Tasks
        BY <3>1, BeforeIsTask
      <4>2. r = continuation[t] => Before(r) = t
        BY ChainAssumption DEF ChainInv, LeftInv
      <4>3. QED
        BY <2>1, <2>2, <4>1, <4>2 DEF Left
    <3>2. QED
      BY <3>1 DEF Left
  <2>5. CASE continuation[t] = None
    <3>1. UNCHANGED <<waiting, running, finished>> /\ Waiting' = Waiting
      BY <1>4, <2>5 DEF RunCompletes, serviceVars, Waiting
    <3>2. \A r \in Tasks : r # continuation[t]
      BY <2>5, ChainAssumption
    <3>3. PlacesApart'
      BY <2>4, <3>1 DEF PlaceInv, PlacesApart
    <3>4. Handed'
      BY <2>1, <2>3, <2>4, <3>1, <3>2 DEF PlaceInv, Handed, ChainTypeOK
    <3>5. QED
      BY <3>3, <3>4 DEF PlaceInv
  <2>6. CASE continuation[t] # None
    <3> DEFINE s == continuation[t]
    <3>1. s \in Tasks /\ Accept(s)
      BY <1>4, <2>6 DEF RunCompletes, ChainTypeOK
    <3>2. s[2] > 1 /\ Before(s) = t /\ Left(s) /\ Built(s)
      BY <2>1, <2>6 DEF ChainInv, LeftInv, Left, PlaceInv, Handed
    <3>3. s \notin Waiting \cup running \cup finished
      BY <3>1, <3>2 DEF PlaceInv, PlacesApart
    <3>4. Waiting' = Waiting \cup {s} /\ UNCHANGED <<running, finished>>
      BY <3>1, AcceptFacts
    <3>5. AllDistinct(waiting')
      BY <3>1, <3>3, AcceptOnce DEF PlaceInv, PlacesApart
    <3>6. s = continuation[t]
      OBVIOUS
    <3> HIDE DEF s
    <3>7. PlacesApart'
      BY <2>4, <3>3, <3>4, <3>5, <3>6 DEF PlaceInv, PlacesApart
    <3>8. Handed'
      BY <2>1, <2>3, <2>4, <3>1, <3>2, <3>4, <3>6 DEF PlaceInv, Handed, ChainTypeOK
    <3>9. QED
      BY <3>7, <3>8 DEF PlaceInv
  <2>7. QED
    BY <2>5, <2>6
<1>5. ASSUME NEW t \in Tasks, RunReturns(t) PROVE PlaceInv'
  <2>1. t \in running /\ running' = running \ {t} /\ finished' = finished \cup {t}
        /\ UNCHANGED <<waiting, built, complete, continuation>>
    BY <1>5 DEF RunReturns, Finish
  <2>2. \A r \in Tasks : (Left(r)' <=> Left(r)) /\ (Built(r)' <=> Built(r))
    BY <2>1 DEF Left, Built
  <2>3. Waiting' = Waiting /\ (AllDistinct(waiting') <=> AllDistinct(waiting))
    BY <2>1 DEF Waiting, AllDistinct
  <2>4. PlacesApart'
    BY <2>1, <2>2, <2>3 DEF PlaceInv, PlacesApart
  <2>5. Handed'
    BY <2>1, <2>2, <2>3 DEF PlaceInv, Handed, ChainTypeOK
  <2>6. QED
    BY <2>4, <2>5 DEF PlaceInv
<1>6. CASE MainReturns
  BY <1>6, PlacesStay DEF MainReturns, Close
<1>7. CASE UNCHANGED chainVars
  BY <1>7, PlacesStay DEF chainVars, serviceVars
<1>8. QED
  BY <1>1, <1>2, <1>3, <1>4, <1>5, <1>6, <1>7
     DEF ChainNextState, Main, Run, Returned

(* Counting one thing that is or is not there.                             *)
LEMMA CountsOne ==
  ASSUME NEW e, NEW P \in BOOLEAN
  PROVE  Cardinality({p \in {e} : P}) = IF P THEN 1 ELSE 0
<1>1. CASE P
  <2>1. {p \in {e} : P} = {e}
    BY <1>1
  <2>2. QED
    BY <1>1, <2>1, FS_Singleton
<1>2. CASE ~P
  <2>1. {p \in {e} : P} = {}
    BY <1>2
  <2>2. QED
    BY <1>2, <2>1, FS_EmptySet
<1>3. QED
  BY <1>1, <1>2

(* A task is queued once or not at all.                                    *)
LEMMA CountsQueued ==
  ASSUME AllDistinct(waiting), NEW t
  PROVE  Cardinality({i \in DOMAIN waiting : waiting[i] = t}) = IF t \in Waiting THEN 1 ELSE 0
<1>1. CASE t \in Waiting
  <2>1. PICK k \in DOMAIN waiting : waiting[k] = t
    BY <1>1 DEF Waiting
  <2>2. {i \in DOMAIN waiting : waiting[i] = t} = {k}
    BY <2>1 DEF AllDistinct
  <2>3. QED
    BY <1>1, <2>2, FS_Singleton
<1>2. CASE t \notin Waiting
  <2>1. {i \in DOMAIN waiting : waiting[i] = t} = {}
    BY <1>2 DEF Waiting
  <2>2. QED
    BY <1>2, <2>1, FS_EmptySet
<1>3. QED
  BY <1>1, <1>2

(* A task main has handed over is left with its predecessor, queued,       *)
(* running or finished, and exactly one of these: none is lost and none    *)
(* runs twice in the race of then() with the end of the task before it     *)
(* (TaskWaiting.cpp:112-138).                                              *)
THEOREM TasksInOnePlace == ChainSpec => []InOnePlace
<1>1. ChainInit => PlaceInv
  <2> SUFFICES ASSUME ChainInit PROVE PlaceInv
    OBVIOUS
  <2>1. waiting = <<>> /\ running = {} /\ finished = {} /\ built = 0
        /\ \A t \in Tasks : continuation[t] = None
    BY DEF ChainInit, ServiceInit
  <2>2. Waiting = {} /\ AllDistinct(waiting)
    BY <2>1, EmptySeq DEF Waiting, AllDistinct
  <2>3. \A t : ~Built(t)
    BY <2>1 DEF Built
  <2>4. QED
    BY <2>1, <2>2, <2>3 DEF PlaceInv, PlacesApart, Handed
<1>2. ChainTypeOK /\ PlaceInv => InOnePlace
  <2> SUFFICES ASSUME ChainTypeOK, PlaceInv, NEW n \in 1 .. built
      PROVE  LET t == Nth(n)
                 left == t[2] > 1 /\ continuation[Before(t)] = t /\ ~complete[Before(t)]
                 queued == Cardinality({i \in DOMAIN waiting : waiting[i] = t})
             IN queued + Cardinality({p \in {"left"} : left})
                + Cardinality({p \in {"run"} : t \in running})
                + Cardinality({p \in {"fin"} : t \in finished}) = 1
    BY DEF InOnePlace
  <2> DEFINE t == Nth(n)
  <2>1. t \in Tasks /\ Built(t)
    <3>1. n \in 1 .. NumTasks
      BY ChainAssumption DEF ChainTypeOK, NumTasks
    <3>2. QED
      BY <3>1, NthIsTask DEF Built
  <2> HIDE DEF t
  <2>2. /\ Cardinality({i \in DOMAIN waiting : waiting[i] = t}) = IF t \in Waiting THEN 1 ELSE 0
        /\ Cardinality({p \in {"left"} : Left(t)}) = IF Left(t) THEN 1 ELSE 0
        /\ Cardinality({p \in {"run"} : t \in running}) = IF t \in running THEN 1 ELSE 0
        /\ Cardinality({p \in {"fin"} : t \in finished}) = IF t \in finished THEN 1 ELSE 0
    <3>1. Left(t) \in BOOLEAN /\ (t \in running) \in BOOLEAN /\ (t \in finished) \in BOOLEAN
      BY DEF Left
    <3>2. QED
      BY <3>1, CountsOne, CountsQueued DEF PlaceInv, PlacesApart
  <2>3. \/ t \in Waiting /\ t \notin running /\ t \notin finished /\ ~Left(t)
        \/ t \notin Waiting /\ t \in running /\ t \notin finished /\ ~Left(t)
        \/ t \notin Waiting /\ t \notin running /\ t \in finished /\ ~Left(t)
        \/ t \notin Waiting /\ t \notin running /\ t \notin finished /\ Left(t)
    BY <2>1 DEF PlaceInv, PlacesApart, Handed
  <2>4. Cardinality({i \in DOMAIN waiting : waiting[i] = t})
        + Cardinality({p \in {"left"} : Left(t)})
        + Cardinality({p \in {"run"} : t \in running})
        + Cardinality({p \in {"fin"} : t \in finished}) = 1
    BY <2>2, <2>3
  <2>5. QED
    BY <2>4 DEF Left, t
<1>3. ChainInit => ChainInv
  BY DEF ChainInit, ServiceInit, ChainInv, CompleteInv, LeftInv, QueuedInv, Waiting
<1>4. QED
  BY <1>1, <1>2, <1>3, ChainStep, PlaceStep, ChainTypeCorrect, PTL DEF ChainSpec
-----------------------------------------------------------------------------
(* SimpleAsync.                                                            *)

(* The futures in the deque. *)
Futures == {task_results[i] : i \in DOMAIN task_results}

(* The task a user submits next is a task.                                 *)
LEMMA NextUserTask ==
  ASSUME NEW u \in Users, NEW n \in 0 .. PerUser, n < PerUser
  PROVE  <<u, n + 1>> \in AllTasks /\ n + 1 \in 0 .. PerUser
<1>1. PerUser \in Nat
  BY AsyncAssumption
<1>2. n + 1 \in 1 .. PerUser /\ n + 1 \in 0 .. PerUser
  BY <1>1
<1>3. QED
  BY <1>2 DEF UserTasks, AllTasks

(* The object starts with the types of its variables.                      *)
LEMMA AsyncInitType == AsyncInit => AsyncTypeOK
<1> SUFFICES ASSUME AsyncInit PROVE AsyncTypeOK
  OBVIOUS
<1>1. task_results \in Seq(AllTasks) /\ collected \in Seq(AllTasks)
  BY EmptySeq DEF AsyncInit
<1>2. sent \in [Users -> 0 .. PerUser]
  BY AsyncAssumption DEF AsyncInit
<1>3. QED
  BY <1>1, <1>2 DEF AsyncInit, AsyncTypeOK, AllTasks

(* Every step of a user, a task, the collector and the destructor keeps    *)
(* the types.                                                              *)
LEMMA AsyncStepType == AsyncTypeOK /\ [AsyncNext]_asyncVars => AsyncTypeOK'
<1> SUFFICES ASSUME AsyncTypeOK, [AsyncNext]_asyncVars
             PROVE  AsyncTypeOK'
  OBVIOUS
<1> USE DEF AsyncTypeOK
<1>1. ASSUME NEW u \in Users, Submit(u) PROVE AsyncTypeOK'
  <2>1. <<u, sent[u] + 1>> \in AllTasks /\ sent[u] + 1 \in 0 .. PerUser
    BY <1>1, NextUserTask DEF Submit
  <2> DEFINE t == <<u, sent[u] + 1>>
  <2>2. task_results' = Append(task_results, t) /\ launched' = launched \cup {t}
    BY <1>1 DEF Submit, Launch
  <2>3. sent' \in [Users -> 0 .. PerUser] /\ upc' \in [Users -> {"submit", "notify"}]
    BY <1>1, <2>1 DEF Submit
  <2>4. UNCHANGED <<completed, stop_token, coll, result, collected, opc>>
    BY <1>1 DEF Submit
  <2>5. t \in AllTasks
    BY <2>1
  <2> HIDE DEF t
  <2>6. QED
    BY <2>2, <2>3, <2>4, <2>5
<1>2. ASSUME NEW u \in Users, SubmitNotify(u) PROVE AsyncTypeOK'
  BY <1>2 DEF SubmitNotify, NotifyCollector
<1>3. ASSUME NEW t \in AllTasks, TaskEnds(t) PROVE AsyncTypeOK'
  BY <1>3 DEF TaskEnds
<1>4. CASE LoopTest
  BY <1>4 DEF LoopTest
<1>5. CASE TakeResult
  <2>1. Head(task_results) \in AllTasks /\ Tail(task_results) \in Seq(AllTasks)
    BY <1>5, HeadTailProperties DEF TakeResult
  <2>2. QED
    BY <1>5, <2>1 DEF TakeResult
<1>6. CASE SleepOnCv
  BY <1>6 DEF SleepOnCv
<1>7. CASE SpuriousWakeup
  BY <1>7 DEF SpuriousWakeup
<1>8. CASE WaitResult
  BY <1>8 DEF WaitResult
<1>9. CASE DestroyStop
  BY <1>9 DEF DestroyStop
<1>10. CASE DestroySubmit
  BY <1>10 DEF DestroySubmit, Launch, AllTasks
<1>11. CASE DestroyNotify
  BY <1>11 DEF DestroyNotify, NotifyCollector
<1>12. CASE DestroyJoin
  BY <1>12 DEF DestroyJoin
<1>13. CASE DestroyFutures
  BY <1>13, EmptySeq DEF DestroyFutures
<1>14. CASE UNCHANGED asyncVars
  BY <1>14 DEF asyncVars
<1>15. QED
  BY <1>1, <1>2, <1>3, <1>4, <1>5, <1>6, <1>7, <1>8, <1>9, <1>10, <1>11,
     <1>12, <1>13, <1>14 DEF AsyncNext, User, Collector, Destructor, Gone

(* The variables keep their types, and only a submitted task ends          *)
(* (simple_async.h:20-43, :53-58).                                         *)
THEOREM AsyncTypeCorrect == AsyncSpec => []AsyncTypeOK
BY AsyncInitType, AsyncStepType, PTL DEF AsyncSpec
-----------------------------------------------------------------------------
(* Every task that was started is waited for by somebody: its future is in *)
(* the deque or with the collector, unless it has ended.                   *)
Accounted ==
  \A t \in launched :
    t \in completed \/ t \in Futures \/ (coll = "wait" /\ result = t)

(* What the users have submitted was started, the destructor begins when   *)
(* they have submitted everything, and its own task comes after that.      *)
Progress ==
  /\ \A u \in Users : \A k \in 1 .. sent[u] : <<u, k>> \in launched
  /\ opc # "alive" => \A u \in Users : sent[u] = PerUser
  /\ opc \notin {"alive", "submit"} => LastTask \in launched

(* Nobody holds a future any more when the deque is destroyed.             *)
Ending ==
  /\ opc \in {"futures", "destroyed"} => coll = "exited"
  /\ opc = "destroyed" => Futures = {}

AsyncInv == Accounted /\ Progress /\ Ending

(* Pushing the future of a task.                                           *)
LEMMA LaunchFacts ==
  ASSUME AsyncTypeOK, NEW t \in AllTasks, Launch(t)
  PROVE  Futures' = Futures \cup {t} /\ launched' = launched \cup {t}
<1>1. task_results \in Seq(AllTasks) /\ task_results' = Append(task_results, t)
  BY DEF AsyncTypeOK, Launch
<1>2. /\ Len(task_results) \in Nat
      /\ DOMAIN task_results = 1 .. Len(task_results)
      /\ DOMAIN task_results' = 1 .. Len(task_results) + 1
      /\ \A i \in 1 .. Len(task_results) : task_results'[i] = task_results[i]
      /\ task_results'[Len(task_results) + 1] = t
  BY <1>1
<1>3. QED
  BY <1>2 DEF Launch, Futures

(* Taking the front future keeps all futures in sight.                     *)
LEMMA TakeFacts ==
  ASSUME AsyncTypeOK, TakeResult
  PROVE  Futures \subseteq Futures' \cup {result'}
<1>1. task_results \in Seq(AllTasks) /\ task_results # <<>>
  BY DEF AsyncTypeOK, TakeResult
<1>2. Len(task_results) \in Nat \ {0} /\ DOMAIN task_results = 1 .. Len(task_results)
  BY <1>1, EmptySeq, LenProperties
<1>3. result' = task_results[1] /\ task_results' = Tail(task_results)
  BY <1>1 DEF TakeResult
<1>4. /\ DOMAIN task_results' = 1 .. Len(task_results) - 1
      /\ \A i \in 1 .. Len(task_results) - 1 : task_results'[i] = task_results[i + 1]
  BY <1>1, <1>3, HeadTailProperties, LenProperties
<1>5. ASSUME NEW i \in 1 .. Len(task_results), i # 1
      PROVE  /\ i - 1 \in DOMAIN task_results'
             /\ task_results'[i - 1] = task_results[i]
  BY <1>2, <1>4, <1>5
<1>6. ASSUME NEW i \in 1 .. Len(task_results)
      PROVE  task_results[i] \in Futures' \cup {result'}
  BY <1>3, <1>5 DEF Futures
<1>7. QED
  BY <1>2, <1>6 DEF Futures

(* Every step keeps the accounts.                                          *)
LEMMA AsyncStep == AsyncTypeOK /\ AsyncInv /\ [AsyncNext]_asyncVars => AsyncInv'
<1> SUFFICES ASSUME AsyncTypeOK, AsyncInv, [AsyncNext]_asyncVars
             PROVE  AsyncInv'
  OBVIOUS
<1> USE DEF AsyncInv
<1>1. ASSUME NEW u \in Users, Submit(u) PROVE AsyncInv'
  <2> DEFINE t == <<u, sent[u] + 1>>
  <2>1. t \in AllTasks
    BY <1>1, NextUserTask DEF Submit, AsyncTypeOK
  <2>2. Futures' = Futures \cup {t} /\ launched' = launched \cup {t}
    BY <1>1, <2>1, LaunchFacts DEF Submit
  <2>3. UNCHANGED <<completed, coll, result, opc>>
    BY <1>1 DEF Submit
  <2>4. Accounted'
    BY <2>2, <2>3 DEF Accounted
  <2>5. \A v \in Users : \A k \in 1 .. sent'[v] : <<v, k>> \in launched'
    <3>1. ASSUME NEW v \in Users, NEW k \in 1 .. sent'[v], v # u
          PROVE  <<v, k>> \in launched'
      BY <1>1, <2>2, <3>1 DEF Submit, Progress, AsyncTypeOK
    <3>2. ASSUME NEW k \in 1 .. sent'[u] PROVE <<u, k>> \in launched'
      <4>1. sent'[u] = sent[u] + 1 /\ sent[u] \in Nat
        BY <1>1 DEF Submit, AsyncTypeOK
      <4>2. k \in 1 .. sent[u] \/ k = sent[u] + 1
        BY <4>1
      <4>3. QED
        BY <2>2, <4>2 DEF Progress
    <3>3. QED
      BY <3>1, <3>2
  <2>6. opc = "alive"
    BY <1>1, AsyncAssumption DEF Submit, Progress
  <2>7. Progress'
    BY <2>2, <2>3, <2>5, <2>6 DEF Progress
  <2>8. QED
    BY <2>3, <2>4, <2>6, <2>7 DEF Ending
<1>2. ASSUME NEW u \in Users, SubmitNotify(u) PROVE AsyncInv'
  BY <1>2 DEF SubmitNotify, NotifyCollector, Accounted, Progress, Ending, Futures
<1>3. ASSUME NEW t \in AllTasks, TaskEnds(t) PROVE AsyncInv'
  BY <1>3 DEF TaskEnds, Accounted, Progress, Ending, Futures
<1>4. CASE LoopTest
  BY <1>4 DEF LoopTest, Accounted, Progress, Ending, Futures
<1>5. CASE TakeResult
  <2>1. Futures \subseteq Futures' \cup {result'} /\ coll' = "wait" /\ coll = "get"
    BY <1>5, TakeFacts DEF TakeResult
  <2>2. UNCHANGED <<launched, completed, sent, opc>>
    BY <1>5 DEF TakeResult
  <2>3. Accounted'
    BY <2>1, <2>2 DEF Accounted
  <2>4. opc \notin {"futures", "destroyed"}
    BY <2>1 DEF Ending
  <2>5. QED
    BY <2>2, <2>3, <2>4 DEF Progress, Ending
<1>6. CASE SleepOnCv
  BY <1>6 DEF SleepOnCv, Accounted, Progress, Ending, Futures
<1>7. CASE SpuriousWakeup
  BY <1>7 DEF SpuriousWakeup, Accounted, Progress, Ending, Futures
<1>8. CASE WaitResult
  BY <1>8 DEF WaitResult, Accounted, Progress, Ending, Futures
<1>9. CASE DestroyStop
  BY <1>9 DEF DestroyStop, UsersDone, Accounted, Progress, Ending, Futures
<1>10. CASE DestroySubmit
  <2>1. Futures' = Futures \cup {LastTask} /\ launched' = launched \cup {LastTask}
    BY <1>10, LaunchFacts DEF DestroySubmit, AllTasks
  <2>2. UNCHANGED <<completed, sent, coll, result>> /\ opc = "submit" /\ opc' = "notify"
    BY <1>10 DEF DestroySubmit
  <2>3. Accounted'
    BY <2>1, <2>2 DEF Accounted
  <2>4. QED
    BY <2>1, <2>2, <2>3 DEF Progress, Ending
<1>11. CASE DestroyNotify
  BY <1>11 DEF DestroyNotify, NotifyCollector, Accounted, Progress, Ending, Futures
<1>12. CASE DestroyJoin
  BY <1>12 DEF DestroyJoin, Accounted, Progress, Ending, Futures
<1>13. CASE DestroyFutures
  <2>1. Futures \subseteq completed
    BY <1>13 DEF DestroyFutures, Futures
  <2>2. Futures' = {}
    BY <1>13, EmptySeq DEF DestroyFutures, Futures
  <2>3. UNCHANGED <<launched, completed, sent, coll, result>>
        /\ opc = "futures" /\ opc' = "destroyed"
    BY <1>13 DEF DestroyFutures
  <2>4. Accounted'
    BY <2>1, <2>3 DEF Accounted
  <2>5. QED
    BY <2>2, <2>3, <2>4 DEF Progress, Ending
<1>14. CASE UNCHANGED asyncVars
  BY <1>14 DEF asyncVars, Accounted, Progress, Ending, Futures
<1>15. QED
  BY <1>1, <1>2, <1>3, <1>4, <1>5, <1>6, <1>7, <1>8, <1>9, <1>10, <1>11,
     <1>12, <1>13, <1>14 DEF AsyncNext, User, Collector, Destructor, Gone

(* When the destructor has returned every task has run to its end, those   *)
(* the collector never came to included: the member order makes the deque  *)
(* of futures wait for them (simple_async.h:45-51, :53-58).                *)
THEOREM NoneOutlives == AsyncSpec => []NoTaskOutlives
<1>1. AsyncInit => AsyncInv
  <2>1. AsyncInit => Progress
    BY AsyncAssumption DEF AsyncInit, Progress
  <2>2. QED
    BY <2>1 DEF AsyncInit, AsyncInv, Accounted, Ending
<1>2. AsyncTypeOK /\ AsyncInv => NoTaskOutlives
  <2> SUFFICES ASSUME AsyncTypeOK, AsyncInv, opc = "destroyed"
               PROVE  launched = AllTasks /\ completed = AllTasks
    BY DEF NoTaskOutlives
  <2>1. \A t \in launched : t \in completed
    BY DEF AsyncInv, Accounted, Ending
  <2>2. \A u \in Users, k \in 1 .. PerUser : <<u, k>> \in launched
    BY DEF AsyncInv, Progress
  <2>3. UserTasks \subseteq launched /\ LastTask \in launched
    BY <2>2 DEF UserTasks, AsyncInv, Progress
  <2>4. QED
    BY <2>1, <2>3 DEF AsyncTypeOK, AllTasks
<1>3. QED
  BY <1>1, <1>2, AsyncStep, AsyncTypeCorrect, PTL DEF AsyncSpec
-----------------------------------------------------------------------------
(* a may come before b: they are two tasks, and if one user submitted both *)
(* it submitted a first.                                                   *)
Earlier(a, b) ==
  /\ a # b
  /\ a \in UserTasks /\ b \in UserTasks /\ a[1] = b[1] => a[2] < b[2]

Ordered(s) == \A i \in DOMAIN s : \A j \in 1 .. i - 1 : Earlier(s[j], s[i])

(* The tasks that were reported.                                           *)
Reported == {collected[i] : i \in DOMAIN collected}

(* What has been started is what the users have submitted, and the         *)
(* destructor's task at its end.                                           *)
Bounded ==
  \A t \in launched :
    \/ t = LastTask /\ opc \notin {"alive", "submit"}
    \/ t \in UserTasks /\ t[2] <= sent[t[1]]

(* What was reported, what the collector holds and what is queued are      *)
(* three pieces of one line, which is in order.                            *)
Pieces ==
  /\ Reported \subseteq completed /\ Futures \subseteq launched
  /\ Ordered(collected) /\ Ordered(task_results)
  /\ \A a \in Reported : \A b \in Futures : Earlier(a, b)
  /\ coll = "wait" => /\ result \in launched
                      /\ \A a \in Reported : Earlier(a, result)
                      /\ \A b \in Futures : Earlier(result, b)

LineInv == Bounded /\ Pieces

(* Nothing that was started comes after the task a user submits next.      *)
LEMMA NextIsLater ==
  ASSUME AsyncTypeOK, Bounded, NEW u \in Users, sent[u] < PerUser,
         NEW a \in launched
  PROVE  Earlier(a, <<u, sent[u] + 1>>)
<1> DEFINE t == <<u, sent[u] + 1>>
<1>1. sent[u] \in Nat /\ t[1] = u /\ t[2] = sent[u] + 1
  BY DEF AsyncTypeOK
<1>2. t \in UserTasks
  <2>1. PerUser \in Nat /\ sent[u] \in 0 .. PerUser
    BY AsyncAssumption DEF AsyncTypeOK
  <2>2. sent[u] + 1 \in 1 .. PerUser
    BY <2>1
  <2>3. QED
    BY <2>2 DEF UserTasks
<1>3. CASE a = LastTask
  BY <1>2, <1>3, AsyncAssumption DEF Earlier
<1>4. CASE a \in UserTasks /\ a[2] <= sent[a[1]]
  <2>1. a[2] \in Nat
    BY <1>4, AsyncAssumption DEF UserTasks
  <2>2. a[1] = u => a[2] < sent[u] + 1
    BY <1>1, <1>4, <2>1
  <2> HIDE DEF t
  <2>3. a # t
    BY <1>1, <2>1, <2>2
  <2>4. QED
    BY <1>1, <2>2, <2>3 DEF Earlier, t
<1>5. QED
  BY <1>3, <1>4 DEF Bounded

(* A line stays in order when a later task joins it at its end.            *)
LEMMA JoinsAtEnd ==
  ASSUME NEW s \in Seq(AllTasks), NEW t \in AllTasks, Ordered(s),
         \A i \in DOMAIN s : Earlier(s[i], t)
  PROVE  /\ Ordered(Append(s, t))
         /\ {Append(s, t)[i] : i \in DOMAIN Append(s, t)} = {s[i] : i \in DOMAIN s} \cup {t}
<1> DEFINE r == Append(s, t)
           n == Len(s)
<1>1. /\ n \in Nat /\ DOMAIN s = 1 .. n /\ DOMAIN r = 1 .. n + 1
      /\ \A i \in 1 .. n : r[i] = s[i]
      /\ r[n + 1] = t
  BY AppendProperties
<1> HIDE DEF r, n
<1>2. ASSUME NEW i \in 1 .. n + 1, NEW j \in 1 .. i - 1
      PROVE  Earlier(r[j], r[i])
  <2>1. j \in 1 .. n /\ (i \in 1 .. n \/ i = n + 1)
    BY <1>1
  <2>2. r[j] = s[j]
    BY <1>1, <2>1
  <2>3. CASE i \in 1 .. n
    BY <1>1, <2>2, <2>3 DEF Ordered
  <2>4. CASE i = n + 1
    BY <1>1, <2>1, <2>2, <2>4
  <2>5. QED
    BY <2>1, <2>3, <2>4
<1>3. Ordered(r)
  BY <1>1, <1>2 DEF Ordered
<1>4. {r[i] : i \in DOMAIN r} = {s[i] : i \in DOMAIN s} \cup {t}
  <2>1. \A i \in 1 .. n + 1 : i \in 1 .. n \/ i = n + 1
    BY <1>1
  <2>2. 1 .. n \subseteq 1 .. n + 1 /\ n + 1 \in 1 .. n + 1
    BY <1>1
  <2>3. QED
    BY <1>1, <2>1, <2>2
<1>5. QED
  BY <1>3, <1>4 DEF r

(* The head of a line comes before the rest, which stays in order.         *)
LEMMA LeavesAtFront ==
  ASSUME NEW s \in Seq(AllTasks), s # <<>>, Ordered(s)
  PROVE  /\ Ordered(Tail(s))
         /\ {Tail(s)[i] : i \in DOMAIN Tail(s)} \subseteq {s[i] : i \in DOMAIN s}
         /\ \A i \in DOMAIN Tail(s) : Earlier(Head(s), Tail(s)[i])
         /\ Head(s) \in {s[i] : i \in DOMAIN s}
<1> DEFINE r == Tail(s)
           n == Len(s)
<1>1. n \in Nat \ {0} /\ DOMAIN s = 1 .. n /\ Head(s) = s[1]
  BY EmptySeq, LenProperties
<1>2. DOMAIN r = 1 .. n - 1 /\ \A i \in 1 .. n - 1 : r[i] = s[i + 1]
  BY HeadTailProperties, LenProperties
<1> HIDE DEF r, n
<1>3. \A i \in 1 .. n - 1 : i + 1 \in 1 .. n /\ 1 \in 1 .. (i + 1) - 1
  BY <1>1
<1>4. ASSUME NEW i \in 1 .. n - 1, NEW j \in 1 .. i - 1
      PROVE  Earlier(r[j], r[i])
  <2>1. j \in 1 .. n - 1 /\ j + 1 \in 1 .. (i + 1) - 1
    BY <1>1
  <2>2. r[j] = s[j + 1] /\ r[i] = s[i + 1] /\ i + 1 \in 1 .. n
    BY <1>2, <1>3, <2>1
  <2>3. QED
    BY <1>1, <2>1, <2>2 DEF Ordered
<1>5. \A i \in 1 .. n - 1 : Earlier(s[1], r[i])
  BY <1>1, <1>2, <1>3 DEF Ordered
<1>6. Ordered(r) /\ {r[i] : i \in DOMAIN r} \subseteq {s[i] : i \in DOMAIN s}
  <2>1. Ordered(r)
    BY <1>2, <1>4 DEF Ordered
  <2>2. QED
    BY <1>1, <1>2, <1>3, <2>1
<1>7. 1 \in DOMAIN s
  BY <1>1
<1>8. QED
  BY <1>1, <1>2, <1>5, <1>6, <1>7 DEF r

(* A task nobody has started before goes to the end of the line.           *)
LEMMA LaunchKeepsLine ==
  ASSUME AsyncTypeOK, Pieces, NEW t \in AllTasks, Launch(t),
         UNCHANGED <<completed, coll, result, collected>>,
         \A a \in launched : Earlier(a, t)
  PROVE  Pieces'
<1>1. Futures' = Futures \cup {t} /\ launched' = launched \cup {t}
  BY LaunchFacts
<1>2. Reported \subseteq launched /\ Futures \subseteq launched
  BY DEF AsyncTypeOK, Pieces
<1>3. task_results \in Seq(AllTasks) /\ \A i \in DOMAIN task_results : Earlier(task_results[i], t)
  BY <1>2 DEF AsyncTypeOK, Futures
<1>4. Ordered(task_results')
  BY <1>3, JoinsAtEnd DEF Pieces, Launch
<1>5. Reported' = Reported /\ Ordered(collected')
  BY DEF Pieces, Reported
<1>6. QED
  BY <1>1, <1>2, <1>4, <1>5 DEF Pieces

(* Every step keeps the line: tasks join it at its end, under the mutex,   *)
(* and the only collector moves them on one by one.                        *)
LEMMA LineStep == AsyncTypeOK /\ LineInv /\ [AsyncNext]_asyncVars => LineInv'
<1> SUFFICES ASSUME AsyncTypeOK, Bounded, Pieces, [AsyncNext]_asyncVars
             PROVE  Bounded' /\ Pieces'
  BY DEF LineInv
<1>1. ASSUME NEW u \in Users, Submit(u) PROVE Bounded' /\ Pieces'
  <2> DEFINE t == <<u, sent[u] + 1>>
  <2>1. t \in AllTasks /\ t \in UserTasks /\ sent[u] \in Nat
    <3>1. PerUser \in Nat /\ sent[u] \in 0 .. PerUser /\ sent[u] < PerUser
      BY <1>1, AsyncAssumption DEF AsyncTypeOK, Submit
    <3>2. sent[u] + 1 \in 1 .. PerUser
      BY <3>1
    <3>3. QED
      BY <3>1, <3>2 DEF UserTasks, AllTasks
  <2>2. Launch(t) /\ UNCHANGED <<completed, coll, result, collected, opc>>
    BY <1>1 DEF Submit
  <2>3. \A a \in launched : Earlier(a, t)
    BY <1>1, NextIsLater DEF Submit
  <2>4. Pieces'
    BY <2>1, <2>2, <2>3, LaunchKeepsLine
  <2>5. launched' = launched \cup {t}
    BY <2>2 DEF Launch
  <2>6. ASSUME NEW v \in Users PROVE sent[v] <= sent'[v] /\ sent'[v] \in Nat /\ sent[v] \in Nat
    BY <1>1 DEF Submit, AsyncTypeOK
  <2>7. sent'[u] = sent[u] + 1
    BY <1>1 DEF Submit, AsyncTypeOK
  <2>8. ASSUME NEW a \in UserTasks, a[2] <= sent[a[1]] PROVE a[2] <= sent'[a[1]]
    <3>1. a[1] \in Users /\ a[2] \in Nat
      BY <2>8, AsyncAssumption DEF UserTasks
    <3>2. QED
      BY <2>6, <2>8, <3>1
  <2>9. t[1] = u /\ t[2] = sent[u] + 1
    OBVIOUS
  <2> HIDE DEF t
  <2>10. Bounded'
    BY <2>1, <2>2, <2>5, <2>7, <2>8, <2>9 DEF Bounded
  <2>11. QED
    BY <2>4, <2>10
<1>2. ASSUME NEW u \in Users, SubmitNotify(u) PROVE Bounded' /\ Pieces'
  BY <1>2 DEF SubmitNotify, NotifyCollector, Bounded, Pieces, Reported, Futures, Ordered
<1>3. ASSUME NEW t \in AllTasks, TaskEnds(t) PROVE Bounded' /\ Pieces'
  BY <1>3 DEF TaskEnds, Bounded, Pieces, Reported, Futures, Ordered
<1>4. CASE LoopTest
  BY <1>4 DEF LoopTest, Bounded, Pieces, Reported, Futures, Ordered
<1>5. CASE TakeResult
  <2>1. task_results \in Seq(AllTasks) /\ task_results # <<>>
        /\ result' = Head(task_results) /\ task_results' = Tail(task_results)
        /\ Ordered(task_results)
    BY <1>5 DEF TakeResult, AsyncTypeOK, Pieces
  <2>2. /\ Ordered(task_results') /\ Futures' \subseteq Futures
        /\ \A b \in Futures' : Earlier(result', b)
        /\ result' \in Futures
    BY <2>1, LeavesAtFront DEF Futures
  <2>3. UNCHANGED <<launched, completed, sent, opc, collected>>
    BY <1>5 DEF TakeResult
  <2>4. Reported' = Reported /\ Ordered(collected')
    BY <2>3 DEF Reported, Pieces
  <2>5. Pieces'
    BY <2>2, <2>3, <2>4 DEF Pieces
  <2>6. QED
    BY <2>3, <2>5 DEF Bounded
<1>6. CASE SleepOnCv
  BY <1>6 DEF SleepOnCv, Bounded, Pieces, Reported, Futures, Ordered
<1>7. CASE SpuriousWakeup
  BY <1>7 DEF SpuriousWakeup, Bounded, Pieces, Reported, Futures, Ordered
<1>8. CASE WaitResult
  <2>1. collected \in Seq(AllTasks) /\ result \in AllTasks /\ Ordered(collected)
        /\ collected' = Append(collected, result)
        /\ \A i \in DOMAIN collected : Earlier(collected[i], result)
    BY <1>8 DEF WaitResult, AsyncTypeOK, Pieces, Reported
  <2>2. Ordered(collected') /\ Reported' = Reported \cup {result}
    BY <2>1, JoinsAtEnd DEF Reported
  <2>3. UNCHANGED <<launched, completed, sent, opc, task_results>>
        /\ coll = "wait" /\ coll' = "loop" /\ result \in completed
    BY <1>8 DEF WaitResult
  <2>4. Futures' = Futures /\ Ordered(task_results')
    BY <2>3 DEF Futures, Pieces
  <2>5. Pieces'
    BY <2>2, <2>3, <2>4 DEF Pieces
  <2>6. QED
    BY <2>3, <2>5 DEF Bounded
<1>9. CASE DestroyStop
  BY <1>9 DEF DestroyStop, Bounded, Pieces, Reported, Futures, Ordered
<1>10. CASE DestroySubmit
  <2>1. LastTask \in AllTasks /\ Launch(LastTask) /\ opc = "submit" /\ opc' = "notify"
        /\ UNCHANGED <<completed, sent, coll, result, collected>>
    BY <1>10 DEF DestroySubmit, AllTasks
  <2>2. \A a \in launched : Earlier(a, LastTask)
    BY <2>1, AsyncAssumption DEF Bounded, Earlier
  <2>3. Pieces'
    BY <2>1, <2>2, LaunchKeepsLine
  <2>4. QED
    BY <2>1, <2>3 DEF Bounded, Launch
<1>11. CASE DestroyNotify
  BY <1>11 DEF DestroyNotify, NotifyCollector, Bounded, Pieces, Reported, Futures, Ordered
<1>12. CASE DestroyJoin
  BY <1>12 DEF DestroyJoin, Bounded, Pieces, Reported, Futures, Ordered
<1>13. CASE DestroyFutures
  <2>1. UNCHANGED <<launched, completed, sent, coll, result, collected>>
        /\ task_results' = <<>> /\ opc = "futures" /\ opc' = "destroyed"
    BY <1>13 DEF DestroyFutures
  <2>2. Futures' = {} /\ Ordered(task_results')
    BY <2>1, EmptySeq DEF Futures, Ordered
  <2>3. Reported' = Reported /\ Ordered(collected')
    BY <2>1 DEF Reported, Pieces
  <2>4. Pieces'
    BY <2>1, <2>2, <2>3 DEF Pieces
  <2>5. QED
    BY <2>1, <2>4 DEF Bounded
<1>14. CASE UNCHANGED asyncVars
  BY <1>14 DEF asyncVars, Bounded, Pieces, Reported, Futures, Ordered
<1>15. QED
  BY <1>1, <1>2, <1>3, <1>4, <1>5, <1>6, <1>7, <1>8, <1>9, <1>10, <1>11,
     <1>12, <1>13, <1>14 DEF AsyncNext, User, Collector, Destructor, Gone

(* A task is reported when it is done, at most once, and after the tasks   *)
(* its user submitted before it (simple_async.h:20-31).                    *)
THEOREM ReportsInOrder == AsyncSpec => []CollectedInOrder
<1>1. AsyncInit => LineInv
  <2>1. AsyncInit => collected = <<>> /\ task_results = <<>> /\ launched = {} /\ coll = "loop"
    BY DEF AsyncInit
  <2>2. QED
    BY <2>1, EmptySeq DEF LineInv, Bounded, Pieces, Reported, Futures, Ordered
<1>2. LineInv => CollectedInOrder
  BY DEF LineInv, Pieces, Reported, Ordered, Earlier, CollectedInOrder
<1>3. QED
  BY <1>1, <1>2, LineStep, AsyncTypeCorrect, PTL DEF AsyncSpec
-----------------------------------------------------------------------------
(* The protocols next to each other, as module MCProtocols composes them.  *)

(* The polling test leaves the counters of the events test where they are. *)
ComposedInv == WaitInv /\ (subject = "polling" => received = 0)

(* What one of the protocols does, the others do not see: a step of the    *)
(* composition is a step, or none, of each of them.                        *)
LEMMA ComposedSteps ==
  ASSUME ComposedInv, [MCNext]_mcVars
  PROVE  /\ [RingNext]_ringVars /\ ComposedInv'
         /\ [PoolNext]_poolVars /\ [ChainNextState]_chainVars /\ [AsyncNext]_asyncVars
         /\ [RefNext \/ RefDone]_listRefVars /\ [SharedNext \/ SharedDone]_sharedVars
<1>1. subject' = subject
  BY DEF MCNext, mcVars
<1>2. CASE RingMoves
  <2>1. UNCHANGED <<poolVars, chainVars, asyncVars, listRefVars, sharedVars>>
    BY <1>2 DEF RingMoves
  <2>2. CASE subject = "polling" /\ RingNext /\ UNCHANGED waitVars
    <3>1. ComposedInv'
      BY <1>1, <2>2, TotalAssumption DEF ComposedInv, WaitInv, waitVars
    <3>2. QED
      BY <2>1, <2>2, <3>1
  <2>3. CASE subject = "events" /\ [WaitNext]_allVars
    <3>1. WaitInv' /\ [RingNext]_ringVars
      BY <2>3, WaitInvStep, WaitIsRing DEF ComposedInv
    <3>2. ComposedInv'
      BY <1>1, <2>3, <3>1 DEF ComposedInv
    <3>3. QED
      BY <2>1, <3>1, <3>2
  <2>4. QED
    BY <1>2, <2>2, <2>3 DEF RingMoves
<1>3. ASSUME UNCHANGED allVars
      PROVE  ComposedInv' /\ [RingNext]_ringVars
  <2>1. UNCHANGED <<ringVars, lock, stage, begun, received, cpc>>
    BY <1>3 DEF allVars, waitVars, ringVars, consVars
  <2>2. QED
    BY <1>1, <2>1 DEF ComposedInv, WaitInv
<1>4. CASE TasksMove
  <2>1. UNCHANGED <<allVars, listRefVars, sharedVars>>
    BY <1>4 DEF TasksMove
  <2>2. [PoolNext]_poolVars /\ [ChainNextState]_chainVars /\ [AsyncNext]_asyncVars
    BY <1>4 DEF TasksMove
  <2>3. QED
    BY <1>3, <2>1, <2>2
<1>5. CASE NodesMove
  <2>1. UNCHANGED <<allVars, poolVars, chainVars, asyncVars>>
    BY <1>5 DEF NodesMove
  <2>2. [RefNext \/ RefDone]_listRefVars /\ [SharedNext \/ SharedDone]_sharedVars
    BY <1>5 DEF NodesMove
  <2>3. QED
    BY <1>3, <2>1, <2>2
<1>6. CASE UNCHANGED mcVars
  <2>1. UNCHANGED <<allVars, poolVars, chainVars, asyncVars, listRefVars, sharedVars>>
    BY <1>6 DEF mcVars
  <2>2. QED
    BY <1>3, <2>1
<1>7. QED
  BY <1>2, <1>4, <1>5, <1>6 DEF MCNext

(* Every behaviour of the composition keeps to the protocols: each starts  *)
(* where it does by itself, and moves as it does by itself.                *)
LEMMA ComposedBehaviours ==
  MCSpec => /\ RingSpec /\ []ComposedInv /\ PoolSafety
            /\ ChainInit /\ [][ChainNextState]_chainVars
            /\ AsyncInit /\ [][AsyncNext]_asyncVars
            /\ RefInit /\ [][RefNext \/ RefDone]_listRefVars
            /\ SharedSpec
<1>1. MCInit => /\ WaitInit /\ RingInit /\ PoolInit /\ ChainInit /\ AsyncInit /\ RefInit
                /\ SharedInit
  BY DEF MCInit, WaitInit
<1>2. MCInit => ComposedInv
  BY TotalAssumption DEF MCInit, WaitInit, RingInit, WaitInv, ComposedInv
<1>3. QED
  BY <1>1, <1>2, ComposedSteps, PTL DEF MCSpec, RingSpec, PoolSafety, SharedSpec

(* The variables of every protocol keep their types, whichever of them     *)
(* runs (RingBufferAtomic.h:80, thread_pool.h:41, TaskWaiting.cpp:112,     *)
(* simple_async.h:53, slist.h:62, SharedPtr.cpp:7).                        *)
THEOREM ProtocolsKeepTypes == MCSpec => []MCTypesOK
<1>1. ComposedInv /\ TypeOK => WaitTypeOK
  BY DEF ComposedInv, WaitInv, WaitTypeOK
<1>2. RefInv => RefTypeOK
  BY DEF RefInv, ListInv
<1>3. TypeOK /\ WaitTypeOK /\ PoolTypeOK /\ ChainTypeOK /\ AsyncTypeOK
        /\ RefTypeOK /\ SharedTypeOK => MCTypesOK
  BY DEF MCTypesOK
<1>4. QED
  BY <1>1, <1>2, <1>3, ComposedBehaviours, RingTypeCorrect, PoolTypeCorrect,
     ChainInitType, ChainStepType, AsyncInitType, AsyncStepType, RefStarts, RefStep,
     SharedPtrTypes, PTL
=============================================================================
