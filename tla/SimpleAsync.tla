---------------------------- MODULE SimpleAsync ----------------------------
(***************************************************************************)
(* SimpleAsync of src/cpp11/threading_model/simple_async.h: submit starts  *)
(* a task with std::async and queues its future; one collector thread      *)
(* takes the futures and waits for them; the destructor submits one more   *)
(* task to wake the collector, joins it, and then destroys the queue,      *)
(* where the destructor of each future waits for its task.                 *)
(***************************************************************************)
EXTENDS Integers, Sequences, FiniteSets

CONSTANTS
  Users,      (* the threads that submit                                   *)
  PerUser,    (* bound: how many tasks each submits                        *)
  LastTask    (* the task the destructor submits                           *)

UserTasks == Users \X (1 .. PerUser)
AllTasks == UserTasks \cup {LastTask}

ASSUME AsyncAssumption ==
  /\ IsFiniteSet(Users) /\ PerUser \in Nat \ {0} /\ LastTask \notin UserTasks

VARIABLES
  task_results,  (* the deque of futures, each named by its task           *)
  launched,      (* the tasks std::async has started                       *)
  completed,     (* the tasks that have ended                              *)
  stop_token,
  upc, sent,     (* where each user is, how many it has submitted          *)
  coll,          (* where the collector is                                 *)
  result,        (* the future the collector holds                         *)
  collected,     (* history: the tasks the collector reported done         *)
  opc            (* where the destructor is                                *)

asyncVars ==
  <<task_results, launched, completed, stop_token, upc, sent, coll, result,
    collected, opc>>

AsyncInit ==
  /\ task_results = <<>> /\ launched = {} /\ completed = {}
  /\ stop_token = FALSE
  /\ upc = [u \in Users |-> "submit"] /\ sent = [u \in Users |-> 0]
  /\ coll = "loop" /\ result = LastTask /\ collected = <<>>
  /\ opc = "alive"

(* Push the future of a task that std::async starts, all under m. *)
Launch(t) ==
  /\ task_results' = Append(task_results, t)
  /\ launched' = launched \cup {t}

(* notify_one: only the collector waits *)
NotifyCollector == coll' = IF coll = "asleep" THEN "get" ELSE coll
-----------------------------------------------------------------------------
Submit(u) ==
  /\ upc[u] = "submit" /\ sent[u] < PerUser
  /\ Launch(<<u, sent[u] + 1>>)
  /\ sent' = [sent EXCEPT ![u] = @ + 1]
  /\ upc' = [upc EXCEPT ![u] = "notify"]
  /\ UNCHANGED <<completed, stop_token, coll, result, collected, opc>>

SubmitNotify(u) ==
  /\ upc[u] = "notify"
  /\ NotifyCollector
  /\ upc' = [upc EXCEPT ![u] = "submit"]
  /\ UNCHANGED <<task_results, launched, completed, stop_token, sent, result,
                 collected, opc>>

(* A task ends, in the thread std::async gave it. *)
TaskEnds(t) ==
  /\ t \in launched \ completed
  /\ completed' = completed \cup {t}
  /\ UNCHANGED <<task_results, launched, stop_token, upc, sent, coll, result,
                 collected, opc>>
-----------------------------------------------------------------------------
(* The collector. *)

LoopTest ==
  /\ coll = "loop"
  /\ coll' = IF stop_token THEN "exited" ELSE "get"
  /\ UNCHANGED <<task_results, launched, completed, stop_token, upc, sent,
                 result, collected, opc>>

TakeResult ==
  /\ coll = "get" /\ task_results # <<>>
  /\ result' = Head(task_results)
  /\ task_results' = Tail(task_results)
  /\ coll' = "wait"
  /\ UNCHANGED <<launched, completed, stop_token, upc, sent, collected, opc>>

(* cv.wait with nothing queued *)
SleepOnCv ==
  /\ coll = "get" /\ task_results = <<>>
  /\ coll' = "asleep"
  /\ UNCHANGED <<task_results, launched, completed, stop_token, upc, sent,
                 result, collected, opc>>

SpuriousWakeup ==
  /\ coll = "asleep"
  /\ coll' = "get"
  /\ UNCHANGED <<task_results, launched, completed, stop_token, upc, sent,
                 result, collected, opc>>

(* Mutant: the future is reported without waiting for it. *)
ReportUnwaited ==
  /\ coll = "wait"
  /\ collected' = Append(collected, result)
  /\ coll' = "loop"
  /\ UNCHANGED <<task_results, launched, completed, stop_token, upc, sent,
                 result, opc>>

(* result.wait() returns, and the future goes out of scope *)
WaitResult ==
  /\ coll = "wait" /\ result \in completed
  /\ collected' = Append(collected, result)
  /\ coll' = "loop"
  /\ UNCHANGED <<task_results, launched, completed, stop_token, upc, sent,
                 result, opc>>
-----------------------------------------------------------------------------
(* ~SimpleAsync, when no user submits any more. *)

UsersDone == \A u \in Users : upc[u] = "submit" /\ sent[u] = PerUser

DestroyStop ==
  /\ opc = "alive" /\ UsersDone
  /\ stop_token' = TRUE
  /\ opc' = "submit"
  /\ UNCHANGED <<task_results, launched, completed, upc, sent, coll, result, collected>>

DestroySubmit ==
  /\ opc = "submit"
  /\ Launch(LastTask)
  /\ opc' = "notify"
  /\ UNCHANGED <<completed, stop_token, upc, sent, coll, result, collected>>

(* Mutant: the destructor does not wake the collector. *)
DestroyUnnotified ==
  /\ opc = "notify"
  /\ opc' = "join"
  /\ UNCHANGED <<task_results, launched, completed, stop_token, upc, sent,
                 coll, result, collected>>

DestroyNotify ==
  /\ opc = "notify"
  /\ NotifyCollector
  /\ opc' = "join"
  /\ UNCHANGED <<task_results, launched, completed, stop_token, upc, sent,
                 result, collected>>

DestroyJoin ==
  /\ opc = "join" /\ coll = "exited"
  /\ opc' = "futures"
  /\ UNCHANGED <<task_results, launched, completed, stop_token, upc, sent,
                 coll, result, collected>>

(* Mutant: the queue is dropped without waiting for its tasks. *)
DropFutures ==
  /\ opc = "futures"
  /\ task_results' = <<>>
  /\ opc' = "destroyed"
  /\ UNCHANGED <<launched, completed, stop_token, upc, sent, coll, result, collected>>

(* The deque is destroyed: each future of std::async waits for its task. *)
DestroyFutures ==
  /\ opc = "futures"
  /\ {task_results[i] : i \in DOMAIN task_results} \subseteq completed
  /\ task_results' = <<>>
  /\ opc' = "destroyed"
  /\ UNCHANGED <<launched, completed, stop_token, upc, sent, coll, result, collected>>

User(u) == Submit(u) \/ SubmitNotify(u)
Collector == LoopTest \/ TakeResult \/ SleepOnCv \/ WaitResult
Destructor == DestroyStop \/ DestroySubmit \/ DestroyNotify \/ DestroyJoin \/ DestroyFutures
Gone == opc = "destroyed" /\ UNCHANGED asyncVars

AsyncNext ==
  \/ \E u \in Users : User(u)
  \/ \E t \in AllTasks : TaskEnds(t)
  \/ Collector \/ SpuriousWakeup
  \/ Destructor \/ Gone

(* Every thread keeps running and every task ends. *)
AsyncFairness ==
  /\ \A u \in Users : WF_asyncVars(User(u))
  /\ \A t \in AllTasks : WF_asyncVars(TaskEnds(t))
  /\ WF_asyncVars(Collector) /\ WF_asyncVars(Destructor)

AsyncSpec == AsyncInit /\ [][AsyncNext]_asyncVars /\ AsyncFairness
-----------------------------------------------------------------------------
(* The shape of the state (simple_async.h:53-58); a task that has ended    *)
(* was submitted.                                                          *)
AsyncTypeOK ==
  /\ task_results \in Seq(AllTasks)
  /\ completed \subseteq launched /\ launched \subseteq AllTasks
  /\ stop_token \in BOOLEAN
  /\ upc \in [Users -> {"submit", "notify"}] /\ sent \in [Users -> 0 .. PerUser]
  /\ coll \in {"loop", "get", "asleep", "wait", "exited"}
  /\ result \in AllTasks /\ collected \in Seq(AllTasks)
  /\ opc \in {"alive", "submit", "notify", "join", "futures", "destroyed"}

(* When the destructor has returned no task runs any more, whether the     *)
(* collector waited for it or its future was still queued                  *)
(* (simple_async.h:45-51 and the order of the members :53-58).             *)
NoTaskOutlives == opc = "destroyed" => launched = AllTasks /\ completed = AllTasks

(* "async task ... done" is said of a task that is done, at most once, and *)
(* in the order the tasks of one user were submitted (:20-31).             *)
CollectedInOrder ==
  \A i \in DOMAIN collected :
    /\ collected[i] \in completed
    /\ \A j \in 1 .. i - 1 :
         /\ collected[j] # collected[i]
         /\ collected[i] \in UserTasks /\ collected[j] \in UserTasks
            /\ collected[i][1] = collected[j][1] => collected[j][2] < collected[i][2]

(* The destructor returns (:45-51). *)
AsyncDestructorReturns == <>(opc = "destroyed")
=============================================================================
