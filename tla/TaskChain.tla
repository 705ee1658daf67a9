----------------------------- MODULE TaskChain -----------------------------
(***************************************************************************)
(* Task chains of src/cppcon/TaskWaiting.cpp: submit_and_continue(task)    *)
(* .then(task).then(task), called by main while the pool already runs the  *)
(* first tasks.  The executor is the task service that thread_pool         *)
(* implements (module TaskService); what is added here is                  *)
(* Chaining_internals, whose mutex makes the end of a task and the call of *)
(* then() on it exclude each other.                                        *)
(***************************************************************************)
EXTENDS TaskService

CONSTANTS
  NumChains, Length,   (* main builds NumChains chains of Length tasks     *)
  None                 (* the empty shared_ptr                             *)

ASSUME ChainAssumption ==
  /\ NumChains \in Nat \ {0} /\ Length \in Nat \ {0}
  /\ Tasks = (1 .. NumChains) \X (1 .. Length)
  /\ None \notin Tasks

VARIABLES
  built,          (* how many tasks main has handed over so far            *)
  ended,          (* the tasks whose current_task() has returned           *)
  complete,       (* Chaining_internals::complete                          *)
  continuation    (* Chaining_internals::continuation                      *)

chainVars == <<serviceVars, built, ended, complete, continuation>>

NumTasks == NumChains * Length

(* The task main builds as its n-th, and the task before it in its chain.  *)
Nth(n) == <<((n - 1) \div Length) + 1, ((n - 1) % Length) + 1>>
Before(t) == <<t[1], t[2] - 1>>

ChainInit ==
  /\ ServiceInit
  /\ built = 0
  /\ ended = {}
  /\ complete = [t \in Tasks |-> FALSE]
  /\ continuation = [t \in Tasks |-> None]
-----------------------------------------------------------------------------
(* main *)

(* submit_and_continue: a new chain *)
SubmitAndContinue ==
  /\ built < NumTasks
  /\ LET t == Nth(built + 1)
     IN t[2] = 1 /\ Accept(t)
  /\ built' = built + 1
  /\ UNCHANGED <<ended, complete, continuation>>

(* Mutant: chain_next leaves the task to its predecessor in every case. *)
ChainNextStores(t) ==
  /\ continuation' = [continuation EXCEPT ![Before(t)] = t]
  /\ UNCHANGED serviceVars

(* chain_next, under the predecessor's mutex *)
ChainNext(t) ==
  \/ /\ complete[Before(t)]
     /\ Accept(t)
     /\ UNCHANGED continuation
  \/ /\ ~complete[Before(t)]
     /\ continuation' = [continuation EXCEPT ![Before(t)] = t]
     /\ UNCHANGED serviceVars

(* Task_Handle::then *)
Then ==
  /\ built < NumTasks
  /\ LET t == Nth(built + 1)
     IN t[2] > 1 /\ ChainNext(t)
  /\ built' = built + 1
  /\ UNCHANGED <<ended, complete>>
-----------------------------------------------------------------------------
(* Chaining_internals::run, in a worker *)

RunStart == Start /\ UNCHANGED <<built, ended, complete, continuation>>

(* Mutant: run() submits the continuation before current_task(). *)
CurrentTaskLast(t) ==
  /\ t \in running \ ended
  /\ ~complete[t]
  /\ complete' = [complete EXCEPT ![t] = TRUE]
  /\ waiting' = IF continuation[t] = None THEN waiting
                ELSE Append(waiting, continuation[t])
  /\ UNCHANGED <<running, finished, open, built, ended, continuation>>

(* current_task() returns *)
CurrentTaskEnds(t) ==
  /\ t \in running \ ended
  /\ ended' = ended \cup {t}
  /\ UNCHANGED <<serviceVars, built, complete, continuation>>

(* Under the task's own mutex: complete = true, and submit what then() left *)
RunCompletes(t) ==
  /\ t \in running \cap ended
  /\ ~complete[t]
  /\ complete' = [complete EXCEPT ![t] = TRUE]
  /\ IF continuation[t] = None
       THEN UNCHANGED serviceVars
       ELSE Accept(continuation[t])
  /\ UNCHANGED <<built, ended, continuation>>

(* run() returns to the worker loop *)
RunReturns(t) ==
  /\ complete[t]
  /\ Finish(t)
  /\ UNCHANGED <<built, ended, complete, continuation>>

Main == SubmitAndContinue \/ Then
Run(t) == CurrentTaskEnds(t) \/ RunCompletes(t) \/ RunReturns(t)

(* main returns after a sleep longer than all tasks together, so the pool  *)
(* is destroyed when everything has run.                                   *)
MainReturns ==
  /\ finished = Tasks
  /\ Close
  /\ UNCHANGED <<built, ended, complete, continuation>>

Returned == ~open /\ UNCHANGED chainVars

ChainNextState ==
  \/ Main
  \/ RunStart
  \/ \E t \in Tasks : Run(t)
  \/ MainReturns
  \/ Returned

(* Main and the workers keep running. *)
ChainFairness ==
  /\ WF_chainVars(Main) /\ WF_chainVars(RunStart)
  /\ \A t \in Tasks : WF_chainVars(Run(t))

ChainSpec == ChainInit /\ [][ChainNextState]_chainVars /\ ChainFairness
-----------------------------------------------------------------------------
Waiting == {waiting[i] : i \in DOMAIN waiting}

(* The shape of the state (TaskWaiting.cpp:131-138); the pool is only ever *)
(* given tasks that exist.                                                 *)
ChainTypeOK ==
  /\ waiting \in Seq(Tasks) /\ running \subseteq Tasks /\ finished \subseteq Tasks
  /\ open \in BOOLEAN
  /\ built \in 0 .. NumTasks /\ ended \subseteq Tasks
  /\ complete \in [Tasks -> BOOLEAN]
  /\ continuation \in [Tasks -> Tasks \cup {None}]

(* A task starts only when current_task() of the task before it in its     *)
(* chain has returned (TaskWaiting.cpp:115-130).                           *)
RunsAfterPredecessor ==
  \A t \in Tasks :
    t[2] > 1 /\ t \in running \cup finished => Before(t) \in ended

(* Every task main has handed over is in exactly one place: left with a    *)
(* predecessor that will still look, queued, running or finished.  None is *)
(* lost in the race of then() with the end of the task, none runs twice.   *)
InOnePlace ==
  \A n \in 1 .. built :
    LET t == Nth(n)
        left == t[2] > 1 /\ continuation[Before(t)] = t /\ ~complete[Before(t)]
        queued == Cardinality({i \in DOMAIN waiting : waiting[i] = t})
    IN queued + Cardinality({p \in {"left"} : left})
       + Cardinality({p \in {"run"} : t \in running})
       + Cardinality({p \in {"fin"} : t \in finished}) = 1

(* Every task of every chain runs. *)
AllTasksRun == <>(finished = Tasks)
=============================================================================
