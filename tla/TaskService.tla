---------------------------- MODULE TaskService ----------------------------
(***************************************************************************)
(* What a thread pool promises its clients: tasks start in the order they  *)
(* were submitted, each at most once, at most Workers of them at a time;   *)
(* when the pool has been destroyed none runs and none ever will.  Nothing *)
(* is promised about tasks still waiting when the destructor is called.    *)
(***************************************************************************)
EXTENDS Naturals, Sequences, FiniteSets

CONSTANTS Tasks, Workers

VARIABLES
  waiting,   (* the submitted tasks that have not started, oldest first *)
  running,   (* the tasks that run                                      *)
  finished,  (* the tasks that ran                                      *)
  open       (* FALSE once the pool is destroyed                        *)

serviceVars == <<waiting, running, finished, open>>

ServiceInit ==
  /\ waiting = <<>> /\ running = {} /\ finished = {} /\ open = TRUE

Accept(t) ==
  /\ open
  /\ t \notin running \cup finished
  /\ waiting' = Append(waiting, t)
  /\ UNCHANGED <<running, finished, open>>

Start ==
  /\ open /\ waiting # <<>>
  /\ Cardinality(running) < Cardinality(Workers)
  /\ Head(waiting) \notin running \cup finished
  /\ running' = running \cup {Head(waiting)}
  /\ waiting' = Tail(waiting)
  /\ UNCHANGED <<finished, open>>

Finish(t) ==
  /\ t \in running
  /\ running' = running \ {t}
  /\ finished' = finished \cup {t}
  /\ UNCHANGED <<waiting, open>>

Close ==
  /\ open /\ running = {}
  /\ open' = FALSE
  /\ UNCHANGED <<waiting, running, finished>>

ServiceNext ==
  \/ \E t \in Tasks : Accept(t) \/ Finish(t)
  \/ Start
  \/ Close

ServiceSpec == ServiceInit /\ [][ServiceNext]_serviceVars
=============================================================================
