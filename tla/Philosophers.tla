---------------------------- MODULE Philosophers ----------------------------
(***************************************************************************)
(* src/cppcon/philosophers.cpp: the dining philosophers as actors.  The    *)
(* table and each philosopher are threads with a locked deque of messages; *)
(* a philosopher asks the table for a fork at a time, the table grants a   *)
(* free one and answers nothing when it is taken.                          *)
(*                                                                         *)
(* An actor empties its deque in one critical section of its own mutex.    *)
(* A philosopher only writes its own fields there, so that is one step;    *)
(* the table sends answers from inside it, so it is a step per message,    *)
(* and whoever wants to send to the table waits until it is over.          *)
(*                                                                         *)
(* Actor's constructor starts the thread before the derived object exists: *)
(* the thread calls the run() of whatever class the object is by then, and *)
(* Actor's own run() returns at once.  Each thread may thus be over from   *)
(* the start.                                                              *)
(***************************************************************************)
EXTENDS Integers, Sequences, FiniteSets

CONSTANTS
  N,       (* philosophers, and forks                                      *)
  Pending  (* bound: a philosopher's messages the table has not read       *)

ASSUME PhilosophersAssumption == N \in Nat \ {0, 1} /\ Pending \in Nat \ {0}

VARIABLES
  inbox,      (* the table's deque                                         *)
  mailbox,    (* each philosopher's deque: the forks granted               *)
  available,  (* the forks f with chopsticks_state[f]                      *)
  acquired,   (* the forks each philosopher has with is_acquired           *)
  tpc,        (* where the table's thread is                               *)
  ppc,        (* where each philosopher's thread is                        *)
  terminate,  (* the philosophers told to stop                             *)
  opc,        (* where main is, from the table's life to its destruction   *)
  eaten       (* the philosophers with eat_count > 0                       *)

vars == <<inbox, mailbox, available, acquired, tpc, ppc, terminate, opc, eaten>>

Philos == 0 .. N - 1
Forks == 0 .. N - 1

Left(p) == p

Right(p) == (p + 1) % N

Request(f, p) == [kind |-> "request", fork |-> f, philo |-> p]
Release(p) == [kind |-> "release", fork |-> Left(p), philo |-> p]

Init ==
  /\ inbox = <<>>
  /\ mailbox = [p \in Philos |-> <<>>]
  /\ available = Forks
  /\ acquired = [p \in Philos |-> {}]
  /\ tpc \in {"loop", "exited"}
  /\ ppc \in [Philos -> {"loop", "exited"}]
  /\ terminate = {}
  /\ opc = "alive"
  /\ eaten = {}
-----------------------------------------------------------------------------
(* DiningTable::run and receive *)

(* A round that finds the deque empty changes nothing and is not a step. *)
TableLock ==
  /\ tpc = "loop" /\ opc = "alive" /\ inbox # <<>>
  /\ tpc' = "draining"
  /\ UNCHANGED <<inbox, mailbox, available, acquired, ppc, terminate, opc, eaten>>

(* Mutant: a granted fork stays available. *)
GrantKeeps ==
  /\ tpc = "draining" /\ inbox # <<>>
  /\ Head(inbox).kind = "request"
  /\ Head(inbox).fork \in available
  /\ mailbox' = [mailbox EXCEPT ![Head(inbox).philo] = Append(@, Head(inbox).fork)]
  /\ inbox' = Tail(inbox)
  /\ UNCHANGED <<available, acquired, tpc, ppc, terminate, opc, eaten>>

Grant ==
  /\ tpc = "draining" /\ inbox # <<>>
  /\ Head(inbox).kind = "request"
  /\ Head(inbox).fork \in available
  /\ available' = available \ {Head(inbox).fork}
  /\ mailbox' = [mailbox EXCEPT ![Head(inbox).philo] = Append(@, Head(inbox).fork)]
  /\ inbox' = Tail(inbox)
  /\ UNCHANGED <<acquired, tpc, ppc, terminate, opc, eaten>>

(* The fork is taken: no answer, and nobody is put on a wait list. *)
Ignore ==
  /\ tpc = "draining" /\ inbox # <<>>
  /\ Head(inbox).kind = "request"
  /\ Head(inbox).fork \notin available
  /\ inbox' = Tail(inbox)
  /\ UNCHANGED <<mailbox, available, acquired, tpc, ppc, terminate, opc, eaten>>

TakeBack ==
  /\ tpc = "draining" /\ inbox # <<>>
  /\ Head(inbox).kind = "release"
  /\ available' = available \cup {Left(Head(inbox).philo), Right(Head(inbox).philo)}
  /\ inbox' = Tail(inbox)
  /\ UNCHANGED <<mailbox, acquired, tpc, ppc, terminate, opc, eaten>>

TableUnlock ==
  /\ tpc = "draining" /\ inbox = <<>>
  /\ tpc' = "loop"
  /\ UNCHANGED <<inbox, mailbox, available, acquired, ppc, terminate, opc, eaten>>

(* Mutant: terminate is read only when a message has come. *)
TableExitOnMessage ==
  /\ tpc = "loop" /\ opc # "alive" /\ inbox # <<>>
  /\ tpc' = "exited"
  /\ UNCHANGED <<inbox, mailbox, available, acquired, ppc, terminate, opc, eaten>>

(* while (!terminate) *)
TableExit ==
  /\ tpc = "loop" /\ opc # "alive"
  /\ tpc' = "exited"
  /\ UNCHANGED <<inbox, mailbox, available, acquired, ppc, terminate, opc, eaten>>

Table == TableLock \/ Grant \/ Ignore \/ TakeBack \/ TableUnlock \/ TableExit
-----------------------------------------------------------------------------
(* Philosopher::run and receive *)

Received(p) == {mailbox[p][i] : i \in 1 .. Len(mailbox[p])} \cap {Left(p), Right(p)}

Drain(p) ==
  /\ ppc[p] = "loop" /\ p \notin terminate
  /\ acquired' = [acquired EXCEPT ![p] = @ \cup Received(p)]
  /\ mailbox' = [mailbox EXCEPT ![p] = <<>>]
  /\ ppc' = [ppc EXCEPT ![p] = "act"]
  /\ UNCHANGED <<inbox, available, tpc, terminate, opc, eaten>>

PhiloExit(p) ==
  /\ ppc[p] = "loop" /\ p \in terminate
  /\ ppc' = [ppc EXCEPT ![p] = "exited"]
  /\ UNCHANGED <<inbox, mailbox, available, acquired, tpc, terminate, opc, eaten>>

(* enqueue, under the table's mutex.  What is sent to a table whose thread *)
(* is over is never read: it is not kept.                                  *)
SendTable(p, msg) ==
  /\ tpc # "draining"
  /\ Cardinality({i \in 1 .. Len(inbox) : inbox[i].philo = p}) < Pending
  /\ inbox' = IF tpc = "exited" THEN <<>> ELSE Append(inbox, msg)

Hungry(p) == ~({Left(p), Right(p)} \subseteq acquired[p])

(* Mutant: everyone begins with the left fork. *)
NextForkLeft(p) == IF Left(p) \in acquired[p] THEN Right(p) ELSE Left(p)

(* The missing fork; with none, left first for an even id, right for odd. *)
NextFork(p) ==
  IF \/ Left(p) \in acquired[p]
     \/ Right(p) \notin acquired[p] /\ p % 2 # 0
  THEN Right(p) ELSE Left(p)

RequestFork(p) ==
  /\ ppc[p] = "act" /\ Hungry(p)
  /\ SendTable(p, Request(NextFork(p), p))
  /\ ppc' = [ppc EXCEPT ![p] = "loop"]
  /\ UNCHANGED <<mailbox, available, acquired, tpc, terminate, opc, eaten>>

(* eat: the forks are given back first, is_acquired is left as it is *)
Eat(p) ==
  /\ ppc[p] = "act" /\ ~Hungry(p)
  /\ SendTable(p, Release(p))
  /\ eaten' = eaten \cup {p}
  /\ ppc' = [ppc EXCEPT ![p] = "loop"]
  /\ UNCHANGED <<mailbox, available, acquired, tpc, terminate, opc>>

Philosopher(p) == Drain(p) \/ RequestFork(p) \/ Eat(p) \/ PhiloExit(p)
-----------------------------------------------------------------------------
(* ~DiningTable: the table's thread is stopped and joined, then the map of *)
(* philosophers is destroyed, each stopped and joined before the next.     *)

DestroyTable ==
  /\ opc = "alive"
  /\ opc' = "joinTable"
  /\ UNCHANGED <<inbox, mailbox, available, acquired, tpc, ppc, terminate, eaten>>

TableJoined ==
  /\ opc = "joinTable" /\ tpc = "exited"
  /\ opc' = "philosophers"
  /\ inbox' = <<>>
  /\ UNCHANGED <<mailbox, available, acquired, tpc, ppc, terminate, eaten>>

DestroyPhilo(p) ==
  /\ opc = "philosophers"
  /\ p \notin terminate /\ \A q \in terminate : ppc[q] = "exited"
  /\ terminate' = terminate \cup {p}
  /\ UNCHANGED <<inbox, mailbox, available, acquired, tpc, ppc, opc, eaten>>

PhilosJoined ==
  /\ opc = "philosophers"
  /\ terminate = Philos /\ \A q \in Philos : ppc[q] = "exited"
  /\ opc' = "destroyed"
  /\ UNCHANGED <<inbox, mailbox, available, acquired, tpc, ppc, terminate, eaten>>

Teardown == TableJoined \/ (\E p \in Philos : DestroyPhilo(p)) \/ PhilosJoined
Destroyed == opc = "destroyed" /\ UNCHANGED vars

Next ==
  \/ Table
  \/ \E p \in Philos : Philosopher(p)
  \/ DestroyTable
  \/ Teardown
  \/ Destroyed

Safety == Init /\ [][Next]_vars

(* The threads run; a philosopher that waits for the table's mutex gets it *)
(* in the end (strong fairness, since the table takes it again and again); *)
(* main goes on once it has begun to destroy the table.                    *)
Spec ==
  /\ Safety
  /\ WF_vars(Table) /\ WF_vars(Teardown)
  /\ \A p \in Philos :
       /\ WF_vars(Drain(p) \/ PhiloExit(p))
       /\ SF_vars(RequestFork(p) \/ Eat(p))
-----------------------------------------------------------------------------
(* The shape of the state (philosophers.cpp:35-101, :183-190, :253-255). *)
Messages ==
  {Request(f, p) : f \in Forks, p \in Philos} \cup {Release(p) : p \in Philos}

TypeOK ==
  /\ inbox \in Seq(Messages)
  /\ mailbox \in [Philos -> Seq(Forks)]
  /\ available \subseteq Forks
  /\ acquired \in [Philos -> SUBSET Forks]
  /\ tpc \in {"loop", "draining", "exited"}
  /\ ppc \in [Philos -> {"loop", "act", "exited"}]
  /\ terminate \subseteq Philos
  /\ opc \in {"alive", "joinTable", "philosophers", "destroyed"}
  /\ eaten \subseteq Philos

Users(f) == {p \in Philos : f \in {Left(p), Right(p)}}
Holders(f) == {p \in Philos : f \in acquired[p] \cup Received(p)}

(* Until one of the two who use a fork has eaten, the fork is on the table *)
(* or on its way to or with exactly one of them: requests sent twice, and  *)
(* requests that are ignored, do not duplicate it (philosophers.cpp:208-   *)
(* 214, :125-141).                                                         *)
OneHolderBeforeMeal ==
  \A f \in Forks : Users(f) \cap eaten = {} =>
    Cardinality(Holders(f)) = IF f \in available THEN 0 ELSE 1

(* chopsticks_state "true mean avaiable" (philosophers.cpp:254): a fork    *)
(* that is available is acquired by nobody.                                *)
AvailableIsFree ==
  \A f \in available, p \in Philos : f \notin acquired[p]

(* No philosopher whose thread runs starves, whoever else's thread died in *)
(* its constructor: the even ids begin on the left and the odd ids on the  *)
(* right (philosophers.cpp:128-141), and an ignored request is repeated.   *)
EveryoneEats ==
  \A p \in Philos :
    tpc # "exited" /\ ppc[p] # "exited" ~> p \in eaten \/ opc # "alive"

(* Destroying the table ends: table and philosophers each come back from   *)
(* whatever mutex they wait for and see terminate (philosophers.cpp:80-84, *)
(* :227-230).                                                              *)
TeardownEnds == opc # "alive" ~> opc = "destroyed"
=============================================================================
