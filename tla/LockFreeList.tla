---------------------------- MODULE LockFreeList ----------------------------
(***************************************************************************)
(* slist_r over std::atomic (src/cpp11/slist.h): a singly linked list      *)
(* whose head is replaced by compare_exchange_weak in a loop.  Any number  *)
(* of threads push; one thread takes, as consumer3 of                      *)
(* src/listvslist-gc.cpp does: it looks at the head, and then takes the    *)
(* whole list with pop_all, or its first node with pop_front (the line     *)
(* consumer3 has as a comment): "way" says which.                          *)
(*                                                                         *)
(* A node is named by its pusher and its place among that pusher's nodes,  *)
(* which is also the data that consumer3 compares.  A spurious failure of  *)
(* the exchange changes nothing, so it is a stuttering step.               *)
(***************************************************************************)
EXTENDS Integers, Sequences, FiniteSets, SequencesExt

CONSTANTS
  Pushers,     (* the threads that call push_front                         *)
  PerPusher,   (* how many nodes each of them pushes                       *)
  Null         (* nullptr                                                  *)

ASSUME ListAssumption ==
  /\ IsFiniteSet(Pushers) /\ Pushers # {} /\ PerPusher \in Nat \ {0}
  /\ Null \notin Pushers \X (1 .. PerPusher)

VARIABLES
  head,        (* slist_r::head                                            *)
  next,        (* Node::next of every node                                 *)
  made,        (* how many nodes each pusher has allocated                 *)
  pushing,     (* whether a pusher is in the loop of exchange              *)
  way,         (* what consumer3 calls: pop_all or pop_front               *)
  cpc3,        (* where the taking thread is                               *)
  old,         (* its local old in pop_all and pop_front                   *)
  desired,     (* the argument old->next of pop_front, evaluated once      *)
  retried,     (* whether an exchange of pop_front has ever failed         *)
  taken,       (* the nodes whose data was read, in that order             *)
  freed,       (* the nodes that were deleted                              *)
  sleeps       (* sleep_count of consumer3                                 *)

listRefVars == <<way, head, next, made, pushing, cpc3, old, desired, retried, taken,
                 freed, sleeps>>

Nodes == Pushers \X (1 .. PerPusher)
NodeTotal == Cardinality(Pushers) * PerPusher

(* The nodes from n on. *)
Chain(n) ==
  LET from[m \in Nodes \cup {Null}] ==
        IF m = Null THEN <<>> ELSE <<m>> \o from[next[m]]
  IN from[n]

RefInit ==
  /\ way \in {"all", "front"}
  /\ head = Null
  /\ next = [n \in Nodes |-> Null]
  /\ made = [p \in Pushers |-> 0]
  /\ pushing = [p \in Pushers |-> FALSE]
  /\ cpc3 = "look" /\ old = Null /\ desired = Null /\ retried = FALSE
  /\ taken = <<>> /\ freed = {} /\ sleeps = 0
-----------------------------------------------------------------------------
(* push_front *)

(* A new node, and n->next = head *)
PushFrontLoad(p) ==
  /\ ~pushing[p] /\ made[p] < PerPusher
  /\ made' = [made EXCEPT ![p] = @ + 1]
  /\ pushing' = [pushing EXCEPT ![p] = TRUE]
  /\ next' = [next EXCEPT ![<<p, made[p] + 1>>] = head]
  /\ UNCHANGED <<head, cpc3, old, desired, retried, taken, freed, sleeps>>

(* Mutant: the new node is stored over whatever the head is by now. *)
PushFrontStore(p) ==
  /\ pushing[p]
  /\ head' = <<p, made[p]>>
  /\ pushing' = [pushing EXCEPT ![p] = FALSE]
  /\ UNCHANGED <<next, made, cpc3, old, desired, retried, taken, freed, sleeps>>

(* exchange(n->next, n): a failure loads the head into n->next *)
PushFrontExchange(p) ==
  LET n == <<p, made[p]>>
  IN /\ pushing[p]
     /\ IF head = next[n]
          THEN /\ head' = n
               /\ pushing' = [pushing EXCEPT ![p] = FALSE]
               /\ UNCHANGED next
          ELSE /\ next' = [next EXCEPT ![n] = head]
               /\ UNCHANGED <<head, pushing>>
     /\ UNCHANGED <<made, cpc3, old, desired, retried, taken, freed, sleeps>>
-----------------------------------------------------------------------------
(* consumer3 *)

(* while (count < total && sleep_count < total) *)
GoesOn == Len(taken) < NodeTotal /\ sleeps < NodeTotal

(* peek finds nothing: Sleep(0), sleep_count++ *)
PeekEmpty ==
  /\ cpc3 = "look" /\ GoesOn
  /\ head = Null
  /\ sleeps' = sleeps + 1
  /\ UNCHANGED <<head, next, made, pushing, cpc3, old, desired, retried, taken, freed>>

(* peek finds a node; only this thread takes nodes away, so the list is    *)
(* not empty when pop_all or pop_front loads the head.                     *)
PeekFound ==
  /\ cpc3 = "look" /\ GoesOn
  /\ head # Null
  /\ cpc3' = way
  /\ UNCHANGED <<head, next, made, pushing, old, desired, retried, taken, freed, sleeps>>

Load(to) ==
  /\ old' = head
  /\ cpc3' = to
  /\ UNCHANGED <<head, next, made, pushing, retried, taken, freed, sleeps>>

(* pop_all: the loop of exchange(old, nullptr) *)
PopAllLoad == cpc3 = "all" /\ Load("allExchange") /\ UNCHANGED desired

PopAllExchange ==
  /\ cpc3 = "allExchange"
  /\ IF head = old
       THEN head' = Null /\ cpc3' = "read" /\ UNCHANGED old
       ELSE old' = head /\ UNCHANGED <<head, cpc3>>
  /\ UNCHANGED <<next, made, pushing, desired, retried, taken, freed, sleeps>>

(* reverse, read every node, delete the first and with it all others: no   *)
(* other thread can reach these nodes                                      *)
ReverseAndRead ==
  /\ cpc3 = "read"
  /\ taken' = taken \o Reverse(Chain(old))
  /\ freed' = freed \cup Range(Chain(old))
  /\ cpc3' = "look"
  /\ UNCHANGED <<head, next, made, pushing, old, desired, retried, sleeps>>

(* pop_front: old = head, and the argument old->next *)
PopFrontLoad == cpc3 = "front" /\ Load("frontExchange") /\ desired' = next[head]

(* exchange(old, desired): a failure loads the head into old, and desired  *)
(* stays                                                                   *)
PopFrontExchange ==
  /\ cpc3 = "frontExchange"
  /\ IF head = old
       THEN head' = desired /\ cpc3' = "cut" /\ UNCHANGED <<old, retried>>
       ELSE old' = head /\ retried' = TRUE /\ UNCHANGED <<head, cpc3>>
  /\ UNCHANGED <<next, made, pushing, desired, taken, freed, sleeps>>

(* Mutant: old->next stays. *)
PopFrontLeaves ==
  /\ cpc3 = "cut"
  /\ cpc3' = "delete"
  /\ UNCHANGED <<head, next, made, pushing, old, desired, retried, taken, freed, sleeps>>

(* old->next = nullptr *)
PopFrontCut ==
  /\ cpc3 = "cut"
  /\ next' = [next EXCEPT ![old] = Null]
  /\ cpc3' = "delete"
  /\ UNCHANGED <<head, made, pushing, old, desired, retried, taken, freed, sleeps>>

(* The caller reads the node, and its unique_ptr deletes what it leads to. *)
ReadFront ==
  /\ cpc3 = "delete"
  /\ taken' = Append(taken, old)
  /\ freed' = freed \cup Range(Chain(old))
  /\ cpc3' = "look"
  /\ UNCHANGED <<head, next, made, pushing, old, desired, retried, sleeps>>

(* The loop of consumer3 ends. *)
ConsumerEnds ==
  /\ cpc3 = "look" /\ ~GoesOn
  /\ cpc3' = "done"
  /\ UNCHANGED <<head, next, made, pushing, old, desired, retried, taken, freed, sleeps>>

PushFront(p) == (PushFrontLoad(p) \/ PushFrontExchange(p)) /\ UNCHANGED way

Consumer3 ==
  /\ \/ PeekEmpty \/ PeekFound
     \/ PopAllLoad \/ PopAllExchange \/ ReverseAndRead
     \/ PopFrontLoad \/ PopFrontExchange \/ PopFrontCut \/ ReadFront
     \/ ConsumerEnds
  /\ UNCHANGED way

RefNext == Consumer3 \/ \E p \in Pushers : PushFront(p)

(* The loops have nothing left to do. *)
RefDone ==
  /\ cpc3 = "done" /\ \A p \in Pushers : made[p] = PerPusher /\ ~pushing[p]
  /\ UNCHANGED listRefVars

(* Nothing is promised of the pushers. *)
RefFairness == WF_listRefVars(Consumer3)

RefSpec == RefInit /\ [][RefNext \/ RefDone]_listRefVars /\ RefFairness
-----------------------------------------------------------------------------
InList == Range(Chain(head))

(* The nodes the taking thread holds and has not read. *)
InHand ==
  CASE cpc3 = "read" -> Range(Chain(old))
    [] cpc3 \in {"cut", "delete"} -> {old}
    [] OTHER -> {}

Pushed == {n \in Nodes : n[2] < made[n[1]] \/ (n[2] = made[n[1]] /\ ~pushing[n[1]])}

(* The shape of the state (slist.h:62-75).                                 *)
RefTypeOK ==
  /\ way \in {"all", "front"}
  /\ head \in Nodes \cup {Null} /\ next \in [Nodes -> Nodes \cup {Null}]
  /\ made \in [Pushers -> 0 .. PerPusher] /\ pushing \in [Pushers -> BOOLEAN]
  /\ cpc3 \in {"look", "all", "allExchange", "read", "front", "frontExchange",
               "cut", "delete", "done"}
  /\ old \in Nodes \cup {Null} /\ desired \in Nodes \cup {Null}
  /\ retried \in BOOLEAN /\ taken \in Seq(Nodes) /\ freed \subseteq Nodes
  /\ sleeps \in 0 .. NodeTotal

(* A node in the list or in the taker's hand is not deleted and not read   *)
(* yet, and no node is in both: no use after free, nothing delivered twice *)
(* (pop_front returns a unique_ptr and cuts old->next, slist.h:113-122).   *)
NoNodeTwice ==
  /\ InList \cap InHand = {}
  /\ (InList \cup InHand) \cap (freed \cup Range(taken)) = {}
  /\ Cardinality(Range(taken)) = Len(taken)

(* Every node pushed is in the list, in the taker's hand or read, unless   *)
(* an exchange of pop_front has failed: the only way to lose a node is the *)
(* successor that pop_front read before the failure ("lost some items",    *)
(* src/listvslist-gc.cpp:157).                                             *)
LostOnlyByRetry ==
  ~retried => Pushed = InList \cup InHand \cup Range(taken)

(* With pop_all the nodes of one pusher are read in the order of its       *)
(* calls, across all batches: with one pusher that is the comparison       *)
(* "++count != stoi" of consumer3 (src/listvslist-gc.cpp:162).             *)
ReadInOrder ==
  way = "all" =>
    \A k \in DOMAIN taken : \A m \in 1 .. k - 1 :
      taken[m][1] = taken[k][1] => taken[m][2] < taken[k][2]

(* The nodes of the list are accounted for (slist.h:101-131).              *)
NodesAccounted == NoNodeTwice /\ LostOnlyByRetry /\ ReadInOrder

(* What the list promises, one step of the head at a time. *)
Promise == INSTANCE AtomicStack WITH stack <- Chain(head), Elements <- Nodes

(* push_front, pop_all and pop_front are single steps of a stack           *)
(* (slist.h:94-131); a pop_front may take more than it returns.            *)
ImplementsStack == Promise!StackSpec

(* consumer3 always comes to its end, even when nodes were lost and        *)
(* whether or not the pushers go on (sleep_count, listvslist-gc.cpp:154).  *)
ConsumerReturns == <>(cpc3 = "done")
=============================================================================
