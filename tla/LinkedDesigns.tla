---------------------------- MODULE LinkedDesigns ---------------------------
(***************************************************************************)
(* Exercises on linked and circular storage: a cache that forgets the least *)
(* recently set key, a singly linked list, a double-ended queue in a ring. *)
(***************************************************************************)
EXTENDS Integers, Sequences, FiniteSets, SequencesExt

-----------------------------------------------------------------------------
(***************************************************************************)
(* LRUCache of src/HackerRank/HackerLRUCache.cpp: a map from keys to nodes *)
(* of a doubly linked list, the last set key at the head.  A node is the   *)
(* key it was made for, and a behaviour ends where something points to the *)
(* deleted node of an evicted key.                                         *)
(***************************************************************************)

CONSTANTS
  CacheKeys,
  cp,        (* the capacity                                               *)
  null

ASSUME CacheAssumption == cp \in Nat \ {0} /\ null \notin CacheKeys

VARIABLES
  mp,      (* the keys in the map                                          *)
  head, tail,
  next, prev,
  crashed, (* a null pointer was dereferenced                              *)
  recent,  (* the keys, the last set first: what the list stands for       *)
  stale,   (* history: the keys whose prev update should have set          *)
  followed (* history: whether the prev of one of those was used           *)

cacheVars == <<mp, head, tail, next, prev, crashed, recent, stale, followed>>

CacheInit ==
  /\ mp = {} /\ head = null /\ tail = null
  /\ next = [k \in CacheKeys |-> null] /\ prev = [k \in CacheKeys |-> null]
  /\ crashed = FALSE /\ recent = <<>> /\ stale = {} /\ followed = FALSE

Others(k) == RemoveFirst(recent, k)
-----------------------------------------------------------------------------
(* removeNode *)
NextWithout(k) == IF prev[k] # null THEN [next EXCEPT ![prev[k]] = next[k]] ELSE next
PrevWithout(k) == IF next[k] # null THEN [prev EXCEPT ![next[k]] = prev[k]] ELSE prev

(* update: the old head's prev stays null; the node after k gets k's prev *)
Update(k) ==
  /\ recent' = <<k>> \o Others(k)
  /\ IF k = head
     THEN UNCHANGED <<head, tail, next, prev, stale, followed>>
     ELSE /\ tail' = IF k = tail THEN prev[k] ELSE tail
          /\ next' = [NextWithout(k) EXCEPT ![k] = head]
          /\ prev' = [PrevWithout(k) EXCEPT ![k] = null]
          /\ head' = k
          /\ stale' = (stale \ {k, next[k]}) \cup {head}
          /\ followed' = (followed \/ k \in stale)
  /\ UNCHANGED <<mp, crashed>>

(* The list with a new node for k at the head. *)
Linked(k) ==
  [n |-> [next EXCEPT ![k] = head],
   p |-> IF tail # null /\ head # null
         THEN [prev EXCEPT ![k] = null, ![head] = k] ELSE [prev EXCEPT ![k] = null]]

(* set of a key that is not in the map: the tail is evicted for it *)
SetNew(k) ==
  LET last == IF tail = null THEN k ELSE tail
      links == Linked(k)
      before == links.p[last]
  IN /\ head' = k
     /\ IF Cardinality(mp \cup {k}) <= cp
        THEN /\ mp' = mp \cup {k} /\ tail' = last
             /\ next' = links.n /\ prev' = links.p
             /\ recent' = <<k>> \o recent
             /\ UNCHANGED <<crashed, stale, followed>>
        ELSE /\ mp' = (mp \cup {k}) \ {last} /\ tail' = before
             /\ next' = IF before = null THEN links.n ELSE [links.n EXCEPT ![before] = null]
             /\ prev' = links.p
             /\ recent' = RemoveFirst(<<k>> \o recent, last)
             /\ crashed' = (before = null)
             /\ stale' = stale \ {last}
             /\ followed' = (followed \/ last \in stale)

Pointed == {head, tail} \cup {next[k] : k \in mp} \cup {prev[k] : k \in mp}
Dangling == ~(Pointed \subseteq mp \cup {null})

Set(k) == ~crashed /\ ~Dangling /\ IF k \in mp THEN Update(k) ELSE SetNew(k)

CacheNext == \E k \in CacheKeys : Set(k)

CacheSpec == CacheInit /\ [][CacheNext]_cacheVars
-----------------------------------------------------------------------------
(* update never sets the old head's prev (HackerLRUCache.cpp:38-49), and   *)
(* that is all that is ever wrong, until such a prev is used: the list     *)
(* holds the keys of the map in the order they were set, linked both ways  *)
(* but for the old heads, so that an eviction takes the key set least      *)
(* recently (59-73).  No null pointer is followed before an old head is    *)
(* evicted or set again.                                                   *)
LinkedButForOldHeads ==
  ~followed =>
    /\ ~crashed
    /\ mp = {recent[i] : i \in 1 .. Len(recent)} /\ Len(recent) <= cp
    /\ recent # <<>> => head = recent[1] /\ tail = recent[Len(recent)]
    /\ \A i \in 1 .. Len(recent) :
         /\ next[recent[i]] = IF i = Len(recent) THEN null ELSE recent[i + 1]
         /\ prev[recent[i]] = IF i = 1 \/ recent[i] \in stale THEN null ELSE recent[i - 1]

-----------------------------------------------------------------------------
(***************************************************************************)
(* MyLinkedList of src/leetcode/LinkedList.cpp: a list whose nodes own     *)
(* each other, with a pointer to the last one.  The values do not matter.  *)
(***************************************************************************)

CONSTANTS ListNodes, none   (* the addresses, and nullptr                  *)

ASSUME ListAssumption == IsFiniteSet(ListNodes) /\ none \notin ListNodes

VARIABLES
  chain,   (* the nodes from head on                                       *)
  last,    (* tail                                                         *)
  length   (* size                                                         *)

listVars == <<chain, last, length>>

ListInit == chain = <<>> /\ last = none /\ length = 0

Fresh(n) == n \notin ToSet(chain) \cup {last}

AddAtHead(n) ==
  /\ chain' = <<n>> \o (IF last = none THEN <<>> ELSE chain)
  /\ last' = IF last = none THEN n ELSE last
  /\ length' = length + 1

(* tail->next = n: what was after tail is deleted. *)
AddAtTail(n) ==
  IF length = 0 THEN AddAtHead(n)
  ELSE /\ \E i \in DOMAIN chain : chain[i] = last /\ chain' = Append(SubSeq(chain, 1, i), n)
       /\ last' = n
       /\ length' = length + 1

AddAtIndex(index, n) ==
  \/ index <= 0 /\ AddAtHead(n)
  \/ index > 0 /\ index = length /\ AddAtTail(n)
  \/ /\ index > 0 /\ index < length
     /\ chain' = InsertAt(chain, index + 1, n)
     /\ length' = length + 1
     /\ UNCHANGED last

DeleteAtIndex(index) ==
  /\ index >= 0 /\ index < length
  /\ length' = length - 1
  /\ chain' = RemoveAt(chain, index + 1)
  /\ last' = IF length' = 0 THEN none
             ELSE IF index > 0 /\ index = length' THEN chain[index] ELSE last

ListNext ==
  \/ \E n \in ListNodes, index \in -1 .. length :
       Fresh(n) /\ (AddAtHead(n) \/ AddAtTail(n) \/ AddAtIndex(index, n))
  \/ \E index \in 0 .. length - 1 : DeleteAtIndex(index)

ListSpec == ListInit /\ [][ListNext]_listVars
-----------------------------------------------------------------------------
(* tail points to the last node and size counts them, so that addAtTail    *)
(* deletes nothing and no index below size runs off the list               *)
(* (LinkedList.cpp:396-485).                                               *)
TailIsLast ==
  /\ length = Len(chain)
  /\ last = IF chain = <<>> THEN none ELSE Last(chain)

-----------------------------------------------------------------------------
(***************************************************************************)
(* MyCircularDeque of src/leetcode/CircularDataStruct.cpp: "full" cells,   *)
(* of which "size" ones from "front" on are in use.  MyCircularQueue is    *)
(* the same with insertLast and deleteFront only.                          *)
(***************************************************************************)

CONSTANTS DequeValues, full

ASSUME DequeAssumption == full \in Nat \ {0} /\ DequeValues \subseteq Nat

VARIABLES dq, front, used  (* used: size *)

circularVars == <<dq, front, used>>

Cell(i) == i % full  (* of an i that is not negative *)

CircularInit == dq = [i \in 0 .. full - 1 |-> 0] /\ front = 0 /\ used = 0

InsertLast(v) ==
  /\ used < full
  /\ dq' = [dq EXCEPT ![Cell(front + used)] = v]
  /\ used' = used + 1
  /\ UNCHANGED front

InsertFront(v) ==
  \/ used = 0 /\ InsertLast(v)
  \/ /\ used > 0 /\ used < full
     /\ front' = Cell(front - 1 + full)
     /\ dq' = [dq EXCEPT ![front'] = v]
     /\ used' = used + 1

DeleteFront == used > 0 /\ front' = Cell(front + 1) /\ used' = used - 1 /\ UNCHANGED dq
DeleteLast == used > 0 /\ used' = used - 1 /\ UNCHANGED <<dq, front>>

GetFront == IF used = 0 THEN -1 ELSE dq[front]
GetRear == IF used = 0 THEN -1 ELSE dq[Cell(front + used - 1)]

CircularNext ==
  \/ \E v \in DequeValues : InsertFront(v) \/ InsertLast(v)
  \/ DeleteFront
  \/ DeleteLast

CircularSpec == CircularInit /\ [][CircularNext]_circularVars
-----------------------------------------------------------------------------
Abstract ==
  INSTANCE BoundedDeque WITH
    Room <- full, Nothing <- -1,
    items <- [i \in 1 .. used |-> dq[Cell(front + i - 1)]],
    shown <- <<GetFront, GetRear>>

(* Whichever end values are put in and taken from, and wherever the used   *)
(* cells wrap around, getFront and getRear tell the two ends of the deque  *)
(* (CircularDataStruct.cpp:7-83).                                          *)
ImplementsDeque == Abstract!DequeSpec
=============================================================================
