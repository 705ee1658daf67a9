--------------------------- MODULE MemoryRecycler ---------------------------
(***************************************************************************)
(* MemoryRecycler of src/SlistEx.h: a bounded pool of list items.          *)
(* RecycleItem pushes an item on a lock-free stack (a Windows SLIST);      *)
(* GetNewItem serves from currList, a plain pointer to items it flushed    *)
(* from the stack, and allocates or waits when both are empty.             *)
(*                                                                         *)
(* The three interlocked operations of the SLIST are external and atomic.  *)
(* A chain of items is the sequence of its items, so currList->Next is the *)
(* tail.  The module has the variables and the operations; who calls them  *)
(* is said by the modules that extend it.                                  *)
(***************************************************************************)
EXTENDS Integers, SequencesExt

CONSTANTS
  Getters,     (* the threads that call GetNewItem                         *)
  InitItems,   (* initmemsize: items allocated by the constructor          *)
  MaxItems,    (* maxmemsize                                               *)
  WaitLimit,   (* the 100 sleeps of GetNewItem                             *)
  NoItem       (* NULL                                                     *)

ASSUME RecyclerAssumption ==
  /\ InitItems \in Nat /\ MaxItems \in Nat \ {0} /\ InitItems <= MaxItems
  /\ WaitLimit \in Nat \ {0} /\ NoItem \notin Nat

VARIABLES
  free,      (* m_head: the recycled items                                 *)
  currList,  (* the items GetNewItem serves next                           *)
  newed,     (* m_NewedItems: the items are 1 .. newed                     *)
  gpc,       (* where each getter is                                       *)
  item,      (* the item each getter has taken                             *)
  tries      (* sSleep                                                     *)

recyclerVars == <<free, currList, newed, gpc, item, tries>>

RecyclerInit ==
  /\ free = Reverse([i \in 1 .. InitItems |-> i])
  /\ currList = <<>>
  /\ newed = InitItems
  /\ gpc = [g \in Getters |-> "idle"]
  /\ item = [g \in Getters |-> NoItem]
  /\ tries = [g \in Getters |-> 0]

At(g, l) == gpc[g] = l
Go(g, l) == gpc' = [gpc EXCEPT ![g] = l]
-----------------------------------------------------------------------------
(* GetNewItem, step by step. *)

(* if (currList == NULL) *)
GetNewItem(g) ==
  /\ At(g, "idle")
  /\ Go(g, IF currList = <<>> THEN "flush" ELSE "take")
  /\ UNCHANGED <<free, currList, newed, item, tries>>

(* currList = InterlockedFlushSList(&m_head), and what follows from it *)
Flush(g) ==
  /\ At(g, "flush")
  /\ currList' = free
  /\ free' = <<>>
  /\ Go(g, IF free # <<>> THEN "take" ELSE IF newed >= MaxItems THEN "wait" ELSE "new")
  /\ UNCHANGED <<newed, item, tries>>

(* a new item; two getters may both have seen room for one *)
NewItem(g) ==
  /\ At(g, "new")
  /\ newed' = newed + 1
  /\ item' = [item EXCEPT ![g] = newed + 1]
  /\ Go(g, "held")
  /\ UNCHANGED <<free, currList, tries>>

(* the wait loop: flush again, sleep when there is nothing *)
WaitFlush(g) ==
  /\ At(g, "wait") /\ tries[g] < WaitLimit
  /\ currList' = free
  /\ free' = <<>>
  /\ IF free = <<>>
       THEN tries' = [tries EXCEPT ![g] = @ + 1] /\ UNCHANGED gpc
       ELSE tries' = [tries EXCEPT ![g] = 0] /\ Go(g, "take")
  /\ UNCHANGED <<newed, item>>

(* return NULL *)
GiveUp(g) ==
  /\ At(g, "wait") /\ tries[g] = WaitLimit
  /\ tries' = [tries EXCEPT ![g] = 0]
  /\ item' = [item EXCEPT ![g] = NoItem]
  /\ Go(g, "failed")
  /\ UNCHANGED <<free, currList, newed>>

(* newItem = currList *)
Take(g) ==
  /\ At(g, "take") /\ currList # <<>>
  /\ item' = [item EXCEPT ![g] = Head(currList)]
  /\ Go(g, "advance")
  /\ UNCHANGED <<free, currList, newed, tries>>

(* currList = currList->Next *)
Advance(g) ==
  /\ At(g, "advance") /\ currList # <<>>
  /\ currList' = Tail(currList)
  /\ Go(g, "held")
  /\ UNCHANGED <<free, newed, item, tries>>

Get(g) ==
  \/ GetNewItem(g) \/ Flush(g) \/ NewItem(g) \/ WaitFlush(g) \/ GiveUp(g)
  \/ Take(g) \/ Advance(g)

(* RecycleItem(i): the effect on the stack, atomic *)
Recycled(i) == free' = <<i>> \o free
-----------------------------------------------------------------------------
(* The simplest use, by the comment "GetNewItem ... Can be called from     *)
(* multiple thread" (SlistEx.h:287-288): every getter gets an item, keeps  *)
(* it for a while and recycles it.                                         *)
RecycleHeld(g) ==
  /\ At(g, "held")
  /\ Recycled(item[g])
  /\ item' = [item EXCEPT ![g] = NoItem]
  /\ Go(g, "idle")
  /\ UNCHANGED <<currList, newed, tries>>

Retry(g) ==
  /\ At(g, "failed")
  /\ Go(g, "idle")
  /\ UNCHANGED <<free, currList, newed, item, tries>>

SharedNext == \E g \in Getters : Get(g) \/ RecycleHeld(g) \/ Retry(g)
SharedSpec == RecyclerInit /\ [][SharedNext]_recyclerVars

(* GetNewItem gives an item to one caller at a time. *)
ItemsExclusive ==
  \A g, h \in Getters : g # h /\ At(g, "held") /\ At(h, "held") => item[g] # item[h]
=============================================================================
