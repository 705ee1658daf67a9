------------------------------ MODULE SListEx ------------------------------
(***************************************************************************)
(* The design of the activity diagram in src/SlistEx.h: one producer takes *)
(* items from a MemoryRecycler, fills them and pushes each to the SListEx  *)
(* of some consumer; every consumer empties its list with GetItems, works  *)
(* through the items in the order they were pushed and recycles each one.  *)
(* A framework callback calls clearStats while they run.                   *)
(***************************************************************************)
EXTENDS MemoryRecycler, FiniteSets

CONSTANTS
  Consumers,   (* each with a list of its own                              *)
  Total,       (* the producer's loop bound                                *)
  MaxClears    (* bound: how often clearStats is called on each list       *)

ASSUME SListAssumption ==
  /\ IsFiniteSet(Consumers) /\ Total \in Nat /\ MaxClears \in Nat
  /\ IsFiniteSet(Getters) /\ Cardinality(Getters) = 1

VARIABLES
  list,       (* m_head of each list, last pushed first                    *)
  life, out,  (* m_NumItemsLife, m_NumItemsOut                             *)
  data,       (* the payload of each item                                  *)
  i,          (* the producer's loop counter                               *)
  dest,       (* the list of the push under way                            *)
  kpc,        (* where each consumer is                                    *)
  batch,      (* the items it works through, oldest first                  *)
  last,       (* history: the last value it read                           *)
  skipped,    (* history: the values the producer had no item for          *)
  subtract,   (* clearStats: what is taken off life and out                *)
  clears      (* clearStats: how many steps of it were taken on each list  *)

listVars == <<list, life, out, data, i, dest, kpc, batch, last, skipped,
              subtract, clears>>
slistVars == <<recyclerVars, listVars>>

Producer == CHOOSE g \in Getters : TRUE

SListInit ==
  /\ RecyclerInit
  /\ list = [c \in Consumers |-> <<>>]
  /\ life = [c \in Consumers |-> 0] /\ out = [c \in Consumers |-> 0]
  /\ data = [n \in 1 .. MaxItems |-> 0]
  /\ i = 1
  /\ dest \in Consumers
  /\ kpc = [c \in Consumers |-> "idle"]
  /\ batch = [c \in Consumers |-> <<>>]
  /\ last = [c \in Consumers |-> 0]
  /\ skipped = {}
  /\ subtract = [c \in Consumers |-> 0]
  /\ clears = [c \in Consumers |-> 0]
-----------------------------------------------------------------------------
(* producer2 *)

ProducerGets ==
  /\ i <= Total
  /\ Get(Producer)
  /\ UNCHANGED listVars

(* GetNewItem returned NULL: "continue", and this value is never sent *)
ProducerSkips ==
  /\ At(Producer, "failed")
  /\ skipped' = skipped \cup {i}
  /\ i' = i + 1
  /\ Go(Producer, "idle")
  /\ UNCHANGED <<free, currList, newed, item, tries, list, life, out, data,
                 dest, kpc, batch, last, subtract, clears>>

(* Fill the item; PushItem: InterlockedIncrement(&m_NumItemsLife) *)
PushItem ==
  /\ At(Producer, "held")
  /\ data' = [data EXCEPT ![item[Producer]] = i]
  /\ dest' \in Consumers
  /\ life' = [life EXCEPT ![dest'] = @ + 1]
  /\ Go(Producer, "push")
  /\ UNCHANGED <<free, currList, newed, item, tries, list, out, i, kpc, batch,
                 last, skipped, subtract, clears>>

(* PushItem: InterlockedPushEntrySList *)
PushEntry ==
  /\ At(Producer, "push")
  /\ list' = [list EXCEPT ![dest] = <<item[Producer]>> \o @]
  /\ item' = [item EXCEPT ![Producer] = NoItem]
  /\ i' = i + 1
  /\ Go(Producer, "idle")
  /\ UNCHANGED <<free, currList, newed, tries, life, out, data, dest, kpc,
                 batch, last, skipped, subtract, clears>>
-----------------------------------------------------------------------------
(* A consumer. *)

(* GetItems: m_NumItemsLife <= m_NumItemsOut returns, else go on *)
GetItemsTest(c) ==
  /\ kpc[c] = "idle"
  /\ life[c] > out[c]
  /\ kpc' = [kpc EXCEPT ![c] = "flush"]
  /\ UNCHANGED <<recyclerVars, list, life, out, data, i, dest, batch, last,
                 skipped, subtract, clears>>

(* Mutant: the list is read front to back. *)
GetItemsForward(c) ==
  /\ kpc[c] = "flush"
  /\ batch' = [batch EXCEPT ![c] = list[c]]
  /\ list' = [list EXCEPT ![c] = <<>>]
  /\ kpc' = [kpc EXCEPT ![c] = "count"]
  /\ UNCHANGED <<recyclerVars, life, out, data, i, dest, last, skipped,
                 subtract, clears>>

(* GetItems: InterlockedFlushSList; the caller reads from the back *)
GetItemsFlush(c) ==
  /\ kpc[c] = "flush"
  /\ batch' = [batch EXCEPT ![c] = Reverse(list[c])]
  /\ list' = [list EXCEPT ![c] = <<>>]
  /\ kpc' = [kpc EXCEPT ![c] = "count"]
  /\ UNCHANGED <<recyclerVars, life, out, data, i, dest, last, skipped,
                 subtract, clears>>

(* GetItems: InterlockedExchangeAdd(&m_NumItemsOut, size) *)
GetItemsCount(c) ==
  /\ kpc[c] = "count"
  /\ out' = [out EXCEPT ![c] = @ + Len(batch[c])]
  /\ kpc' = [kpc EXCEPT ![c] = "work"]
  /\ UNCHANGED <<recyclerVars, list, life, data, i, dest, batch, last,
                 skipped, subtract, clears>>

(* Mutant: the item is recycled before its data is read. *)
ConsumeRecycled(c) ==
  /\ kpc[c] = "work" /\ batch[c] # <<>>
  /\ Recycled(Head(batch[c]))
  /\ last' = [last EXCEPT ![c] = data[Head(batch[c])]]
  /\ UNCHANGED <<currList, newed, gpc, item, tries, list, life, out, data, i,
                 dest, kpc, batch, skipped, subtract, clears>>

(* Read the next item, then RecycleItem. *)
Consume(c) ==
  /\ kpc[c] = "work" /\ batch[c] # <<>>
  /\ last' = [last EXCEPT ![c] = data[Head(batch[c])]]
  /\ Recycled(Head(batch[c]))
  /\ batch' = [batch EXCEPT ![c] = Tail(@)]
  /\ UNCHANGED <<currList, newed, gpc, item, tries, list, life, out, data, i,
                 dest, kpc, skipped, subtract, clears>>

BatchDone(c) ==
  /\ kpc[c] = "work" /\ batch[c] = <<>>
  /\ kpc' = [kpc EXCEPT ![c] = "idle"]
  /\ UNCHANGED <<recyclerVars, list, life, out, data, i, dest, batch, last,
                 skipped, subtract, clears>>
-----------------------------------------------------------------------------
(* SListEx::clearStats: three reads and writes of the counters.  clears    *)
(* counts its steps: 3 of them make one call.                              *)

Clearing(c) == clears[c] % 3 # 0

ClearStatsRead(c) ==
  /\ clears[c] % 3 = 0 /\ clears[c] < 3 * MaxClears
  /\ subtract' = [subtract EXCEPT ![c] = IF out[c] > life[c] THEN life[c] ELSE out[c]]
  /\ clears' = [clears EXCEPT ![c] = @ + 1]
  /\ UNCHANGED <<recyclerVars, list, life, out, data, i, dest, kpc, batch,
                 last, skipped>>

(* Mutant: m_NumItemsLife is set to zero. *)
ClearStatsZero(c) ==
  /\ clears[c] % 3 = 1
  /\ life' = [life EXCEPT ![c] = 0]
  /\ clears' = [clears EXCEPT ![c] = @ + 1]
  /\ UNCHANGED <<recyclerVars, list, out, data, i, dest, kpc, batch, last,
                 skipped, subtract>>

ClearStatsLife(c) ==
  /\ clears[c] % 3 = 1
  /\ life' = [life EXCEPT ![c] = @ - subtract[c]]
  /\ clears' = [clears EXCEPT ![c] = @ + 1]
  /\ UNCHANGED <<recyclerVars, list, out, data, i, dest, kpc, batch, last,
                 skipped, subtract>>

ClearStatsOut(c) ==
  /\ clears[c] % 3 = 2
  /\ out' = [out EXCEPT ![c] = @ - subtract[c]]
  /\ clears' = [clears EXCEPT ![c] = @ + 1]
  /\ UNCHANGED <<recyclerVars, list, life, data, i, dest, kpc, batch, last,
                 skipped, subtract>>

Produce == ProducerGets \/ ProducerSkips \/ PushItem \/ PushEntry

ConsumeItems(c) ==
  \/ GetItemsTest(c) \/ GetItemsFlush(c) \/ GetItemsCount(c)
  \/ Consume(c) \/ BatchDone(c)

ClearStats(c) == ClearStatsRead(c) \/ ClearStatsLife(c) \/ ClearStatsOut(c)

SListNext == Produce \/ \E c \in Consumers : ConsumeItems(c) \/ ClearStats(c)

(* The threads keep running, and a clearStats that has begun ends. *)
SListSpec ==
  /\ SListInit /\ [][SListNext]_slistVars
  /\ WF_slistVars(Produce)
  /\ \A c \in Consumers :
       WF_slistVars(ConsumeItems(c)) /\ WF_slistVars(Clearing(c) /\ ClearStats(c))
-----------------------------------------------------------------------------
Items == 1 .. MaxItems

(* The shape of the state (SlistEx.h:39-43, :296-304); never more items    *)
(* than maxmemsize.                                                        *)
SListTypeOK ==
  /\ free \in Seq(Items) /\ currList \in Seq(Items) /\ newed \in 0 .. MaxItems
  /\ gpc \in [Getters -> {"idle", "flush", "new", "wait", "failed", "take",
                          "advance", "held", "push"}]
  /\ item \in [Getters -> Items \cup {NoItem}] /\ tries \in [Getters -> 0 .. WaitLimit]
  /\ \A c \in Consumers : list[c] \in Seq(Items) /\ batch[c] \in Seq(Items)
  /\ life \in [Consumers -> 0 .. Total] /\ out \in [Consumers -> 0 .. Total]
  /\ data \in [Items -> 0 .. Total] /\ i \in 1 .. Total + 1 /\ dest \in Consumers
  /\ kpc \in [Consumers -> {"idle", "flush", "count", "work"}]
  /\ last \in [Consumers -> 0 .. Total] /\ skipped \subseteq 1 .. Total
  /\ subtract \in [Consumers -> 0 .. Total] /\ clears \in [Consumers -> 0 .. 3 * MaxClears]

Occurrences(n, s) == Cardinality({k \in DOMAIN s : s[k] = n})

OccurrencesIn(n, seqs) ==
  Cardinality({p \in Consumers \X Items :
                 p[2] \in DOMAIN seqs[p[1]] /\ seqs[p[1]][p[2]] = n})

(* Every item ever allocated, MaxItems at most, is in exactly one place:   *)
(* on the recycler's stack, in currList, with the producer, in one list or *)
(* in one batch.  So no item leaks and none is filled while a consumer     *)
(* reads it (SlistEx.h:357-424).                                           *)
ItemInOnePlace ==
  SListTypeOK /\ \A n \in 1 .. newed :
    LET held == item[Producer] = n /\ gpc[Producer] \in {"held", "push"}
    IN Occurrences(n, free) + Occurrences(n, currList) + OccurrencesIn(n, list)
       + OccurrencesIn(n, batch) + (IF held THEN 1 ELSE 0) = 1

(* A consumer reads the values of its list in the order they were pushed   *)
(* ("Read from BACK to get the right order", SlistEx.h:95).                *)
ReadsInOrder == [][\A c \in Consumers : last'[c] # last[c] => last'[c] > last[c]]_slistVars

(* The counters of a list are off by an item whose push is under way, by a *)
(* batch that was flushed and not yet counted, and by half a clearStats.   *)
Pushing(c) == IF gpc[Producer] = "push" /\ dest = c THEN 1 ELSE 0
Flushed(c) == IF kpc[c] = "count" THEN Len(batch[c]) ELSE 0
Cleared(c) == IF clears[c] % 3 = 2 THEN subtract[c] ELSE 0

(* m_NumItemsLife - m_NumItemsOut, the size() of a list, counts what is in *)
(* it, what is being pushed and what was flushed but not yet counted, and  *)
(* clearStats does not change it.                                          *)
SizeMatches ==
  \A c \in Consumers :
    life[c] - out[c] + Cleared(c) = Len(list[c]) + Flushed(c) + Pushing(c)

(* Every value the producer had an item for is read: the early return of   *)
(* GetItems, which looks only at the two counters, never hides an item for *)
(* ever, also while clearStats changes them one after the other.           *)
NothingStuck ==
  <>[](/\ i = Total + 1
       /\ \A c \in Consumers : list[c] = <<>> /\ batch[c] = <<>> /\ life[c] = out[c])
=============================================================================
