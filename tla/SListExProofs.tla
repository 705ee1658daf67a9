--------------------------- MODULE SListExProofs ---------------------------
(***************************************************************************)
(* Proofs about module SListEx for every number of items, values and       *)
(* consumers: the counters of a list match its content, every item is in   *)
(* exactly one place, and a consumer reads in the order of the pushes.     *)
(***************************************************************************)
EXTENDS SListEx, FiniteSetTheorems, SequenceTheorems, TLAPS

Cells == Nat \cup {NoItem}

(* As much of the types as the counters need: the recycler's, the lists',  *)
(* the counters'.                                                          *)
PoolTypes ==
  /\ free \in Seq(Cells) /\ currList \in Seq(Cells) /\ newed \in Nat
  /\ gpc \in [Getters -> {"idle", "flush", "new", "wait", "failed", "take",
                          "advance", "held", "push"}]
  /\ item \in [Getters -> Cells]
HeldTypes == list \in [Consumers -> Seq(Cells)] /\ batch \in [Consumers -> Seq(Cells)]
CounterTypes ==
  /\ life \in [Consumers -> Int] /\ out \in [Consumers -> Int]
  /\ subtract \in [Consumers -> Int] /\ clears \in [Consumers -> Nat]
PlaceTypes ==
  kpc \in [Consumers -> {"idle", "flush", "count", "work"}] /\ dest \in Consumers

ListTypes == PoolTypes /\ HeldTypes /\ CounterTypes /\ PlaceTypes

(* Each part stays when its variables do.                                  *)
LEMMA PoolKept == ASSUME PoolTypes, UNCHANGED recyclerVars PROVE PoolTypes'
BY DEF PoolTypes, recyclerVars
LEMMA HeldKept == ASSUME HeldTypes, UNCHANGED <<list, batch>> PROVE HeldTypes'
BY DEF HeldTypes
LEMMA CountersKept ==
  ASSUME CounterTypes, UNCHANGED <<life, out, subtract, clears>> PROVE CounterTypes'
BY DEF CounterTypes
LEMMA PlacesKept == ASSUME PlaceTypes, UNCHANGED <<kpc, dest>> PROVE PlaceTypes'
BY DEF PlaceTypes

(* Writing one entry of a table.                                           *)
LEMMA Stored ==
  ASSUME NEW S, NEW T, NEW f \in [S -> T], NEW x \in S, NEW v \in T
  PROVE  [f EXCEPT ![x] = v] \in [S -> T]
OBVIOUS

(* There is a producer.                                                    *)
LEMMA OneProducer == Producer \in Getters
<1>1. Getters # {}
  <2>1. IsFiniteSet({}) /\ Cardinality({}) = 0
    BY FS_EmptySet
  <2>2. QED
    BY <2>1, SListAssumption
<1>2. QED
  BY <1>1 DEF Producer

(* Turning a list round keeps its cells and its length.                    *)
LEMMA Reversed ==
  ASSUME NEW s \in Seq(Cells)
  PROVE  Reverse(s) \in Seq(Cells) /\ Len(Reverse(s)) = Len(s)
<1>1. \A k \in 1 .. Len(s) : s[Len(s) - k + 1] \in Cells
  <2>1. ASSUME NEW k \in 1 .. Len(s) PROVE s[Len(s) - k + 1] \in Cells
    <3>1. Len(s) - k + 1 \in 1 .. Len(s)
      OBVIOUS
    <3>2. QED
      BY <3>1, ElementOfSeq
  <2>2. QED
    BY <2>1
<1>2. QED
  BY <1>1 DEF Reverse
-----------------------------------------------------------------------------
(* The lists start empty and typed.                                        *)
LEMMA ListInitType == SListInit => ListTypes /\ SizeMatches
<1> SUFFICES ASSUME SListInit PROVE ListTypes /\ SizeMatches
  OBVIOUS
<1> USE DEF SListInit, RecyclerInit
<1>1. free \in Seq(Cells)
  <2>1. InitItems \in Nat
    BY RecyclerAssumption
  <2>2. [k \in 1 .. InitItems |-> k] \in Seq(Cells)
    BY <2>1 DEF Cells
  <2>3. QED
    BY <2>2, Reversed
<1>2. newed \in Nat
  BY RecyclerAssumption
<1>3. <<>> \in Seq(Cells)
  BY EmptySeq
<1>4. PoolTypes
  BY <1>1, <1>2, <1>3 DEF PoolTypes, Cells
<1>5. HeldTypes
  BY <1>3 DEF HeldTypes
<1>6. CounterTypes
  BY DEF CounterTypes
<1>7. PlaceTypes
  BY DEF PlaceTypes
<1>8. SizeMatches
  BY OneProducer DEF SizeMatches, Pushing, Flushed, Cleared
<1>9. QED
  BY <1>4, <1>5, <1>6, <1>7, <1>8 DEF ListTypes

(* GetNewItem keeps the types and does not touch what the lists hold; its  *)
(* caller is not pushing before it and not after it.                       *)
LEMMA GetFacts ==
  ASSUME PoolTypes, Get(Producer)
  PROVE  PoolTypes' /\ gpc[Producer] # "push" /\ gpc'[Producer] # "push"
<1> USE OneProducer DEF PoolTypes, At, Go
<1>1. <<>> \in Seq(Cells)
  BY EmptySeq
<1>2. CASE GetNewItem(Producer)
  BY <1>2 DEF GetNewItem
<1>3. CASE Flush(Producer)
  BY <1>1, <1>3 DEF Flush
<1>4. CASE NewItem(Producer)
  <2>1. newed + 1 \in Cells /\ newed + 1 \in Nat
    BY DEF Cells
  <2>2. QED
    BY <1>4, <2>1 DEF NewItem
<1>5. CASE WaitFlush(Producer)
  BY <1>1, <1>5 DEF WaitFlush
<1>6. CASE GiveUp(Producer)
  BY <1>6 DEF GiveUp, Cells
<1>7. CASE Take(Producer)
  <2>1. Head(currList) \in Cells
    BY <1>7, HeadTailProperties DEF Take
  <2>2. QED
    BY <1>7, <2>1 DEF Take
<1>8. CASE Advance(Producer)
  <2>1. Tail(currList) \in Seq(Cells)
    BY <1>8, HeadTailProperties DEF Advance
  <2>2. QED
    BY <1>8, <2>1 DEF Advance
<1>9. QED
  BY <1>2, <1>3, <1>4, <1>5, <1>6, <1>7, <1>8 DEF Get
-----------------------------------------------------------------------------
(* The numbers of a list are integers.                                     *)
LEMMA Numbers ==
  ASSUME ListTypes, NEW c \in Consumers
  PROVE  /\ life[c] \in Int /\ out[c] \in Int /\ subtract[c] \in Int
         /\ Len(list[c]) \in Nat /\ Len(batch[c]) \in Nat /\ clears[c] \in Nat
         /\ Cleared(c) \in Int /\ Flushed(c) \in Int /\ Pushing(c) \in Int
<1>1. list[c] \in Seq(Cells) /\ batch[c] \in Seq(Cells)
  BY DEF ListTypes, HeldTypes
<1>2. Len(list[c]) \in Nat /\ Len(batch[c]) \in Nat
  BY <1>1, LenProperties
<1>3. life[c] \in Int /\ out[c] \in Int /\ subtract[c] \in Int /\ clears[c] \in Nat
  BY DEF ListTypes, CounterTypes
<1>4. QED
  BY <1>2, <1>3 DEF Cleared, Flushed, Pushing

(* A step that leaves the counters and the lists alone.                    *)
LEMMA Untouched ==
  ASSUME SizeMatches, UNCHANGED <<list, life, out, batch, kpc, subtract, clears>>,
         gpc[Producer] # "push", gpc'[Producer] # "push"
  PROVE  SizeMatches'
BY DEF SizeMatches, Pushing, Flushed, Cleared

(* Adding a number on both sides.                                          *)
LEMMA Balance ==
  ASSUME NEW a \in Int, NEW o \in Int, NEW k \in Int, NEW l \in Int, NEW f \in Int,
         NEW p \in Int, a - o + k = l + f
  PROVE  (a + p) - o + k = l + f + p
OBVIOUS

(* Every step of the producer keeps the types and the counters.            *)
LEMMA ProduceStep ==
  ASSUME ListTypes, SizeMatches, Produce
  PROVE  ListTypes' /\ SizeMatches'
<1> USE OneProducer
<1>0. PoolTypes /\ HeldTypes /\ CounterTypes /\ PlaceTypes
  BY DEF ListTypes
<1>1. CASE ProducerGets
  <2>1. Get(Producer) /\ UNCHANGED listVars
    BY <1>1 DEF ProducerGets
  <2>2. UNCHANGED <<list, life, out, batch, kpc, subtract, clears, dest>>
    BY <2>1 DEF listVars
  <2>3. ListTypes'
    BY <1>0, <2>1, <2>2, GetFacts, HeldKept, CountersKept, PlacesKept DEF ListTypes
  <2>4. SizeMatches'
    BY <1>0, <2>1, <2>2, GetFacts, Untouched
  <2>5. QED
    BY <2>3, <2>4
<1>2. CASE ProducerSkips
  <2>1. gpc[Producer] # "push" /\ gpc'[Producer] # "push" /\ PoolTypes'
    BY <1>0, <1>2 DEF ProducerSkips, At, Go, PoolTypes
  <2>2. UNCHANGED <<list, life, out, batch, kpc, subtract, clears, dest>>
    BY <1>2 DEF ProducerSkips
  <2>3. ListTypes'
    BY <1>0, <2>1, <2>2, HeldKept, CountersKept, PlacesKept DEF ListTypes
  <2>4. QED
    BY <2>1, <2>2, <2>3, Untouched
<1>3. CASE PushItem
  <2>1. /\ dest' \in Consumers /\ life' = [life EXCEPT ![dest'] = @ + 1]
        /\ gpc[Producer] = "held" /\ gpc' = [gpc EXCEPT ![Producer] = "push"]
        /\ UNCHANGED <<free, currList, newed, item, list, out, kpc, batch, subtract, clears>>
    BY <1>3 DEF PushItem, At, Go
  <2>2. gpc'[Producer] = "push" /\ PoolTypes'
    BY <1>0, <2>1 DEF PoolTypes
  <2>3. HeldTypes'
    BY <1>0, <2>1, HeldKept
  <2>4. CounterTypes'
    <3>1. life \in [Consumers -> Int] /\ life[dest'] + 1 \in Int
      BY <1>0, <2>1 DEF CounterTypes
    <3>2. life' \in [Consumers -> Int]
      BY <2>1, <3>1, Stored
    <3>3. QED
      BY <1>0, <2>1, <3>2 DEF CounterTypes
  <2>5. PlaceTypes'
    BY <1>0, <2>1 DEF PlaceTypes
  <2>6. ASSUME NEW c \in Consumers
        PROVE  /\ life'[c] = life[c] + Pushing(c)' /\ Pushing(c) = 0
               /\ Pushing(c)' \in Int
    <3>1. life \in [Consumers -> Int]
      BY <1>0 DEF CounterTypes
    <3>2. life'[c] = IF c = dest' THEN life[c] + 1 ELSE life[c]
      BY <2>1, <3>1
    <3>3. Pushing(c) = 0 /\ Pushing(c)' = IF c = dest' THEN 1 ELSE 0
      BY <2>1, <2>2 DEF Pushing
    <3>4. life[c] \in Int
      BY <3>1
    <3>5. QED
      BY <3>2, <3>3, <3>4
  <2>7. ASSUME NEW c \in Consumers
        PROVE  (life[c] - out[c] + Cleared(c) = Len(list[c]) + Flushed(c) + Pushing(c))'
    <3>1. life[c] - out[c] + Cleared(c) = Len(list[c]) + Flushed(c) + Pushing(c)
      BY DEF SizeMatches
    <3>2. /\ Flushed(c)' = Flushed(c) /\ Cleared(c)' = Cleared(c)
          /\ out'[c] = out[c] /\ Len(list'[c]) = Len(list[c])
      BY <2>1 DEF Flushed, Cleared
    <3>3. /\ life[c] \in Int /\ out[c] \in Int /\ Len(list[c]) \in Nat
          /\ Cleared(c) \in Int /\ Flushed(c) \in Int
      BY Numbers
    <3>4. life'[c] = life[c] + Pushing(c)' /\ Pushing(c) = 0 /\ Pushing(c)' \in Int
      BY <2>6
    <3>5. life[c] - out[c] + Cleared(c) = Len(list[c]) + Flushed(c)
      BY <3>1, <3>3, <3>4
    <3>6. (life[c] + Pushing(c)') - out[c] + Cleared(c)
            = Len(list[c]) + Flushed(c) + Pushing(c)'
      BY <3>3, <3>4, <3>5, Balance
    <3>7. life'[c] - out'[c] + Cleared(c)' = Len(list'[c]) + Flushed(c)' + Pushing(c)'
      BY <3>2, <3>4, <3>6
    <3>8. QED
      BY <3>7
  <2>8. QED
    BY <2>2, <2>3, <2>4, <2>5, <2>7 DEF SizeMatches, ListTypes
<1>4. CASE PushEntry
  <2>1. <<item[Producer]>> \in Seq(Cells) /\ Len(<<item[Producer]>>) = 1
    BY <1>0 DEF PoolTypes
  <2>2. /\ list' = [list EXCEPT ![dest] = <<item[Producer]>> \o @]
        /\ item' = [item EXCEPT ![Producer] = NoItem]
        /\ gpc[Producer] = "push" /\ gpc' = [gpc EXCEPT ![Producer] = "idle"]
        /\ UNCHANGED <<free, currList, newed, life, out, dest, kpc, batch, subtract, clears>>
    BY <1>4 DEF PushEntry, At, Go
  <2>3. PoolTypes' /\ gpc'[Producer] = "idle"
    BY <1>0, <2>2 DEF PoolTypes, Cells
  <2>4. /\ dest \in Consumers /\ list \in [Consumers -> Seq(Cells)]
        /\ list[dest] \in Seq(Cells) /\ batch \in [Consumers -> Seq(Cells)]
    BY <1>0 DEF HeldTypes, PlaceTypes
  <2>5. /\ <<item[Producer]>> \o list[dest] \in Seq(Cells)
        /\ Len(<<item[Producer]>> \o list[dest]) = Len(list[dest]) + 1
    BY <2>1, <2>4, ConcatProperties, LenProperties
  <2>6. HeldTypes'
    BY <2>2, <2>4, <2>5, Stored DEF HeldTypes
  <2>7. ListTypes'
    BY <1>0, <2>2, <2>3, <2>6, CountersKept, PlacesKept DEF ListTypes
  <2>8. ASSUME NEW c \in Consumers
        PROVE  /\ Len(list'[c]) = Len(list[c]) + Pushing(c) /\ Pushing(c)' = 0
               /\ Flushed(c)' = Flushed(c) /\ Cleared(c)' = Cleared(c)
               /\ out' = out /\ life' = life
    <3>1. Len(list[c]) \in Nat
      BY Numbers
    <3>2. Pushing(c) = (IF c = dest THEN 1 ELSE 0) /\ Pushing(c)' = 0
      BY <2>2, <2>3 DEF Pushing
    <3>3. CASE c = dest
      BY <2>2, <2>4, <2>5, <3>2, <3>3 DEF Flushed, Cleared
    <3>4. CASE c # dest
      BY <2>2, <2>4, <3>1, <3>2, <3>4 DEF Flushed, Cleared
    <3>5. QED
      BY <3>3, <3>4
  <2>9. ASSUME NEW c \in Consumers
        PROVE  (life[c] - out[c] + Cleared(c) = Len(list[c]) + Flushed(c) + Pushing(c))'
    <3>1. life[c] - out[c] + Cleared(c) = Len(list[c]) + Flushed(c) + Pushing(c)
      BY DEF SizeMatches
    <3>2. /\ life[c] \in Int /\ out[c] \in Int /\ Len(list[c]) \in Nat
          /\ Cleared(c) \in Int /\ Flushed(c) \in Int /\ Pushing(c) \in Int
      BY Numbers
    <3>3. /\ Len(list'[c]) = Len(list[c]) + Pushing(c) /\ Pushing(c)' = 0
          /\ Flushed(c)' = Flushed(c) /\ Cleared(c)' = Cleared(c)
          /\ out' = out /\ life' = life
      BY <2>8
    <3>4. QED
      BY <3>1, <3>2, <3>3
  <2>10. QED
    BY <2>7, <2>9 DEF SizeMatches
<1>5. QED
  BY <1>1, <1>2, <1>3, <1>4 DEF Produce

(* A step of one consumer or of clearStats on one list: it is enough to    *)
(* look at that list.                                                      *)
LEMMA OneList ==
  ASSUME ListTypes, SizeMatches, NEW c \in Consumers, UNCHANGED <<gpc, dest>>,
         \A d \in Consumers \ {c} :
           /\ list'[d] = list[d] /\ life'[d] = life[d] /\ out'[d] = out[d]
           /\ batch'[d] = batch[d] /\ kpc'[d] = kpc[d]
           /\ subtract'[d] = subtract[d] /\ clears'[d] = clears[d],
         life'[c] - out'[c] + Cleared(c)' - Len(list'[c]) - Flushed(c)'
           = life[c] - out[c] + Cleared(c) - Len(list[c]) - Flushed(c),
         ListTypes'
  PROVE  SizeMatches'
<1>1. (life[c] - out[c] + Cleared(c) = Len(list[c]) + Flushed(c) + Pushing(c))'
  <2>1. life[c] - out[c] + Cleared(c) = Len(list[c]) + Flushed(c) + Pushing(c)
    BY DEF SizeMatches
  <2>2. Pushing(c)' = Pushing(c)
    BY DEF Pushing
  <2>3. /\ life'[c] \in Int /\ out'[c] \in Int /\ Len(list'[c]) \in Int
        /\ Cleared(c)' \in Int /\ Flushed(c)' \in Int
    <3>1. list'[c] \in Seq(Cells) /\ batch'[c] \in Seq(Cells)
      BY DEF ListTypes, HeldTypes
    <3>2. Len(list'[c]) \in Nat /\ Len(batch'[c]) \in Nat
      BY <3>1, LenProperties
    <3>3. life'[c] \in Int /\ out'[c] \in Int /\ subtract'[c] \in Int
      BY DEF ListTypes, CounterTypes
    <3>4. QED
      BY <3>2, <3>3 DEF Cleared, Flushed
  <2>4. /\ life[c] \in Int /\ out[c] \in Int /\ Len(list[c]) \in Int
        /\ Cleared(c) \in Int /\ Flushed(c) \in Int /\ Pushing(c) \in Int
    BY Numbers
  <2>5. life[c] - out[c] + Cleared(c) - Len(list[c]) - Flushed(c) = Pushing(c)
    <3> DEFINE x == life[c] - out[c]
               k == Cleared(c)
               l == Len(list[c])
               f == Flushed(c)
               p == Pushing(c)
    <3>1. x \in Int /\ k \in Int /\ l \in Int /\ f \in Int /\ p \in Int
      BY <2>4
    <3>2. x + k = l + f + p
      BY <2>1
    <3> HIDE DEF x, k, l, f, p
    <3>3. x + k - l - f = p
      BY <3>1, <3>2
    <3>4. QED
      BY <3>3 DEF x, k, l, f, p
  <2>6. life'[c] - out'[c] + Cleared(c)' - Len(list'[c]) - Flushed(c)' = Pushing(c)'
    BY <2>2, <2>5
  <2>7. Pushing(c)' \in Int
    BY <2>2, <2>4
  <2>8. life'[c] - out'[c] + Cleared(c)' = Len(list'[c]) + Flushed(c)' + Pushing(c)'
    BY <2>3, <2>6, <2>7
  <2>9. QED
    BY <2>8
<1>2. ASSUME NEW d \in Consumers, d # c
      PROVE  (life[d] - out[d] + Cleared(d) = Len(list[d]) + Flushed(d) + Pushing(d))'
  <2>1. life[d] - out[d] + Cleared(d) = Len(list[d]) + Flushed(d) + Pushing(d)
    BY DEF SizeMatches
  <2>2. Pushing(d)' = Pushing(d) /\ Flushed(d)' = Flushed(d) /\ Cleared(d)' = Cleared(d)
    BY <1>2 DEF Pushing, Flushed, Cleared
  <2>3. QED
    BY <1>2, <2>1, <2>2
<1>3. QED
  BY <1>1, <1>2 DEF SizeMatches

(* The same for a step that leaves the list and its counters alone.        *)
LEMMA ListLeft ==
  ASSUME ListTypes, SizeMatches, NEW c \in Consumers, UNCHANGED <<gpc, dest>>,
         UNCHANGED <<list, life, out, subtract, clears>>,
         \A d \in Consumers \ {c} : batch'[d] = batch[d] /\ kpc'[d] = kpc[d],
         Flushed(c)' = Flushed(c), ListTypes'
  PROVE  SizeMatches'
<1>1. Cleared(c)' = Cleared(c)
  BY DEF Cleared
<1>2. life'[c] - out'[c] + Cleared(c)' - Len(list'[c]) - Flushed(c)'
        = life[c] - out[c] + Cleared(c) - Len(list[c]) - Flushed(c)
  BY <1>1
<1>3. QED
  BY <1>2, OneList

(* Every step of a consumer keeps the types and the counters.              *)
LEMMA ConsumeStep ==
  ASSUME ListTypes, SizeMatches, NEW c \in Consumers, ConsumeItems(c)
  PROVE  ListTypes' /\ SizeMatches'
<1>0. /\ PoolTypes /\ HeldTypes /\ CounterTypes /\ PlaceTypes
      /\ list[c] \in Seq(Cells) /\ batch[c] \in Seq(Cells) /\ <<>> \in Seq(Cells)
      /\ kpc \in [Consumers -> {"idle", "flush", "count", "work"}]
  BY EmptySeq DEF ListTypes, HeldTypes, PlaceTypes
<1>1. \A d \in Consumers \ {c} : \A v : [kpc EXCEPT ![c] = v][d] = kpc[d]
  BY <1>0
<1>2. CASE GetItemsTest(c)
  <2>1. /\ kpc[c] = "idle" /\ kpc' = [kpc EXCEPT ![c] = "flush"]
        /\ UNCHANGED recyclerVars
        /\ UNCHANGED <<list, life, out, dest, batch, subtract, clears>>
    BY <1>2 DEF GetItemsTest
  <2>2. PlaceTypes' /\ Flushed(c)' = Flushed(c)
    BY <1>0, <2>1 DEF PlaceTypes, Flushed
  <2>3. ListTypes' /\ UNCHANGED gpc
    BY <1>0, <2>1, <2>2, PoolKept, HeldKept, CountersKept DEF ListTypes, recyclerVars
  <2>4. QED
    BY <1>1, <2>1, <2>2, <2>3, ListLeft
<1>3. CASE GetItemsFlush(c)
  <2>1. /\ kpc[c] = "flush" /\ kpc' = [kpc EXCEPT ![c] = "count"]
        /\ batch' = [batch EXCEPT ![c] = Reverse(list[c])]
        /\ list' = [list EXCEPT ![c] = <<>>]
        /\ UNCHANGED recyclerVars /\ UNCHANGED <<life, out, dest, subtract, clears>>
    BY <1>3 DEF GetItemsFlush
  <2>2. Reverse(list[c]) \in Seq(Cells) /\ Len(Reverse(list[c])) = Len(list[c])
    BY <1>0, Reversed
  <2>3. HeldTypes' /\ PlaceTypes'
    BY <1>0, <2>1, <2>2, Stored DEF HeldTypes, PlaceTypes
  <2>4. ListTypes' /\ UNCHANGED gpc
    BY <1>0, <2>1, <2>3, PoolKept, CountersKept DEF ListTypes, recyclerVars
  <2>5. /\ batch'[c] = Reverse(list[c]) /\ list'[c] = <<>> /\ kpc'[c] = "count"
        /\ \A d \in Consumers \ {c} :
             batch'[d] = batch[d] /\ list'[d] = list[d] /\ kpc'[d] = kpc[d]
    BY <1>0, <2>1 DEF HeldTypes
  <2>6. /\ Flushed(c)' = Len(list[c]) /\ Flushed(c) = 0 /\ Len(list'[c]) = 0
        /\ Cleared(c)' = Cleared(c) /\ life'[c] = life[c] /\ out'[c] = out[c]
    BY <2>1, <2>2, <2>5, EmptySeq DEF Flushed, Cleared
  <2>7. life'[c] - out'[c] + Cleared(c)' - Len(list'[c]) - Flushed(c)'
           = life[c] - out[c] + Cleared(c) - Len(list[c]) - Flushed(c)
    BY <2>6, Numbers
  <2>8. QED
    BY <2>1, <2>4, <2>5, <2>7, OneList
<1>4. CASE GetItemsCount(c)
  <2>1. /\ kpc[c] = "count" /\ kpc' = [kpc EXCEPT ![c] = "work"]
        /\ out' = [out EXCEPT ![c] = @ + Len(batch[c])]
        /\ UNCHANGED recyclerVars
        /\ UNCHANGED <<list, life, dest, batch, subtract, clears>>
    BY <1>4 DEF GetItemsCount
  <2>2. out \in [Consumers -> Int] /\ out[c] + Len(batch[c]) \in Int
    BY <1>0, Numbers DEF CounterTypes
  <2>3. out' \in [Consumers -> Int] /\ PlaceTypes'
    BY <1>0, <2>1, <2>2, Stored DEF PlaceTypes
  <2>4. CounterTypes'
    BY <1>0, <2>1, <2>3 DEF CounterTypes
  <2>5. ListTypes' /\ UNCHANGED gpc
    BY <1>0, <2>1, <2>3, <2>4, PoolKept, HeldKept DEF ListTypes, recyclerVars
  <2>6. /\ out'[c] = out[c] + Len(batch[c]) /\ kpc'[c] = "work"
        /\ \A d \in Consumers \ {c} : out'[d] = out[d] /\ kpc'[d] = kpc[d]
    BY <1>0, <2>1, <2>2
  <2>7. /\ Flushed(c)' = 0 /\ Flushed(c) = Len(batch[c])
        /\ Cleared(c)' = Cleared(c) /\ list'[c] = list[c] /\ life'[c] = life[c]
    BY <2>1, <2>6 DEF Flushed, Cleared
  <2>8. life'[c] - out'[c] + Cleared(c)' - Len(list'[c]) - Flushed(c)'
           = life[c] - out[c] + Cleared(c) - Len(list[c]) - Flushed(c)
    <3> DEFINE x == life[c]
               o == out[c]
               k == Cleared(c)
               l == Len(list[c])
               b == Len(batch[c])
    <3>1. x \in Int /\ o \in Int /\ k \in Int /\ l \in Int /\ b \in Int
      BY Numbers
    <3> HIDE DEF x, o, k, l, b
    <3>2. x - (o + b) + k - l - 0 = x - o + k - l - b
      BY <3>1
    <3>3. QED
      BY <2>6, <2>7, <3>2 DEF x, o, k, l, b
  <2>9. QED
    BY <2>1, <2>5, <2>6, <2>8, OneList
<1>5. CASE Consume(c)
  <2>1. /\ kpc[c] = "work" /\ batch[c] # <<>> /\ batch' = [batch EXCEPT ![c] = Tail(@)]
        /\ free' = <<Head(batch[c])>> \o free
        /\ UNCHANGED <<currList, newed, gpc, item>>
        /\ UNCHANGED <<list, life, out, dest, kpc, subtract, clears>>
    BY <1>5 DEF Consume, Recycled
  <2>2. Head(batch[c]) \in Cells /\ Tail(batch[c]) \in Seq(Cells)
    BY <1>0, <2>1, HeadTailProperties
  <2>3. <<Head(batch[c])>> \in Seq(Cells) /\ free \in Seq(Cells)
    BY <1>0, <2>2 DEF PoolTypes
  <2>4. free' \in Seq(Cells)
    BY <2>1, <2>3, ConcatProperties
  <2>5. PoolTypes'
    BY <1>0, <2>1, <2>4 DEF PoolTypes
  <2>6. HeldTypes'
    BY <1>0, <2>1, <2>2, Stored DEF HeldTypes
  <2>7. ListTypes'
    BY <1>0, <2>1, <2>5, <2>6, CountersKept, PlacesKept DEF ListTypes
  <2>8. Flushed(c)' = Flushed(c) /\ \A d \in Consumers \ {c} : batch'[d] = batch[d]
    BY <1>0, <2>1 DEF Flushed, HeldTypes
  <2>9. QED
    BY <2>1, <2>7, <2>8, ListLeft
<1>6. CASE BatchDone(c)
  <2>1. /\ kpc[c] = "work" /\ kpc' = [kpc EXCEPT ![c] = "idle"]
        /\ UNCHANGED recyclerVars
        /\ UNCHANGED <<list, life, out, dest, batch, subtract, clears>>
    BY <1>6 DEF BatchDone
  <2>2. PlaceTypes' /\ Flushed(c)' = Flushed(c)
    BY <1>0, <2>1 DEF PlaceTypes, Flushed
  <2>3. ListTypes' /\ UNCHANGED gpc
    BY <1>0, <2>1, <2>2, PoolKept, HeldKept, CountersKept DEF ListTypes, recyclerVars
  <2>4. QED
    BY <1>1, <2>1, <2>2, <2>3, ListLeft
<1>7. QED
  BY <1>2, <1>3, <1>4, <1>5, <1>6 DEF ConsumeItems

(* The next step of a clearStats under way.                                *)
LEMMA NextThird ==
  ASSUME NEW n \in Nat
  PROVE  /\ n % 3 = 0 => (n + 1) % 3 = 1
         /\ n % 3 = 1 => (n + 1) % 3 = 2
         /\ n % 3 = 2 => (n + 1) % 3 = 0
OBVIOUS

(* Counting one more step of a clearStats.                                 *)
LEMMA ClearsNext ==
  ASSUME CounterTypes, NEW c \in Consumers, clears' = [clears EXCEPT ![c] = @ + 1]
  PROVE  /\ clears' \in [Consumers -> Nat] /\ clears'[c] = clears[c] + 1
         /\ clears[c] \in Nat /\ \A d \in Consumers \ {c} : clears'[d] = clears[d]
<1>1. clears \in [Consumers -> Nat]
  BY DEF CounterTypes
<1>2. clears[c] \in Nat /\ clears[c] + 1 \in Nat
  BY <1>1
<1>3. QED
  BY <1>1, <1>2

(* Every step of clearStats keeps the types and the counters.              *)
LEMMA ClearStep ==
  ASSUME ListTypes, SizeMatches, NEW c \in Consumers, ClearStats(c)
  PROVE  ListTypes' /\ SizeMatches'
<1>0. /\ PoolTypes /\ HeldTypes /\ CounterTypes /\ PlaceTypes
      /\ life \in [Consumers -> Int] /\ out \in [Consumers -> Int]
      /\ subtract \in [Consumers -> Int] /\ clears[c] \in Nat
      /\ life[c] \in Int /\ out[c] \in Int /\ subtract[c] \in Int
  BY Numbers DEF ListTypes, CounterTypes
<1>1. CASE ClearStatsRead(c)
  <2> DEFINE v == IF out[c] > life[c] THEN life[c] ELSE out[c]
  <2>1. /\ clears[c] % 3 = 0 /\ subtract' = [subtract EXCEPT ![c] = v]
        /\ clears' = [clears EXCEPT ![c] = @ + 1]
        /\ UNCHANGED recyclerVars /\ UNCHANGED <<list, life, out, dest, kpc, batch>>
    BY <1>1 DEF ClearStatsRead
  <2>2. v \in Int
    BY <1>0
  <2> HIDE DEF v
  <2>3. CounterTypes'
    BY <1>0, <2>1, <2>2, ClearsNext, Stored DEF CounterTypes
  <2>4. ListTypes' /\ UNCHANGED gpc
    BY <1>0, <2>1, <2>3, PoolKept, HeldKept, PlacesKept DEF ListTypes, recyclerVars
  <2>5. \A d \in Consumers \ {c} : subtract'[d] = subtract[d] /\ clears'[d] = clears[d]
    BY <1>0, <2>1, ClearsNext
  <2>6. clears'[c] % 3 = 1
    BY <1>0, <2>1, ClearsNext, NextThird
  <2>7. Flushed(c)' = Flushed(c) /\ Cleared(c)' = 0 /\ Cleared(c) = 0
    BY <2>1, <2>6 DEF Flushed, Cleared
  <2>8. life'[c] - out'[c] + Cleared(c)' - Len(list'[c]) - Flushed(c)'
           = life[c] - out[c] + Cleared(c) - Len(list[c]) - Flushed(c)
    BY <2>1, <2>7
  <2>9. QED
    BY <2>1, <2>4, <2>5, <2>8, OneList
<1>2. CASE ClearStatsLife(c)
  <2>1. /\ clears[c] % 3 = 1 /\ life' = [life EXCEPT ![c] = @ - subtract[c]]
        /\ clears' = [clears EXCEPT ![c] = @ + 1] /\ UNCHANGED recyclerVars
        /\ UNCHANGED <<list, out, dest, kpc, batch, subtract>>
    BY <1>2 DEF ClearStatsLife
  <2>2. life[c] - subtract[c] \in Int
    BY <1>0
  <2>3. CounterTypes'
    BY <1>0, <2>1, <2>2, ClearsNext, Stored DEF CounterTypes
  <2>4. ListTypes' /\ UNCHANGED gpc
    BY <1>0, <2>1, <2>3, PoolKept, HeldKept, PlacesKept DEF ListTypes, recyclerVars
  <2>5. /\ life'[c] = life[c] - subtract[c]
        /\ \A d \in Consumers \ {c} : life'[d] = life[d] /\ clears'[d] = clears[d]
    BY <1>0, <2>1, <2>2, ClearsNext
  <2>6. clears'[c] % 3 = 2
    BY <1>0, <2>1, ClearsNext, NextThird
  <2>7. /\ Flushed(c)' = Flushed(c) /\ Cleared(c)' = subtract[c] /\ Cleared(c) = 0
        /\ out'[c] = out[c] /\ list'[c] = list[c]
    BY <2>1, <2>6 DEF Flushed, Cleared
  <2>8. life'[c] - out'[c] + Cleared(c)' - Len(list'[c]) - Flushed(c)'
           = life[c] - out[c] + Cleared(c) - Len(list[c]) - Flushed(c)
    BY <2>5, <2>7, Numbers
  <2>9. QED
    BY <2>1, <2>4, <2>5, <2>8, OneList
<1>3. CASE ClearStatsOut(c)
  <2>1. /\ clears[c] % 3 = 2 /\ out' = [out EXCEPT ![c] = @ - subtract[c]]
        /\ clears' = [clears EXCEPT ![c] = @ + 1] /\ UNCHANGED recyclerVars
        /\ UNCHANGED <<list, life, dest, kpc, batch, subtract>>
    BY <1>3 DEF ClearStatsOut
  <2>2. out[c] - subtract[c] \in Int
    BY <1>0
  <2>3. CounterTypes'
    BY <1>0, <2>1, <2>2, ClearsNext, Stored DEF CounterTypes
  <2>4. ListTypes' /\ UNCHANGED gpc
    BY <1>0, <2>1, <2>3, PoolKept, HeldKept, PlacesKept DEF ListTypes, recyclerVars
  <2>5. /\ out'[c] = out[c] - subtract[c]
        /\ \A d \in Consumers \ {c} : out'[d] = out[d] /\ clears'[d] = clears[d]
    BY <1>0, <2>1, <2>2, ClearsNext
  <2>6. clears'[c] % 3 = 0
    BY <1>0, <2>1, ClearsNext, NextThird
  <2>7. /\ Flushed(c)' = Flushed(c) /\ Cleared(c)' = 0 /\ Cleared(c) = subtract[c]
        /\ life'[c] = life[c] /\ list'[c] = list[c]
    BY <2>1, <2>6 DEF Flushed, Cleared
  <2>8. life'[c] - out'[c] + Cleared(c)' - Len(list'[c]) - Flushed(c)'
           = life[c] - out[c] + Cleared(c) - Len(list[c]) - Flushed(c)
    BY <2>5, <2>7, Numbers
  <2>9. QED
    BY <2>1, <2>4, <2>5, <2>8, OneList
<1>4. QED
  BY <1>1, <1>2, <1>3 DEF ClearStats
-----------------------------------------------------------------------------
(* Nothing changes.                                                        *)
LEMMA ListStutter ==
  ASSUME ListTypes, SizeMatches, UNCHANGED slistVars
  PROVE  ListTypes' /\ SizeMatches'
<1>1. UNCHANGED recyclerVars /\ UNCHANGED listVars
  BY DEF slistVars
<1>2. UNCHANGED <<gpc, dest, list, batch, life, out, subtract, clears, kpc>>
  BY <1>1 DEF recyclerVars, listVars
<1>3. ListTypes'
  BY <1>1, <1>2, PoolKept, HeldKept, CountersKept, PlacesKept DEF ListTypes
<1>4. SizeMatches'
  BY <1>2 DEF SizeMatches, Pushing, Flushed, Cleared
<1>5. QED
  BY <1>3, <1>4

(* m_NumItemsLife - m_NumItemsOut counts the items of a list, the one on   *)
(* its way and the flushed ones not yet counted, for any number of items,  *)
(* values, consumers and calls of clearStats (SlistEx.h:78, :112, :239).   *)
THEOREM CountersMatch == SListSpec => []SizeMatches
<1>1. ListTypes /\ SizeMatches /\ [SListNext]_slistVars => ListTypes' /\ SizeMatches'
  BY ProduceStep, ConsumeStep, ClearStep, ListStutter DEF SListNext
<1>2. QED
  BY <1>1, ListInitType, PTL DEF SListSpec
-----------------------------------------------------------------------------
(* Where the items are.                                                    *)

(* The sequences that hold items, each at its place.                       *)
Places == ({"free", "curr"} \X {NoItem}) \cup ({"list", "batch"} \X Consumers)

Chains ==
  [p \in Places |-> CASE p[1] = "free" -> free [] p[1] = "curr" -> currList
                      [] p[1] = "list" -> list[p[2]] [] p[1] = "batch" -> batch[p[2]]]

(* What the producer has in its hand.                                      *)
Held == IF gpc[Producer] \in {"held", "push"} THEN {item[Producer]} ELSE {}

(* Of the first n items each is in the hand h or once in one sequence.     *)
Once(ch, h, n) ==
  /\ \A p, q \in Places : \A j \in 1 .. Len(ch[p]), k \in 1 .. Len(ch[q]) :
       ch[p][j] = ch[q][k] => p = q /\ j = k
  /\ \A p \in Places : \A j \in 1 .. Len(ch[p]) : ch[p][j] \in (1 .. n) \ h
  /\ \A x \in (1 .. n) \ h : \E p \in Places : \E j \in 1 .. Len(ch[p]) : ch[p][j] = x
  /\ h \subseteq 1 .. n

ItemTypes ==
  /\ free \in Seq(Items) /\ currList \in Seq(Items) /\ newed \in 0 .. MaxItems
  /\ gpc \in [Getters -> {"idle", "flush", "new", "wait", "failed", "take",
                          "advance", "held", "push"}]
  /\ item \in [Getters -> Items \cup {NoItem}] /\ tries \in [Getters -> 0 .. WaitLimit]
  /\ list \in [Consumers -> Seq(Items)] /\ batch \in [Consumers -> Seq(Items)]
  /\ kpc \in [Consumers -> {"idle", "flush", "count", "work"}] /\ dest \in Consumers

(* What the place of the producer or of a consumer says about the items.   *)
Serving ==
  /\ gpc[Producer] \in {"flush", "wait", "new"} => currList = <<>>
  /\ gpc[Producer] \in {"take", "advance"} => currList # <<>>
  /\ gpc[Producer] = "advance" => item[Producer] = Head(currList)
  /\ gpc[Producer] = "new" => newed < MaxItems
  /\ \A c \in Consumers : kpc[c] \in {"idle", "flush"} => batch[c] = <<>>

ItemInv == ItemTypes /\ Serving /\ Once(Chains, Held, newed)

(* The counters of a list, and how far a clearStats may lower them.        *)
NumberTypes ==
  /\ life \in [Consumers -> 0 .. Total] /\ out \in [Consumers -> 0 .. Total]
  /\ i \in 1 .. Total + 1 /\ skipped \subseteq 1 .. Total
  /\ subtract \in [Consumers -> 0 .. Total] /\ clears \in [Consumers -> 0 .. 3 * MaxClears]

Bounded ==
  /\ gpc[Producer] # "idle" => i <= Total
  /\ \A c \in Consumers :
       /\ life[c] + Cleared(c) <= i - 1 + Pushing(c)
       /\ clears[c] % 3 = 1 => subtract[c] <= life[c]
       /\ clears[c] % 3 \in {1, 2} => subtract[c] <= out[c]

NumberInv == NumberTypes /\ Bounded

(* The values of a list: those in the batch, then those in the list from   *)
(* its back, all larger than what was read and smaller than what comes.    *)
ValueTypes == data \in [Items -> 0 .. Total] /\ last \in [Consumers -> 0 .. Total]

InTurn(d, l, b, a, n) ==
  /\ \A j, k \in 1 .. Len(b) : j < k => d[b[j]] < d[b[k]]
  /\ \A j, k \in 1 .. Len(l) : j < k => d[l[k]] < d[l[j]]
  /\ \A j \in 1 .. Len(b), k \in 1 .. Len(l) : d[b[j]] < d[l[k]]
  /\ \A j \in 1 .. Len(b) : a < d[b[j]] /\ d[b[j]] < n
  /\ \A j \in 1 .. Len(l) : a < d[l[j]] /\ d[l[j]] < n
  /\ a < n

ValueInv ==
  /\ ValueTypes
  /\ gpc[Producer] = "push" => data[item[Producer]] = i
  /\ \A c \in Consumers : InTurn(data, list[c], batch[c], last[c], i)
-----------------------------------------------------------------------------
(* What moving an item does to the places of all of them. *)

(* The head of a sequence goes to the hand.                                *)
LEMMA PopOnce ==
  ASSUME NEW ch \in [Places -> Seq(Items)], NEW h, NEW n, Once(ch, h, n),
         NEW p \in Places, ch[p] # <<>>, NEW d, d = [ch EXCEPT ![p] = Tail(ch[p])]
  PROVE  /\ d \in [Places -> Seq(Items)] /\ Head(ch[p]) \notin h
         /\ Once(d, h \cup {Head(ch[p])}, n) /\ Head(ch[p]) \in Items
<1> DEFINE x == Head(ch[p])
<1>1. /\ x = ch[p][1] /\ x \in Items /\ Tail(ch[p]) \in Seq(Items)
      /\ Len(Tail(ch[p])) = Len(ch[p]) - 1 /\ Len(ch[p]) \in Nat /\ Len(ch[p]) >= 1
      /\ \A k \in 1 .. Len(Tail(ch[p])) : Tail(ch[p])[k] = ch[p][k + 1]
  BY HeadTailProperties, LenProperties, EmptySeq
<1>2. d \in [Places -> Seq(Items)] /\ d[p] = Tail(ch[p])
      /\ \A q \in Places \ {p} : d[q] = ch[q]
  BY <1>1
<1>3. \A q \in Places : Len(ch[q]) \in Nat
  BY LenProperties
<1>4. ASSUME NEW q \in Places, NEW j \in 1 .. Len(d[q])
      PROVE  \E k \in 1 .. Len(ch[q]) : d[q][j] = ch[q][k] /\ k = IF q = p THEN j + 1 ELSE j
  <2>1. CASE q = p
    BY <1>1, <1>2, <2>1
  <2>2. CASE q # p
    BY <1>2, <2>2
  <2>3. QED
    BY <2>1, <2>2
<1> HIDE DEF x
<1>5. x \notin h /\ x \in 1 .. n
  BY <1>1 DEF Once
<1>6. ASSUME NEW q \in Places, NEW r \in Places, NEW j \in 1 .. Len(d[q]),
             NEW k \in 1 .. Len(d[r]), d[q][j] = d[r][k]
      PROVE  q = r /\ j = k
  <2>1. PICK a \in 1 .. Len(ch[q]) : d[q][j] = ch[q][a] /\ a = IF q = p THEN j + 1 ELSE j
    BY <1>4
  <2>2. PICK b \in 1 .. Len(ch[r]) : d[r][k] = ch[r][b] /\ b = IF r = p THEN k + 1 ELSE k
    BY <1>4
  <2>3. q = r /\ a = b
    BY <1>6, <2>1, <2>2 DEF Once
  <2>4. j \in Int /\ k \in Int
    OBVIOUS
  <2>5. QED
    BY <2>1, <2>2, <2>3, <2>4
<1>7. ASSUME NEW q \in Places, NEW j \in 1 .. Len(d[q])
      PROVE  d[q][j] \in (1 .. n) \ (h \cup {x})
  <2>1. PICK a \in 1 .. Len(ch[q]) : d[q][j] = ch[q][a] /\ a = IF q = p THEN j + 1 ELSE j
    BY <1>4
  <2>2. ch[q][a] \in (1 .. n) \ h
    BY DEF Once
  <2>3. ch[q][a] # x
    <3>1. CASE ch[q][a] = x
      <4>1. q = p /\ a = 1
        BY <1>1, <3>1 DEF Once
      <4>2. j \in 1 .. Len(d[q])
        OBVIOUS
      <4>3. QED
        BY <2>1, <4>1, <4>2
    <3>2. QED
      BY <3>1
  <2>4. QED
    BY <2>1, <2>2, <2>3
<1>8. ASSUME NEW y \in (1 .. n) \ (h \cup {x})
      PROVE  \E q \in Places : \E j \in 1 .. Len(d[q]) : d[q][j] = y
  <2>1. PICK q \in Places : \E a \in 1 .. Len(ch[q]) : ch[q][a] = y
    BY DEF Once
  <2>2. PICK a \in 1 .. Len(ch[q]) : ch[q][a] = y
    BY <2>1
  <2>3. CASE q = p
    <3>1. a # 1 /\ a \in 2 .. Len(ch[p])
      BY <1>1, <2>2, <2>3
    <3>2. a - 1 \in 1 .. Len(d[q]) /\ d[q][a - 1] = y
      BY <1>1, <1>2, <2>2, <2>3, <3>1
    <3>3. QED
      BY <3>2
  <2>4. CASE q # p
    BY <1>2, <2>2, <2>4
  <2>5. QED
    BY <2>3, <2>4
<1>9. h \cup {x} \subseteq 1 .. n
  BY <1>5 DEF Once
<1>10. Once(d, h \cup {x}, n)
  BY <1>6, <1>7, <1>8, <1>9 DEF Once
<1>11. QED
  BY <1>1, <1>2, <1>5, <1>10 DEF x

(* The item goes from the hand to the top of a sequence.                   *)
LEMMA PushOnce ==
  ASSUME NEW ch \in [Places -> Seq(Items)], NEW h, NEW n, Once(ch, h, n),
         NEW x \in Items, x \in h, NEW p \in Places,
         NEW d, d = [ch EXCEPT ![p] = <<x>> \o ch[p]]
  PROVE  d \in [Places -> Seq(Items)] /\ Once(d, h \ {x}, n)
<1>1. /\ <<x>> \o ch[p] \in Seq(Items) /\ Len(ch[p]) \in Nat
      /\ Len(<<x>> \o ch[p]) = Len(ch[p]) + 1 /\ (<<x>> \o ch[p])[1] = x
      /\ \A k \in 1 .. Len(ch[p]) : (<<x>> \o ch[p])[k + 1] = ch[p][k]
  <2>1. <<x>> \in Seq(Items) /\ Len(<<x>>) = 1 /\ <<x>>[1] = x /\ ch[p] \in Seq(Items)
    OBVIOUS
  <2> DEFINE s == ch[p]
  <2> DEFINE u == <<x>>
  <2>2. s \in Seq(Items) /\ u \in Seq(Items) /\ Len(u) = 1 /\ u[1] = x
    BY <2>1
  <2> HIDE DEF s, u
  <2>3. /\ u \o s \in Seq(Items) /\ Len(u \o s) = Len(u) + Len(s)
        /\ \A k \in 1 .. Len(u) + Len(s) :
             (u \o s)[k] = IF k <= Len(u) THEN u[k] ELSE s[k - Len(u)]
    BY <2>2, ConcatProperties
  <2>4. Len(s) \in Nat
    BY <2>2, LenProperties
  <2>5. 1 \in 1 .. Len(u) + Len(s) /\ 1 <= Len(u)
    BY <2>2, <2>4
  <2>6. (u \o s)[1] = x
    BY <2>2, <2>3, <2>5
  <2>7. ASSUME NEW k \in 1 .. Len(s) PROVE (u \o s)[k + 1] = s[k]
    <3>1. k + 1 \in 1 .. Len(u) + Len(s) /\ ~(k + 1 <= Len(u)) /\ k + 1 - Len(u) = k
      BY <2>2, <2>4
    <3>2. QED
      BY <2>3, <3>1
  <2>8. Len(u \o s) = Len(s) + 1
    BY <2>2, <2>3, <2>4
  <2>9. QED
    BY <2>3, <2>4, <2>6, <2>7, <2>8 DEF s, u
<1>2. /\ d \in [Places -> Seq(Items)] /\ \A q \in Places \ {p} : d[q] = ch[q]
      /\ Len(d[p]) = Len(ch[p]) + 1 /\ d[p][1] = x
      /\ \A k \in 1 .. Len(ch[p]) : d[p][k + 1] = ch[p][k]
  <2> DEFINE t == <<x>> \o ch[p]
  <2>1. d = [ch EXCEPT ![p] = t] /\ t \in Seq(Items)
    BY <1>1
  <2>2. Len(t) = Len(ch[p]) + 1 /\ t[1] = x /\ \A k \in 1 .. Len(ch[p]) : t[k + 1] = ch[p][k]
    BY <1>1
  <2> HIDE DEF t
  <2>3. d \in [Places -> Seq(Items)] /\ d[p] = t /\ \A q \in Places \ {p} : d[q] = ch[q]
    BY <2>1
  <2>4. QED
    BY <2>2, <2>3
<1>3. ASSUME NEW q \in Places, NEW j \in 1 .. Len(d[q])
      PROVE  \/ q = p /\ j = 1 /\ d[q][j] = x
             \/ \E k \in 1 .. Len(ch[q]) : d[q][j] = ch[q][k] /\ j = IF q = p THEN k + 1 ELSE k
  <2>1. CASE q = p /\ j # 1
    <3>1. j - 1 \in 1 .. Len(ch[q]) /\ j = (j - 1) + 1
      BY <1>1, <1>2, <2>1
    <3>2. d[q][j] = ch[q][j - 1]
      BY <1>2, <2>1, <3>1
    <3>3. QED
      BY <2>1, <3>1, <3>2
  <2>2. CASE q = p /\ j = 1
    BY <1>2, <2>2
  <2>3. CASE q # p
    BY <1>2, <2>3
  <2>4. QED
    BY <2>1, <2>2, <2>3
<1>4. ASSUME NEW q \in Places, NEW r \in Places, NEW j \in 1 .. Len(d[q]),
             NEW k \in 1 .. Len(d[r]), d[q][j] = d[r][k]
      PROVE  q = r /\ j = k
  <2>1. ASSUME NEW s \in Places, NEW a \in 1 .. Len(ch[s]) PROVE ch[s][a] # x
    BY <2>1 DEF Once
  <2>2. CASE q = p /\ j = 1 /\ d[q][j] = x
    BY <1>3, <1>4, <2>1, <2>2
  <2>3. CASE r = p /\ k = 1 /\ d[r][k] = x
    BY <1>3, <1>4, <2>1, <2>3
  <2>4. CASE /\ \E a \in 1 .. Len(ch[q]) : d[q][j] = ch[q][a] /\ j = IF q = p THEN a + 1 ELSE a
             /\ \E b \in 1 .. Len(ch[r]) : d[r][k] = ch[r][b] /\ k = IF r = p THEN b + 1 ELSE b
    <3>1. PICK a \in 1 .. Len(ch[q]) : d[q][j] = ch[q][a] /\ j = IF q = p THEN a + 1 ELSE a
      BY <2>4
    <3>2. PICK b \in 1 .. Len(ch[r]) : d[r][k] = ch[r][b] /\ k = IF r = p THEN b + 1 ELSE b
      BY <2>4
    <3>3. q = r /\ a = b
      BY <1>4, <3>1, <3>2 DEF Once
    <3>4. QED
      BY <3>1, <3>2, <3>3
  <2>5. QED
    BY <1>3, <2>2, <2>3, <2>4
<1>5. ASSUME NEW q \in Places, NEW j \in 1 .. Len(d[q])
      PROVE  d[q][j] \in (1 .. n) \ (h \ {x})
  BY <1>3 DEF Once
<1>6. ASSUME NEW y \in (1 .. n) \ (h \ {x})
      PROVE  \E q \in Places : \E j \in 1 .. Len(d[q]) : d[q][j] = y
  <2>1. CASE y = x
    <3>1. 1 \in 1 .. Len(d[p])
      BY <1>1, <1>2
    <3>2. QED
      BY <1>2, <2>1, <3>1
  <2>2. CASE y # x
    <3>1. PICK q \in Places : \E a \in 1 .. Len(ch[q]) : ch[q][a] = y
      BY <2>2 DEF Once
    <3>2. PICK a \in 1 .. Len(ch[q]) : ch[q][a] = y
      BY <3>1
    <3>3. CASE q = p
      <4>1. a + 1 \in 1 .. Len(d[q]) /\ d[q][a + 1] = y
        BY <1>1, <1>2, <3>2, <3>3
      <4>2. QED
        BY <4>1
    <3>4. CASE q # p
      BY <1>2, <3>2, <3>4
    <3>5. QED
      BY <3>3, <3>4
  <2>3. QED
    BY <2>1, <2>2
<1>7. h \ {x} \subseteq 1 .. n
  BY DEF Once
<1>8. QED
  BY <1>2, <1>4, <1>5, <1>6, <1>7 DEF Once

(* All items of one sequence go to an empty one, in either order.          *)
LEMMA PourOnce ==
  ASSUME NEW ch \in [Places -> Seq(Items)], NEW h, NEW n, Once(ch, h, n),
         NEW p \in Places, NEW q \in Places, p # q, ch[q] = <<>>,
         NEW s, s = ch[p] \/ s = Reverse(ch[p]),
         NEW d, d = [ch EXCEPT ![p] = <<>>, ![q] = s]
  PROVE  d \in [Places -> Seq(Items)] /\ Once(d, h, n)
<1>1. /\ Len(ch[p]) \in Nat /\ s \in Seq(Items) /\ Len(s) = Len(ch[p])
      /\ \A j \in 1 .. Len(s) : \E k \in 1 .. Len(ch[p]) :
           s[j] = ch[p][k] /\ (k = j \/ (s = Reverse(ch[p]) /\ k = Len(s) - j + 1))
  <2>0. ch[p] \in Seq(Items) /\ Len(ch[p]) \in Nat
    BY LenProperties
  <2>1. CASE s = ch[p]
    BY <2>0, <2>1
  <2>2. CASE s = Reverse(ch[p])
    <3>1. \A k \in 1 .. Len(ch[p]) : ch[p][Len(ch[p]) - k + 1] \in Items
      <4>1. ASSUME NEW k \in 1 .. Len(ch[p]) PROVE ch[p][Len(ch[p]) - k + 1] \in Items
        <5>1. Len(ch[p]) - k + 1 \in 1 .. Len(ch[p])
          BY <2>0
        <5>2. QED
          BY <2>0, <5>1, ElementOfSeq
      <4>2. QED
        BY <4>1
    <3>2. s \in Seq(Items) /\ Len(s) = Len(ch[p])
      BY <2>0, <2>2, <3>1 DEF Reverse
    <3>3. \A j \in 1 .. Len(s) : s[j] = ch[p][Len(s) - j + 1] /\ Len(s) - j + 1 \in 1 .. Len(ch[p])
      BY <2>0, <2>2, <3>2 DEF Reverse
    <3>4. QED
      BY <2>0, <2>2, <3>2, <3>3
  <2>3. QED
    BY <2>1, <2>2
<1>2. /\ d \in [Places -> Seq(Items)] /\ d[p] = <<>> /\ d[q] = s
      /\ \A r \in Places \ {p, q} : d[r] = ch[r]
  <2>1. <<>> \in Seq(Items)
    BY EmptySeq
  <2>2. QED
    BY <1>1, <2>1
<1>3. Len(<<>>) = 0 /\ \A j : j \notin 1 .. 0
  BY EmptySeq
<1>4. ASSUME NEW r \in Places, NEW j \in 1 .. Len(d[r])
      PROVE  /\ r # p
             /\ r = q => d[r] = s /\ j \in 1 .. Len(s)
             /\ r # q => d[r] = ch[r] /\ j \in 1 .. Len(ch[r])
  BY <1>2, <1>3
<1>5. ASSUME NEW j \in 1 .. Len(s), NEW k \in 1 .. Len(s), s[j] = s[k] PROVE j = k
  <2>1. \E a \in 1 .. Len(ch[p]) :
           s[j] = ch[p][a] /\ (a = j \/ (s = Reverse(ch[p]) /\ a = Len(s) - j + 1))
    BY <1>1
  <2>2. CASE s = ch[p]
    BY <1>5, <2>2 DEF Once
  <2>3. CASE s = Reverse(ch[p])
    <3>1. /\ Len(s) - j + 1 \in 1 .. Len(ch[p]) /\ Len(s) - k + 1 \in 1 .. Len(ch[p])
          /\ s[j] = ch[p][Len(s) - j + 1] /\ s[k] = ch[p][Len(s) - k + 1]
      BY <1>1, <2>3 DEF Reverse
    <3> DEFINE a == Len(s) - j + 1
    <3> DEFINE b == Len(s) - k + 1
    <3>2. a = b
      <4>1. a \in 1 .. Len(ch[p]) /\ b \in 1 .. Len(ch[p]) /\ ch[p][a] = ch[p][b]
        BY <1>5, <3>1
      <4> HIDE DEF a, b
      <4>2. QED
        BY <4>1 DEF Once
    <3>3. QED
      BY <1>1, <3>2
  <2>4. QED
    BY <2>2, <2>3
<1>6. ASSUME NEW r \in Places, NEW t \in Places, NEW j \in 1 .. Len(d[r]),
             NEW k \in 1 .. Len(d[t]), d[r][j] = d[t][k]
      PROVE  r = t /\ j = k
  <2>1. CASE r = q /\ t = q
    BY <1>4, <1>5, <1>6, <2>1
  <2>2. CASE r = q /\ t # q
    <3>1. PICK a \in 1 .. Len(ch[p]) : s[j] = ch[p][a]
      BY <1>1, <1>4, <2>2
    <3>2. t = p
      BY <1>4, <1>6, <2>2, <3>1 DEF Once
    <3>3. QED
      BY <1>4, <3>2
  <2>3. CASE r # q /\ t = q
    <3>1. PICK a \in 1 .. Len(ch[p]) : s[k] = ch[p][a]
      BY <1>1, <1>4, <2>3
    <3>2. r = p
      BY <1>4, <1>6, <2>3, <3>1 DEF Once
    <3>3. QED
      BY <1>4, <3>2
  <2>4. CASE r # q /\ t # q
    <3>1. /\ d[r] = ch[r] /\ j \in 1 .. Len(ch[r])
          /\ d[t] = ch[t] /\ k \in 1 .. Len(ch[t])
      BY <1>4, <2>4
    <3>2. ch[r][j] = ch[t][k]
      BY <1>6, <3>1
    <3>3. QED
      BY <3>1, <3>2 DEF Once
  <2>5. QED
    BY <2>1, <2>2, <2>3, <2>4
<1>7. ASSUME NEW r \in Places, NEW j \in 1 .. Len(d[r]) PROVE d[r][j] \in (1 .. n) \ h
  <2>1. CASE r = q
    <3>1. PICK a \in 1 .. Len(ch[p]) : s[j] = ch[p][a]
      BY <1>1, <1>4, <2>1
    <3>2. QED
      BY <1>4, <2>1, <3>1 DEF Once
  <2>2. CASE r # q
    BY <1>4, <2>2 DEF Once
  <2>3. QED
    BY <2>1, <2>2
<1>8. ASSUME NEW x \in (1 .. n) \ h
      PROVE  \E r \in Places : \E j \in 1 .. Len(d[r]) : d[r][j] = x
  <2>1. PICK r \in Places : \E a \in 1 .. Len(ch[r]) : ch[r][a] = x
    BY DEF Once
  <2>2. PICK a \in 1 .. Len(ch[r]) : ch[r][a] = x
    BY <2>1
  <2>3. CASE r = p
    <3>1. CASE s = ch[p]
      BY <1>2, <2>2, <2>3, <3>1
    <3>2. CASE s = Reverse(ch[p])
      <4>1. /\ Len(s) - a + 1 \in 1 .. Len(s)
            /\ s[Len(s) - a + 1] = ch[p][Len(s) - (Len(s) - a + 1) + 1]
            /\ Len(s) - (Len(s) - a + 1) + 1 = a
        BY <1>1, <2>3, <3>2 DEF Reverse
      <4>2. QED
        BY <1>2, <2>2, <2>3, <4>1
    <3>3. QED
      BY <3>1, <3>2
  <2>4. CASE r # p
    <3>1. r # q
      BY <1>3, <2>2
    <3>2. QED
      BY <1>2, <2>2, <2>4, <3>1
  <2>5. QED
    BY <2>3, <2>4
<1>9. QED
  BY <1>2, <1>6, <1>7, <1>8 DEF Once

(* A new item is in the hand.                                              *)
LEMMA FreshOnce ==
  ASSUME NEW ch, NEW n \in Nat, Once(ch, {}, n)
  PROVE  Once(ch, {n + 1}, n + 1)
<1>1. (1 .. n + 1) \ {n + 1} = (1 .. n) \ {} /\ {n + 1} \subseteq 1 .. n + 1
  OBVIOUS
<1>2. QED
  BY <1>1 DEF Once
-----------------------------------------------------------------------------
(* The places, by name.                                                    *)
AtFree == <<"free", NoItem>>
AtCurr == <<"curr", NoItem>>
AtList(c) == <<"list", c>>
AtBatch(c) == <<"batch", c>>

(* No two of these are the same.                                           *)
LEMMA PlaceFacts ==
  /\ AtFree \in Places /\ AtCurr \in Places /\ AtFree # AtCurr
  /\ \A c \in Consumers :
       /\ AtList(c) \in Places /\ AtBatch(c) \in Places /\ AtList(c) # AtBatch(c)
       /\ AtList(c) # AtFree /\ AtList(c) # AtCurr
       /\ AtBatch(c) # AtFree /\ AtBatch(c) # AtCurr
  /\ \A c, e \in Consumers : AtList(c) # AtBatch(e)
  /\ \A c, e \in Consumers : c # e => AtList(c) # AtList(e) /\ AtBatch(c) # AtBatch(e)
BY DEF Places, AtFree, AtCurr, AtList, AtBatch

(* There are no other places.                                              *)
LEMMA PlaceCases ==
  ASSUME NEW p \in Places
  PROVE  \/ p = AtFree
         \/ p = AtCurr
         \/ \E c \in Consumers : p = AtList(c)
         \/ \E c \in Consumers : p = AtBatch(c)
BY DEF Places, AtFree, AtCurr, AtList, AtBatch

(* What is where.                                                          *)
LEMMA ChainFacts ==
  /\ Chains[AtFree] = free /\ Chains[AtCurr] = currList
  /\ \A c \in Consumers : Chains[AtList(c)] = list[c] /\ Chains[AtBatch(c)] = batch[c]
  /\ Chains'[AtFree] = free' /\ Chains'[AtCurr] = currList'
  /\ \A c \in Consumers : Chains'[AtList(c)] = list'[c] /\ Chains'[AtBatch(c)] = batch'[c]
<1>1. /\ AtFree \in Places /\ AtCurr \in Places
      /\ \A c \in Consumers : AtList(c) \in Places /\ AtBatch(c) \in Places
  BY PlaceFacts
<1>2. /\ AtFree[1] = "free" /\ AtCurr[1] = "curr"
      /\ \A c : AtList(c)[1] = "list" /\ AtList(c)[2] = c
      /\ \A c : AtBatch(c)[1] = "batch" /\ AtBatch(c)[2] = c
  BY DEF AtFree, AtCurr, AtList, AtBatch
<1>3. QED
  BY <1>1, <1>2 DEF Chains

(* They are tables of the places.                                          *)
LEMMA ChainTable ==
  Chains = [p \in Places |-> Chains[p]] /\ Chains' = [p \in Places |-> Chains'[p]]
<1> DEFINE v(p) == CASE p[1] = "free" -> free [] p[1] = "curr" -> currList
                     [] p[1] = "list" -> list[p[2]] [] p[1] = "batch" -> batch[p[2]]
<1> DEFINE w(p) == CASE p[1] = "free" -> free' [] p[1] = "curr" -> currList'
                     [] p[1] = "list" -> list'[p[2]] [] p[1] = "batch" -> batch'[p[2]]
<1>1. Chains = [p \in Places |-> v(p)] /\ Chains' = [p \in Places |-> w(p)]
  BY DEF Chains
<1> HIDE DEF v, w
<1>2. QED
  BY <1>1

(* They hold items.                                                        *)
LEMMA ChainTypes == ItemTypes => Chains \in [Places -> Seq(Items)]
<1>1. ASSUME ItemTypes, NEW p \in Places PROVE Chains[p] \in Seq(Items)
  <2>1. CASE p = AtFree \/ p = AtCurr
    BY <1>1, <2>1, ChainFacts DEF ItemTypes
  <2>2. ASSUME NEW c \in Consumers, p = AtList(c) \/ p = AtBatch(c)
        PROVE  Chains[p] \in Seq(Items)
    BY <1>1, <2>2, ChainFacts DEF ItemTypes
  <2>3. QED
    BY <2>1, <2>2, PlaceCases
<1>2. QED
  BY <1>1, ChainTable

(* To know all of them it is enough to know each.                          *)
LEMMA ChainsAre ==
  ASSUME NEW d \in [Places -> Seq(Items)], d[AtFree] = free', d[AtCurr] = currList',
         \A c \in Consumers : d[AtList(c)] = list'[c] /\ d[AtBatch(c)] = batch'[c]
  PROVE  Chains' = d
<1>1. ASSUME NEW p \in Places PROVE Chains'[p] = d[p]
  <2>1. CASE p = AtFree \/ p = AtCurr
    BY <2>1, ChainFacts
  <2>2. ASSUME NEW c \in Consumers, p = AtList(c) \/ p = AtBatch(c)
        PROVE  Chains'[p] = d[p]
    BY <2>2, ChainFacts
  <2>3. QED
    BY <2>1, <2>2, PlaceCases
<1>2. QED
  BY <1>1, ChainTable

(* A step that moves no item.                                              *)
LEMMA ChainsKept ==
  ASSUME ItemInv, UNCHANGED <<free, currList, list, batch, newed>>, Held' = Held
  PROVE  Once(Chains, Held, newed)'
<1>1. Chains' = Chains
  BY DEF Chains
<1>2. QED
  BY <1>1 DEF ItemInv, Once

(* The only getter is the producer.                                        *)
LEMMA OnlyProducer == \A g \in Getters : g = Producer
<1>1. PICK x : Getters = {x}
  <2>1. IsFiniteSet(Getters) /\ Cardinality(Getters) = 1
    BY SListAssumption
  <2>2. QED
    BY <2>1, FS_Singleton
<1>2. QED
  BY <1>1, OneProducer

(* At the start the recycler has all items.                                *)
LEMMA ItemInit == SListInit => ItemInv
<1> SUFFICES ASSUME SListInit PROVE ItemInv
  OBVIOUS
<1> USE DEF SListInit, RecyclerInit
<1> DEFINE s == [k \in 1 .. InitItems |-> k]
<1>1. InitItems \in Nat /\ MaxItems \in Nat /\ InitItems <= MaxItems /\ WaitLimit \in Nat
  BY RecyclerAssumption
<1>2. s \in Seq(Items) /\ Len(s) = InitItems
  BY <1>1 DEF Items
<1>3. /\ free \in Seq(Items) /\ Len(free) = InitItems
      /\ \A j \in 1 .. InitItems : free[j] = InitItems - j + 1
  <2>1. \A k \in 1 .. InitItems : s[InitItems - k + 1] = InitItems - k + 1
    BY <1>1
  <2>2. free = [k \in 1 .. InitItems |-> InitItems - k + 1]
    BY <1>2, <2>1 DEF Reverse
  <2>3. \A k \in 1 .. InitItems : InitItems - k + 1 \in Items
    BY <1>1 DEF Items
  <2>4. [k \in 1 .. InitItems |-> InitItems - k + 1] \in Seq(Items)
    BY <1>1, <2>3
  <2>5. Len(free) = InitItems
    BY <1>1, <2>2
  <2>6. QED
    BY <2>2, <2>4, <2>5
<1> HIDE DEF s
<1>4. <<>> \in Seq(Items) /\ Len(<<>>) = 0
  BY EmptySeq
<1>5. ItemTypes
  BY <1>1, <1>3, <1>4 DEF ItemTypes
<1>6. Serving
  BY <1>4, OneProducer DEF Serving
<1>7. Held = {} /\ newed = InitItems
  BY OneProducer DEF Held
<1> HIDE DEF SListInit, RecyclerInit
<1>8. ASSUME NEW p \in Places PROVE p = AtFree \/ Chains[p] = <<>>
  <2>1. currList = <<>> /\ \A c \in Consumers : list[c] = <<>> /\ batch[c] = <<>>
    BY DEF SListInit, RecyclerInit
  <2>2. QED
    BY <2>1, PlaceCases, ChainFacts
<1>f. Chains[AtFree] = free
  BY ChainFacts
<1>9. ASSUME NEW p \in Places, NEW j \in 1 .. Len(Chains[p])
      PROVE  p = AtFree /\ j \in 1 .. InitItems /\ Chains[p][j] = InitItems - j + 1
  <2>1. p = AtFree
    BY <1>4, <1>8
  <2>2. QED
    BY <1>3, <1>f, <2>1
<1>10. ASSUME NEW x \in 1 .. InitItems
       PROVE  \E p \in Places : \E j \in 1 .. Len(Chains[p]) : Chains[p][j] = x
  <2>1. /\ InitItems - x + 1 \in 1 .. Len(Chains[AtFree])
        /\ Chains[AtFree][InitItems - x + 1] = x
    <3> DEFINE j == InitItems - x + 1
    <3>1. j \in 1 .. InitItems /\ InitItems - j + 1 = x
      BY <1>1
    <3> HIDE DEF j
    <3>2. QED
      BY <1>3, <1>f, <3>1 DEF j
  <2>2. QED
    BY <2>1, PlaceFacts
<1>11. Once(Chains, {}, InitItems)
  <2>1. ASSUME NEW p \in Places, NEW q \in Places, NEW j \in 1 .. Len(Chains[p]),
               NEW k \in 1 .. Len(Chains[q]), Chains[p][j] = Chains[q][k]
        PROVE  p = q /\ j = k
    <3>1. p = q /\ InitItems - j + 1 = InitItems - k + 1 /\ j \in Int /\ k \in Int
      BY <1>9, <2>1
    <3>2. QED
      BY <1>1, <3>1
  <2>2. ASSUME NEW p \in Places, NEW j \in 1 .. Len(Chains[p])
        PROVE  Chains[p][j] \in (1 .. InitItems) \ {}
    <3>1. j \in 1 .. InitItems /\ Chains[p][j] = InitItems - j + 1
      BY <1>9
    <3>2. QED
      BY <1>1, <3>1
  <2>3. QED
    BY <1>10, <2>1, <2>2 DEF Once
<1>12. QED
  BY <1>5, <1>6, <1>7, <1>11 DEF ItemInv

(* GetNewItem moves the stack to currList and the head of currList to the  *)
(* producer's hand.                                                        *)
LEMMA GetItem ==
  ASSUME ItemInv, Get(Producer), UNCHANGED <<list, batch, kpc, dest>>
  PROVE  ItemInv'
<1> USE OneProducer DEF At, Go
<1>0. ItemTypes /\ Serving /\ Once(Chains, Held, newed) /\ MaxItems \in Nat /\ WaitLimit \in Nat
  BY RecyclerAssumption DEF ItemInv
<1>t. /\ free \in Seq(Items) /\ currList \in Seq(Items) /\ newed \in 0 .. MaxItems
      /\ gpc \in [Getters -> {"idle", "flush", "new", "wait", "failed", "take",
                              "advance", "held", "push"}]
      /\ item \in [Getters -> Items \cup {NoItem}] /\ tries \in [Getters -> 0 .. WaitLimit]
      /\ <<>> \in Seq(Items)
  BY <1>0, EmptySeq DEF ItemTypes
<1>c. Chains \in [Places -> Seq(Items)]
  BY <1>0, ChainTypes
<1>s. \A c \in Consumers : kpc'[c] \in {"idle", "flush"} => batch'[c] = <<>>
  BY <1>0 DEF Serving
<1>1. CASE GetNewItem(Producer)
  <2>1. ItemTypes' /\ Serving' /\ Held' = Held
    BY <1>0, <1>t, <1>s, <1>1 DEF GetNewItem, ItemTypes, Serving, Held
  <2>2. QED
    BY <1>1, <2>1, ChainsKept DEF GetNewItem, ItemInv
<1>2. CASE (Flush(Producer) \/ WaitFlush(Producer))
  <2>1. /\ currList' = free /\ free' = <<>> /\ currList = <<>> /\ newed' = newed
        /\ item' = item /\ gpc[Producer] \in {"flush", "wait"}
    BY <1>0, <1>2 DEF Flush, WaitFlush, Serving
  <2>2. gpc' \in [Getters -> {"idle", "flush", "new", "wait", "failed", "take",
                              "advance", "held", "push"}]
    BY <1>t, <1>2 DEF Flush, WaitFlush
  <2>3. /\ free # <<>> => gpc'[Producer] = "take"
        /\ free = <<>> => gpc'[Producer] \in {"wait", "new"}
        /\ gpc'[Producer] = "new" => newed < MaxItems
    BY <1>0, <1>t, <1>2 DEF Flush, WaitFlush
  <2>4. tries' \in [Getters -> 0 .. WaitLimit]
    <3>1. CASE Flush(Producer)
      BY <1>t, <3>1 DEF Flush
    <3>2. CASE WaitFlush(Producer)
      <4>1. tries[Producer] + 1 \in 0 .. WaitLimit /\ 0 \in 0 .. WaitLimit
        BY <1>0, <1>t, <3>2 DEF WaitFlush
      <4>2. \/ tries' = [tries EXCEPT ![Producer] = tries[Producer] + 1]
            \/ tries' = [tries EXCEPT ![Producer] = 0]
        BY <3>2 DEF WaitFlush
      <4>3. QED
        BY <1>t, <4>1, <4>2
    <3>3. QED
      BY <1>2, <3>1, <3>2
  <2>5. ItemTypes'
    BY <1>0, <1>t, <2>1, <2>2, <2>4 DEF ItemTypes
  <2>6. Serving'
    BY <1>s, <2>1, <2>3 DEF Serving
  <2>7. Held' = Held
    BY <2>1, <2>3 DEF Held
  <2> DEFINE d == [Chains EXCEPT ![AtFree] = <<>>, ![AtCurr] = Chains[AtFree]]
  <2>8. d \in [Places -> Seq(Items)] /\ Once(d, Held, newed)
    <3>1. /\ AtFree \in Places /\ AtCurr \in Places /\ AtFree # AtCurr
          /\ Chains[AtCurr] = <<>>
      BY <2>1, PlaceFacts, ChainFacts
    <3> DEFINE ch == Chains
    <3> DEFINE s == ch[AtFree]
    <3>2. d = [ch EXCEPT ![AtFree] = <<>>, ![AtCurr] = s]
      OBVIOUS
    <3>3. ch \in [Places -> Seq(Items)] /\ Once(ch, Held, newed) /\ ch[AtCurr] = <<>>
          /\ s = ch[AtFree]
      BY <1>0, <1>c, <3>1
    <3> HIDE DEF d, ch, s
    <3>4. QED
      BY <3>1, <3>2, <3>3, PourOnce
  <2>9. Chains' = d
    <3>1. d[AtFree] = free' /\ d[AtCurr] = currList'
      BY <1>c, <2>1, PlaceFacts, ChainFacts
    <3>2. \A c \in Consumers : d[AtList(c)] = list'[c] /\ d[AtBatch(c)] = batch'[c]
      BY <1>c, PlaceFacts, ChainFacts
    <3> HIDE DEF d
    <3>3. QED
      BY <2>8, <3>1, <3>2, ChainsAre
  <2> HIDE DEF d
  <2>10. Once(Chains', Held', newed')
    BY <2>1, <2>7, <2>8, <2>9
  <2>11. QED
    BY <2>5, <2>6, <2>10 DEF ItemInv, Once
<1>3. CASE NewItem(Producer)
  <2>1. /\ newed' = newed + 1 /\ item' = [item EXCEPT ![Producer] = newed + 1]
        /\ gpc[Producer] = "new" /\ gpc' = [gpc EXCEPT ![Producer] = "held"]
        /\ UNCHANGED <<free, currList, tries>> /\ newed < MaxItems
    BY <1>0, <1>3 DEF NewItem, Serving
  <2>2. newed + 1 \in Items /\ newed + 1 \in 0 .. MaxItems /\ newed \in Nat
    BY <1>0, <1>t, <2>1 DEF Items
  <2>3. ItemTypes' /\ gpc'[Producer] = "held" /\ item'[Producer] = newed + 1
    BY <1>0, <1>t, <2>1, <2>2 DEF ItemTypes
  <2>4. Serving'
    BY <1>s, <2>3 DEF Serving
  <2>5. Held = {} /\ Held' = {newed + 1} /\ Chains' = Chains
    BY <2>1, <2>3 DEF Held, Chains
  <2>6. Once(Chains, {newed + 1}, newed + 1)
    BY <1>0, <2>2, <2>5, FreshOnce
  <2>7. Once(Chains', Held', newed')
    BY <2>1, <2>5, <2>6
  <2>8. QED
    BY <2>3, <2>4, <2>7 DEF ItemInv, Once
<1>4. CASE GiveUp(Producer)
  <2>1. ItemTypes' /\ Serving' /\ Held' = Held
    BY <1>0, <1>t, <1>s, <1>4 DEF GiveUp, ItemTypes, Serving, Held
  <2>2. QED
    BY <1>4, <2>1, ChainsKept DEF GiveUp, ItemInv
<1>5. CASE Take(Producer)
  <2>1. Head(currList) \in Items
    BY <1>t, <1>5, HeadTailProperties DEF Take
  <2>2. ItemTypes' /\ Serving' /\ Held' = Held
    BY <1>0, <1>t, <1>s, <1>5, <2>1 DEF Take, ItemTypes, Serving, Held
  <2>3. QED
    BY <1>5, <2>2, ChainsKept DEF Take, ItemInv
<1>6. CASE Advance(Producer)
  <2>1. /\ currList # <<>> /\ currList' = Tail(currList) /\ item[Producer] = Head(currList)
        /\ gpc[Producer] = "advance" /\ gpc' = [gpc EXCEPT ![Producer] = "held"]
        /\ UNCHANGED <<free, newed, item, tries>>
    BY <1>0, <1>6 DEF Advance, Serving
  <2>2. Tail(currList) \in Seq(Items)
    BY <1>t, <2>1, HeadTailProperties
  <2>3. ItemTypes' /\ gpc'[Producer] = "held"
    BY <1>0, <1>t, <2>1, <2>2 DEF ItemTypes
  <2>4. Serving'
    BY <1>s, <2>3 DEF Serving
  <2>5. Held = {} /\ Held' = {} \cup {Head(currList)}
    BY <2>1, <2>3 DEF Held
  <2> DEFINE d == [Chains EXCEPT ![AtCurr] = Tail(Chains[AtCurr])]
  <2>6. d \in [Places -> Seq(Items)] /\ Once(d, {} \cup {Head(Chains[AtCurr])}, newed)
    <3>1. Chains[AtCurr] # <<>> /\ AtCurr \in Places /\ Once(Chains, {}, newed)
      BY <1>0, <2>1, <2>5, PlaceFacts, ChainFacts
    <3>2. d = [Chains EXCEPT ![AtCurr] = Tail(Chains[AtCurr])]
      OBVIOUS
    <3> DEFINE h == {}
    <3> DEFINE ch == Chains
    <3>3. ch \in [Places -> Seq(Items)] /\ Once(ch, h, newed) /\ ch[AtCurr] # <<>>
          /\ d = [ch EXCEPT ![AtCurr] = Tail(ch[AtCurr])] /\ AtCurr \in Places
      BY <1>c, <3>1, <3>2
    <3> HIDE DEF d, h, ch
    <3>4. d \in [Places -> Seq(Items)] /\ Once(d, h \cup {Head(ch[AtCurr])}, newed)
      BY <3>3, PopOnce, ZenonT(40)
    <3>5. QED
      BY <3>4 DEF h, ch
  <2>7. Chains' = d
    <3>1. d[AtFree] = free' /\ d[AtCurr] = currList'
      BY <1>c, <2>1, PlaceFacts, ChainFacts
    <3>2. \A c \in Consumers : d[AtList(c)] = list'[c] /\ d[AtBatch(c)] = batch'[c]
      BY <1>c, PlaceFacts, ChainFacts
    <3> HIDE DEF d
    <3>3. QED
      BY <2>6, <3>1, <3>2, ChainsAre
  <2> HIDE DEF d
  <2>8. Once(Chains', Held', newed')
    BY <2>1, <2>5, <2>6, <2>7, ChainFacts
  <2>9. QED
    BY <2>3, <2>4, <2>8 DEF ItemInv, Once
<1>7. QED
  BY <1>1, <1>2, <1>3, <1>4, <1>5, <1>6 DEF Get

(* A step that leaves the items and their users where they are.            *)
LEMMA ItemsKept ==
  ASSUME ItemInv, UNCHANGED <<recyclerVars, list, batch, kpc, dest>>
  PROVE  ItemInv'
<1>1. UNCHANGED <<free, currList, newed, gpc, item, tries, list, batch, kpc, dest>>
  BY DEF recyclerVars
<1>2. ItemTypes' /\ Serving' /\ Held' = Held
  BY <1>1 DEF ItemInv, ItemTypes, Serving, Held
<1>3. QED
  BY <1>1, <1>2, ChainsKept DEF ItemInv

(* The producer puts the item in its hand on the list of a consumer.       *)
LEMMA ProducerItems ==
  ASSUME ItemInv, Produce
  PROVE  ItemInv'
<1> USE OneProducer DEF At, Go
<1>0. ItemTypes /\ Serving /\ Once(Chains, Held, newed)
  BY DEF ItemInv
<1>c. Chains \in [Places -> Seq(Items)]
  BY <1>0, ChainTypes
<1>1. CASE ProducerGets
  BY <1>1, GetItem DEF ProducerGets, listVars
<1>2. CASE ProducerSkips
  <2>1. /\ gpc[Producer] = "failed" /\ gpc' = [gpc EXCEPT ![Producer] = "idle"]
        /\ UNCHANGED <<free, currList, newed, item, tries, list, batch, kpc, dest>>
    BY <1>2 DEF ProducerSkips
  <2>2. gpc'[Producer] = "idle" /\ ItemTypes'
    BY <1>0, <2>1 DEF ItemTypes
  <2>3. Serving' /\ Held' = Held
    BY <1>0, <2>1, <2>2 DEF Serving, Held
  <2>4. QED
    BY <2>1, <2>2, <2>3, ChainsKept DEF ItemInv
<1>3. CASE PushItem
  <2>1. /\ gpc[Producer] = "held" /\ gpc' = [gpc EXCEPT ![Producer] = "push"]
        /\ UNCHANGED <<free, currList, newed, item, tries, list, batch, kpc>>
        /\ dest' \in Consumers
    BY <1>3 DEF PushItem
  <2>2. gpc'[Producer] = "push" /\ ItemTypes'
    BY <1>0, <2>1 DEF ItemTypes
  <2>3. Serving' /\ Held' = Held
    BY <1>0, <2>1, <2>2 DEF Serving, Held
  <2>4. QED
    BY <2>1, <2>2, <2>3, ChainsKept DEF ItemInv
<1>4. CASE PushEntry
  <2> DEFINE x == item[Producer]
  <2> DEFINE p == AtList(dest)
  <2>1. /\ gpc[Producer] = "push" /\ gpc' = [gpc EXCEPT ![Producer] = "idle"]
        /\ list' = [list EXCEPT ![dest] = <<x>> \o list[dest]]
        /\ item' = [item EXCEPT ![Producer] = NoItem]
        /\ UNCHANGED <<free, currList, newed, tries, batch, kpc, dest>>
    BY <1>4 DEF PushEntry
  <2>2. Held = {x} /\ x \in Items /\ dest \in Consumers
    <3>1. Held = {x} /\ Held \subseteq 1 .. newed /\ newed \in 0 .. MaxItems /\ dest \in Consumers
      BY <1>0, <2>1 DEF Held, Once, ItemTypes
    <3>2. MaxItems \in Nat
      BY RecyclerAssumption
    <3>3. QED
      BY <3>1, <3>2 DEF Items
  <2> DEFINE d == [Chains EXCEPT ![p] = <<x>> \o Chains[p]]
  <2>3. d \in [Places -> Seq(Items)] /\ Once(d, {x} \ {x}, newed)
    <3> DEFINE ch == Chains
    <3> DEFINE h == {x}
    <3>1. /\ ch \in [Places -> Seq(Items)] /\ Once(ch, h, newed) /\ x \in h /\ x \in Items
          /\ d = [ch EXCEPT ![p] = <<x>> \o ch[p]] /\ p \in Places
      BY <1>0, <1>c, <2>2, PlaceFacts
    <3> HIDE DEF x, p, d, ch, h
    <3>2. d \in [Places -> Seq(Items)] /\ Once(d, h \ {x}, newed)
      BY <3>1, PushOnce
    <3>3. QED
      BY <3>2 DEF h
  <2>4. list' \in [Consumers -> Seq(Items)]
    <3>1. d[p] \in Seq(Items) /\ d[p] = <<x>> \o list[dest]
      BY <1>c, <2>2, <2>3, PlaceFacts, ChainFacts
    <3> DEFINE s == <<x>> \o list[dest]
    <3>2. s \in Seq(Items) /\ list' = [list EXCEPT ![dest] = s]
      BY <2>1, <3>1
    <3> HIDE DEF s
    <3>3. QED
      BY <1>0, <3>2 DEF ItemTypes
  <2>5. Chains' = d
    <3>1. d[AtFree] = free' /\ d[AtCurr] = currList'
      BY <1>c, <2>1, <2>2, PlaceFacts, ChainFacts
    <3>2. ASSUME NEW c \in Consumers PROVE d[AtList(c)] = list'[c] /\ d[AtBatch(c)] = batch'[c]
      <4>1. d[AtBatch(c)] = batch'[c]
        BY <1>c, <2>1, <2>2, PlaceFacts, ChainFacts
      <4>2. list \in [Consumers -> Seq(Items)]
        BY <1>0 DEF ItemTypes
      <4>3. CASE c = dest
        <5>1. d[p] = <<x>> \o list[dest] /\ list'[dest] = <<x>> \o list[dest]
          BY <1>c, <2>1, <2>2, <4>2, PlaceFacts, ChainFacts
        <5>2. QED
          BY <4>1, <4>3, <5>1
      <4>4. CASE c # dest
        <5>1. AtList(c) # p /\ AtList(c) \in Places
          BY <2>2, <4>4, PlaceFacts
        <5>2. d[AtList(c)] = list[c] /\ list'[c] = list[c]
          BY <1>c, <2>1, <4>2, <4>4, <5>1, ChainFacts
        <5>3. QED
          BY <4>1, <5>2
      <4>5. QED
        BY <4>3, <4>4
    <3> HIDE DEF d
    <3>3. QED
      BY <2>3, <3>1, <3>2, ChainsAre
  <2> HIDE DEF d
  <2>6. gpc'[Producer] = "idle" /\ ItemTypes'
    BY <1>0, <2>1, <2>4 DEF ItemTypes
  <2>7. Serving' /\ Held' = {}
    BY <1>0, <2>1, <2>6 DEF Serving, Held
  <2>8. Once(Chains', Held', newed')
    <3>1. {x} \ {x} = {}
      OBVIOUS
    <3>2. QED
      BY <2>1, <2>3, <2>5, <2>7, <3>1
  <2>9. QED
    BY <2>6, <2>7, <2>8 DEF ItemInv, Once
<1>5. QED
  BY <1>1, <1>2, <1>3, <1>4 DEF Produce

(* A consumer takes over its list as a batch, and gives its items back.    *)
LEMMA ConsumerItems ==
  ASSUME ItemInv, NEW c \in Consumers, ConsumeItems(c)
  PROVE  ItemInv'
<1>0. ItemTypes /\ Serving /\ Once(Chains, Held, newed)
  BY DEF ItemInv
<1>c. Chains \in [Places -> Seq(Items)]
  BY <1>0, ChainTypes
<1>k. /\ kpc \in [Consumers -> {"idle", "flush", "count", "work"}]
      /\ list \in [Consumers -> Seq(Items)] /\ batch \in [Consumers -> Seq(Items)]
  BY <1>0 DEF ItemTypes
<1>1. CASE GetItemsTest(c) \/ GetItemsCount(c) \/ BatchDone(c)
  <2>1. UNCHANGED <<recyclerVars, list, batch, dest>>
    BY <1>1 DEF GetItemsTest, GetItemsCount, BatchDone
  <2>2. UNCHANGED <<free, currList, newed, gpc, item, tries>>
    BY <2>1 DEF recyclerVars
  <2>3. ItemTypes' /\ Held' = Held
    BY <1>0, <1>k, <1>1, <2>1, <2>2 DEF ItemTypes, Held, GetItemsTest, GetItemsCount, BatchDone
  <2>4. \A e \in Consumers : kpc'[e] \in {"idle", "flush"} => batch'[e] = <<>>
    BY <1>0, <1>k, <1>1, <2>1 DEF Serving, GetItemsTest, GetItemsCount, BatchDone
  <2>5. Serving'
    BY <1>0, <2>2, <2>4 DEF Serving
  <2>6. QED
    BY <2>1, <2>2, <2>3, <2>5, ChainsKept DEF ItemInv
<1>2. CASE GetItemsFlush(c)
  <2>1. /\ batch' = [batch EXCEPT ![c] = Reverse(list[c])] /\ list' = [list EXCEPT ![c] = <<>>]
        /\ kpc' = [kpc EXCEPT ![c] = "count"] /\ batch[c] = <<>>
        /\ UNCHANGED <<free, currList, newed, gpc, item, tries, dest>>
    BY <1>0, <1>2 DEF GetItemsFlush, Serving, recyclerVars
  <2> DEFINE p == AtList(c)
  <2> DEFINE q == AtBatch(c)
  <2> DEFINE s == Reverse(Chains[p])
  <2> DEFINE d == [Chains EXCEPT ![p] = <<>>, ![q] = s]
  <2>2. d \in [Places -> Seq(Items)] /\ Once(d, Held, newed)
    <3> DEFINE ch == Chains
    <3>1. /\ ch \in [Places -> Seq(Items)] /\ Once(ch, Held, newed) /\ p \in Places
          /\ q \in Places /\ p # q /\ ch[q] = <<>> /\ s = Reverse(ch[p])
          /\ d = [ch EXCEPT ![p] = <<>>, ![q] = s]
      BY <1>0, <1>c, <2>1, PlaceFacts, ChainFacts
    <3> HIDE DEF p, q, s, d, ch
    <3>2. QED
      BY <3>1, PourOnce
  <2>3. /\ p \in Places /\ q \in Places /\ p # q /\ s = Reverse(list[c])
        /\ d[p] = <<>> /\ d[q] = s /\ \A r \in Places : r # p /\ r # q => d[r] = Chains[r]
    BY <1>c, PlaceFacts, ChainFacts
  <2> HIDE DEF s, d
  <2>4. s \in Seq(Items) /\ <<>> \in Seq(Items)
    BY <2>2, <2>3, EmptySeq
  <2>5. /\ list' \in [Consumers -> Seq(Items)] /\ batch' \in [Consumers -> Seq(Items)]
        /\ list'[c] = <<>> /\ batch'[c] = s
        /\ \A e \in Consumers \ {c} : list'[e] = list[e] /\ batch'[e] = batch[e]
    BY <1>k, <2>1, <2>3, <2>4
  <2>6. Chains' = d
    <3>1. d[AtFree] = free' /\ d[AtCurr] = currList'
      BY <2>1, <2>3, PlaceFacts, ChainFacts
    <3>2. ASSUME NEW e \in Consumers PROVE d[AtList(e)] = list'[e] /\ d[AtBatch(e)] = batch'[e]
      <4>1. CASE e = c
        BY <2>3, <2>5, <4>1
      <4>2. CASE e # c
        <5>1. /\ AtList(e) \in Places /\ AtList(e) # p /\ AtList(e) # q
              /\ AtBatch(e) \in Places /\ AtBatch(e) # p /\ AtBatch(e) # q
          BY <4>2, PlaceFacts
        <5>2. QED
          BY <2>3, <2>5, <4>2, <5>1, ChainFacts
      <4>3. QED
        BY <4>1, <4>2
    <3>3. QED
      BY <2>2, <3>1, <3>2, ChainsAre
  <2>7. ItemTypes' /\ Held' = Held
    BY <1>0, <1>k, <2>1, <2>5 DEF ItemTypes, Held
  <2>8. Serving'
    <3>1. \A e \in Consumers : kpc'[e] \in {"idle", "flush"} => batch'[e] = <<>>
      BY <1>0, <1>k, <2>1, <2>5 DEF Serving
    <3>2. QED
      BY <1>0, <2>1, <3>1 DEF Serving
  <2>9. Once(Chains', Held', newed')
    BY <2>1, <2>2, <2>6, <2>7
  <2>10. QED
    BY <2>7, <2>8, <2>9 DEF ItemInv, Once
<1>3. CASE Consume(c)
  <2> DEFINE x == Head(batch[c])
  <2> DEFINE p == AtBatch(c)
  <2> DEFINE q == AtFree
  <2>1. /\ kpc[c] = "work" /\ batch[c] # <<>> /\ batch' = [batch EXCEPT ![c] = Tail(batch[c])]
        /\ free' = <<x>> \o free
        /\ UNCHANGED <<currList, newed, gpc, item, tries, list, kpc, dest>>
    BY <1>3 DEF Consume, Recycled
  <2> DEFINE d == [Chains EXCEPT ![p] = Tail(Chains[p])]
  <2> DEFINE e == [d EXCEPT ![q] = <<x>> \o d[q]]
  <2>2. /\ p \in Places /\ q \in Places /\ p # q /\ Chains[p] = batch[c] /\ Chains[q] = free
    BY PlaceFacts, ChainFacts
  <2>3. /\ d \in [Places -> Seq(Items)] /\ x \notin Held /\ x \in Items
        /\ Once(d, Held \cup {x}, newed)
    <3> DEFINE ch == Chains
    <3>1. /\ ch \in [Places -> Seq(Items)] /\ Once(ch, Held, newed) /\ ch[p] # <<>>
          /\ d = [ch EXCEPT ![p] = Tail(ch[p])] /\ p \in Places /\ x = Head(ch[p])
      BY <1>0, <1>c, <2>1, <2>2
    <3> HIDE DEF x, p, d, ch
    <3>2. QED
      BY <3>1, PopOnce, ZenonT(40)
  <2>4. d[p] = Tail(batch[c]) /\ \A r \in Places : r # p => d[r] = Chains[r]
    BY <1>c, <2>2
  <2>5. e \in [Places -> Seq(Items)] /\ Once(e, (Held \cup {x}) \ {x}, newed)
    <3> DEFINE h == Held \cup {x}
    <3>1. /\ d \in [Places -> Seq(Items)] /\ Once(d, h, newed) /\ x \in h /\ x \in Items
          /\ e = [d EXCEPT ![q] = <<x>> \o d[q]] /\ q \in Places
      BY <2>2, <2>3
    <3> HIDE DEF x, q, d, e, h
    <3>2. e \in [Places -> Seq(Items)] /\ Once(e, h \ {x}, newed)
      BY <3>1, PushOnce
    <3>3. QED
      BY <3>2 DEF h
  <2>6. e[q] = <<x>> \o free /\ \A r \in Places : r # q => e[r] = d[r]
    BY <2>2, <2>3, <2>4
  <2> HIDE DEF x, d, e
  <2>7. /\ batch' \in [Consumers -> Seq(Items)] /\ batch'[c] = Tail(batch[c])
        /\ \A f \in Consumers \ {c} : batch'[f] = batch[f]
    <3>1. Tail(batch[c]) \in Seq(Items)
      BY <2>2, <2>3, <2>4
    <3>2. QED
      BY <1>k, <2>1, <3>1
  <2>8. free' \in Seq(Items)
    BY <2>1, <2>2, <2>5, <2>6
  <2>9. Chains' = e
    <3>1. e[AtFree] = free' /\ e[AtCurr] = currList'
      BY <2>1, <2>2, <2>4, <2>6, PlaceFacts, ChainFacts
    <3>2. ASSUME NEW f \in Consumers PROVE e[AtList(f)] = list'[f] /\ e[AtBatch(f)] = batch'[f]
      <4>1. /\ AtList(f) \in Places /\ AtList(f) # p /\ AtList(f) # q
            /\ AtBatch(f) \in Places /\ AtBatch(f) # q /\ (f # c => AtBatch(f) # p)
        BY PlaceFacts
      <4>2. e[AtList(f)] = list'[f]
        BY <2>1, <2>4, <2>6, <4>1, ChainFacts
      <4>3. e[AtBatch(f)] = batch'[f]
        <5>1. CASE f = c
          BY <2>4, <2>6, <2>7, <4>1, <5>1
        <5>2. CASE f # c
          BY <2>4, <2>6, <2>7, <4>1, <5>2, ChainFacts
        <5>3. QED
          BY <5>1, <5>2
      <4>4. QED
        BY <4>2, <4>3
    <3>3. QED
      BY <2>5, <3>1, <3>2, ChainsAre
  <2>10. ItemTypes' /\ Held' = Held
    BY <1>0, <2>1, <2>7, <2>8 DEF ItemTypes, Held
  <2>11. Serving'
    <3>1. \A f \in Consumers : kpc'[f] \in {"idle", "flush"} => batch'[f] = <<>>
      BY <1>0, <2>1, <2>7 DEF Serving
    <3>2. QED
      BY <1>0, <2>1, <3>1 DEF Serving
  <2>12. Once(Chains', Held', newed')
    <3>1. (Held \cup {x}) \ {x} = Held
      BY <2>3
    <3>2. QED
      BY <2>1, <2>5, <2>9, <2>10, <3>1
  <2>13. QED
    BY <2>10, <2>11, <2>12 DEF ItemInv, Once
<1>4. QED
  BY <1>1, <1>2, <1>3 DEF ConsumeItems

(* Every step keeps the items in their places.                             *)
LEMMA ItemStep == ItemInv /\ [SListNext]_slistVars => ItemInv'
<1> SUFFICES ASSUME ItemInv, [SListNext]_slistVars PROVE ItemInv'
  OBVIOUS
<1>1. CASE Produce
  BY <1>1, ProducerItems
<1>2. ASSUME NEW c \in Consumers, ConsumeItems(c) PROVE ItemInv'
  BY <1>2, ConsumerItems
<1>3. ASSUME NEW c \in Consumers, ClearStats(c) PROVE ItemInv'
  BY <1>3, ItemsKept DEF ClearStats, ClearStatsRead, ClearStatsLife, ClearStatsOut
<1>4. CASE UNCHANGED slistVars
  BY <1>4, ItemsKept DEF slistVars, listVars
<1>5. QED
  BY <1>1, <1>2, <1>3, <1>4 DEF SListNext
-----------------------------------------------------------------------------
(* The bounds of the counters.                                             *)

(* The numbers of a list, as the invariant bounds them.                    *)
LEMMA NumberFacts ==
  ASSUME NumberTypes, NEW c \in Consumers
  PROVE  /\ life[c] \in 0 .. Total /\ out[c] \in 0 .. Total /\ subtract[c] \in 0 .. Total
         /\ clears[c] \in 0 .. 3 * MaxClears /\ i \in 1 .. Total + 1 /\ Total \in Nat
         /\ MaxClears \in Nat /\ Cleared(c) \in 0 .. Total /\ Pushing(c) \in 0 .. 1
<1>1. Total \in Nat /\ MaxClears \in Nat
  BY SListAssumption
<1>2. /\ life[c] \in 0 .. Total /\ out[c] \in 0 .. Total /\ subtract[c] \in 0 .. Total
      /\ clears[c] \in 0 .. 3 * MaxClears /\ i \in 1 .. Total + 1
  BY DEF NumberTypes
<1>3. QED
  BY <1>1, <1>2 DEF Cleared, Pushing

(* All counters start at 0.                                                *)
LEMMA NumberInit == SListInit => NumberInv
<1> SUFFICES ASSUME SListInit PROVE NumberInv
  OBVIOUS
<1>1. Total \in Nat /\ MaxClears \in Nat /\ 0 \in 0 .. Total /\ 0 \in 0 .. 3 * MaxClears
  BY SListAssumption
<1>2. NumberTypes
  BY <1>1 DEF SListInit, NumberTypes
<1>3. gpc[Producer] = "idle"
  BY OneProducer DEF SListInit, RecyclerInit
<1>4. Bounded
  BY <1>1, <1>3 DEF SListInit, Bounded, Cleared, Pushing
<1>5. QED
  BY <1>2, <1>4 DEF NumberInv

(* A step that leaves the counters alone, and no push is under way.        *)
LEMMA NumbersKept ==
  ASSUME NumberInv, UNCHANGED <<life, out, i, skipped, subtract, clears, dest>>,
         gpc'[Producer] = "push" <=> gpc[Producer] = "push",
         gpc'[Producer] # "idle" => i <= Total
  PROVE  NumberInv'
<1>1. NumberTypes'
  BY DEF NumberInv, NumberTypes
<1>2. \A c \in Consumers : Cleared(c)' = Cleared(c) /\ Pushing(c)' = Pushing(c)
  BY DEF Cleared, Pushing
<1>3. Bounded'
  BY <1>2 DEF NumberInv, Bounded
<1>4. QED
  BY <1>1, <1>3 DEF NumberInv

(* The producer counts one value at a time.                                *)
LEMMA ProducerNumbers ==
  ASSUME ListTypes, NumberInv, Produce
  PROVE  NumberInv'
<1> USE OneProducer
<1>0. NumberTypes /\ Bounded /\ PoolTypes /\ Total \in Nat /\ i \in 1 .. Total + 1
  BY SListAssumption DEF NumberInv, ListTypes, NumberTypes
<1>g. gpc \in [Getters -> {"idle", "flush", "new", "wait", "failed", "take",
                           "advance", "held", "push"}]
  BY <1>0 DEF PoolTypes
<1>1. CASE ProducerGets
  <2>1. Get(Producer) /\ i <= Total /\ UNCHANGED listVars
    BY <1>1 DEF ProducerGets
  <2>2. gpc[Producer] # "push" /\ gpc'[Producer] # "push"
    BY <1>0, <2>1, GetFacts
  <2>3. QED
    BY <2>1, <2>2, NumbersKept DEF listVars
<1>2. CASE ProducerSkips
  <2>1. /\ gpc[Producer] = "failed" /\ gpc' = [gpc EXCEPT ![Producer] = "idle"]
        /\ skipped' = skipped \cup {i} /\ i' = i + 1
        /\ UNCHANGED <<life, out, subtract, clears, dest>>
    BY <1>2 DEF ProducerSkips, At, Go
  <2>2. i <= Total /\ gpc'[Producer] = "idle"
    BY <1>0, <1>g, <2>1 DEF Bounded
  <2>3. NumberTypes'
    BY <1>0, <2>1, <2>2 DEF NumberTypes
  <2>4. ASSUME NEW c \in Consumers
        PROVE  /\ life'[c] + Cleared(c)' <= i' - 1 + Pushing(c)'
               /\ clears'[c] % 3 = 1 => subtract'[c] <= life'[c]
               /\ clears'[c] % 3 \in {1, 2} => subtract'[c] <= out'[c]
    <3>1. Cleared(c)' = Cleared(c) /\ Pushing(c)' = 0 /\ Pushing(c) = 0
      BY <2>1, <2>2 DEF Cleared, Pushing
    <3>2. life[c] + Cleared(c) <= i - 1 + Pushing(c)
      BY <1>0 DEF Bounded
    <3>3. life'[c] + Cleared(c)' <= i' - 1 + Pushing(c)'
      BY <1>0, <2>1, <3>1, <3>2, NumberFacts
    <3>4. QED
      BY <1>0, <2>1, <3>3 DEF Bounded
  <2>5. QED
    BY <2>2, <2>3, <2>4 DEF Bounded, NumberInv
<1>3. CASE PushItem
  <2>1. /\ gpc[Producer] = "held" /\ gpc' = [gpc EXCEPT ![Producer] = "push"]
        /\ dest' \in Consumers /\ life' = [life EXCEPT ![dest'] = life[dest'] + 1]
        /\ UNCHANGED <<out, i, skipped, subtract, clears>>
    BY <1>3 DEF PushItem, At, Go
  <2>2. i <= Total /\ gpc'[Producer] = "push"
    BY <1>0, <1>g, <2>1 DEF Bounded
  <2>3. ASSUME NEW c \in Consumers
        PROVE  /\ Cleared(c)' = Cleared(c) /\ Pushing(c) = 0
               /\ Pushing(c)' = IF c = dest' THEN 1 ELSE 0
               /\ life'[c] = life[c] + Pushing(c)'
               /\ life[c] + Cleared(c) <= i - 1
    <3>1. life \in [Consumers -> 0 .. Total]
      BY <1>0 DEF NumberTypes
    <3>2. /\ Cleared(c)' = Cleared(c) /\ Pushing(c) = 0
          /\ Pushing(c)' = IF c = dest' THEN 1 ELSE 0
      BY <2>1, <2>2 DEF Cleared, Pushing
    <3>3. life'[c] = IF c = dest' THEN life[c] + 1 ELSE life[c]
      BY <2>1, <3>1
    <3>4. life'[c] = life[c] + Pushing(c)'
      BY <1>0, <3>2, <3>3, NumberFacts
    <3>5. life[c] + Cleared(c) <= i - 1 + Pushing(c)
      BY <1>0 DEF Bounded
    <3>6. life[c] + Cleared(c) <= i - 1
      BY <1>0, <3>2, <3>5, NumberFacts
    <3>7. QED
      BY <3>2, <3>4, <3>6
  <2>4. life' \in [Consumers -> 0 .. Total]
    <3>1. life[dest'] + 1 \in 0 .. Total
      BY <1>0, <2>1, <2>2, <2>3, NumberFacts
    <3>2. life \in [Consumers -> 0 .. Total]
      BY <1>0 DEF NumberTypes
    <3>3. QED
      BY <2>1, <3>1, <3>2
  <2>5. NumberTypes'
    BY <1>0, <2>1, <2>4 DEF NumberTypes
  <2>6. ASSUME NEW c \in Consumers
        PROVE  /\ life'[c] + Cleared(c)' <= i' - 1 + Pushing(c)'
               /\ clears'[c] % 3 = 1 => subtract'[c] <= life'[c]
               /\ clears'[c] % 3 \in {1, 2} => subtract'[c] <= out'[c]
    <3>1. life'[c] + Cleared(c)' <= i' - 1 + Pushing(c)'
      BY <1>0, <2>1, <2>3, NumberFacts
    <3>2. ASSUME clears'[c] % 3 = 1 PROVE subtract'[c] <= life'[c]
      <4>1. subtract[c] <= life[c]
        BY <1>0, <2>1, <3>2 DEF Bounded
      <4>2. QED
        BY <1>0, <2>1, <2>3, <4>1, NumberFacts
    <3>3. QED
      BY <1>0, <2>1, <3>1, <3>2 DEF Bounded
  <2>7. QED
    BY <2>1, <2>2, <2>5, <2>6 DEF Bounded, NumberInv
<1>4. CASE PushEntry
  <2>1. /\ gpc[Producer] = "push" /\ gpc' = [gpc EXCEPT ![Producer] = "idle"]
        /\ i' = i + 1 /\ UNCHANGED <<life, out, skipped, subtract, clears, dest>>
    BY <1>4 DEF PushEntry, At, Go
  <2>2. i <= Total /\ gpc'[Producer] = "idle"
    BY <1>0, <1>g, <2>1 DEF Bounded
  <2>3. NumberTypes'
    BY <1>0, <2>1, <2>2 DEF NumberTypes
  <2>4. ASSUME NEW c \in Consumers
        PROVE  /\ life'[c] + Cleared(c)' <= i' - 1 + Pushing(c)'
               /\ clears'[c] % 3 = 1 => subtract'[c] <= life'[c]
               /\ clears'[c] % 3 \in {1, 2} => subtract'[c] <= out'[c]
    <3>1. Cleared(c)' = Cleared(c) /\ Pushing(c)' = 0
      BY <2>1, <2>2 DEF Cleared, Pushing
    <3>2. life[c] + Cleared(c) <= i - 1 + Pushing(c)
      BY <1>0 DEF Bounded
    <3>3. life'[c] + Cleared(c)' <= i' - 1 + Pushing(c)'
      BY <1>0, <2>1, <3>1, <3>2, NumberFacts
    <3>4. QED
      BY <1>0, <2>1, <3>3 DEF Bounded
  <2>5. QED
    BY <2>2, <2>3, <2>4 DEF Bounded, NumberInv
<1>5. QED
  BY <1>1, <1>2, <1>3, <1>4 DEF Produce

(* A consumer counts the items it flushed, no more than were pushed.       *)
LEMMA ConsumerNumbers ==
  ASSUME ListTypes, SizeMatches, NumberInv, NEW c \in Consumers, ConsumeItems(c)
  PROVE  NumberInv'
<1>0. NumberTypes /\ Bounded /\ Total \in Nat /\ i \in 1 .. Total + 1
  BY SListAssumption DEF NumberInv, NumberTypes
<1>1. CASE GetItemsTest(c) \/ GetItemsFlush(c) \/ Consume(c) \/ BatchDone(c)
  <2>1. UNCHANGED <<life, out, i, skipped, subtract, clears, dest, gpc>>
    BY <1>1 DEF GetItemsTest, GetItemsFlush, Consume, BatchDone, recyclerVars
  <2>2. QED
    BY <1>0, <2>1, NumbersKept DEF Bounded
<1>2. CASE GetItemsCount(c)
  <2>1. /\ kpc[c] = "count" /\ out' = [out EXCEPT ![c] = out[c] + Len(batch[c])]
        /\ UNCHANGED <<life, i, skipped, subtract, clears, dest, gpc>>
    BY <1>2 DEF GetItemsCount, recyclerVars
  <2>2. Flushed(c) = Len(batch[c]) /\ Len(batch[c]) \in Nat /\ Len(list[c]) \in Nat
    BY <2>1, Numbers DEF Flushed
  <2>3. out[c] + Len(batch[c]) \in 0 .. Total
    <3>1. life[c] - out[c] + Cleared(c) = Len(list[c]) + Len(batch[c]) + Pushing(c)
      BY <2>2 DEF SizeMatches
    <3>2. life[c] + Cleared(c) <= i - 1 + Pushing(c)
      BY <1>0 DEF Bounded
    <3> DEFINE b == Len(batch[c])
    <3> DEFINE l == Len(list[c])
    <3>3. /\ life[c] \in 0 .. Total /\ out[c] \in 0 .. Total /\ Cleared(c) \in 0 .. Total
          /\ Pushing(c) \in 0 .. 1 /\ b \in Nat /\ l \in Nat
      BY <1>0, <2>2, NumberFacts
    <3>4. life[c] - out[c] + Cleared(c) = l + b + Pushing(c)
      BY <3>1
    <3> HIDE DEF b, l
    <3>5. out[c] + b \in 0 .. Total
      BY <1>0, <3>2, <3>3, <3>4
    <3>6. QED
      BY <3>5 DEF b
  <2>4. /\ out' \in [Consumers -> 0 .. Total] /\ out'[c] = out[c] + Len(batch[c])
        /\ \A e \in Consumers \ {c} : out'[e] = out[e]
    <3> DEFINE v == out[c] + Len(batch[c])
    <3>1. out \in [Consumers -> 0 .. Total] /\ v \in 0 .. Total
      BY <1>0, <2>3 DEF NumberTypes
    <3>2. out' = [out EXCEPT ![c] = v]
      BY <2>1
    <3> HIDE DEF v
    <3>3. out' \in [Consumers -> 0 .. Total] /\ out'[c] = v /\ \A e \in Consumers \ {c} : out'[e] = out[e]
      BY <3>1, <3>2
    <3>4. QED
      BY <3>3 DEF v
  <2>5. NumberTypes'
    BY <1>0, <2>1, <2>4 DEF NumberTypes
  <2>6. ASSUME NEW e \in Consumers
        PROVE  /\ life'[e] + Cleared(e)' <= i' - 1 + Pushing(e)'
               /\ clears'[e] % 3 = 1 => subtract'[e] <= life'[e]
               /\ clears'[e] % 3 \in {1, 2} => subtract'[e] <= out'[e]
    <3>1. Cleared(e)' = Cleared(e) /\ Pushing(e)' = Pushing(e)
      BY <2>1 DEF Cleared, Pushing
    <3>2. out[e] <= out'[e]
      <4>1. CASE e = c
        <5>1. out[c] \in Int /\ Len(batch[c]) \in Nat
          BY <2>2, Numbers
        <5>2. QED
          BY <2>4, <4>1, <5>1
      <4>2. CASE e # c
        BY <1>0, <2>4, <4>2, NumberFacts
      <4>3. QED
        BY <4>1, <4>2
    <3>3. ASSUME clears'[e] % 3 \in {1, 2} PROVE subtract'[e] <= out'[e]
      <4>1. subtract[e] <= out[e]
        BY <1>0, <2>1, <3>3 DEF Bounded
      <4>2. out'[e] \in 0 .. Total
        BY <2>4
      <4>3. QED
        BY <1>0, <2>1, <3>2, <4>1, <4>2, NumberFacts
    <3>4. QED
      BY <1>0, <2>1, <3>1, <3>3 DEF Bounded
  <2>7. QED
    BY <1>0, <2>1, <2>5, <2>6 DEF Bounded, NumberInv
<1>3. QED
  BY <1>1, <1>2 DEF ConsumeItems

(* A clearStats that has more steps to go has room to count them.          *)
LEMMA ClearsRoom ==
  ASSUME NEW n, NEW m \in Nat, n \in 0 .. 3 * m, n % 3 # 0 \/ n < 3 * m
  PROVE  n + 1 \in 0 .. 3 * m
<1>1. (3 * m) % 3 = 0
  OBVIOUS
<1>2. n # 3 * m
  BY <1>1
<1>3. QED
  BY <1>2

(* clearStats takes the same number off both counters of one list, at most *)
(* what either has.                                                        *)
LEMMA ClearNumbers ==
  ASSUME ListTypes, NumberInv, NEW c \in Consumers, ClearStats(c)
  PROVE  NumberInv'
<1>0. /\ NumberTypes /\ Bounded /\ CounterTypes /\ Total \in Nat /\ MaxClears \in Nat
      /\ life[c] \in 0 .. Total /\ out[c] \in 0 .. Total /\ subtract[c] \in 0 .. Total
      /\ clears[c] \in 0 .. 3 * MaxClears /\ Pushing(c) \in 0 .. 1 /\ i \in 1 .. Total + 1
  BY NumberFacts, SListAssumption DEF NumberInv, ListTypes
<1>k. /\ clears' = [clears EXCEPT ![c] = @ + 1] /\ UNCHANGED <<gpc, i, dest, skipped>>
      /\ clears[c] % 3 # 0 \/ clears[c] < 3 * MaxClears
  BY DEF ClearStats, ClearStatsRead, ClearStatsLife, ClearStatsOut, recyclerVars
<1>l. /\ clears'[c] = clears[c] + 1 /\ \A e \in Consumers \ {c} : clears'[e] = clears[e]
      /\ clears[c] \in Nat
  BY <1>0, <1>k, ClearsNext
<1>m. clears' \in [Consumers -> 0 .. 3 * MaxClears]
  <2>1. clears[c] + 1 \in 0 .. 3 * MaxClears
    BY <1>0, <1>k, ClearsRoom
  <2>2. clears \in [Consumers -> 0 .. 3 * MaxClears]
    BY <1>0 DEF NumberTypes
  <2>3. QED
    BY <1>k, <2>1, <2>2
<1>n. ASSUME NEW e \in Consumers PROVE Pushing(e)' = Pushing(e)
  BY <1>k DEF Pushing
<1>o. life[c] + Cleared(c) <= i - 1 + Pushing(c)
  BY <1>0 DEF Bounded
<1>p. ASSUME \A e \in Consumers \ {c} :
               life'[e] = life[e] /\ out'[e] = out[e] /\ subtract'[e] = subtract[e],
             NumberTypes', life'[c] + Cleared(c)' <= i - 1 + Pushing(c),
             clears'[c] % 3 = 1 => subtract'[c] <= life'[c],
             clears'[c] % 3 \in {1, 2} => subtract'[c] <= out'[c]
      PROVE  NumberInv'
  <2>1. ASSUME NEW e \in Consumers
        PROVE  /\ life'[e] + Cleared(e)' <= i' - 1 + Pushing(e)'
               /\ clears'[e] % 3 = 1 => subtract'[e] <= life'[e]
               /\ clears'[e] % 3 \in {1, 2} => subtract'[e] <= out'[e]
    <3>1. CASE e = c
      BY <1>k, <1>n, <1>p, <3>1
    <3>2. CASE e # c
      <4>1. Cleared(e)' = Cleared(e)
        BY <1>l, <1>p, <3>2 DEF Cleared
      <4>2. QED
        BY <1>0, <1>k, <1>l, <1>n, <1>p, <3>2, <4>1 DEF Bounded
    <3>3. QED
      BY <3>1, <3>2
  <2>2. gpc'[Producer] # "idle" => i' <= Total
    BY <1>0, <1>k DEF Bounded
  <2>3. QED
    BY <1>p, <2>1, <2>2 DEF Bounded, NumberInv
<1>1. CASE ClearStatsRead(c)
  <2> DEFINE v == IF out[c] > life[c] THEN life[c] ELSE out[c]
  <2>1. clears[c] % 3 = 0 /\ subtract' = [subtract EXCEPT ![c] = v] /\ UNCHANGED <<life, out>>
    BY <1>1 DEF ClearStatsRead
  <2>2. v \in 0 .. Total /\ v <= life[c] /\ v <= out[c]
    BY <1>0
  <2> HIDE DEF v
  <2>3. /\ subtract' \in [Consumers -> 0 .. Total] /\ subtract'[c] = v
        /\ \A e \in Consumers \ {c} : subtract'[e] = subtract[e]
    BY <1>0, <2>1, <2>2 DEF NumberTypes
  <2>4. clears'[c] % 3 = 1 /\ Cleared(c)' = 0 /\ Cleared(c) = 0
    BY <1>l, <2>1, NextThird DEF Cleared
  <2>5. NumberTypes'
    BY <1>0, <1>k, <1>m, <2>1, <2>3 DEF NumberTypes
  <2>6. life'[c] + Cleared(c)' <= i - 1 + Pushing(c)
    BY <1>o, <2>1, <2>4
  <2>7. subtract'[c] <= life'[c] /\ subtract'[c] <= out'[c]
    BY <2>1, <2>2, <2>3
  <2>8. QED
    BY <1>p, <2>1, <2>3, <2>5, <2>6, <2>7
<1>2. CASE ClearStatsLife(c)
  <2>1. /\ clears[c] % 3 = 1 /\ life' = [life EXCEPT ![c] = life[c] - subtract[c]]
        /\ UNCHANGED <<out, subtract>>
    BY <1>2 DEF ClearStatsLife
  <2>2. subtract[c] <= life[c] /\ subtract[c] <= out[c]
    BY <1>0, <2>1 DEF Bounded
  <2>3. life[c] - subtract[c] \in 0 .. Total
    BY <1>0, <2>2
  <2>4. /\ life' \in [Consumers -> 0 .. Total] /\ life'[c] = life[c] - subtract[c]
        /\ \A e \in Consumers \ {c} : life'[e] = life[e]
    BY <1>0, <2>1, <2>3 DEF NumberTypes
  <2>5. clears'[c] % 3 = 2 /\ Cleared(c)' = subtract[c] /\ Cleared(c) = 0
    BY <1>l, <2>1, NextThird DEF Cleared
  <2>6. NumberTypes'
    BY <1>0, <1>k, <1>m, <2>1, <2>4 DEF NumberTypes
  <2>7. life'[c] + Cleared(c)' <= i - 1 + Pushing(c)
    BY <1>0, <1>o, <2>4, <2>5
  <2>8. clears'[c] % 3 # 1 /\ subtract'[c] <= out'[c]
    BY <2>1, <2>2, <2>5
  <2>9. QED
    BY <1>p, <2>1, <2>4, <2>6, <2>7, <2>8
<1>3. CASE ClearStatsOut(c)
  <2>1. /\ clears[c] % 3 = 2 /\ out' = [out EXCEPT ![c] = out[c] - subtract[c]]
        /\ UNCHANGED <<life, subtract>>
    BY <1>3 DEF ClearStatsOut
  <2>2. subtract[c] <= out[c]
    BY <1>0, <2>1 DEF Bounded
  <2>3. out[c] - subtract[c] \in 0 .. Total
    BY <1>0, <2>2
  <2>4. /\ out' \in [Consumers -> 0 .. Total]
        /\ \A e \in Consumers \ {c} : out'[e] = out[e]
    BY <1>0, <2>1, <2>3 DEF NumberTypes
  <2>5. clears'[c] % 3 = 0 /\ Cleared(c)' = 0 /\ Cleared(c) = subtract[c]
    BY <1>l, <2>1, NextThird DEF Cleared
  <2>6. NumberTypes'
    BY <1>0, <1>k, <1>m, <2>1, <2>4 DEF NumberTypes
  <2>7. life'[c] + Cleared(c)' <= i - 1 + Pushing(c)
    BY <1>0, <1>o, <2>1, <2>5
  <2>8. clears'[c] % 3 # 1 /\ clears'[c] % 3 # 2
    BY <2>5
  <2>9. QED
    BY <1>p, <2>1, <2>4, <2>6, <2>7, <2>8
<1>4. QED
  BY <1>1, <1>2, <1>3 DEF ClearStats

(* Every step keeps the counters within their bounds.                      *)
LEMMA NumberStep ==
  ListTypes /\ SizeMatches /\ NumberInv /\ [SListNext]_slistVars => NumberInv'
<1> SUFFICES ASSUME ListTypes, SizeMatches, NumberInv, [SListNext]_slistVars PROVE NumberInv'
  OBVIOUS
<1>1. CASE Produce
  BY <1>1, ProducerNumbers
<1>2. ASSUME NEW c \in Consumers, ConsumeItems(c) PROVE NumberInv'
  BY <1>2, ConsumerNumbers
<1>3. ASSUME NEW c \in Consumers, ClearStats(c) PROVE NumberInv'
  BY <1>3, ClearNumbers
<1>4. CASE UNCHANGED slistVars
  <2>1. UNCHANGED <<life, out, i, skipped, subtract, clears, dest, gpc>>
    BY <1>4 DEF slistVars, listVars, recyclerVars
  <2>2. QED
    BY <2>1, NumbersKept DEF NumberInv, Bounded
<1>5. QED
  BY <1>1, <1>2, <1>3, <1>4 DEF SListNext
-----------------------------------------------------------------------------
(* Counting the places of an item.                                         *)

(* An item that a sequence does not hold occurs no times in it.            *)
LEMMA NotThere ==
  ASSUME NEW s \in Seq(Items), NEW n, \A k \in 1 .. Len(s) : s[k] # n
  PROVE  Occurrences(n, s) = 0
<1>1. {k \in DOMAIN s : s[k] = n} = {}
  BY LenProperties
<1>2. QED
  BY <1>1, FS_EmptySet DEF Occurrences

(* One it holds at one position occurs once.                               *)
LEMMA ThereOnce ==
  ASSUME NEW s \in Seq(Items), NEW n, NEW j \in 1 .. Len(s), s[j] = n,
         \A k \in 1 .. Len(s) : s[k] = n => k = j
  PROVE  Occurrences(n, s) = 1
<1>1. {k \in DOMAIN s : s[k] = n} = {j}
  BY LenProperties
<1>2. QED
  BY <1>1, FS_Singleton DEF Occurrences

(* The same for the sequences of all consumers.                            *)
LEMMA NotInAny ==
  ASSUME NEW t \in [Consumers -> Seq(Items)], NEW n,
         \A c \in Consumers : \A k \in 1 .. Len(t[c]) : t[c][k] # n
  PROVE  OccurrencesIn(n, t) = 0
<1> DEFINE S == {p \in Consumers \X Items : p[2] \in DOMAIN t[p[1]] /\ t[p[1]][p[2]] = n}
<1>1. S = {}
  <2>1. ASSUME NEW p \in S PROVE FALSE
    <3>1. p[1] \in Consumers /\ p[2] \in DOMAIN t[p[1]] /\ t[p[1]][p[2]] = n
      BY <2>1
    <3>2. t[p[1]] \in Seq(Items)
      BY <3>1
    <3>3. p[2] \in 1 .. Len(t[p[1]])
      BY <3>1, <3>2, LenProperties
    <3>4. QED
      BY <3>1, <3>3
  <2>2. QED
    BY <2>1
<1>2. QED
  BY <1>1, FS_EmptySet DEF OccurrencesIn

LEMMA InOneOnce ==
  ASSUME NEW t \in [Consumers -> Seq(Items)], NEW n, NEW c \in Consumers,
         NEW j \in 1 .. Len(t[c]), t[c][j] = n, j \in Items,
         \A e \in Consumers : \A k \in 1 .. Len(t[e]) : t[e][k] = n => e = c /\ k = j
  PROVE  OccurrencesIn(n, t) = 1
<1> DEFINE S == {p \in Consumers \X Items : p[2] \in DOMAIN t[p[1]] /\ t[p[1]][p[2]] = n}
<1>1. <<c, j>> \in S
  <2>1. t[c] \in Seq(Items)
    OBVIOUS
  <2>2. j \in DOMAIN t[c]
    BY <2>1, LenProperties
  <2>3. QED
    BY <2>2
<1>2. ASSUME NEW p \in S PROVE p = <<c, j>>
  <2>1. p \in Consumers \X Items /\ p[2] \in DOMAIN t[p[1]] /\ t[p[1]][p[2]] = n
    BY <1>2
  <2>2. p[1] \in Consumers /\ t[p[1]] \in Seq(Items) /\ p = <<p[1], p[2]>>
    BY <2>1
  <2>3. p[2] \in 1 .. Len(t[p[1]])
    BY <2>1, <2>2, LenProperties
  <2>4. p[1] = c /\ p[2] = j
    BY <2>1, <2>2, <2>3
  <2>5. QED
    BY <2>2, <2>4
<1> HIDE DEF S
<1>3. S = {<<c, j>>}
  BY <1>1, <1>2
<1>4. Cardinality(S) = 1
  BY <1>3, FS_Singleton
<1>5. QED
  BY <1>4 DEF S, OccurrencesIn

(* A sequence without repetitions is no longer than there are items.       *)
LEMMA ShortSequence ==
  ASSUME NEW s \in Seq(Items), \A j, k \in 1 .. Len(s) : s[j] = s[k] => j = k
  PROVE  Len(s) <= MaxItems
<1>1. MaxItems \in Nat /\ Len(s) \in Nat
  BY RecyclerAssumption, LenProperties
<1>2. /\ IsFiniteSet(Items) /\ Cardinality(Items) = MaxItems
      /\ IsFiniteSet(1 .. Len(s)) /\ Cardinality(1 .. Len(s)) = Len(s)
  <2>1. ASSUME NEW m \in Nat PROVE IsFiniteSet(1 .. m) /\ Cardinality(1 .. m) = m
    <3>1. IsFiniteSet(1 .. m) /\ Cardinality(1 .. m) = IF 1 > m THEN 0 ELSE m - 1 + 1
      BY FS_Interval
    <3>2. QED
      BY <3>1
  <2>2. QED
    BY <1>1, <2>1 DEF Items
<1>3. s \in [1 .. Len(s) -> Items]
  BY LenProperties
<1>4. ASSUME MaxItems < Len(s) PROVE FALSE
  <2>1. \E j, k \in 1 .. Len(s) : j # k /\ s[j] = s[k]
    BY <1>2, <1>3, <1>4, FS_PigeonHole
  <2>2. QED
    BY <2>1
<1>5. QED
  BY <1>1, <1>4

(* The sum over all places is 1.                                           *)
LEMMA CountedOnce ==
  ASSUME ItemInv, NEW n \in 1 .. newed
  PROVE  LET held == item[Producer] = n /\ gpc[Producer] \in {"held", "push"}
         IN Occurrences(n, free) + Occurrences(n, currList) + OccurrencesIn(n, list)
            + OccurrencesIn(n, batch) + (IF held THEN 1 ELSE 0) = 1
<1>0. /\ free \in Seq(Items) /\ currList \in Seq(Items) /\ newed \in 0 .. MaxItems
      /\ list \in [Consumers -> Seq(Items)] /\ batch \in [Consumers -> Seq(Items)]
      /\ Once(Chains, Held, newed)
  BY DEF ItemInv, ItemTypes
<1>1. (item[Producer] = n /\ gpc[Producer] \in {"held", "push"}) <=> n \in Held
  BY DEF Held
<1>2. ASSUME NEW c \in Consumers
      PROVE  /\ Chains[AtFree] = free /\ Chains[AtCurr] = currList
             /\ Chains[AtList(c)] = list[c] /\ Chains[AtBatch(c)] = batch[c]
  BY ChainFacts
<1>3. ASSUME NEW p \in Places, NEW q \in Places, p # q,
             NEW j \in 1 .. Len(Chains[p]), Chains[p][j] = n, NEW k \in 1 .. Len(Chains[q])
      PROVE  Chains[q][k] # n
  BY <1>0, <1>3 DEF Once
<1>4. ASSUME NEW p \in Places, NEW j \in 1 .. Len(Chains[p]), Chains[p][j] = n,
             NEW k \in 1 .. Len(Chains[p]), Chains[p][k] = n
      PROVE  k = j
  BY <1>0, <1>4 DEF Once
<1> DEFINE IsAt(p) == \E j \in 1 .. Len(Chains[p]) : Chains[p][j] = n
<1>5. ASSUME NEW p \in Places, NEW q \in Places, IsAt(p), p # q PROVE ~IsAt(q)
  BY <1>3, <1>5
<1>6. ~IsAt(AtFree) => Occurrences(n, free) = 0
  BY <1>0, ChainFacts, NotThere
<1>7. ~IsAt(AtCurr) => Occurrences(n, currList) = 0
  BY <1>0, ChainFacts, NotThere
<1>8. (\A c \in Consumers : ~IsAt(AtList(c))) => OccurrencesIn(n, list) = 0
  <2>1. SUFFICES ASSUME \A c \in Consumers : ~IsAt(AtList(c)) PROVE OccurrencesIn(n, list) = 0
    OBVIOUS
  <2>2. \A c \in Consumers : \A k \in 1 .. Len(list[c]) : list[c][k] # n
    BY <2>1, ChainFacts
  <2>3. list \in [Consumers -> Seq(Items)]
    BY <1>0
  <2>4. QED
    BY <2>2, <2>3, NotInAny
<1>9. (\A c \in Consumers : ~IsAt(AtBatch(c))) => OccurrencesIn(n, batch) = 0
  <2>1. SUFFICES ASSUME \A c \in Consumers : ~IsAt(AtBatch(c)) PROVE OccurrencesIn(n, batch) = 0
    OBVIOUS
  <2>2. \A c \in Consumers : \A k \in 1 .. Len(batch[c]) : batch[c][k] # n
    BY <2>1, ChainFacts
  <2>3. batch \in [Consumers -> Seq(Items)]
    BY <1>0
  <2>4. QED
    BY <2>2, <2>3, NotInAny
<1>10. IsAt(AtFree) => Occurrences(n, free) = 1
  <2>1. SUFFICES ASSUME NEW j \in 1 .. Len(free), free[j] = n PROVE Occurrences(n, free) = 1
    BY ChainFacts
  <2>2. \A k \in 1 .. Len(free) : free[k] = n => k = j
    BY <1>4, <2>1, ChainFacts, PlaceFacts
  <2>3. QED
    BY <1>0, <2>1, <2>2, ThereOnce
<1>11. IsAt(AtCurr) => Occurrences(n, currList) = 1
  <2>1. SUFFICES ASSUME NEW j \in 1 .. Len(currList), currList[j] = n
                 PROVE Occurrences(n, currList) = 1
    BY ChainFacts
  <2>2. \A k \in 1 .. Len(currList) : currList[k] = n => k = j
    BY <1>4, <2>1, ChainFacts, PlaceFacts
  <2>3. QED
    BY <1>0, <2>1, <2>2, ThereOnce
<1>p. ASSUME NEW p \in Places, NEW j \in 1 .. Len(Chains[p]) PROVE j \in Items
  <2> DEFINE s == Chains[p]
  <2>1. s \in Seq(Items)
    BY ChainTypes DEF ItemInv
  <2>2. \A a, b \in 1 .. Len(s) : s[a] = s[b] => a = b
    BY <1>0 DEF Once
  <2> HIDE DEF s
  <2>3. Len(s) <= MaxItems /\ Len(s) \in Nat
    BY <2>1, <2>2, ShortSequence, LenProperties
  <2>4. j \in 1 .. Len(s) /\ MaxItems \in Nat
    BY RecyclerAssumption DEF s
  <2>5. QED
    BY <2>3, <2>4 DEF Items
<1>12. (\E c \in Consumers : IsAt(AtList(c))) => OccurrencesIn(n, list) = 1
  <2>1. SUFFICES ASSUME NEW c \in Consumers, NEW j \in 1 .. Len(list[c]), list[c][j] = n
                 PROVE OccurrencesIn(n, list) = 1
    BY ChainFacts
  <2>2. AtList(c) \in Places /\ Chains[AtList(c)] = list[c] /\ j \in Items
    BY <1>2, <1>p, PlaceFacts
  <2>3. ASSUME NEW e \in Consumers, NEW k \in 1 .. Len(list[e]), list[e][k] = n
        PROVE  e = c /\ k = j
    <3>1. AtList(e) \in Places /\ Chains[AtList(e)] = list[e]
      BY <1>2, PlaceFacts
    <3>2. AtList(e) = AtList(c) /\ k = j
      BY <1>0, <2>1, <2>2, <2>3, <3>1 DEF Once
    <3>3. QED
      BY <3>2, PlaceFacts
  <2>4. list \in [Consumers -> Seq(Items)] /\ j \in Items
    BY <1>0, <2>2
  <2>5. \A e \in Consumers : \A k \in 1 .. Len(list[e]) : list[e][k] = n => e = c /\ k = j
    BY <2>3
  <2>6. QED
    BY <2>1, <2>4, <2>5, InOneOnce
<1>13. (\E c \in Consumers : IsAt(AtBatch(c))) => OccurrencesIn(n, batch) = 1
  <2>1. SUFFICES ASSUME NEW c \in Consumers, NEW j \in 1 .. Len(batch[c]), batch[c][j] = n
                 PROVE OccurrencesIn(n, batch) = 1
    BY ChainFacts
  <2>2. AtBatch(c) \in Places /\ Chains[AtBatch(c)] = batch[c] /\ j \in Items
    BY <1>2, <1>p, PlaceFacts
  <2>3. ASSUME NEW e \in Consumers, NEW k \in 1 .. Len(batch[e]), batch[e][k] = n
        PROVE  e = c /\ k = j
    <3>1. AtBatch(e) \in Places /\ Chains[AtBatch(e)] = batch[e]
      BY <1>2, PlaceFacts
    <3>2. AtBatch(e) = AtBatch(c) /\ k = j
      BY <1>0, <2>1, <2>2, <2>3, <3>1 DEF Once
    <3>3. QED
      BY <3>2, PlaceFacts
  <2>4. batch \in [Consumers -> Seq(Items)] /\ j \in Items
    BY <1>0, <2>2
  <2>5. \A e \in Consumers : \A k \in 1 .. Len(batch[e]) : batch[e][k] = n => e = c /\ k = j
    BY <2>3
  <2>6. QED
    BY <2>1, <2>4, <2>5, InOneOnce
<1>14. n \in Held => \A p \in Places : ~IsAt(p)
  BY <1>0 DEF Once
<1>15. n \notin Held => \E p \in Places : IsAt(p)
  BY <1>0 DEF Once
<1> HIDE DEF IsAt
<1>16. CASE n \in Held
  <2>1. /\ Occurrences(n, free) = 0 /\ Occurrences(n, currList) = 0
        /\ OccurrencesIn(n, list) = 0 /\ OccurrencesIn(n, batch) = 0
    BY <1>6, <1>7, <1>8, <1>9, <1>14, <1>16, PlaceFacts
  <2>2. QED
    BY <1>1, <1>16, <2>1
<1>17. CASE n \notin Held
  <2>1. PICK p \in Places : IsAt(p)
    BY <1>15, <1>17
  <2>2. CASE p = AtFree
    <3>1. /\ ~IsAt(AtCurr) /\ \A c \in Consumers : ~IsAt(AtList(c)) /\ ~IsAt(AtBatch(c))
      BY <1>5, <2>1, <2>2, PlaceFacts
    <3>2. QED
      BY <1>1, <1>7, <1>8, <1>9, <1>10, <1>17, <2>1, <2>2, <3>1
  <2>3. CASE p = AtCurr
    <3>1. /\ ~IsAt(AtFree) /\ \A c \in Consumers : ~IsAt(AtList(c)) /\ ~IsAt(AtBatch(c))
      BY <1>5, <2>1, <2>3, PlaceFacts
    <3>2. QED
      BY <1>1, <1>6, <1>8, <1>9, <1>11, <1>17, <2>1, <2>3, <3>1
  <2>4. CASE \E c \in Consumers : p = AtList(c)
    <3>1. ~IsAt(AtFree) /\ ~IsAt(AtCurr) /\ \A c \in Consumers : ~IsAt(AtBatch(c))
      BY <1>5, <2>1, <2>4, PlaceFacts
    <3>2. QED
      BY <1>1, <1>6, <1>7, <1>9, <1>12, <1>17, <2>1, <2>4, <3>1
  <2>5. CASE \E c \in Consumers : p = AtBatch(c)
    <3>1. ~IsAt(AtFree) /\ ~IsAt(AtCurr) /\ \A c \in Consumers : ~IsAt(AtList(c))
      BY <1>5, <2>1, <2>5, PlaceFacts
    <3>2. QED
      BY <1>1, <1>6, <1>7, <1>8, <1>13, <1>17, <2>1, <2>5, <3>1
  <2>6. QED
    BY <2>2, <2>3, <2>4, <2>5, PlaceCases
<1>18. QED
  BY <1>16, <1>17
-----------------------------------------------------------------------------
(* What moving items does to the order of their values.                    *)

(* A later value may come next.                                            *)
LEMMA TurnLater ==
  ASSUME NEW d \in [Items -> Int], NEW l \in Seq(Items), NEW b \in Seq(Items),
         NEW a \in Int, NEW n \in Int, InTurn(d, l, b, a, n)
  PROVE  InTurn(d, l, b, a, n + 1)
<1>1. \A j \in 1 .. Len(b) : d[b[j]] \in Int
  OBVIOUS
<1>2. \A j \in 1 .. Len(l) : d[l[j]] \in Int
  OBVIOUS
<1>3. ASSUME NEW v \in Int, v < n PROVE v < n + 1
  BY <1>3
<1>4. QED
  BY <1>1, <1>2, <1>3 DEF InTurn

(* The values of these items were not touched.                             *)
LEMMA TurnSame ==
  ASSUME NEW d, NEW e, NEW l, NEW b, NEW a, NEW n, InTurn(d, l, b, a, n),
         \A j \in 1 .. Len(l) : e[l[j]] = d[l[j]], \A j \in 1 .. Len(b) : e[b[j]] = d[b[j]]
  PROVE  InTurn(e, l, b, a, n)
BY DEF InTurn

(* An item with the value that comes next is pushed.                       *)
LEMMA TurnPush ==
  ASSUME NEW d \in [Items -> Int], NEW l \in Seq(Items), NEW b \in Seq(Items),
         NEW a \in Int, NEW n \in Int, InTurn(d, l, b, a, n), NEW x \in Items, d[x] = n
  PROVE  InTurn(d, <<x>> \o l, b, a, n + 1)
<1> DEFINE m == <<x>> \o l
<1>0. Len(l) \in Nat /\ Len(b) \in Nat
  BY LenProperties
<1>1. Len(m) = Len(l) + 1 /\ m[1] = x /\ \A k \in 1 .. Len(l) : m[k + 1] = l[k]
  <2> DEFINE u == <<x>>
  <2>1. u \in Seq(Items) /\ Len(u) = 1 /\ u[1] = x
    OBVIOUS
  <2> HIDE DEF u
  <2>2. /\ Len(u \o l) = Len(u) + Len(l)
        /\ \A k \in 1 .. Len(u) + Len(l) :
             (u \o l)[k] = IF k <= Len(u) THEN u[k] ELSE l[k - Len(u)]
    BY <2>1, ConcatProperties
  <2>3. 1 \in 1 .. Len(u) + Len(l) /\ 1 <= Len(u)
    BY <1>0, <2>1
  <2>4. ASSUME NEW k \in 1 .. Len(l) PROVE (u \o l)[k + 1] = l[k]
    <3>1. k + 1 \in 1 .. Len(u) + Len(l) /\ ~(k + 1 <= Len(u)) /\ k + 1 - Len(u) = k
      BY <1>0, <2>1
    <3>2. QED
      BY <2>2, <3>1
  <2>5. (u \o l)[1] = x
    BY <2>1, <2>2, <2>3
  <2>6. Len(u \o l) = Len(l) + 1
    BY <1>0, <2>1, <2>2
  <2>7. QED
    BY <2>4, <2>5, <2>6 DEF u
<1> HIDE DEF m
<1>2. ASSUME NEW j \in 1 .. Len(m)
      PROVE  \/ j = 1 /\ m[j] = x
             \/ j - 1 \in 1 .. Len(l) /\ m[j] = l[j - 1] /\ j # 1
  <2>1. CASE j = 1
    BY <1>1, <2>1
  <2>2. CASE j # 1
    <3>1. j - 1 \in 1 .. Len(l) /\ (j - 1) + 1 = j
      BY <1>0, <1>1, <2>2
    <3>2. m[(j - 1) + 1] = l[j - 1]
      BY <1>1, <3>1
    <3>3. QED
      BY <2>2, <3>1, <3>2
  <2>3. QED
    BY <2>1, <2>2
<1>3. \A j \in 1 .. Len(b) : d[b[j]] \in Int /\ a < d[b[j]] /\ d[b[j]] < n
  BY DEF InTurn
<1>4. \A j \in 1 .. Len(l) : d[l[j]] \in Int /\ a < d[l[j]] /\ d[l[j]] < n
  BY DEF InTurn
<1>5. ASSUME NEW j \in 1 .. Len(m), NEW k \in 1 .. Len(m), j < k PROVE d[m[k]] < d[m[j]]
  <2>1. k - 1 \in 1 .. Len(l) /\ m[k] = l[k - 1]
    BY <1>2, <1>5
  <2>2. CASE j = 1 /\ m[j] = x
    BY <1>4, <2>1, <2>2
  <2>3. CASE j - 1 \in 1 .. Len(l) /\ m[j] = l[j - 1] /\ j # 1
    <3>1. j - 1 < k - 1
      BY <1>5
    <3>2. d[l[k - 1]] < d[l[j - 1]]
      BY <2>1, <2>3, <3>1 DEF InTurn
    <3>3. QED
      BY <2>1, <2>3, <3>2
  <2>4. QED
    BY <1>2, <2>2, <2>3
<1>6. ASSUME NEW j \in 1 .. Len(b), NEW k \in 1 .. Len(m) PROVE d[b[j]] < d[m[k]]
  <2>1. CASE k = 1 /\ m[k] = x
    BY <1>3, <2>1
  <2>2. CASE k - 1 \in 1 .. Len(l) /\ m[k] = l[k - 1]
    BY <2>2 DEF InTurn
  <2>3. QED
    BY <1>2, <2>1, <2>2
<1>7. ASSUME NEW j \in 1 .. Len(m) PROVE a < d[m[j]] /\ d[m[j]] < n + 1
  <2>1. CASE j = 1 /\ m[j] = x
    BY <2>1 DEF InTurn
  <2>2. CASE j - 1 \in 1 .. Len(l) /\ m[j] = l[j - 1]
    BY <1>4, <2>2
  <2>3. QED
    BY <1>2, <2>1, <2>2
<1>8. /\ \A j \in 1 .. Len(b) : a < d[b[j]] /\ d[b[j]] < n + 1
      /\ a < n + 1 /\ \A j, k \in 1 .. Len(b) : j < k => d[b[j]] < d[b[k]]
  BY <1>3 DEF InTurn
<1>9. InTurn(d, m, b, a, n + 1)
  BY <1>5, <1>6, <1>7, <1>8 DEF InTurn
<1>10. QED
  BY <1>9 DEF m

(* The list is flushed and read from its back.                             *)
LEMMA TurnFlush ==
  ASSUME NEW d, NEW l \in Seq(Items), NEW a, NEW n, InTurn(d, l, <<>>, a, n)
  PROVE  InTurn(d, <<>>, Reverse(l), a, n)
<1> DEFINE r == Reverse(l)
<1>0. Len(l) \in Nat
  BY LenProperties
<1>1. Len(r) = Len(l) /\ \A j \in 1 .. Len(l) : r[j] = l[Len(l) - j + 1]
  BY <1>0 DEF Reverse
<1> HIDE DEF r
<1>2. ASSUME NEW j \in 1 .. Len(r) PROVE Len(l) - j + 1 \in 1 .. Len(l) /\ r[j] = l[Len(l) - j + 1]
  BY <1>0, <1>1
<1>3. ASSUME NEW j \in 1 .. Len(r), NEW k \in 1 .. Len(r), j < k PROVE d[r[j]] < d[r[k]]
  <2>1. Len(l) - k + 1 < Len(l) - j + 1
    BY <1>0, <1>3
  <2>2. d[l[Len(l) - j + 1]] < d[l[Len(l) - k + 1]]
    BY <1>2, <2>1 DEF InTurn
  <2>3. QED
    BY <1>2, <2>2
<1>4. \A j \in 1 .. Len(r) : a < d[r[j]] /\ d[r[j]] < n
  BY <1>2 DEF InTurn
<1>5. Len(<<>>) = 0 /\ \A j : j \notin 1 .. 0
  BY EmptySeq
<1>6. InTurn(d, <<>>, r, a, n)
  BY <1>3, <1>4, <1>5 DEF InTurn
<1>7. QED
  BY <1>6 DEF r

(* The next item of the batch is read.                                     *)
LEMMA TurnRead ==
  ASSUME NEW d \in [Items -> Int], NEW l \in Seq(Items), NEW b \in Seq(Items),
         NEW a \in Int, NEW n \in Int, InTurn(d, l, b, a, n), b # <<>>
  PROVE  a < d[Head(b)] /\ InTurn(d, l, Tail(b), d[Head(b)], n)
<1> DEFINE t == Tail(b)
<1>1. /\ Head(b) = b[1] /\ t \in Seq(Items) /\ Len(t) = Len(b) - 1
      /\ Len(b) \in Nat /\ Len(b) >= 1 /\ \A k \in 1 .. Len(t) : t[k] = b[k + 1]
  BY HeadTailProperties, LenProperties, EmptySeq
<1>2. 1 \in 1 .. Len(b)
  BY <1>1
<1> HIDE DEF t
<1>3. ASSUME NEW j \in 1 .. Len(t) PROVE j + 1 \in 1 .. Len(b) /\ t[j] = b[j + 1] /\ 1 < j + 1
  BY <1>1
<1>4. a < d[b[1]] /\ d[b[1]] < n
  BY <1>2 DEF InTurn
<1>5. ASSUME NEW j \in 1 .. Len(t), NEW k \in 1 .. Len(t), j < k PROVE d[t[j]] < d[t[k]]
  <2>1. j + 1 < k + 1
    BY <1>5
  <2>2. QED
    BY <1>3, <2>1 DEF InTurn
<1>6. \A j \in 1 .. Len(t), k \in 1 .. Len(l) : d[t[j]] < d[l[k]]
  BY <1>3 DEF InTurn
<1>7. \A j \in 1 .. Len(t) : d[b[1]] < d[t[j]] /\ d[t[j]] < n
  BY <1>2, <1>3 DEF InTurn
<1>8. \A j \in 1 .. Len(l) : d[b[1]] < d[l[j]] /\ d[l[j]] < n
  BY <1>2 DEF InTurn
<1>9. InTurn(d, l, t, d[b[1]], n)
  BY <1>4, <1>5, <1>6, <1>7, <1>8 DEF InTurn
<1>10. QED
  BY <1>1, <1>4, <1>9 DEF t
-----------------------------------------------------------------------------
(* The values that the items carry.                                        *)

(* No list holds anything yet.                                             *)
LEMMA ValueInit == SListInit => ValueInv
<1> SUFFICES ASSUME SListInit PROVE ValueInv
  OBVIOUS
<1>1. Total \in Nat /\ 0 \in 0 .. Total
  BY SListAssumption
<1>2. ValueTypes
  BY <1>1 DEF SListInit, ValueTypes, Items
<1>3. gpc[Producer] = "idle"
  BY OneProducer DEF SListInit, RecyclerInit
<1>4. Len(<<>>) = 0 /\ (\A j : j \notin 1 .. 0) /\ 0 < 1
  BY EmptySeq
<1>5. \A c \in Consumers : list[c] = <<>> /\ batch[c] = <<>> /\ last[c] = 0 /\ i = 1
  BY DEF SListInit
<1>6. \A c \in Consumers : InTurn(data, list[c], batch[c], last[c], i)
  BY <1>4, <1>5 DEF InTurn
<1>7. QED
  BY <1>2, <1>3, <1>6 DEF ValueInv

(* What the lemmas about turns ask for.                                    *)
LEMMA ValueFacts ==
  ASSUME ItemInv, NumberInv, ValueInv, NEW c \in Consumers
  PROVE  /\ data \in [Items -> Int] /\ list[c] \in Seq(Items) /\ batch[c] \in Seq(Items)
         /\ last[c] \in Int /\ i \in Int /\ InTurn(data, list[c], batch[c], last[c], i)
BY SListAssumption DEF ItemInv, ItemTypes, NumberInv, NumberTypes, ValueInv, ValueTypes

(* The item in the hand of the producer is in no list and in no batch.     *)
LEMMA HeldApart ==
  ASSUME ItemInv, gpc[Producer] \in {"held", "push"}
  PROVE  /\ item[Producer] \in Items
         /\ \A c \in Consumers :
              /\ \A j \in 1 .. Len(list[c]) : list[c][j] # item[Producer]
              /\ \A j \in 1 .. Len(batch[c]) : batch[c][j] # item[Producer]
<1>1. item[Producer] \in Held /\ Held \subseteq 1 .. newed /\ newed \in 0 .. MaxItems
  BY DEF Held, ItemInv, ItemTypes, Once
<1>2. MaxItems \in Nat
  BY RecyclerAssumption
<1>3. item[Producer] \in Items
  <2>1. item[Producer] \in 1 .. newed
    BY <1>1
  <2> DEFINE x == item[Producer]
  <2>2. x \in 1 .. newed
    BY <2>1
  <2> HIDE DEF x
  <2>3. x \in 1 .. MaxItems
    BY <1>1, <1>2, <2>2
  <2>4. QED
    BY <2>3 DEF x, Items
<1>4. ASSUME NEW p \in Places, NEW j \in 1 .. Len(Chains[p]) PROVE Chains[p][j] # item[Producer]
  BY <1>1 DEF ItemInv, Once
<1>5. QED
  BY <1>3, <1>4, PlaceFacts, ChainFacts

(* The producer sends larger and larger values.                            *)
LEMMA ProducerValues ==
  ASSUME ListTypes, ItemInv, NumberInv, ValueInv, Produce
  PROVE  ValueInv'
<1> USE OneProducer
<1>0. PoolTypes /\ Total \in Nat /\ i \in 1 .. Total + 1
  BY SListAssumption DEF ListTypes, NumberInv, NumberTypes
<1>g. /\ gpc \in [Getters -> {"idle", "flush", "new", "wait", "failed", "take",
                              "advance", "held", "push"}]
      /\ item \in [Getters -> Cells]
  BY <1>0 DEF PoolTypes
<1>1. CASE ProducerGets
  <2>1. Get(Producer) /\ UNCHANGED <<list, batch, data, last, i>>
    BY <1>1 DEF ProducerGets, listVars
  <2>2. gpc'[Producer] # "push"
    BY <1>0, <2>1, GetFacts
  <2>3. QED
    BY <2>1, <2>2 DEF ValueInv, ValueTypes
<1>2. CASE ProducerSkips
  <2>1. /\ gpc' = [gpc EXCEPT ![Producer] = "idle"] /\ i' = i + 1
        /\ UNCHANGED <<list, batch, data, last>>
    BY <1>2 DEF ProducerSkips, Go
  <2>2. gpc'[Producer] # "push"
    BY <1>g, <2>1
  <2>3. ASSUME NEW c \in Consumers PROVE InTurn(data', list'[c], batch'[c], last'[c], i')
    BY <2>1, ValueFacts, TurnLater
  <2>4. QED
    BY <2>1, <2>2, <2>3 DEF ValueInv, ValueTypes
<1>3. CASE PushItem
  <2> DEFINE x == item[Producer]
  <2>1. /\ gpc[Producer] = "held" /\ data' = [data EXCEPT ![x] = i]
        /\ UNCHANGED <<item, list, batch, last, i>>
    BY <1>3 DEF PushItem, At
  <2>2. x \in Items /\ i \in 0 .. Total /\ data \in [Items -> 0 .. Total]
    <3>1. i <= Total
      BY <2>1 DEF NumberInv, Bounded
    <3>2. QED
      BY <1>0, <2>1, <3>1, HeldApart DEF ValueInv, ValueTypes
  <2>3. /\ data' \in [Items -> 0 .. Total] /\ data'[x] = i
        /\ \A y \in Items : y # x => data'[y] = data[y]
    BY <2>1, <2>2
  <2>4. ASSUME NEW c \in Consumers PROVE InTurn(data', list'[c], batch'[c], last'[c], i')
    <3>1. /\ list[c] \in Seq(Items) /\ batch[c] \in Seq(Items)
          /\ InTurn(data, list[c], batch[c], last[c], i)
      BY ValueFacts
    <3>2. \A j \in 1 .. Len(list[c]) : list[c][j] \in Items /\ list[c][j] # x
      BY <2>1, <3>1, HeldApart
    <3>3. \A j \in 1 .. Len(batch[c]) : batch[c][j] \in Items /\ batch[c][j] # x
      BY <2>1, <3>1, HeldApart
    <3>4. /\ \A j \in 1 .. Len(list[c]) : data'[list[c][j]] = data[list[c][j]]
          /\ \A j \in 1 .. Len(batch[c]) : data'[batch[c][j]] = data[batch[c][j]]
      BY <2>3, <3>2, <3>3
    <3>5. InTurn(data', list[c], batch[c], last[c], i)
      BY <3>1, <3>4, TurnSame
    <3>6. QED
      BY <2>1, <3>5
  <2>5. ValueTypes'
    BY <2>1, <2>3 DEF ValueInv, ValueTypes
  <2>6. data'[item'[Producer]] = i'
    BY <2>1, <2>3
  <2>7. QED
    BY <2>4, <2>5, <2>6 DEF ValueInv
<1>4. CASE PushEntry
  <2> DEFINE x == item[Producer]
  <2>1. /\ gpc[Producer] = "push" /\ gpc' = [gpc EXCEPT ![Producer] = "idle"]
        /\ list' = [list EXCEPT ![dest] = <<x>> \o list[dest]]
        /\ i' = i + 1 /\ UNCHANGED <<batch, data, last>>
    BY <1>4 DEF PushEntry, At, Go
  <2>2. x \in Items /\ data[x] = i /\ gpc'[Producer] # "push"
    BY <1>g, <2>1, HeldApart DEF ValueInv
  <2>3. ASSUME NEW c \in Consumers PROVE InTurn(data', list'[c], batch'[c], last'[c], i')
    <3>1. list \in [Consumers -> Seq(Items)]
      BY DEF ItemInv, ItemTypes
    <3>2. CASE c = dest
      <4>1. list'[c] = <<x>> \o list[c]
        BY <2>1, <3>1, <3>2
      <4>2. InTurn(data, <<x>> \o list[c], batch[c], last[c], i + 1)
        <5>1. /\ data \in [Items -> Int] /\ list[c] \in Seq(Items) /\ batch[c] \in Seq(Items)
              /\ last[c] \in Int /\ i \in Int /\ InTurn(data, list[c], batch[c], last[c], i)
              /\ x \in Items /\ data[x] = i
          BY <2>2, ValueFacts
        <5> HIDE DEF x
        <5>2. QED
          BY <5>1, TurnPush
      <4>3. QED
        BY <2>1, <4>1, <4>2
    <3>3. CASE c # dest
      <4>1. list'[c] = list[c]
        BY <2>1, <3>1, <3>3
      <4>2. QED
        BY <2>1, <4>1, ValueFacts, TurnLater
    <3>4. QED
      BY <3>2, <3>3
  <2>4. QED
    BY <2>1, <2>2, <2>3 DEF ValueInv, ValueTypes
<1>5. QED
  BY <1>1, <1>2, <1>3, <1>4 DEF Produce

(* A consumer takes the values in turn.                                    *)
LEMMA ConsumerValues ==
  ASSUME ItemInv, NumberInv, ValueInv, NEW c \in Consumers, ConsumeItems(c)
  PROVE  /\ ValueInv' /\ \A e \in Consumers \ {c} : last'[e] = last[e]
         /\ last'[c] # last[c] => last'[c] > last[c]
<1>0. /\ list \in [Consumers -> Seq(Items)] /\ batch \in [Consumers -> Seq(Items)]
      /\ last \in [Consumers -> 0 .. Total] /\ data \in [Items -> 0 .. Total] /\ Total \in Nat
  BY SListAssumption DEF ItemInv, ItemTypes, ValueInv, ValueTypes
<1>1. CASE GetItemsTest(c) \/ GetItemsCount(c) \/ BatchDone(c)
  <2>1. UNCHANGED <<recyclerVars, list, batch, data, last, i>>
    BY <1>1 DEF GetItemsTest, GetItemsCount, BatchDone
  <2>2. QED
    BY <2>1 DEF ValueInv, ValueTypes, recyclerVars
<1>2. CASE GetItemsFlush(c)
  <2>1. /\ batch' = [batch EXCEPT ![c] = Reverse(list[c])] /\ list' = [list EXCEPT ![c] = <<>>]
        /\ batch[c] = <<>> /\ UNCHANGED <<recyclerVars, data, last, i>>
    BY <1>2 DEF GetItemsFlush, ItemInv, Serving
  <2>2. /\ batch'[c] = Reverse(list[c]) /\ list'[c] = <<>>
        /\ \A e \in Consumers \ {c} : batch'[e] = batch[e] /\ list'[e] = list[e]
    BY <1>0, <2>1
  <2>3. InTurn(data, <<>>, Reverse(list[c]), last[c], i)
    BY <2>1, ValueFacts, TurnFlush
  <2>4. \A e \in Consumers : InTurn(data', list'[e], batch'[e], last'[e], i')
    BY <2>1, <2>2, <2>3 DEF ValueInv
  <2>5. QED
    BY <2>1, <2>4 DEF ValueInv, ValueTypes, recyclerVars
<1>3. CASE Consume(c)
  <2> DEFINE v == data[Head(batch[c])]
  <2>1. /\ batch[c] # <<>> /\ last' = [last EXCEPT ![c] = v]
        /\ batch' = [batch EXCEPT ![c] = Tail(batch[c])]
        /\ UNCHANGED <<gpc, item, list, data, i>>
    BY <1>3 DEF Consume
  <2>2. last[c] < v /\ InTurn(data, list[c], Tail(batch[c]), v, i)
    BY <2>1, ValueFacts, TurnRead
  <2>3. v \in 0 .. Total /\ Tail(batch[c]) \in Seq(Items)
    BY <1>0, <2>1, HeadTailProperties
  <2> HIDE DEF v
  <2>4. /\ batch'[c] = Tail(batch[c]) /\ last'[c] = v /\ last' \in [Consumers -> 0 .. Total]
        /\ \A e \in Consumers \ {c} : batch'[e] = batch[e] /\ last'[e] = last[e]
    BY <1>0, <2>1, <2>3
  <2>5. \A e \in Consumers : InTurn(data', list'[e], batch'[e], last'[e], i')
    BY <2>1, <2>2, <2>4 DEF ValueInv
  <2>6. ValueInv'
    BY <2>1, <2>4, <2>5 DEF ValueInv, ValueTypes
  <2>7. last'[c] > last[c]
    BY <1>0, <2>2, <2>3, <2>4
  <2>8. QED
    BY <2>4, <2>6, <2>7
<1>4. QED
  BY <1>1, <1>2, <1>3 DEF ConsumeItems

(* Every step keeps the values in order, and none reads back.              *)
LEMMA ValueStep ==
  ListTypes /\ ItemInv /\ NumberInv /\ ValueInv /\ [SListNext]_slistVars
    => ValueInv' /\ \A c \in Consumers : last'[c] # last[c] => last'[c] > last[c]
<1> SUFFICES ASSUME ListTypes, ItemInv, NumberInv, ValueInv, [SListNext]_slistVars
             PROVE  ValueInv' /\ \A c \in Consumers : last'[c] # last[c] => last'[c] > last[c]
  OBVIOUS
<1>1. CASE Produce
  <2>1. UNCHANGED last
    BY <1>1 DEF Produce, ProducerGets, listVars, ProducerSkips, PushItem, PushEntry
  <2>2. QED
    BY <1>1, <2>1, ProducerValues
<1>2. ASSUME NEW c \in Consumers, ConsumeItems(c)
      PROVE  ValueInv' /\ \A e \in Consumers : last'[e] # last[e] => last'[e] > last[e]
  BY <1>2, ConsumerValues
<1>3. CASE UNCHANGED <<recyclerVars, list, batch, data, last, i>>
  BY <1>3 DEF ValueInv, ValueTypes, recyclerVars
<1>4. ASSUME NEW c \in Consumers, ClearStats(c)
      PROVE  UNCHANGED <<recyclerVars, list, batch, data, last, i>>
  BY <1>4 DEF ClearStats, ClearStatsRead, ClearStatsLife, ClearStatsOut
<1>5. CASE UNCHANGED slistVars
  BY <1>3, <1>5 DEF slistVars, listVars
<1>6. QED
  BY <1>1, <1>2, <1>3, <1>4, <1>5 DEF SListNext
-----------------------------------------------------------------------------
(* All parts together.                                                     *)
ListInv == ListTypes /\ SizeMatches /\ ItemInv /\ NumberInv /\ ValueInv

(* They hold from the start and stay.                                      *)
LEMMA ListInvHolds == SListSpec => []ListInv
<1>1. ListTypes /\ SizeMatches /\ [SListNext]_slistVars => ListTypes' /\ SizeMatches'
  BY ProduceStep, ConsumeStep, ClearStep, ListStutter DEF SListNext
<1>2. SListInit => ListInv
  BY ListInitType, ItemInit, NumberInit, ValueInit DEF ListInv
<1>3. ListInv /\ [SListNext]_slistVars => ListInv'
  BY <1>1, ItemStep, NumberStep, ValueStep DEF ListInv
<1>4. QED
  BY <1>2, <1>3, PTL DEF SListSpec

(* Every item ever allocated is in exactly one place, so none leaks and    *)
(* the producer never fills one that a consumer reads, for any number of   *)
(* items, values, consumers and calls of clearStats, and the state keeps   *)
(* its shape (SlistEx.h:357-424, :39-43, :296-304).                        *)
THEOREM ItemsAlwaysInOnePlace == SListSpec => []ItemInOnePlace
<1>1. ListInv => SListTypeOK
  BY DEF ListInv, ItemInv, ItemTypes, NumberInv, NumberTypes, ValueInv, ValueTypes, SListTypeOK
<1>2. ListInv => ItemInOnePlace
  BY <1>1, CountedOnce DEF ListInv, ItemInOnePlace
<1>3. QED
  BY <1>2, ListInvHolds, PTL

(* A consumer reads the values of its list in the order they were pushed:  *)
(* the flushed list is turned round (SlistEx.h:95), and the items that are *)
(* refilled are in no list.                                                *)
THEOREM AlwaysReadInOrder == SListSpec => ReadsInOrder
<1>1. ListInv /\ [SListNext]_slistVars
        => [\A c \in Consumers : last'[c] # last[c] => last'[c] > last[c]]_slistVars
  <2>1. SUFFICES ASSUME ListInv, [SListNext]_slistVars
                 PROVE  \A c \in Consumers : last'[c] # last[c] => last'[c] > last[c]
    OBVIOUS
  <2>2. ListTypes /\ ItemInv /\ NumberInv /\ ValueInv
    BY <2>1 DEF ListInv
  <2>3. QED
    BY <2>1, <2>2, ValueStep
<1>2. QED
  BY <1>1, ListInvHolds, PTL DEF SListSpec, ReadsInOrder
=============================================================================
