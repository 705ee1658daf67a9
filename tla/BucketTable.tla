----------------------------- MODULE BucketTable -----------------------------
(***************************************************************************)
(* HASH_TABLE_BUCKET (src/cpp11/HashTableBucketHashing.h): each hash value *)
(* has a bucket of bucket_size elements, all share one overflow area.      *)
(* findSlot looks at bucket_size elements of the overflow area as well, so *)
(* the rest of its overflow_size elements is never used and not modelled.  *)
(***************************************************************************)
EXTENDS Hashing

CONSTANTS buckets, bucket_size

ASSUME BucketAssumption == buckets \in Nat \ {0} /\ bucket_size \in Nat \ {0}

VARIABLES
  elements,        (* pElements: nothing (pData is null), or a key and     *)
                   (* whether it is bErased                                *)
  iLive,           (* iEntries                                             *)
  bucketCall,      (* the last call and its key                            *)
  inserted         (* what it returned (second of the pair, for insert)    *)

bucketVars == <<elements, iLive, bucketCall, inserted>>

overflow == buckets * bucket_size
Slots == 0 .. overflow + bucket_size - 1
Area(home) == home .. home + bucket_size - 1
Home(k) == (Hash[k] % buckets) * bucket_size

Nothing == <<>>
Item(k) == [key |-> k, bErased |-> FALSE]
Stored(k) == {s \in Slots : elements[s] = Item(k)}

BucketInit ==
  /\ elements = [s \in Slots |-> Nothing]
  /\ iLive = 0
  /\ bucketCall = <<"none">> /\ inserted = FALSE
-----------------------------------------------------------------------------
Unused(a) == {s \in Area(a) : elements[s] = Nothing}
ErasedIn(a) == {s \in Area(a) : elements[s] # Nothing /\ elements[s].bErased}
HasKey(k, a) == {s \in Area(a) : elements[s] # Nothing /\ elements[s].key = k}

NoSlot == -1

(* findSlot: the first element that is unused or has the key, erased or    *)
(* not; else the first erased one                                          *)
FindSlot(k, a) ==
  LET stops == Unused(a) \cup HasKey(k, a)
  IN IF stops # {} THEN First(stops)
     ELSE IF ErasedIn(a) # {} THEN First(ErasedIn(a))
     ELSE NoSlot

(* The overflow area is looked at when the bucket has no slot to offer. *)
SlotFor(k) ==
  LET home == FindSlot(k, Home(k))
  IN IF home = NoSlot THEN FindSlot(k, overflow) ELSE home

(* find *)
BucketFinds(k) ==
  /\ SlotFor(k) # NoSlot /\ elements[SlotFor(k)] # Nothing
  /\ ~elements[SlotFor(k)].bErased

(* insert: no slot in the bucket and none in the overflow area *)
BucketRefuses(k) ==
  /\ SlotFor(k) = NoSlot
  /\ bucketCall' = <<"refuse", k>> /\ inserted' = FALSE
  /\ UNCHANGED <<elements, iLive>>

(* insert: a new element, one used again, or new data for the same key *)
BucketInsert(k) ==
  /\ SlotFor(k) # NoSlot
  /\ elements' = [elements EXCEPT ![SlotFor(k)] = Item(k)]
  /\ inserted' = (elements[SlotFor(k)] = Nothing)
  /\ iLive' = IF inserted' \/ elements[SlotFor(k)].bErased THEN iLive + 1 ELSE iLive
  /\ bucketCall' = <<"insert", k>>

(* erase *)
BucketErase(k) ==
  /\ IF iLive < 1 \/ ~BucketFinds(k)
       THEN inserted' = FALSE /\ UNCHANGED <<elements, iLive>>
       ELSE /\ elements' = [elements EXCEPT ![SlotFor(k)].bErased = TRUE]
            /\ iLive' = iLive - 1
            /\ inserted' = TRUE
  /\ bucketCall' = <<"erase", k>>

(* clear: the elements are freed, or all of them marked as erased *)
BucketClear(data_erase) ==
  /\ elements' = [s \in Slots |->
                    IF data_erase \/ elements[s] = Nothing THEN Nothing
                    ELSE [elements[s] EXCEPT !.bErased = TRUE]]
  /\ iLive' = 0
  /\ bucketCall' = <<"clear">> /\ inserted' = FALSE

BucketNext ==
  \/ \E data_erase \in BOOLEAN : BucketClear(data_erase)
  \/ \E k \in Keys : BucketInsert(k) \/ BucketRefuses(k) \/ BucketErase(k)

BucketSpec == BucketInit /\ [][BucketNext]_bucketVars
-----------------------------------------------------------------------------
Bucket == INSTANCE KeyTable
            WITH TableKeys <- Keys, table <- {k \in Keys : BucketFinds(k)},
                 call <- bucketCall

(* An item in the overflow area whose bucket has an erased element: the    *)
(* bucket offers that element, and the overflow area is not looked at.     *)
Hidden(k) ==
  /\ Stored(k) \cap Area(overflow) # {} /\ Stored(k) \cap Area(Home(k)) = {}
  /\ Unused(Home(k)) = {} /\ ErasedIn(Home(k)) # {}

(* Every item in the table is found: insert puts an item where findSlot    *)
(* looks for it ("find existing item", HashTableBucketHashing.h:169).      *)
StoredIsFound == \A k \in Keys : Stored(k) # {} => BucketFinds(k)

(* It is found unless it is hidden: nothing else is ever lost, whatever    *)
(* was erased, cleared and inserted before.  A key stored twice is stored  *)
(* once in its bucket and once in the overflow area, never twice in one    *)
(* (HashTableBucketHashing.h:158-172).                                     *)
LostOnlyWhenHidden ==
  \A k \in Keys :
    /\ Stored(k) # {} => BucketFinds(k) \/ Hidden(k)
    /\ \A a \in {Home(k), overflow} : Cardinality(Stored(k) \cap Area(a)) <= 1

(* While nothing is hidden the table is a set of keys that may refuse one. *)
BucketImplements ==
  [][(\A k \in Keys : ~Hidden(k) /\ ~Hidden(k)') =>
        Bucket!KeyTableNext \/ UNCHANGED <<elements, bucketCall>>]_bucketVars

(* size() counts the elements in use, so the early return of erase for an  *)
(* empty table never misses one (HashTableBucketHashing.h:110-119).        *)
SizeCounts == iLive = Cardinality({s \in Slots : \E k \in Keys : elements[s] = Item(k)})
=============================================================================
