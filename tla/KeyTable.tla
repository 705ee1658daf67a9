------------------------------ MODULE KeyTable ------------------------------
(***************************************************************************)
(* What a hash table of HASH_TABLE_NEW promises whatever implementation is *)
(* put under it: HASH_TABLE_Mock (src/cpp11/HashTableMockImpl.h), a        *)
(* std::unordered_set.  "call" is the last operation and its key.          *)
(***************************************************************************)
CONSTANT TableKeys

VARIABLES table, call

KeyTableInit == table = {} /\ call = <<"none">>

KeyInsert(k) == call' = <<"insert", k>> /\ table' = table \cup {k}
KeyErase(k) == call' = <<"erase", k>> /\ table' = table \ {k}
KeyClear == call' = <<"clear">> /\ table' = {}

(* An implementation may run out of room; it says so. *)
KeyRefuse(k) == call' = <<"refuse", k>> /\ k \notin table /\ table' = table

KeyTableNext ==
  \/ KeyClear
  \/ \E k \in TableKeys : KeyInsert(k) \/ KeyErase(k) \/ KeyRefuse(k)

KeyTableSpec == KeyTableInit /\ [][KeyTableNext]_<<table, call>>
=============================================================================
