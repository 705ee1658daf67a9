---------------------------- MODULE ChainedTable ----------------------------
(***************************************************************************)
(* FH_HASH_TABLE_BASE (src/cpp11/HashTableBase.h): a table of linked lists *)
(* whose elements are marked as erased and used again, never unlinked.     *)
(***************************************************************************)
EXTENDS Hashing

CONSTANT iSize     (* how many lists                                       *)

ASSUME ChainedAssumption == iSize \in Nat \ {0}

VARIABLES
  pElements,       (* each list: its elements' keys and bErased flags      *)
  iEntries, iErased, iNewItems, iCollisions, iMaxDepth,
  chainedCall,     (* the last call and its key                            *)
  told             (* what it returned (second of the pair, for insert)    *)

statistics == <<iEntries, iErased, iNewItems, iCollisions, iMaxDepth>>
chainedVars == <<pElements, statistics, chainedCall, told>>

Lists == 0 .. iSize - 1
ListOf(k) == Hash[k] % iSize

ChainedInit ==
  /\ pElements = [h \in Lists |-> <<>>]
  /\ iEntries = 0 /\ iErased = 0 /\ iNewItems = 0 /\ iCollisions = 0 /\ iMaxDepth = 0
  /\ chainedCall = <<"none">> /\ told = FALSE
-----------------------------------------------------------------------------
Live(k) == {i \in DOMAIN pElements[ListOf(k)] : pElements[ListOf(k)][i] = [key |-> k, bErased |-> FALSE]}
Erased(h) == {i \in DOMAIN pElements[h] : pElements[h][i].bErased}
Matches(k) == {i \in DOMAIN pElements[ListOf(k)] : pElements[ListOf(k)][i].key = k}

(* find *)
ChainedFinds(k) == Live(k) # {}

Put(k, i) == pElements' = [pElements EXCEPT ![ListOf(k)][i] = [key |-> k, bErased |-> FALSE]]

(* insert: a match that is not erased gets the new data *)
InsertOver(k) ==
  /\ Live(k) # {}
  /\ told' = FALSE
  /\ UNCHANGED <<pElements, statistics>>

(* the first erased element is used again *)
InsertReuses(k) ==
  /\ Live(k) = {} /\ Erased(ListOf(k)) # {}
  /\ Put(k, First(Erased(ListOf(k))))
  /\ iEntries' = iEntries + 1 /\ iErased' = iErased - 1
  /\ told' = FALSE
  /\ UNCHANGED <<iNewItems, iCollisions, iMaxDepth>>

(* a new element at the end of the list *)
InsertAppends(k) ==
  /\ Live(k) = {} /\ Erased(ListOf(k)) = {}
  /\ LET chain == pElements[ListOf(k)]
         iDepth == Len(chain) + 1
     IN /\ pElements' = [pElements EXCEPT ![ListOf(k)] =
                           Append(chain, [key |-> k, bErased |-> FALSE])]
        /\ iCollisions' = iCollisions + (IF chain = <<>> THEN 0 ELSE 1)
        /\ iMaxDepth' = IF iDepth > iMaxDepth THEN iDepth ELSE iMaxDepth
  /\ iEntries' = iEntries + 1 /\ iNewItems' = iNewItems + 1
  /\ told' = TRUE
  /\ UNCHANGED iErased

ChainedInsert(k) ==
  /\ InsertOver(k) \/ InsertReuses(k) \/ InsertAppends(k)
  /\ chainedCall' = <<"insert", k>>

RemoveElement(h, i) ==
  IF pElements[h][i].bErased
    THEN UNCHANGED <<pElements, iErased, iEntries>>
    ELSE /\ pElements' = [pElements EXCEPT ![h][i].bErased = TRUE]
         /\ iErased' = iErased + 1 /\ iEntries' = iEntries - 1

(* erase: the first element with this key, erased or not *)
ChainedErase(k) ==
  /\ IF Matches(k) = {}
       THEN told' = FALSE /\ UNCHANGED <<pElements, iErased, iEntries>>
       ELSE told' = TRUE /\ RemoveElement(ListOf(k), First(Matches(k)))
  /\ chainedCall' = <<"erase", k>>
  /\ UNCHANGED <<iNewItems, iCollisions, iMaxDepth>>

(* clear: everything is freed, and reset() *)
ChainedClear ==
  /\ pElements' = [h \in Lists |-> <<>>]
  /\ iEntries' = 0 /\ iErased' = 0 /\ iNewItems' = 0
  /\ iCollisions' = 0 /\ iMaxDepth' = 0
  /\ chainedCall' = <<"clear">> /\ told' = FALSE

ChainedNext == ChainedClear \/ \E k \in Keys : ChainedInsert(k) \/ ChainedErase(k)

ChainedSpec == ChainedInit /\ [][ChainedNext]_chainedVars
-----------------------------------------------------------------------------
Chained == INSTANCE KeyTable
             WITH TableKeys <- Keys, table <- {k \in Keys : ChainedFinds(k)},
                  call <- chainedCall

(* The table is a set of keys: an insert is found, an erased key is not    *)
(* found any more.  That needs that erase, which stops at the first match  *)
(* also when it is erased, never meets an erased copy of a key before the  *)
(* live one (HashTableBase.h:127-151, :217-222).                           *)
ChainedImplements == Chained!KeyTableSpec

CountIf(P(_)) == Cardinality({p \in Lists \X (1 .. Cardinality(Keys)) :
                                p[2] \in DOMAIN pElements[p[1]] /\ P(pElements[p[1]][p[2]])})

(* The counters that clear() logs: iEntries, iErased, the new elements and *)
(* the collisions are those of the lists (HashTableBase.h:18-25).          *)
StatisticsMatch ==
  /\ iEntries = CountIf(LAMBDA e : ~e.bErased)
  /\ iErased = CountIf(LAMBDA e : e.bErased)
  /\ iNewItems = iEntries + iErased
  /\ iCollisions = iNewItems - Cardinality({h \in Lists : pElements[h] # <<>>})
  /\ \A h \in Lists : Len(pElements[h]) <= iMaxDepth

(* insert says "inserted" only of a key the table did not have; erase says *)
(* so of any key the table has, and of no key that was never there         *)
(* (HashTableBase.h:201, :127).                                            *)
ChainedToldTruth ==
  [][\A k \in Keys :
       /\ chainedCall' = <<"insert", k>> /\ told' => ~ChainedFinds(k)
       /\ chainedCall' = <<"erase", k>> /\ ~told' => ~ChainedFinds(k)]_chainedVars
=============================================================================
