------------------------------- MODULE Hashing -------------------------------
(* The keys of the hash tables of src/cpp11 and what HashFun makes of them. *)
EXTENDS Integers, Sequences, FiniteSets

CONSTANTS
  Keys,     (* the HASH_DATA values: equal only to themselves              *)
  Hash      (* HashFun<HASH_DATA>                                          *)

ASSUME HashAssumption == IsFiniteSet(Keys) /\ Hash \in [Keys -> Nat]

(* The least of a set of positions that is not empty. *)
First(S) == CHOOSE i \in S : \A j \in S : i <= j
=============================================================================
