------------------------------ MODULE MCTables ------------------------------
(***************************************************************************)
(* The hash tables that HASH_TABLE_NEW may be built on, over the same keys *)
(* and hash values, and what all three must keep.                          *)
(***************************************************************************)
EXTENDS ChainedTable, BucketTable, ProbingTable

(* Three keys of one bucket and of one list; two that start at one cell of *)
(* a probing table, and one that meets them on their path.                 *)
MCHash == <<0, 22, 12>>

(* A behaviour of the table with buckets, next to two tables not in use.   *)
BucketAlone ==
  /\ ChainedInit /\ BucketInit /\ ProbingInit
  /\ [][BucketNext /\ UNCHANGED <<chainedVars, probingVars>>]_<<bucketVars, chainedVars, probingVars>>

(* Hash tables: no item is lost or unreachable but for the overflow area's *)
(* hidden ones, and the statistics count what is there                     *)
(* (HashTableBase.h, HashTableBucketHashing.h, HashTableProbing.h).        *)
MCTablesIntact ==
  StatisticsMatch /\ LostOnlyWhenHidden /\ SizeCounts /\ PathUnbroken
=============================================================================
