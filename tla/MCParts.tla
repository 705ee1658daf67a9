------------------------------- MODULE MCParts ------------------------------
(***************************************************************************)
(* The structures that are used by one thread and are proved about: what   *)
(* each kind of them must keep, as the conjunction of what its members     *)
(* must.                                                                   *)
(***************************************************************************)
EXTENDS MCTables, DynMsg, Allocators, LinkedDesigns, ClassDesigns, Calendars, Feeds

(* Each step is one its promise allows: tables of keys, a double-ended     *)
(* queue, the first run that fits, a number handed out once, the seat      *)
(* farthest from the others.                                               *)
MCStepsImplement ==
  /\ ChainedImplements /\ ChainedToldTruth /\ BucketImplements /\ ProbingImplements
  /\ ImplementsDeque /\ FirstFit /\ HandedOnce /\ SitsFarthest

(* No table is promised more often than there are tables, and what is      *)
(* offered instead is what would be taken (ReservationSystem.cpp).         *)
MCNothingOverbooked == NeverOverbooked /\ OffersWhatFits

(* What is free and what is in use are exact: bytes of a message buffer,   *)
(* partitions, blocks, telephone numbers (DynBuffer.h,                     *)
(* simplified_alloc.cpp, SmallObject.h, PhoneRegistry.cpp).                *)
MCMemorySound ==
  WellFramed /\ ListIsFreeParts /\ ChunkListIsFree /\ IntervalsExact

(* The exercises' classes answer as what they stand for                    *)
(* (HackerLRUCache.cpp and the files of src/leetcode).                     *)
MCDesignsAgree ==
  /\ LinkedButForOldHeads /\ TailIsLast /\ SetTellsMembers /\ MapTellsValues
  /\ IndexesAgree /\ FlipsEveryCellOnce /\ MinIsSmallest /\ QueueInOrder

(* Whatever the order of the messages, the results are what their          *)
(* definition says (atomic_set.cpp, DataFeed.cpp, arbitrate.cpp,           *)
(* DockingSchedule.cpp).                                                   *)
MCFeedsExact ==
  /\ BothFindComplete /\ NothingNeededDropped /\ TiersAddUp /\ InsideQuoteIsReal
  /\ NothingLostInMerge /\ DocksAreNeeded
=============================================================================
