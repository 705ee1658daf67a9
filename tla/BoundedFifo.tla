---------------------------- MODULE BoundedFifo ----------------------------
(***************************************************************************)
(* What circular_queue (src/library/RingBufferAtomic.h) promises to its    *)
(* one writer and its one reader: a first-in first-out queue of at most    *)
(* Cap values, whose push says FALSE only when the queue is full and whose *)
(* pop says "nothing" only when the queue is empty.                        *)
(*                                                                         *)
(* A pop takes effect when the head leaves the queue (Take) and hands the  *)
(* value over later (Deliver).  Between the two the value belongs to the   *)
(* reader alone: nothing the writer does may change it.                    *)
(***************************************************************************)
EXTENDS Naturals, Sequences

CONSTANTS
  Cap,      (* the number of values the queue can hold     *)
  Values,   (* the values that are pushed                  *)
  NoValue   (* what a pop that found nothing hands over    *)

VARIABLES
  items,    (* the queued values, oldest first             *)
  pushed,   (* the answer of the writer's last push        *)
  taken,    (* the value taken but not handed over yet     *)
  popped    (* what the reader's last pop handed over      *)

fifoVars == <<items, pushed, taken, popped>>

FifoInit ==
  /\ items = <<>>
  /\ pushed = TRUE
  /\ taken = NoValue
  /\ popped = NoValue

Push(v) ==
  /\ Len(items) < Cap
  /\ items' = Append(items, v)
  /\ pushed' = TRUE
  /\ UNCHANGED <<taken, popped>>

PushFails ==
  /\ Len(items) = Cap
  /\ pushed' = FALSE
  /\ UNCHANGED <<items, taken, popped>>

Take ==
  /\ taken = NoValue
  /\ items # <<>>
  /\ taken' = Head(items)
  /\ items' = Tail(items)
  /\ UNCHANGED <<pushed, popped>>

Deliver ==
  /\ taken # NoValue
  /\ popped' = taken
  /\ taken' = NoValue
  /\ UNCHANGED <<items, pushed>>

PopFails ==
  /\ taken = NoValue
  /\ items = <<>>
  /\ popped' = NoValue
  /\ UNCHANGED <<items, pushed, taken>>

FifoNext ==
  \/ \E v \in Values : Push(v)
  \/ PushFails
  \/ Take
  \/ Deliver
  \/ PopFails

FifoSpec == FifoInit /\ [][FifoNext]_fifoVars
=============================================================================
