----------------------------- MODULE RingBuffer -----------------------------
(***************************************************************************)
(* circular_queue<T, BUF_SIZE> of src/library/RingBufferAtomic.h, the      *)
(* lock-free ring used by one writer thread and one reader thread, with    *)
(* the operations that do not block: push, pop and size.                   *)
(*                                                                         *)
(* Every load and store of the two atomic indices is a step of its own,    *)
(* and so is every access to a slot, which is a plain object: a slot that  *)
(* both threads may touch at once would be a data race.                    *)
(***************************************************************************)
EXTENDS Integers, Sequences

CONSTANTS
  BUF_SIZE,   (* template parameter: how many values fit                   *)
  Values,     (* the values the writer pushes                              *)
  NoValue     (* T{}: a fresh slot, and what a pop of an empty ring returns *)

ASSUME RingAssumption ==
  /\ BUF_SIZE \in Nat \ {0}
  /\ NoValue \notin Values

VARIABLES
  read, write,   (* the two atomic indices                                  *)
  queue,         (* _queue: the slots                                       *)
  ppc,           (* where the writer thread is                              *)
  wpos,          (* write_pos: the index push loaded                        *)
  item,          (* the argument of the push under way                      *)
  pushed,        (* what the last push returned                             *)
  cpc,           (* where the reader thread is                              *)
  rpos,          (* read_pos: the index pop loaded                          *)
  popped,        (* what the last pop returned (NoValue: "false")           *)
  sizer,         (* r, the first load of a size() the writer is running     *)
  most,          (* the writer's last size(): at most so many are queued    *)
  least          (* the reader's last size(): at least so many are queued   *)

prodVars == <<ppc, wpos, item, pushed, sizer, most>>
consVars == <<cpc, rpos, popped, least>>
ringVars == <<read, write, queue, prodVars, consVars>>
-----------------------------------------------------------------------------
(* Index arithmetic. *)

(* One slot more than the capacity, so that a full ring and an empty one   *)
(* have different indices.                                                 *)
RING_SIZE == BUF_SIZE + 1

Index == 0 .. BUF_SIZE

(* Mutant: the index does not wrap around. *)
NextPosUnwrapped(i) == i + 1

NextPos(i) == (i + 1) % RING_SIZE

(* Mutant: the writer does not look at the reader's index.                 *)
FullNever(next) == FALSE

Full(next) == next = read

(* Mutant: the wrapped case of size() forgets the extra slot. *)
DistanceShort(r, w) == IF r <= w THEN w - r ELSE w + BUF_SIZE - r

(* What size() computes of the two indices it loaded. *)
Distance(r, w) == IF r <= w THEN w - r ELSE w + RING_SIZE - r

RingInit ==
  /\ read = 0 /\ write = 0
  /\ queue = [i \in Index |-> NoValue]
  /\ ppc = "idle" /\ wpos = 0 /\ item = NoValue /\ pushed = TRUE
  /\ cpc = "idle" /\ rpos = 0 /\ popped = NoValue
  /\ sizer = 0 /\ most = 0 /\ least = 0
-----------------------------------------------------------------------------
(* The writer: push. *)

(* write.load() *)
PushLoad(v) ==
  /\ ppc = "idle"
  /\ ppc' = "check"
  /\ wpos' = write
  /\ item' = v
  /\ UNCHANGED <<read, write, queue, consVars, pushed, sizer, most>>

(* read.load() shows a full ring: return false *)
PushFull ==
  /\ ppc = "check"
  /\ Full(NextPos(wpos))
  /\ ppc' = "idle"
  /\ pushed' = FALSE
  /\ UNCHANGED <<read, write, queue, consVars, wpos, item, sizer, most>>

(* read.load() shows room *)
PushRoom ==
  /\ ppc = "check"
  /\ ~Full(NextPos(wpos))
  /\ ppc' = "fill"
  /\ UNCHANGED <<read, write, queue, consVars, wpos, item, pushed, sizer, most>>

(* _queue[write_pos] = move(val) *)
PushFill ==
  /\ ppc = "fill"
  /\ queue' = [queue EXCEPT ![wpos] = item]
  /\ ppc' = "publish"
  /\ UNCHANGED <<read, write, consVars, wpos, item, pushed, sizer, most>>

(* write.store(next_write); what an earlier size() said no longer counts *)
PushPublish ==
  /\ ppc = "publish"
  /\ write' = NextPos(wpos)
  /\ pushed' = TRUE
  /\ most' = BUF_SIZE
  /\ ppc' = "idle"
  /\ UNCHANGED <<read, queue, consVars, wpos, item, sizer>>
-----------------------------------------------------------------------------
(* The reader: pop. *)

(* read.load() *)
PopLoad ==
  /\ cpc = "idle"
  /\ cpc' = "check"
  /\ rpos' = read
  /\ UNCHANGED <<read, write, queue, prodVars, popped, least>>

(* write.load() shows an empty ring: return {T{}, false} *)
PopEmpty ==
  /\ cpc = "check"
  /\ write = rpos
  /\ cpc' = "idle"
  /\ popped' = NoValue
  /\ UNCHANGED <<read, write, queue, prodVars, rpos, least>>

(* Mutant: the emptiness check is gone. *)
PopFoundUnchecked ==
  /\ cpc = "check"
  /\ cpc' = "release"
  /\ UNCHANGED <<read, write, queue, prodVars, rpos, popped, least>>

(* write.load() shows a value *)
PopFound ==
  /\ cpc = "check"
  /\ write # rpos
  /\ cpc' = "release"
  /\ UNCHANGED <<read, write, queue, prodVars, rpos, popped, least>>

(* read.store(next): the slot is given back before the value is moved out *)
PopRelease ==
  /\ cpc = "release"
  /\ read' = NextPos(rpos)
  /\ least' = 0
  /\ cpc' = "move"
  /\ UNCHANGED <<write, queue, prodVars, rpos, popped>>

(* return {move(_queue[read_pos]), true}; the slot is left moved-from *)
PopMove ==
  /\ cpc = "move"
  /\ popped' = queue[rpos]
  /\ queue' = [queue EXCEPT ![rpos] = NoValue]
  /\ cpc' = "idle"
  /\ UNCHANGED <<read, write, prodVars, rpos, least>>
-----------------------------------------------------------------------------
(* size(), called by either thread between two of its operations.  It      *)
(* loads read, then write.                                                 *)

WriterSizeBegin ==
  /\ ppc = "idle"
  /\ sizer' = read
  /\ ppc' = "size"
  /\ UNCHANGED <<read, write, queue, consVars, wpos, item, pushed, most>>

WriterSizeEnd ==
  /\ ppc = "size"
  /\ most' = Distance(sizer, write)
  /\ ppc' = "idle"
  /\ UNCHANGED <<read, write, queue, consVars, wpos, item, pushed, sizer>>

(* Only the reader stores read, so its first load needs no step of its own. *)
ReaderSize ==
  /\ cpc = "idle"
  /\ least' = Distance(read, write)
  /\ UNCHANGED <<read, write, queue, prodVars, cpc, rpos, popped>>
-----------------------------------------------------------------------------
Writer ==
  \/ \E v \in Values : PushLoad(v)
  \/ PushFull \/ PushRoom \/ PushFill \/ PushPublish
  \/ WriterSizeBegin \/ WriterSizeEnd

Reader ==
  \/ PopLoad \/ PopEmpty \/ PopFound \/ PopRelease \/ PopMove
  \/ ReaderSize

RingNext == Writer \/ Reader

RingSpec == RingInit /\ [][RingNext]_ringVars
-----------------------------------------------------------------------------
(* The values in the ring, oldest first. *)
Wrap(n) == IF n < RING_SIZE THEN n ELSE n - RING_SIZE

Count == IF read <= write THEN write - read ELSE write - read + RING_SIZE

Contents == [k \in 1 .. Count |-> queue[Wrap(read + k - 1)]]

(* The ring is a bounded queue of BUF_SIZE values: a push takes effect     *)
(* when write is stored, a pop when read is stored, and the value of a pop *)
(* stays in its slot until the reader has moved it out.                    *)
Fifo == INSTANCE BoundedFifo
          WITH Cap <- BUF_SIZE,
               items <- Contents,
               taken <- IF cpc = "move" THEN queue[rpos] ELSE NoValue

(* circular_queue implements the bounded queue, whatever the interleaving  *)
(* of push and pop: no value is lost, duplicated, reordered or overwritten *)
(* while it is handed over, and push fails only on a full ring, pop only   *)
(* on an empty one (RingBufferAtomic.h, push and pop).                     *)
ImplementsFifo == Fifo!FifoSpec
-----------------------------------------------------------------------------
(* The shape of the state: the indices stay inside _queue                  *)
(* (RingBufferAtomic.h:80-82).                                             *)
TypeOK ==
  /\ read \in Index /\ write \in Index
  /\ queue \in [Index -> Values \cup {NoValue}]
  /\ ppc \in {"idle", "check", "fill", "publish", "size"}
  /\ wpos \in Index /\ item \in Values \cup {NoValue} /\ pushed \in BOOLEAN
  /\ cpc \in {"idle", "check", "release", "move"}
  /\ rpos \in Index /\ popped \in Values \cup {NoValue}
  /\ sizer \in Index /\ most \in Index /\ least \in Index

(* The writer never fills the slot the reader is still moving out of,      *)
(* although pop gives the slot back before it reads it: this is what the   *)
(* extra slot of _queue is for.                                            *)
NoSlotRace == ~(ppc = "fill" /\ cpc = "move" /\ wpos = rpos)

(* size() is two loads, and still each thread can rely on what it got      *)
(* until its own next operation: the writer that BUF_SIZE minus that many  *)
(* pushes succeed, the reader that that many pops do.                      *)
SizeIsSafe == least <= Count /\ Count <= most
=============================================================================
