# A verification development for cppPerf

The repository collects C++ experiments: concurrent containers, executors,
hash tables, a message buffer, small servers and simulations, and several
hundred answers to contest problems. There is no single program. What carries
the repository's own core logic is, first, the concurrent code - a lock-free
ring, a lock-free list, a counted pointer, a double buffer between threads, a
thread pool with task chains, an async collector, an item pool, actors that
share forks - and, second, its data structures: hash tables, buffers, free
lists, schedules, tries, order tiers, long numbers. This development models
those, states what each promises, model-checks the promises on small instances
with TLC, and proves with TLAPS, for every size, the safety properties of the
concurrent components and of most of the data structures, several of them as
refinements of what they promise: the ring and the message buffer are queues,
the pool a task service, the lock-free list a stack, the hash tables sets of keys.

Contents: [inventory](#1-inventory), [modules and code](#2-modules-and-code),
[runs](#3-what-the-runs-check), [bounds](#4-bounds), [fairness](#5-fairness),
[proofs](#6-proofs), [disagreements](#7-where-the-code-disagrees-with-its-own-words),
[left out](#8-not-modelled), [plan](#9-plan).

## 1. Inventory

Paths are relative to `src/`. `PROJECT.json` lists the same components with
their status, and under `hazards` what is hard to test in each, at its line.

### Modelled

**Lock-free ring buffer** - `library/RingBufferAtomic.h`, `circular_queue<T, N>`.
*State*: two atomic indices `read` and `write`, an array of N + 1 plain slots, a
mutex and a condition variable for the blocking variants. *Operations*: `push`,
`pop`, `size`, `empty`, `push_wait`, `pop_wait`; `clear` has an empty body.
*Interaction*: one writer thread and one reader thread share nothing else.
*Hard*: each side decides on an index of the other that may be old; `pop` gives
a slot back before it has moved the value out; `size` is two loads; the
notifications are sent without the mutex. *Correct when*: it is a bounded FIFO,
no slot is touched by both threads at once, the answers of `size` may be relied
on, and a blocked thread wakes up.

**Batching double buffer** - `cpp11/dualBuffer.hpp`, `DataBatchingBuffer` and its
drivers `DualBufferTest`, `DualBufferTestReceiver`, `DataQManager`. *State* per
sender: a private block, a locked queue of blocks, four unsigned 32-bit totals,
the size of the queue; per receiver: its place in the pass over the senders.
*Operations*: `addDataSqf`, `addTal4NoBatch`, `heartbeat`, `processDataAll`,
`clear`, `clearStats`, `done`, `Stop`. *Interaction*: each sender owns a buffer
and the receiver polls all of them; both sides read counters outside the lock.
*Hard*: stale counters, wrap-around, allocation failure in the middle of an
add, the last flush against the receiver's decision to leave. *Correct when*:
counters describe the queue, the backlog stays within its limit, records come
in order and none is left behind, and the receiver ends.

**Thread pool** - `cpp11/threading_model/thread_pool.h` (and the same class in
`cppcon/TaskWaiting.cpp`). *State*: a locked deque of tasks, a condition
variable, a plain stop flag, the worker threads. *Operations*: `submit`, the
worker loop with `get_task`, the destructor. *Hard*: notification after unlock,
workers that sleep or go to sleep while the destructor runs. *Correct when*: it
is a FIFO task service, no wakeup is lost, and the destructor returns.

**Task chaining** - `cppcon/TaskWaiting.cpp`, `wrapper_executor`,
`Chaining_internals`, `Task_Handle`. *State* per task: `complete`, the
continuation, a mutex. *Operations*: `submit_and_continue`, `then`, `run`.
*Interaction*: runs on the thread pool, through `submit` only. *Hard*: `then` on
a task that is just ending. *Correct when*: a continuation runs exactly once
and after its predecessor.

**SimpleAsync** - `cpp11/threading_model/simple_async.h`. *State*: a locked deque
of futures, a collector thread, a stop flag. *Operations*: `submit`, the
collector loop, the destructor. *Hard*: the collector leaves while futures are
queued. *Correct when*: tasks are reported in order when done, none outlives
the object, and the destructor returns.

**SListEx and MemoryRecycler** - `SlistEx.h`, used by `listvslist-gc.cpp`. *State*:
lock-free stacks of items (Windows SLISTs), two interlocked counters per list,
and in the recycler the plain pointer `currList`. *Operations*: `PushItem`,
`GetItems`, `clearStats`, `GetNewItem`, `RecycleItem`. *Interaction*: the
producer takes items from the recycler, a list hands them to its consumer, the
consumer gives them back. *Hard*: counters and stack change in separate steps,
an exhausted pool, items reused while a batch is being read. *Correct when*: an
item is in one place, values are read in order, `size` means something, and no
value is stuck.

**Dining philosophers** - `cppcon/philosophers.cpp`. *State* per actor: a locked
deque of messages and a thread; the table's forks; each philosopher's idea of
the forks it has. *Operations*: request, grant, ignore, release, eat, teardown.
*Hard*: dropped and repeated requests, circular waiting, threads started from a
base-class constructor, the order of the teardown. *Correct when*: a fork has
one holder, everybody eats, and the teardown ends.

**Lock-free list slist_r** - `cpp11/slist.h`, used by `listvslist-gc.cpp`. *State*:
an atomic head and the `next` fields of plain nodes. *Operations*: `push_front`,
`pop_front`, `pop_all`, the destructor of a chain that was taken; `producer3` and
`consumer3`. *Hard*: `pop_front` reads `old->next` once and repeats its exchange
with it. *Correct when*: it is a stack, and no node is lost or read twice.

**Shared pointer** - `cpp11/SharedPtr.cpp`. *State*: the counter of each object, the
object each pointer has. *Operations*: constructors, copies, moves, `reset`, the
destructor. *Hard*: `delete_me` loads the counter and decrements it in two steps.
*Correct when*: the object is deleted once, after its last pointer.

**Hash tables** - `cpp11/HashTableBase.h`, `HashTableBucketHashing.h`,
`HashTableProbing.h`. *State*: elements with erased flags or tombstones, statistics.
*Operations*: `insert`, `find`, `erase`, `clear`. *Hard*: what erasing leaves behind,
the overflow area, full paths. *Correct when*: each is a table of keys, and its
statistics count what is there.

**Growing message buffer** - `cpp11/DynBuffer.h`, `DynMsg.h`. *State*: a buffer with a
moving start, the number of messages. *Operations*: `AddMsg`, `AddMsgCliData`,
`RemoveMsg`, `RemoveAll`, `Reserve`, copies. *Hard*: an addition that fails at its second or third
part. *Correct when*: it is a queue of whole messages.

**Order tiers of a data feed, atomic sets, docks, merged lines** - `cpp11/DataFeed.cpp`,
`atomic_set.cpp`, `DockingSchedule.cpp`, `arbitrate.cpp`. *State*: price levels and
orders; what came on each of three streams; numbers seen. *Hard*: the order in which
messages come. *Correct when*: the result does not depend on it.

**Reservation system, calendar, exam room** - `cpp11/ReservationSystem.cpp`,
`leetcode/leetcodecpp.cpp`. *State*: differences between
quarters of an hour, booked intervals, seats. *Correct when*: nothing is given away
more often than it exists, and what is offered is free.

**Request counter** - `cpp11/requestCounter.cpp`. *State*: a deque or a map of seconds and counts.
*Hard*: the loop that removes old entries. *Correct when*: calls return and tell
the requests of the window.

**Phone registry, small allocators** - `cpp11/PhoneRegistry.cpp`,
`cpp11/test/simplified_alloc.cpp`, `library/SmallObject.h`. *State*: intervals or free
lists. *Correct when*: nothing is handed out twice and what is freed comes back.

**Graph, search and number libraries** - `library/Graph.h`, `UnionFind.h`, `trie.h`,
`myalgo.h`, `large_int*.h`, `mathlib*.h`, `Digits-Helper.h`. *Hard*: cycles against
memoised counts, the width of the word, numbers of different lengths. *Correct
when*: they compute what their definitions say.

**Games and exercises** - `cpp11/MineSweeper.cpp`, `TicTacToe.cpp`, `jumpTrading.cpp`,
`Iterator.cpp`; those answers in `HackerRank/` and `leetcode/` that are classes whose
calls share a state. *Correct when*: any legal sequence of calls gets the answers the
exercise asks for.

The structures of the last seven paragraphs are used by one thread at a time and do
not call each other; each is a component with an interface of its own.

### Not modelled

HTTP listener, elevator, lock wrappers, language experiments, benchmarks, and the
several hundred puzzle answers that are one function each: see section 8.

## 2. Modules and code

Every module keeps the names of the code. The comment above a definition says
what it stands for; `PROJECT.json` under `map` gives its lines. Definitions
whose comment begins with `Mutant` are wrong on purpose: replacing the
definition after them by them breaks a property, which shows that the property
depends on that line of the code. They are no part of the model.

| module | models | state, and where it lives in the code |
|---|---|---|
| `BoundedFifo` | the promise of `circular_queue` | abstract: queue, value taken but not handed over, last answers |
| `RingBuffer` | `push`, `pop`, `size` | `read`, `write`, `queue`; program counters and locals of the two threads |
| `RingBufferWait` | `push_wait`, `pop_wait`, their test | extends `RingBuffer` by mutex, condition variable, test loop |
| `AtomicsProofs` | - | theorems about the ring, its blocking variants, `SharedPtr` and `LockFreeList`, section 6 |
| `TaskProofs` | - | theorems about `ThreadPool`, `TaskChain`, `SimpleAsync`, and the types of `MCProtocols` |
| `DualBufferProofs`, `PhilosophersProofs`, `SListExProofs` | - | theorems about the module they are named after |
| `StructuresProofs` | - | theorems about the three hash tables, `RequestCounter` and the circular deque |
| `PartsProofs` | - | theorems about `Allocators`, `DynMsg`, the rest of `LinkedDesigns`, `ClassDesigns`, `Calendars`, `Feeds` |
| `DualBuffer` | `dualBuffer.hpp` | one record per `DataBatchingBuffer`, the senders' and the receiver's position |
| `TaskService` | the promise of a pool to its clients | abstract: waiting, running, finished, open |
| `ThreadPool` | `thread_pool.h` | `tasks`, `stop_token`; position of each worker, client and the owner |
| `TaskChain` | chaining in `TaskWaiting.cpp` | extends `TaskService` by `complete` and `continuation` of each task |
| `SimpleAsync` | `simple_async.h` | `task_results`, `stop_token`, position of collector and destructor |
| `MemoryRecycler` | `MemoryRecycler` of `SlistEx.h` | `m_head`, `currList`, `m_NewedItems` |
| `SListEx` | `SListEx` of `SlistEx.h`, `producer2` and `consumer` of `listvslist-gc.cpp` | extends `MemoryRecycler` by the lists, their counters, the threads |
| `Philosophers` | `philosophers.cpp` | message deques, `chopsticks_state`, `is_acquired`, threads, teardown |
| `AtomicStack` | the promise of `slist_r` | abstract: the stack, its operations atomic |
| `LockFreeList` | `cpp11/slist.h`, `producer3`, `consumer3` | `head`, `next` of each node; positions and locals of the threads, what was taken |
| `SharedPtr` | `SharedPtr.cpp` | `count` of each object, what each pointer points to, the position of each thread in `delete_me` |
| `KeyTable` | the promise of a hash table | abstract: the keys, the last answer |
| `Hashing` | keys and hash values | constants of the three tables and of `MyHashSet`, `MyHashMap` |
| `ChainedTable` | `HashTableBase.h` | lists of elements with `bErased`, the statistics |
| `BucketTable` | `HashTableBucketHashing.h` | buckets and overflow area |
| `ProbingTable` | `HashTableProbing.h` | cells, empty, erased or in use |
| `MessageQueue` | the promise of `CDynMsg` | abstract: the messages |
| `DynMsg` | `DynBuffer.h`, `DynMsg.h` | what is in the buffer, `m_pCur`, `m_lSize`, `m_lMaxSize`, whether `m_pBuffer` is null, `msgs` |
| `Allocators` | `SimplifiedStorage`, `Chunk`, both phone registries | free lists in the free memory, intervals, a set of used numbers |
| `Calendars` | `Schedule`, `MyCalendarTwo`, `ExamRoom` | differences per quarter, booked and doubly booked intervals, occupied seats |
| `Feeds` | `AtomicSet` and `AtomicSet2`, the order tiers, `arbitrate`, `compute_docks` | pending sets, levels and orders, the two lines, the loadings |
| `RequestCounter` | both request counters | deque, ring, clock, answers |
| `GraphPaths` | `GraphPath::countPaths` | the edges; memo and flags are recomputed per question, as in the code |
| `Forests` | four union-find classes, two tries, `EndPointDispatch`, `SimpleTextEditor` | parents and sizes, trie nodes, patterns, text and undo stack |
| `BoundedDeque` | the promise of `MyCircularDeque` | abstract: the values |
| `LinkedDesigns` | `LRUCache`, `MyLinkedList`, `MyCircularDeque` | map and linked nodes, `head`/`tail`/`size`, ring with its two ends |
| `ClassDesigns` | `MyHashSet`, `MyHashMap`, `RandomizedSet`, `FlipMatrix`, `MinStack`, `MyQueue`, `FreqStack`, `StockSpanner`, `Twitter` | slots; values and index; stacks; followers and tweets |
| `Games` | the two games | open cells and blanks; the board and whose turn it is |
| `Iterators` | iterators over ranges, nested lists and trees | current range and position, the stack |
| `DigitNumbers` | `LargeInt`, `WordMachine`, number fields | digits; the stack of words; the number written |
| `Arithmetic` | functions of `mathlib.h`, `mathlib_primes.h`, `myalgo.h` | the number or sequence that is asked about |
| `MCProtocols` | - | the seven small protocols between threads, one per behaviour |
| `MCParts` | - | what each kind of structure that is proved about must keep, as conjunctions |
| `MCStructures` | - | the forty structures one thread uses, one per behaviour |
| `MCTables` | - | the three hash tables over the same keys, what all of them must keep, and the one with buckets alone for `hidden_item` |
| `MCDualBuffer` | - | definitions for its configurations |

### How a module is built

*One step is what no other thread can see in two.* An atomic load or store is a
step; a critical section of a mutex is a step, with what follows up to the next
access of shared state; a notification sent after the unlock is a step of its
own; a plain member touched by one thread only takes part in that thread's next
step. Where the code reads shared counters without its lock (`DualBuffer.Peek`,
`Tal4Check`, `Tal4Wait`), the read is a step.

*Order of memory operations.* The ring's indices are `std::atomic` with the
default, sequentially consistent order, and the model interleaves them in that
order. Unlocked reads of plain counters in `dualBuffer.hpp` and of the plain
`bool stop_token` are formally data races; the model gives them the outcomes an
aligned machine word has, an old or the new value. A late read of the old
`stop_token` is the same as a read before the store.

*Condition variables.* A waiting thread releases the mutex and sleeps in one
step; `notify_one` wakes any one sleeper or nobody; spurious wakeups are
actions without fairness.

*Data.* A value or task is a model value or a number that is also its position
in the test; a block of the double buffer is the sequence of its records, a
chain of list items the sequence of its items. Whether a time limit has passed
is a free choice where the code asks.

### Notes on single modules

`RingBuffer`: `PushLoad`, `PushFull`/`PushRoom`, `PushFill`, `PushPublish` are the
four accesses of `push`, `PopLoad` to `PopMove` those of `pop`. `most` and `least`
remember what the last `size` call told the writer and the reader, until their
own next operation makes the number old. `NoValue` is both `T{}` and the state of a
slot that was moved from. `Contents` and `taken` define the refinement mapping to
`BoundedFifo`: a push takes effect when `write` is stored, a pop when `read` is
stored, although its value is handed over later.

`RingBufferWait`: the values are the numbers 0 .. Total-1 of the test *atomic queue
test events*, so that order and loss can be seen.

`DualBuffer`: a test is a record of the constant set `Tests`: how many senders, how
many updates each, `DoUpdates` or `DoUpdatesTal4`, and whether memory may run out.
`Init` picks one, as `main` does by its arguments. `LastDue` holds the possible answers of
the last heartbeat's time test: only TRUE, since the sender sleeps 50 ms before
it and the interval of the tests is shorter. `clear` occurs in the receiver
(`CheckFinished`) and, in `SpecWithClear` only, as a call from outside.

`ThreadPool`: a client is a thread in `submit`; the owner destroys the pool when no
client is inside `submit`. That is the caller's duty in C++: a call to a member
of an object under destruction is undefined.

`TaskChain`: uses `TaskService` in place of the pool. The run `pool` checks that the
pool implements the service. Two differences remain: here the pool is closed
when everything has run (main sleeps longer than all tasks together), and a
task is accepted from inside a running task as well as from main.

`MemoryRecycler` holds the operations; `SharedSpec` lets several threads call them,
as the class comment allows; `SListEx` has one producer, as the diagram in the
header has.

`Philosophers`: the base class `Actor` starts the thread before the derived object
exists, so that the thread may run `Actor::run`, which returns at once.
`Init` lets each thread be over from the start. What goes to a table whose thread is over is
never read and is not kept.

`LockFreeList`: `way` says whether the taking thread uses `pop_all`, as `consumer3` does, or
`pop_front`, the line it has as a comment. Each load and each exchange is a step. One thread takes,
as in the code. Nodes are not used twice in the model. In the code an address may come back after its
node was deleted (the ABA case); with one taker that is harmless. A pusher's exchange
is right whenever the head it finds is the `next` of its node, whatever happened in between, and
the head cannot leave the node the taker looks at and come back to it, since only the taker removes nodes.

`SharedPtr`: a pointer belongs to one thread, as in the code; the counter is shared.
`delete_me` is two steps, a load and what follows from it.

`ChainedTable`, `BucketTable`, `ProbingTable`: each is stepped by its own operations and is shown to implement
`KeyTable` by a refinement mapping from cells to keys; the bucket table only where
no item is hidden (section 7). Keys are numbers that meet in one bucket.

`DynMsg`: a cell stands for bytes that are copied together. A failing
`resize` is nondeterministic where memory may run out; where it gives up for the
sake of the maximum, it has already moved the buffer away, and the buffer is null
from then on, as in the code.

`RequestCounter`: each round of the loop in `remove_old` is a step, so that a call that never
ends is a behaviour.

`GraphPaths`, `Arithmetic`, `DigitNumbers`, `Games` and parts of `Iterators` contain the code's pure
functions as recursive operators or folds; the actions build their inputs up one element at a
time, and the invariant compares them with a definition that owes nothing to the code's method.

`Feeds`: the numbers of a stream rise, so a queue of messages is the set of its numbers and its front the smallest. The
loops that merge are written round by round (`Round`, `Arbitrate`), as recursive functions over as many rounds as they can need;
a round after the loop's end changes nothing.

`LinkedDesigns`, `Games`: where the code would follow a null pointer or a pointer to a
deleted node, the behaviour ends and a named property says so.

## 3. What the runs check

| run | instance | distinct states | shows |
|---|---|---|---|
| `protocols` | seven protocols, one per behaviour; section 4 | 238 k | ring (polled and waited on), pool, chains, SimpleAsync, `slist_r`, `SharedPtr`: safety, refinement, and that what must end does |
| `lost_wakeup` | blocking ring, capacity 2, 5 values | - | violation: the test need not end |
| `dual` | three tests of the double buffer | 404 k | counters, backlog, order, completeness, end of the receiver |
| `dual_clear` | one sender | - | violation: `getQRec` after `clear` |
| `slist` | 1 producer, 2 consumers, 2 items, 4 values, `clearStats` | 942 k | an item is in one place, counters, order, nothing stuck |
| `recycler_shared` | 2 threads | - | violation: two callers get one item |
| `philosophers` | 3 philosophers, threads alive or dead | 205 k | one holder until the first meal, everyone eats, teardown ends |
| `shared_forks` | same | - | violation: an available fork somebody has |
| `structures` | forty structures, one per behaviour | 62 k | each is what it stands for after any sequence of calls |
| `hidden_item` | 2 buckets of 2, 3 keys | - | violation: a stored item is not found |
| `cycle_missed` | 4 nodes, 3 edges | - | violation: a cycle on a path, and a finite count |
| `call_hangs` | window of 2 seconds | - | violation: `Get60sCount` never returns |

The two composed runs choose one member in `Init` (`subject`, `structure`) and keep the
others where they start, so their state space is the sum of their members' and not the product. That says
nothing of one member beside another; they share no state in the code either.

Properties of the concurrent modules:

* `ImplementsFifo`, `ImplementsRing` (ring): no value is lost, duplicated, reordered or overwritten
  while it is handed over, `push` is refused only when the queue is full and
  `pop` finds nothing only when it is empty, at some moment during the call.
* `SizeIsSafe`: although `size` loads its two indices one after the other, the
  writer may push capacity minus its answer values without being refused, and
  the reader may pop as many as its answer.
* `NoTaskForgotten` (pool): while a worker sleeps, each queued task has a worker on
  its way or a notification to come. `EnoughStopTasks`: after the destructor's
  push the deque holds a task for each worker that is still inside `get_task`.
* `ImplementsService`: the pool starts tasks in FIFO order, none twice, at most as
  many at a time as there are workers, and none runs after the destructor.
  Tasks still queued when the destructor begins are promised nothing.
* `RunsAfterPredecessor`, `InOnePlace` (chains): a continuation starts after its predecessor returned; a
  task handed over is left with its predecessor, queued, running or finished, and exactly one of them.
* `NoTaskOutlives`, `CollectedInOrder` (SimpleAsync).
* `ImplementsStack` (slist_r): push, `pop_all` and `pop_front` take effect at one exchange each; a
  `pop_front` that had to repeat its exchange may take more than it returns. `NodesAccounted`: no node is in two
  places (`NoNodeTwice`), none is lost unless an exchange of `pop_front` was repeated (`LostOnlyByRetry`), and with
  `pop_all` each pusher's nodes are read in order (`ReadInOrder`).
* `NotDeletedInUse`, `LeaksOnlyByOverlap` (SharedPtr): deleted once and after the last pointer; a leak needs two
  overlapping `delete_me`.
* `MCEverythingReturns`: `OnlyMissedWakeupsHang` (if the blocking test does not end, then somebody
  sleeps although it may go on, and the other side was not stopped in any other way),
  `DestructorReturns`, `AllTasksRun`, `AsyncDestructorReturns`, `ConsumerReturns`. `MCTypesOK` joins the type invariants.
* `BacklogBounded`, `CountersMatchQueue`, `InOrder`, `NothingLeftBehind` (double buffer): the limit is
  exceeded by one block at most; the wrapping counters describe the queue; when the receiver leaves, each
  record added was delivered, dropped at the limit, or lost for want of memory; and the branch of `DoReceive` that clears
  the buffer of a finished sender is never reached (`ClearNeverNeeded`).
* `SizeMatches` (list): `m_NumItemsLife - m_NumItemsOut` is the length of the list
  up to the operations under way, in every interleaving with `clearStats`;
  `NothingStuck`: the early return of `GetItems` on these counters hides no item for ever; `ReadsInOrder`, `ItemInOnePlace`.
* `OneHolderBeforeMeal` (philosophers): until one of its two users has eaten, a fork
  is on the table or with one of them; `EveryoneEats`: whoever else's thread died; `TeardownEnds`.

Properties of the structures. Each `MC...` is a conjunction of named parts, which have their comments in
the component's module; a trace that violates the whole names the structure in `structure`.

| property | parts |
|---|---|
| `MCTablesIntact` | `StatisticsMatch` (chained), `LostOnlyWhenHidden`, `SizeCounts` (bucket), `PathUnbroken` (probing: nothing empty before a key on its path) |
| `MCStepsImplement` | `ChainedImplements`, `BucketImplements`, `ProbingImplements` (refinements of `KeyTable`), `ChainedToldTruth`, `ImplementsDeque` (of `BoundedDeque`), `FirstFit`, `HandedOnce`, `SitsFarthest` |
| `ImplementsQueueOrNull` | `DynMsg` refines `MessageQueue` until the buffer is given up |
| `MCMemorySound` | `WellFramed`, `ListIsFreeParts`, `ChunkListIsFree`, `IntervalsExact` |
| `MCNothingOverbooked` | `NeverOverbooked`, `OffersWhatFits` |
| `MCFeedsExact` | `BothFindComplete`, `NothingNeededDropped`, `TiersAddUp`, `InsideQuoteIsReal`, `NothingLostInMerge`, `DocksAreNeeded` |
| `FirstIsExact` | what `RequestCounter` answers, when it answers |
| `MCLookupsExact` | `SamePartition`, `CountersTell`, `Shallow`, `CountIsExact`, `FindsWhatWasPut`, `FindsLargestXor`, `FindsBestPattern`, `UndoRestores` |
| `MCExercisesRight` | `WonMeansCleared`, `BlanksAreCleared`, `ProposesBest`, `RangesInTurn`, `NestedInTurn`, `TreeInTurn`, `ShowsNewest`, `TakesMostFrequent`, `SpanCounts`, `NeverTripleBooked` |
| `MCNumbersExact` | `StandsForNumber`, `FastIsProduct`, `PhiCountsCoprimes`, `MulModIsExact`, `NoPrimeRejected`, `PeriodIsLeast`, `PalindromesComplete`, `ExceedingCounted`, `LargestSum`, `RunsCounted`, `ReversesWhatCounts`, `FieldShowsNumber`, `ToldIsExact` |
| `MCDesignsAgree` | `LinkedButForOldHeads`, `TailIsLast`, `SetTellsMembers`, `MapTellsValues`, `IndexesAgree`, `FlipsEveryCellOnce`, `MinIsSmallest`, `QueueInOrder` |

Some of these say what the code does where its purpose would ask for more, and their comments name the
lines: `Shallow` leaves out `UnionFindSimple`, whose sizes stay 0; `CountersTell` counts an isolated vertex that is
joined with itself twice, as `UnionFind` does; `LinkedButForOldHeads` leaves out the `prev` of keys that `update` moved
from the head and ends when one is used; `FieldShowsNumber` promises no more digits than `count_digits`
counts; `MulModIsExact` says for which moduli `mul_mod` is wrong; `BucketImplements` holds while nothing is hidden.

Deadlock is checked in `protocols`, `dual`, `dual_clear`, `philosophers`, `shared_forks` and `hidden_item` (where
a protocol ends, a step that changes nothing stands for its end). It is not in
`structures` (a bounded sequence of calls is over), `slist`
(all values delivered, nobody calls anything more), `lost_wakeup` (the hang is the subject), `recycler_shared`,
`cycle_missed` and `call_hangs` (the bound is reached).

## 4. Bounds

| bound | value | why it is enough |
|---|---|---|
| `BUF_SIZE`, `Total` | 3 and 6 (2 and 5 in `lost_wakeup`) | the indices wrap around, full and empty and the states between occur; the test fills the ring twice; the proofs cover every capacity |
| values of the polled ring | 2 | order and duplication can be told apart |
| double buffer `Tests` | (2 senders, 3 updates), (1, 6, memory fails), (1, 5, throttled, memory fails) | a sender fills a block, flushes by time and leaves a rest; the counters, modulo `Word` = 4, wrap around |
| `Block` 2, `MaxAllowed` 1 | | the limit can be exceeded by a whole block and is reached with one block |
| `WaitLimit` 2, `RetryLimit` 2 | 10 in the code | giving up and succeeding late both occur |
| `MaxResets` 1, `MaxClears` 1 | | one `clearStats` at every possible moment |
| pool | 3 workers, 2 clients, 2 tasks each | more workers than clients, more tasks than workers, tasks left at destruction |
| chains | 2 of 3 tasks, 2 workers | a middle task has a predecessor and a continuation; the chains compete for the workers |
| `slist` | 2 items, 4 values, one item at the start | allocation, exhaustion, waiting, giving up and reuse occur |
| `slist_r` | 2 pushers of 2 nodes, one taker | a push between the load and the exchange of another push, of `pop_all`, of `pop_front`, twice |
| `SharedPtr` | 2 threads of 2 pointers, 2 objects | both threads in `delete_me` of one object at once, copies and moves between; proved for any number |
| `Pending` | 1 request per philosopher | the real deque has no limit; the repeated request is a message that may come when the fork was just granted, taken or given back |
| hash tables | 3 keys of one bucket | a full bucket, the overflow area, both full (an item may be in both), a tombstone on another key's path and a path without an empty cell; the proofs cover every number of keys |
| `DynMsg` | 1 to 8 cells, messages of 0 to 3 | refused at the header, the tag and the text; growth, copy back to the start, the buffer given up |
| mines | 3 x 3 cells, 2 mines, in `MCBombs` | one of each kind of board; rotations and reflections turn the behaviours of the other boards into theirs |
| `Width`, `Word`, `bits`, `Ten` | 6-bit words, base 2 or small | every operand up to the edge of the word, instead of samples of 64 bits |
| `MaxSelf` | 1 | an isolated vertex is joined with itself before, between and after the joins of others |
| `MostDigits` | 4, 10 in the code | numbers of 1 to 5 digits in fields of 2 to 7: the field, or the count of digits, is what cuts a number off |
| other structures | 3 to 8 elements or calls | each module names its bounds at its CONSTANTS: enough for both ends, the middle, and full, empty and repeated use |

`Pending` is the one bound that hides behaviour, the growth of the table's deque; section 8 names it.
Symmetry is not used: the runs with model values check liveness or are small without it.

## 5. Fairness

Safety properties need none. For liveness:

* each thread that can move does so in the end (`WF` on the actions of a thread),
  which is the promise of the operating system's scheduler. The modules never
  assume it of a caller that may stop calling: `Stop`, `clearStats`, a spurious wakeup and, for
  the philosophers, the beginning of the destruction are never forced;
* a mutex that is released again and again is obtained by a thread that wants it
  (`SF` on `TakeLock` in `RingBufferWait`, on `RequestFork` and `Eat` in `Philosophers`). The C++
  standard does not promise that; implementations on a fair scheduler give it in practice,
  and without it the philosophers could starve at the table's mutex;
* a task ends (`TaskEnds` in `SimpleAsync`, `RunTask`, `CurrentTaskEnds`), and the owner destroys a
  pool once its clients are done, since scopes end. These are assumptions about
  the code the library is given;
* the consumer of `slist_r` goes on (`WF` on `Consumer3`); pushers may stop at any point, and it still
  returns, because it counts its sleeps;
* a call of `remove_old` that has begun goes on (`WF` in `CounterSpec`), and it still need not end: `call_hangs`.

`MCFairness` restricts each condition to the behaviours of its protocol. `AllReceived` and `CallsReturn` are refuted under
all of the fairness of their specification, so the hangs they show are not of the scheduler's making.

## 6. Proofs

TLC checks small instances; the theorems below hold for every value of the
constants that satisfies the named assumption of the module (each is an `ASSUME` TLC
evaluates in the runs): `RingAssumption` (a capacity of at least one, `NoValue` is no
value), `TotalAssumption`, `PoolAssumption`, `ChainAssumption`, `AsyncAssumption`, `PhilosophersAssumption`,
`SharedAssumption`, `ListAssumption`, `RecyclerAssumption`, `SListAssumption` and `DualBufferAssumption` (finite sets of threads,
natural bounds, and model values that are not mistaken for others), `HashAssumption` (finitely many keys, hash values are natural numbers),
`ChainedAssumption`, `BucketAssumption` (at least one list, bucket and slot), `ProbingAssumption` (a table at least as large as the square of the probe length)
`CounterAssumption` and `DequeAssumption` (at least one cell, natural values), `StorageAssumption`, `PhoneAssumption` and `PickAssumption` (any sizes and bounds),
`DynAssumption` (sizes are natural, the initial one at most the largest, texts are sequences), `CacheAssumption`, `ListAssumption` (`null` and `none` are no keys and no nodes),
`HashDesignAssumption` and `StackAssumption` (keys and numbers are natural), `AtomicAssumption`, `FeedAssumption` and `MergeAssumption` (finitely many
order ids, natural prices and bounds, no order of size 0). Some say more, and the code is the reason:

* `SListAssumption`: one thread gets items, as the diagram in `SlistEx.h` has it; with two, `recycler_shared` shows an item given twice;
* `DualBufferAssumption`: the limit and a block fit into a DWORD, and `RetryLimit` is at least 2 (the code has 10): with 1 the
  receiver would clear the queue of a sender at the first look that finds it finished, before it took what is left;
* `RefSpec` of `LockFreeList` has one taking thread, as its test has;
* `ChunkAssumption`: a block's number fits into the byte that links the blocks, which `Chunk::Init` relies on: `blocks` is an `unsigned char`, so there are at most 255;
* `ScheduleAssumption`: a stay is at least two quarters of an hour and shorter than the day (the code has 6). With a stay of one
  the walk of `alternate_reservation_within_2hr` would not offer the first slot of a run: it only remembers it;
* `StackAssumption`: what `MinStack` starts its minimum from, the largest `int`, is not below any number pushed.

TLC checks each of these properties in the runs of section 3, the
type invariants as parts of `MCTypesOK`, and no step is left without a proof.

| module | theorem | says | argument |
|---|---|---|---|
| `AtomicsProofs` | `RingTypeCorrect`, `SlotRaceFree` | `TypeOK`, `NoSlotRace` | `RingInv` |
| | `SizeReliable` | `SizeIsSafe` | `SizeInv` on top of `RingInv` |
| | `Refinement` | `ImplementsFifo` | `DataInv` on top of `RingInv`, step by step |
| | `WaitImplementsRing`, `WaitTypeCorrect` | `ImplementsRing`, `WaitTypeOK` | `WaitInv` |
| | `ValuesInOrder` | `NothingOutOfOrder` | `OrderInv`, on top of `RingInv` |
| `DualBufferProofs` | `CountersAlwaysMatch` | `CountersMatchQueue` | `IInv`, its part `Counted` |
| | `BacklogAlwaysBounded` | `BacklogBounded` | `IInv`, `Limited` |
| | `AlwaysInOrder` | `InOrder` | `IInv`, `Lined` |
| | `ClearNeverCalled` | `ClearNeverNeeded` | `IInv`, `Retried` |
| | `NothingIsLeftBehind` | `NothingLeftBehind`, where the last heartbeat is due | `Flushed` on top of `IInv` |
| `TaskProofs` | `PoolTypeCorrect` | `PoolTypeOK` | inductive |
| | `StopTasksSuffice` | `EnoughStopTasks` | `StopInv` |
| | `TasksNotForgotten` | `NoTaskForgotten` | inductive, given the types |
| | `PoolIsTaskService` | `ImplementsService` | `ServiceInv`, step by step |
| | `ChainTypeCorrect`, `RunsInOrder` | `ChainTypeOK`, `RunsAfterPredecessor` | `ChainInv` |
| | `TasksInOnePlace` | `InOnePlace` | `PlaceInv` on top of `ChainInv` |
| | `AsyncTypeCorrect`, `NoneOutlives` | `AsyncTypeOK`, `NoTaskOutlives` | `AsyncInv` |
| | `ReportsInOrder` | `CollectedInOrder` | `LineInv` on top of `AsyncInv` |
| | `ProtocolsKeepTypes` | `MCTypesOK`, of the composed specification | the type theorems above and those of the next three modules |
| `PhilosophersProofs` | `TypeCorrect`, `OneHolder` | `TypeOK`, `OneHolderBeforeMeal` | `ForkInv` |
| `SListExProofs` | `CountersMatch` | `SizeMatches` | inductive with `ListTypes` |
| | `ItemsAlwaysInOnePlace` | `ItemInOnePlace` | `ItemInv`, `NumberInv` |
| | `AlwaysReadInOrder` | `ReadsInOrder` | `ValueInv` on top of both |
| `AtomicsProofs` | `SharedPtrTypes`, `SharedPtrDeletesLast` | `SharedTypeOK`, `NotDeletedInUse` | `SharedInv` |
| | `SharedPtrCounts` | the count of a live object is the number of its pointers (`CountsPointers`) | `SharedInv` |
| | `SharedPtrLeaks` | `LeaksOnlyByOverlap` | inductive, given `SharedInv` |
| | `NodesAlwaysAccounted` | `RefTypeOK`, `NodesAccounted` | `ListInv` and `Building` |
| | `ListIsStack` | `ImplementsStack` | the same, step by step |
| `StructuresProofs` | `ChainedStatistics` | `StatisticsMatch` | `ChainedInv` |
| | `ChainedIsKeyTable`, `ChainedTellsTruth` | `ChainedImplements`, `ChainedToldTruth` | `ChainedInv`, step by step |
| | `BucketLosesOnlyHidden`, `BucketSizeCounts` | `LostOnlyWhenHidden`, `SizeCounts` | `BucketInv` |
| | `BucketIsKeyTable` | `BucketImplements` | `BucketInv`, step by step |
| | `PathsStayUnbroken` | `PathUnbroken` | `ProbeInv` |
| | `ProbingIsKeyTable` | `ProbingImplements` | `ProbeInv`, step by step |
| | `TablesStayIntact` | `MCTablesIntact` | the theorems above |
| | `FirstAnswerIsExact` | `FirstIsExact` | `CounterInv` |
| | `CircularIsDeque` | `ImplementsDeque` | `CircularInv` |
| `PartsProofs` | `ListStaysFree`, `AllocIsFirstFit` | `ListIsFreeParts`, `FirstFit` | `StorageInv` |
| | `ChunkListStaysFree` | `ChunkListIsFree` | `ChunkInv` |
| | `FreeNumbersExact`, `NumberHandedOnce` | `IntervalsExact`, `HandedOnce` | `PhoneInv` |
| | `BufferStaysFramed` | `WellFramed` | `DynInv` |
| | `BufferImplementsQueue` | `ImplementsQueueOrNull` | `DynInv`, step by step |
| | `MemoryStaysSound` | `MCMemorySound` | the theorems above |
| | `CacheStaysLinked`, `ListKeepsTail` | `LinkedButForOldHeads`, `TailIsLast` | `CacheInv`, `ListInv` |
| | `HashSetTells`, `HashMapTells` | `SetTellsMembers`, `MapTellsValues` | `SetInv`, `MapInv` |
| | `PickedOnce`, `FlippedOnce` | `IndexesAgree`, `FlipsEveryCellOnce` | `PickInv`, `FlipInv` |
| | `MinStaysSmallest`, `QueueStaysInOrder` | `MinIsSmallest`, `QueueInOrder` | `StackInv` |
| | `DesignsAgree` | `MCDesignsAgree` | the theorems above |
| | `AlwaysFarthest` | `SitsFarthest` | `RoomInv` |
| | `NothingOverbooked` | `MCNothingOverbooked`: `NeverOverbooked`, `OffersWhatFits` | `DayInv` |
| | `StepsImplement` | `MCStepsImplement` | the theorems about its eight parts |
| | `FeedsExact` | `MCFeedsExact`: `BothFindComplete`, `NothingNeededDropped`, `TiersAddUp`, `InsideQuoteIsReal`, `NothingLostInMerge`, `DocksAreNeeded` | `AtomicInv`, `FeedInv`, `LinesInv`, `DocksInv` |

*Ring.* `NoSlotRace` is not inductive: that the reader's slot is not the writer's follows from
what each thread's check saw, for as long as it relies on it (`CheckInv`), and from how the
private indices are tied to the shared ones (`IndexInv`). The other thread can only make an
outdated check more true: the reader makes room and the writer adds values. For `size`,
`SizeInv` keeps what the first of its two loads established while the second is to come. The
refinement proof has one step for each action: the store of `write` appends to the abstract queue, the
store of `read` takes its head, and all others map to an answer or to a stutter; `DataInv` says which
slots hold values.

*Blocking ring.* Every step either leaves the ring alone (`SignalOnly`) or is a step of `push` or
`pop` (`WaitSteps`). So all that is proved of the ring holds here, and `OrderInv` adds that the queued
slots hold consecutive numbers, beginning with the next one to be received.

*Pool.* What the abstract service calls waiting is `Unstarted`, the tasks in the deque before the first stop task; `ServiceInv` says that stop
tasks are all behind the real ones (`StopsLast`) and that no task is queued, running or finished twice (`Distinct`). The stop tasks suffice because `stop_token` is set before they are pushed (`StopFirst`): from then
on no worker enters `get_task`, and each that leaves takes one task at most. The proof counts the workers
inside. For `NoTaskForgotten` the case that matters is a notification that finds no sleeper: then
the workers it missed are on their way to the deque.

*Chains.* A continuation reaches the pool in two ways: from `then`, which saw `complete` (`CompleteInv`: the
task has ended), or from the end of the task it was left with (`LeftInv`). `InOnePlace` counts a task's places;
`PlaceInv` says that the places exclude each other (`Apart`) and that a task built and handed over is in one of them
(`Handed`), which the mutex around `complete` and the continuation preserves.

*SimpleAsync.* A task in flight is somebody's to wait for, the deque's or the collector's (`Accounted`); when the
object is gone neither holds one (`Ending`). Of one user's tasks, what was reported, what the collector holds
and what the deque holds are pieces of one line in order (`Pieces`), and no number in it is beyond the last
one submitted (`Bounded`): that is `LineInv`.

*Philosophers.* `OneHolderBeforeMeal` needs to know that a release comes only from somebody who has eaten
and a request only from a user of the fork; then the messages under way cannot give a fork twice.

*Double buffer.* `IInv` says of each sender that its counters are those of its queue (`Counted`: no block in the queue is empty, so
the blocks are never more than the records and neither difference wraps around), that the room the unlocked look at the limit found is
still there when the block is pushed, because only the receiver takes and only this sender adds (`Limited`), and that delivered, queued and
kept records are one ascending line (`Lined`). A queue of blocks is flattened by a fold; what the fold does to one more block at the end
is proved by induction on the length (`FlattenAppend`). `Passed` follows the receiver on its round over the senders: it leaves only after
a round that found each of them finished and empty. `Retried`: a finished sender is looked at once more at most, so `clear` is
never reached while more than one retry is allowed. `NothingIsLeftBehind` assumes that the test of the update interval succeeds at the last heartbeat.

*List.* `SizeMatches` is inductive once it names the steps under way: the item between increment and push,
the flushed items not yet counted, the half of `clearStats` that is done. `ItemInOnePlace` counts occurrences; its invariant (`Once`)
does not: no two positions of the free stack, the current list, the lists and the batches hold the same item, none holds the one in
the producer's hand, and each item is somewhere. Moving an item is then one of four lemmas (`PopOnce`, `PushOnce`, `PourOnce`, `FreshOnce`), and
`CountedOnce` turns positions into counts at the end. `ReadsInOrder` follows from `InTurn`: the batch and, from its back, the list are
ascending, above what was read and below what the producer will send next.

*SharedPtr.* A pointer that is being given up by `delete_me` counts until its decrement, so the count is the number of
pointers that hold the object (`CountsPointers`), whatever the two steps of others do in between. A thread that loaded 1 therefore has the only
one, and since pointers are copied only from pointers, no other can appear before it deletes. The steps change
the number of holders by one at a time; lemmas about the cardinality of such sets carry that. For the leak: an object loses its
last pointer only at a decrement, and a decrement that does not delete followed a load above 1, so the count changed in between.

*Lock-free list.* The nodes of the list are what following `next` from `head` meets, which no type bounds: an invariant has to say that the links lead
nowhere else. `Timed` says that some numbering of the pushed nodes in the order of their exchanges has every link lead to a smaller number
and each pusher's nodes ascend. So following the links ends, and what holds of null and of each node whose successor it holds of, holds of every chain (`AlongLinks`, by
induction on the number). `OnlyPushed` says that no pointer leads to a node that is not pushed; `Position` what the taking thread knows at each place,
above all that in the exchange of `pop_front` its `old` is still in the list and its `desired` further down; `Lined` that what was read is before what
is in hand, and this before what is in the list. A failing exchange of `pop_front` is where nodes may be lost, and only there (`LostOnlyByRetry`).
For the refinement each successful exchange of the head is `Push`, `TakeAll` or `TakeFirst`, and all other steps leave the chain of the
head alone: writing the `next` of a node that is not pushed yet changes no chain that does not hold the node.

*Table of lists.* erase stops at the first element with its key, erased or not, so the table would keep a key if an erased element of the key came before
the live one. `LiveFirst` says that none does: insert uses the first erased element of the list, and appends only to a list without any. So a
list that is appended to holds live elements of different keys, all different from the new one, and no list gets longer than there are keys (`ListHasRoom`, by the pigeonhole
principle), which is what the counting of `StatisticsMatch` over a bounded set of positions relies on.

*Table with buckets.* `Packed` says that each area is used from its front, that no area holds a key twice (erased elements included), and that
an element in the overflow area belongs to a bucket that is full. What `findSlot` returns is then the place of the key if the area has it (`FindSlotFacts`), and
the overflow area is searched unless the bucket offers an erased element of another key: the definition of `Hidden`. With nothing hidden before and after a step, the step is one of
the set of keys. The addresses of buckets (`AreasApart`) take the remainder of the hash value by the number of buckets first, as the code does.

*Probing table.* No cell on the probe path before a key's cell is empty (`Unbroken`), and the key is in one cell only: erase leaves a mark and never an empty cell,
and insert puts the key into the first cell that may be reused only after the whole path was searched for it.

*Request counter.* `remove_old` returns only when the deque is empty, so the answer is always 0; it is right because whatever was counted is in the deque, is being counted,
or is out of the window of the call (`Remembered`). That a sum of nothing but zeros is zero takes an induction on the number of seconds (`NothingCounted`).

*Circular deque.* The values held are those of the used cells, counted around from `front` (`Held`). Four lemmas say what the calls do to this sequence (`PutLast`, `PutFirst`,
`TakeFirstCell`, `TakeLastCell`); they rest on the remainder being at most one turn (`CellIs`), on different places among the used cells being different cells (`CellsDiffer`), so
that a value put in overwrites none that is held, and on the cell before `front` beginning the same sequence one place earlier (`BackOne`).

*Composed types.* `MCTypesOK` is about the composition: whichever subject runs, each module's variables take its own steps or
none, so the composed behaviour satisfies each module's safety specification (`ComposedBehaviours`), and the type theorems apply. Only the blocking
ring needs an invariant of the composition (`ComposedInv`), since the polled subject uses the ring without it.

*Free lists.* `Leads` says of each place on the list that its link names the next free partition, not only that following the links meets the free ones:
so freeing changes the links of the neighbours alone. What a walk over memory finds is then the least run that is long enough (`FirstFit`). In `Chunk` the links are in no
order; `ChunkInv` says that the first `blocksAvailable` blocks on the chain (`NthFree`) are the free ones, each once, and that leaves the link of
the last one arbitrary, as the code does.

*Telephone numbers.* `Spaced` says that the intervals are not empty and end before the next begins, and a number is covered exactly when it was neither
marked nor handed out. Cutting a number out of its interval leaves at most two, and covers all but that number (`CutAt`).

*Message buffer.* `Frames` gives the place in the buffer where each message ends: the cells from one end to the next are a length, tag and text of that
length. `Sized` keeps the write position within the buffer. An addition that fails at its second or third part leaves a buffer that `AddMsg` cuts back to
where it was, so that the messages before it stay framed; where the buffer was given up, the pointer is null and the promise ends.

*Lists and cache.* A chain without repetitions, of which the last element, the length, and for the cache both links of every key, are those that the pointers say. A
`set` of a key that is not at the head leaves the old head without its `prev`. `stale` holds these old heads: they are never the head, and all other links are
right. Setting again the key just before an old head repairs it; setting an old head again, or evicting it from the tail, uses its missing `prev`, and there
`followed` ends the promise. Every other `set`, evictions included, keeps order and links (`UpdateStep`, `SetNewStep`).

*Hash set and map.* `Probed` is the invariant of both: no slot on the path of a key before its own is empty, and a key has one slot at most. It is stated of the empty slots and of the
slots of each key alone, and the two structures, with marks for removed entries, are instances of it.

*Picks and flips.* The two indexes of `RandomizedSet` are each other's inverse, which the exchange with the last element keeps. `FlipMatrix` maps the places below `total` one to one to the cells
that were not flipped; drawing a place moves the last one there.

*Two stacks.* For `MinStack` there is a function that says at which length each recorded minimum became one (`Recorded`): the minima fall towards the top, and each is the smallest of what was given up to
the next record. `MyQueue` holds, the one stack turned over and followed by the other, what was put in.

*Exam room.* The seats are a set. Between two neighbours the seat in the middle is farthest from both; before the first and after the last it is the seat at the wall; `findSeat` takes the best of these with the
lowest number, and no seat that it does not look at is better (`FoundIsFarthest`).

*Schedule.* `promised` is a history of what was given away, slot by slot; the differences kept are those of `promised`, so that their running sum is `promised` again (`UseIsPromised`, by
induction on the slot) and the test in `take_reservation` is about it. The walk over the slots is followed by what it has kept (`Kept`): the start of the present run, at most a stay ago, and the starts of all stays
that fitted. `KeptAfter` is one step of the walk, `WalkIs` the walk, `OffersFit` compares it with `Fits`.

*Atomic sets.* What `AtomicSet` keeps of a stream is what came after the last complete number (`AtomicInv`). Of `AtomicSet2` a round either drops numbers that some stream has passed
without sending them, or finds the next complete one (`RoundSettles`); each round drops at least one, so that after as many rounds as there are numbers the loop is over (`SizesFall`,
`MergeEnds`). What is left in its queues is behind the last number found and was passed by no stream.

*Order tiers.* The size in a tier is a sum over the orders at its price, which changes by one order at a time. `FeedInv` says that there is a function `w` from sets of orders to numbers
that adds up their sizes in whatever order (`Additive`), and that each tier has what `w` says of the orders at its price and what added-again orders left (`TierShows`), and
is there only when that is not 0. An order in the place of another changes `w` by both (`BookChanged`); `modify_order` takes the tier through the state
without the old size, from where `-= size` never goes below 0 because the order was part of the sum (`SizeIsThere`). That the sum of the specification is `w` is an induction on the number
of orders (`SumIs`), and so is that there is a highest bid (`HasLargest`).

*Two lines.* The loop is followed by what both iterators have passed: it is in the result, in order, and nothing else is (`Stands`); the gaps are then those of the numbers so far, since a
number added behind the last opens at most one (`GapOpened`).

*Docks.* The running sum of the counts is the number of loadings under way (`SumOnward`: those that start at a minute are not under way before it, those that end at it no longer), and
the largest sum is the peak (`IsPeak`).

Only model-checked, because the prover cannot do them: all liveness properties (they need fairness and
`ENABLED`), and what the recursive operators of `GraphPaths`, `Arithmetic`, `DigitNumbers`, `Forests`, `Games` and `Iterators` compute: `MCLookupsExact`, `MCExercisesRight`, `MCNumbersExact`.
Recursive functions and folds are within reach as far as `NatLessThanWellFounded` leads: a set of numbers that holds 0 and with each
number the next is all of them (lemma `Induction`), which is how the chains of the lock-free list, the flattened queues, the free lists, the rounds of the merging loops and the running sums are proved.

## 7. Where the code disagrees with its own words

* **A blocked ring may sleep for ever** (`library/RingBufferAtomic.h:41`, run
  `lost_wakeup`). `push_wait` and `pop_wait` store the index and notify without `event_lock`. If
  that falls between the other thread's test of its predicate and its sleep, nobody
  is woken. The test *atomic queue test events*, which joins a consumer that wants
  all values, can hang.
* **`clear` forgets the record counter** (`cpp11/dualBuffer.hpp:475`, run `dual_clear`).
  `dwTotalOut` is set and `dwTotalOutRec` is not, so `getQRec`, "queued rec", counts records
  that are gone, and so does the limit. The receiver never takes that path (`ClearNeverNeeded`),
  which is why no test shows it.
* **`GetNewItem` is not for several threads** (`SlistEx.h:395`, run `recycler_shared`), against
  the comment of the class: `currList` is a plain pointer, read and advanced in two steps.
* **Forks are given back and kept** (`cppcon/philosophers.cpp:149`, run `shared_forks`). After the
  first meal a fork the table calls available is still in use.

* **The overflow area hides items** (`cpp11/HashTableBucketHashing.h:88`, run `hidden_item`). Once a slot of a full bucket
  is erased, `findSlot` offers that slot and the overflow area is not searched: an item stored there is not found,
  not erased, and may be stored twice.
* **A cycle may be missed** (`library/Graph.h:101`, run `cycle_missed`). `countPaths` sets `infinite` only in the call that
  meets the cycle, and only if that node has another way to the destination. With the edges 1-2, 2-1 and 1-4 it
  tells one path; the comment promises infinitely many.
* **`Get60sCount` may not return** (`cpp11/requestCounter.cpp:31`, run `call_hangs`). The loop of `remove_old` neither removes a recent
  first entry nor leaves.

## 8. Not modelled

*Within modelled components.* `addTal4AsIs` and `processData` of the double buffer (nothing calls
them) and the restart of a test object; `PopItem`, `reset` and the statistics of the list; the
future-returning `submit` of `wrapper_executor`; the data race on the map of philosophers
while it is being filled; the hash tables' iterators and file readers; the order of bytes in a message's length;
breadth-first helpers and `courseSchedule.h`; numbers
given to `ftoa_fix` whose whole part does not fit in an `int`, to which it is converted; the iteration of `large_int` over text.
Everything printed, logged and timed is left out.

*Hazards kept out of the list* in `PROJECT.json`, which names forty, because no property here covers them:

* `thread_pool.h:48`: tasks still queued at the stop never run, and nobody who waits for one is told;
* `TaskWaiting.cpp:129`: a second `then` replaces the continuation of the first; `:181`: `wex` refers to a local of `main` that a
  chain still running would outlive;
* `SlistEx.h:107`: the comparison of 32-bit totals after 2^32 pushes; `listvslist-gc.cpp:112`: `consumer2` never recycles, so the
  producer ends up skipping every value;
* `philosophers.cpp:147`: the table's deque grows without limit;
* `DataFeed.cpp:49-50`: `display` walks the asks as far as there are bids; `SmallObject.h:64`: when no chunk has a free block the end of the
  vector is dereferenced;
* `leetcodecpp.cpp`, `ExamRoom`: seating in a full room; `LinkedList.cpp`, `MyLinkedList::get` of a negative index;
* `mathlib_primes.h:12`: `i * i` overflows for numbers near the end of the type;
* `requestCounter.cpp`: `RequestCounter2` computes a lower bound it does not use; `ReservationSystem.cpp`: a missing return;
* `MineSweeper.cpp:76`: boards that are not square are indexed wrongly; `jumpTrading.cpp:94`: the difference is
  unsigned and wraps before `range_check` sees it.

*Components left out.*

* HTTP listener: a loop around `accept` and `recv` of Windows sockets with logons to the operating system; between
  connections it keeps no state.
* Elevator: unfinished. `run` waits on a `unique_lock` that owns no mutex (line 112 declares a variable that hides the
  member), `start` joins the thread it has just started, moving down is an empty block: no behaviour is
  defined that a model could follow.
* Lock wrappers (used here as atomic critical sections), language experiments (templates, type erasure), benchmarks and build
  trials: no protocol at run time.
* Puzzle answers. `src/leetcode`, `src/HackerRank`, `src/ProjectEuler` and `src/codejam` hold several hundred answers that are one function of
  their arguments each, with the expected values beside them in tests. They share no state, no two of them
  interact, and a model of one would be the function again. The classes among them whose calls share a state are
  modelled.

The puzzle answers, the vendored `catch.hpp` (15 thousand lines) and the tests are most of the repository's lines, which is why the lines that
`map` names are a small part of all: 4.5 of 54 thousand. Of the files that carry a state or a protocol most are covered.

## 9. Plan

What is left, most important first.

1. `TaskChain` on `ThreadPool` itself instead of `TaskService`, so that one run covers both.
2. The restart of a double-buffer test (`dualBuffer.hpp:747`), and `PopItem` beside `GetItems`.
3. `courseSchedule.h` and the graph traversals, beside `GraphPaths`.

Theorems worth proving, in order:

* `NeverTripleBooked` of `MyCalendarTwo`, which is not recursive: its invariant has to say how `cal` and `overlap` cover the days;
* `SamePartition` of the union-find classes, whose `Find` ends because sizes or numbers fall towards the root.
