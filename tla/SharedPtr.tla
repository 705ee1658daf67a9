------------------------------ MODULE SharedPtr ------------------------------
(***************************************************************************)
(* SharedPtr (src/cpp11/SharedPtr.cpp): pointers that count each other in  *)
(* an atomic Ref::count.  A SharedPtr belongs to one thread; the objects   *)
(* and their counters are shared.  delete_me loads the count in one step   *)
(* and acts on it in another.                                              *)
(***************************************************************************)
EXTENDS Integers, FiniteSets

CONSTANTS
  Holders,     (* the threads                                              *)
  Pointers,    (* the SharedPtr variables                                  *)
  OwnerOf,     (* the thread a SharedPtr belongs to                        *)
  Objects,     (* what "new" may return                                    *)
  First,       (* the object the threads share from the start              *)
  NoObject     (* nullptr                                                  *)

ASSUME SharedAssumption ==
  /\ Holders # {} /\ IsFiniteSet(Pointers) /\ OwnerOf \in [Pointers -> Holders]
  /\ First \in Objects /\ NoObject \notin Objects

VARIABLES
  naked,       (* SharedPtr::naked; counter is null exactly when it is     *)
  count,       (* Ref::count of the counter of each object                 *)
  created,     (* the objects allocated so far                             *)
  deletes,     (* how often each object, with its counter, was deleted     *)
  doing,       (* what each thread is in the middle of                     *)
  stale        (* the objects whose count was decremented after it had     *)
               (* changed since delete_me loaded it                        *)

sharedVars == <<naked, count, created, deletes, doing, stale>>

(* A thread not inside delete_me, and one inside: which pointer, the count *)
(* it loaded, and where the pointer gets its next value from.              *)
Idle == [p |-> NoObject, seen |-> 0, how |-> "none", from |-> NoObject]
Kinds == {"end", "copy", "move"}

Of(t) == {p \in Pointers : OwnerOf[p] = t}
HoldersOf(o) == {p \in Pointers : naked[p] = o}

(* Every thread was given pointers to one object before it started. *)
SharedInit ==
  /\ naked \in [Pointers -> {First, NoObject}]
  /\ \A t \in Holders : \E p \in Of(t) : naked[p] = First
  /\ count = [o \in Objects |-> Cardinality(HoldersOf(o))]
  /\ created = {First}
  /\ deletes = [o \in Objects |-> 0]
  /\ doing = [t \in Holders |-> Idle]
  /\ stale = {}
-----------------------------------------------------------------------------
(* delete_me has been called on p, whose next value comes from g. *)
Begin(p, how, g) ==
  /\ doing[OwnerOf[p]] = Idle
  /\ doing' = [doing EXCEPT ![OwnerOf[p]] =
                 [p |-> p, how |-> how, from |-> g,
                  seen |-> IF naked[p] = NoObject THEN 0 ELSE count[naked[p]]]]
  /\ UNCHANGED <<naked, count, created, deletes, stale>>

(* ~SharedPtr *)
Destroy(p) == naked[p] # NoObject /\ Begin(p, "end", p)

(* operator=(const SharedPtr&): self, or the same pointer, does nothing *)
CopyAssign(p, g) ==
  /\ p # g /\ naked[p] # naked[g]
  /\ Begin(p, "copy", g)

(* operator=(SharedPtr&&), two different pointers *)
MoveAssign(p, g) ==
  /\ p # g /\ naked[p] # naked[g]
  /\ Begin(p, "move", g)

(* SharedPtr(T* data): a pointer that is null is made anew, with a new Ref(1) *)
Construct(p) ==
  /\ doing[OwnerOf[p]] = Idle
  /\ naked[p] = NoObject
  /\ \E o \in Objects \ created :
       /\ created' = created \cup {o}
       /\ naked' = [naked EXCEPT ![p] = o]
       /\ count' = [count EXCEPT ![o] = 1]
  /\ UNCHANGED <<deletes, doing, stale>>

(* Mutant: the count stays. *)
MoveSameKeeps(p, g) ==
  /\ doing[OwnerOf[p]] = Idle
  /\ p # g /\ naked[p] = naked[g] /\ naked[p] # NoObject
  /\ naked' = [naked EXCEPT ![g] = NoObject]
  /\ UNCHANGED <<count, created, deletes, doing, stale>>

(* operator=(SharedPtr&&), the same pointer: one of the two is given up *)
MoveSame(p, g) ==
  /\ doing[OwnerOf[p]] = Idle
  /\ p # g /\ naked[p] = naked[g] /\ naked[p] # NoObject
  /\ count' = [count EXCEPT ![naked[p]] = @ - 1]
  /\ naked' = [naked EXCEPT ![g] = NoObject]
  /\ UNCHANGED <<created, deletes, doing, stale>>
-----------------------------------------------------------------------------
(* The second half of delete_me in thread t: the loaded count was 1, or    *)
(* not; p is null after it.                                                *)

Emptied(t) ==
  /\ naked' = [naked EXCEPT ![doing[t].p] = NoObject]
  /\ doing' = [doing EXCEPT ![t].seen = 0]
  /\ UNCHANGED created

(* Mutant: delete_me deletes while two are left. *)
DeleteAtTwo(t) ==
  /\ doing[t].seen \in {1, 2}
  /\ deletes' = [deletes EXCEPT ![naked[doing[t].p]] = @ + 1]
  /\ Emptied(t)
  /\ UNCHANGED <<count, stale>>

Delete(t) ==
  /\ doing[t].seen = 1
  /\ deletes' = [deletes EXCEPT ![naked[doing[t].p]] = @ + 1]
  /\ Emptied(t)
  /\ UNCHANGED <<count, stale>>

Decrement(t) ==
  /\ doing[t].seen > 1
  /\ LET o == naked[doing[t].p]
     IN /\ count' = [count EXCEPT ![o] = @ - 1]
        /\ stale' = IF count[o] = doing[t].seen THEN stale ELSE stale \cup {o}
  /\ Emptied(t)
  /\ UNCHANGED deletes

(* What follows delete_me.  The pointers it copies or moves from are the   *)
(* same thread's.                                                          *)

Done(t) ==
  /\ doing[t].how # "none" /\ doing[t].seen = 0
  /\ doing' = [doing EXCEPT ![t] = Idle]
  /\ UNCHANGED <<deletes, stale>>

Destroyed(t) ==
  /\ doing[t].how = "end" /\ Done(t)
  /\ UNCHANGED <<naked, count, created>>

(* copy *)
Copied(t) ==
  /\ doing[t].how = "copy" /\ Done(t)
  /\ LET o == naked[doing[t].from]
     IN /\ naked' = [naked EXCEPT ![doing[t].p] = o]
        /\ count' = IF o = NoObject THEN count ELSE [count EXCEPT ![o] = @ + 1]
  /\ UNCHANGED created

(* naked and counter are taken over, and other is emptied *)
Moved(t) ==
  /\ doing[t].how = "move" /\ Done(t)
  /\ naked' = [naked EXCEPT ![doing[t].p] = naked[doing[t].from],
                            ![doing[t].from] = NoObject]
  /\ UNCHANGED <<count, created>>

Operation(p) ==
  \/ Destroy(p) \/ Construct(p)
  \/ \E g \in Of(OwnerOf[p]) : CopyAssign(p, g) \/ MoveAssign(p, g) \/ MoveSame(p, g)

Continue(t) ==
  Delete(t) \/ Decrement(t) \/ Destroyed(t) \/ Copied(t) \/ Moved(t)

SharedNext == (\E p \in Pointers : Operation(p)) \/ (\E t \in Holders : Continue(t))

(* Every pointer is null and nothing is left to allocate. *)
SharedDone ==
  /\ created = Objects /\ \A p \in Pointers : naked[p] = NoObject
  /\ \A t \in Holders : doing[t] = Idle
  /\ UNCHANGED sharedVars

SharedSpec == SharedInit /\ [][SharedNext \/ SharedDone]_sharedVars
-----------------------------------------------------------------------------
(* The shape of the state (SharedPtr.cpp:7-13).                            *)
SharedTypeOK ==
  /\ naked \in [Pointers -> Objects \cup {NoObject}]
  /\ count \in [Objects -> 0 .. Cardinality(Pointers)]
  /\ created \subseteq Objects /\ stale \subseteq Objects
  /\ deletes \in [Objects -> 0 .. 1]
  /\ \A t \in Holders :
       \/ doing[t] = Idle
       \/ /\ doing[t].p \in Of(t) /\ doing[t].from \in Of(t)
          /\ doing[t].how \in Kinds /\ doing[t].seen \in 0 .. Cardinality(Pointers)

(* The count of an object that is not deleted is the number of pointers to *)
(* it, whatever the threads are in the middle of.                          *)
CountsPointers ==
  \A o \in created : deletes[o] = 0 => count[o] = Cardinality(HoldersOf(o))

(* An object is deleted once, and only when nobody has a pointer to it:    *)
(* the load and the decrement of delete_me are two steps, but a thread     *)
(* that loads 1 is the only one left (SharedPtr.cpp:81-92).                *)
NotDeletedInUse ==
  \A o \in Objects : deletes[o] > 0 => deletes[o] = 1 /\ HoldersOf(o) = {}

(* An object nobody points to has been deleted, unless two delete_me       *)
(* overlapped: both load a count above 1, both decrement, none deletes.    *)
LeaksOnlyByOverlap ==
  \A o \in created : HoldersOf(o) = {} /\ deletes[o] = 0 => o \in stale
=============================================================================
