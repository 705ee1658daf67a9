------------------------- MODULE PhilosophersProofs -------------------------
(***************************************************************************)
(* Proofs about module Philosophers for every number of philosophers.      *)
(***************************************************************************)
EXTENDS Philosophers, FiniteSetTheorems, SequenceTheorems, TLAPS

(* Both forks of a philosopher are forks.                                  *)
LEMMA ForksOf == ASSUME NEW p \in Philos PROVE Left(p) \in Forks /\ Right(p) \in Forks
<1>1. N \in Nat \ {0} /\ p \in 0 .. N - 1
  BY PhilosophersAssumption DEF Philos
<1>2. (p + 1) % N \in 0 .. N - 1
  BY <1>1
<1>3. QED
  BY <1>1, <1>2 DEF Left, Right, Forks

(* A message that is sent to the table is one it understands.              *)
LEMMA SendType ==
  ASSUME TypeOK, NEW p \in Philos, NEW msg \in Messages, SendTable(p, msg)
  PROVE  inbox' \in Seq(Messages)
<1>1. <<>> \in Seq(Messages)
  BY EmptySeq
<1>2. QED
  BY <1>1 DEF SendTable, TypeOK

(* What a philosopher asks for and gives back.                             *)
LEMMA MessagesOf ==
  ASSUME NEW p \in Philos
  PROVE  Request(NextFork(p), p) \in Messages /\ Release(p) \in Messages
<1>1. NextFork(p) \in Forks
  BY ForksOf DEF NextFork
<1>2. QED
  BY <1>1 DEF Messages

(* The front message of the table's deque.                                 *)
LEMMA HeadMessage ==
  ASSUME TypeOK, inbox # <<>>
  PROVE  /\ Tail(inbox) \in Seq(Messages)
         /\ Head(inbox) \in Messages
         /\ Head(inbox).fork \in Forks /\ Head(inbox).philo \in Philos
<1>1. Tail(inbox) \in Seq(Messages) /\ Head(inbox) \in Messages
  BY HeadTailProperties DEF TypeOK
<1>2. \A m \in Messages : m.fork \in Forks /\ m.philo \in Philos
  BY ForksOf DEF Messages, Request, Release
<1>3. QED
  BY <1>1, <1>2
-----------------------------------------------------------------------------
(* The table and the philosophers start with the types of their variables. *)
LEMMA InitType == Init => TypeOK
<1> SUFFICES ASSUME Init PROVE TypeOK
  OBVIOUS
<1>1. inbox \in Seq(Messages) /\ mailbox \in [Philos -> Seq(Forks)]
  BY EmptySeq DEF Init
<1>2. QED
  BY <1>1 DEF Init, TypeOK

(* Every step of the table, a philosopher and the teardown keeps them.     *)
LEMMA StepType == TypeOK /\ [Next]_vars => TypeOK'
<1> SUFFICES ASSUME TypeOK, [Next]_vars PROVE TypeOK'
  OBVIOUS
<1> USE DEF TypeOK
<1>1. CASE TableLock \/ TableUnlock \/ TableExit
  BY <1>1 DEF TableLock, TableUnlock, TableExit
<1>2. CASE Grant
  <2>1. Append(mailbox[Head(inbox).philo], Head(inbox).fork) \in Seq(Forks)
    BY <1>2, HeadMessage DEF Grant
  <2>2. QED
    BY <1>2, <2>1, HeadMessage DEF Grant
<1>3. CASE Ignore
  BY <1>3, HeadMessage DEF Ignore
<1>4. CASE TakeBack
  BY <1>4, HeadMessage, ForksOf DEF TakeBack
<1>5. ASSUME NEW p \in Philos, Drain(p) PROVE TypeOK'
  <2>1. Received(p) \subseteq Forks /\ <<>> \in Seq(Forks)
    BY ForksOf, EmptySeq DEF Received
  <2>2. QED
    BY <1>5, <2>1 DEF Drain
<1>6. ASSUME NEW p \in Philos, PhiloExit(p) PROVE TypeOK'
  BY <1>6 DEF PhiloExit
<1>7. ASSUME NEW p \in Philos, RequestFork(p) PROVE TypeOK'
  BY <1>7, SendType, MessagesOf DEF RequestFork
<1>8. ASSUME NEW p \in Philos, Eat(p) PROVE TypeOK'
  BY <1>8, SendType, MessagesOf DEF Eat
<1>9. CASE DestroyTable
  BY <1>9 DEF DestroyTable
<1>10. CASE TableJoined
  BY <1>10, EmptySeq DEF TableJoined
<1>11. ASSUME NEW p \in Philos, DestroyPhilo(p) PROVE TypeOK'
  BY <1>11 DEF DestroyPhilo
<1>12. CASE PhilosJoined
  BY <1>12 DEF PhilosJoined
<1>13. CASE UNCHANGED vars
  BY <1>13 DEF vars
<1>14. QED
  BY <1>1, <1>2, <1>3, <1>4, <1>5, <1>6, <1>7, <1>8, <1>9, <1>10, <1>11,
     <1>12, <1>13 DEF Next, Table, Philosopher, Teardown, Destroyed

(* The variables keep their types for every number of philosophers         *)
(* (philosophers.cpp:35-101, :183-190, :253-255).                          *)
THEOREM TypeCorrect == Spec => []TypeOK
BY InitType, StepType, PTL DEF Spec, Safety
-----------------------------------------------------------------------------
(* A release in the table's deque comes from somebody who has eaten.       *)
ReleaseInv ==
  \A i \in 1 .. Len(inbox) : inbox[i].kind = "release" => inbox[i].philo \in eaten

(* A request in the table's deque is for a fork of its sender.             *)
RequestInv ==
  \A i \in 1 .. Len(inbox) :
    inbox[i].kind = "request" => inbox[i].philo \in Users(inbox[i].fork)

(* OneHolderBeforeMeal without counting.                                   *)
HolderInv ==
  \A f \in Forks : Users(f) \cap eaten = {} =>
    /\ f \in available => Holders(f) = {}
    /\ f \notin available => \E p \in Philos : Holders(f) = {p}

ForkInv == ReleaseInv /\ RequestInv /\ HolderInv

(* The messages that stay in the deque, and one that is added.             *)
LEMMA MessagesStep ==
  ASSUME TypeOK
  PROVE  /\ ReleaseInv /\ RequestInv /\ inbox' = inbox /\ eaten \subseteq eaten'
              => ReleaseInv' /\ RequestInv'
         /\ ReleaseInv /\ RequestInv /\ inbox # <<>> /\ inbox' = Tail(inbox)
              /\ eaten \subseteq eaten'
              => ReleaseInv' /\ RequestInv'
         /\ inbox' = <<>> => ReleaseInv' /\ RequestInv'
<1>1. inbox \in Seq(Messages) /\ Len(inbox) \in Nat
  BY LenProperties DEF TypeOK
<1>2. ASSUME ReleaseInv, RequestInv, inbox' = inbox, eaten \subseteq eaten'
      PROVE  ReleaseInv' /\ RequestInv'
  BY <1>2 DEF ReleaseInv, RequestInv, Users
<1>3. ASSUME ReleaseInv, RequestInv, inbox # <<>>, inbox' = Tail(inbox),
             eaten \subseteq eaten'
      PROVE  ReleaseInv' /\ RequestInv'
  <2>1. /\ Len(inbox') = Len(inbox) - 1
        /\ \A i \in 1 .. Len(inbox') : inbox'[i] = inbox[i + 1]
    BY <1>1, <1>3, HeadTailProperties
  <2>2. \A i \in 1 .. Len(inbox') : i + 1 \in 1 .. Len(inbox)
    BY <1>1, <2>1
  <2>3. QED
    BY <1>3, <2>1, <2>2 DEF ReleaseInv, RequestInv, Users
<1>4. ASSUME inbox' = <<>> PROVE ReleaseInv' /\ RequestInv'
  <2>1. Len(inbox') = 0
    BY <1>4
  <2>2. QED
    BY <2>1 DEF ReleaseInv, RequestInv
<1>5. QED
  BY <1>2, <1>3, <1>4

(* Sending a message that is right keeps the deque right.                  *)
LEMMA SendStep ==
  ASSUME TypeOK, ReleaseInv, RequestInv, NEW p \in Philos, NEW msg \in Messages,
         SendTable(p, msg), eaten \subseteq eaten',
         msg.kind = "release" => msg.philo \in eaten',
         msg.kind = "request" => msg.philo \in Users(msg.fork)
  PROVE  ReleaseInv' /\ RequestInv'
<1>1. inbox \in Seq(Messages) /\ Len(inbox) \in Nat
  BY LenProperties DEF TypeOK
<1>2. CASE inbox' = Append(inbox, msg)
  <2>1. /\ Len(inbox') = Len(inbox) + 1
        /\ \A i \in 1 .. Len(inbox) : inbox'[i] = inbox[i]
        /\ inbox'[Len(inbox) + 1] = msg
    BY <1>1, <1>2
  <2>2. \A i \in 1 .. Len(inbox') : i \in 1 .. Len(inbox) \/ i = Len(inbox) + 1
    BY <1>1, <2>1
  <2>3. QED
    BY <2>1, <2>2 DEF ReleaseInv, RequestInv, Users
<1>3. CASE inbox' = <<>>
  BY <1>3, MessagesStep
<1>4. QED
  BY <1>2, <1>3 DEF SendTable

(* Every step keeps each fork in one place until the first meal.           *)
LEMMA ForkStep == TypeOK /\ TypeOK' /\ ForkInv /\ [Next]_vars => ForkInv'
<1> SUFFICES ASSUME TypeOK, TypeOK', ForkInv, [Next]_vars PROVE ForkInv'
  OBVIOUS
<1>1. inbox # <<>> =>
        /\ Head(inbox) = inbox[1] /\ 1 \in 1 .. Len(inbox)
        /\ Head(inbox).fork \in Forks /\ Head(inbox).philo \in Philos
  BY HeadMessage, EmptySeq, LenProperties DEF TypeOK
<1>2. ASSUME UNCHANGED <<mailbox, available, acquired>>, eaten \subseteq eaten'
      PROVE  HolderInv'
  BY <1>2 DEF ForkInv, HolderInv, Holders, Received, Users
<1>3. CASE TableLock \/ TableUnlock \/ TableExit
  BY <1>2, <1>3, MessagesStep DEF TableLock, TableUnlock, TableExit, ForkInv
<1>4. CASE Grant
  <2>0. PICK f \in Forks, p \in Philos : Head(inbox).fork = f /\ Head(inbox).philo = p
    BY <1>1, <1>4 DEF Grant
  <2>1. /\ f \in Forks /\ p \in Philos /\ f \in available /\ inbox # <<>>
        /\ available' = available \ {f}
        /\ mailbox' = [mailbox EXCEPT ![p] = Append(@, f)]
        /\ UNCHANGED <<acquired, eaten>>
        /\ inbox' = Tail(inbox)
    BY <1>4, <2>0 DEF Grant
  <2>2. p \in Users(f)
    BY <1>1, <1>4, <2>0 DEF Grant, ForkInv, RequestInv
  <2>3. mailbox[p] \in Seq(Forks)
    BY <2>1 DEF TypeOK
  <2>4. Received(p)' = Received(p) \cup {f}
    <3>1. /\ Len(mailbox'[p]) = Len(mailbox[p]) + 1 /\ Len(mailbox[p]) \in Nat
          /\ \A i \in 1 .. Len(mailbox[p]) : mailbox'[p][i] = mailbox[p][i]
          /\ mailbox'[p][Len(mailbox[p]) + 1] = f
      BY <2>1, <2>3 DEF TypeOK
    <3>2. f \in {Left(p), Right(p)}
      BY <2>2 DEF Users
    <3>3. \A i \in 1 .. Len(mailbox'[p]) :
            i \in 1 .. Len(mailbox[p]) \/ i = Len(mailbox[p]) + 1
      BY <3>1
    <3>4. /\ 1 .. Len(mailbox[p]) \subseteq 1 .. Len(mailbox'[p])
          /\ Len(mailbox[p]) + 1 \in 1 .. Len(mailbox'[p])
      BY <3>1
    <3>5. {mailbox'[p][i] : i \in 1 .. Len(mailbox'[p])}
            = {mailbox[p][i] : i \in 1 .. Len(mailbox[p])} \cup {f}
      BY <3>1, <3>3, <3>4
    <3>6. QED
      BY <3>2, <3>5 DEF Received, Left, Right
  <2>5. ASSUME NEW q \in Philos, q # p PROVE Received(q)' = Received(q)
    <3>1. mailbox'[q] = mailbox[q]
      BY <2>1, <2>5 DEF TypeOK
    <3>2. QED
      BY <3>1 DEF Received, Left, Right
  <2>6. \A g \in Forks : Holders(g)' = IF g = f THEN Holders(g) \cup {p} ELSE Holders(g)
    BY <2>1, <2>4, <2>5 DEF Holders
  <2>7. HolderInv'
    BY <2>1, <2>6 DEF ForkInv, HolderInv, Users
  <2>8. QED
    BY <2>1, <2>7, MessagesStep DEF ForkInv
<1>5. CASE Ignore
  BY <1>2, <1>5, MessagesStep DEF Ignore, ForkInv
<1>6. CASE TakeBack
  <2>0. PICK p \in Philos : Head(inbox).philo = p
    BY <1>1, <1>6 DEF TakeBack
  <2>1. /\ p \in eaten /\ p \in Philos /\ inbox # <<>>
        /\ available' = available \cup {Left(p), Right(p)}
        /\ UNCHANGED <<mailbox, acquired, eaten>>
        /\ inbox' = Tail(inbox)
    BY <1>1, <1>6, <2>0 DEF TakeBack, ForkInv, ReleaseInv
  <2>2. \A f \in Forks : Users(f) \cap eaten = {} => f \notin {Left(p), Right(p)}
    BY <2>1 DEF Users
  <2>3. HolderInv'
    BY <2>1, <2>2 DEF ForkInv, HolderInv, Holders, Received, Users
  <2>4. QED
    BY <2>1, <2>3, MessagesStep DEF ForkInv
<1>7. ASSUME NEW p \in Philos, Drain(p) PROVE ForkInv'
  <2>1. /\ acquired' = [acquired EXCEPT ![p] = @ \cup Received(p)]
        /\ mailbox' = [mailbox EXCEPT ![p] = <<>>]
        /\ UNCHANGED <<inbox, available, eaten>>
    BY <1>7 DEF Drain
  <2>2. Received(p)' = {}
    <3>1. Len(mailbox'[p]) = 0
      BY <2>1 DEF TypeOK
    <3>2. QED
      BY <3>1 DEF Received
  <2>3. \A q \in Philos : q # p => Received(q)' = Received(q)
    BY <2>1 DEF Received, TypeOK
  <2>4. \A q \in Philos :
          acquired'[q] = IF q = p THEN acquired[q] \cup Received(q) ELSE acquired[q]
    BY <2>1 DEF TypeOK
  <2>5. \A q \in Philos : acquired'[q] \cup Received(q)' = acquired[q] \cup Received(q)
    BY <2>2, <2>3, <2>4
  <2>6. \A f \in Forks : Holders(f)' = Holders(f)
    BY <2>5 DEF Holders
  <2>7. HolderInv'
    BY <2>1, <2>6 DEF ForkInv, HolderInv, Users
  <2>8. QED
    BY <2>1, <2>7, MessagesStep DEF ForkInv
<1>8. ASSUME NEW p \in Philos, PhiloExit(p) PROVE ForkInv'
  BY <1>2, <1>8, MessagesStep DEF PhiloExit, ForkInv
<1>9. ASSUME NEW p \in Philos, RequestFork(p) PROVE ForkInv'
  <2>1. /\ SendTable(p, Request(NextFork(p), p))
        /\ UNCHANGED <<mailbox, available, acquired, eaten>>
    BY <1>9 DEF RequestFork
  <2>2. p \in Users(NextFork(p))
    BY DEF NextFork, Users
  <2>3. ReleaseInv' /\ RequestInv'
    BY <2>1, <2>2, MessagesOf, SendStep DEF Request, ForkInv
  <2>4. QED
    BY <1>2, <2>1, <2>3 DEF ForkInv
<1>10. ASSUME NEW p \in Philos, Eat(p) PROVE ForkInv'
  <2>1. /\ SendTable(p, Release(p)) /\ eaten' = eaten \cup {p}
        /\ UNCHANGED <<mailbox, available, acquired>>
    BY <1>10 DEF Eat
  <2>2. ReleaseInv' /\ RequestInv'
    BY <2>1, MessagesOf, SendStep DEF Release, ForkInv
  <2>3. QED
    BY <1>2, <2>1, <2>2 DEF ForkInv
<1>11. CASE DestroyTable \/ PhilosJoined
  BY <1>2, <1>11, MessagesStep DEF DestroyTable, PhilosJoined, ForkInv
<1>12. CASE TableJoined
  BY <1>2, <1>12, MessagesStep DEF TableJoined, ForkInv
<1>13. ASSUME NEW p \in Philos, DestroyPhilo(p) PROVE ForkInv'
  BY <1>2, <1>13, MessagesStep DEF DestroyPhilo, ForkInv
<1>14. CASE UNCHANGED vars
  BY <1>2, <1>14, MessagesStep DEF vars, ForkInv
<1>15. QED
  BY <1>3, <1>4, <1>5, <1>6, <1>7, <1>8, <1>9, <1>10, <1>11, <1>12, <1>13,
     <1>14 DEF Next, Table, Philosopher, Teardown, Destroyed

(* Whatever requests are ignored, repeated or crossed by a grant, a fork   *)
(* has one holder until one of its two users has eaten                     *)
(* (philosophers.cpp:208-214, :125-141).                                   *)
THEOREM OneHolder == Spec => []OneHolderBeforeMeal
<1>1. Init => ForkInv
  <2> SUFFICES ASSUME Init PROVE ForkInv
    OBVIOUS
  <2>1. Len(inbox) = 0 /\ \A p \in Philos : Len(mailbox[p]) = 0
    BY DEF Init
  <2>2. \A f \in Forks : Holders(f) = {}
    BY <2>1 DEF Init, Holders, Received
  <2>3. QED
    BY <2>1, <2>2 DEF Init, ForkInv, ReleaseInv, RequestInv, HolderInv
<1>2. ForkInv => OneHolderBeforeMeal
  BY FS_EmptySet, FS_Singleton DEF ForkInv, HolderInv, OneHolderBeforeMeal
<1>3. QED
  BY <1>1, <1>2, ForkStep, TypeCorrect, PTL DEF Spec, Safety
=============================================================================
