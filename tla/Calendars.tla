------------------------------ MODULE Calendars -----------------------------
(***************************************************************************)
(* Who may have which time or place: the tables of a restaurant, a calendar *)
(* that may be booked twice, the seats of an exam room.                    *)
(***************************************************************************)
EXTENDS Integers, Sequences, FiniteSets, FiniteSetsExt, SequencesExt

-----------------------------------------------------------------------------
(***************************************************************************)
(* Schedule (src/cpp11/ReservationSystem.cpp): the tables of a restaurant  *)
(* on one day, kept as differences between quarters of an hour.            *)
(***************************************************************************)

CONSTANTS
  Guests,              (* the user names                                   *)
  People,              (* the party sizes asked for                        *)
  open_time, Minutes,  (* when it opens, and the times asked for           *)
  NumSlots,            (* schedule.size()                                  *)
  Stay, Reach,         (* 6 slots of a visit, 8 slots around a wish        *)
  tables, persons_per_table

ASSUME ScheduleAssumption ==
  /\ {tables, persons_per_table} \subseteq Nat \ {0} /\ Stay \in Nat \ {0, 1}
  /\ NumSlots \in Nat /\ Stay < NumSlots /\ Reach \in Nat
  /\ Minutes \subseteq Nat /\ People \subseteq Nat \ {0} /\ open_time \in Nat

VARIABLES
  schedule,            (* tables taken minus tables given back, per slot   *)
  reservations,        (* what each guest has, {} for nothing              *)
  promised             (* history: tables promised to guests in each slot  *)

scheduleVars == <<schedule, reservations, promised>>

DaySlots == 0 .. NumSlots - 1

ScheduleInit ==
  /\ schedule = [s \in DaySlots |-> 0]
  /\ reservations = [g \in Guests |-> {}]
  /\ promised = [s \in DaySlots |-> 0]
-----------------------------------------------------------------------------
TimeToSlot(min) == IF min < open_time THEN 0 ELSE (min - open_time) \div 15

TablesFor(people) == (people + persons_per_table - 1) \div persons_per_table

(* The running sum: tables in use in slot s. *)
InUse(s) ==
  LET sum[i \in 0 .. s] == IF i = 0 THEN schedule[0] ELSE sum[i - 1] + schedule[i]
  IN sum[s]

(* Mutant: the last slot of the visit is not looked at. *)
FitsShort(slot, people) ==
  /\ slot + Stay < NumSlots
  /\ \A i \in slot .. slot + Stay - 2 : InUse(i) + TablesFor(people) <= tables

(* take_reservation: the tests it makes *)
Fits(slot, people) ==
  /\ slot + Stay < NumSlots
  /\ \A i \in slot .. slot + Stay - 1 : InUse(i) + TablesFor(people) <= tables

(* take_reservation, when it returns true; the guest's earlier reservation *)
(* is forgotten, its tables are not                                        *)
TakeReservation(g, min, people) ==
  /\ Fits(TimeToSlot(min), people)
  /\ LET slot == TimeToSlot(min)
     IN /\ schedule' = [schedule EXCEPT ![slot] = @ + TablesFor(people),
                                        ![slot + Stay] = @ - TablesFor(people)]
        /\ promised' = [s \in DaySlots |->
                         IF s \in slot .. slot + Stay - 1 THEN promised[s] + TablesFor(people)
                         ELSE promised[s]]
  /\ reservations' = [reservations EXCEPT ![g] =
                        {[start_time |-> min, people |-> people, checkedIn |-> FALSE]}]

(* checkin, of a guest who has a reservation *)
Checkin(g) ==
  /\ reservations[g] # {}
  /\ reservations' = [reservations EXCEPT ![g] = {[r EXCEPT !.checkedIn = TRUE] : r \in @}]
  /\ UNCHANGED <<schedule, promised>>

MaxOf(a, b) == IF a > b THEN a ELSE b
MinOf(a, b) == IF a < b THEN a ELSE b

(* alternate_reservation_within_2hr: one walk over the slots, which keeps  *)
(* the first of the slots that fit without a break                         *)
Alternates(min, people) ==
  LET slot == TimeToSlot(min)
      from == MaxOf(0, slot - Reach)
      to == MinOf(NumSlots - 1, slot + Reach + Stay)
      good(i) == InUse(i) + TablesFor(people) <= tables
      Step[i \in from - 1 .. MaxOf(from, to) - 1] ==
        IF i < from THEN [start |-> -1, found |-> {}]
        ELSE LET before == Step[i - 1]
             IN IF ~good(i) THEN [before EXCEPT !.start = -1]
                ELSE IF before.start < 0 THEN [before EXCEPT !.start = i]
                ELSE IF i - before.start = Stay - 1
                     THEN [start |-> before.start + 1, found |-> before.found \cup {before.start}]
                ELSE before
  IN Step[MaxOf(from, to) - 1].found

ScheduleNext ==
  \E g \in Guests :
    \/ Checkin(g)
    \/ \E min \in Minutes, people \in People : TakeReservation(g, min, people)

ScheduleSpec == ScheduleInit /\ [][ScheduleNext]_scheduleVars
-----------------------------------------------------------------------------
(* At no time are more tables promised than there are, and the running sum *)
(* of the differences is the number promised, back to 0 at the end of the  *)
(* day (ReservationSystem.cpp:42-59).                                      *)
NeverOverbooked ==
  /\ \A s \in DaySlots : InUse(s) = promised[s] /\ promised[s] <= tables
  /\ InUse(NumSlots - 1) = 0

(* The times offered are those near the wish at which the reservation      *)
(* would be taken: none that would be refused, and none is left out        *)
(* (ReservationSystem.cpp:61-86).                                          *)
OffersWhatFits ==
  \A min \in Minutes, people \in People :
    Alternates(min, people) =
      {s \in DaySlots : Fits(s, people) /\ s - TimeToSlot(min) \in -Reach .. Reach}

-----------------------------------------------------------------------------
(***************************************************************************)
(* MyCalendarTwo and ExamRoom of src/leetcode/leetcodecpp.cpp.  A calendar *)
(* is a set of intervals <<start, end>> that do not overlap: its less<>    *)
(* makes overlapping intervals equal, so that the set refuses them.        *)
(***************************************************************************)

CONSTANTS
  LastDay,     (* bounds the intervals: 0 <= start < end <= LastDay        *)
  seats,       (* N of the exam room                                       *)
  MaxBookings  (* bounds the bookings                                      *)

ASSUME BookingAssumption == LastDay \in Nat /\ seats \in Nat \ {0} /\ MaxBookings \in Nat

VARIABLES
  cal, overlap,  (* of MyCalendarTwo                                       *)
  cover,         (* how many of the bookings it took contain each day      *)
  bookings,      (* how many it took                                       *)
  seating        (* of ExamRoom                                            *)

calendarVars == <<cal, overlap, cover, bookings>>

CalendarInit ==
  cal = {} /\ overlap = {} /\ cover = [d \in 0 .. LastDay - 1 |-> 0] /\ bookings = 0

(* std::less<MyPair>, and what it makes equal. *)
Earlier(p, q) == p[2] <= q[1]
Meets(p, q) == ~Earlier(p, q) /\ ~Earlier(q, p)

(* emplace and insert: an interval equal to one in the set is dropped. *)
Emplaced(p, set) == IF \E q \in set : Meets(p, q) THEN set ELSE set \cup {p}

(* intersect, of intervals that meet: what is in both, and the parts in    *)
(* only one of them, from left to right.  p is the one that ends first.    *)
Intersect(a, b) ==
  LET p == IF b[2] < a[2] THEN b ELSE a
      q == IF b[2] < a[2] THEN a ELSE b
      left == IF p[1] = q[1] THEN <<>>
              ELSE << <<Min({p[1], q[1]}), Max({p[1], q[1]})>> >>
      right == IF p[2] = q[2] THEN <<>> ELSE << <<p[2], q[2]>> >>
  IN [both |-> <<Max({p[1], q[1]}), p[2]>>, parts |-> left \o right]

(* book, when it returns true: equal_range finds the intervals new meets.  *)
Book(new) ==
  LET found == SetToSortSeq({p \in cal : Meets(p, new)}, Earlier)
      parts == FlattenSeq([i \in DOMAIN found |-> Intersect(found[i], new).parts])
  IN /\ bookings < MaxBookings
     /\ ~\E p \in overlap : Meets(p, new)
     /\ IF found = <<>> THEN cal' = Emplaced(new, cal) /\ UNCHANGED overlap
        ELSE /\ overlap' = FoldLeft(LAMBDA set, p : Emplaced(Intersect(p, new).both, set),
                                    overlap, found)
             /\ cal' = FoldLeft(LAMBDA set, p : Emplaced(p, set), cal \ ToSet(found), parts)
     /\ cover' = [d \in DOMAIN cover |->
                    IF new[1] <= d /\ d < new[2] THEN cover[d] + 1 ELSE cover[d]]
     /\ bookings' = bookings + 1

CalendarNext ==
  \E start \in 0 .. LastDay - 1 : \E end \in start + 1 .. LastDay : Book(<<start, end>>)
-----------------------------------------------------------------------------
RoomInit == seating = {}

(* The seats in the middle of two taken ones that follow each other, with  *)
(* their distance.                                                         *)
Middles ==
  LET middle(s, t) == [pos |-> s + (t - s) \div 2, dist |-> (t - s) \div 2]
  IN {middle(p[1], p[2]) : p \in {q \in seating \X seating :
        q[1] < q[2] /\ \A u \in seating : u <= q[1] \/ q[2] <= u}}

(* What the loop of findSeat replaces best by.  It keeps the one that none *)
(* is better than, whatever their order.                                   *)
Better(m, best) == m.dist > best.dist \/ (m.dist = best.dist /\ m.pos < best.pos)

FindSeat ==
  LET atLeft == [pos |-> 0, dist |-> Min(seating)]
      right == seats - 1 - Max(seating)
      atEnd == IF right > atLeft.dist THEN [pos |-> seats - 1, dist |-> right] ELSE atLeft
      places == {atEnd} \cup Middles
  IN (CHOOSE best \in places : \A m \in places : ~Better(m, best)).pos

SeatOne == seating' = seating \cup {IF seating = {} THEN 0 ELSE FindSeat}
Leave(p) == seating' = seating \ {p}

RoomNext == SeatOne \/ \E p \in seating : Leave(p)

RoomSpec == RoomInit /\ [][RoomNext]_seating
-----------------------------------------------------------------------------
(* No day is in more than two of the bookings that book took, and overlap  *)
(* is exactly the days that are in two, so that book refuses nothing else  *)
(* (leetcodecpp.cpp:1739-1785).                                            *)
NeverTripleBooked ==
  \A d \in DOMAIN cover :
    /\ cover[d] <= 2
    /\ (cover[d] = 2) = (\E p \in overlap : p[1] <= d /\ d < p[2])

(* While a seat is free, who comes sits as far from the nearest other as   *)
(* anyone can, on the lowest such seat (leetcodecpp.cpp:2150, 2154-2175).  *)
SitsFarthest ==
  [][\A p \in seating' \ seating :
       LET far(s) == Min({IF s < t THEN t - s ELSE s - t : t \in seating})
       IN /\ seating # {} =>
               \A s \in 0 .. seats - 1 : far(s) < far(p) \/ (far(s) = far(p) /\ p <= s)
          /\ seating = {} => p = 0]_seating
=============================================================================
