--------------------------- MODULE RequestCounter ----------------------------
(***************************************************************************)
(* RequestCounter and RequestCounter2 (src/cpp11/requestCounter.cpp), to   *)
(* tell how many requests came in the last Window seconds, with the same   *)
(* calls at the same times.                                                *)
(***************************************************************************)
EXTENDS Integers, Sequences, FiniteSets, FiniteSetsExt

CONSTANTS
  Window,          (* 60                                                   *)
  LastSecond,      (* bound: the clock                                     *)
  PerSecond        (* bound: the requests in one second                    *)

ASSUME CounterAssumption == {Window, LastSecond, PerSecond} \subseteq Nat

VARIABLES
  now,             (* now_in_seconds()                                     *)
  counts,          (* the deque of RequestCounter: a time and a count each *)
  in,              (* the call RequestCounter is in, and its time          *)
  counted,         (* the map of RequestCounter2                           *)
  answers          (* the last answers of both to one question, and the    *)
                   (* right one at the time it was asked                   *)

counterVars == <<now, counts, in, counted, answers>>

Out == [call |-> "none", time |-> 0]

CounterInit ==
  /\ now = 0 /\ counts = <<>> /\ in = Out
  /\ counted = [t \in 0 .. LastSecond |-> 0]
  /\ answers = [first |-> 0, second |-> 0, right |-> 0]
-----------------------------------------------------------------------------
Tick == now < LastSecond /\ now' = now + 1 /\ UNCHANGED <<counts, in, counted, answers>>

CountedSince(time) ==
  MapThenSumSet(LAMBDA t : counted[t], {t \in 0 .. LastSecond : t >= time - Window})

(* RequestCounter2::Get60sCount adds up all of its map: the lower bound it *)
(* looks up is not used.                                                   *)
CountedAll == MapThenSumSet(LAMBDA t : counted[t], 0 .. LastSecond)

(* Increment and Get60sCount of the second counter, and the first one's    *)
(* call of remove_old.                                                     *)
Call(what) ==
  /\ in = Out
  /\ what = "increment" => counted[now] < PerSecond
  /\ in' = [call |-> what, time |-> now]
  /\ counted' = IF what = "increment" THEN [counted EXCEPT ![now] = @ + 1] ELSE counted
  /\ answers' = IF what = "get"
                  THEN [first |-> -1, second |-> CountedAll, right |-> CountedSince(now)]
                  ELSE answers
  /\ UNCHANGED <<now, counts>>

(* Mutant: a second too early. *)
OldAt(second) == second.time + Window <= in.time

(* The front of the deque is out of the window. *)
Old(second) == second.time + Window < in.time

(* remove_old: pop_front *)
RemoveOld ==
  /\ in # Out /\ counts # <<>> /\ Old(Head(counts))
  /\ counts' = Tail(counts)
  /\ UNCHANGED <<now, in, counted, answers>>

(* remove_old: the loop goes on as long as the deque is not empty, also    *)
(* when there is nothing to remove                                         *)
Spin == in # Out /\ counts # <<>> /\ ~Old(Head(counts)) /\ UNCHANGED counterVars

(* Increment, after remove_old, which returns only when the deque is empty *)
Increment ==
  /\ in.call = "increment" /\ counts = <<>>
  /\ counts' = <<[time |-> in.time, count |-> 1]>>
  /\ in' = Out
  /\ UNCHANGED <<now, counted, answers>>

(* Get60sCount *)
Get60sCount ==
  /\ in.call = "get" /\ counts = <<>>
  /\ answers' = [answers EXCEPT !.first = 0]
  /\ in' = Out
  /\ UNCHANGED <<now, counts, counted>>

CounterNext ==
  \/ Tick \/ RemoveOld \/ Spin \/ Increment \/ Get60sCount
  \/ \E what \in {"increment", "get"} : Call(what)

CounterSpec ==
  /\ CounterInit /\ [][CounterNext]_counterVars
  /\ WF_counterVars(RemoveOld \/ Spin \/ Increment \/ Get60sCount)
-----------------------------------------------------------------------------
(* When RequestCounter answers its answer is right: the seconds it removed *)
(* are out of the window, and what is in the window it never forgets       *)
(* (requestCounter.cpp:29-35, :47-50).                                     *)
FirstIsExact == answers.first # -1 => answers.first = answers.right

(* Each of its calls returns ("get request count for last 60s",            *)
(* requestCounter.cpp:25): with a second of the window at the front of the *)
(* deque remove_old does not.                                              *)
CallsReturn == in # Out ~> in = Out
=============================================================================
