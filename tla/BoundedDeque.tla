---------------------------- MODULE BoundedDeque -----------------------------
(***************************************************************************)
(* What MyCircularDeque promises (src/leetcode/CircularDataStruct.cpp): a  *)
(* sequence of at most Room values, changed at either end, and what the    *)
(* two ends are (shown).                                                   *)
(***************************************************************************)
EXTENDS Integers, Sequences

CONSTANTS DequeValues, Room, Nothing

VARIABLES items, shown

dequeVars == <<items, shown>>

Ends(s) == IF s = <<>> THEN <<Nothing, Nothing>> ELSE <<s[1], s[Len(s)]>>

DequeInit == items = <<>> /\ shown = Ends(<<>>)

Becomes(s) == items' = s /\ shown' = Ends(s)

InsertEither ==
  \E v \in DequeValues :
    Len(items) < Room /\ (Becomes(<<v>> \o items) \/ Becomes(Append(items, v)))

DeleteEither ==
  /\ items # <<>>
  /\ Becomes(Tail(items)) \/ Becomes(SubSeq(items, 1, Len(items) - 1))

DequeSpec == DequeInit /\ [][InsertEither \/ DeleteEither]_dequeVars
=============================================================================
