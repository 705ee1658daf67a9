---------------------------- MODULE MessageQueue -----------------------------
(***************************************************************************)
(* What CDynMsg (src/cpp11/DynMsg.h) is for: messages leave in the order   *)
(* they came, whole; a message there is no room for changes nothing.       *)
(***************************************************************************)
EXTENDS Naturals, Sequences

CONSTANT Bodies

VARIABLE queue

Added(q) == {Append(q, m) : m \in Bodies}
Refused(q) == {q}
Removed(q) == {SubSeq(q, n + 1, Len(q)) : n \in 1 .. Len(q)}

QueueInit == queue = <<>>
QueueNext == LET q == queue IN queue' \in Added(q) \cup Refused(q) \cup Removed(q)

QueueSpec == QueueInit /\ [][QueueNext]_queue
=============================================================================
