---------------------------- MODULE MCDualBuffer ----------------------------
(* Two batching senders; one batching sender that wraps the counters and   *)
(* runs out of memory; one sender that queues each update, likewise.       *)
EXTENDS DualBuffer

Test(senders, updates, batched, allocFails) ==
  [senders |-> senders, updates |-> updates, batched |-> batched,
   allocFails |-> allocFails]

AllTests ==
  {Test(2, 3, TRUE, FALSE), Test(1, 6, TRUE, TRUE), Test(1, 5, FALSE, TRUE)}
OneTest == {Test(1, 3, TRUE, FALSE)}
OnlyTrue == {TRUE}
=============================================================================
