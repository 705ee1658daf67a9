---------------------------- MODULE AtomicStack ----------------------------
(* A stack of nodes on which every operation takes effect in one step.     *)
EXTENDS Sequences, Integers

CONSTANT Elements

VARIABLE stack

StackInit == stack = <<>>

Push == \E n \in Elements : stack' = <<n>> \o stack

TakeAll == stack # <<>> /\ stack' = <<>>

(* The first node is taken; the k - 1 nodes after it go with it. *)
TakeFirst ==
  \E k \in 1 .. Len(stack) : stack' = SubSeq(stack, k + 1, Len(stack))

StackSpec == StackInit /\ [][Push \/ TakeAll \/ TakeFirst]_stack
=============================================================================
