-------------------------- MODULE MCMessageDelivery --------------------------
(* Instances of MessageDelivery for TLC. *)
EXTENDS MessageDelivery

CONSTANTS alice, bob

\* Every connection is one of bob's devices; alice is who writes to him.
BobOwnsAll == [c \in Conns |-> bob]
=============================================================================
