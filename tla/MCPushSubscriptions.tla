------------------------ MODULE MCPushSubscriptions ------------------------
(* Instances of PushSubscriptions for TLC. *)
EXTENDS PushSubscriptions, TLC

\* No property names a particular slot, user or endpoint; none is a liveness one.
Symmetry ==
    Permutations(Requests) \cup Permutations(Users) \cup Permutations(Endpoints)
=============================================================================
