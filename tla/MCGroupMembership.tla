------------------------- MODULE MCGroupMembership -------------------------
(* Instances of GroupMembership, alone and against GroupOwnership, for TLC. *)
EXTENDS GroupRefinement, TLC

\* No property names a particular user or slot, and none is a liveness property.
Symmetry == Permutations(Users) \cup Permutations(Requests)
=============================================================================
