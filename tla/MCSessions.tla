----------------------------- MODULE MCSessions -----------------------------
(* Instances of Sessions for TLC. *)
EXTENDS Sessions, TLC

CONSTANTS alice, s1, s2

\* Two devices of one user.
OneOwner == [s \in Sessions |-> alice]

\* No property names a particular device or slot, and none is a liveness property.
Symmetry == Permutations(Sessions) \cup Permutations(Requests)
=============================================================================
