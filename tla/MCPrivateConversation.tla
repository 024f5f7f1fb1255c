----------------------- MODULE MCPrivateConversation -----------------------
(* Instances of PrivateConversation for TLC. *)
EXTENDS PrivateConversation, TLC

\* No property names a particular slot or user, and none is a liveness property.
Symmetry == Permutations(Requests) \cup Permutations(Users)
=============================================================================
