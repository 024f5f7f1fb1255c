-------------------------- MODULE GroupRefinement --------------------------
(* GroupMembership seen through the eyes of the group's users. *)
EXTENDS GroupMembership

Serial == INSTANCE GroupOwnership WITH
    phase   <- group,
    owners  <- Owners,
    present <- {u \in Users : Active(member[u])},
    gone    <- Users \ accounts

\* While calls do not overlap, every call is one step of GroupOwnership or none:
\* one owner at a time, who is in the group, hands over only to somebody who is
\* in the group, never leaves before except with its account, nobody returns whose
\* account has gone, no group goes with an account while somebody else is present,
\* and nobody is left over when the group goes (conversation.service.ts,
\* admin.service.ts; the runs and the proof take one slot for calls).
ImplementsOwnership == Serial!Spec

=============================================================================
