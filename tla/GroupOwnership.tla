--------------------------- MODULE GroupOwnership ---------------------------
(***************************************************************************)
(* What the calls on a group promise its users: a group is created by one  *)
(* owner, other users come and go, the ownership passes from one user who  *)
(* is in the group to another, users vanish with their accounts, and the   *)
(* group ends as a whole.  There are no rows, invitations, answers or      *)
(* transactions here: GroupRefinement shows how GroupMembership implements *)
(* these steps.                                                            *)
(***************************************************************************)

CONSTANT Users

VARIABLES
    phase,     \* the group is not created yet, exists, or is deleted
    owners,    \* the owner of the group, as a set of at most one user
    present,   \* the users who are in the group
    gone       \* the users whose accounts have been deleted

ownership == <<phase, owners, present, gone>>

Init == phase = "ABSENT" /\ owners = {} /\ present = {} /\ gone = {}

Create(u) ==
    /\ phase = "ABSENT" /\ phase' = "LIVE"
    /\ u \notin gone
    /\ owners' = {u} /\ present' = {u}
    /\ UNCHANGED gone

Admit(u) ==
    /\ phase = "LIVE" /\ u \notin present \cup gone
    /\ present' = present \cup {u}
    /\ UNCHANGED <<phase, owners, gone>>

\* Only the owner cannot leave or be removed.
Depart(u) ==
    /\ phase = "LIVE" /\ u \in present \ owners
    /\ present' = present \ {u}
    /\ UNCHANGED <<phase, owners, gone>>

\* There is an owner to hand over.
PassOn(u) ==
    /\ phase = "LIVE" /\ u \in present \ owners
    /\ owners # {} /\ owners' = {u}
    /\ UNCHANGED <<phase, present, gone>>

\* The owner ends the group.
Dissolve ==
    /\ phase = "LIVE" /\ phase' = "DELETED"
    /\ owners # {}
    /\ owners' = {} /\ present' = {}
    /\ UNCHANGED gone

\* A user's account goes; the group goes with it only if nobody else is present.
\* A group whose owner vanishes has none from then on.
Vanish(u) ==
    /\ gone' = gone \cup {u}
    /\ owners' = owners \ {u} /\ present' = present \ {u}
    /\ \/ UNCHANGED phase
       \/ phase = "LIVE" /\ phase' = "DELETED" /\ present \subseteq {u}

Next ==
    \/ \E u \in Users : Create(u) \/ Admit(u) \/ Depart(u) \/ PassOn(u) \/ Vanish(u)
    \/ Dissolve

Spec == Init /\ [][Next]_ownership

=============================================================================
