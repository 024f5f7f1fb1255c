-------------------------- MODULE GroupMembership --------------------------
(***************************************************************************)
(* One group conversation and the service calls that govern it: creation,  *)
(* invitations, joining, leaving, removal, transfer of ownership, deletion *)
(* (src/services/conversation.service.ts and the repositories it calls),   *)
(* and the deletion of its users' accounts (deleteUser of admin.service.ts)*)
(*                                                                         *)
(* Every call has the same shape.  A Promise.all sends some SELECTs to the *)
(* connection pool; each is answered on its own, in any order, while other *)
(* calls run.  The checks then look only at those answers, and one         *)
(* transaction (or one statement) writes.  Nothing is locked or read again,*)
(* so the database may have moved on by then.  The writing transactions    *)
(* contain no read, hence at READ COMMITTED their row locks make them      *)
(* serializable: a transaction is one atomic step here.  Only deleteUser   *)
(* reads inside its transaction; what it reads first may change likewise.  *)
(***************************************************************************)
EXTENDS Naturals

CONSTANTS
    Users,      \* the users whose accounts exist at first
    Requests,   \* slots for service calls in flight: |Requests| bounds them
    MaxCalls    \* bound: how many calls clients make in a behaviour

ASSUME MaxCallsIsNat == MaxCalls \in Nat

VARIABLES
    accounts,     \* the users rows
    group,        \* the conversations row: not yet created, stored, deleted
    member,       \* user |-> its conversation_members row
    invitations,  \* user |-> the group_invitations rows that target it
    events,       \* the conversation_events rows, as <<type, subject>>
    req,          \* slot |-> the call that runs in it
    calls,        \* how many calls were made, for the bound
    invited       \* history: the users an invitation was ever written for

db   == <<accounts, group, member, invitations, events>>
vars == <<db, req, calls, invited>>

----------------------------------------------------------------------------
(* Rows *)

\* conversation_members: primary key (conversation, user); softDeletedAt is
\* only ever tested for null.  Role "NONE" means that there is no row.
NoRow == [role |-> "NONE", removed |-> FALSE]
Row   == [role: {"OWNER", "MEMBER"}, removed: BOOLEAN] \cup {NoRow}

Exists(row) == row.role # "NONE"
Active(row) == Exists(row) /\ ~row.removed

\* group_invitations: nothing makes a row unique per user.  No code tells
\* ACCEPTED from REJECTED, and of a row past expiresAt only that it is: a row
\* is pending, answered (accepted or rejected) or expired.
Invitation == [by: Users, status: {"PENDING", "ANSWERED", "EXPIRED"}]
Pending(u) == [by |-> u, status |-> "PENDING"]

EventType == {"GROUP_CREATED", "MEMBER_JOINED", "MEMBER_LEFT",
              "MEMBER_REMOVED", "OWNERSHIP_TRANSFERRED"}

----------------------------------------------------------------------------
(* Calls *)

Op == {"Invite", "Accept", "Reject", "Leave", "Transfer", "Remove", "Delete",
       "DeleteUser"}

\* Mutant: acceptGroupInvitation does not look for an invitation.
QueriesNoInvitation ==
    [op \in Op |-> IF op \in {"Leave", "Accept"} THEN {"actor"}
                   ELSE IF op = "DeleteUser" THEN {"memberships", "others"}
                   ELSE {"conversation", "actor", "target"}]

\* The SELECTs a call awaits before it decides (its member list, used only to
\* address the notifications sent afterwards, is left out).
Query   == {"conversation", "actor", "target", "invitation", "memberships", "others"}
Queries == [Invite     |-> {"conversation", "actor", "target"},
            Accept     |-> {"conversation", "actor", "invitation"},
            Reject     |-> {"invitation"},
            Leave      |-> {"actor"},
            Transfer   |-> {"actor", "target"},
            Remove     |-> {"conversation", "actor", "target"},
            Delete     |-> {"conversation", "actor"},
            DeleteUser |-> {"memberships", "others"}]

\* The calls that name a second user, and refuse the caller as that user.
HasTarget == {"Invite", "Transfer", "Remove"}

\* A call in flight: who asks for what (for DeleteUser, the actor is the user an
\* admin deletes), the answers still awaited, what an accept or reject has been
\* told (its member row is soft-deleted, its invitation is past its date), and
\* whether deleteUser has found the user to be the only member.  Of the other
\* answers a call keeps only that they passed its checks: one that does not makes
\* it throw (Fail).
Call == [op: Op, actor: Users, target: Users, pending: SUBSET Query,
         wasRemoved: BOOLEAN, wasExpired: BOOLEAN, wasAlone: BOOLEAN]

Idle == [op |-> "NONE"]

\* The rows of the group vanish with it (ON DELETE CASCADE), and a row that
\* names it can no longer be inserted (foreign key).
Stored == group = "LIVE"

----------------------------------------------------------------------------
(* What each call requires of the answers *)

\* Mutant: leaveGroup without GROUP:TRANSFER_OWNERSHIP_FIRST.
ActorPassesLeaving(op, row) ==
    \/ op = "Accept"
    \/ op = "Leave" /\ Exists(row)
    \/ op = "Transfer" /\ row.role = "OWNER" /\ ~row.removed
    \/ op \in {"Invite", "Remove", "Delete"} /\ row.role = "OWNER"

ActorPasses(op, row) ==
    \/ op = "Accept"
    \/ op = "Leave" /\ row.role = "MEMBER"
    \/ op = "Transfer" /\ row.role = "OWNER" /\ ~row.removed
    \/ op \in {"Invite", "Remove", "Delete"} /\ row.role = "OWNER"

\* Mutants: transferGroupOwnership without TARGET_NOT_MEMBER and TARGET_REMOVED,
\* or without TARGET_REMOVED alone.
TargetPassesUnchecked(op, row) ==
    \/ op = "Invite" /\ ~Active(row)
    \/ op = "Transfer"
    \/ op = "Remove" /\ row.role = "MEMBER"
TargetPassesRemoved(op, row) ==
    \/ op = "Invite" /\ ~Active(row)
    \/ op = "Transfer" /\ Exists(row)
    \/ op = "Remove" /\ row.role = "MEMBER"

TargetPasses(op, row) ==
    \/ op = "Invite" /\ ~Active(row)
    \/ op = "Transfer" /\ Active(row)
    \/ op = "Remove" /\ row.role = "MEMBER"

Passes(c, q) ==
    \/ q = "conversation" /\ Stored
    \/ q = "actor" /\ ActorPasses(c.op, member[c.actor])
    \/ q = "target" /\ TargetPasses(c.op, member[c.target])
    \/ q = "invitation" /\ invitations[c.actor] # {}
    \/ q = "memberships"
    \/ q = "others" /\ "memberships" \notin c.pending

----------------------------------------------------------------------------
Init ==
    /\ accounts = Users
    /\ group = "ABSENT"
    /\ member = [u \in Users |-> NoRow]
    /\ invitations = [u \in Users |-> {}]
    /\ events = {}
    /\ req = [r \in Requests |-> Idle]
    /\ calls = 0
    /\ invited = {}

\* createGroup: conversation, OWNER row and GROUP_CREATED event together.  The
\* call needs a slot too, for this one step.
CreateGroup(u) ==
    /\ group = "ABSENT" /\ u \in accounts
    /\ \E r \in Requests : req[r] = Idle
    /\ group' = "LIVE"
    /\ member' = [member EXCEPT ![u] = [role |-> "OWNER", removed |-> FALSE]]
    /\ events' = {<<"GROUP_CREATED", u>>}
    /\ UNCHANGED <<accounts, invitations, req, calls, invited>>

\* A client calls the service; the group it names has existed at some time.  The
\* users may be gone: an access token is good for a while after its account.
Start(r, op, u, t) ==
    /\ group # "ABSENT" \/ op = "DeleteUser"
    /\ req[r] = Idle
    /\ calls < MaxCalls /\ calls' = calls + 1
    /\ op \in HasTarget <=> t # u
    /\ req' = [req EXCEPT ![r] =
                 [op |-> op, actor |-> u, target |-> t, pending |-> Queries[op],
                  wasRemoved |-> FALSE, wasExpired |-> FALSE, wasAlone |-> FALSE]]
    /\ UNCHANGED <<db, invited>>

\* The call after the answer to q, which for an invitation has status i.  The
\* second query of deleteUser asks which of the conversations the first has
\* found have no other member row; removed members count as members in both.
Told(c, q, i) ==
    [op |-> c.op, actor |-> c.actor, target |-> c.target,
     pending |-> c.pending \ {q},
     wasRemoved |-> \/ c.wasRemoved
                    \/ c.op = "Accept" /\ q = "actor" /\ member[c.actor].removed,
     wasExpired |-> c.wasExpired \/ i = "EXPIRED",
     wasAlone |-> IF q = "memberships" THEN Exists(member[c.actor])
                  ELSE /\ c.wasAlone
                       /\ q = "others" =>
                            \A v \in Users \ {c.actor} : ~Exists(member[v])]

\* One of the awaited SELECTs is answered from the present database, and the
\* answer passes.  findOne on invitations has no order: any row may come back.
Answer(r, q) ==
    /\ req[r] # Idle
    /\ q \in req[r].pending
    /\ Passes(req[r], q)
    /\ \E i \in IF q = "invitation" THEN {j.status : j \in invitations[req[r].actor]}
                ELSE {"NONE"} :
         req' = [req EXCEPT ![r] = Told(req[r], q, i)]
    /\ UNCHANGED <<db, calls, invited>>

----------------------------------------------------------------------------
(* What each call writes *)

\* A call of kind op with all its answers, whose invitation was in date; it
\* ends with this step.
Ready(r, op) ==
    req[r] # Idle /\ req[r].op = op /\ req[r].pending = {} /\ ~req[r].wasExpired
End(r) == req' = [req EXCEPT ![r] = Idle] /\ calls' = calls

\* An UPDATE ... WHERE (conversation, user): nothing if there is no such row.
SetRole(rows, u, role) ==
    IF Exists(rows[u]) THEN [rows EXCEPT ![u].role = role] ELSE rows

\* Mutant: the whole row is written in place of one column, and loses its role.
SetRemovedWhole(rows, u, removed) ==
    [rows EXCEPT ![u] = [role |-> "NONE", removed |-> removed]]

SetRemoved(rows, u, removed) ==
    IF Exists(rows[u]) THEN [rows EXCEPT ![u].removed = removed] ELSE rows

\* Mutant: the answer is not recorded.
SetAnsweredNot(u) == UNCHANGED invitations

\* UPDATE ... SET status WHERE (conversation, target): every row of the user.
SetAnswered(u) ==
    invitations' = [invitations EXCEPT ![u] =
        {IF i.status = "EXPIRED" THEN i ELSE [i EXCEPT !.status = "ANSWERED"] : i \in @}]

\* Mutant: no foreign key from the invitation to the conversation.
InviteUnkeyed(r) ==
    /\ Ready(r, "Invite")
    /\ {req[r].actor, req[r].target} \subseteq accounts
    /\ invitations' = [invitations EXCEPT ![req[r].target] = @ \cup {Pending(req[r].actor)}]
    /\ invited' = invited \cup {req[r].target}
    /\ End(r)
    /\ UNCHANGED <<accounts, group, member, events>>

\* createInvitation, which names group, actor and target by foreign key; a second
\* pending row for the same user is not refused.
Invite(r) ==
    /\ Ready(r, "Invite") /\ Stored
    /\ {req[r].actor, req[r].target} \subseteq accounts
    /\ invitations' = [invitations EXCEPT ![req[r].target] = @ \cup {Pending(req[r].actor)}]
    /\ invited' = invited \cup {req[r].target}
    /\ End(r)
    /\ UNCHANGED <<accounts, group, member, events>>

\* acceptGroupInvitation for someone with no row when it looked: the INSERT
\* fails, and the transaction with it, if a row has appeared or the account has
\* gone since.
Join(r) ==
    LET u == req[r].actor IN
    /\ Ready(r, "Accept") /\ Stored /\ u \in accounts
    /\ ~req[r].wasRemoved
    /\ ~Exists(member[u])
    /\ SetAnswered(u)
    /\ events' = events \cup {<<"MEMBER_JOINED", u>>}
    /\ member' = [member EXCEPT ![u] = [role |-> "MEMBER", removed |-> FALSE]]
    /\ End(r)
    /\ UNCHANGED <<accounts, group, invited>>

\* acceptGroupInvitation for someone who had been removed: the row is revived,
\* the invitation keeps its status and no event is written.
Rejoin(r) ==
    /\ Ready(r, "Accept") /\ req[r].wasRemoved
    /\ member' = SetRemoved(member, req[r].actor, FALSE)
    /\ End(r)
    /\ UNCHANGED <<accounts, group, invitations, events, invited>>

\* rejectGroupInvitation, whatever the rows' status was.
Reject(r) ==
    /\ Ready(r, "Reject")
    /\ SetAnswered(req[r].actor)
    /\ End(r)
    /\ UNCHANGED <<accounts, group, member, events, invited>>

\* markInvitationAsExpired writes ACCEPTED into every row of the user.
MarkExpired(r) ==
    /\ req[r] # Idle /\ req[r].pending = {} /\ req[r].wasExpired
    /\ SetAnswered(req[r].actor)
    /\ End(r)
    /\ UNCHANGED <<accounts, group, member, events, invited>>

\* Mutant: the event is written after the transaction, and is lost.
RemoveMemberUnlogged(u, eventType) ==
    /\ Stored
    /\ member' = SetRemoved(member, u, TRUE)
    /\ UNCHANGED <<accounts, group, invitations, events, invited>>

\* removeMemberFromGroup: soft-delete the row and log it, for which the user need
\* not exist.
RemoveMemberFromGroup(u, eventType) ==
    /\ Stored
    /\ member' = SetRemoved(member, u, TRUE)
    /\ events' = events \cup {<<eventType, u>>}
    /\ UNCHANGED <<accounts, group, invitations, invited>>

Leave(r) ==
    /\ Ready(r, "Leave")
    /\ RemoveMemberFromGroup(req[r].actor, "MEMBER_LEFT")
    /\ End(r)

Remove(r) ==
    /\ Ready(r, "Remove")
    /\ RemoveMemberFromGroup(req[r].target, "MEMBER_REMOVED")
    /\ End(r)

\* transferGroupOwnership: demote the caller, promote the other, log it.  Neither
\* UPDATE needs its row, and the event names the users without a foreign key.
Transfer(r) ==
    /\ Ready(r, "Transfer") /\ Stored
    /\ member' = SetRole(SetRole(member, req[r].actor, "MEMBER"),
                         req[r].target, "OWNER")
    /\ events' = events \cup {<<"OWNERSHIP_TRANSFERRED", req[r].target>>}
    /\ End(r)
    /\ UNCHANGED <<accounts, group, invitations, invited>>

\* The cascade takes members, invitations and events along.
DropGroup ==
    /\ group' = "DELETED"
    /\ member' = [u \in Users |-> NoRow]
    /\ invitations' = [u \in Users |-> {}]
    /\ events' = {}

DeleteGroup(r) ==
    /\ Ready(r, "Delete")
    /\ DropGroup
    /\ End(r)
    /\ UNCHANGED <<accounts, invited>>

\* The rows that name the user go with its account; the history does not.
DropRowsOf(u) ==
    /\ member' = [member EXCEPT ![u] = NoRow]
    /\ invitations' = [v \in Users |-> IF v = u THEN {}
                                       ELSE {i \in invitations[v] : i.by # u}]
    /\ UNCHANGED <<group, events>>

\* Mutant: step 4 of deleteUser is left out.
DeleteUserOnly(r) ==
    LET u == req[r].actor IN
    /\ Ready(r, "DeleteUser")
    /\ accounts' = accounts \ {u}
    /\ DropRowsOf(u)
    /\ End(r)
    /\ UNCHANGED invited

\* deleteUser commits: the group, if it has found nobody else in it, and the
\* account with its rows.
DeleteUser(r) ==
    LET u == req[r].actor IN
    /\ Ready(r, "DeleteUser")
    /\ accounts' = accounts \ {u}
    /\ IF req[r].wasAlone /\ Stored THEN DropGroup ELSE DropRowsOf(u)
    /\ End(r)
    /\ UNCHANGED invited

\* A call ends without effect: a check refuses it, a statement fails (foreign
\* key, primary key, deadlock, lost connection), or the process dies.
Fail(r) ==
    /\ req[r] # Idle
    /\ End(r)
    /\ UNCHANGED <<db, invited>>

\* 24 hours pass for one of a user's invitations.  The rows are a set of
\* equal-looking rows, so the last one with this look may or may not go.
Expire(u) ==
    \E i \in invitations[u], kept \in BOOLEAN :
        /\ i.status # "EXPIRED"
        /\ invitations' = [invitations EXCEPT ![u] =
               (IF kept THEN @ ELSE @ \ {i}) \cup {[i EXCEPT !.status = "EXPIRED"]}]
        /\ UNCHANGED <<accounts, group, member, events, req, calls, invited>>

Next ==
    \/ \E u \in Users : CreateGroup(u) \/ Expire(u)
    \/ \E r \in Requests :
         \/ \E op \in Op, u, t \in Users : Start(r, op, u, t)
         \/ \E q \in Query : Answer(r, q)
         \/ Invite(r)
         \/ Join(r)
         \/ Rejoin(r)
         \/ Reject(r)
         \/ MarkExpired(r)
         \/ Leave(r)
         \/ Remove(r)
         \/ Transfer(r)
         \/ DeleteGroup(r)
         \/ DeleteUser(r)
         \/ Fail(r)

Spec == Init /\ [][Next]_vars

----------------------------------------------------------------------------
(* Properties *)

Owners == {u \in Users : member[u].role = "OWNER"}

OwnerOnRecord(u) ==
    <<"GROUP_CREATED", u>> \in events \/ <<"OWNERSHIP_TRANSFERRED", u>> \in events

\* Every variable stays within its type; in particular no user ever has more
\* than one row, a slot holds at most one call, and no member row or invitation
\* names a user whose account has gone.
TypeOK ==
    /\ accounts \in SUBSET Users
    /\ group \in {"ABSENT", "LIVE", "DELETED"}
    /\ member \in [Users -> Row]
    /\ invitations \in [Users -> SUBSET Invitation]
    /\ events \in SUBSET (EventType \X Users)
    /\ req \in [Requests -> Call \cup {Idle}]
    /\ calls \in 0..MaxCalls
    /\ invited \in SUBSET Users
    /\ \A u \in Users \ accounts : member[u] = NoRow /\ invitations[u] = {}
    /\ \A u \in Users : \A i \in invitations[u] : i.by \in accounts

\* A stored group loses its last owner row only with an account, however the calls
\* on it overlap (otherwise nobody could invite, transfer, remove or delete any
\* more): either that owner's account goes, or the ownership is transferred to a
\* user whose account has gone since the call looked.  That call demotes one row
\* and promotes another from answers that may be stale, and only the deletion of
\* an account takes the second row away (transferGroupOwnership, deleteUser).
OwnerRemains ==
    [][Stored /\ Stored' /\ Owners # {} /\ Owners' = {} =>
         \E u \in Users \ accounts' :
            \/ u \in Owners
            \/ \E r \in Requests : /\ req[r] # Idle /\ req'[r] = Idle
                                   /\ req[r].op = "Transfer" /\ req[r].target = u
      ]_vars

\* Whoever is in the group without having created it was invited at some time:
\* no interleaving of accept, reject, remove, expiry and the deletion of those who
\* invited makes a row without an invitation behind it (acceptGroupInvitation).
JoinNeedsInvitation ==
    \A u \in Users :
        Exists(member[u]) => <<"GROUP_CREATED", u>> \in events \/ u \in invited

\* The event history shown to clients explains the membership: each row has
\* the event that made it and each such event its row as long as the account
\* exists, a removed member has left or been removed on record, and ownership
\* other than the creator's was transferred on record (each transaction writes its
\* event with its rows).
HistoryExplainsMembership ==
    \A u \in Users :
        /\ Exists(member[u]) <=> /\ u \in accounts
                                /\ \/ <<"GROUP_CREATED", u>> \in events
                                   \/ <<"MEMBER_JOINED", u>> \in events
        /\ member[u].removed => \/ <<"MEMBER_LEFT", u>> \in events
                               \/ <<"MEMBER_REMOVED", u>> \in events
        /\ member[u].role = "OWNER" => OwnerOnRecord(u)

\* A deleted group stays empty: a call that read the group before deleteGroup or
\* deleteUser committed leaves nothing behind (foreign keys of the late writes).
DeletedStaysEmpty ==
    group = "DELETED" => /\ \A u \in Users : ~Exists(member[u])
                         /\ \A u \in Users : invitations[u] = {}
                         /\ events = {}

\* A stored group has exactly one owner, and that owner has not been removed:
\* what ONLY_OWNER, TRANSFER_OWNERSHIP_FIRST, CANNOT_REMOVE_OWNER and
\* TARGET_REMOVED are there for.  Only when the account of somebody who owned it
\* has gone may it have none.  It holds while calls do not overlap.
SoleActiveOwner ==
    Stored =>
        \/ \E u \in Users : /\ Owners = {u}
                            /\ ~member[u].removed
        \/ /\ Owners = {}
           /\ \E u \in Users \ accounts : OwnerOnRecord(u)

\* Offline synchronisation offers every PENDING invitation that has not expired:
\* while calls do not overlap, a member who was never out of the group is not
\* offered the group again (USER_ALREADY_MEMBER, acceptInvitation).
MemberIsNotOffered ==
    \A u \in Users :
        /\ Active(member[u])
        /\ <<"MEMBER_LEFT", u>> \notin events
        /\ <<"MEMBER_REMOVED", u>> \notin events
        => \A i \in invitations[u] : i.status # "PENDING"

\* No account takes the last member row of a group along and leaves the group
\* behind: deleteUser drops the groups nobody else has a row of.  It holds while
\* calls do not overlap; two deletions that do may each count on the other's user.
\* The rows may all be those of removed members, which deleteUser counts too.
GroupIsNotAbandoned == Stored => \E u \in Users : Exists(member[u])

\* An owner is never a removed member: removeGroupMember throws
\* REMOVE_MEMBER:CANNOT_REMOVE_OWNER and leaveGroup GROUP:TRANSFER_OWNERSHIP_FIRST.
OwnerIsNotRemoved ==
    \A u \in Users : member[u].role = "OWNER" => ~member[u].removed

=============================================================================
