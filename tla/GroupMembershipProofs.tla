----------------------- MODULE GroupMembershipProofs -----------------------
(* Proofs about GroupMembership, for every set of users and of call slots   *)
(* and every bound on the number of calls.                                  *)
EXTENDS GroupMembership, TLAPS

----------------------------------------------------------------------------
(* Facts about rows and calls *)

\* UPDATE keeps the table well typed, changes no other row and no key.
LEMMA SetRoleFacts ==
    ASSUME NEW rows \in [Users -> Row], NEW u \in Users,
           NEW role \in {"OWNER", "MEMBER"}
    PROVE  /\ SetRole(rows, u, role) \in [Users -> Row]
           /\ \A v \in Users : /\ Exists(SetRole(rows, u, role)[v]) <=> Exists(rows[v])
                               /\ SetRole(rows, u, role)[v].removed = rows[v].removed
           /\ \A v \in Users \ {u} : SetRole(rows, u, role)[v] = rows[v]
           /\ Exists(rows[u]) => SetRole(rows, u, role)[u].role = role
BY DEF SetRole, Exists, Row, NoRow

LEMMA SetRemovedFacts ==
    ASSUME NEW rows \in [Users -> Row], NEW u \in Users, NEW removed \in BOOLEAN
    PROVE  /\ SetRemoved(rows, u, removed) \in [Users -> Row]
           /\ \A v \in Users : SetRemoved(rows, u, removed)[v].role = rows[v].role
           /\ \A v \in Users \ {u} : SetRemoved(rows, u, removed)[v] = rows[v]
           /\ SetRemoved(rows, u, removed)[u].removed => removed
BY DEF SetRemoved, Exists, Row, NoRow

\* A row without a role is no row.
LEMMA NoRowFacts ==
    ASSUME NEW row \in Row
    PROVE  ~Exists(row) <=> row = NoRow
BY DEF Row, NoRow, Exists

\* What every step may assume of a call in flight.
LEMMA CallFacts ==
    ASSUME TypeOK, NEW r \in Requests, req[r] # Idle
    PROVE  /\ req[r] \in Call
           /\ req[r].actor \in Users /\ req[r].target \in Users
           /\ req[r].pending \subseteq Query /\ req[r].op \in Op
           /\ req[r].wasRemoved \in BOOLEAN /\ req[r].wasExpired \in BOOLEAN
           /\ req[r].wasAlone \in BOOLEAN
BY DEF TypeOK, Call, Idle

\* A new call has the type of a call.
LEMMA StartType ==
    ASSUME NEW op \in Op, NEW u \in Users, NEW t \in Users
    PROVE  [op |-> op, actor |-> u, target |-> t, pending |-> Queries[op],
            wasRemoved |-> FALSE, wasExpired |-> FALSE, wasAlone |-> FALSE] \in Call
<1>1. Queries[op] \in SUBSET Query
  BY DEF Queries, Query, Op
<1> QED
  BY <1>1 DEF Call

\* An answer changes what is pending and what was told, nothing else.
LEMMA ToldFacts ==
    ASSUME TypeOK, NEW c \in Call, NEW q, NEW i
    PROVE  /\ Told(c, q, i) \in Call
           /\ Told(c, q, i).op = c.op
           /\ Told(c, q, i).actor = c.actor /\ Told(c, q, i).target = c.target
           /\ Told(c, q, i).pending = c.pending \ {q}
<1>1. (\/ c.wasRemoved
       \/ c.op = "Accept" /\ q = "actor" /\ member[c.actor].removed) \in BOOLEAN
  OBVIOUS
<1>2. (c.wasExpired \/ i = "EXPIRED") \in BOOLEAN
  OBVIOUS
<1>3. (IF q = "memberships" THEN Exists(member[c.actor])
       ELSE c.wasAlone /\ (q = "others" =>
              \A v \in Users \ {c.actor} : ~Exists(member[v]))) \in BOOLEAN
  BY DEF Exists
<1>4. Told(c, q, i) \in Call
  BY <1>1, <1>2, <1>3 DEF Told, Call
<1> QED
  BY <1>4 DEF Told

\* Ending a call, and leaving the calls alone, keep their types.
LEMMA EndType ==
    ASSUME TypeOK, NEW r \in Requests, End(r)
    PROVE  req' \in [Requests -> Call \cup {Idle}] /\ calls' \in 0..MaxCalls
BY DEF TypeOK, End

\* Who answers invitations keeps their inviters.
LEMMA SetAnsweredType ==
    ASSUME TypeOK, NEW u \in Users, SetAnswered(u)
    PROVE  /\ invitations' \in [Users -> SUBSET Invitation]
           /\ \A v \in Users : \A i \in invitations'[v] : \E j \in invitations[v] : i.by = j.by
           /\ \A i \in invitations'[u] : i.status # "PENDING"
           /\ \A v \in Users \ {u} : invitations'[v] = invitations[v]
<1> DEFINE Answered(i) ==
      IF i.status = "EXPIRED" THEN i ELSE [i EXCEPT !.status = "ANSWERED"]
<1>1. ASSUME NEW i \in Invitation
      PROVE  /\ Answered(i) \in Invitation /\ Answered(i).by = i.by
             /\ Answered(i).status # "PENDING"
  BY <1>1 DEF Invitation
<1>2. /\ invitations' = [invitations EXCEPT ![u] = {Answered(i) : i \in invitations[u]}]
      /\ invitations \in [Users -> SUBSET Invitation]
  BY DEF SetAnswered, TypeOK
<1> HIDE DEF Answered
<1> QED
  BY <1>1, <1>2

\* Rows named by nobody's account appear neither by changing rows nor by
\* rewriting invitations.
Referential ==
    /\ \A u \in Users \ accounts : member[u] = NoRow /\ invitations[u] = {}
    /\ \A u \in Users : \A i \in invitations[u] : i.by \in accounts

LEMMA ReferencesKept ==
    ASSUME Referential, accounts' = accounts,
           member' \in [Users -> Row],
           \A u \in Users \ accounts : Exists(member'[u]) => Exists(member[u]),
           \A u \in Users : \A i \in invitations'[u] : \E j \in invitations[u] : i.by = j.by
    PROVE  Referential'
<1>1. \A u \in Users \ accounts : member'[u] = NoRow
  BY NoRowFacts DEF Referential, Exists, NoRow
<1> QED
  BY <1>1 DEF Referential

\* Init establishes the type invariant.
LEMMA InitType == Init => TypeOK
<1> SUFFICES ASSUME Init PROVE TypeOK
  OBVIOUS
<1> USE DEF Init
<1>1. calls \in 0..MaxCalls
  BY MaxCallsIsNat
<1>2. req \in [Requests -> Call \cup {Idle}] /\ member \in [Users -> Row]
  BY DEF Row
<1>3. events \in SUBSET (EventType \X Users) /\ invitations \in [Users -> SUBSET Invitation]
  OBVIOUS
<1> QED
  BY <1>1, <1>2, <1>3 DEF TypeOK

\* What a step must show of its types, one table at a time.
LEMMA TypeFromParts ==
    ASSUME TypeOK,
           accounts' \in SUBSET Users, group' \in {"ABSENT", "LIVE", "DELETED"},
           member' \in [Users -> Row], invitations' \in [Users -> SUBSET Invitation],
           events' \in SUBSET (EventType \X Users),
           req' \in [Requests -> Call \cup {Idle}], calls' \in 0..MaxCalls,
           invited' \in SUBSET Users, Referential'
    PROVE  TypeOK'
BY DEF TypeOK, Referential

\* Every step keeps the type invariant.
LEMMA NextType == TypeOK /\ [Next]_vars => TypeOK'
<1> SUFFICES ASSUME TypeOK, [Next]_vars PROVE TypeOK'
  OBVIOUS
<1> USE MaxCallsIsNat
<1>0. Referential
  BY DEF TypeOK, Referential
<1>1. ASSUME NEW u \in Users, CreateGroup(u) PROVE TypeOK'
  <2>1. member' \in [Users -> Row] /\ events' \in SUBSET (EventType \X Users)
    BY <1>1 DEF CreateGroup, TypeOK, Row, EventType
  <2>2. Referential'
    BY <1>0, <1>1 DEF CreateGroup, Referential, TypeOK
  <2> QED
    BY <1>1, <2>1, <2>2, TypeFromParts DEF CreateGroup, TypeOK
<1>2. ASSUME NEW u \in Users, Expire(u) PROVE TypeOK'
  <2>1. PICK i \in invitations[u], kept \in BOOLEAN :
          invitations' = [invitations EXCEPT ![u] =
               (IF kept THEN @ ELSE @ \ {i}) \cup {[i EXCEPT !.status = "EXPIRED"]}]
    BY <1>2 DEF Expire
  <2>2. i \in Invitation
    BY <2>1 DEF TypeOK
  <2>3. [i EXCEPT !.status = "EXPIRED"] \in Invitation
        /\ [i EXCEPT !.status = "EXPIRED"].by = i.by
    BY <2>2 DEF Invitation
  <2>4. /\ invitations' \in [Users -> SUBSET Invitation]
        /\ \A v \in Users : \A j \in invitations'[v] : \E k \in invitations[v] : j.by = k.by
    BY <2>1, <2>3 DEF TypeOK
  <2>5. member' = member /\ accounts' = accounts
    BY <1>2 DEF Expire
  <2>6. Referential'
    BY <1>0, <2>4, <2>5, ReferencesKept DEF TypeOK
  <2> QED
    BY <1>2, <2>4, <2>6, TypeFromParts DEF Expire, TypeOK
<1>3. ASSUME NEW r \in Requests, NEW op \in Op, NEW u \in Users, NEW t \in Users,
             Start(r, op, u, t)
      PROVE  TypeOK'
  <2>1. req' \in [Requests -> Call \cup {Idle}]
    BY <1>3, StartType DEF Start, TypeOK
  <2>2. calls' \in 0..MaxCalls
    BY <1>3 DEF Start, TypeOK
  <2> QED
    BY <1>3, <2>1, <2>2 DEF Start, TypeOK, db
<1>4. ASSUME NEW r \in Requests, NEW q \in Query, Answer(r, q) PROVE TypeOK'
  <2>1. PICK i : req' = [req EXCEPT ![r] = Told(req[r], q, i)]
    BY <1>4 DEF Answer
  <2>2. Told(req[r], q, i) \in Call
    BY <1>4, CallFacts, ToldFacts DEF Answer
  <2>4. req' \in [Requests -> Call \cup {Idle}]
    BY <2>1, <2>2 DEF TypeOK
  <2> QED
    BY <1>4, <2>4 DEF Answer, TypeOK, db
<1>5. ASSUME NEW r \in Requests, Invite(r) PROVE TypeOK'
  <2> DEFINE a == req[r].actor  t == req[r].target
  <2>1. /\ a \in accounts /\ t \in accounts /\ a \in Users /\ t \in Users
        /\ invitations' = [invitations EXCEPT ![t] = @ \cup {Pending(a)}]
        /\ accounts' = accounts /\ member' = member
    BY <1>5, CallFacts DEF Invite, Ready
  <2>2. Pending(a) \in Invitation /\ Pending(a).by = a
    BY <2>1 DEF Pending, Invitation
  <2>3. invitations' \in [Users -> SUBSET Invitation]
    BY <2>1, <2>2 DEF TypeOK
  <2>4. \A v \in Users : invitations'[v] \subseteq invitations[v]
                         \/ (v = t /\ invitations'[v] = invitations[v] \cup {Pending(a)})
    BY <2>1 DEF TypeOK
  <2>5. Referential'
    BY <1>0, <2>1, <2>2, <2>4 DEF Referential
  <2> QED
    BY <1>5, <2>1, <2>3, <2>5, EndType, TypeFromParts DEF Invite, TypeOK
<1>6. ASSUME NEW r \in Requests, Join(r) PROVE TypeOK'
  <2> DEFINE u == req[r].actor
  <2>1. /\ u \in Users /\ u \in accounts /\ accounts' = accounts /\ SetAnswered(u)
        /\ member' = [member EXCEPT ![u] = [role |-> "MEMBER", removed |-> FALSE]]
        /\ events' = events \cup {<<"MEMBER_JOINED", u>>}
    BY <1>6, CallFacts DEF Join, Ready
  <2>2. member' \in [Users -> Row] /\ events' \in SUBSET (EventType \X Users)
    BY <2>1 DEF TypeOK, Row, EventType
  <2>3. \A v \in Users \ accounts : member'[v] = member[v]
    BY <2>1 DEF TypeOK
  <2>4. Referential'
    BY <1>0, <2>1, <2>2, <2>3, SetAnsweredType, ReferencesKept
  <2> QED
    BY <1>6, <2>1, <2>2, <2>4, SetAnsweredType, EndType, TypeFromParts DEF Join, TypeOK
<1>7. ASSUME NEW r \in Requests, Rejoin(r) PROVE TypeOK'
  <2>1. /\ req[r].actor \in Users /\ accounts' = accounts /\ invitations' = invitations
        /\ member' = SetRemoved(member, req[r].actor, FALSE)
    BY <1>7, CallFacts DEF Rejoin, Ready
  <2>2. /\ member' \in [Users -> Row]
        /\ \A v \in Users : Exists(member'[v]) => Exists(member[v])
    BY <2>1, SetRemovedFacts DEF TypeOK, Exists
  <2>3. Referential'
    BY <1>0, <2>1, <2>2, ReferencesKept
  <2> QED
    BY <1>7, <2>1, <2>2, <2>3, EndType, TypeFromParts DEF Rejoin, TypeOK
<1>8. ASSUME NEW r \in Requests, Reject(r) \/ MarkExpired(r) PROVE TypeOK'
  <2>1. /\ req[r].actor \in Users /\ SetAnswered(req[r].actor)
        /\ accounts' = accounts /\ member' = member
    BY <1>8, CallFacts DEF Reject, MarkExpired, Ready
  <2>2. Referential'
    BY <1>0, <2>1, SetAnsweredType, ReferencesKept DEF TypeOK
  <2> QED
    BY <1>8, <2>1, <2>2, SetAnsweredType, EndType, TypeFromParts
       DEF Reject, MarkExpired, TypeOK
<1>9. ASSUME NEW r \in Requests, Leave(r) \/ Remove(r) PROVE TypeOK'
  <2>1. PICK u \in Users, type \in EventType : RemoveMemberFromGroup(u, type)
    BY <1>9, CallFacts DEF Leave, Remove, Ready, EventType
  <2>2. /\ member' = SetRemoved(member, u, TRUE) /\ events' = events \cup {<<type, u>>}
        /\ UNCHANGED <<accounts, group, invitations, invited>>
    BY <2>1 DEF RemoveMemberFromGroup
  <2>3. member \in [Users -> Row] /\ TRUE \in BOOLEAN
    BY DEF TypeOK
  <2>4. /\ member' \in [Users -> Row]
        /\ \A v \in Users : member'[v].role = member[v].role
    BY <2>2, <2>3, SetRemovedFacts
  <2>5. events' \in SUBSET (EventType \X Users)
    BY <2>2 DEF TypeOK
  <2>6. Referential'
    BY <1>0, <2>2, <2>4, ReferencesKept DEF Exists
  <2> QED
    BY <1>9, <2>2, <2>4, <2>5, <2>6, EndType, TypeFromParts DEF Leave, Remove, TypeOK
<1>10. ASSUME NEW r \in Requests, Transfer(r) PROVE TypeOK'
  <2> DEFINE demoted == SetRole(member, req[r].actor, "MEMBER")
  <2>1. req[r].actor \in Users /\ req[r].target \in Users
    BY <1>10, CallFacts DEF Transfer, Ready
  <2>2. /\ demoted \in [Users -> Row]
        /\ \A v \in Users : Exists(demoted[v]) <=> Exists(member[v])
    BY <2>1, SetRoleFacts DEF TypeOK
  <2>3. member' = SetRole(demoted, req[r].target, "OWNER")
        /\ UNCHANGED <<accounts, group, invitations, invited>>
    BY <1>10 DEF Transfer
  <2> HIDE DEF demoted
  <2>4. /\ member' \in [Users -> Row]
        /\ \A v \in Users : Exists(member'[v]) => Exists(member[v])
    BY <2>1, <2>2, <2>3, SetRoleFacts
  <2>5. Referential'
    BY <1>0, <2>3, <2>4, ReferencesKept
  <2>6. events' \in SUBSET (EventType \X Users)
    BY <1>10, <2>1 DEF Transfer, TypeOK, EventType
  <2> QED
    BY <1>10, <2>3, <2>4, <2>5, <2>6, EndType, TypeFromParts DEF Transfer, TypeOK
<1>11. ASSUME NEW r \in Requests, DeleteGroup(r) \/ DeleteUser(r) PROVE TypeOK'
  <2>1. /\ req[r].actor \in Users /\ End(r) /\ invited' = invited
        /\ accounts' \subseteq accounts
        /\ \/ DropGroup
           \/ DropRowsOf(req[r].actor) /\ accounts' = accounts \ {req[r].actor}
    BY <1>11, CallFacts DEF DeleteGroup, DeleteUser, Ready
  <2>2. CASE DropGroup
    <3>1. /\ member' \in [Users -> Row] /\ invitations' \in [Users -> SUBSET Invitation]
          /\ events' \in SUBSET (EventType \X Users)
          /\ group' \in {"ABSENT", "LIVE", "DELETED"} /\ Referential'
      BY <2>2 DEF DropGroup, Row, Referential
    <3> QED
      BY <2>1, <3>1, EndType, TypeFromParts DEF TypeOK
  <2>3. CASE DropRowsOf(req[r].actor) /\ accounts' = accounts \ {req[r].actor}
    <3>1. /\ member' \in [Users -> Row] /\ invitations' \in [Users -> SUBSET Invitation]
          /\ events' = events /\ group' = group
      BY <2>1, <2>3 DEF DropRowsOf, TypeOK, Row
    <3>2. Referential'
      BY <1>0, <2>1, <2>3 DEF DropRowsOf, Referential, TypeOK
    <3> QED
      BY <2>1, <3>1, <3>2, EndType, TypeFromParts DEF TypeOK
  <2> QED
    BY <2>1, <2>2, <2>3
<1>12. ASSUME NEW r \in Requests, Fail(r) PROVE TypeOK'
  BY <1>12, EndType DEF Fail, TypeOK, db
<1>13. CASE UNCHANGED vars
  BY <1>13 DEF TypeOK, vars, db
<1> QED
  BY <1>1, <1>2, <1>3, <1>4, <1>5, <1>6, <1>7, <1>8, <1>9, <1>10, <1>11, <1>12,
     <1>13 DEF Next

\* Every reachable state is well typed: each user has at most one membership
\* row and each slot at most one call, and no row names a user whose account has
\* gone, for any number of users and of calls.
THEOREM TypeCorrect == Spec => []TypeOK
BY InitType, NextType, PTL DEF Spec

----------------------------------------------------------------------------
(* The inductive invariant.  OwnerRemains needs to know that the user a call *)
(* is about to promote has come into the group, so that the row is there as  *)
(* long as the account is; JoinNeedsInvitation that whoever was shown an     *)
(* invitation had been written one.  Neither answer can become false.  That  *)
(* in turn needs that no call on the group is in flight when it is created.  *)

\* Without a group there are no rows of it.
EmptyUnlessStored ==
    ~Stored => /\ \A u \in Users : member[u] = NoRow /\ invitations[u] = {}
               /\ events = {}

NoCallBeforeCreation ==
    group = "ABSENT" => \A r \in Requests : req[r] = Idle \/ req[r].op = "DeleteUser"

\* The user came into the group, on record.
Entered(u) == <<"GROUP_CREATED", u>> \in events \/ <<"MEMBER_JOINED", u>> \in events

AnswersKnown ==
    \A r \in Requests :
        req[r] # Idle =>
            /\ Stored /\ req[r].op = "Transfer" /\ "target" \notin req[r].pending
                  => Entered(req[r].target)
            /\ req[r].op = "Accept" /\ "invitation" \notin req[r].pending
                  => req[r].actor \in invited

InvitationsKnown == \A u \in Users : invitations[u] # {} => u \in invited

Safe ==
    /\ EmptyUnlessStored
    /\ NoCallBeforeCreation
    /\ AnswersKnown
    /\ InvitationsKnown
    /\ JoinNeedsInvitation
    /\ HistoryExplainsMembership

\* When a call ends, the others know what they knew.
LEMMA AnswersKept ==
    ASSUME TypeOK, AnswersKnown, NoCallBeforeCreation, NEW r \in Requests, End(r),
           Stored' => Stored /\ events \subseteq events',
           group' = "ABSENT" => group = "ABSENT",
           invited \subseteq invited'
    PROVE  AnswersKnown' /\ NoCallBeforeCreation'
<1>1. \A s \in Requests : req'[s] = Idle \/ req'[s] = req[s]
  BY DEF End, TypeOK
<1>2. AnswersKnown'
  BY <1>1 DEF AnswersKnown, Entered
<1>3. NoCallBeforeCreation'
  BY <1>1 DEF NoCallBeforeCreation
<1> QED
  BY <1>2, <1>3

\* A step that neither creates nor deletes anything but a removal mark, a role, an
\* invitation or an event of these.
LEMMA SafeKept ==
    ASSUME TypeOK, TypeOK', Safe, AnswersKnown', NoCallBeforeCreation', InvitationsKnown',
           accounts' = accounts, group' = group, invited \subseteq invited',
           events \subseteq events', Stored \/ events' = events,
           Stored \/ \A u \in Users : invitations'[u] # {} => invitations[u] # {},
           \A u \in Users :
               /\ Entered(u)' => Entered(u)
               /\ Exists(member'[u]) <=> Exists(member[u])
               /\ member'[u].removed =>
                      \/ member[u].removed
                      \/ <<"MEMBER_LEFT", u>> \in events' \/ <<"MEMBER_REMOVED", u>> \in events'
               /\ member'[u].role = "OWNER" => member[u].role = "OWNER" \/ OwnerOnRecord(u)'
    PROVE  Safe'
<1>1. EmptyUnlessStored'
  <2> SUFFICES ASSUME ~Stored'
               PROVE  /\ \A u \in Users : member'[u] = NoRow /\ invitations'[u] = {}
                      /\ events' = {}
    BY DEF EmptyUnlessStored
  <2>1. ~Stored
    BY DEF Stored
  <2>2. /\ \A u \in Users : member[u] = NoRow /\ invitations[u] = {}
        /\ events' = {}
    BY <2>1 DEF Safe, EmptyUnlessStored
  <2>3. ASSUME NEW u \in Users PROVE member'[u] = NoRow
    <3>1. member'[u] \in Row /\ ~Exists(member[u])
      BY <2>2 DEF TypeOK, Exists, NoRow
    <3> QED
      BY <3>1, NoRowFacts
  <2> QED
    BY <2>1, <2>2, <2>3
<1>2. JoinNeedsInvitation'
  <2> SUFFICES ASSUME NEW u \in Users, Exists(member'[u])
               PROVE  <<"GROUP_CREATED", u>> \in events' \/ u \in invited'
    BY DEF JoinNeedsInvitation, Exists
  <2> QED
    BY DEF Safe, JoinNeedsInvitation
<1>3. HistoryExplainsMembership'
  <2> SUFFICES ASSUME NEW u \in Users
               PROVE  /\ Exists(member'[u]) <=> u \in accounts' /\ Entered(u)'
                      /\ member'[u].removed => \/ <<"MEMBER_LEFT", u>> \in events'
                                              \/ <<"MEMBER_REMOVED", u>> \in events'
                      /\ member'[u].role = "OWNER" => OwnerOnRecord(u)'
    BY DEF HistoryExplainsMembership, Entered, Exists
  <2>1. /\ Exists(member[u]) <=> u \in accounts /\ Entered(u)
        /\ member[u].removed => \/ <<"MEMBER_LEFT", u>> \in events
                               \/ <<"MEMBER_REMOVED", u>> \in events
        /\ member[u].role = "OWNER" => OwnerOnRecord(u)
    BY DEF Safe, HistoryExplainsMembership, Entered
  <2>2. (Entered(u) => Entered(u)') /\ (OwnerOnRecord(u) => OwnerOnRecord(u)')
    BY DEF Entered, OwnerOnRecord
  <2> QED
    BY <2>1, <2>2
<1> QED
  BY <1>1, <1>2, <1>3 DEF Safe

\* The same for steps that change neither members nor events.
LEMMA QuietSafe ==
    ASSUME TypeOK, TypeOK', Safe, AnswersKnown', NoCallBeforeCreation', InvitationsKnown',
           accounts' = accounts, group' = group, invited \subseteq invited',
           member' = member, events' = events,
           Stored \/ \A u \in Users : invitations'[u] # {} => invitations[u] # {}
    PROVE  Safe'
<1>1. \A u \in Users :
        /\ Entered(u)' => Entered(u)
        /\ Exists(member'[u]) <=> Exists(member[u])
        /\ member'[u].removed =>
               \/ member[u].removed
               \/ <<"MEMBER_LEFT", u>> \in events' \/ <<"MEMBER_REMOVED", u>> \in events'
        /\ member'[u].role = "OWNER" => member[u].role = "OWNER" \/ OwnerOnRecord(u)'
  BY DEF Entered
<1> QED
  BY <1>1, SafeKept

\* A call that ends and writes nothing.
LEMMA FailSafe ==
    ASSUME TypeOK, TypeOK', Safe, NEW r \in Requests, Fail(r)
    PROVE  Safe'
<1>1. UNCHANGED <<accounts, group, member, invitations, events, invited>> /\ End(r)
  BY DEF Fail, db
<1>2. AnswersKnown' /\ NoCallBeforeCreation' /\ InvitationsKnown'
  BY <1>1, AnswersKept DEF Safe, Stored, InvitationsKnown
<1> QED
  BY <1>1, <1>2, QuietSafe

\* Creation: the creator owns the group, alone.
LEMMA CreateGroupSafe ==
    ASSUME TypeOK, Safe, NEW u \in Users, CreateGroup(u)
    PROVE  Safe'
<1>1. /\ \A r \in Requests : req'[r] = Idle \/ req'[r].op = "DeleteUser"
      /\ \A v \in Users : invitations'[v] = {}
      /\ member'[u] = [role |-> "OWNER", removed |-> FALSE]
      /\ \A v \in Users \ {u} : member'[v] = NoRow
      /\ group' = "LIVE" /\ accounts' = accounts /\ u \in accounts
      /\ events' = {<<"GROUP_CREATED", u>>}
  BY DEF CreateGroup, Safe, NoCallBeforeCreation, EmptyUnlessStored, Stored, TypeOK
<1>2. EmptyUnlessStored' /\ NoCallBeforeCreation' /\ AnswersKnown' /\ InvitationsKnown'
  BY <1>1 DEF EmptyUnlessStored, Stored, NoCallBeforeCreation, AnswersKnown, InvitationsKnown
<1>3. JoinNeedsInvitation'
  BY <1>1 DEF JoinNeedsInvitation, Exists, NoRow
<1>4. HistoryExplainsMembership'
  BY <1>1 DEF HistoryExplainsMembership, OwnerOnRecord, Exists, NoRow
<1> QED
  BY <1>2, <1>3, <1>4 DEF Safe

\* An invitation that expires is still an invitation.
LEMMA ExpireSafe ==
    ASSUME TypeOK, TypeOK', Safe, NEW u \in Users, Expire(u)
    PROVE  Safe'
<1>1. /\ UNCHANGED <<accounts, group, member, events, req, invited>>
      /\ \A v \in Users : invitations[v] # {} <=> invitations'[v] # {}
  <2>1. PICK i \in invitations[u], kept \in BOOLEAN :
          /\ invitations' = [invitations EXCEPT ![u] =
               (IF kept THEN @ ELSE @ \ {i}) \cup {[i EXCEPT !.status = "EXPIRED"]}]
          /\ UNCHANGED <<accounts, group, member, events, req, invited>>
    BY DEF Expire
  <2>2. /\ i \in invitations[u] /\ [i EXCEPT !.status = "EXPIRED"] \in invitations'[u]
        /\ \A v \in Users \ {u} : invitations'[v] = invitations[v]
    BY <2>1 DEF TypeOK
  <2> QED
    BY <2>1, <2>2
<1>2. AnswersKnown' /\ NoCallBeforeCreation' /\ InvitationsKnown'
  BY <1>1 DEF Safe, AnswersKnown, Entered, Stored, NoCallBeforeCreation, InvitationsKnown
<1> QED
  BY <1>1, <1>2, QuietSafe

\* A new call has been told nothing yet.
LEMMA StartSafe ==
    ASSUME TypeOK, TypeOK', Safe, NEW r \in Requests, NEW op \in Op,
           NEW u \in Users, NEW t \in Users, Start(r, op, u, t)
    PROVE  Safe'
<1>1. UNCHANGED <<accounts, group, member, invitations, events, invited>>
  BY DEF Start, db
<1>2. /\ req'[r].op = op /\ req'[r].pending = Queries[op]
      /\ \A s \in Requests \ {r} : req'[s] = req[s]
  BY DEF Start, TypeOK
<1>3. "target" \in Queries["Transfer"] /\ "invitation" \in Queries["Accept"]
  BY DEF Queries
<1>4. AnswersKnown'
  BY <1>1, <1>2, <1>3 DEF Safe, AnswersKnown, Entered, Stored
<1>5. NoCallBeforeCreation' /\ InvitationsKnown'
  BY <1>1, <1>2 DEF Start, Safe, NoCallBeforeCreation, InvitationsKnown
<1> QED
  BY <1>1, <1>4, <1>5, QuietSafe

\* An answer is true when it is given: who has a row has entered, and who has an
\* invitation was invited.
LEMMA AnswerSafe ==
    ASSUME TypeOK, TypeOK', Safe, NEW r \in Requests, NEW q \in Query, Answer(r, q)
    PROVE  Safe'
<1>1. PICK i : req' = [req EXCEPT ![r] = Told(req[r], q, i)]
  BY DEF Answer
<1>2. /\ req[r] \in Call /\ req[r] # Idle
      /\ req[r].actor \in Users /\ req[r].target \in Users
  BY CallFacts DEF Answer
<1>3. UNCHANGED <<accounts, group, member, invitations, events, invited>>
  BY DEF Answer, db
<1>4. /\ req'[r].op = req[r].op /\ req'[r].actor = req[r].actor
      /\ req'[r].target = req[r].target /\ req'[r].pending = req[r].pending \ {q}
      /\ \A s \in Requests \ {r} : req'[s] = req[s]
  <2>1. req'[r] = Told(req[r], q, i) /\ \A s \in Requests \ {r} : req'[s] = req[s]
    BY <1>1 DEF TypeOK
  <2> QED
    BY <1>2, <2>1, ToldFacts
<1>5. q = "target" /\ req[r].op = "Transfer" => Entered(req[r].target)
  <2>1. q = "target" /\ req[r].op = "Transfer" => Exists(member[req[r].target])
    BY DEF Answer, Passes, TargetPasses, Active
  <2> QED
    BY <1>2, <2>1 DEF Safe, HistoryExplainsMembership, Entered
<1>6. q = "invitation" => req[r].actor \in invited
  BY <1>2 DEF Answer, Passes, Safe, InvitationsKnown
<1>7. AnswersKnown'
  BY <1>2, <1>3, <1>4, <1>5, <1>6 DEF Safe, AnswersKnown, Entered, Stored
<1>8. NoCallBeforeCreation' /\ InvitationsKnown'
  BY <1>2, <1>3, <1>4 DEF Safe, NoCallBeforeCreation, InvitationsKnown
<1> QED
  BY <1>3, <1>7, <1>8, QuietSafe

\* One more invitation, and one more user who was ever invited.
LEMMA InviteSafe ==
    ASSUME TypeOK, TypeOK', Safe, NEW r \in Requests, Invite(r)
    PROVE  Safe'
<1> DEFINE t == req[r].target
<1>1. /\ t \in Users /\ Stored /\ End(r)
      /\ invitations' = [invitations EXCEPT ![t] = @ \cup {Pending(req[r].actor)}]
      /\ invited' = invited \cup {t}
      /\ UNCHANGED <<accounts, group, member, events>>
  BY CallFacts DEF Invite, Ready
<1>2. AnswersKnown' /\ NoCallBeforeCreation'
  BY <1>1, AnswersKept DEF Safe, Stored
<1>3. InvitationsKnown'
  BY <1>1 DEF Safe, InvitationsKnown, TypeOK
<1> QED
  BY <1>1, <1>2, <1>3, QuietSafe

\* A new row appears together with its event, for somebody who was invited.
LEMMA JoinSafe ==
    ASSUME TypeOK, Safe, NEW r \in Requests, Join(r)
    PROVE  Safe'
<1> DEFINE u == req[r].actor
<1>1. /\ u \in Users /\ u \in accounts /\ Stored
      /\ req[r].op = "Accept" /\ req[r].pending = {} /\ req[r] # Idle
  BY CallFacts DEF Join, Ready
<1>2. /\ UNCHANGED <<accounts, group, invited>> /\ End(r) /\ SetAnswered(u)
      /\ events' = events \cup {<<"MEMBER_JOINED", u>>}
      /\ member'[u] = [role |-> "MEMBER", removed |-> FALSE]
      /\ \A v \in Users \ {u} : member'[v] = member[v]
  BY <1>1 DEF Join, TypeOK
<1>3. AnswersKnown' /\ NoCallBeforeCreation'
  BY <1>1, <1>2, AnswersKept DEF Safe, Stored
<1>4. u \in invited
  BY <1>1 DEF Safe, AnswersKnown
<1>5. InvitationsKnown'
  BY <1>1, <1>2, <1>4, SetAnsweredType DEF Safe, InvitationsKnown
<1>6. JoinNeedsInvitation'
  BY <1>1, <1>2, <1>4 DEF Safe, JoinNeedsInvitation, Exists
<1>7. EmptyUnlessStored'
  BY <1>1, <1>2 DEF EmptyUnlessStored, Stored
<1>8. HistoryExplainsMembership'
  <2> SUFFICES ASSUME NEW v \in Users
               PROVE  /\ Exists(member'[v]) <=> v \in accounts' /\ Entered(v)'
                      /\ member'[v].removed => \/ <<"MEMBER_LEFT", v>> \in events'
                                              \/ <<"MEMBER_REMOVED", v>> \in events'
                      /\ member'[v].role = "OWNER" => OwnerOnRecord(v)'
    BY DEF HistoryExplainsMembership, Entered, Exists
  <2>1. CASE v = u
    BY <1>1, <1>2, <2>1 DEF Entered, Exists
  <2>2. CASE v # u
    <3>1. member'[v] = member[v] /\ accounts' = accounts /\ events \subseteq events'
      BY <1>2, <2>2
    <3>2. Entered(v)' <=> Entered(v)
      BY <1>2, <2>2 DEF Entered
    <3>3. OwnerOnRecord(v) => OwnerOnRecord(v)'
      BY <3>1 DEF OwnerOnRecord
    <3>4. /\ Exists(member[v]) <=> v \in accounts /\ Entered(v)
          /\ member[v].removed => \/ <<"MEMBER_LEFT", v>> \in events
                                 \/ <<"MEMBER_REMOVED", v>> \in events
          /\ member[v].role = "OWNER" => OwnerOnRecord(v)
      BY DEF Safe, HistoryExplainsMembership, Entered
    <3>5. Exists(member'[v]) <=> v \in accounts' /\ Entered(v)'
      BY <3>1, <3>2, <3>4
    <3> QED
      BY <3>1, <3>3, <3>4, <3>5
  <2> QED
    BY <2>1, <2>2
<1> QED
  BY <1>3, <1>5, <1>6, <1>7, <1>8 DEF Safe

\* A row revived, if it is still there.
LEMMA RejoinSafe ==
    ASSUME TypeOK, TypeOK', Safe, NEW r \in Requests, Rejoin(r)
    PROVE  Safe'
<1>1. /\ req[r].actor \in Users /\ End(r)
      /\ member' = SetRemoved(member, req[r].actor, FALSE)
      /\ UNCHANGED <<accounts, group, invitations, events, invited>>
  BY CallFacts DEF Rejoin, Ready
<1>2. /\ \A v \in Users : member'[v].role = member[v].role
      /\ \A v \in Users : member'[v].removed => member[v].removed
  <2>1. member \in [Users -> Row] /\ FALSE \in BOOLEAN
    BY DEF TypeOK
  <2>2. /\ \A v \in Users : member'[v].role = member[v].role
        /\ \A v \in Users \ {req[r].actor} : member'[v] = member[v]
        /\ ~member'[req[r].actor].removed
    BY <1>1, <2>1, SetRemovedFacts
  <2> QED
    BY <2>2
<1>3. AnswersKnown' /\ NoCallBeforeCreation' /\ InvitationsKnown'
  BY <1>1, AnswersKept DEF Safe, Stored, InvitationsKnown
<1>4. \A u \in Users :
        /\ Entered(u)' => Entered(u)
        /\ Exists(member'[u]) <=> Exists(member[u])
        /\ member'[u].removed =>
               \/ member[u].removed
               \/ <<"MEMBER_LEFT", u>> \in events' \/ <<"MEMBER_REMOVED", u>> \in events'
        /\ member'[u].role = "OWNER" => member[u].role = "OWNER" \/ OwnerOnRecord(u)'
  BY <1>1, <1>2 DEF Entered, Exists
<1> QED
  BY <1>1, <1>3, <1>4, SafeKept

\* Invitations answered, none new.
LEMMA AnsweredSafe ==
    ASSUME TypeOK, TypeOK', Safe, NEW r \in Requests, Reject(r) \/ MarkExpired(r)
    PROVE  Safe'
<1>1. /\ req[r].actor \in Users /\ End(r) /\ SetAnswered(req[r].actor)
      /\ UNCHANGED <<accounts, group, member, events, invited>>
  BY CallFacts DEF Reject, MarkExpired, Ready
<1>2. \A v \in Users : invitations'[v] # {} => invitations[v] # {}
  BY <1>1, SetAnsweredType
<1>3. AnswersKnown' /\ NoCallBeforeCreation' /\ InvitationsKnown'
  BY <1>1, <1>2, AnswersKept DEF Safe, Stored, InvitationsKnown
<1> QED
  BY <1>1, <1>2, <1>3, QuietSafe

\* Roles stay when members leave or are removed, which goes on record.
LEMMA RemovalSafe ==
    ASSUME TypeOK, TypeOK', Safe, NEW r \in Requests, Leave(r) \/ Remove(r)
    PROVE  Safe'
<1>1. PICK u \in Users, type \in {"MEMBER_LEFT", "MEMBER_REMOVED"} :
        RemoveMemberFromGroup(u, type) /\ End(r)
  BY CallFacts DEF Leave, Remove, Ready
<1>2. /\ Stored /\ events' = events \cup {<<type, u>>}
      /\ member' = SetRemoved(member, u, TRUE)
      /\ UNCHANGED <<accounts, group, invitations, invited>>
  BY <1>1 DEF RemoveMemberFromGroup
<1>3. /\ \A v \in Users : member'[v].role = member[v].role
      /\ \A v \in Users \ {u} : member'[v] = member[v]
  <2>1. member \in [Users -> Row] /\ TRUE \in BOOLEAN
    BY DEF TypeOK
  <2> QED
    BY <1>2, <2>1, SetRemovedFacts
<1>4. AnswersKnown' /\ NoCallBeforeCreation' /\ InvitationsKnown'
  BY <1>1, <1>2, AnswersKept DEF Safe, Stored, InvitationsKnown
<1>5. \A v \in Users :
        /\ Entered(v)' => Entered(v)
        /\ Exists(member'[v]) <=> Exists(member[v])
        /\ member'[v].removed =>
               \/ member[v].removed
               \/ <<"MEMBER_LEFT", v>> \in events' \/ <<"MEMBER_REMOVED", v>> \in events'
        /\ member'[v].role = "OWNER" => member[v].role = "OWNER" \/ OwnerOnRecord(v)'
  BY <1>2, <1>3 DEF Entered, Exists
<1> QED
  BY <1>2, <1>4, <1>5, SafeKept

\* What a transfer writes: one row loses the role, another gets it, if they exist.
LEMMA TransferFacts ==
    ASSUME TypeOK, NEW r \in Requests, Transfer(r)
    PROVE  LET a == req[r].actor  t == req[r].target IN
           /\ a \in Users /\ t \in Users /\ Stored /\ End(r)
           /\ req[r] # Idle /\ req[r].op = "Transfer" /\ req[r].pending = {}
           /\ UNCHANGED <<accounts, group, invitations, invited>>
           /\ events' = events \cup {<<"OWNERSHIP_TRANSFERRED", t>>}
           /\ \A v \in Users : /\ Exists(member'[v]) <=> Exists(member[v])
                               /\ member'[v].removed = member[v].removed
           /\ \A v \in Users \ {a, t} : member'[v] = member[v]
           /\ a # t /\ Exists(member[a]) => member'[a].role = "MEMBER"
           /\ Exists(member[t]) => member'[t].role = "OWNER"
           /\ member' \in [Users -> Row]
<1> DEFINE a == req[r].actor  t == req[r].target
           demoted == SetRole(member, a, "MEMBER")
<1>1. /\ a \in Users /\ t \in Users
      /\ req[r] # Idle /\ req[r].op = "Transfer" /\ req[r].pending = {}
  BY CallFacts DEF Transfer, Ready
<1>2. /\ Stored /\ UNCHANGED <<accounts, group, invitations, invited>> /\ End(r)
      /\ events' = events \cup {<<"OWNERSHIP_TRANSFERRED", t>>}
      /\ member' = SetRole(demoted, t, "OWNER")
  BY DEF Transfer
<1>3. /\ demoted \in [Users -> Row]
      /\ \A v \in Users : /\ Exists(demoted[v]) <=> Exists(member[v])
                          /\ demoted[v].removed = member[v].removed
      /\ \A v \in Users \ {a} : demoted[v] = member[v]
      /\ Exists(member[a]) => demoted[a].role = "MEMBER"
  BY <1>1, SetRoleFacts DEF TypeOK
<1> HIDE DEF demoted
<1>4. /\ member' \in [Users -> Row]
      /\ \A v \in Users : /\ Exists(member'[v]) <=> Exists(demoted[v])
                          /\ member'[v].removed = demoted[v].removed
      /\ \A v \in Users \ {t} : member'[v] = demoted[v]
      /\ Exists(demoted[t]) => member'[t].role = "OWNER"
  BY <1>1, <1>2, <1>3, SetRoleFacts
<1> QED
  BY <1>1, <1>2, <1>3, <1>4

\* A new owner is on record.
LEMMA TransferSafe ==
    ASSUME TypeOK, TypeOK', Safe, NEW r \in Requests, Transfer(r)
    PROVE  Safe'
<1>1. AnswersKnown' /\ NoCallBeforeCreation' /\ InvitationsKnown'
  BY TransferFacts, AnswersKept DEF Safe, Stored, InvitationsKnown
<1>2. ASSUME NEW v \in Users, member'[v].role = "OWNER", member[v].role # "OWNER"
      PROVE  v = req[r].target
  BY <1>2, TransferFacts DEF Exists
<1>3. \A v \in Users :
        /\ Entered(v)' => Entered(v)
        /\ Exists(member'[v]) <=> Exists(member[v])
        /\ member'[v].removed =>
               \/ member[v].removed
               \/ <<"MEMBER_LEFT", v>> \in events' \/ <<"MEMBER_REMOVED", v>> \in events'
        /\ member'[v].role = "OWNER" => member[v].role = "OWNER" \/ OwnerOnRecord(v)'
  BY <1>2, TransferFacts DEF Entered, OwnerOnRecord
<1> QED
  BY <1>1, <1>3, TransferFacts, SafeKept

\* Nothing is left when the group goes.
LEMMA DropGroupSafe ==
    ASSUME TypeOK, Safe, NEW r \in Requests, DropGroup, End(r), invited' = invited
    PROVE  Safe'
<1>1. /\ ~Stored' /\ group' # "ABSENT" /\ events' = {}
      /\ \A u \in Users : member'[u] = NoRow /\ invitations'[u] = {}
  BY DEF DropGroup, Stored
<1>2. AnswersKnown' /\ NoCallBeforeCreation'
  BY <1>1, AnswersKept DEF Safe
<1>3. EmptyUnlessStored' /\ InvitationsKnown'
  BY <1>1 DEF EmptyUnlessStored, InvitationsKnown
<1>4. JoinNeedsInvitation' /\ HistoryExplainsMembership'
  BY <1>1 DEF JoinNeedsInvitation, HistoryExplainsMembership, Exists, NoRow
<1> QED
  BY <1>2, <1>3, <1>4 DEF Safe

\* What the deletion of an account takes along when the group stays.
LEMMA DropRowsFacts ==
    ASSUME TypeOK, NEW u \in Users, DropRowsOf(u)
    PROVE  /\ group' = group /\ events' = events
           /\ member'[u] = NoRow
           /\ \A v \in Users \ {u} : member'[v] = member[v]
           /\ \A v \in Users : invitations'[v] \subseteq invitations[v]
BY DEF DropRowsOf, TypeOK

\* The rows of a user and its account go together.
LEMMA DropRowsSafe ==
    ASSUME TypeOK, Safe, NEW r \in Requests, End(r), invited' = invited,
           NEW u \in Users, DropRowsOf(u), accounts' = accounts \ {u}
    PROVE  Safe'
<1>1. AnswersKnown' /\ NoCallBeforeCreation'
  BY DropRowsFacts, AnswersKept DEF Safe, Stored
<1>2. InvitationsKnown'
  BY DropRowsFacts DEF Safe, InvitationsKnown
<1>3. EmptyUnlessStored'
  <2> SUFFICES ASSUME ~Stored'
               PROVE  /\ \A v \in Users : member'[v] = NoRow /\ invitations'[v] = {}
                      /\ events' = {}
    BY DEF EmptyUnlessStored
  <2>1. (\A v \in Users : member[v] = NoRow /\ invitations[v] = {}) /\ events = {}
    BY DropRowsFacts DEF Safe, EmptyUnlessStored, Stored
  <2> QED
    BY <2>1, DropRowsFacts
<1>4. JoinNeedsInvitation'
  BY DropRowsFacts DEF Safe, JoinNeedsInvitation, Exists, NoRow
<1>5. HistoryExplainsMembership'
  <2> SUFFICES ASSUME NEW v \in Users
               PROVE  /\ Exists(member'[v]) <=> v \in accounts' /\ Entered(v)'
                      /\ member'[v].removed => \/ <<"MEMBER_LEFT", v>> \in events'
                                              \/ <<"MEMBER_REMOVED", v>> \in events'
                      /\ member'[v].role = "OWNER" => OwnerOnRecord(v)'
    BY DEF HistoryExplainsMembership, Entered, Exists
  <2>1. CASE v = u
    BY <2>1, DropRowsFacts DEF Exists, NoRow
  <2>2. CASE v # u
    <3>1. /\ member'[v] = member[v] /\ events' = events
          /\ v \in accounts' <=> v \in accounts
      BY <2>2, DropRowsFacts
    <3>2. (Entered(v)' <=> Entered(v)) /\ (OwnerOnRecord(v)' <=> OwnerOnRecord(v))
      BY <3>1 DEF Entered, OwnerOnRecord
    <3>3. /\ Exists(member[v]) <=> v \in accounts /\ Entered(v)
          /\ member[v].removed => \/ <<"MEMBER_LEFT", v>> \in events
                                 \/ <<"MEMBER_REMOVED", v>> \in events
          /\ member[v].role = "OWNER" => OwnerOnRecord(v)
      BY DEF Safe, HistoryExplainsMembership, Entered
    <3>4. Exists(member'[v]) <=> v \in accounts' /\ Entered(v)'
      BY <3>1, <3>2, <3>3
    <3> QED
      BY <3>1, <3>2, <3>3, <3>4
  <2> QED
    BY <2>1, <2>2
<1> QED
  BY <1>1, <1>2, <1>3, <1>4, <1>5 DEF Safe

\* What the deletion of an account does: one or the other.
LEMMA DeleteUserFacts ==
    ASSUME TypeOK, NEW r \in Requests, DeleteUser(r)
    PROVE  LET u == req[r].actor IN
           /\ u \in Users /\ End(r) /\ invited' = invited /\ accounts' = accounts \ {u}
           /\ req[r] # Idle /\ req[r].op = "DeleteUser" /\ req[r].pending = {}
           /\ \/ DropGroup /\ req[r].wasAlone /\ Stored
              \/ DropRowsOf(u) /\ ~(req[r].wasAlone /\ Stored)
BY CallFacts DEF DeleteUser, Ready

LEMMA DeleteSafe ==
    ASSUME TypeOK, Safe, NEW r \in Requests, DeleteGroup(r) \/ DeleteUser(r)
    PROVE  Safe'
<1>1. CASE DeleteGroup(r)
  BY <1>1, DropGroupSafe DEF DeleteGroup
<1>2. CASE DeleteUser(r)
  BY <1>2, DeleteUserFacts, DropGroupSafe, DropRowsSafe
<1> QED
  BY <1>1, <1>2

LEMMA InitSafe == Init => Safe
BY DEF Init, Safe, EmptyUnlessStored, NoCallBeforeCreation, AnswersKnown, InvitationsKnown,
   Stored, JoinNeedsInvitation, HistoryExplainsMembership, Exists, NoRow

LEMMA NextSafe == TypeOK /\ Safe /\ [Next]_vars => Safe'
<1> SUFFICES ASSUME TypeOK, Safe, [Next]_vars PROVE Safe'
  OBVIOUS
<1>0. TypeOK'
  BY NextType
<1>1. CASE UNCHANGED vars
  <2>1. UNCHANGED <<accounts, group, member, invitations, events, req, invited>>
    BY <1>1 DEF vars, db
  <2>2. AnswersKnown' /\ NoCallBeforeCreation' /\ InvitationsKnown'
    BY <2>1 DEF Safe, AnswersKnown, Entered, Stored, NoCallBeforeCreation, InvitationsKnown
  <2> QED
    BY <1>0, <2>1, <2>2, QuietSafe
<1> QED
  BY <1>0, <1>1, CreateGroupSafe, ExpireSafe, StartSafe, AnswerSafe, InviteSafe, JoinSafe,
     RejoinSafe, AnsweredSafe, RemovalSafe, TransferSafe, DeleteSafe, FailSafe
     DEF Next

LEMMA SafeAlways == Spec => [](TypeOK /\ Safe)
<1>1. Init => TypeOK /\ Safe
  BY InitType, InitSafe
<1>2. TypeOK /\ Safe /\ [Next]_vars => (TypeOK /\ Safe)'
  BY NextType, NextSafe
<1> QED
  BY <1>1, <1>2, PTL DEF Spec

\* What OwnerRemains says of a step.
KeepsOwner ==
    Stored /\ Stored' /\ Owners # {} /\ Owners' = {} =>
        \E u \in Users \ accounts' :
            \/ u \in Owners
            \/ \E r \in Requests : /\ req[r] # Idle /\ req'[r] = Idle
                                   /\ req[r].op = "Transfer" /\ req[r].target = u

\* The promoted row is there to be promoted, or the account has gone.
LEMMA TransferKeepsOwner ==
    ASSUME TypeOK, Safe, NEW r \in Requests, Transfer(r)
    PROVE  KeepsOwner
<1> DEFINE t == req[r].target
<1>1. /\ t \in Users /\ Stored /\ req[r] # Idle /\ req'[r] = Idle
      /\ req[r].op = "Transfer" /\ "target" \notin req[r].pending /\ accounts' = accounts
  BY TransferFacts DEF End, TypeOK
<1>2. t \in accounts => Exists(member[t])
  BY <1>1 DEF Safe, AnswersKnown, HistoryExplainsMembership, Entered
<1>3. CASE t \in accounts
  BY <1>1, <1>2, <1>3, TransferFacts DEF KeepsOwner, Owners
<1>4. CASE t \notin accounts
  BY <1>1, <1>4 DEF KeepsOwner
<1> QED
  BY <1>3, <1>4

LEMMA NextKeepsOwner ==
    ASSUME TypeOK, Safe, [Next]_vars
    PROVE  KeepsOwner
<1>1. ASSUME NEW r \in Requests, Join(r) PROVE Owners \subseteq Owners'
  BY <1>1, CallFacts DEF Join, Ready, Owners, TypeOK, Exists
<1>2. ASSUME NEW r \in Requests, Rejoin(r) \/ Leave(r) \/ Remove(r) PROVE Owners \subseteq Owners'
  <2>1. PICK u \in Users, removed \in BOOLEAN : member' = SetRemoved(member, u, removed)
    BY <1>2, CallFacts DEF Rejoin, Leave, Remove, Ready, RemoveMemberFromGroup
  <2> QED
    BY <2>1, SetRemovedFacts DEF Owners, TypeOK
<1>3. ASSUME NEW r \in Requests, DeleteGroup(r) PROVE KeepsOwner
  BY <1>3 DEF DeleteGroup, DropGroup, KeepsOwner, Stored
<1>4. ASSUME NEW r \in Requests, DeleteUser(r) PROVE KeepsOwner
  <2> DEFINE u == req[r].actor
  <2>1. CASE DropGroup
    BY <2>1 DEF DropGroup, KeepsOwner, Stored
  <2>2. CASE DropRowsOf(u)
    <3>1. u \in Users \ accounts' /\ \A v \in Owners \ {u} : v \in Owners'
      BY <1>4, <2>2, DeleteUserFacts, DropRowsFacts DEF Owners
    <3> QED
      BY <3>1 DEF KeepsOwner
  <2> QED
    BY <1>4, <2>1, <2>2, DeleteUserFacts
<1>5. ASSUME NEW u \in Users, CreateGroup(u) PROVE KeepsOwner
  BY <1>5 DEF CreateGroup, KeepsOwner, Stored
<1>6. ASSUME \/ \E u \in Users : Expire(u)
             \/ \E r \in Requests, op \in Op, v, t \in Users : Start(r, op, v, t)
             \/ \E r \in Requests, q \in Query : Answer(r, q)
             \/ \E r \in Requests : Invite(r) \/ Reject(r) \/ MarkExpired(r) \/ Fail(r)
             \/ UNCHANGED vars
      PROVE  Owners \subseteq Owners'
  <2>1. member' = member
    BY <1>6 DEF Expire, Start, Answer, Invite, Reject, MarkExpired, Fail, db, vars
  <2> QED
    BY <2>1 DEF Owners
<1>7. Owners \subseteq Owners' => KeepsOwner
  BY DEF KeepsOwner
<1> QED
  BY <1>1, <1>2, <1>3, <1>4, <1>5, <1>6, <1>7, TransferKeepsOwner DEF Next

\* A stored group loses its last owner row only with an account, the owner's or
\* that of the user the ownership is transferred to, whatever calls overlap and
\* however stale their answers are (transferGroupOwnership, removeGroupMember,
\* leaveGroup, acceptGroupInvitation, deleteUser).
THEOREM OwnerAlwaysRemains == Spec => OwnerRemains
<1>1. TypeOK /\ Safe /\ [Next]_vars =>
        [Stored /\ Stored' /\ Owners # {} /\ Owners' = {} =>
           \E u \in Users \ accounts' :
              \/ u \in Owners
              \/ \E r \in Requests : /\ req[r] # Idle /\ req'[r] = Idle
                                     /\ req[r].op = "Transfer" /\ req[r].target = u]_vars
  BY NextKeepsOwner DEF KeepsOwner
<1> QED
  BY <1>1, SafeAlways, PTL DEF Spec, OwnerRemains

\* Nobody but the creator is in a group without having been invited
\* (acceptGroupInvitation), also when who invited has gone.
THEOREM JoinAlwaysNeedsInvitation == Spec => []JoinNeedsInvitation
<1>1. TypeOK /\ Safe => JoinNeedsInvitation
  BY DEF Safe
<1> QED
  BY <1>1, SafeAlways, PTL

\* The event history accounts for every membership row, removal and owner, and
\* the rows of all accounts that exist account for the entries in the history.
THEOREM HistoryAlwaysExplains == Spec => []HistoryExplainsMembership
<1>1. TypeOK /\ Safe => HistoryExplainsMembership
  BY DEF Safe
<1> QED
  BY <1>1, SafeAlways, PTL

\* Nothing of a deleted group comes back (deleteGroup and deleteUser against late
\* writes).
THEOREM DeletedAlwaysStaysEmpty == Spec => []DeletedStaysEmpty
<1>1. TypeOK /\ Safe => DeletedStaysEmpty
  BY DEF Safe, EmptyUnlessStored, DeletedStaysEmpty, Stored, Exists, NoRow
<1> QED
  BY <1>1, SafeAlways, PTL

----------------------------------------------------------------------------
(* One call at a time.  With a single slot no other call can change what a   *)
(* call was told before it writes (Fresh), and then the checks of the code   *)
(* are enough to keep one owner, who is present.  With two slots Fresh       *)
(* fails, and SoleActiveOwner with it: the run of OwnerIsNotRemoved shows    *)
(* how.                                                                      *)

OneSlot == \A r, s \in Requests : r = s

\* What deleteUser has found out so far is so now.
KnowsAlone(c) ==
    /\ "memberships" \in c.pending => "others" \in c.pending
    /\ "memberships" \notin c.pending =>
         (c.wasAlone <=> /\ Exists(member[c.actor])
                         /\ "others" \notin c.pending =>
                              \A v \in Users \ {c.actor} : ~Exists(member[v]))

\* The row checks that a call has passed would pass again now.
Fresh ==
    \A r \in Requests :
        Stored /\ req[r] # Idle =>
            /\ \A q \in {"actor", "target"} :
                 q \in Queries[req[r].op] \ req[r].pending => Passes(req[r], q)
            /\ req[r].op = "DeleteUser" => KnowsAlone(req[r])

\* The same, as what the writing steps need of it.
LEMMA ReadyFacts ==
    ASSUME TypeOK, Fresh, Stored, NEW r \in Requests,
           req[r] # Idle, req[r].pending = {}
    PROVE  /\ req[r].op = "Transfer" => /\ member[req[r].actor].role = "OWNER"
                                        /\ Active(member[req[r].target])
           /\ req[r].op = "Leave" => member[req[r].actor].role = "MEMBER"
           /\ req[r].op = "Remove" => member[req[r].target].role = "MEMBER"
           /\ req[r].op = "Delete" => member[req[r].actor].role = "OWNER"
           /\ req[r].op = "DeleteUser" =>
                (req[r].wasAlone <=>
                   /\ Exists(member[req[r].actor])
                   /\ \A v \in Users \ {req[r].actor} : ~Exists(member[v]))
<1>1. /\ {"actor", "target"} \subseteq Queries["Transfer"]
      /\ "actor" \in Queries["Leave"] /\ "target" \in Queries["Remove"]
      /\ "actor" \in Queries["Delete"]
  BY DEF Queries
<1>2. \A q \in {"actor", "target"} : q \in Queries[req[r].op] => Passes(req[r], q)
  BY DEF Fresh
<1>3. req[r].op = "Transfer" =>
        ActorPasses("Transfer", member[req[r].actor])
        /\ TargetPasses("Transfer", member[req[r].target])
  BY <1>1, <1>2 DEF Passes
<1>4. /\ req[r].op = "Leave" => ActorPasses("Leave", member[req[r].actor])
      /\ req[r].op = "Remove" => TargetPasses("Remove", member[req[r].target])
      /\ req[r].op = "Delete" => ActorPasses("Delete", member[req[r].actor])
  BY <1>1, <1>2 DEF Passes
<1>5. req[r].op = "DeleteUser" => KnowsAlone(req[r])
  BY DEF Fresh
<1> QED
  BY <1>3, <1>4, <1>5 DEF ActorPasses, TargetPasses, KnowsAlone

\* When the only call ends, none is left to hold an answer.
LEMMA EndFresh ==
    ASSUME TypeOK, OneSlot, NEW r \in Requests, End(r)
    PROVE  Fresh'
BY DEF TypeOK, OneSlot, End, Fresh

\* A step that touches neither the members nor the calls' answers.
LEMMA QuietFresh ==
    ASSUME Fresh, group' = group, member' = member, req' = req
    PROVE  Fresh'
<1>1. \A r \in Requests, q \in {"actor", "target"} :
        Passes(req[r], q) => Passes(req[r], q)'
  BY DEF Passes, ActorPasses, TargetPasses, Active, Exists, Stored
<1>2. \A r \in Requests : KnowsAlone(req[r]) => KnowsAlone(req[r])'
  BY DEF KnowsAlone, Exists
<1> QED
  BY <1>1, <1>2 DEF Fresh, Stored

\* A new call holds no answer.
LEMMA StartFresh ==
    ASSUME TypeOK, OneSlot, NEW r \in Requests, NEW op \in Op,
           NEW u \in Users, NEW t \in Users, Start(r, op, u, t)
    PROVE  Fresh'
<1>1. /\ \A s \in Requests : s = r
      /\ req'[r].op = op /\ req'[r].pending = Queries[op]
  BY DEF OneSlot, Start, TypeOK
<1>2. {"memberships", "others"} \subseteq Queries["DeleteUser"]
  BY DEF Queries
<1>3. op = "DeleteUser" => KnowsAlone(req[r])'
  BY <1>1, <1>2 DEF KnowsAlone
<1> QED
  BY <1>1, <1>3 DEF Fresh

\* An answer passes when it is given, and the earlier ones still do.
LEMMA AnswerFresh ==
    ASSUME TypeOK, OneSlot, Fresh, NEW r \in Requests, NEW q \in Query, Answer(r, q)
    PROVE  Fresh'
<1>1. PICK i : req' = [req EXCEPT ![r] = Told(req[r], q, i)]
  BY DEF Answer
<1>2. /\ req[r] \in Call /\ req[r] # Idle /\ Passes(req[r], q) /\ q \in req[r].pending
      /\ group' = group /\ member' = member
  BY CallFacts DEF Answer, db
<1>3. /\ \A s \in Requests : s = r
      /\ req'[r] = Told(req[r], q, i)
      /\ req'[r].op = req[r].op /\ req'[r].actor = req[r].actor
      /\ req'[r].target = req[r].target /\ req'[r].pending = req[r].pending \ {q}
  BY <1>1, <1>2, ToldFacts DEF OneSlot, TypeOK
<1>4. \A p \in {"actor", "target"} : Passes(req[r], p) => Passes(req[r], p)'
  BY <1>2, <1>3 DEF Passes, ActorPasses, TargetPasses, Active, Exists
<1>5. ASSUME req[r].op = "DeleteUser", KnowsAlone(req[r]) PROVE KnowsAlone(req[r])'
  <2>1. q = "others" => "memberships" \notin req[r].pending
    BY <1>2 DEF Passes
  <2>2. req'[r].wasAlone =
          IF q = "memberships" THEN Exists(member[req[r].actor])
          ELSE /\ req[r].wasAlone
               /\ q = "others" => \A v \in Users \ {req[r].actor} : ~Exists(member[v])
    BY <1>3 DEF Told
  <2>3. CASE q = "memberships"
    BY <1>2, <1>3, <1>5, <2>2, <2>3 DEF KnowsAlone, Exists
  <2>4. CASE q = "others"
    BY <1>2, <1>3, <1>5, <2>1, <2>2, <2>4 DEF KnowsAlone, Exists
  <2>5. CASE q # "memberships" /\ q # "others"
    BY <1>2, <1>3, <1>5, <2>2, <2>5 DEF KnowsAlone, Exists
  <2> QED
    BY <2>3, <2>4, <2>5
<1> QED
  BY <1>2, <1>3, <1>4, <1>5 DEF Fresh, Stored

\* Creation needs the only slot, and makes one owner.
LEMMA CreateGroupSole ==
    ASSUME TypeOK, Safe, OneSlot, NEW u \in Users, CreateGroup(u)
    PROVE  SoleActiveOwner' /\ Fresh'
<1>1. /\ \A r \in Requests : req'[r] = Idle
      /\ member'[u] = [role |-> "OWNER", removed |-> FALSE]
      /\ \A v \in Users \ {u} : member'[v] = NoRow
  BY DEF CreateGroup, OneSlot, Safe, EmptyUnlessStored, Stored, TypeOK
<1>2. Owners' = {u}
  BY <1>1 DEF Owners, NoRow
<1> QED
  BY <1>1, <1>2 DEF SoleActiveOwner, Fresh

\* Steps that leave the owners owners and present, and the accounts alone.
LEMMA SoleKept ==
    ASSUME SoleActiveOwner, Stored' => Stored, accounts' = accounts, events \subseteq events',
           \A u \in Users : member'[u].role = "OWNER" <=> member[u].role = "OWNER",
           \A u \in Users : member[u].role = "OWNER" /\ member'[u].removed => member[u].removed
    PROVE  SoleActiveOwner'
<1> SUFFICES ASSUME Stored' PROVE SoleActiveOwner'
  BY DEF SoleActiveOwner
<1>1. Owners' = Owners
  BY DEF Owners
<1>2. CASE \E u \in Users : Owners = {u} /\ ~member[u].removed
  BY <1>1, <1>2 DEF SoleActiveOwner, Owners
<1>3. CASE Owners = {} /\ \E u \in Users \ accounts : OwnerOnRecord(u)
  BY <1>1, <1>3 DEF SoleActiveOwner, OwnerOnRecord
<1> QED
  BY <1>2, <1>3 DEF SoleActiveOwner

\* Joining and rejoining leave the owner's row and every role as they are.
LEMMA JoinSole ==
    ASSUME TypeOK, SoleActiveOwner, NEW r \in Requests, Join(r) \/ Rejoin(r)
    PROVE  SoleActiveOwner'
<1> DEFINE u == req[r].actor
<1>1. u \in Users /\ group' = group /\ accounts' = accounts /\ events \subseteq events'
  BY CallFacts DEF Join, Rejoin, Ready
<1>2. CASE Join(r)
  <2>1. /\ member[u].role = "NONE" /\ member'[u].role = "MEMBER"
        /\ \A v \in Users \ {u} : member'[v] = member[v]
    BY <1>1, <1>2 DEF Join, Exists, TypeOK
  <2> QED
    BY <1>1, <2>1, SoleKept DEF Stored
<1>3. CASE Rejoin(r)
  <2>1. member \in [Users -> Row] /\ FALSE \in BOOLEAN
    BY DEF TypeOK
  <2>2. member' = SetRemoved(member, u, FALSE)
    BY <1>3 DEF Rejoin
  <2>3. /\ \A v \in Users : member'[v].role = member[v].role
        /\ \A v \in Users \ {u} : member'[v] = member[v]
        /\ ~member'[u].removed
    BY <1>1, <2>1, <2>2, SetRemovedFacts
  <2> QED
    BY <1>1, <2>3, SoleKept DEF Stored
<1> QED
  BY <1>2, <1>3

\* Whoever leaves or is removed is a plain member, also when the row is written.
LEMMA RemovalSole ==
    ASSUME TypeOK, SoleActiveOwner, Fresh, NEW r \in Requests, Leave(r) \/ Remove(r)
    PROVE  SoleActiveOwner'
<1>1. PICK u \in Users :
        /\ Stored /\ group' = group /\ accounts' = accounts /\ events \subseteq events'
        /\ member' = SetRemoved(member, u, TRUE)
        /\ member[u].role = "MEMBER"
  BY CallFacts, ReadyFacts DEF Leave, Remove, Ready, RemoveMemberFromGroup
<1>2. member \in [Users -> Row] /\ TRUE \in BOOLEAN
  BY DEF TypeOK
<1>3. /\ \A v \in Users : member'[v].role = member[v].role
      /\ \A v \in Users \ {u} : member'[v] = member[v]
  BY <1>1, <1>2, SetRemovedFacts
<1> QED
  BY <1>1, <1>3, SoleKept DEF Stored

\* Ownership moves from the one owner to a member who is present.
LEMMA TransferSole ==
    ASSUME TypeOK, SoleActiveOwner, Fresh, NEW r \in Requests, Transfer(r)
    PROVE  SoleActiveOwner' /\ Owners = {req[r].actor} /\ Owners' = {req[r].target}
<1> DEFINE a == req[r].actor  t == req[r].target
<1>1. /\ a \in Users /\ t \in Users /\ Stored
      /\ member[a].role = "OWNER" /\ Active(member[t])
  BY TransferFacts, ReadyFacts
<1>2. Owners = {a}
  BY <1>1 DEF SoleActiveOwner, Owners
<1>3. /\ member'[t].role = "OWNER" /\ ~member'[t].removed
      /\ \A v \in Users \ {t} : member'[v].role # "OWNER"
  <2>1. Exists(member[t]) /\ ~member[t].removed /\ Exists(member[a])
    BY <1>1 DEF Active, Exists
  <2>2. \A v \in Users \ {a} : member[v].role # "OWNER"
    BY <1>2 DEF Owners
  <2> QED
    BY <2>1, <2>2, TransferFacts
<1>4. Owners' = {t}
  BY <1>1, <1>3 DEF Owners
<1> QED
  BY <1>1, <1>2, <1>3, <1>4 DEF SoleActiveOwner

\* A group loses its owner with the owner's account only, on record.
LEMMA DeleteUserSole ==
    ASSUME TypeOK, Safe, SoleActiveOwner, NEW r \in Requests, DeleteUser(r)
    PROVE  SoleActiveOwner'
<1> DEFINE u == req[r].actor
<1>1. u \in Users /\ accounts' = accounts \ {u} /\ (DropGroup \/ DropRowsOf(u))
  BY DeleteUserFacts
<1>2. CASE DropGroup
  BY <1>2 DEF DropGroup, SoleActiveOwner, Stored
<1>3. CASE DropRowsOf(u)
  <2> SUFFICES ASSUME Stored' PROVE SoleActiveOwner'
    BY DEF SoleActiveOwner
  <2>1. /\ Stored /\ events' = events /\ member'[u] = NoRow
        /\ \A v \in Users \ {u} : member'[v] = member[v]
    BY <1>1, <1>3, DropRowsFacts DEF Stored
  <2>2. Owners' = Owners \ {u}
    BY <1>1, <2>1 DEF Owners, NoRow
  <2>3. \A v \in Users : OwnerOnRecord(v)' <=> OwnerOnRecord(v)
    BY <2>1 DEF OwnerOnRecord
  <2>4. ASSUME NEW o \in Users, Owners = {o}, ~member[o].removed PROVE SoleActiveOwner'
    <3>1. CASE o # u
      BY <2>1, <2>2, <2>4, <3>1 DEF SoleActiveOwner
    <3>2. CASE o = u
      <4>1. OwnerOnRecord(u)
        BY <1>1, <2>4, <3>2 DEF Safe, HistoryExplainsMembership, Owners
      <4> QED
        BY <1>1, <2>2, <2>3, <2>4, <3>2, <4>1 DEF SoleActiveOwner
    <3> QED
      BY <3>1, <3>2
  <2>5. ASSUME Owners = {}, NEW o \in Users \ accounts, OwnerOnRecord(o) PROVE SoleActiveOwner'
    BY <1>1, <2>2, <2>3, <2>5 DEF SoleActiveOwner
  <2> QED
    BY <2>1, <2>4, <2>5 DEF SoleActiveOwner
<1> QED
  BY <1>1, <1>2, <1>3

\* Steps without effect on members, accounts and events.
LEMMA QuietSole ==
    ASSUME SoleActiveOwner, UNCHANGED <<accounts, group, member, events>>
    PROVE  SoleActiveOwner'
BY SoleKept DEF Stored

LEMMA NextSole ==
    ASSUME OneSlot
    PROVE  TypeOK /\ Safe /\ SoleActiveOwner /\ Fresh /\ [Next]_vars
           => (SoleActiveOwner /\ Fresh)'
<1> SUFFICES ASSUME TypeOK, Safe, SoleActiveOwner, Fresh, [Next]_vars
             PROVE  SoleActiveOwner' /\ Fresh'
  OBVIOUS
<1>1. ASSUME NEW r \in Requests, Invite(r) \/ Reject(r) \/ MarkExpired(r) \/ Fail(r)
      PROVE  SoleActiveOwner' /\ Fresh'
  <2>1. UNCHANGED <<accounts, group, member, events>> /\ End(r)
    BY <1>1 DEF Invite, Reject, MarkExpired, Fail, db
  <2> QED
    BY <2>1, EndFresh, QuietSole
<1>2. ASSUME NEW r \in Requests, Join(r) \/ Rejoin(r)
      PROVE  SoleActiveOwner' /\ Fresh'
  BY <1>2, EndFresh, JoinSole DEF Join, Rejoin
<1>3. ASSUME NEW r \in Requests, Leave(r) \/ Remove(r)
      PROVE  SoleActiveOwner' /\ Fresh'
  BY <1>3, EndFresh, RemovalSole DEF Leave, Remove
<1>4. ASSUME NEW r \in Requests, Transfer(r) PROVE SoleActiveOwner' /\ Fresh'
  BY <1>4, EndFresh, TransferSole DEF Transfer
<1>5. ASSUME NEW r \in Requests, DeleteGroup(r) PROVE SoleActiveOwner' /\ Fresh'
  BY <1>5, EndFresh DEF DeleteGroup, DropGroup, SoleActiveOwner, Stored
<1>6. ASSUME NEW r \in Requests, DeleteUser(r) PROVE SoleActiveOwner' /\ Fresh'
  BY <1>6, EndFresh, DeleteUserFacts, DeleteUserSole
<1>7. ASSUME NEW u \in Users, Expire(u) PROVE SoleActiveOwner' /\ Fresh'
  BY <1>7, QuietFresh, QuietSole DEF Expire
<1>8. ASSUME NEW r \in Requests, NEW op \in Op, NEW u \in Users, NEW t \in Users,
             Start(r, op, u, t)
      PROVE  SoleActiveOwner' /\ Fresh'
  BY <1>8, StartFresh, QuietSole DEF Start, db
<1>9. ASSUME NEW r \in Requests, NEW q \in Query, Answer(r, q)
      PROVE  SoleActiveOwner' /\ Fresh'
  BY <1>9, AnswerFresh, QuietSole DEF Answer, db
<1>10. CASE UNCHANGED vars
  BY <1>10, QuietFresh, QuietSole DEF vars, db
<1> QED
  BY <1>1, <1>2, <1>3, <1>4, <1>5, <1>6, <1>7, <1>8, <1>9, <1>10, CreateGroupSole DEF Next

\* As long as calls do not overlap, a stored group has exactly one owner, who has
\* not been removed, unless the account of somebody who owned it has gone; for any
\* number of users and of calls: the checks of transferGroupOwnership, leaveGroup
\* and removeGroupMember suffice.
THEOREM SoleOwnerWithoutOverlap ==
    ASSUME OneSlot
    PROVE  Spec => []SoleActiveOwner
<1>1. Init => SoleActiveOwner /\ Fresh
  BY DEF Init, SoleActiveOwner, Fresh, Stored
<1>2. TypeOK /\ Safe /\ SoleActiveOwner /\ Fresh /\ [Next]_vars
        => (SoleActiveOwner /\ Fresh)'
  BY NextSole
<1> QED
  BY <1>1, <1>2, SafeAlways, PTL DEF Spec

----------------------------------------------------------------------------
(* Groups and accounts.  What deleteUser has read of the members is so when  *)
(* it writes (Fresh), so it finds out when the group would be left behind.   *)

LEMMA NextInhabited ==
    TypeOK /\ Fresh /\ GroupIsNotAbandoned /\ [Next]_vars => GroupIsNotAbandoned'
<1> SUFFICES ASSUME TypeOK, Fresh, GroupIsNotAbandoned, [Next]_vars, Stored'
             PROVE  \E u \in Users : Exists(member'[u])
  BY DEF GroupIsNotAbandoned, Exists
<1> DEFINE Kept == Stored /\ \A u \in Users : Exists(member[u]) => Exists(member'[u])
<1>1. ASSUME NEW u \in Users, CreateGroup(u) PROVE Exists(member'[u])
  BY <1>1 DEF CreateGroup, Exists, TypeOK
<1>2. ASSUME NEW r \in Requests, Join(r) PROVE Kept
  BY <1>2, CallFacts DEF Join, Ready, Exists, TypeOK
<1>3. ASSUME NEW r \in Requests, Rejoin(r) \/ Leave(r) \/ Remove(r) PROVE Kept
  <2>1. PICK u \in Users, removed \in BOOLEAN :
          member' = SetRemoved(member, u, removed) /\ group' = group
    BY <1>3, CallFacts DEF Rejoin, Leave, Remove, Ready, RemoveMemberFromGroup
  <2> QED
    BY <2>1, SetRemovedFacts DEF Exists, Stored, TypeOK
<1>4. ASSUME NEW r \in Requests, Transfer(r) PROVE Kept
  BY <1>4, TransferFacts
<1>5. ASSUME NEW r \in Requests, DeleteGroup(r) PROVE FALSE
  BY <1>5 DEF DeleteGroup, DropGroup, Stored
<1>6. ASSUME NEW r \in Requests, DeleteUser(r) PROVE \E u \in Users : Exists(member'[u])
  <2> DEFINE u == req[r].actor
  <2>1. /\ Stored /\ ~req[r].wasAlone /\ DropRowsOf(u) /\ u \in Users
        /\ req[r] # Idle /\ req[r].pending = {} /\ req[r].op = "DeleteUser"
    BY <1>6, DeleteUserFacts, DropRowsFacts DEF DropGroup, Stored
  <2>2. ~Exists(member[u]) \/ \E v \in Users \ {u} : Exists(member[v])
    BY <2>1, ReadyFacts
  <2>3. PICK v \in Users \ {u} : Exists(member[v])
    BY <2>1, <2>2 DEF GroupIsNotAbandoned
  <2>4. member'[v] = member[v]
    BY <2>1, <2>3, DropRowsFacts
  <2> QED
    BY <2>3, <2>4
<1>7. ASSUME \/ \E u \in Users : Expire(u)
             \/ \E r \in Requests, op \in Op, v, t \in Users : Start(r, op, v, t)
             \/ \E r \in Requests, q \in Query : Answer(r, q)
             \/ \E r \in Requests : Invite(r) \/ Reject(r) \/ MarkExpired(r) \/ Fail(r)
             \/ UNCHANGED vars
      PROVE  Kept
  <2>1. member' = member /\ group' = group
    BY <1>7 DEF Expire, Start, Answer, Invite, Reject, MarkExpired, Fail, db, vars
  <2> QED
    BY <2>1 DEF Stored
<1>8. Kept => \E u \in Users : Exists(member'[u])
  BY DEF GroupIsNotAbandoned
<1> HIDE DEF Kept
<1> QED
  BY <1>1, <1>2, <1>3, <1>4, <1>5, <1>6, <1>7, <1>8 DEF Next

\* As long as calls do not overlap, no deletion of an account leaves a group
\* behind of which nobody has a row, for any number of users and of calls (the
\* two queries of deleteUser).
THEOREM GroupNotAbandoned ==
    ASSUME OneSlot
    PROVE  Spec => []GroupIsNotAbandoned
<1>1. Init => SoleActiveOwner /\ Fresh /\ GroupIsNotAbandoned
  BY DEF Init, SoleActiveOwner, Fresh, GroupIsNotAbandoned, Stored
<1>2. TypeOK /\ Safe /\ SoleActiveOwner /\ Fresh /\ [Next]_vars
        => (SoleActiveOwner /\ Fresh)'
  BY NextSole
<1> QED
  BY <1>1, <1>2, NextInhabited, SafeAlways, PTL DEF Spec

----------------------------------------------------------------------------
(* Offers.  A member who is offered the group must have been out of it: who  *)
(* rejoins was removed on record, and an invitation is for no present member *)
(* when it is written, because the one call in flight looked (Fresh).        *)

OutOnRecord(u) == <<"MEMBER_LEFT", u>> \in events \/ <<"MEMBER_REMOVED", u>> \in events

\* What an accept was told of a removal is in the history.
RemovedOnRecord ==
    \A r \in Requests :
        Stored /\ req[r] # Idle /\ req[r].op = "Accept" /\ req[r].wasRemoved
            => OutOnRecord(req[r].actor)

\* It stays so when calls end and the history only grows.
LEMMA RecordKept ==
    ASSUME TypeOK, RemovedOnRecord, NEW r \in Requests, End(r), Stored' => Stored,
           Stored' => events \subseteq events'
    PROVE  RemovedOnRecord'
<1> SUFFICES ASSUME NEW s \in Requests, Stored', req'[s] # Idle,
                    req'[s].op = "Accept", req'[s].wasRemoved
             PROVE  \/ <<"MEMBER_LEFT", req'[s].actor>> \in events'
                    \/ <<"MEMBER_REMOVED", req'[s].actor>> \in events'
  BY DEF RemovedOnRecord, OutOnRecord
<1>1. s # r /\ req'[s] = req[s]
  BY DEF End, TypeOK
<1> QED
  BY <1>1 DEF RemovedOnRecord, OutOnRecord

LEMMA NextRecord == TypeOK /\ Safe /\ RemovedOnRecord /\ [Next]_vars => RemovedOnRecord'
<1> SUFFICES ASSUME TypeOK, Safe, RemovedOnRecord, [Next]_vars PROVE RemovedOnRecord'
  OBVIOUS
<1>1. ASSUME NEW r \in Requests,
             Invite(r) \/ Rejoin(r) \/ Reject(r) \/ MarkExpired(r) \/ Fail(r)
      PROVE  RemovedOnRecord'
  <2>1. End(r) /\ group' = group /\ events' = events
    BY <1>1 DEF Invite, Rejoin, Reject, MarkExpired, Fail, db
  <2> QED
    BY <2>1, RecordKept DEF Stored
<1>2. ASSUME NEW r \in Requests, Join(r) \/ Leave(r) \/ Remove(r) \/ Transfer(r)
      PROVE  RemovedOnRecord'
  <2>1. End(r) /\ group' = group /\ events \subseteq events'
    BY <1>2 DEF Join, Leave, Remove, RemoveMemberFromGroup, Transfer
  <2> QED
    BY <2>1, RecordKept DEF Stored
<1>3. ASSUME NEW r \in Requests, DeleteGroup(r) \/ DeleteUser(r) PROVE RemovedOnRecord'
  <2>1. CASE DropGroup
    BY <2>1 DEF DropGroup, RemovedOnRecord, Stored
  <2>2. CASE DropRowsOf(req[r].actor) /\ End(r)
    BY <2>2, RecordKept DEF DropRowsOf, Stored
  <2> QED
    BY <1>3, <2>1, <2>2, DeleteUserFacts DEF DeleteGroup
<1>4. ASSUME NEW u \in Users, CreateGroup(u) PROVE RemovedOnRecord'
  BY <1>4 DEF CreateGroup, Safe, NoCallBeforeCreation, RemovedOnRecord
<1>5. ASSUME (\E u \in Users : Expire(u)) \/ UNCHANGED vars PROVE RemovedOnRecord'
  BY <1>5 DEF Expire, vars, db, RemovedOnRecord, OutOnRecord, Stored
<1>6. ASSUME NEW r \in Requests, NEW op \in Op, NEW u \in Users, NEW t \in Users,
             Start(r, op, u, t)
      PROVE  RemovedOnRecord'
  <2>1. /\ req'[r].wasRemoved = FALSE /\ events' = events /\ group' = group
        /\ \A s \in Requests \ {r} : req'[s] = req[s]
    BY <1>6 DEF Start, db, TypeOK
  <2> QED
    BY <2>1 DEF RemovedOnRecord, OutOnRecord, Stored
<1>7. ASSUME NEW r \in Requests, NEW q \in Query, Answer(r, q) PROVE RemovedOnRecord'
  <2>1. PICK i : req' = [req EXCEPT ![r] = Told(req[r], q, i)]
    BY <1>7 DEF Answer
  <2>2. /\ req[r] \in Call /\ req[r] # Idle /\ req[r].actor \in Users
        /\ member' = member /\ events' = events /\ group' = group
    BY <1>7, CallFacts DEF Answer, db
  <2>3. /\ req'[r].actor = req[r].actor /\ req'[r].op = req[r].op
        /\ req'[r].wasRemoved => req[r].wasRemoved \/ member[req[r].actor].removed
        /\ \A s \in Requests \ {r} : req'[s] = req[s]
    BY <2>1, <2>2 DEF Told, TypeOK
  <2>4. member[req[r].actor].removed => OutOnRecord(req[r].actor)
    BY <2>2 DEF Safe, HistoryExplainsMembership, OutOnRecord
  <2> QED
    BY <2>2, <2>3, <2>4 DEF RemovedOnRecord, OutOnRecord, Stored
<1> QED
  BY <1>1, <1>2, <1>3, <1>4, <1>5, <1>6, <1>7 DEF Next

\* Nobody is offered what they never left.
Unoffered(u) ==
    Active(member[u]) /\ ~OutOnRecord(u) => \A i \in invitations[u] : i.status # "PENDING"

\* It stays so unless the member appears, the history shrinks or an offer is made.
LEMMA OfferKept ==
    ASSUME NEW u \in Users, Unoffered(u), Active(member'[u]) => Active(member[u]),
           events \subseteq events',
           \A i \in invitations'[u] : i.status = "PENDING" => i \in invitations[u]
    PROVE  Unoffered(u)'
BY DEF Unoffered, OutOnRecord, Active, Exists

\* The same where rows and invitations are as they were.
LEMMA SameOffer ==
    ASSUME NEW u \in Users, Unoffered(u), member'[u] = member[u],
           events \subseteq events', invitations'[u] \subseteq invitations[u]
    PROVE  Unoffered(u)'
BY OfferKept DEF Active, Exists

LEMMA InviteUnoffered ==
    ASSUME TypeOK, Fresh, NEW u \in Users, Unoffered(u), NEW r \in Requests, Invite(r)
    PROVE  Unoffered(u)'
<1>1. /\ req[r] # Idle /\ req[r].op = "Invite" /\ req[r].pending = {} /\ Stored
      /\ req[r].target \in Users /\ member' = member /\ events' = events
  BY CallFacts DEF Invite, Ready
<1>2. "target" \in Queries["Invite"]
  BY DEF Queries
<1>3. TargetPasses("Invite", member[req[r].target])
  BY <1>1, <1>2 DEF Fresh, Passes
<1>4. ~Active(member[req[r].target])
  BY <1>3 DEF TargetPasses
<1>5. CASE u = req[r].target
  BY <1>1, <1>4, <1>5 DEF Unoffered, Active, Exists
<1>6. CASE u # req[r].target
  <2>1. invitations'[u] = invitations[u]
    BY <1>1, <1>6 DEF Invite, TypeOK
  <2> QED
    BY <1>1, <2>1, SameOffer
<1> QED
  BY <1>5, <1>6

\* Who joins has nothing pending any more.
LEMMA JoinUnoffered ==
    ASSUME TypeOK, NEW u \in Users, Unoffered(u), NEW r \in Requests, Join(r)
    PROVE  Unoffered(u)'
<1>1. /\ req[r].actor \in Users /\ SetAnswered(req[r].actor) /\ events \subseteq events'
      /\ \A v \in Users \ {req[r].actor} : member'[v] = member[v]
  BY CallFacts DEF Join, Ready, TypeOK
<1>2. CASE u = req[r].actor
  BY <1>1, <1>2, SetAnsweredType DEF Unoffered
<1>3. CASE u # req[r].actor
  BY <1>1, <1>3, SetAnsweredType, SameOffer
<1> QED
  BY <1>2, <1>3

\* Whoever is back had been out, on record; without a row nothing is written.
LEMMA RejoinUnoffered ==
    ASSUME TypeOK, Safe, RemovedOnRecord, NEW u \in Users, Unoffered(u),
           NEW r \in Requests, Rejoin(r)
    PROVE  Unoffered(u)'
<1>1. /\ req[r] # Idle /\ req[r].op = "Accept" /\ req[r].actor \in Users
      /\ req[r].wasRemoved /\ events' = events /\ invitations' = invitations
      /\ member' = SetRemoved(member, req[r].actor, FALSE)
  BY CallFacts DEF Rejoin, Ready
<1>2. CASE u = req[r].actor /\ Stored
  <2>1. OutOnRecord(u)
    BY <1>1, <1>2 DEF RemovedOnRecord
  <2> QED
    BY <1>1, <2>1 DEF Unoffered, OutOnRecord
<1>3. CASE u # req[r].actor
  <2>1. member'[u] = member[u]
    BY <1>1, <1>3 DEF SetRemoved, TypeOK
  <2> QED
    BY <1>1, <2>1, SameOffer
<1>4. CASE ~Stored
  <2>1. member' = member
    BY <1>1, <1>4 DEF Safe, EmptyUnlessStored, SetRemoved, Exists, NoRow
  <2> QED
    BY <1>1, <2>1, SameOffer
<1> QED
  BY <1>2, <1>3, <1>4

LEMMA RemovalUnoffered ==
    ASSUME TypeOK, NEW u \in Users, Unoffered(u), NEW r \in Requests,
           Leave(r) \/ Remove(r)
    PROVE  Unoffered(u)'
<1>1. PICK v \in Users :
        /\ member' = SetRemoved(member, v, TRUE)
        /\ events \subseteq events' /\ invitations' = invitations
        /\ <<"MEMBER_LEFT", v>> \in events' \/ <<"MEMBER_REMOVED", v>> \in events'
  BY CallFacts DEF Leave, Remove, Ready, RemoveMemberFromGroup
<1>2. CASE u = v
  BY <1>1, <1>2 DEF Unoffered, OutOnRecord
<1>3. CASE u # v
  <2>1. member'[u] = SetRemoved(member, v, TRUE)[u]
    BY <1>1
  <2>2. SetRemoved(member, v, TRUE)[u] = member[u]
    BY <1>3 DEF SetRemoved, TypeOK
  <2> QED
    BY <1>1, <2>1, <2>2, SameOffer
<1> QED
  BY <1>2, <1>3

LEMMA TransferUnoffered ==
    ASSUME TypeOK, NEW u \in Users, Unoffered(u), NEW r \in Requests, Transfer(r)
    PROVE  Unoffered(u)'
<1>1. Active(member'[u]) => Active(member[u])
  BY TransferFacts DEF Active
<1>2. events \subseteq events' /\ invitations' = invitations
  BY TransferFacts
<1> QED
  BY <1>1, <1>2, OfferKept

LEMMA DeleteUnoffered ==
    ASSUME TypeOK, NEW u \in Users, Unoffered(u), NEW r \in Requests,
           DeleteGroup(r) \/ DeleteUser(r)
    PROVE  Unoffered(u)'
<1>1. CASE DropGroup
  BY <1>1 DEF DropGroup, Unoffered
<1>2. CASE DropRowsOf(req[r].actor) /\ req[r].actor \in Users
  <2>1. Active(member'[u]) => Active(member[u])
    BY <1>2, DropRowsFacts DEF Active, Exists, NoRow
  <2> QED
    BY <1>2, <2>1, DropRowsFacts, OfferKept
<1> QED
  BY <1>1, <1>2, DeleteUserFacts DEF DeleteGroup

LEMMA NextUnoffered ==
    TypeOK /\ Safe /\ Fresh /\ RemovedOnRecord
      /\ (\A u \in Users : Unoffered(u)) /\ [Next]_vars
    => (\A u \in Users : Unoffered(u))'
<1> SUFFICES ASSUME TypeOK, Safe, Fresh, RemovedOnRecord, [Next]_vars,
                    NEW u \in Users, Unoffered(u)
             PROVE  Unoffered(u)'
  OBVIOUS
<1>1. ASSUME NEW v \in Users, CreateGroup(v) PROVE Unoffered(u)'
  BY <1>1 DEF CreateGroup, Safe, EmptyUnlessStored, Stored, Unoffered
<1>2. ASSUME NEW v \in Users, Expire(v) PROVE Unoffered(u)'
  <2>1. PICK i \in invitations[v], kept \in BOOLEAN :
          /\ invitations' = [invitations EXCEPT ![v] =
               (IF kept THEN @ ELSE @ \ {i}) \cup {[i EXCEPT !.status = "EXPIRED"]}]
          /\ member' = member /\ events' = events
    BY <1>2 DEF Expire
  <2>2. [i EXCEPT !.status = "EXPIRED"].status # "PENDING"
    BY <2>1 DEF TypeOK, Invitation
  <2>3. \A j \in invitations'[u] : j.status = "PENDING" => j \in invitations[u]
    BY <2>1, <2>2 DEF TypeOK
  <2> QED
    BY <2>1, <2>3, OfferKept
<1>3. ASSUME NEW r \in Requests, Reject(r) \/ MarkExpired(r) PROVE Unoffered(u)'
  <2>1. /\ req[r].actor \in Users /\ SetAnswered(req[r].actor)
        /\ member' = member /\ events' = events
    BY <1>3, CallFacts DEF Reject, MarkExpired, Ready
  <2>2. \A i \in invitations'[u] : i.status = "PENDING" => i \in invitations[u]
    BY <2>1, SetAnsweredType
  <2> QED
    BY <2>1, <2>2, OfferKept
<1>4. ASSUME \/ \E r \in Requests, op \in Op, v, t \in Users : Start(r, op, v, t)
             \/ \E r \in Requests, q \in Query : Answer(r, q)
             \/ \E r \in Requests : Fail(r)
             \/ UNCHANGED vars
      PROVE  Unoffered(u)'
  BY <1>4, SameOffer DEF Start, Answer, Fail, db, vars
<1> QED
  BY <1>1, <1>2, <1>3, <1>4, InviteUnoffered, JoinUnoffered, RejoinUnoffered,
     RemovalUnoffered, TransferUnoffered, DeleteUnoffered DEF Next

\* As long as calls do not overlap, a member who was never out of the group is not
\* offered it again, for any number of users and of calls (USER_ALREADY_MEMBER of
\* inviteGroupMember, acceptGroupInvitation).
THEOREM MembersAreNotOffered ==
    ASSUME OneSlot
    PROVE  Spec => []MemberIsNotOffered
<1>1. Init => SoleActiveOwner /\ Fresh /\ RemovedOnRecord /\ \A u \in Users : Unoffered(u)
  BY DEF Init, SoleActiveOwner, Fresh, RemovedOnRecord, Stored, Unoffered
<1>2. TypeOK /\ Safe /\ SoleActiveOwner /\ Fresh /\ [Next]_vars
        => (SoleActiveOwner /\ Fresh)'
  BY NextSole
<1>3. (\A u \in Users : Unoffered(u)) => MemberIsNotOffered
  BY DEF Unoffered, OutOnRecord, MemberIsNotOffered
<1> QED
  BY <1>1, <1>2, <1>3, NextRecord, NextUnoffered, SafeAlways, PTL DEF Spec

=============================================================================
