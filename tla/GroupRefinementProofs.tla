----------------------- MODULE GroupRefinementProofs -----------------------
(* GroupMembership implements GroupOwnership while calls do not overlap, for *)
(* every set of users and every bound on the number of calls.                *)
EXTENDS GroupRefinement, GroupMembershipProofs

\* What users see of the rows, with group and Owners: the state of GroupOwnership.
PresentNow == {u \in Users : Active(member[u])}
GoneNow    == Users \ accounts

\* One step of the abstract specification, or none.
AbstractStep == [Serial!Next]_(Serial!ownership)

\* Steps after which users see what they saw before.
LEMMA Unseen ==
    ASSUME group' = group, Owners' = Owners, PresentNow' = PresentNow, accounts' = accounts
    PROVE  AbstractStep
BY DEF AbstractStep, Serial!ownership, Owners, PresentNow

LEMMA SameRowsUnseen ==
    ASSUME group' = group, member' = member, accounts' = accounts
    PROVE  AbstractStep
<1>1. Owners' = Owners /\ PresentNow' = PresentNow
  BY DEF Owners, PresentNow, Active, Exists
<1> QED
  BY <1>1, Unseen

\* Each action of GroupOwnership, in terms of the rows.
LEMMA IsCreate ==
    ASSUME NEW u \in Users, group = "ABSENT", group' = "LIVE", u \in accounts,
           Owners' = {u}, PresentNow' = {u}, accounts' = accounts
    PROVE  AbstractStep
<1>1. Serial!Create(u)
  BY DEF Serial!Create, Owners, PresentNow
<1> QED
  BY <1>1 DEF AbstractStep, Serial!Next

LEMMA IsAdmit ==
    ASSUME NEW u \in Users, Stored, group' = group, u \notin PresentNow, u \in accounts,
           Owners' = Owners, PresentNow' = PresentNow \cup {u}, accounts' = accounts
    PROVE  AbstractStep
<1>1. Serial!Admit(u)
  BY DEF Serial!Admit, Owners, PresentNow, Stored
<1> QED
  BY <1>1 DEF AbstractStep, Serial!Next

LEMMA IsDepart ==
    ASSUME NEW u \in Users, Stored, group' = group, u \in PresentNow \ Owners,
           Owners' = Owners, PresentNow' = PresentNow \ {u}, accounts' = accounts
    PROVE  AbstractStep
<1>1. Serial!Depart(u)
  BY DEF Serial!Depart, Owners, PresentNow, Stored
<1> QED
  BY <1>1 DEF AbstractStep, Serial!Next

LEMMA IsPassOn ==
    ASSUME NEW u \in Users, Stored, group' = group, u \in PresentNow \ Owners,
           Owners # {}, Owners' = {u}, PresentNow' = PresentNow, accounts' = accounts
    PROVE  AbstractStep
<1>1. Serial!PassOn(u)
  BY DEF Serial!PassOn, Owners, PresentNow, Stored
<1> QED
  BY <1>1 DEF AbstractStep, Serial!Next

LEMMA IsDissolve ==
    ASSUME Stored, group' = "DELETED", Owners # {}, Owners' = {}, PresentNow' = {},
           accounts' = accounts
    PROVE  AbstractStep
<1>1. Serial!Dissolve
  BY DEF Serial!Dissolve, Owners, PresentNow, Stored
<1> QED
  BY <1>1 DEF AbstractStep, Serial!Next

LEMMA IsVanish ==
    ASSUME NEW u \in Users, accounts' = accounts \ {u},
           Owners' = Owners \ {u}, PresentNow' = PresentNow \ {u},
           \/ group' = group
           \/ Stored /\ group' = "DELETED" /\ PresentNow \subseteq {u}
    PROVE  AbstractStep
<1>1. Serial!Vanish(u)
  <2>1. GoneNow' = GoneNow \cup {u}
    BY DEF GoneNow
  <2> QED
    BY <2>1 DEF Serial!Vanish, Owners, PresentNow, GoneNow, Stored
<1> QED
  BY <1>1 DEF AbstractStep, Serial!Next

----------------------------------------------------------------------------
(* The calls *)

\* createGroup makes the first user owner.
LEMMA CreateGroupStep ==
    ASSUME TypeOK, Safe, NEW u \in Users, CreateGroup(u)
    PROVE  AbstractStep
<1>1. /\ group = "ABSENT" /\ group' = "LIVE" /\ u \in accounts /\ accounts' = accounts
      /\ member'[u] = [role |-> "OWNER", removed |-> FALSE]
      /\ \A v \in Users \ {u} : member'[v] = NoRow
  BY DEF CreateGroup, Safe, EmptyUnlessStored, Stored, TypeOK
<1>2. Owners' = {u} /\ PresentNow' = {u}
  BY <1>1 DEF Owners, PresentNow, Active, Exists, NoRow
<1> QED
  BY <1>1, <1>2, IsCreate

\* acceptGroupInvitation admits its caller, or nobody.
LEMMA JoinStep ==
    ASSUME TypeOK, NEW r \in Requests, Join(r)
    PROVE  AbstractStep
<1> DEFINE u == req[r].actor
<1>1. /\ u \in Users /\ u \in accounts /\ accounts' = accounts
      /\ Stored /\ group' = group /\ member[u].role = "NONE"
      /\ member'[u] = [role |-> "MEMBER", removed |-> FALSE]
      /\ \A v \in Users \ {u} : member'[v] = member[v]
  BY CallFacts DEF Join, Ready, Exists, TypeOK
<1>2. /\ u \notin PresentNow
      /\ Owners' = Owners /\ PresentNow' = PresentNow \cup {u}
  BY <1>1 DEF Owners, PresentNow, Active, Exists
<1> QED
  BY <1>1, <1>2, IsAdmit

LEMMA RejoinStep ==
    ASSUME TypeOK, Safe, NEW r \in Requests, Rejoin(r)
    PROVE  AbstractStep
<1> DEFINE u == req[r].actor
<1>1. /\ u \in Users /\ group' = group /\ accounts' = accounts
      /\ member' = SetRemoved(member, u, FALSE)
  BY CallFacts DEF Rejoin, Ready
<1>2. /\ \A v \in Users : member'[v].role = member[v].role
      /\ \A v \in Users \ {u} : member'[v] = member[v]
      /\ ~member'[u].removed
  <2>1. member \in [Users -> Row] /\ FALSE \in BOOLEAN
    BY DEF TypeOK
  <2> QED
    BY <1>1, <2>1, SetRemovedFacts
<1>3. Owners' = Owners
  BY <1>2 DEF Owners
<1>4. CASE Exists(member[u]) /\ member[u].removed
  <2>1. Stored /\ u \in accounts
    BY <1>1, <1>4 DEF Safe, EmptyUnlessStored, Exists, NoRow, TypeOK
  <2>2. /\ Active(member'[u]) /\ ~Active(member[u])
        /\ \A v \in Users \ {u} : Active(member'[v]) = Active(member[v])
    BY <1>1, <1>2, <1>4 DEF Active, Exists
  <2>3. u \notin PresentNow /\ PresentNow' = PresentNow \cup {u}
    <3> HIDE DEF u
    <3> QED
      BY <1>1, <2>2 DEF PresentNow
  <2> QED
    BY <1>1, <1>3, <2>1, <2>3, IsAdmit
<1>5. CASE ~(Exists(member[u]) /\ member[u].removed)
  <2>1. PresentNow' = PresentNow
    BY <1>1, <1>2, <1>5 DEF PresentNow, Active, Exists
  <2> QED
    BY <1>1, <1>3, <2>1, Unseen
<1> QED
  BY <1>4, <1>5

\* leaveGroup and removeGroupMember let a plain member go, who may have gone
\* before.
LEMMA RemovalStep ==
    ASSUME TypeOK, Fresh, NEW r \in Requests, Leave(r) \/ Remove(r)
    PROVE  AbstractStep
<1>1. PICK u \in Users :
        /\ Stored /\ group' = group /\ accounts' = accounts
        /\ member' = SetRemoved(member, u, TRUE)
        /\ member[u].role = "MEMBER"
  BY CallFacts, ReadyFacts DEF Leave, Remove, Ready, RemoveMemberFromGroup
<1>2. /\ \A v \in Users : member'[v].role = member[v].role
      /\ \A v \in Users \ {u} : member'[v] = member[v]
  <2>1. member \in [Users -> Row] /\ TRUE \in BOOLEAN
    BY DEF TypeOK
  <2> QED
    BY <1>1, <2>1, SetRemovedFacts
<1>3. member'[u].removed
  BY <1>1 DEF TypeOK, SetRemoved, Exists, Row
<1>4. /\ Owners' = Owners /\ u \notin Owners
      /\ PresentNow' = PresentNow \ {u}
  BY <1>1, <1>2, <1>3 DEF Owners, PresentNow, Active, Exists
<1>5. CASE u \in PresentNow
  BY <1>1, <1>4, <1>5, IsDepart
<1>6. CASE u \notin PresentNow
  BY <1>1, <1>4, <1>6, Unseen
<1> QED
  BY <1>5, <1>6

\* transferGroupOwnership passes ownership to a member who is there.
LEMMA TransferStep ==
    ASSUME TypeOK, SoleActiveOwner, Fresh, NEW r \in Requests, Transfer(r)
    PROVE  AbstractStep
<1> DEFINE a == req[r].actor  t == req[r].target
<1>1. /\ a \in Users /\ t \in Users /\ Stored /\ group' = group /\ accounts' = accounts
      /\ Active(member[t])
  BY TransferFacts, ReadyFacts
<1>2. Owners = {a} /\ Owners' = {t}
  BY TransferSole
<1>3. PresentNow' = PresentNow /\ t \in PresentNow
  BY <1>1, TransferFacts DEF PresentNow, Active
<1>4. CASE t = a
  BY <1>1, <1>2, <1>3, <1>4, Unseen
<1>5. CASE t # a
  BY <1>1, <1>2, <1>3, <1>5, IsPassOn
<1> QED
  BY <1>4, <1>5

\* What nobody sees any more when the group is dropped, or had been dropped.
LEMMA DroppedFacts ==
    ASSUME TypeOK, Safe
    PROVE  /\ DropGroup => group' = "DELETED" /\ Owners' = {} /\ PresentNow' = {}
           /\ ~Stored => Owners = {} /\ PresentNow = {}
BY DEF DropGroup, Safe, EmptyUnlessStored, Owners, PresentNow, Active, Exists, NoRow

\* deleteGroup, whose caller is the owner, ends the group, unless it has ended.
LEMMA DeleteGroupStep ==
    ASSUME TypeOK, Safe, Fresh, NEW r \in Requests, DeleteGroup(r)
    PROVE  AbstractStep
<1>1. /\ DropGroup /\ group # "ABSENT" /\ accounts' = accounts
      /\ req[r] # Idle /\ req[r].op = "Delete" /\ req[r].pending = {}
      /\ req[r].actor \in Users
  BY CallFacts DEF DeleteGroup, Ready, Safe, NoCallBeforeCreation
<1>2. CASE Stored
  <2>1. Owners # {}
    BY <1>1, <1>2, ReadyFacts DEF Owners
  <2> QED
    BY <1>1, <1>2, <2>1, DroppedFacts, IsDissolve
<1>3. CASE ~Stored
  <2>1. group = "DELETED"
    BY <1>1, <1>3 DEF Stored, TypeOK
  <2> QED
    BY <1>1, <1>3, <2>1, DroppedFacts, Unseen
<1> QED
  BY <1>2, <1>3

\* deleteUser takes its user out of the group, and ends the group if it has found
\* nobody else there.
LEMMA DeleteUserStep ==
    ASSUME TypeOK, Safe, Fresh, NEW r \in Requests, DeleteUser(r)
    PROVE  AbstractStep
<1> DEFINE u == req[r].actor
<1>1. /\ u \in Users /\ accounts' = accounts \ {u}
      /\ req[r] # Idle /\ req[r].op = "DeleteUser" /\ req[r].pending = {}
  BY DeleteUserFacts
<1>2. CASE DropGroup /\ req[r].wasAlone /\ Stored
  <2>1. \A v \in Users \ {u} : ~Exists(member[v])
    BY <1>1, <1>2, ReadyFacts
  <2>2. Owners \subseteq {u} /\ PresentNow \subseteq {u}
    BY <2>1 DEF Owners, PresentNow, Active, Exists
  <2> QED
    BY <1>1, <1>2, <2>2, DroppedFacts, IsVanish
<1>3. CASE DropRowsOf(u)
  <2>1. /\ group' = group /\ member'[u] = NoRow
        /\ \A v \in Users \ {u} : member'[v] = member[v]
    BY <1>1, <1>3, DropRowsFacts
  <2>2. Owners' = Owners \ {u} /\ PresentNow' = PresentNow \ {u}
    BY <1>1, <2>1 DEF Owners, PresentNow, Active, Exists, NoRow
  <2> QED
    BY <1>1, <2>1, <2>2, IsVanish
<1> QED
  BY <1>2, <1>3, DeleteUserFacts

LEMMA NextStep ==
    TypeOK /\ Safe /\ SoleActiveOwner /\ Fresh /\ [Next]_vars => AbstractStep
<1> SUFFICES ASSUME TypeOK, Safe, SoleActiveOwner, Fresh, [Next]_vars
             PROVE  AbstractStep
  OBVIOUS
<1>1. ASSUME NEW r \in Requests, Invite(r) \/ Reject(r) \/ MarkExpired(r) \/ Fail(r)
      PROVE  AbstractStep
  BY <1>1, SameRowsUnseen DEF Invite, Reject, MarkExpired, Fail, db
<1>2. ASSUME NEW r \in Requests, Join(r) \/ Rejoin(r) PROVE AbstractStep
  BY <1>2, JoinStep, RejoinStep
<1>3. ASSUME NEW r \in Requests, Leave(r) \/ Remove(r) PROVE AbstractStep
  BY <1>3, RemovalStep
<1>4. ASSUME NEW r \in Requests, Transfer(r) \/ DeleteGroup(r) \/ DeleteUser(r)
      PROVE  AbstractStep
  BY <1>4, TransferStep, DeleteGroupStep, DeleteUserStep
<1>5. ASSUME NEW u \in Users, CreateGroup(u) \/ Expire(u) PROVE AbstractStep
  BY <1>5, CreateGroupStep, SameRowsUnseen DEF Expire
<1>6. ASSUME NEW r \in Requests, NEW op \in Op, NEW u \in Users, NEW t \in Users,
             Start(r, op, u, t)
      PROVE  AbstractStep
  BY <1>6, SameRowsUnseen DEF Start, db
<1>7. ASSUME NEW r \in Requests, NEW q \in Query, Answer(r, q) PROVE AbstractStep
  BY <1>7, SameRowsUnseen DEF Answer, db
<1>8. CASE UNCHANGED vars
  BY <1>8, SameRowsUnseen DEF vars, db
<1> QED
  BY <1>1, <1>2, <1>3, <1>4, <1>5, <1>6, <1>7, <1>8 DEF Next

\* While calls do not overlap, the service calls are the steps of GroupOwnership:
\* one owner, who is in the group, passes ownership on only to somebody who is in
\* the group, and goes only with its account, which takes the group along only if
\* nobody else is in it; whatever the number of users and of calls.
THEOREM GroupImplementsOwnership ==
    ASSUME OneSlot
    PROVE  Spec => ImplementsOwnership
<1>1. Init => Serial!Init
  BY DEF Init, Serial!Init, Owners, NoRow, Active, Exists
<1>2. Init => SoleActiveOwner /\ Fresh
  BY DEF Init, SoleActiveOwner, Fresh, Stored
<1>3. TypeOK /\ Safe /\ SoleActiveOwner /\ Fresh /\ [Next]_vars
        => (SoleActiveOwner /\ Fresh)'
  BY NextSole
<1>4. TypeOK /\ Safe /\ SoleActiveOwner /\ Fresh /\ [Next]_vars
        => [Serial!Next]_(Serial!ownership)
  BY NextStep DEF AbstractStep
<1> QED
  BY <1>1, <1>2, <1>3, <1>4, SafeAlways, PTL DEF Spec, ImplementsOwnership, Serial!Spec

=============================================================================
