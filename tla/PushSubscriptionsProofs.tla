---------------------- MODULE PushSubscriptionsProofs ----------------------
(* Proofs about PushSubscriptions, for every set of users, of endpoints and *)
(* of overlapping calls, and any number of rows.                            *)
EXTENDS PushSubscriptions, TLAPS

----------------------------------------------------------------------------
(* Calls *)

\* A call under way is one of Call, and has its fields.
LEMMA CallFacts ==
    ASSUME TypeOK, NEW q \in Requests, req[q] # Idle
    PROVE  /\ req[q] \in Call
           /\ req[q].at \in {"read", "write"} /\ req[q].endpoint \in Endpoints
           /\ req[q].found \in BOOLEAN /\ req[q].changed \in BOOLEAN
           /\ req[q].givenUp \in BOOLEAN
BY DEF TypeOK, Call

LEMMA CallIsNotIdle == \A c \in Call : c # Idle
BY DEF Call, Idle

\* A call goes on: it remembers what it saw, and that its endpoint has changed.
Carries(q, e, found, changed) ==
    /\ req'[q] \in Call
    /\ req'[q].at = req[q].at /\ req'[q].endpoint = e
    /\ req'[q].found = found
    /\ changed => req'[q].changed

\* The calls after a change to the rows of e: r ends, others on e know of it.
LEMMA TouchedFacts ==
    ASSUME TypeOK, NEW e \in Endpoints, NEW r, req' = Touched(e, r)
    PROVE  /\ req' \in [Requests -> {Idle} \cup Call]
           /\ \A q \in Requests :
                \/ req'[q] = Idle
                \/ /\ req[q] # Idle /\ req[q].endpoint = e
                   /\ Carries(q, e, req[q].found, TRUE)
                \/ req[q] # Idle /\ req[q].endpoint # e /\ req'[q] = req[q]
<1>1. ASSUME NEW q \in Requests, req[q] # Idle
      PROVE  LET c == [req[q] EXCEPT !.changed = TRUE] IN
             /\ c \in Call /\ c.at = req[q].at /\ c.endpoint = req[q].endpoint
             /\ c.found = req[q].found /\ c.changed = TRUE
  BY <1>1, CallFacts DEF Call
<1>2. ASSUME NEW q \in Requests
      PROVE  /\ req'[q] \in {Idle} \cup Call
             /\ \/ req'[q] = Idle
                \/ /\ req[q] # Idle /\ req[q].endpoint = e
                   /\ Carries(q, e, req[q].found, TRUE)
                \/ req[q] # Idle /\ req[q].endpoint # e /\ req'[q] = req[q]
  <2>1. req'[q] = IF q = r THEN Idle
                  ELSE IF Writing(q, e) THEN [req[q] EXCEPT !.changed = TRUE] ELSE req[q]
    BY DEF Touched
  <2>2. CASE q = r \/ req[q] = Idle
    BY <2>1, <2>2 DEF Writing
  <2>3. CASE q # r /\ Writing(q, e)
    BY <1>1, <2>1, <2>3 DEF Writing, Carries
  <2>4. CASE q # r /\ req[q] # Idle /\ ~Writing(q, e)
    BY <2>1, <2>4, CallFacts DEF Writing
  <2> QED
    BY <2>2, <2>3, <2>4
<1> QED
  BY <1>2 DEF Touched

\* The calls after the rows of e were deleted: those on e know of it, if there
\* were any.
LEMMA DeleteFacts ==
    ASSUME TypeOK, NEW e \in Endpoints, Delete(e)
    PROVE  /\ req' \in [Requests -> {Idle} \cup Call]
           /\ rows' = rows \ RowsOf(e)
           /\ \A q \in Requests :
                \/ req'[q] = Idle
                \/ /\ req[q] # Idle /\ req[q].endpoint = e
                   /\ Carries(q, e, req[q].found, req[q].changed \/ RowsOf(e) # {})
                \/ req[q] # Idle /\ req[q].endpoint # e /\ req'[q] = req[q]
<1>1. ASSUME NEW q \in Requests, req[q] # Idle
      PROVE  /\ LET c == [req[q] EXCEPT !.changed = TRUE, !.givenUp = TRUE] IN
                c \in Call /\ c.at = req[q].at /\ c.endpoint = req[q].endpoint
                /\ c.found = req[q].found /\ c.changed
             /\ LET c == [req[q] EXCEPT !.givenUp = TRUE] IN
                c \in Call /\ c.at = req[q].at /\ c.endpoint = req[q].endpoint
                /\ c.found = req[q].found /\ c.changed = req[q].changed
             /\ [req[q] EXCEPT !.changed = req[q].changed, !.givenUp = TRUE]
                  = [req[q] EXCEPT !.givenUp = TRUE]
  BY <1>1, CallFacts DEF Call
<1>2. ASSUME NEW q \in Requests
      PROVE  /\ req'[q] \in {Idle} \cup Call
             /\ \/ req'[q] = Idle
                \/ /\ req[q] # Idle /\ req[q].endpoint = e
                   /\ Carries(q, e, req[q].found, req[q].changed \/ RowsOf(e) # {})
                \/ req[q] # Idle /\ req[q].endpoint # e /\ req'[q] = req[q]
  <2>1. req'[q] = IF Writing(q, e)
                  THEN [req[q] EXCEPT !.changed = req[q].changed \/ RowsOf(e) # {},
                                      !.givenUp = TRUE]
                  ELSE req[q]
    BY DEF Delete
  <2>2. CASE req[q] = Idle
    BY <2>1, <2>2 DEF Writing
  <2>3. CASE Writing(q, e)
    <3>1. CASE req[q].changed \/ RowsOf(e) # {}
      <4>1. req'[q] = [req[q] EXCEPT !.changed = TRUE, !.givenUp = TRUE]
        BY <2>1, <2>3, <3>1
      <4> QED
        BY <1>1, <2>3, <3>1, <4>1 DEF Writing, Carries
    <3>2. CASE ~(req[q].changed \/ RowsOf(e) # {})
      <4>1. req'[q] = [req[q] EXCEPT !.changed = FALSE, !.givenUp = TRUE]
        BY <2>1, <2>3, <3>2
      <4>2. req[q] # Idle /\ req[q].changed = FALSE
        BY <2>3, <3>2, CallFacts DEF Writing
      <4>3. req'[q] = [req[q] EXCEPT !.givenUp = TRUE]
        BY <1>1, <4>1, <4>2
      <4> QED
        BY <1>1, <2>3, <3>2, <4>3 DEF Writing, Carries
    <3> QED
      BY <3>1, <3>2
  <2>4. CASE req[q] # Idle /\ ~Writing(q, e)
    BY <2>1, <2>4, CallFacts DEF Writing
  <2> QED
    BY <2>2, <2>3, <2>4
<1> QED
  BY <1>2 DEF Delete

\* The calls after an account was deleted: those on an endpoint that went with it
\* know of it.
LEMMA DeleteUserFacts ==
    ASSUME TypeOK, NEW u \in Users, DeleteUser(u)
    PROVE  LET gone == {s.endpoint : s \in {s \in rows : s.user = u}} IN
           /\ req' \in [Requests -> {Idle} \cup Call]
           /\ rows' = {s \in rows : s.user # u}
           /\ \A q \in Requests :
                \/ req'[q] = Idle
                \/ /\ req[q] # Idle
                   /\ Carries(q, req[q].endpoint, req[q].found,
                              req[q].changed \/ req[q].endpoint \in gone)
<1> DEFINE gone == {s.endpoint : s \in {s \in rows : s.user = u}}
<1>1. ASSUME NEW q \in Requests
      PROVE  /\ req'[q] \in {Idle} \cup Call
             /\ \/ req'[q] = Idle
                \/ /\ req[q] # Idle
                   /\ Carries(q, req[q].endpoint, req[q].found,
                              req[q].changed \/ req[q].endpoint \in gone)
  <2>1. req'[q] = IF req[q] = Idle THEN Idle
                  ELSE [req[q] EXCEPT !.user = IF req[q].user = u THEN Nobody ELSE req[q].user,
                                      !.changed = req[q].changed \/ req[q].endpoint \in gone,
                                      !.givenUp = req[q].givenUp \/ req[q].endpoint \in gone]
    BY DEF DeleteUser
  <2>2. CASE req[q] = Idle
    BY <2>1, <2>2
  <2>3. CASE req[q] # Idle
    <3>1. PICK v \in Users \cup {Nobody} : v = IF req[q].user = u THEN Nobody ELSE req[q].user
      BY <2>3, CallFacts DEF Call
    <3>0. req[q] \in Call
      BY <2>3, CallFacts
    <3>2. CASE req[q].endpoint \in gone
      <4>1. req'[q] = [req[q] EXCEPT !.user = v, !.changed = TRUE, !.givenUp = TRUE]
        BY <2>1, <2>3, <3>1, <3>2
      <4> QED
        <5> HIDE DEF gone
        <5>1. req'[q] \in Call
          BY <3>0, <4>1 DEF Call
        <5>2. /\ req'[q].at = req[q].at /\ req'[q].endpoint = req[q].endpoint
              /\ req'[q].found = req[q].found /\ req'[q].changed
          BY <3>0, <4>1 DEF Call
        <5> QED
          BY <2>3, <5>1, <5>2 DEF Carries
    <3>3. CASE req[q].endpoint \notin gone
      <4>0. req[q].changed \in BOOLEAN /\ req[q].givenUp \in BOOLEAN
        BY <2>3, CallFacts
      <4>1. req'[q] = [req[q] EXCEPT !.user = v, !.changed = req[q].changed,
                                     !.givenUp = req[q].givenUp]
        BY <2>1, <2>3, <3>1, <3>3, <4>0
      <4> QED
        <5> HIDE DEF gone
        <5>1. req'[q] \in Call
          BY <3>0, <4>0, <4>1 DEF Call
        <5>2. /\ req'[q].at = req[q].at /\ req'[q].endpoint = req[q].endpoint
              /\ req'[q].found = req[q].found /\ req'[q].changed = req[q].changed
          BY <3>0, <4>1 DEF Call
        <5> QED
          BY <2>3, <3>3, <5>1, <5>2 DEF Carries
    <3> QED
      BY <3>2, <3>3
  <2> QED
    BY <2>2, <2>3
<1> QED
  BY <1>1 DEF DeleteUser

----------------------------------------------------------------------------
(* Types *)

LEMMA InitType == Init => TypeOK
BY MaxRowsIsNat DEF Init, TypeOK

\* What an insertion leaves behind.
LEMMA CreateFacts ==
    ASSUME TypeOK, NEW r \in Requests, CreateSubscription(r)
    PROVE  LET e == req[r].endpoint
               s == [id |-> lastId + 1, user |-> req[r].user, endpoint |-> e] IN
           /\ e \in Endpoints /\ req' = Touched(e, r)
           /\ s \in Row /\ rows' = rows \cup {s}
           /\ lastId' = lastId + 1 /\ lastId' \in 0..MaxRows
           /\ \A t \in rows' : t.id <= lastId'
<1>1. req[r].endpoint \in Endpoints
  BY CallFacts DEF CreateSubscription
<1>2. lastId \in Nat /\ lastId + 1 \in 1..MaxRows
  BY MaxRowsIsNat DEF CreateSubscription, TypeOK
<1>3. rows \subseteq Row /\ \A t \in rows : t.id \in Nat /\ t.id <= lastId
  BY DEF TypeOK, Row
<1> QED
  BY <1>1, <1>2, <1>3 DEF CreateSubscription, Row

LEMMA NextType == TypeOK /\ [Next]_vars => TypeOK'
<1> SUFFICES ASSUME TypeOK, [Next]_vars PROVE TypeOK'
  OBVIOUS
<1>1. ASSUME NEW r \in Requests, NEW u \in Users, NEW e \in Endpoints, Subscribe(r, u, e)
      PROVE  TypeOK'
  <2>1. [at |-> "read", user |-> u, endpoint |-> e,
         found |-> FALSE, changed |-> FALSE, givenUp |-> FALSE] \in Call
    BY DEF Call
  <2> QED
    BY <1>1, <2>1 DEF Subscribe, TypeOK
<1>2. ASSUME NEW r \in Requests, FindEndpoint(r) PROVE TypeOK'
  <2>1. \A f \in BOOLEAN : [req[r] EXCEPT !.at = "write", !.changed = FALSE, !.found = f] \in Call
    BY <1>2, CallFacts DEF FindEndpoint, Call
  <2>2. req' \in [Requests -> {Idle} \cup Call]
    BY <1>2, <2>1 DEF FindEndpoint, TypeOK
  <2> QED
    BY <1>2, <2>2 DEF FindEndpoint, TypeOK
<1>3. ASSUME NEW r \in Requests, CreateSubscription(r) PROVE TypeOK'
  <2>1. req' \in [Requests -> {Idle} \cup Call]
    BY <1>3, CreateFacts, TouchedFacts
  <2>2. wanted' \subseteq Endpoints
    BY <1>3, CreateFacts DEF CreateSubscription, Subscribed, TypeOK
  <2>3. rows' \subseteq Row /\ lastId' \in 0..MaxRows /\ \A s \in rows' : s.id <= lastId'
    BY <1>3, CreateFacts DEF TypeOK
  <2>4. UNCHANGED <<pushing, removing, dead>>
    BY <1>3 DEF CreateSubscription
  <2> QED
    BY <2>1, <2>2, <2>3, <2>4 DEF TypeOK
<1>4. ASSUME NEW r \in Requests, NEW newKeys \in BOOLEAN, UpdateSubscription(r, newKeys)
      PROVE  TypeOK'
  <2>0. req[r].endpoint \in Endpoints
    BY <1>4, CallFacts DEF UpdateSubscription
  <2>1. CASE newKeys
    <3>1. req' = Touched(req[r].endpoint, r)
      BY <1>4, <2>1 DEF UpdateSubscription
    <3>2. req' \in [Requests -> {Idle} \cup Call]
      BY <2>0, <3>1, TouchedFacts
    <3> QED
      BY <1>4, <2>0, <3>2 DEF UpdateSubscription, TypeOK
  <2>2. CASE ~newKeys
    BY <1>4, <2>0, <2>2 DEF UpdateSubscription, TypeOK
  <2> QED
    BY <2>1, <2>2
<1>5. ASSUME NEW r \in Requests, FailSubscribe(r) PROVE TypeOK'
  BY <1>5 DEF FailSubscribe, TypeOK
<1>6. ASSUME NEW e \in Endpoints, Unsubscribe(e) \/ RemoveInvalidSubscription(e)
      PROVE  TypeOK'
  <2>1. req' \in [Requests -> {Idle} \cup Call] /\ rows' = rows \ RowsOf(e)
    BY <1>6, DeleteFacts DEF Unsubscribe, RemoveInvalidSubscription
  <2> QED
    BY <1>6, <2>1 DEF Unsubscribe, RemoveInvalidSubscription, TypeOK
<1>7. ASSUME NEW e \in Endpoints, PushAnswered(e) PROVE TypeOK'
  BY <1>7 DEF PushAnswered, TypeOK
<1>8. ASSUME NEW e \in Endpoints, Die(e) PROVE TypeOK'
  BY <1>8 DEF Die, TypeOK
<1>9. ASSUME NEW u \in Users, SendToUser(u) PROVE TypeOK'
  BY <1>9 DEF SendToUser, TypeOK, Row
<1>10. ASSUME NEW u \in Users, DeleteUser(u) PROVE TypeOK'
  <2>1. req' \in [Requests -> {Idle} \cup Call] /\ rows' = {s \in rows : s.user # u}
    BY <1>10, DeleteUserFacts
  <2> QED
    BY <1>10, <2>1 DEF DeleteUser, TypeOK
<1>11. CASE Crash
  BY <1>11 DEF Crash, TypeOK
<1>12. CASE UNCHANGED vars
  BY <1>12 DEF vars, TypeOK
<1> QED
  BY <1>1, <1>2, <1>3, <1>4, <1>5, <1>6, <1>7, <1>8, <1>9, <1>10, <1>11, <1>12 DEF Next

\* Every variable stays within its type, ids are bounded by the last one given, and
\* only endpoints reported gone are about to be removed.
THEOREM TypeCorrect == Spec => []TypeOK
BY InitType, NextType, PTL DEF Spec

----------------------------------------------------------------------------
(* Snapshots *)

\* The snapshot of a call that has not been told of a change is still true: the
\* endpoint has a row exactly if the call found one.
TrueSnapshot(q) ==
    req[q] # Idle /\ req[q].at = "write" /\ ~req[q].changed =>
        (req[q].found <=> RowsOf(req[q].endpoint) # {})
SnapshotsHold == \A q \in Requests : TrueSnapshot(q)

RowsKept(e) == \A s : s.endpoint = e => (s \in rows' <=> s \in rows)

\* What becomes of a call: it ends, has yet to read, reads, or goes on; and then it
\* knows of any change to the rows of its endpoint.
LEMMA CallMoves ==
    ASSUME TypeOK, [Next]_vars, NEW q \in Requests
    PROVE  \/ req'[q] = Idle
           \/ req'[q].at = "read"
           \/ FindEndpoint(q)
           \/ /\ req[q] # Idle
              /\ \E c \in BOOLEAN :
                   /\ Carries(q, req[q].endpoint, req[q].found, c)
                   /\ req[q].changed => c
                   /\ c \/ RowsKept(req[q].endpoint)
<1> DEFINE Goal ==
       \/ req'[q] = Idle
       \/ req'[q].at = "read"
       \/ FindEndpoint(q)
       \/ /\ req[q] # Idle
          /\ \E c \in BOOLEAN :
               /\ Carries(q, req[q].endpoint, req[q].found, c)
               /\ req[q].changed => c
               /\ c \/ RowsKept(req[q].endpoint)
<1>0. ASSUME req'[q] = req[q], RowsKept(req[q].endpoint)
      PROVE  Goal
  <2>1. CASE req[q] = Idle
    BY <1>0, <2>1
  <2>2. CASE req[q] # Idle
    <3>1. req[q].changed \in BOOLEAN /\ req[q] \in Call
      BY <2>2, CallFacts
    <3>2. Carries(q, req[q].endpoint, req[q].found, req[q].changed)
      BY <1>0, <3>1, Zenon DEF Carries
    <3> QED
      BY <1>0, <2>2, <3>1, <3>2, Zenon
  <2> QED
    BY <2>1, <2>2
<1>00. ASSUME req'[q] = req[q], UNCHANGED rows PROVE Goal
  BY <1>0, <1>00 DEF RowsKept, RowsOf
<1>1. ASSUME NEW r \in Requests, NEW u \in Users, NEW e \in Endpoints, Subscribe(r, u, e)
      PROVE  Goal
  BY <1>1, <1>00 DEF Subscribe, TypeOK
<1>2. ASSUME NEW r \in Requests, FindEndpoint(r) \/ FailSubscribe(r) PROVE Goal
  <2>1. CASE q = r
    BY <1>2, <2>1 DEF FailSubscribe, TypeOK
  <2>2. CASE q # r
    BY <1>2, <1>00, <2>2 DEF FindEndpoint, FailSubscribe, TypeOK
  <2> QED
    BY <2>1, <2>2
<1>3. ASSUME NEW e \in Endpoints, NEW r, req' = Touched(e, r),
             \A f \in Endpoints : f # e => RowsKept(f)
      PROVE  Goal
  <2>1. CASE req'[q] = Idle
    BY <2>1
  <2>2. CASE /\ req[q] # Idle /\ req[q].endpoint = e
             /\ Carries(q, e, req[q].found, TRUE)
    BY <2>2
  <2>3. CASE req[q] # Idle /\ req[q].endpoint # e /\ req'[q] = req[q]
    <3>1. RowsKept(req[q].endpoint)
      BY <1>3, <2>3, CallFacts
    <3> QED
      BY <1>0, <2>3, <3>1
  <2> QED
    BY <1>3, <2>1, <2>2, <2>3, TouchedFacts
<1>4. ASSUME NEW r \in Requests, CreateSubscription(r) PROVE Goal
  <2>1. /\ req[r].endpoint \in Endpoints /\ req' = Touched(req[r].endpoint, r)
        /\ rows' = rows \cup {[id |-> lastId + 1, user |-> req[r].user,
                               endpoint |-> req[r].endpoint]}
    BY <1>4, CreateFacts
  <2>2. \A f \in Endpoints : f # req[r].endpoint => RowsKept(f)
    BY <2>1 DEF RowsKept
  <2> QED
    BY <1>3, <2>1, <2>2
<1>5. ASSUME NEW r \in Requests, NEW newKeys \in BOOLEAN, UpdateSubscription(r, newKeys)
      PROVE  Goal
  <2>1. req[r].endpoint \in Endpoints /\ rows' = rows
    BY <1>5, CallFacts DEF UpdateSubscription
  <2>2. CASE newKeys
    <3>1. req' = Touched(req[r].endpoint, r) /\ \A f \in Endpoints : RowsKept(f)
      BY <1>5, <2>1, <2>2 DEF UpdateSubscription, RowsKept
    <3> QED
      BY <1>3, <2>1, <3>1
  <2>3. CASE ~newKeys
    BY <1>00, <1>5, <2>1, <2>3 DEF UpdateSubscription, TypeOK
  <2> QED
    BY <2>2, <2>3
<1>6. ASSUME NEW e \in Endpoints, Unsubscribe(e) \/ RemoveInvalidSubscription(e)
      PROVE  Goal
  <2>0. Delete(e)
    BY <1>6 DEF Unsubscribe, RemoveInvalidSubscription
  <2>1. CASE req'[q] = Idle
    BY <2>1
  <2>2. CASE /\ req[q] # Idle /\ req[q].endpoint = e
             /\ Carries(q, e, req[q].found, req[q].changed \/ RowsOf(e) # {})
    <3>1. RowsOf(e) # {} \/ RowsKept(e)
      BY <2>0, DeleteFacts DEF RowsKept, RowsOf
    <3>2. \E c \in BOOLEAN :
             /\ Carries(q, e, req[q].found, c)
             /\ req[q].changed => c
             /\ c \/ RowsKept(e)
      <4>1. CASE req[q].changed \/ RowsOf(e) # {}
        BY <2>2, <4>1 DEF Carries
      <4>2. CASE ~(req[q].changed \/ RowsOf(e) # {})
        BY <2>2, <3>1, <4>2 DEF Carries
      <4> QED
        BY <4>1, <4>2
    <3> QED
      BY <2>2, <3>2
  <2>3. CASE req[q] # Idle /\ req[q].endpoint # e /\ req'[q] = req[q]
    <3>1. RowsKept(req[q].endpoint)
      BY <2>0, <2>3, DeleteFacts DEF RowsKept, RowsOf
    <3> QED
      BY <1>0, <2>3, <3>1
  <2> QED
    BY <2>0, <2>1, <2>2, <2>3, DeleteFacts
<1>7. ASSUME NEW u \in Users, DeleteUser(u) PROVE Goal
  <2> DEFINE gone == {s.endpoint : s \in {s \in rows : s.user = u}}
  <2>1. CASE req'[q] = Idle
    BY <2>1
  <2>2. CASE /\ req[q] # Idle
             /\ Carries(q, req[q].endpoint, req[q].found,
                        req[q].changed \/ req[q].endpoint \in gone)
    <3>1. req[q].endpoint \in gone \/ RowsKept(req[q].endpoint)
      BY <1>7, DeleteUserFacts DEF RowsKept, RowsOf
    <3>2. CASE req[q].changed \/ req[q].endpoint \in gone
      BY <2>2, <3>2 DEF Carries
    <3>3. CASE ~(req[q].changed \/ req[q].endpoint \in gone)
      BY <2>2, <3>1, <3>3 DEF Carries
    <3> QED
      BY <3>2, <3>3
  <2> QED
    BY <1>7, <2>1, <2>2, DeleteUserFacts
<1>8. ASSUME NEW e \in Endpoints, PushAnswered(e) \/ Die(e) PROVE Goal
  BY <1>8, <1>00 DEF PushAnswered, Die
<1>9. ASSUME NEW u \in Users, SendToUser(u) PROVE Goal
  BY <1>9, <1>00 DEF SendToUser
<1>10. CASE Crash
  BY <1>10 DEF Crash
<1>11. CASE UNCHANGED vars
  BY <1>11, <1>00 DEF vars
<1>12. Goal
  BY <1>1, <1>2, <1>4, <1>5, <1>6, <1>7, <1>8, <1>9, <1>10, <1>11 DEF Next
<1> QED
  BY <1>12

LEMMA NextSnapshots ==
    ASSUME TypeOK, SnapshotsHold, [Next]_vars
    PROVE  SnapshotsHold'
<1> SUFFICES ASSUME NEW q \in Requests, req'[q] # Idle, req'[q].at = "write",
                    ~req'[q].changed
             PROVE  req'[q].found <=> \E s \in rows' : s.endpoint = req'[q].endpoint
  BY DEF SnapshotsHold, TrueSnapshot, RowsOf
<1>1. CASE FindEndpoint(q)
  <2>1. req[q] # Idle /\ req[q] \in Call /\ UNCHANGED rows
    BY <1>1, CallFacts DEF FindEndpoint
  <2>2. /\ req'[q].found = (RowsOf(req[q].endpoint) # {})
        /\ req'[q].endpoint = req[q].endpoint
    BY <1>1, <2>1 DEF FindEndpoint, TypeOK, Call
  <2> QED
    BY <2>1, <2>2 DEF RowsOf
<1>2. CASE req[q] # Idle /\ \E c \in BOOLEAN :
              /\ Carries(q, req[q].endpoint, req[q].found, c)
              /\ req[q].changed => c
              /\ c \/ RowsKept(req[q].endpoint)
  <2>1. /\ req[q] # Idle /\ req[q].at = "write" /\ ~req[q].changed
        /\ req'[q].endpoint = req[q].endpoint /\ req'[q].found = req[q].found
        /\ RowsKept(req[q].endpoint)
    BY <1>2 DEF Carries
  <2>2. req[q].found <=> \E s \in rows : s.endpoint = req[q].endpoint
    BY <2>1 DEF SnapshotsHold, TrueSnapshot, RowsOf
  <2> QED
    BY <2>1, <2>2 DEF RowsKept
<1> QED
  BY <1>1, <1>2, CallMoves

\* A call that may insert or update has a true snapshot.
LEMMA CreateSees ==
    ASSUME TypeOK, SnapshotsHold, NEW r \in Requests, CreateSubscription(r)
    PROVE  \A s \in rows : s.endpoint # req[r].endpoint
BY DEF SnapshotsHold, TrueSnapshot, RowsOf, CreateSubscription

LEMMA UpdateSees ==
    ASSUME TypeOK, SnapshotsHold, NEW r \in Requests, NEW newKeys \in BOOLEAN,
           UpdateSubscription(r, newKeys), ~req[r].changed
    PROVE  \E s \in rows : s.endpoint = req[r].endpoint
BY DEF SnapshotsHold, TrueSnapshot, RowsOf, UpdateSubscription

\* Rows are only added by CreateSubscription.
LEMMA RowsGrow ==
    ASSUME TypeOK, [Next]_vars
    PROVE  rows' \subseteq rows \/ \E r \in Requests : CreateSubscription(r)
<1>1. ASSUME NEW r \in Requests, NEW u \in Users, NEW e \in Endpoints, Subscribe(r, u, e)
      PROVE  rows' = rows
  BY <1>1 DEF Subscribe
<1>2. ASSUME NEW r \in Requests, NEW newKeys \in BOOLEAN,
             FindEndpoint(r) \/ UpdateSubscription(r, newKeys) \/ FailSubscribe(r)
      PROVE  rows' = rows
  BY <1>2 DEF FindEndpoint, UpdateSubscription, FailSubscribe
<1>3. ASSUME NEW e \in Endpoints,
             Unsubscribe(e) \/ PushAnswered(e) \/ RemoveInvalidSubscription(e) \/ Die(e)
      PROVE  rows' \subseteq rows
  BY <1>3 DEF Unsubscribe, PushAnswered, RemoveInvalidSubscription, Die, Delete
<1>4. ASSUME NEW u \in Users, SendToUser(u) \/ DeleteUser(u) PROVE rows' \subseteq rows
  BY <1>4 DEF SendToUser, DeleteUser
<1>5. CASE Crash
  BY <1>5 DEF Crash
<1>6. CASE UNCHANGED vars
  BY <1>6 DEF vars
<1>7. ASSUME NEW r \in Requests, FindEndpoint(r) \/ FailSubscribe(r) PROVE rows' = rows
  BY <1>2, <1>7
<1> QED
  BY <1>1, <1>2, <1>3, <1>4, <1>5, <1>6, <1>7 DEF Next

LEMMA NextOneRow ==
    ASSUME TypeOK, SnapshotsHold, OneRowPerEndpoint, [Next]_vars
    PROVE  OneRowPerEndpoint'
<1>1. CASE rows' \subseteq rows
  BY <1>1 DEF OneRowPerEndpoint
<1>2. ASSUME NEW r \in Requests, CreateSubscription(r)
      PROVE  OneRowPerEndpoint'
  <2> DEFINE new == [id |-> lastId + 1, user |-> req[r].user, endpoint |-> req[r].endpoint]
  <2>1. rows' = rows \cup {new} /\ new.endpoint = req[r].endpoint
    BY <1>2 DEF CreateSubscription
  <2>2. \A s \in rows : s.endpoint # new.endpoint
    BY <1>2, <2>1, CreateSees
  <2> HIDE DEF new
  <2> QED
    BY <2>1, <2>2 DEF OneRowPerEndpoint
<1> QED
  BY <1>1, <1>2, RowsGrow

LEMMA InitSnapshots == Init => SnapshotsHold /\ OneRowPerEndpoint /\ LiveSubscriptionStays
BY DEF Init, SnapshotsHold, TrueSnapshot, OneRowPerEndpoint, LiveSubscriptionStays

\* However the calls of users of one browser overlap, its endpoint never has two
\* rows: an insertion that commits saw none, and none was inserted since.
THEOREM EndpointsAreUnique == Spec => []OneRowPerEndpoint
<1>1. Init => TypeOK /\ SnapshotsHold /\ OneRowPerEndpoint
  BY InitType, InitSnapshots
<1>2. TypeOK /\ SnapshotsHold /\ OneRowPerEndpoint /\ [Next]_vars =>
        TypeOK' /\ SnapshotsHold' /\ OneRowPerEndpoint'
  BY NextType, NextSnapshots, NextOneRow
<1> QED
  BY <1>1, <1>2, PTL DEF Spec

----------------------------------------------------------------------------
(* Live subscriptions *)

LEMMA NextLive ==
    ASSUME TypeOK, SnapshotsHold, LiveSubscriptionStays, [Next]_vars
    PROVE  LiveSubscriptionStays'
<1> SUFFICES ASSUME NEW e \in wanted', e \notin dead'
             PROVE  \E s \in rows' : s.endpoint = e
  BY DEF LiveSubscriptionStays, RowsOf
<1>0. e \in wanted /\ e \notin dead => \E s \in rows : s.endpoint = e
  BY DEF LiveSubscriptionStays, RowsOf
<1>1. ASSUME NEW r \in Requests, CreateSubscription(r) PROVE \E s \in rows' : s.endpoint = e
  <2>1. rows' = rows \cup {[id |-> lastId + 1, user |-> req[r].user,
                            endpoint |-> req[r].endpoint]}
    BY <1>1 DEF CreateSubscription
  <2>2. e = req[r].endpoint \/ e \in wanted
    BY <1>1 DEF CreateSubscription, Subscribed
  <2>3. dead' = dead
    BY <1>1 DEF CreateSubscription
  <2> DEFINE new == [id |-> lastId + 1, user |-> req[r].user, endpoint |-> req[r].endpoint]
  <2>4. new \in rows' /\ new.endpoint = req[r].endpoint /\ rows \subseteq rows'
    BY <2>1
  <2> HIDE DEF new
  <2> QED
    BY <1>0, <2>2, <2>3, <2>4
<1>2. ASSUME NEW r \in Requests, NEW newKeys \in BOOLEAN, UpdateSubscription(r, newKeys)
      PROVE  \E s \in rows' : s.endpoint = e
  <2>1. rows' = rows /\ dead' = dead
    BY <1>2 DEF UpdateSubscription
  <2>2. e \in wanted \/ (e = req[r].endpoint /\ ~req[r].changed)
    BY <1>2 DEF UpdateSubscription
  <2> QED
    BY <1>0, <1>2, <2>1, <2>2, UpdateSees
<1>3. ASSUME NEW f \in Endpoints, Unsubscribe(f) PROVE \E s \in rows' : s.endpoint = e
  <2>1. rows' = rows \ RowsOf(f) /\ dead' = dead /\ wanted' = wanted \ {f}
    BY <1>3 DEF Unsubscribe, Delete
  <2> QED
    BY <1>0, <2>1 DEF RowsOf
<1>4. ASSUME NEW f \in Endpoints, RemoveInvalidSubscription(f)
      PROVE  \E s \in rows' : s.endpoint = e
  <2>1. rows' = rows \ RowsOf(f) /\ dead' = dead /\ wanted' = wanted /\ f \in dead
    BY <1>4 DEF RemoveInvalidSubscription, Delete, TypeOK
  <2> QED
    BY <1>0, <2>1 DEF RowsOf
<1>5. ASSUME NEW u \in Users, DeleteUser(u) PROVE \E s \in rows' : s.endpoint = e
  <2>1. /\ rows' = {s \in rows : s.user # u} /\ dead' = dead
        /\ wanted' = wanted \ {s.endpoint : s \in {s \in rows : s.user = u}}
    BY <1>5 DEF DeleteUser
  <2> QED
    BY <1>0, <2>1
<1>6. ASSUME UNCHANGED <<rows, wanted>>, dead \subseteq dead'
      PROVE  \E s \in rows' : s.endpoint = e
  BY <1>0, <1>6
<1>7. ASSUME NEW r \in Requests, NEW u \in Users, NEW f \in Endpoints, Subscribe(r, u, f)
      PROVE  \E s \in rows' : s.endpoint = e
  BY <1>6, <1>7 DEF Subscribe
<1>8. ASSUME NEW r \in Requests, FindEndpoint(r) \/ FailSubscribe(r)
      PROVE  \E s \in rows' : s.endpoint = e
  BY <1>6, <1>8 DEF FindEndpoint, FailSubscribe
<1>9. ASSUME NEW f \in Endpoints, PushAnswered(f) \/ Die(f)
      PROVE  \E s \in rows' : s.endpoint = e
  BY <1>6, <1>9 DEF PushAnswered, Die
<1>10. ASSUME NEW u \in Users, SendToUser(u) PROVE \E s \in rows' : s.endpoint = e
  BY <1>6, <1>10 DEF SendToUser
<1>11. CASE Crash
  BY <1>6, <1>11 DEF Crash
<1>12. CASE UNCHANGED vars
  BY <1>6, <1>12 DEF vars
<1> QED
  BY <1>1, <1>2, <1>3, <1>4, <1>5, <1>7, <1>8, <1>9, <1>10, <1>11, <1>12 DEF Next

\* A subscription that was confirmed stays until it is given up, its endpoint is
\* gone, or its row goes with an account: a late answer of the push service and an
\* overlapping call take no live endpoint away.
THEOREM SubscriptionsStay == Spec => []LiveSubscriptionStays
<1>1. Init => TypeOK /\ SnapshotsHold /\ LiveSubscriptionStays
  BY InitType, InitSnapshots
<1>2. TypeOK /\ SnapshotsHold /\ LiveSubscriptionStays /\ [Next]_vars =>
        TypeOK' /\ SnapshotsHold' /\ LiveSubscriptionStays'
  BY NextType, NextSnapshots, NextLive
<1> QED
  BY <1>1, <1>2, PTL DEF Spec
=============================================================================
