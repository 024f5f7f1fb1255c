--------------------------- MODULE SessionsProofs ---------------------------
(* Proofs about Sessions, for every set of sessions, of users and of        *)
(* requests in flight, and whatever the bounds.                             *)
EXTENDS Sessions, TLAPS

----------------------------------------------------------------------------
(* Facts about requests and rows *)

\* A step of a request keeps it a request, with the same tokens.
LEMMA RequestFacts ==
    ASSUME TypeOK, NEW r \in Requests, req[r] # Idle
    PROVE  req[r] \in Request /\ Session(r) \in Sessions
BY DEF TypeOK, Request, Session

\* What a step may change of a request.
Advanced(r, at, issued) ==
    /\ req' \in [Requests -> Request \cup {Idle}]
    /\ \A q \in Requests \ {r} : req'[q] = req[q]
    /\ req'[r] # Idle
    /\ req'[r].at = at /\ req'[r].issued = issued
    /\ req'[r].session = req[r].session /\ req'[r].token = req[r].token
    /\ req'[r].logout = req[r].logout
    /\ req'[r].afterRevocation = req[r].afterRevocation

LEMMA GoToFacts ==
    ASSUME TypeOK, NEW r \in Requests, req[r] # Idle, NEW step \in Step, GoTo(r, step)
    PROVE  /\ Advanced(r, step, req[r].issued)
           /\ req'[r].clears = req[r].clears
<1>1. req'[r] = [req[r] EXCEPT !.at = step] /\ req[r] \in Request
  BY RequestFacts DEF GoTo, TypeOK
<1>2. req'[r] \in Request
  BY <1>1 DEF Request
<1> QED
  BY <1>1, <1>2 DEF GoTo, TypeOK, Advanced, Idle, Request, Step

LEMMA ReplyFacts ==
    ASSUME TypeOK, NEW r \in Requests, req[r] # Idle, NEW clears \in BOOLEAN,
           Reply(r, clears)
    PROVE  /\ Advanced(r, "reply", req[r].issued)
           /\ req'[r].clears = clears
<1>1. /\ req'[r] = [req[r] EXCEPT !.at = "reply", !.clears = clears]
      /\ req[r] \in Request
  BY RequestFacts DEF Reply, TypeOK
<1>2. req'[r] \in Request
  BY <1>1 DEF Request, Step
<1> QED
  BY <1>1, <1>2 DEF Reply, TypeOK, Advanced, Idle, Request, Step

LEMMA NextHandlerFacts ==
    ASSUME TypeOK, NEW r \in Requests, req[r] # Idle, NEW t \in Token, NextHandler(r, t)
    PROVE  /\ Advanced(r, Handler(req[r].logout), t)
           /\ req'[r].clears = req[r].clears
           /\ req'[r].at \in {"findForLogout", "reply"}
<1>1. /\ req'[r] = [req[r] EXCEPT !.issued = t, !.at = Handler(req[r].logout)]
      /\ req[r] \in Request
  BY RequestFacts DEF NextHandler, TypeOK
<1>2. req'[r] \in Request /\ req'[r].at \in {"findForLogout", "reply"}
  BY <1>1 DEF Request, Step, Handler
<1> QED
  BY <1>1, <1>2 DEF NextHandler, TypeOK, Advanced, Idle, Request, Step

\* A request ends.
Ended(r) ==
    /\ req' \in [Requests -> Request \cup {Idle}]
    /\ req'[r] = Idle
    /\ \A q \in Requests \ {r} : req'[q] = req[q]

\* Writing a reason revokes the session, if it is stored, and nothing else.
LEMMA SetReasonFacts ==
    ASSUME TypeOK, NEW s \in Sessions, NEW x \in Reason \ {"NONE"}, SetReason(s, x)
    PROVE  /\ \A c \in Sessions \ {s} : row'[c] = row[c]
           /\ ~Stored(s) => row'[s] = row[s]
           /\ Stored(s) => row'[s] = [row[s] EXCEPT !.reason = x]
BY DEF SetReason, TypeOK

\* What the steps that revoke leave alone, and what they write.
Revises ==
    \A s \in Sessions :
        \/ row'[s] = row[s]
        \/ /\ Stored(s) /\ Stored(s)' /\ row'[s].reason \in Reason \ {"NONE"}
           /\ row'[s].current = row[s].current /\ row'[s].grace = row[s].grace

----------------------------------------------------------------------------
(* Type correctness *)

RowType == [state: {"ABSENT", "STORED", "DELETED"}, current: Token,
            grace: BOOLEAN, reason: Reason]

\* The rows, apart from the rest of the type invariant.
RowsOK ==
    /\ row \in [Sessions -> RowType]
    /\ \A s \in Sessions : Stored(s) \/ row[s] = [NoRow EXCEPT !.state = row[s].state]

LEMMA RowsKept ==
    ASSUME TypeOK, row' \in [Sessions -> RowType],
           \A s \in Sessions : row'[s] = row[s] \/ Stored(s)'
    PROVE  RowsOK'
BY DEF TypeOK, RowsOK, Stored

LEMMA ReasonType ==
    ASSUME TypeOK, NEW s \in Sessions, NEW x \in Reason \ {"NONE"}, SetReason(s, x)
    PROVE  RowsOK' /\ Revises
<1>1. row' \in [Sessions -> RowType]
  BY DEF SetReason, TypeOK, RowType
<1>2. /\ \A c \in Sessions \ {s} : row'[c] = row[c]
      /\ ~Stored(s) => row'[s] = row[s]
  BY SetReasonFacts
<1>3. ASSUME Stored(s)
      PROVE  /\ Stored(s)' /\ row'[s].reason = x
             /\ row'[s].current = row[s].current /\ row'[s].grace = row[s].grace
  <2>1. row[s] \in RowType /\ row'[s] = [row[s] EXCEPT !.reason = x]
    BY <1>3, SetReasonFacts DEF TypeOK, RowType
  <2> QED
    BY <1>3, <2>1 DEF RowType, Stored
<1>4. Revises
  BY <1>2, <1>3 DEF Revises
<1> QED
  BY <1>1, <1>4, RowsKept DEF Revises

LEMMA RevokeAllType ==
    ASSUME TypeOK, NEW r \in Requests, RevokeAllSessions(r)
    PROVE  RowsOK' /\ Revises
<1>1. \A s \in Sessions :
         row'[s] = IF Stored(s) /\ ~Revoked(s) /\ Owner[s] = Owner[Session(r)]
                   THEN [row[s] EXCEPT !.reason = "SUSPICIOUS"] ELSE row[s]
  BY DEF RevokeAllSessions
<1>2. row' \in [Sessions -> RowType]
  BY <1>1 DEF RevokeAllSessions, TypeOK, RowType, Reason
<1>3. Revises
  BY <1>1 DEF TypeOK, Revises, Stored, Reason
<1> QED
  BY <1>2, <1>3, RowsKept DEF Revises

\* The UPDATE of a rotation.
LEMMA NewTokensFacts ==
    ASSUME TypeOK, NEW s \in Sessions, Stored(s), NewTokens(s)
    PROVE  /\ RowsOK' /\ stale' = stale \ {s}
           /\ \A c \in Sessions \ {s} : row'[c] = row[c]
           /\ Stored(s)' /\ row'[s].grace /\ row'[s].reason = row[s].reason
           /\ row'[s].current = row[s].current + 1 /\ row[s].current + 1 \in Token
<1>1. row[s].current + 1 \in Token
  BY BoundsAreNat DEF TypeOK, NewTokens, Token
<1>2. row'[s] = [row[s] EXCEPT !.current = row[s].current + 1, !.grace = TRUE]
  BY DEF NewTokens, TypeOK
<1>3. row' \in [Sessions -> RowType]
  <2>1. row[s] \in RowType
    BY DEF TypeOK, RowType
  <2>2. row'[s] \in RowType
    BY <1>1, <1>2, <2>1 DEF RowType
  <2> QED
    BY <2>2 DEF NewTokens, TypeOK, RowType
<1>4. \A c \in Sessions \ {s} : row'[c] = row[c]
  BY DEF NewTokens, TypeOK
<1>5. /\ Stored(s)' /\ row'[s].grace /\ row'[s].reason = row[s].reason
      /\ row'[s].current = row[s].current + 1
  BY <1>2 DEF TypeOK, Stored
<1>6. RowsOK'
  BY <1>3, <1>4, <1>5, RowsKept
<1> QED
  BY <1>1, <1>4, <1>5, <1>6 DEF NewTokens

\* What is not stored has no grace period and no reason.
LEMMA GraceIsStored ==
    ASSUME TypeOK, NEW s \in Sessions, ~Stored(s)
    PROVE  ~row[s].grace /\ ~Revoked(s) /\ row[s].current = 0
BY DEF TypeOK, NoRow, Revoked

LEMMA InitType == Init => TypeOK
BY BoundsAreNat DEF Init, TypeOK, NoRow, Token, Reason, NoToken, Stored, Idle

\* Every step keeps the type invariant.
LEMMA NextType == TypeOK /\ [Next]_vars => TypeOK'
<1> SUFFICES ASSUME TypeOK, [Next]_vars PROVE TypeOK'
  OBVIOUS
<1>0. 0 \in Token
  BY BoundsAreNat DEF Token
<1>1. ASSUME NEW s \in Sessions, SignIn(s) PROVE TypeOK'
  <2>1. row' \in [Sessions -> RowType]
    BY <1>1 DEF SignIn, TypeOK, RowType
  <2>2. RowsOK'
    BY <1>1, <2>1, RowsKept DEF SignIn, Stored, TypeOK
  <2> QED
    BY <1>0, <1>1, <2>2 DEF SignIn, TypeOK, RowsOK, RowType
<1>2. ASSUME NEW s \in Sessions, GraceEnds(s) PROVE TypeOK'
  <2>1. row' \in [Sessions -> RowType]
    <3>1. row[s] \in RowType
      BY DEF TypeOK, RowType
    <3>2. [row[s] EXCEPT !.grace = FALSE] \in RowType
      BY <3>1 DEF RowType
    <3> QED
      BY <1>2, <3>2 DEF GraceEnds, TypeOK, RowType
  <2>2. Stored(s)
    BY <1>2, GraceIsStored DEF GraceEnds
  <2>3. RowsOK'
    BY <1>2, <2>1, <2>2, RowsKept DEF GraceEnds, Stored, TypeOK
  <2> QED
    BY <1>2, <2>3 DEF GraceEnds, TypeOK, RowsOK, RowType
<1>3. ASSUME NEW s \in Sessions, AccessExpires(s) \/ Age(s) PROVE TypeOK'
  BY <1>3 DEF AccessExpires, Age, TypeOK, Stored
<1>4. ASSUME NEW u \in Users, DeleteUser(u) PROVE TypeOK'
  <2>1. row' \in [Sessions -> RowType]
    BY <1>0, <1>4 DEF DeleteUser, TypeOK, RowType, NoRow, Reason
  <2>2. \A c \in Sessions : Stored(c)' \/ row'[c] = [NoRow EXCEPT !.state = row'[c].state]
    BY <1>4 DEF DeleteUser, TypeOK, Stored, NoRow
  <2> QED
    BY <1>4, <2>1, <2>2 DEF DeleteUser, TypeOK, RowType
<1>5. ASSUME NEW r \in Requests, NEW s \in Sessions, NEW logout \in BOOLEAN,
             Send(r, s, logout)
      PROVE  TypeOK'
  <2>1. jar[s] \in Token
    BY <1>5 DEF Send, TypeOK
  <2>2. req' \in [Requests -> Request \cup {Idle}]
    BY <1>5, <2>1 DEF Send, TypeOK, Request, Step, Handler, Revoked
  <2> QED
    BY <1>5, <2>2, BoundsAreNat DEF Send, TypeOK, Stored
<1>6. ASSUME NEW r \in Requests, FindSession(r) \/ LogoutFinds(r) PROVE TypeOK'
  <2>1. req[r] # Idle
    BY <1>6 DEF FindSession, LogoutFinds, At
  <2>2. Verdict(Session(r), req[r].token) \in Step
    BY DEF Verdict, Step
  <2>3. req' \in [Requests -> Request \cup {Idle}]
    BY <1>6, <2>1, <2>2, GoToFacts, ReplyFacts, "writeLogout" \in Step
       DEF FindSession, LogoutFinds, Advanced, Step
  <2> QED
    BY <1>6, <2>3 DEF FindSession, LogoutFinds, TypeOK, Stored
<1>7. ASSUME NEW r \in Requests, RevokeAllSessions(r) \/ ExpireSession(r) \/ Caught(r)
                                 \/ LogoutWrites(r)
      PROVE  TypeOK'
  <2>1. req[r] # Idle /\ Session(r) \in Sessions /\ Reply(r, TRUE)
    BY <1>7, RequestFacts
       DEF RevokeAllSessions, ExpireSession, Caught, LogoutWrites, At
  <2>2. req' \in [Requests -> Request \cup {Idle}]
    BY <2>1, ReplyFacts DEF Advanced
  <2>3. RowsOK'
    BY <1>7, <2>1, RevokeAllType, ReasonType
       DEF ExpireSession, Caught, LogoutWrites, Reason
  <2> QED
    BY <1>7, <2>2, <2>3
       DEF RevokeAllSessions, ExpireSession, Caught, LogoutWrites, TypeOK, RowsOK, RowType
<1>8. ASSUME NEW r \in Requests, ReturnRotated(r) \/ RefuseRotation(r) PROVE TypeOK'
  <2>1. req[r] # Idle /\ Session(r) \in Sessions
    BY <1>8, RequestFacts DEF ReturnRotated, RefuseRotation, At
  <2>2. row[Session(r)].current \in Token
    BY <2>1 DEF TypeOK
  <2>3. req' \in [Requests -> Request \cup {Idle}]
    BY <1>8, <2>1, <2>2, NextHandlerFacts, ReplyFacts
       DEF ReturnRotated, RefuseRotation, Advanced
  <2> QED
    BY <1>8, <2>3 DEF ReturnRotated, RefuseRotation, TypeOK, Stored
<1>9. ASSUME NEW r \in Requests, RotateSession(r) \/ RotateUnacknowledged(r) PROVE TypeOK'
  <2>1. /\ req[r] # Idle /\ Session(r) \in Sessions
        /\ Stored(Session(r)) /\ NewTokens(Session(r))
    BY <1>9, RequestFacts DEF RotateSession, RotateUnacknowledged, At, IsCurrent
  <2>2. RowsOK' /\ stale' \in SUBSET Sessions /\ row[Session(r)].current + 1 \in Token
    BY <2>1, NewTokensFacts DEF TypeOK
  <2>3. req' \in [Requests -> Request \cup {Idle}]
    BY <1>9, <2>1, <2>2, NextHandlerFacts, GoToFacts, "caughtInvalid" \in Step
       DEF RotateSession, RotateUnacknowledged, Advanced, Step
  <2> QED
    BY <1>9, <2>1, <2>2, <2>3
       DEF RotateSession, RotateUnacknowledged, TypeOK, RowsOK, RowType
<1>10. ASSUME NEW r \in Requests, Fail(r) PROVE TypeOK'
  <2>1. req[r] # Idle /\ Session(r) \in Sessions
    BY <1>10, RequestFacts DEF Fail, At
  <2>2. req' \in [Requests -> Request \cup {Idle}]
    BY <1>10, <2>1, ReplyFacts, GoToFacts, "caughtInvalid" \in Step
       DEF Fail, Advanced, Step
  <2> QED
    BY <1>10, <2>1, <2>2 DEF Fail, TypeOK, Stored
<1>11. ASSUME NEW r \in Requests, Receive(r) \/ Lose(r) PROVE TypeOK'
  <2>1. req[r] \in Request /\ Session(r) \in Sessions
    BY <1>11, RequestFacts DEF Receive, Lose, At
  <2>2. jar' \in [Sessions -> Token \cup {NoToken}]
    BY <1>11, <2>1 DEF Receive, Lose, TypeOK, Request
  <2>3. req' \in [Requests -> Request \cup {Idle}]
    BY <1>11 DEF Receive, Lose, TypeOK
  <2> QED
    BY <1>11, <2>1, <2>2, <2>3 DEF Receive, Lose, TypeOK, Stored
<1>12. ASSUME UNCHANGED vars PROVE TypeOK'
  BY <1>12 DEF vars, TypeOK, Stored
<1> QED
  BY <1>1, <1>2, <1>3, <1>4, <1>5, <1>6, <1>7, <1>8, <1>9, <1>10, <1>11, <1>12
     DEF Next

\* Every variable stays within its type: tokens never run ahead of the number of
\* rotations, and a deleted session leaves no reason or grace behind.
THEOREM TypeCorrect == Spec => []TypeOK
BY InitType, NextType, PTL DEF Spec

----------------------------------------------------------------------------
(* What every step does, as far as the invariants below are concerned *)

\* Reasons and rotations of stored sessions only grow, and no session comes back.
LEMMA RowsGrow ==
    ASSUME TypeOK, [Next]_vars, NEW s \in Sessions
    PROVE  /\ row[s].state # "ABSENT" => row'[s].state # "ABSENT"
           /\ Stored(s)' => Stored(s) \/ row[s].state = "ABSENT"
           /\ Stored(s) /\ Stored(s)' =>
                /\ row[s].current <= row'[s].current
                /\ Revoked(s) => Revoked(s)'
<1> DEFINE Goal == /\ row[s].state # "ABSENT" => row'[s].state # "ABSENT"
                   /\ Stored(s)' => Stored(s) \/ row[s].state = "ABSENT"
                   /\ Stored(s) /\ Stored(s)' =>
                        /\ row[s].current <= row'[s].current
                        /\ Revoked(s) => Revoked(s)'
<1>0. row[s].current \in Int
  BY BoundsAreNat DEF TypeOK, Token
<1>1. ASSUME row'[s] = row[s] PROVE Goal
  BY <1>0, <1>1 DEF Stored, Revoked
<1>2. ASSUME Revises PROVE Goal
  BY <1>0, <1>1, <1>2 DEF Revises, Stored, Revoked
<1>3. ASSUME NEW c \in Sessions, SignIn(c) PROVE Goal
  BY <1>0, <1>1, <1>3 DEF SignIn, TypeOK, Stored, Revoked
<1>4. ASSUME NEW c \in Sessions, GraceEnds(c) PROVE Goal
  <2>1. row'[s].state = row[s].state /\ row'[s].current = row[s].current
        /\ row'[s].reason = row[s].reason
    BY <1>4 DEF GraceEnds, TypeOK
  <2> QED
    BY <1>0, <2>1 DEF Stored, Revoked
<1>5. ASSUME NEW u \in Users, DeleteUser(u) PROVE Goal
  BY <1>0, <1>5 DEF DeleteUser, TypeOK, Stored, Revoked, NoRow
<1>6. ASSUME NEW r \in Requests, RotateSession(r) \/ RotateUnacknowledged(r) PROVE Goal
  <2>1. /\ req[r] # Idle /\ Session(r) \in Sessions
        /\ Stored(Session(r)) /\ NewTokens(Session(r))
    BY <1>6, RequestFacts DEF RotateSession, RotateUnacknowledged, At, IsCurrent
  <2>2. CASE s # Session(r)
    BY <1>1, <2>1, <2>2, NewTokensFacts
  <2>3. CASE s = Session(r)
    BY <1>0, <2>1, <2>3, NewTokensFacts DEF Stored, Revoked
  <2> QED
    BY <2>2, <2>3
<1>7. ASSUME NEW r \in Requests, RevokeAllSessions(r) \/ ExpireSession(r) \/ Caught(r)
                                 \/ LogoutWrites(r)
      PROVE  Goal
  <2>1. req[r] # Idle /\ Session(r) \in Sessions
    BY <1>7, RequestFacts
       DEF RevokeAllSessions, ExpireSession, Caught, LogoutWrites, At
  <2>2. Revises
    BY <1>7, <2>1, RevokeAllType, ReasonType
       DEF ExpireSession, Caught, LogoutWrites, Reason
  <2> QED
    BY <1>2, <2>2
<1>8. ASSUME \/ \E c \in Sessions : AccessExpires(c) \/ Age(c)
             \/ \E r \in Requests :
                  \/ \E c \in Sessions, logout \in BOOLEAN : Send(r, c, logout)
                  \/ FindSession(r) \/ ReturnRotated(r) \/ RefuseRotation(r)
                  \/ LogoutFinds(r) \/ Fail(r) \/ Receive(r) \/ Lose(r)
             \/ UNCHANGED vars
      PROVE  Goal
  BY <1>1, <1>8 DEF AccessExpires, Age, Send, FindSession, ReturnRotated, RefuseRotation,
     LogoutFinds, Fail, Receive, Lose, vars
<1> HIDE DEF Goal
<1>9. Goal
  BY <1>3, <1>4, <1>5, <1>6, <1>7, <1>8 DEF Next
<1> QED
  BY <1>9 DEF Goal

\* After the look at the session no step leads to the rotation, or revokes all.
LEMMA StepsOn ==
    ASSUME TypeOK, NEW q \in Requests,
           RevokeAllSessions(q) \/ ExpireSession(q) \/ Caught(q) \/ LogoutWrites(q)
           \/ ReturnRotated(q) \/ RefuseRotation(q) \/ RotateSession(q)
           \/ RotateUnacknowledged(q) \/ LogoutFinds(q) \/ Fail(q)
    PROVE  \E at \in Step \ {"rotate", "revokeAll", "find"},
              t \in Token \cup {NoToken} : Advanced(q, at, t)
<1>1. /\ req[q] # Idle /\ Session(q) \in Sessions /\ row[Session(q)].current \in Token
      /\ RotateSession(q) => row[Session(q)].current + 1 \in Token
  BY RequestFacts, NewTokensFacts
     DEF RevokeAllSessions, ExpireSession, Caught, LogoutWrites, ReturnRotated,
         RefuseRotation, RotateSession, RotateUnacknowledged, LogoutFinds, Fail, At,
         IsCurrent, TypeOK
<1>2. {"reply", "caughtInvalid", "writeLogout", "findForLogout"}
        \subseteq Step \ {"rotate", "revokeAll", "find"}
  BY DEF Step
<1>3. \A logout : Handler(logout) \in Step \ {"rotate", "revokeAll", "find"}
  BY DEF Handler, Step
<1>4. req[q].issued \in Token \cup {NoToken}
  BY <1>1, RequestFacts DEF Request
<1>5. CASE \E clears \in BOOLEAN : Reply(q, clears)
  BY <1>1, <1>2, <1>5, <1>4, ReplyFacts
<1>6. CASE GoTo(q, "caughtInvalid") \/ GoTo(q, "writeLogout")
  BY <1>1, <1>2, <1>6, <1>4, GoToFacts
<1>7. CASE \E t \in Token : NextHandler(q, t)
  BY <1>1, <1>3, <1>7, NextHandlerFacts
<1> QED
  BY <1>1, <1>5, <1>6, <1>7
     DEF RevokeAllSessions, ExpireSession, Caught, LogoutWrites, ReturnRotated,
         RefuseRotation, RotateSession, RotateUnacknowledged, LogoutFinds, Fail

\* How a step may change one request.
Sent(r) ==
    \E s \in Sessions, logout \in BOOLEAN : Send(r, s, logout)

\* A request is new, over, as it was, or one step on.
LEMMA RequestsMove ==
    ASSUME TypeOK, [Next]_vars, NEW r \in Requests, req'[r] # Idle
    PROVE  \/ req[r] = Idle /\ Sent(r)
           \/ req[r] # Idle /\ req'[r] = req[r]
           \/ /\ req[r] # Idle /\ req'[r].session = req[r].session
              /\ req'[r].token = req[r].token /\ req'[r].logout = req[r].logout
              /\ req'[r].afterRevocation = req[r].afterRevocation
              /\ \/ req'[r].issued = req[r].issued
                 \/ ReturnRotated(r) \/ RotateSession(r)
<1> DEFINE Goal == \/ req[r] = Idle /\ Sent(r)
                   \/ req[r] # Idle /\ req'[r] = req[r]
                   \/ /\ req[r] # Idle /\ req'[r].session = req[r].session
                      /\ req'[r].token = req[r].token /\ req'[r].logout = req[r].logout
                      /\ req'[r].afterRevocation = req[r].afterRevocation
                      /\ \/ req'[r].issued = req[r].issued
                         \/ ReturnRotated(r) \/ RotateSession(r)
<1>1. ASSUME req'[r] = req[r] PROVE Goal
  BY <1>1
<1>2. ASSUME NEW q \in Requests, NEW at, NEW t, req[q] # Idle, Advanced(q, at, t),
             \/ t = req[q].issued
             \/ ReturnRotated(q) \/ RotateSession(q)
      PROVE  Goal
  BY <1>1, <1>2 DEF Advanced
<1>3. ASSUME NEW q \in Requests, NEW s \in Sessions, NEW logout \in BOOLEAN,
             Send(q, s, logout)
      PROVE  Goal
  <2>1. CASE q = r
    BY <1>3, <2>1 DEF Send, Sent
  <2>2. CASE q # r
    BY <1>1, <1>3, <2>2 DEF Send, TypeOK
  <2> QED
    BY <2>1, <2>2
<1>4. ASSUME NEW q \in Requests, FindSession(q) \/ LogoutFinds(q) \/ Fail(q) PROVE Goal
  <2>1. req[q] # Idle
    BY <1>4 DEF FindSession, LogoutFinds, Fail, At
  <2>2. Verdict(Session(q), req[q].token) \in Step /\ {"writeLogout", "caughtInvalid"} \subseteq Step
    BY DEF Verdict, Step
  <2>3. \E at \in Step : Advanced(q, at, req[q].issued)
    BY <1>4, <2>1, <2>2, GoToFacts, ReplyFacts, "reply" \in Step
       DEF FindSession, LogoutFinds, Fail, Step
  <2> QED
    BY <1>2, <2>1, <2>3
<1>5. ASSUME NEW q \in Requests,
             RevokeAllSessions(q) \/ ExpireSession(q) \/ Caught(q) \/ LogoutWrites(q)
             \/ RefuseRotation(q)
      PROVE  Goal
  <2>1. req[q] # Idle /\ \E clears \in BOOLEAN : Reply(q, clears)
    BY <1>5
       DEF RevokeAllSessions, ExpireSession, Caught, LogoutWrites, RefuseRotation, At
  <2> QED
    BY <1>2, <2>1, ReplyFacts
<1>6. ASSUME NEW q \in Requests, ReturnRotated(q) \/ RotateSession(q) PROVE Goal
  <2>1. /\ req[q] # Idle /\ Session(q) \in Sessions /\ row[Session(q)].current \in Token
        /\ RotateSession(q) => row[Session(q)].current + 1 \in Token
    BY <1>6, RequestFacts, NewTokensFacts
       DEF ReturnRotated, RotateSession, At, IsCurrent, TypeOK
  <2>2. \E at, t : Advanced(q, at, t)
    BY <1>6, <2>1, NextHandlerFacts DEF ReturnRotated, RotateSession
  <2> QED
    BY <1>2, <1>6, <2>1, <2>2
<1>7. ASSUME NEW q \in Requests, RotateUnacknowledged(q) PROVE Goal
  <2>1. req[q] # Idle /\ "caughtInvalid" \in Step
    BY <1>7 DEF RotateUnacknowledged, At, Step
  <2> QED
    BY <1>2, <1>7, <2>1, GoToFacts DEF RotateUnacknowledged
<1>8. ASSUME NEW q \in Requests, Receive(q) \/ Lose(q) PROVE Goal
  BY <1>1, <1>8 DEF Receive, Lose, TypeOK
<1>9. ASSUME \/ \E s \in Sessions : SignIn(s) \/ GraceEnds(s) \/ AccessExpires(s) \/ Age(s)
             \/ \E u \in Users : DeleteUser(u)
             \/ UNCHANGED vars
      PROVE  Goal
  BY <1>1, <1>9 DEF SignIn, GraceEnds, AccessExpires, Age, DeleteUser, vars
<1> HIDE DEF Goal
<1>10. Goal
  BY <1>3, <1>4, <1>5, <1>6, <1>7, <1>8, <1>9 DEF Next
<1> QED
  BY <1>10 DEF Goal

----------------------------------------------------------------------------
(* Tokens in flight, revocation, logout *)

\* Clients know sessions that were signed in, and no token of a rotation to come.
TokensAreKnown ==
    /\ \A s \in Sessions :
          jar[s] # NoToken => /\ row[s].state # "ABSENT"
                              /\ Stored(s) => jar[s] <= row[s].current
    /\ \A r \in Requests :
          req[r] # Idle =>
              /\ row[Session(r)].state # "ABSENT"
              /\ Stored(Session(r)) => /\ req[r].token <= row[Session(r)].current
                                       /\ req[r].issued <= row[Session(r)].current

LEMMA InitKnown == Init => TokensAreKnown
BY DEF Init, TokensAreKnown

LEMMA NextKnown == TypeOK /\ TokensAreKnown /\ [Next]_vars => TokensAreKnown'
<1> SUFFICES ASSUME TypeOK, TokensAreKnown, [Next]_vars PROVE TokensAreKnown'
  OBVIOUS
<1>a. TypeOK'
  BY NextType
<1>b. \A s \in Sessions : row[s].current \in Int /\ row'[s].current \in Int
                          /\ jar[s] \in Int /\ jar'[s] \in Int
  BY <1>a, BoundsAreNat DEF TypeOK, Token, NoToken
<1>c. \A r \in Requests : req[r] # Idle => req[r].token \in Int /\ req[r].issued \in Int
                                           /\ Session(r) \in Sessions
  BY RequestFacts, BoundsAreNat DEF Request, Token, NoToken
<1>1. ASSUME NEW s \in Sessions, jar'[s] # NoToken
      PROVE  row'[s].state # "ABSENT" /\ (Stored(s)' => jar'[s] <= row'[s].current)
  <2>1. CASE jar'[s] = jar[s]
    <3>1. row[s].state # "ABSENT" /\ (Stored(s) => jar[s] <= row[s].current)
      BY <1>1, <2>1 DEF TokensAreKnown
    <3> QED
      BY <1>b, <2>1, <3>1, RowsGrow
  <2>2. ASSUME SignIn(s) PROVE jar'[s] = 0 /\ row'[s].state = "STORED"
                               /\ row'[s].current = 0
    BY <2>2, GraceIsStored DEF SignIn, TypeOK, Stored
  <2>3. ASSUME NEW r \in Requests, Receive(r), Session(r) = s, jar'[s] # jar[s]
        PROVE  jar'[s] = req[r].issued /\ req[r] # Idle
    BY <1>1, <2>3 DEF Receive, At, TypeOK
  <2>4. jar'[s] = jar[s] \/ SignIn(s)
        \/ \E r \in Requests : Receive(r) /\ Session(r) = s
    BY DEF Next, vars, SignIn, GraceEnds, AccessExpires, Age, DeleteUser, Send, FindSession,
       RevokeAllSessions, ExpireSession, Caught, ReturnRotated, RefuseRotation,
       RotateSession, RotateUnacknowledged, LogoutFinds, LogoutWrites, Fail, Receive, Lose,
       TypeOK
  <2>5. CASE \E r \in Requests : Receive(r) /\ Session(r) = s /\ jar'[s] # jar[s]
    <3>1. PICK r \in Requests : Receive(r) /\ Session(r) = s /\ jar'[s] # jar[s]
      BY <2>5
    <3>2. /\ row[s].state # "ABSENT"
          /\ Stored(s) => jar'[s] <= row[s].current
      BY <2>3, <3>1 DEF TokensAreKnown
    <3> QED
      BY <1>b, <3>2, RowsGrow
  <2> QED
    BY <2>1, <2>2, <2>4, <2>5
<1>2. ASSUME NEW r \in Requests, req'[r] # Idle
      PROVE  /\ row'[Session(r)'].state # "ABSENT"
             /\ Stored(Session(r))' => /\ req'[r].token <= row'[Session(r)'].current
                                       /\ req'[r].issued <= row'[Session(r)'].current
  <2>1. CASE req[r] = Idle /\ Sent(r)
    <3>1. PICK s \in Sessions :
            /\ jar[s] # NoToken /\ row' = row
            /\ req'[r].session = s /\ req'[r].token = jar[s] /\ req'[r].issued = NoToken
      BY <2>1 DEF Sent, Send, TypeOK
    <3>2. row[s].state # "ABSENT" /\ (Stored(s) => jar[s] <= row[s].current)
      BY <3>1 DEF TokensAreKnown
    <3>3. Stored(s) => NoToken <= row[s].current
      BY BoundsAreNat DEF TypeOK, Token, NoToken
    <3> QED
      BY <3>1, <3>2, <3>3 DEF Session, Stored
  <2>2. CASE req[r] # Idle
    <3>1. /\ row[Session(r)].state # "ABSENT"
          /\ Stored(Session(r)) => /\ req[r].token <= row[Session(r)].current
                                   /\ req[r].issued <= row[Session(r)].current
      BY <2>2 DEF TokensAreKnown
    <3>2. /\ req'[r].session = req[r].session /\ req'[r].token = req[r].token
          /\ req'[r].issued = req[r].issued \/ ReturnRotated(r) \/ RotateSession(r)
      BY <1>2, <2>2, RequestsMove
    <3>3. CASE req'[r].issued = req[r].issued
      BY <1>b, <1>c, <2>2, <3>1, <3>2, <3>3, RowsGrow DEF Session, Stored
    <3>4. CASE ReturnRotated(r)
      <4>1. req'[r].issued = row[Session(r)].current /\ row' = row
        BY <1>b, <1>c, <2>2, <3>4, NextHandlerFacts DEF ReturnRotated, Advanced, TypeOK
      <4> QED
        BY <1>b, <1>c, <2>2, <3>1, <3>2, <4>1 DEF Session, Stored
    <3>5. CASE RotateSession(r)
      <4>1. Stored(Session(r)) /\ NewTokens(Session(r))
        BY <3>5 DEF RotateSession, IsCurrent
      <4>2. /\ row[Session(r)].current + 1 \in Token
            /\ row'[Session(r)].current = row[Session(r)].current + 1
        BY <1>c, <2>2, <4>1, NewTokensFacts
      <4>3. req'[r].issued = row[Session(r)].current + 1
        BY <2>2, <3>5, <4>2, NextHandlerFacts DEF RotateSession, Advanced
      <4> QED
        BY <1>b, <1>c, <2>2, <3>1, <3>2, <4>1, <4>2, <4>3, RowsGrow DEF Session, Stored
    <3> QED
      BY <3>2, <3>3, <3>4, <3>5
  <2> QED
    BY <1>2, <2>1, <2>2, RequestsMove
<1> QED
  BY <1>1, <1>2 DEF TokensAreKnown

\* A request sent after the revocation of its session gets no further than the
\* look at it: it never reaches the rotation.
RevokedGetNothing ==
    \A r \in Requests :
        req[r] # Idle /\ req[r].afterRevocation =>
            /\ req[r].issued = NoToken /\ req[r].at # "rotate"
            /\ row[Session(r)].state # "ABSENT"
            /\ Stored(Session(r)) => Revoked(Session(r))

LEMMA InitRevoked == Init => RevokedGetNothing
BY DEF Init, RevokedGetNothing

LEMMA NextRevoked == TypeOK /\ RevokedGetNothing /\ [Next]_vars => RevokedGetNothing'
<1> SUFFICES ASSUME TypeOK, RevokedGetNothing, [Next]_vars,
                    NEW r \in Requests, req'[r] # Idle, req'[r].afterRevocation
             PROVE  /\ req'[r].issued = NoToken /\ req'[r].at # "rotate"
                    /\ row'[Session(r)'].state # "ABSENT"
                    /\ Stored(Session(r))' => Revoked(Session(r))'
  BY DEF RevokedGetNothing
<1> DEFINE s == req[r].session
<1>1. CASE req[r] = Idle /\ Sent(r)
  <2>1. PICK c \in Sessions, logout \in BOOLEAN : Send(r, c, logout)
    BY <1>1 DEF Sent
  <2>2. /\ row' = row /\ req'[r].session = c /\ req'[r].issued = NoToken
        /\ req'[r].at # "rotate" /\ Revoked(c)
    BY <2>1 DEF Send, TypeOK, Handler
  <2>3. Stored(c)
    BY <2>2, GraceIsStored
  <2> QED
    BY <2>2, <2>3 DEF Session, Stored, Revoked
<1>2. CASE req[r] # Idle
  <2>1. /\ s \in Sessions /\ req'[r].session = s
        /\ req'[r].afterRevocation = req[r].afterRevocation
        /\ req'[r].issued = req[r].issued \/ ReturnRotated(r) \/ RotateSession(r)
    BY <1>2, RequestsMove, RequestFacts DEF Session
  <2>2. /\ req[r].issued = NoToken /\ req[r].at # "rotate" /\ row[s].state # "ABSENT"
        /\ Stored(s) => Revoked(s)
    BY <1>2, <2>1 DEF RevokedGetNothing, Session
  <2>3. req'[r].issued = NoToken
    BY <2>1, <2>2 DEF ReturnRotated, RotateSession, At
  <2>4. row'[s].state # "ABSENT" /\ (Stored(s)' => Revoked(s)')
    BY <2>1, <2>2, RowsGrow
  <2>5. req'[r].at # "rotate"
    <3>1. CASE req'[r] = req[r]
      BY <2>2, <3>1
    <3>2. ASSUME FindSession(r) PROVE req'[r].at # "rotate"
      <4>1. Verdict(s, req[r].token) \in Step \ {"rotate"} \/ ~Stored(s)
        BY <2>2 DEF Verdict, Step
      <4>2. CASE Stored(s) /\ (IsCurrent(s, req[r].token) \/ IsPrevious(s, req[r].token))
        BY <1>2, <3>2, <4>1, <4>2, GoToFacts DEF FindSession, Session, Advanced
      <4>3. CASE ~(IsCurrent(s, req[r].token) \/ IsPrevious(s, req[r].token))
        BY <1>2, <3>2, <4>3, ReplyFacts DEF FindSession, Session, Advanced
      <4> QED
        BY <4>2, <4>3 DEF IsCurrent, IsPrevious
    <3>3. ASSUME NEW q \in Requests, FindSession(q), q # r PROVE req'[r] = req[r]
      BY <3>3 DEF FindSession, GoTo, Reply, TypeOK
    <3>4. ASSUME NEW q \in Requests,
                 RevokeAllSessions(q) \/ ExpireSession(q) \/ Caught(q) \/ LogoutWrites(q)
                 \/ ReturnRotated(q) \/ RefuseRotation(q) \/ RotateSession(q)
                 \/ RotateUnacknowledged(q) \/ LogoutFinds(q) \/ Fail(q)
          PROVE  req'[r] = req[r] \/ req'[r].at # "rotate"
      <4>1. \E at \in Step \ {"rotate"}, t \in Token \cup {NoToken} : Advanced(q, at, t)
        BY <3>4, StepsOn
      <4> QED
        BY <4>1 DEF Advanced
    <3>5. ASSUME \/ \E c \in Sessions :
                      SignIn(c) \/ GraceEnds(c) \/ AccessExpires(c) \/ Age(c)
                 \/ \E u \in Users : DeleteUser(u)
                 \/ \E q \in Requests :
                      \/ \E c \in Sessions, logout \in BOOLEAN : Send(q, c, logout)
                      \/ Receive(q) \/ Lose(q)
                 \/ UNCHANGED vars
          PROVE  req'[r] = req[r]
      BY <1>2, <3>5 DEF SignIn, GraceEnds, AccessExpires, Age, DeleteUser, Send, Receive,
         Lose, vars, TypeOK
    <3>6. ASSUME NEW q \in Requests, FindSession(q) PROVE req'[r].at # "rotate"
      BY <3>1, <3>2, <3>3, <3>6
    <3>7. ASSUME UNCHANGED vars PROVE req'[r].at # "rotate"
      BY <3>1, <3>5, <3>7
    <3>8. ASSUME Next PROVE req'[r].at # "rotate"
      BY <3>1, <3>4, <3>5, <3>6, <3>8 DEF Next
    <3> QED
      BY <3>7, <3>8
  <2> QED
    BY <2>1, <2>3, <2>4, <2>5 DEF Session, Stored, Revoked
<1> QED
  BY <1>1, <1>2, RequestsMove

\* For any number of sessions, requests and rotations: a request sent after its
\* session was revoked is never given tokens (authenticate, rotateSession).
THEOREM NoTokensAfterAnyRevocation == Spec => []NoTokensAfterRevocation
<1>1. RevokedGetNothing => NoTokensAfterRevocation
  BY DEF RevokedGetNothing, NoTokensAfterRevocation
<1> QED
  BY <1>1, InitRevoked, NextRevoked, TypeCorrect, PTL DEF Spec

----------------------------------------------------------------------------
(* Suspicion *)

Causes == {"LOGOUT", "EXPIRED", "INVALID"}
HasCause(u) == \E c \in Sessions : Owner[c] = u /\ row[c].reason \in Causes

\* A request only sets out to revoke all sessions of a user when one of them was
\* revoked for a reason of its own; with the account, all of them are gone.
SuspicionIsJustified ==
    /\ \A s, c \in Sessions :
          Owner[s] = Owner[c] /\ row[s].state = "DELETED" => row[c].state = "DELETED"
    /\ \A s \in Sessions : row[s].reason = "SUSPICIOUS" => HasCause(Owner[s])
    /\ \A r \in Requests :
          At(r, "revokeAll") /\ Stored(Session(r)) => HasCause(Owner[Session(r)])

LEMMA InitJustified == Init => SuspicionIsJustified
BY DEF Init, SuspicionIsJustified, NoRow, At, Idle

\* How a step may change the row of one session.
LEMMA RowChanges ==
    ASSUME TypeOK, [Next]_vars, NEW s \in Sessions
    PROVE  \/ row'[s].state = row[s].state /\ row'[s].reason = row[s].reason
           \/ SignIn(s) /\ row'[s].state = "STORED" /\ row'[s].reason = row[s].reason
           \/ Stored(s) /\ Stored(s)' /\ row'[s].reason \in Causes
           \/ /\ ~Revoked(s) /\ Stored(s) /\ Stored(s)' /\ row'[s].reason = "SUSPICIOUS"
              /\ \E r \in Requests : RevokeAllSessions(r) /\ Owner[s] = Owner[Session(r)]
           \/ DeleteUser(Owner[s]) /\ row'[s].state = "DELETED" /\ row'[s].reason = "NONE"
<1> DEFINE Goal ==
      \/ row'[s].state = row[s].state /\ row'[s].reason = row[s].reason
      \/ SignIn(s) /\ row'[s].state = "STORED" /\ row'[s].reason = row[s].reason
      \/ Stored(s) /\ Stored(s)' /\ row'[s].reason \in Causes
      \/ /\ ~Revoked(s) /\ Stored(s) /\ Stored(s)' /\ row'[s].reason = "SUSPICIOUS"
         /\ \E r \in Requests : RevokeAllSessions(r) /\ Owner[s] = Owner[Session(r)]
      \/ DeleteUser(Owner[s]) /\ row'[s].state = "DELETED" /\ row'[s].reason = "NONE"
<1>1. ASSUME row'[s] = row[s] PROVE Goal
  BY <1>1
<1>2. ASSUME NEW c \in Sessions, SignIn(c) PROVE Goal
  <2>1. CASE c = s
    <3>1. row'[s].state = "STORED" /\ row'[s].reason = row[s].reason
      BY <1>2, <2>1 DEF SignIn, TypeOK
    <3> QED
      BY <1>2, <2>1, <3>1
  <2>2. CASE c # s
    <3>1. row'[s] = row[s]
      BY <1>2, <2>2 DEF SignIn, TypeOK
    <3> QED
      BY <1>1, <3>1
  <2> QED
    BY <2>1, <2>2
<1>3. ASSUME NEW c \in Sessions, GraceEnds(c) PROVE Goal
  BY <1>3 DEF GraceEnds, TypeOK
<1>4. ASSUME NEW u \in Users, DeleteUser(u) PROVE Goal
  BY <1>1, <1>4 DEF DeleteUser, NoRow
<1>5. ASSUME NEW r \in Requests, RotateSession(r) \/ RotateUnacknowledged(r) PROVE Goal
  <2>1. /\ req[r] # Idle /\ Session(r) \in Sessions
        /\ Stored(Session(r)) /\ NewTokens(Session(r))
    BY <1>5, RequestFacts DEF RotateSession, RotateUnacknowledged, At, IsCurrent
  <2>2. CASE s # Session(r)
    BY <1>1, <2>1, <2>2, NewTokensFacts
  <2>3. CASE s = Session(r)
    BY <2>1, <2>3, NewTokensFacts DEF Stored
  <2> QED
    BY <2>2, <2>3
<1>6. ASSUME NEW r \in Requests, ExpireSession(r) \/ Caught(r) \/ LogoutWrites(r)
      PROVE  Goal
  <2>1. req[r] # Idle /\ Session(r) \in Sessions
    BY <1>6, RequestFacts DEF ExpireSession, Caught, LogoutWrites, At
  <2>2. PICK x \in Causes : SetReason(Session(r), x)
    BY <1>6 DEF ExpireSession, Caught, LogoutWrites, Causes
  <2>3. x \in Reason \ {"NONE"}
    BY DEF Causes, Reason
  <2>4. CASE row'[s] = row[s]
    BY <1>1, <2>4
  <2>5. CASE row'[s] # row[s]
    <3>1. Stored(s) /\ row'[s] = [row[s] EXCEPT !.reason = x]
      BY <2>1, <2>2, <2>3, <2>5, SetReasonFacts
    <3> QED
      BY <3>1 DEF TypeOK, Stored
  <2> QED
    BY <2>4, <2>5
<1>7. ASSUME NEW r \in Requests, RevokeAllSessions(r) PROVE Goal
  <2>1. CASE Stored(s) /\ ~Revoked(s) /\ Owner[s] = Owner[Session(r)]
    <3>1. row'[s] = [row[s] EXCEPT !.reason = "SUSPICIOUS"]
      BY <1>7, <2>1 DEF RevokeAllSessions
    <3> QED
      BY <1>7, <2>1, <3>1 DEF TypeOK, Stored
  <2>2. CASE ~(Stored(s) /\ ~Revoked(s) /\ Owner[s] = Owner[Session(r)])
    BY <1>1, <1>7, <2>2 DEF RevokeAllSessions
  <2> QED
    BY <2>1, <2>2
<1>8. ASSUME \/ \E c \in Sessions : AccessExpires(c) \/ Age(c)
             \/ \E r \in Requests :
                  \/ \E c \in Sessions, logout \in BOOLEAN : Send(r, c, logout)
                  \/ FindSession(r) \/ ReturnRotated(r) \/ RefuseRotation(r)
                  \/ LogoutFinds(r) \/ Fail(r) \/ Receive(r) \/ Lose(r)
             \/ UNCHANGED vars
      PROVE  Goal
  BY <1>1, <1>8 DEF AccessExpires, Age, Send, FindSession, ReturnRotated, RefuseRotation,
     LogoutFinds, Fail, Receive, Lose, vars
<1> HIDE DEF Goal
<1>9. Goal
  BY <1>2, <1>3, <1>4, <1>5, <1>6, <1>7, <1>8 DEF Next
<1> QED
  BY <1>9 DEF Goal

\* A cause stays on record as long as the account does.
LEMMA CauseStays ==
    ASSUME TypeOK, [Next]_vars, NEW u \in Users, HasCause(u)
    PROVE  HasCause(u)' \/ DeleteUser(u)
<1>1. PICK c \in Sessions : Owner[c] = u /\ row[c].reason \in Causes
  BY DEF HasCause
<1>2. Revoked(c)
  BY <1>1 DEF Revoked, Causes
<1> QED
  BY <1>1, <1>2, RowChanges DEF HasCause

\* Only the look at the session leads to that step.
LEMMA StepIntoRevokeAll ==
    ASSUME TypeOK, [Next]_vars, NEW r \in Requests, req[r] # Idle,
           req'[r] # Idle, req'[r].at = "revokeAll", req'[r] # req[r]
    PROVE  FindSession(r)
<1>1. ASSUME NEW q \in Requests,
             RevokeAllSessions(q) \/ ExpireSession(q) \/ Caught(q) \/ LogoutWrites(q)
             \/ ReturnRotated(q) \/ RefuseRotation(q) \/ RotateSession(q)
             \/ RotateUnacknowledged(q) \/ LogoutFinds(q) \/ Fail(q)
      PROVE  req'[r] = req[r] \/ req'[r].at # "revokeAll"
  <2>1. \E at \in Step \ {"rotate", "revokeAll"},
            t \in Token \cup {NoToken} : Advanced(q, at, t)
    BY <1>1, StepsOn
  <2> QED
    BY <2>1 DEF Advanced
<1>2. ASSUME NEW q \in Requests, FindSession(q), q # r PROVE FALSE
  BY <1>2 DEF FindSession, GoTo, Reply, TypeOK
<1>3. ASSUME \/ \E c \in Sessions :
                  SignIn(c) \/ GraceEnds(c) \/ AccessExpires(c) \/ Age(c)
             \/ \E u \in Users : DeleteUser(u)
             \/ \E q \in Requests :
                  \/ \E c \in Sessions, logout \in BOOLEAN : Send(q, c, logout)
                  \/ Receive(q) \/ Lose(q)
             \/ UNCHANGED vars
      PROVE  FALSE
  BY <1>3 DEF SignIn, GraceEnds, AccessExpires, Age, DeleteUser, Send, Receive, Lose, vars,
     TypeOK
<1> QED
  BY <1>1, <1>2, <1>3 DEF Next

LEMMA NextJustified ==
    TypeOK /\ TokensAreKnown /\ SuspicionIsJustified /\ [Next]_vars => SuspicionIsJustified'
<1> SUFFICES ASSUME TypeOK, TokensAreKnown, SuspicionIsJustified, [Next]_vars
             PROVE  SuspicionIsJustified'
  OBVIOUS
<1>1. ASSUME NEW s \in Sessions, NEW c \in Sessions, Owner[s] = Owner[c],
             row'[s].state = "DELETED"
      PROVE  row'[c].state = "DELETED"
  <2>1. CASE row[s].state = "DELETED"
    <3>1. row[c].state = "DELETED"
      BY <1>1, <2>1 DEF SuspicionIsJustified
    <3> QED
      BY <3>1, RowChanges DEF SignIn, Stored
  <2>2. CASE row[s].state # "DELETED"
    <3>1. DeleteUser(Owner[c])
      BY <1>1, <2>2, RowChanges DEF Stored
    <3> QED
      BY <3>1 DEF DeleteUser, NoRow
  <2> QED
    BY <2>1, <2>2
<1>2. ASSUME NEW s \in Sessions, row'[s].reason = "SUSPICIOUS" PROVE HasCause(Owner[s])'
  <2>1. CASE row[s].reason = "SUSPICIOUS"
    <3>1. HasCause(Owner[s]) /\ Owner[s] \in Users
      BY <2>1, OwnerType DEF SuspicionIsJustified
    <3>2. ~DeleteUser(Owner[s])
      BY <1>2 DEF DeleteUser, NoRow
    <3> QED
      BY <3>1, <3>2, CauseStays
  <2>2. CASE row[s].reason # "SUSPICIOUS"
    <3>1. /\ Stored(s)
          /\ \E r \in Requests : RevokeAllSessions(r) /\ Owner[s] = Owner[Session(r)]
      BY <1>2, <2>2, RowChanges DEF Causes
    <3>2. PICK r \in Requests : RevokeAllSessions(r) /\ Owner[s] = Owner[Session(r)]
      BY <3>1
    <3>3. At(r, "revokeAll") /\ req[r] # Idle /\ Session(r) \in Sessions
      BY <3>2, RequestFacts DEF RevokeAllSessions, At
    <3>4. Stored(Session(r))
      <4>1. row[Session(r)].state # "ABSENT"
        BY <3>3 DEF TokensAreKnown
      <4>2. row[Session(r)].state # "DELETED"
        BY <3>1, <3>2, <3>3 DEF SuspicionIsJustified, Stored
      <4> QED
        BY <3>3, <4>1, <4>2 DEF TypeOK, Stored
    <3>5. HasCause(Owner[s]) /\ Owner[s] \in Users
      BY <3>2, <3>3, <3>4, OwnerType DEF SuspicionIsJustified
    <3>6. ~DeleteUser(Owner[s])
      BY <1>2 DEF DeleteUser, NoRow
    <3> QED
      BY <3>5, <3>6, CauseStays
  <2> QED
    BY <2>1, <2>2
<1>3. ASSUME NEW r \in Requests, At(r, "revokeAll")', Stored(Session(r))'
      PROVE  HasCause(Owner[Session(r)])'
  <2>0. req'[r] # Idle /\ req'[r].at = "revokeAll"
    BY <1>3 DEF At
  <2>1. /\ req[r] # Idle /\ Session(r)' = Session(r) /\ Session(r) \in Sessions
    <3>1. ~(req[r] = Idle /\ Sent(r))
      BY <2>0 DEF Sent, Send, Handler, TypeOK
    <3> QED
      BY <2>0, <3>1, RequestsMove, RequestFacts DEF Session
  <2>2. Stored(Session(r))
    <3>1. row[Session(r)].state # "ABSENT"
      BY <2>1 DEF TokensAreKnown
    <3> QED
      BY <1>3, <2>1, <3>1, RowsGrow DEF Stored
  <2>3. HasCause(Owner[Session(r)])
    <3>1. CASE req'[r] = req[r]
      BY <2>0, <2>1, <2>2, <3>1 DEF SuspicionIsJustified, At
    <3>2. CASE req'[r] # req[r]
      <4>1. FindSession(r)
        BY <2>0, <2>1, <3>2, StepIntoRevokeAll
      <4>2. Verdict(Session(r), req[r].token) = "revokeAll"
        <5>1. CASE GoTo(r, Verdict(Session(r), req[r].token))
          BY <2>0, <5>1 DEF GoTo, TypeOK
        <5>2. CASE Reply(r, TRUE)
          BY <2>0, <2>1, <5>2, ReplyFacts DEF Advanced
        <5> QED
          BY <4>1, <5>1, <5>2 DEF FindSession
      <4>3. Revoked(Session(r))
        BY <4>2 DEF Verdict
      <4>4. row[Session(r)].reason \in Causes \cup {"SUSPICIOUS"}
        BY <2>1, <4>3 DEF Revoked, TypeOK, Reason, Causes
      <4> QED
        BY <2>1, <4>4 DEF SuspicionIsJustified, HasCause
    <3> QED
      BY <3>1, <3>2
  <2>4. ~DeleteUser(Owner[Session(r)])
    BY <1>3, <2>1 DEF DeleteUser, NoRow, Stored
  <2> QED
    BY <2>1, <2>3, <2>4, CauseStays, OwnerType
<1> QED
  BY <1>1, <1>2, <1>3 DEF SuspicionIsJustified

\* For any number of sessions and requests: sessions are revoked as SUSPICIOUS only
\* if one of the same user was revoked for a reason of its own (revokeAllSessions);
\* the rotation of parallel requests is never taken for reuse.
THEOREM SuspicionAlwaysHasCause == Spec => []SuspicionHasCause
<1>1. SuspicionIsJustified => SuspicionHasCause
  BY DEF SuspicionIsJustified, SuspicionHasCause, HasCause, Causes
<1> QED
  BY <1>1, InitKnown, NextKnown, InitJustified, NextJustified, TypeCorrect, PTL DEF Spec

----------------------------------------------------------------------------
(* Logout *)

LogoutDone(r) ==
    At(r, "reply") /\ req[r].logout /\ req[r].clears /\ Stored(Session(r)) =>
        Revoked(Session(r)) \/ req[r].token # row[Session(r)].current

\* An answer that clears the tokens is given for a session that is not found or
\* has just been revoked.
LEMMA AnswerIsTrue ==
    ASSUME TypeOK, NEW r \in Requests,
           FindSession(r) \/ RevokeAllSessions(r) \/ ExpireSession(r) \/ Caught(r)
           \/ LogoutFinds(r) \/ LogoutWrites(r),
           Reply(r, TRUE)
    PROVE  LogoutDone(r)'
<1>1. req[r] # Idle /\ Session(r) \in Sessions
  BY RequestFacts
     DEF FindSession, RevokeAllSessions, ExpireSession, Caught, LogoutFinds, LogoutWrites, At
<1>2. req'[r].session = req[r].session /\ req'[r].token = req[r].token
  BY <1>1, ReplyFacts DEF Advanced
<1>3. CASE FindSession(r) \/ LogoutFinds(r)
  <2>1. row' = row /\ (~Stored(Session(r)) \/ Revoked(Session(r))
                       \/ req[r].token # row[Session(r)].current)
    <3>1. req'[r].at = "reply"
      BY <1>1, ReplyFacts DEF Advanced
    <3>2. \A s, t : Verdict(s, t) # "reply"
      BY DEF Verdict
    <3>3. ASSUME NEW step, GoTo(r, step) PROVE step = "reply"
      BY <3>1, <3>3, <1>1 DEF GoTo, TypeOK, Request
    <3> QED
      BY <1>3, <3>2, <3>3 DEF FindSession, LogoutFinds, IsCurrent, IsPrevious
  <2> QED
    BY <1>2, <2>1 DEF LogoutDone, Session, Stored, Revoked
<1>4. CASE RevokeAllSessions(r)
  <2>1. Stored(Session(r))' => Revoked(Session(r))'
    <3>1. Session(r)' = Session(r)
      BY <1>2 DEF Session
    <3> QED
      BY <1>1, <1>4, <3>1 DEF RevokeAllSessions, Stored, Revoked, TypeOK
  <2> QED
    BY <2>1 DEF LogoutDone
<1>5. CASE ExpireSession(r) \/ Caught(r) \/ LogoutWrites(r)
  <2>1. PICK x \in Reason \ {"NONE"} : SetReason(Session(r), x)
    BY <1>5 DEF ExpireSession, Caught, LogoutWrites, Reason
  <2>2. Stored(Session(r))' => Revoked(Session(r))'
    <3>1. Session(r)' = Session(r)
      BY <1>2 DEF Session
    <3>2. Stored(Session(r)) => row'[Session(r)] = [row[Session(r)] EXCEPT !.reason = x]
      BY <1>1, <2>1, SetReasonFacts
    <3>3. ~Stored(Session(r)) => row'[Session(r)] = row[Session(r)]
      BY <1>1, <2>1, SetReasonFacts
    <3> QED
      BY <1>1, <3>1, <3>2, <3>3 DEF Stored, Revoked, TypeOK
  <2> QED
    BY <2>2 DEF LogoutDone
<1> QED
  BY <1>3, <1>4, <1>5

\* A step of the request itself answers, clearing the tokens, or does not.
LEMMA WhoAnswers ==
    ASSUME TypeOK, [Next]_vars, NEW r \in Requests, req'[r] # Idle, req'[r] # req[r],
           req'[r].at = "reply", req'[r].clears
    PROVE  \/ /\ FindSession(r) \/ RevokeAllSessions(r) \/ ExpireSession(r) \/ Caught(r)
                 \/ LogoutFinds(r) \/ LogoutWrites(r)
              /\ Reply(r, TRUE)
           \/ /\ ReturnRotated(r) \/ RotateSession(r)
              /\ ~req'[r].logout
           \/ Sent(r)
<1>1. ASSUME NEW q \in Requests, q # r,
             FindSession(q) \/ RevokeAllSessions(q) \/ ExpireSession(q) \/ Caught(q)
             \/ LogoutWrites(q) \/ ReturnRotated(q) \/ RefuseRotation(q)
             \/ RotateSession(q) \/ RotateUnacknowledged(q) \/ LogoutFinds(q) \/ Fail(q)
      PROVE  FALSE
  BY <1>1 DEF FindSession, RevokeAllSessions, ExpireSession, Caught, LogoutWrites,
     ReturnRotated, RefuseRotation, RotateSession, RotateUnacknowledged, LogoutFinds, Fail,
     GoTo, Reply, NextHandler, TypeOK
<1>2. ASSUME NEW q \in Requests,
             \/ \E c \in Sessions, logout \in BOOLEAN : Send(q, c, logout)
             \/ Receive(q) \/ Lose(q)
      PROVE  Sent(r)
  BY <1>2 DEF Send, Receive, Lose, Sent, TypeOK
<1>3. ASSUME \/ \E c \in Sessions :
                  SignIn(c) \/ GraceEnds(c) \/ AccessExpires(c) \/ Age(c)
             \/ \E u \in Users : DeleteUser(u)
             \/ UNCHANGED vars
      PROVE  FALSE
  BY <1>3 DEF SignIn, GraceEnds, AccessExpires, Age, DeleteUser, vars
<1>4. ASSUME RevokeAllSessions(r) \/ ExpireSession(r) \/ Caught(r) \/ LogoutWrites(r)
      PROVE  Reply(r, TRUE)
  BY <1>4 DEF RevokeAllSessions, ExpireSession, Caught, LogoutWrites
<1>5. ASSUME FindSession(r) \/ LogoutFinds(r) PROVE Reply(r, TRUE)
  <2>1. req[r] # Idle
    BY <1>5 DEF FindSession, LogoutFinds, At
  <2>2. \A s, t : Verdict(s, t) # "reply"
    BY DEF Verdict
  <2>3. \A step : GoTo(r, step) => step = "reply"
    BY <2>1 DEF GoTo, TypeOK, Request
  <2> QED
    BY <1>5, <2>2, <2>3 DEF FindSession, LogoutFinds
<1>6. ASSUME RefuseRotation(r) \/ Fail(r) \/ RotateUnacknowledged(r) PROVE FALSE
  <2>1. req[r] # Idle
    BY <1>6 DEF RefuseRotation, Fail, RotateUnacknowledged, At
  <2>2. \A step : GoTo(r, step) => step = "reply"
    BY <2>1 DEF GoTo, TypeOK, Request
  <2>3. Reply(r, FALSE) => ~req'[r].clears
    BY <2>1, ReplyFacts
  <2> QED
    BY <1>6, <2>2, <2>3 DEF RefuseRotation, Fail, RotateUnacknowledged
<1>7. ASSUME ReturnRotated(r) \/ RotateSession(r) PROVE ~req'[r].logout
  <2>1. /\ req[r] # Idle /\ row[Session(r)].current \in Token
        /\ RotateSession(r) => row[Session(r)].current + 1 \in Token
    BY <1>7, RequestFacts, NewTokensFacts
       DEF ReturnRotated, RotateSession, At, IsCurrent, TypeOK
  <2>2. PICK t \in Token : NextHandler(r, t)
    BY <1>7, <2>1 DEF ReturnRotated, RotateSession
  <2> QED
    BY <2>1, <2>2, NextHandlerFacts DEF Advanced, Handler
<1> QED
  BY <1>1, <1>2, <1>3, <1>4, <1>5, <1>6, <1>7 DEF Next

LEMMA NextLogout ==
    TypeOK /\ TokensAreKnown /\ LogoutEndsSession /\ [Next]_vars => LogoutEndsSession'
<1> SUFFICES ASSUME TypeOK, TokensAreKnown, LogoutEndsSession, [Next]_vars,
                    NEW r \in Requests
             PROVE  LogoutDone(r)'
  BY DEF LogoutEndsSession, LogoutDone
<1> SUFFICES ASSUME req'[r] # Idle, req'[r].at = "reply", req'[r].logout, req'[r].clears,
                    Stored(Session(r))'
             PROVE  LogoutDone(r)'
  BY DEF LogoutDone, At
<1>1. CASE req'[r] = req[r]
  <2>1. req[r] # Idle /\ Session(r)' = Session(r) /\ Session(r) \in Sessions
    BY <1>1, RequestFacts DEF Session
  <2>2. row[Session(r)].state # "ABSENT"
        /\ (Stored(Session(r)) => req[r].token <= row[Session(r)].current)
    BY <2>1 DEF TokensAreKnown
  <2>3. /\ Stored(Session(r)) /\ row[Session(r)].current <= row'[Session(r)].current
        /\ Revoked(Session(r)) => Revoked(Session(r))'
    BY <2>1, <2>2, RowsGrow DEF Stored, Revoked
  <2>4. Revoked(Session(r)) \/ req[r].token # row[Session(r)].current
    BY <1>1, <2>1, <2>3 DEF LogoutEndsSession, At
  <2>5. req[r].token \in Int /\ row[Session(r)].current \in Int
        /\ row'[Session(r)].current \in Int
    <3>1. TypeOK'
      BY NextType
    <3> QED
      BY <2>1, <3>1, RequestFacts, BoundsAreNat DEF TypeOK, Request, Token
  <2>6. CASE Revoked(Session(r))
    BY <2>3, <2>6 DEF LogoutDone
  <2>7. CASE req[r].token # row[Session(r)].current
    BY <1>1, <2>1, <2>2, <2>3, <2>5, <2>7 DEF LogoutDone
  <2> QED
    BY <2>4, <2>6, <2>7
<1>2. CASE req'[r] # req[r]
  <2>1. ~Sent(r)
    BY DEF Sent, Send, TypeOK
  <2> QED
    BY <1>2, <2>1, WhoAnswers, AnswerIsTrue
<1> QED
  BY <1>1, <1>2

\* For any number of sessions and requests: when logout has been answered, the
\* session is over or its token had been rotated (logout of auth.service).
THEOREM LogoutAlwaysEndsSession == Spec => []LogoutEndsSession
<1>1. Init => LogoutEndsSession
  BY DEF Init, LogoutEndsSession, At
<1> QED
  BY <1>1, InitKnown, NextKnown, NextLogout, TypeCorrect, PTL DEF Spec
----------------------------------------------------------------------------
(* Parallel requests of a prompt client *)

\* What rotateSession takes: the present token, or the previous one in its grace.
Usable(s, t) == t = row[s].current \/ (row[s].grace /\ t = row[s].current - 1)

Of(r, s) == req[r] # Idle /\ req[r].session = s

\* A request on its way to the rotation brings a usable token, and if it is the
\* present one its access token has expired; tokens under way to the client are
\* the present ones, and their grace is not over.
RequestPrompt(s, r) ==
    Of(r, s) =>
        /\ req[r].at \in {"find", "rotate"} =>
              Usable(s, req[r].token) /\ (req[r].token = row[s].current => s \in stale)
        /\ req[r].issued # NoToken => row[s].grace /\ req[r].issued = row[s].current

\* The client holds usable tokens; while they are not the present ones, these are
\* under way, so that the grace does not end before they arrive.
JarPrompt(s) ==
    \/ jar[s] \in {NoToken, row[s].current}
    \/ /\ Usable(s, jar[s])
       /\ \E r \in Requests : Of(r, s) /\ req[r].issued # NoToken

Prompt(s) ==
    s \notin disturbed /\ Stored(s) =>
        /\ row[s].grace => s \notin stale
        /\ JarPrompt(s)
        /\ \A r \in Requests : RequestPrompt(s, r)

\* What most steps leave alone of a session, if it is still stored.
Still(s) ==
    /\ s \in disturbed => s \in disturbed'
    /\ Stored(s)' => /\ Stored(s)
                     /\ row'[s].current = row[s].current /\ row'[s].grace = row[s].grace
    /\ s \in stale' <=> s \in stale
    /\ jar'[s] = jar[s]

LEMMA RequestStays ==
    ASSUME NEW s \in Sessions, NEW r \in Requests, RequestPrompt(s, r),
           row'[s].current = row[s].current, row'[s].grace = row[s].grace,
           s \in stale' <=> s \in stale, req'[r] = req[r]
    PROVE  RequestPrompt(s, r)'
BY DEF RequestPrompt, Of, Usable

\* A step that moves no request.
LEMMA NothingMoves ==
    ASSUME NEW s \in Sessions, Prompt(s), Still(s), req' = req
    PROVE  Prompt(s)'
<1> SUFFICES ASSUME s \notin disturbed', Stored(s)'
             PROVE  /\ row'[s].grace => s \notin stale'
                    /\ JarPrompt(s)'
                    /\ \A r \in Requests : RequestPrompt(s, r)'
  BY DEF Prompt
<1>1. /\ row[s].grace => s \notin stale
      /\ JarPrompt(s) /\ \A r \in Requests : RequestPrompt(s, r)
      /\ row'[s].current = row[s].current /\ row'[s].grace = row[s].grace
      /\ s \in stale' <=> s \in stale
  BY DEF Prompt, Still
<1>2. \A r \in Requests : RequestPrompt(s, r)'
  BY <1>1, RequestStays
<1>3. JarPrompt(s)'
  BY <1>1 DEF JarPrompt, Still, Usable, Of
<1> QED
  BY <1>1, <1>2, <1>3

\* A request goes one step on, and no step but the look leads to the rotation.
LEMMA RequestGoesOn ==
    ASSUME TypeOK, NEW s \in Sessions, Prompt(s), Still(s),
           NEW q \in Requests, req[q] # Idle, NEW at, Advanced(q, at, req[q].issued),
           at # "find", at = "rotate" => req[q].at = "find"
    PROVE  Prompt(s)'
<1> SUFFICES ASSUME s \notin disturbed', Stored(s)'
             PROVE  /\ row'[s].grace => s \notin stale'
                    /\ JarPrompt(s)'
                    /\ \A r \in Requests : RequestPrompt(s, r)'
  BY DEF Prompt
<1>1. /\ row[s].grace => s \notin stale
      /\ JarPrompt(s) /\ \A r \in Requests : RequestPrompt(s, r)
      /\ row'[s].current = row[s].current /\ row'[s].grace = row[s].grace
      /\ s \in stale' <=> s \in stale
  BY DEF Prompt, Still
<1>2. \A r \in Requests : (Of(r, s)' <=> Of(r, s)) /\ req'[r].issued = req[r].issued
  BY DEF Advanced, Of
<1>3. ASSUME NEW r \in Requests PROVE RequestPrompt(s, r)'
  <2>1. CASE r # q
    BY <1>1, <2>1, RequestStays DEF Advanced
  <2>2. CASE r = q
    <3>1. /\ req'[q].at = at /\ req'[q].token = req[q].token
          /\ req'[q].issued = req[q].issued
      BY DEF Advanced
    <3>2. RequestPrompt(s, q)
      BY <1>1
    <3> QED
      BY <1>1, <1>2, <2>2, <3>1, <3>2 DEF RequestPrompt, Usable
  <2> QED
    BY <2>1, <2>2
<1>4. JarPrompt(s)'
  BY <1>1, <1>2 DEF JarPrompt, Still, Usable
<1> QED
  BY <1>1, <1>3, <1>4

LEMMA InitPrompt == Init => \A s \in Sessions : Prompt(s)
BY DEF Init, Prompt, Stored, NoRow

LEMMA SignInPrompt ==
    ASSUME TypeOK, TokensAreKnown, NEW s \in Sessions, Prompt(s),
           NEW c \in Sessions, SignIn(c)
    PROVE  Prompt(s)'
<1>1. CASE c # s
  <2>1. Still(s) /\ req' = req
    BY <1>1 DEF SignIn, Still, TypeOK, Stored
  <2> QED
    BY <2>1, NothingMoves
<1>2. CASE c = s
  <2>1. /\ ~row[s].grace /\ row[s].current = 0
    BY <1>2, GraceIsStored DEF SignIn, Stored
  <2>2. row'[s].grace = row[s].grace /\ row'[s].current = row[s].current /\ jar'[s] = 0
    BY <1>2 DEF SignIn, TypeOK
  <2>3. \A r \in Requests : ~Of(r, s)'
    BY <1>2 DEF SignIn, TokensAreKnown, Of, Session
  <2> QED
    BY <2>1, <2>2, <2>3 DEF Prompt, JarPrompt, RequestPrompt
<1> QED
  BY <1>1, <1>2

LEMMA GraceEndsPrompt ==
    ASSUME TypeOK, NEW s \in Sessions, Prompt(s), NEW c \in Sessions, GraceEnds(c)
    PROVE  Prompt(s)'
<1>1. CASE c # s
  <2>1. Still(s) /\ req' = req
    BY <1>1 DEF GraceEnds, Still, TypeOK, Stored
  <2> QED
    BY <2>1, NothingMoves
<1>2. CASE c = s
  <2> SUFFICES ASSUME s \notin disturbed', Stored(s)'
               PROVE  /\ row'[s].grace => s \notin stale'
                      /\ JarPrompt(s)'
                      /\ \A r \in Requests : RequestPrompt(s, r)'
    BY DEF Prompt
  <2>1. InFlight(s) = {} /\ s \notin disturbed
    BY <1>2 DEF GraceEnds
  <2>2. \A r \in Requests : ~Of(r, s) /\ ~Of(r, s)'
    BY <1>2, <2>1 DEF InFlight, Of, GraceEnds
  <2>3. row' = [row EXCEPT ![s].grace = FALSE] /\ jar' = jar
    BY <1>2 DEF GraceEnds
  <2>4. row'[s] = [row[s] EXCEPT !.grace = FALSE]
    BY <2>3 DEF TypeOK
  <2>5. row'[s].current = row[s].current /\ row'[s].state = row[s].state /\ ~row'[s].grace
    BY <2>4 DEF TypeOK
  <2>6. jar[s] \in {NoToken, row[s].current}
    BY <2>1, <2>2, <2>5 DEF Prompt, JarPrompt, Stored
  <2> QED
    BY <2>2, <2>3, <2>5, <2>6 DEF JarPrompt, RequestPrompt
<1> QED
  BY <1>1, <1>2

LEMMA AccessExpiresPrompt ==
    ASSUME TypeOK, NEW s \in Sessions, Prompt(s), NEW c \in Sessions, AccessExpires(c)
    PROVE  Prompt(s)'
<1>1. CASE c # s
  <2>1. Still(s) /\ req' = req
    BY <1>1 DEF AccessExpires, Still, TypeOK, Stored
  <2> QED
    BY <2>1, NothingMoves
<1>2. CASE c = s
  <2>1. /\ ~row[s].grace /\ s \in stale' /\ row' = row /\ jar' = jar /\ req' = req
        /\ disturbed' = disturbed
    BY <1>2 DEF AccessExpires
  <2>2. ASSUME NEW r \in Requests, RequestPrompt(s, r) PROVE RequestPrompt(s, r)'
    BY <2>1, <2>2 DEF RequestPrompt, Of, Usable
  <2> QED
    BY <2>1, <2>2 DEF Prompt, JarPrompt, Usable, Of, Stored
<1> QED
  BY <1>1, <1>2

LEMMA SendPrompt ==
    ASSUME TypeOK, NEW s \in Sessions, Prompt(s), NEW q \in Requests, Sent(q)
    PROVE  Prompt(s)'
<1>1. PICK c \in Sessions, logout \in BOOLEAN : Send(q, c, logout)
  BY DEF Sent
<1>2. /\ row' = row /\ stale' = stale /\ jar' = jar /\ disturbed' = disturbed
      /\ req[q] = Idle /\ jar[c] # NoToken
      /\ \A r \in Requests \ {q} : req'[r] = req[r]
      /\ req'[q].session = c /\ req'[q].issued = NoToken /\ req'[q].token = jar[c]
      /\ req'[q].at = IF Fresh(c, jar[c]) THEN Handler(logout) ELSE "find"
  BY <1>1 DEF Send, TypeOK
<1> SUFFICES ASSUME s \notin disturbed, Stored(s)
             PROVE  JarPrompt(s)' /\ \A r \in Requests : RequestPrompt(s, r)'
  BY <1>2 DEF Prompt, Stored
<1>3. JarPrompt(s) /\ \A r \in Requests : RequestPrompt(s, r)
  BY DEF Prompt
<1>4. JarPrompt(s)'
  <2>1. CASE jar[s] \in {NoToken, row[s].current}
    BY <1>2, <2>1 DEF JarPrompt
  <2>2. CASE jar[s] \notin {NoToken, row[s].current}
    <3>1. PICK r \in Requests : Of(r, s) /\ req[r].issued # NoToken
      BY <1>3, <2>2 DEF JarPrompt
    <3>2. r # q
      BY <1>2, <3>1 DEF Of
    <3>3. Of(r, s)' /\ req'[r].issued # NoToken
      BY <1>2, <3>1, <3>2 DEF Of
    <3>4. Usable(s, jar[s])'
      BY <1>2, <1>3, <2>2 DEF JarPrompt, Usable
    <3> QED
      BY <1>2, <3>3, <3>4 DEF JarPrompt
  <2> QED
    BY <2>1, <2>2
<1>5. ASSUME NEW r \in Requests, r # q PROVE RequestPrompt(s, r)'
  BY <1>2, <1>3, <1>5, RequestStays
<1>6. RequestPrompt(s, q)'
  <2>1. CASE Fresh(c, jar[c])
    BY <1>2, <2>1 DEF RequestPrompt, Handler
  <2>2. CASE ~Fresh(c, jar[c]) /\ c = s
    <3>1. Usable(s, jar[s]) /\ (jar[s] = row[s].current => s \in stale)
      BY <1>2, <1>3, <2>2 DEF JarPrompt, Usable, Fresh
    <3> QED
      BY <1>2, <2>2, <3>1 DEF RequestPrompt, Usable
  <2>3. CASE c # s
    BY <1>2, <2>3 DEF RequestPrompt, Of
  <2> QED
    BY <2>1, <2>2, <2>3
<1> QED
  BY <1>4, <1>5, <1>6
LEMMA ReturnPrompt ==
    ASSUME TypeOK, NEW s \in Sessions, Prompt(s), NEW q \in Requests, ReturnRotated(q)
    PROVE  Prompt(s)'
<1>1. /\ req[q] # Idle /\ req[q].session \in Sessions /\ row[req[q].session].grace
      /\ row[req[q].session].current \in Token
      /\ NextHandler(q, row[req[q].session].current)
  BY RequestFacts DEF ReturnRotated, WithinGrace, At, Session, TypeOK
<1>2. /\ \A r \in Requests \ {q} : req'[r] = req[r]
      /\ req'[q].session = req[q].session /\ req'[q] # Idle
      /\ req'[q].issued = row[req[q].session].current
      /\ req'[q].at \in {"findForLogout", "reply"}
  BY <1>1, NextHandlerFacts DEF Advanced
<1>3. row' = row /\ stale' = stale /\ jar' = jar /\ disturbed' = disturbed
  BY DEF ReturnRotated
<1>4. \A r \in Requests : Of(r, s)' <=> Of(r, s)
  BY <1>1, <1>2 DEF Of
<1> SUFFICES ASSUME s \notin disturbed, Stored(s)
             PROVE  JarPrompt(s)' /\ \A r \in Requests : RequestPrompt(s, r)'
  BY <1>3 DEF Prompt, Stored
<1>5. JarPrompt(s) /\ \A r \in Requests : RequestPrompt(s, r)
  BY DEF Prompt
<1>6. ASSUME NEW r \in Requests PROVE RequestPrompt(s, r)'
  <2>1. CASE r # q
    BY <1>2, <1>3, <1>5, <2>1, RequestStays
  <2>2. CASE r = q
    BY <1>1, <1>2, <1>3, <2>2 DEF RequestPrompt, Of
  <2> QED
    BY <2>1, <2>2
<1>7. \A r \in Requests : Of(r, s) /\ req[r].issued # NoToken => req'[r].issued # NoToken
  <2>1. row[req[q].session].current # NoToken
    BY <1>1 DEF Token, NoToken
  <2> QED
    BY <1>2, <2>1
<1>8. JarPrompt(s)'
  BY <1>3, <1>4, <1>5, <1>7 DEF JarPrompt, Usable
<1> QED
  BY <1>6, <1>8

\* The token that is rotated was the present one and its access token had expired:
\* no grace was running, so every other request, and the client, had it too.
LEMMA RotatePrompt ==
    ASSUME TypeOK, NEW s \in Sessions, Prompt(s), NEW q \in Requests, RotateSession(q)
    PROVE  Prompt(s)'
<1>1. /\ req[q] # Idle /\ req[q].session \in Sessions /\ req[q].at = "rotate"
      /\ Stored(req[q].session) /\ NewTokens(req[q].session)
      /\ req[q].token = row[req[q].session].current
      /\ NextHandler(q, row[req[q].session].current + 1)
      /\ jar' = jar /\ disturbed' = disturbed
  BY RequestFacts DEF RotateSession, At, Session, IsCurrent
<1>2. /\ stale' = stale \ {req[q].session}
      /\ \A c \in Sessions \ {req[q].session} : row'[c] = row[c]
      /\ row'[req[q].session].grace
      /\ row'[req[q].session].current = row[req[q].session].current + 1
      /\ row[req[q].session].current + 1 \in Token
  BY <1>1, NewTokensFacts
<1>3. /\ \A r \in Requests \ {q} : req'[r] = req[r]
      /\ req'[q].session = req[q].session /\ req'[q] # Idle
      /\ req'[q].issued = row[req[q].session].current + 1
      /\ req'[q].at \in {"findForLogout", "reply"}
  BY <1>1, <1>2, NextHandlerFacts DEF Advanced
<1>4. CASE req[q].session # s
  <2> SUFFICES ASSUME s \notin disturbed, Stored(s)
               PROVE  JarPrompt(s)' /\ \A r \in Requests : RequestPrompt(s, r)'
    BY <1>1, <1>2, <1>4 DEF Prompt, Stored
  <2>1. JarPrompt(s) /\ \A r \in Requests : RequestPrompt(s, r)
    BY DEF Prompt
  <2>2. row'[s] = row[s] /\ (s \in stale' <=> s \in stale)
    BY <1>2, <1>4
  <2>3. ASSUME NEW r \in Requests, r # q PROVE RequestPrompt(s, r)'
    BY <1>3, <2>1, <2>2, <2>3, RequestStays
  <2>4. RequestPrompt(s, q)'
    BY <1>3, <1>4 DEF RequestPrompt, Of
  <2>5. \A r \in Requests : Of(r, s) => Of(r, s)' /\ req'[r].issued = req[r].issued
    BY <1>3, <1>4 DEF Of
  <2>6. JarPrompt(s)'
    BY <1>1, <2>1, <2>2, <2>5 DEF JarPrompt, Usable
  <2> QED
    BY <2>3, <2>4, <2>6
<1>5. CASE req[q].session = s
  <2> SUFFICES ASSUME s \notin disturbed
               PROVE  /\ s \notin stale'
                      /\ JarPrompt(s)'
                      /\ \A r \in Requests : RequestPrompt(s, r)'
    BY <1>1 DEF Prompt
  <2>0. row[s].current \in Int /\ row[s].current + 1 # NoToken
    BY <1>2, <1>5, BoundsAreNat DEF TypeOK, Token, NoToken
  <2>1. JarPrompt(s) /\ \A r \in Requests : RequestPrompt(s, r)
    BY <1>1, <1>5 DEF Prompt
  <2>2. ~row[s].grace
    <3>1. s \in stale
      BY <1>1, <1>5, <2>1 DEF RequestPrompt, Of
    <3> QED
      BY <1>1, <1>5, <3>1 DEF Prompt
  <2>3. ASSUME NEW r \in Requests, r # q PROVE RequestPrompt(s, r)'
    <3> SUFFICES ASSUME Of(r, s)
                 PROVE  /\ req[r].at \in {"find", "rotate"} =>
                             Usable(s, req[r].token)' /\ req[r].token # row'[s].current
                        /\ req[r].issued = NoToken
      BY <1>3, <2>3 DEF RequestPrompt, Of, Usable
    <3>1. /\ req[r].at \in {"find", "rotate"} => req[r].token = row[s].current
          /\ req[r].issued = NoToken
      BY <2>1, <2>2 DEF RequestPrompt, Usable
    <3>2. ASSUME req[r].token = row[s].current
          PROVE  Usable(s, req[r].token)' /\ req[r].token # row'[s].current
      <4>1. row'[s].grace /\ row'[s].current = row[s].current + 1 /\ req'[r] = req[r]
        BY <1>2, <1>3, <1>5, <2>3
      <4>2. /\ row[s].current = row'[s].current - 1 /\ row[s].current # row'[s].current
        BY <2>0, <4>1
      <4> QED
        BY <3>2, <4>1, <4>2 DEF Usable
    <3> QED
      BY <3>1, <3>2
  <2>4. RequestPrompt(s, q)'
    BY <1>2, <1>3, <1>5 DEF RequestPrompt
  <2>5. JarPrompt(s)'
    <3>1. jar[s] \in {NoToken, row[s].current}
      BY <2>1, <2>2 DEF JarPrompt, Usable
    <3>2. Of(q, s)' /\ req'[q].issued # NoToken
      BY <1>3, <1>5, <2>0 DEF Of
    <3>3. CASE jar[s] = row[s].current
      <4>1. row'[s].grace /\ row[s].current = row'[s].current - 1
        BY <1>2, <1>5, <2>0
      <4> QED
        BY <1>1, <3>2, <3>3, <4>1 DEF JarPrompt, Usable
    <3> QED
      BY <1>1, <3>1, <3>3 DEF JarPrompt
  <2> QED
    BY <1>2, <1>5, <2>3, <2>4, <2>5
<1> QED
  BY <1>4, <1>5

\* Tokens that arrive are the present ones.
LEMMA ReceivePrompt ==
    ASSUME TypeOK, NEW s \in Sessions, Prompt(s), NEW q \in Requests, Receive(q)
    PROVE  Prompt(s)'
<1>1. /\ req[q] # Idle /\ req[q].session \in Sessions
      /\ row' = row /\ stale' = stale /\ disturbed' = disturbed /\ req'[q] = Idle
      /\ \A r \in Requests \ {q} : req'[r] = req[r]
  BY RequestFacts DEF Receive, At, Session, TypeOK
<1>2. /\ \A c \in Sessions \ {req[q].session} : jar'[c] = jar[c]
      /\ \/ jar'[req[q].session] = NoToken
         \/ /\ req[q].issued # NoToken
            /\ jar'[req[q].session] = req[q].issued
         \/ req[q].issued = NoToken /\ jar'[req[q].session] = jar[req[q].session]
  BY <1>1 DEF Receive, Session, TypeOK
<1> SUFFICES ASSUME s \notin disturbed, Stored(s)
             PROVE  JarPrompt(s)' /\ \A r \in Requests : RequestPrompt(s, r)'
  BY <1>1 DEF Prompt, Stored
<1>3. JarPrompt(s) /\ \A r \in Requests : RequestPrompt(s, r)
  BY DEF Prompt
<1>4. ASSUME NEW r \in Requests PROVE RequestPrompt(s, r)'
  <2>1. CASE r # q
    BY <1>1, <1>3, <2>1, RequestStays
  <2>2. CASE r = q
    BY <1>1, <2>2 DEF RequestPrompt, Of
  <2> QED
    BY <2>1, <2>2
<1>5. ASSUME req[q].session # s \/ (req[q].issued = NoToken /\ jar'[s] = jar[s])
      PROVE  JarPrompt(s)'
  <2>1. jar'[s] = jar[s]
    BY <1>2, <1>5
  <2>2. \A r \in Requests : Of(r, s) /\ req[r].issued # NoToken =>
                              Of(r, s)' /\ req'[r].issued # NoToken
    BY <1>1, <1>5 DEF Of
  <2> QED
    BY <1>1, <1>3, <2>1, <2>2 DEF JarPrompt, Usable
<1>6. ASSUME req[q].session = s, req[q].issued # NoToken, jar'[s] = req[q].issued
      PROVE  JarPrompt(s)'
  <2>1. req[q].issued = row[s].current
    BY <1>1, <1>3, <1>6 DEF RequestPrompt, Of
  <2> QED
    BY <1>1, <1>6, <2>1 DEF JarPrompt
<1>7. ASSUME jar'[s] = NoToken PROVE JarPrompt(s)'
  BY <1>7 DEF JarPrompt
<1> QED
  BY <1>2, <1>4, <1>5, <1>6, <1>7

\* A session whose request fails or is lost is not spoken of; the others are as
\* they were.
LEMMA DisturbedPrompt ==
    ASSUME TypeOK, NEW s \in Sessions, Prompt(s), NEW q \in Requests,
           Fail(q) \/ Lose(q) \/ RotateUnacknowledged(q)
    PROVE  Prompt(s)'
<1>1. /\ req[q] # Idle /\ req[q].session \in Sessions /\ jar' = jar
      /\ disturbed' = disturbed \cup {req[q].session}
  BY RequestFacts DEF Fail, Lose, RotateUnacknowledged, At, Session
<1>2. CASE req[q].session = s
  BY <1>1, <1>2 DEF Prompt
<1>3. CASE req[q].session # s
  <2>1. ASSUME RotateUnacknowledged(q)
        PROVE  row'[s] = row[s] /\ (s \in stale' <=> s \in stale)
    <3>1. Stored(req[q].session) /\ NewTokens(req[q].session)
      BY <2>1 DEF RotateUnacknowledged, IsCurrent, Session
    <3> QED
      BY <1>1, <1>3, <3>1, NewTokensFacts
  <2>2. row'[s] = row[s] /\ (s \in stale' <=> s \in stale)
    BY <2>1 DEF Fail, Lose
  <2>3. \A r \in Requests \ {q} : req'[r] = req[r]
    BY DEF Fail, Lose, RotateUnacknowledged, GoTo, Reply, TypeOK
  <2>4. ~Of(q, s)'
    <3>1. CASE Lose(q)
      BY <3>1 DEF Lose, TypeOK, Of
    <3>2. CASE Fail(q) \/ RotateUnacknowledged(q)
      <4>1. GoTo(q, "caughtInvalid") \/ Reply(q, FALSE)
        BY <3>2 DEF Fail, RotateUnacknowledged
      <4>2. req'[q].session = req[q].session
        BY <1>1, <4>1, GoToFacts, ReplyFacts, "caughtInvalid" \in Step DEF Advanced, Step
      <4> QED
        BY <1>3, <4>2 DEF Of
    <3> QED
      BY <3>1, <3>2
  <2> SUFFICES ASSUME s \notin disturbed, Stored(s)
               PROVE  JarPrompt(s)' /\ \A r \in Requests : RequestPrompt(s, r)'
    BY <1>1, <1>3, <2>2 DEF Prompt, Stored
  <2>5. JarPrompt(s) /\ \A r \in Requests : RequestPrompt(s, r)
    BY DEF Prompt
  <2>6. \A r \in Requests : RequestPrompt(s, r)'
    <3>1. ASSUME NEW r \in Requests, r # q PROVE RequestPrompt(s, r)'
      BY <2>2, <2>3, <2>5, <3>1, RequestStays
    <3>2. RequestPrompt(s, q)'
      BY <2>4 DEF RequestPrompt
    <3> QED
      BY <3>1, <3>2
  <2>7. \A r \in Requests : Of(r, s) => Of(r, s)' /\ req'[r] = req[r]
    BY <1>3, <2>3 DEF Of
  <2>8. JarPrompt(s)'
    BY <1>1, <2>2, <2>5, <2>7 DEF JarPrompt, Usable
  <2> QED
    BY <2>6, <2>8
<1> QED
  BY <1>2, <1>3

\* The other steps of a request change none of this.
LEMMA OtherStepsPrompt ==
    ASSUME TypeOK, NEW s \in Sessions, Prompt(s), NEW q \in Requests,
           \/ FindSession(q) \/ LogoutFinds(q) \/ RefuseRotation(q)
           \/ RevokeAllSessions(q) \/ ExpireSession(q) \/ Caught(q) \/ LogoutWrites(q)
    PROVE  Prompt(s)'
<1>1. req[q] # Idle /\ Session(q) \in Sessions
  BY RequestFacts DEF FindSession, LogoutFinds, RefuseRotation, RevokeAllSessions,
     ExpireSession, Caught, LogoutWrites, At
<1>2. stale' = stale /\ jar' = jar /\ disturbed' = disturbed
  BY DEF FindSession, LogoutFinds, RefuseRotation, RevokeAllSessions, ExpireSession, Caught,
     LogoutWrites
<1>3. Still(s)
  <2>1. CASE FindSession(q) \/ LogoutFinds(q) \/ RefuseRotation(q)
    BY <1>2, <2>1 DEF FindSession, LogoutFinds, RefuseRotation, Still, Stored
  <2>2. CASE RevokeAllSessions(q) \/ ExpireSession(q) \/ Caught(q) \/ LogoutWrites(q)
    <3>1. Revises
      BY <1>1, <2>2, RevokeAllType, ReasonType
         DEF ExpireSession, Caught, LogoutWrites, Reason
    <3> QED
      BY <1>2, <3>1 DEF Revises, Still, Stored
  <2> QED
    BY <2>1, <2>2
<1>4. \E at \in Step \ {"find"} :
         Advanced(q, at, req[q].issued) /\ (at = "rotate" => req[q].at = "find")
  <2>1. CASE \E clears \in BOOLEAN : Reply(q, clears)
    BY <1>1, <2>1, ReplyFacts DEF Step
  <2>2. CASE GoTo(q, "writeLogout")
    BY <1>1, <2>2, GoToFacts DEF Step
  <2>3. CASE FindSession(q) /\ \E t \in Token : GoTo(q, Verdict(Session(q), t))
    <3>1. PICK t \in Token : GoTo(q, Verdict(Session(q), t))
      BY <2>3
    <3>2. Verdict(Session(q), t) \in Step \ {"find"} /\ req[q].at = "find"
      BY <2>3 DEF Verdict, Step, FindSession, At
    <3> QED
      BY <1>1, <3>1, <3>2, GoToFacts
  <2>4. req[q].token \in Token
    BY <1>1, RequestFacts DEF Request
  <2> QED
    BY <2>1, <2>2, <2>3, <2>4 DEF FindSession, LogoutFinds, RefuseRotation,
       RevokeAllSessions, ExpireSession, Caught, LogoutWrites
<1> QED
  BY <1>1, <1>3, <1>4, RequestGoesOn

LEMMA NextPrompt ==
    TypeOK /\ TokensAreKnown /\ (\A s \in Sessions : Prompt(s)) /\ [Next]_vars
      => (\A s \in Sessions : Prompt(s))'
<1> SUFFICES ASSUME TypeOK, TokensAreKnown, [Next]_vars,
                    NEW s \in Sessions, Prompt(s)
             PROVE  Prompt(s)'
  OBVIOUS
<1>1. ASSUME \/ \E c \in Sessions : Age(c)
             \/ \E u \in Users : DeleteUser(u)
             \/ UNCHANGED vars
      PROVE  Prompt(s)'
  <2>1. Still(s) /\ req' = req
    BY <1>1 DEF Age, DeleteUser, vars, Still, TypeOK, Stored, NoRow
  <2> QED
    BY <2>1, NothingMoves
<1>2. ASSUME NEW c \in Sessions, SignIn(c) \/ GraceEnds(c) \/ AccessExpires(c)
      PROVE  Prompt(s)'
  BY <1>2, SignInPrompt, GraceEndsPrompt, AccessExpiresPrompt
<1>3. ASSUME NEW q \in Requests, Sent(q) \/ Receive(q) PROVE Prompt(s)'
  BY <1>3, SendPrompt, ReceivePrompt
<1>4. ASSUME NEW q \in Requests, ReturnRotated(q) \/ RotateSession(q) PROVE Prompt(s)'
  BY <1>4, ReturnPrompt, RotatePrompt
<1>5. ASSUME NEW q \in Requests, Fail(q) \/ Lose(q) \/ RotateUnacknowledged(q)
      PROVE  Prompt(s)'
  BY <1>5, DisturbedPrompt
<1>6. ASSUME NEW q \in Requests,
             \/ FindSession(q) \/ LogoutFinds(q) \/ RefuseRotation(q)
             \/ RevokeAllSessions(q) \/ ExpireSession(q) \/ Caught(q) \/ LogoutWrites(q)
      PROVE  Prompt(s)'
  BY <1>6, OtherStepsPrompt
<1> QED
  BY <1>1, <1>2, <1>3, <1>4, <1>5, <1>6 DEF Next, Sent

\* For any number of sessions and of requests in parallel: unless a message is lost
\* or slower than the grace period, or a statement fails, the tokens of a client
\* and of its requests stay usable, and no order of replies sets them back
\* (authenticate and rotateSession).
THEOREM PromptClientsKeepSessions == Spec => []PromptClientKeepsSession
<1>1. ASSUME \A s \in Sessions : Prompt(s) PROVE PromptClientKeepsSession
  <2> SUFFICES ASSUME NEW s \in Sessions, s \notin disturbed, Stored(s)
               PROVE  /\ jar[s] # NoToken =>
                           \/ IsCurrent(s, jar[s])
                           \/ IsPrevious(s, jar[s]) /\ row[s].grace
                      /\ \A r \in InFlight(s) :
                           /\ req[r].at \in {"find", "rotate"} =>
                                \/ IsCurrent(s, req[r].token)
                                \/ IsPrevious(s, req[r].token) /\ row[s].grace
                           /\ req[r].issued # NoToken => IsCurrent(s, req[r].issued)
    BY DEF PromptClientKeepsSession
  <2>1. JarPrompt(s) /\ \A r \in Requests : RequestPrompt(s, r)
    BY <1>1 DEF Prompt
  <2>2. \A r \in InFlight(s) : r \in Requests /\ Of(r, s)
    BY DEF InFlight, Of
  <2> QED
    BY <2>1, <2>2 DEF JarPrompt, RequestPrompt, Usable, IsCurrent, IsPrevious
<1> QED
  BY <1>1, InitKnown, NextKnown, InitPrompt, NextPrompt, TypeCorrect, PTL DEF Spec
=============================================================================
