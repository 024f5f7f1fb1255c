------------------------------ MODULE Sessions ------------------------------
(***************************************************************************)
(* REST authentication: the session rows, the rotation of refresh tokens   *)
(* and their revocation (src/middlewares/auth.ts, session.repository.ts,   *)
(* signin and logout of auth.service.ts).                                  *)
(*                                                                         *)
(* A client keeps the tokens of one session and sends requests in parallel,*)
(* each with the tokens it holds when it is sent.  A request with a fresh  *)
(* access token never touches the database; one with a stale access token  *)
(* looks its session up, then revokes it or rotates its tokens in a        *)
(* transaction that holds the row lock, and is one step here.  Replies     *)
(* reach the client in any order, or never.                                *)
(*                                                                         *)
(* Tokens are numbered by the rotation that made them.  Assumed of the     *)
(* configuration: an access token and its cookie live longer than the five *)
(* seconds of grace, so that no token is rotated within its own grace.     *)
(***************************************************************************)
EXTENDS Integers

CONSTANTS
    Sessions,      \* the session rows, one per sign-in
    Users,
    Owner,         \* session |-> the user who signs in
    Requests,      \* slots for requests in flight: |Requests| bounds them
    MaxRotations,  \* bound: how often the tokens of a session are rotated
    MaxSends       \* bound: how many requests clients send in a behaviour

ASSUME OwnerType == Owner \in [Sessions -> Users]
ASSUME BoundsAreNat == MaxRotations \in Nat /\ MaxSends \in Nat

VARIABLES
    row,     \* session |-> its user_sessions row
    stale,   \* sessions whose newest access token has expired
    age,     \* session |-> 0 in date, 1 past expiresAt, 2 all its tokens too
    jar,     \* session |-> the tokens its client holds, or NoToken
    req,     \* slot |-> the request in flight
    sends,     \* how many requests were sent, for the bound
    disturbed  \* history: sessions with a message lost or still on its way when
               \* a grace period ended, or with a statement that failed

vars == <<row, stale, age, jar, req, sends, disturbed>>

----------------------------------------------------------------------------
Token   == 0..MaxRotations
NoToken == -1

\* revokedReason; "NONE" stands for isRevoked = FALSE.
Reason == {"NONE", "LOGOUT", "EXPIRED", "INVALID", "SUSPICIOUS"}

\* refreshTokenHash is that of token `current', previousRefreshTokenHash that of
\* the one before; `grace': rotatedAt is at most five seconds ago.
NoRow  == [state |-> "ABSENT", current |-> 0, grace |-> FALSE, reason |-> "NONE"]
Stored(s)  == row[s].state = "STORED"
Revoked(s) == row[s].reason # "NONE"

IsCurrent(s, t)  == Stored(s) /\ t = row[s].current
IsPrevious(s, t) == Stored(s) /\ t = row[s].current - 1

\* jwt.verify of the refresh token.  The first token expires with the row, the
\* later ones after it.
JwtExpired(s, t) == age[s] = 2 \/ (age[s] = 1 /\ t = 0)

Fresh(s, t) == t = row[s].current /\ s \notin stale

\* A request: the awaited step `at'; the token it brought; the token it was
\* issued; whether its session was revoked before it was sent; whether the reply
\* clears the client's tokens.
Idle    == [at |-> "IDLE"]
Step    == {"find", "revokeAll", "expire", "rotate", "caughtExpired",
            "caughtInvalid", "findForLogout", "writeLogout", "reply"}
Request == [at: Step, session: Sessions, logout: BOOLEAN, token: Token,
            issued: Token \cup {NoToken}, afterRevocation: BOOLEAN, clears: BOOLEAN]

At(r, step) == req[r] # Idle /\ req[r].at = step
Session(r)  == req[r].session
InFlight(s) == {r \in Requests : req[r] # Idle /\ req[r].session = s}
GoTo(r, step) == req' = [req EXCEPT ![r].at = step]

\* The middleware or controller answers; `clears': with clearAuthCookies.
Reply(r, clears) ==
    req' = [req EXCEPT ![r].at = "reply", ![r].clears = clears]

\* next(): the controller runs.  logout looks for the session, any other one
\* replies with whatever tokens the middleware has set.
Handler(logout) == IF logout THEN "findForLogout" ELSE "reply"
NextHandler(r, issued) ==
    req' = [req EXCEPT ![r].issued = issued, ![r].at = Handler(req[r].logout)]

\* Mutant: the row that was read is saved, and is back if it has been deleted.
SetReasonSaved(s, reason) == row' = [row EXCEPT ![s].reason = reason]

\* UPDATE user_sessions SET isRevoked, revokedReason WHERE id.
SetReason(s, reason) ==
    row' = IF Stored(s) THEN [row EXCEPT ![s].reason = reason] ELSE row

----------------------------------------------------------------------------
Init ==
    /\ row = [s \in Sessions |-> NoRow]
    /\ stale = {}
    /\ age = [s \in Sessions |-> 0]
    /\ jar = [s \in Sessions |-> NoToken]
    /\ req = [r \in Requests |-> Idle]
    /\ sends = 0
    /\ disturbed = {}

\* signin, adminSignIn: createSession, and the tokens go to the client.
SignIn(s) ==
    /\ row[s].state = "ABSENT"
    /\ row' = [row EXCEPT ![s].state = "STORED"]
    /\ jar' = [jar EXCEPT ![s] = 0]
    /\ UNCHANGED <<stale, age, req, sends, disturbed>>

\* The client sends a request with the tokens it holds.  authenticate, steps 1
\* and 2: a fresh access token is enough, an expired one leads to the refresh
\* token.  (No step of its own: a token that expires on the way might as well
\* have been sent later, since the tokens of the client only change after that.)
Send(r, s, logout) ==
    /\ req[r] = Idle
    /\ jar[s] # NoToken
    /\ sends < MaxSends /\ sends' = sends + 1
    /\ req' = [req EXCEPT ![r] =
                 [at |-> IF Fresh(s, jar[s]) THEN Handler(logout) ELSE "find",
                  session |-> s, logout |-> logout, token |-> jar[s], issued |-> NoToken,
                  afterRevocation |-> Revoked(s), clears |-> FALSE]]
    /\ UNCHANGED <<row, stale, age, jar, disturbed>>

\* Mutant: step 5 is forgotten.
VerdictUnrevoked(s, t) ==
    CASE JwtExpired(s, t)     -> "caughtExpired"
      [] ~JwtExpired(s, t) /\ age[s] > 0 -> "expire"
      [] OTHER                -> "rotate"

\* authenticate, steps 4 to 7: what is done about a session that was found.
Verdict(s, t) ==
    CASE JwtExpired(s, t)     -> "caughtExpired"
      [] ~JwtExpired(s, t) /\ Revoked(s) -> "revokeAll"
      [] ~JwtExpired(s, t) /\ ~Revoked(s) /\ age[s] > 0 -> "expire"
      [] OTHER                -> "rotate"

\* authenticate, step 3: the row is read, and all checks are made on it.
FindSession(r) ==
    LET s == Session(r)
        t == req[r].token
    IN
    /\ At(r, "find")
    /\ IF IsCurrent(s, t) \/ IsPrevious(s, t)
       THEN GoTo(r, Verdict(s, t))
       ELSE Reply(r, TRUE)
    /\ UNCHANGED <<row, stale, age, jar, sends, disturbed>>

\* Mutant: revokeAllSessions without isRevoked = false.
RevokeAllSessionsTwice(r) ==
    /\ At(r, "revokeAll")
    /\ row' = [s \in Sessions |->
                 IF Stored(s) /\ Owner[s] = Owner[Session(r)]
                 THEN [row[s] EXCEPT !.reason = "SUSPICIOUS"] ELSE row[s]]
    /\ Reply(r, TRUE)
    /\ UNCHANGED <<stale, age, jar, sends, disturbed>>

\* revokeAllSessions: one UPDATE on every session of the user not yet revoked.
RevokeAllSessions(r) ==
    /\ At(r, "revokeAll")
    /\ row' = [s \in Sessions |->
                 IF Stored(s) /\ ~Revoked(s) /\ Owner[s] = Owner[Session(r)]
                 THEN [row[s] EXCEPT !.reason = "SUSPICIOUS"] ELSE row[s]]
    /\ Reply(r, TRUE)
    /\ UNCHANGED <<stale, age, jar, sends, disturbed>>

ExpireSession(r) ==
    /\ At(r, "expire")
    /\ SetReason(Session(r), "EXPIRED")
    /\ Reply(r, TRUE)
    /\ UNCHANGED <<stale, age, jar, sends, disturbed>>

\* The catch block, for an expired token and for every statement that failed.
Caught(r) ==
    /\ \/ At(r, "caughtExpired") /\ SetReason(Session(r), "EXPIRED")
       \/ At(r, "caughtInvalid") /\ SetReason(Session(r), "INVALID")
    /\ Reply(r, TRUE)
    /\ UNCHANGED <<stale, age, jar, sends, disturbed>>

----------------------------------------------------------------------------
(* rotateSession, under the lock of the row *)

WithinGrace(r) == IsPrevious(Session(r), req[r].token) /\ row[Session(r)].grace

\* Another concurrent request has already rotated the token.
ReturnRotated(r) ==
    /\ At(r, "rotate") /\ WithinGrace(r)
    /\ NextHandler(r, row[Session(r)].current)
    /\ UNCHANGED <<row, stale, age, jar, sends, disturbed>>

\* The row is gone, or the token is no longer valid: the tokens in the cookies
\* are left as they are.
RefuseRotation(r) ==
    /\ At(r, "rotate")
    /\ ~WithinGrace(r) /\ ~IsCurrent(Session(r), req[r].token)
    /\ Reply(r, FALSE)
    /\ UNCHANGED <<row, stale, age, jar, sends, disturbed>>

\* Mutant: no grace period is opened for the previous token.
NewTokensNoGrace(s) ==
    /\ row[s].current < MaxRotations
    /\ row' = [row EXCEPT ![s].current = @ + 1, ![s].grace = FALSE]
    /\ stale' = stale \ {s}

\* The UPDATE: new tokens, the old one kept as previous, rotatedAt = now.
NewTokens(s) ==
    /\ row[s].current < MaxRotations
    /\ row' = [row EXCEPT ![s].current = @ + 1, ![s].grace = TRUE]
    /\ stale' = stale \ {s}

\* isRevoked is not looked at again: it may have changed since FindSession.
RotateSession(r) ==
    /\ At(r, "rotate")
    /\ IsCurrent(Session(r), req[r].token)
    /\ NewTokens(Session(r))
    /\ NextHandler(r, row[Session(r)].current + 1)
    /\ UNCHANGED <<age, jar, sends, disturbed>>

\* The rotation commits, but its acknowledgement is lost: the code sees an error.
RotateUnacknowledged(r) ==
    /\ At(r, "rotate")
    /\ IsCurrent(Session(r), req[r].token)
    /\ NewTokens(Session(r))
    /\ GoTo(r, "caughtInvalid")
    /\ disturbed' = disturbed \cup {Session(r)}
    /\ UNCHANGED <<age, jar, sends>>

----------------------------------------------------------------------------
(* logout: by the refresh token of the request, which may be the previous one *)

LogoutFinds(r) ==
    /\ At(r, "findForLogout")
    /\ IF IsCurrent(Session(r), req[r].token) /\ ~Revoked(Session(r))
       THEN GoTo(r, "writeLogout")
       ELSE Reply(r, TRUE)
    /\ UNCHANGED <<row, stale, age, jar, sends, disturbed>>

\* Mutant: the reason is written, isRevoked is not.
LogoutWritesNothing(r) ==
    /\ At(r, "writeLogout")
    /\ Reply(r, TRUE)
    /\ UNCHANGED <<row, stale, age, jar, sends, disturbed>>

LogoutWrites(r) ==
    /\ At(r, "writeLogout")
    /\ SetReason(Session(r), "LOGOUT")
    /\ Reply(r, TRUE)
    /\ UNCHANGED <<stale, age, jar, sends, disturbed>>

----------------------------------------------------------------------------
(* Failures, clients, time *)

\* A statement fails.  Inside the try block the catch block follows; outside of
\* it the error handler answers, with the tokens the middleware may have set.
Fail(r) ==
    /\ \/ /\ \E step \in {"revokeAll", "expire", "rotate"} : At(r, step)
          /\ GoTo(r, "caughtInvalid")
       \/ /\ \E step \in {"find", "caughtExpired", "caughtInvalid",
                             "findForLogout", "writeLogout"} : At(r, step)
          /\ Reply(r, FALSE)
    /\ disturbed' = disturbed \cup {Session(r)}
    /\ UNCHANGED <<row, stale, age, jar, sends>>

\* The reply reaches the client: its tokens are cleared, replaced or kept.
Receive(r) ==
    LET s == Session(r) IN
    /\ At(r, "reply")
    /\ jar' = IF req[r].clears THEN [jar EXCEPT ![s] = NoToken]
              ELSE IF req[r].issued # NoToken THEN [jar EXCEPT ![s] = req[r].issued]
              ELSE jar
    /\ req' = [req EXCEPT ![r] = Idle]
    /\ UNCHANGED <<row, stale, age, sends, disturbed>>

\* The request or its reply is lost, or the process dies with it in hand.
Lose(r) ==
    /\ req[r] # Idle
    /\ req' = [req EXCEPT ![r] = Idle]
    /\ disturbed' = disturbed \cup {Session(r)}
    /\ UNCHANGED <<row, stale, age, jar, sends>>

\* REFRESH_ROTATION_GRACE_PERIOD is over.
GraceEnds(s) ==
    /\ row[s].grace
    /\ row' = [row EXCEPT ![s].grace = FALSE]
    /\ disturbed' = IF InFlight(s) # {} THEN disturbed \cup {s} ELSE disturbed
    /\ UNCHANGED <<stale, age, jar, req, sends>>

AccessExpires(s) ==
    /\ Stored(s) /\ ~row[s].grace
    /\ s \notin stale
    /\ stale' = stale \cup {s}
    /\ UNCHANGED <<row, age, jar, req, sends, disturbed>>

Age(s) ==
    /\ Stored(s)
    /\ age[s] < 2 /\ age' = [age EXCEPT ![s] = @ + 1]
    /\ UNCHANGED <<row, stale, jar, req, sends, disturbed>>

\* admin.service deleteUser: the sessions of the user go by cascade, and there
\* will be no others (foreign key).
DeleteUser(u) ==
    /\ \E s \in Sessions : Owner[s] = u /\ Stored(s)
    /\ row' = [s \in Sessions |->
                 IF Owner[s] = u THEN [NoRow EXCEPT !.state = "DELETED"] ELSE row[s]]
    /\ UNCHANGED <<stale, age, jar, req, sends, disturbed>>

Next ==
    \/ \E s \in Sessions : SignIn(s) \/ GraceEnds(s) \/ AccessExpires(s) \/ Age(s)
    \/ \E u \in Users : DeleteUser(u)
    \/ \E r \in Requests :
         \/ \E s \in Sessions, logout \in BOOLEAN : Send(r, s, logout)
         \/ FindSession(r)
         \/ RevokeAllSessions(r)
         \/ ExpireSession(r)
         \/ Caught(r)
         \/ ReturnRotated(r)
         \/ RefuseRotation(r)
         \/ RotateSession(r)
         \/ RotateUnacknowledged(r)
         \/ LogoutFinds(r)
         \/ LogoutWrites(r)
         \/ Fail(r)
         \/ Receive(r)
         \/ Lose(r)

Spec == Init /\ [][Next]_vars

----------------------------------------------------------------------------
(* Properties *)

\* Every variable stays within its type: tokens never run ahead of the number
\* of rotations, and a deleted session leaves no reason or grace behind.
TypeOK ==
    /\ row \in [Sessions -> [state: {"ABSENT", "STORED", "DELETED"}, current: Token,
                             grace: BOOLEAN, reason: Reason]]
    /\ \A s \in Sessions : Stored(s) \/ row[s] = [NoRow EXCEPT !.state = row[s].state]
    /\ stale \in SUBSET Sessions
    /\ age \in [Sessions -> 0..2]
    /\ jar \in [Sessions -> Token \cup {NoToken}]
    /\ req \in [Requests -> Request \cup {Idle}]
    /\ sends \in 0..MaxSends
    /\ disturbed \in SUBSET Sessions

\* Requests a client sends in parallel never cost it its session ("Keep the
\* previous refresh token to handle concurrent requests during the grace
\* period"): as long as no message is lost or slower than the grace period and
\* the database answers, the tokens it holds and those of its requests under way
\* are the present ones or the previous ones in their grace, and what is being
\* returned is the present ones, so that no order of replies sets it back.
PromptClientKeepsSession ==
    \A s \in Sessions \ disturbed :
        LET Usable(t) == IsCurrent(s, t) \/ (IsPrevious(s, t) /\ row[s].grace) IN
        Stored(s) =>
            /\ jar[s] # NoToken => Usable(jar[s])
            /\ \A r \in InFlight(s) :
                 /\ req[r].at \in {"find", "rotate"} => Usable(req[r].token)
                 /\ req[r].issued # NoToken => IsCurrent(s, req[r].issued)

\* All sessions of a user are revoked as SUSPICIOUS only if one of them had been
\* revoked for a reason of its own: rotation under concurrent requests never
\* looks like reuse of a token, and nobody else's sessions are touched.
SuspicionHasCause ==
    \A s \in Sessions :
        row[s].reason = "SUSPICIOUS" =>
            \E c \in Sessions : /\ Owner[c] = Owner[s]
                                /\ row[c].reason \in {"LOGOUT", "EXPIRED", "INVALID"}

\* A request sent after its session was revoked is never given tokens, whatever
\* other requests of the session do meanwhile (authenticate, steps 5 and 7).  One
\* sent before may be: isRevoked is not looked at again under the lock.
NoTokensAfterRevocation ==
    \A r \in Requests :
        req[r] # Idle /\ req[r].afterRevocation => req[r].issued = NoToken

\* When logout has been answered the session is over, or the client's token had
\* been rotated (its own middleware does that if the access token had expired,
\* and logout then no longer finds the row).  A failed statement is not an answer.
LogoutEndsSession ==
    \A r \in Requests :
        At(r, "reply") /\ req[r].logout /\ req[r].clears /\ Stored(Session(r)) =>
            Revoked(Session(r)) \/ req[r].token # row[Session(r)].current

=============================================================================
