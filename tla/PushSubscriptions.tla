------------------------- MODULE PushSubscriptions -------------------------
(***************************************************************************)
(* Web push: the subscriptions of browsers, kept by endpoint, the pushes to*)
(* users who are not connected, and the removal of endpoints the push      *)
(* service reports as gone (push-subscription.service.ts,                  *)
(* push-notification.service.ts and their repository).                     *)
(*                                                                         *)
(* No key makes an endpoint unique: subscribeWeb relies on a SERIALIZABLE  *)
(* transaction, of which the model keeps what PostgreSQL promises: of two  *)
(* that read and write the same endpoint, the second to commit fails.      *)
(***************************************************************************)
EXTENDS Naturals

CONSTANTS
    Users,
    Nobody,      \* stands for a user whose account is deleted
    Endpoints,   \* push endpoints: a browser gets a new one when it subscribes anew
    Requests,    \* slots for subscribeWeb calls: |Requests| bounds them
    MaxRows      \* bound: how many rows are ever inserted

ASSUME MaxRowsIsNat == MaxRows \in Nat

VARIABLES
    rows,      \* the push_subscriptions rows
    lastId,    \* the ids given so far
    req,       \* slot |-> the transaction that runs in it
    pushing,   \* the endpoints to which a push is under way
    removing,  \* the endpoints about to be removed after a push
    dead,      \* the endpoints the push service no longer knows
    wanted     \* history: the endpoints subscribed, and not given up since

vars == <<rows, lastId, req, pushing, removing, dead, wanted>>

Row  == [id: 1..MaxRows, user: Users, endpoint: Endpoints]
Idle == [at |-> "IDLE"]

\* A subscription request: whether its snapshot has the endpoint; whether that
\* has changed since; whether the browser has given the endpoint up meanwhile.
Call == [at: {"read", "write"}, user: Users \cup {Nobody}, endpoint: Endpoints,
         found: BOOLEAN, changed: BOOLEAN, givenUp: BOOLEAN]

RowsOf(e)    == {s \in rows : s.endpoint = e}
Writing(q, e) == req[q] # Idle /\ req[q].endpoint = e

Init ==
    /\ rows = {} /\ lastId = 0
    /\ req = [r \in Requests |-> Idle]
    /\ pushing = {} /\ removing = {} /\ dead = {} /\ wanted = {}

----------------------------------------------------------------------------
(* subscribeWeb *)

Subscribe(r, u, e) ==
    /\ req[r] = Idle /\ e \notin dead
    /\ req' = [req EXCEPT ![r] = [at |-> "read", user |-> u, endpoint |-> e,
                                  found |-> FALSE, changed |-> FALSE, givenUp |-> FALSE]]
    /\ UNCHANGED <<rows, lastId, pushing, removing, dead, wanted>>

\* findByEndpoint takes the snapshot.
FindEndpoint(r) ==
    /\ req[r] # Idle /\ req[r].at = "read"
    /\ req' = [req EXCEPT ![r].at = "write", ![r].changed = FALSE,
                          ![r].found = RowsOf(req[r].endpoint) # {}]
    /\ UNCHANGED <<rows, lastId, pushing, removing, dead, wanted>>

\* The calls after the rows of e have changed, and r, if any, has ended.
Touched(e, r) ==
    [q \in Requests |-> IF q = r THEN Idle
                        ELSE IF Writing(q, e) THEN [req[q] EXCEPT !.changed = TRUE]
                        ELSE req[q]]

Subscribed(r) ==
    wanted' = IF req[r].givenUp THEN wanted ELSE wanted \cup {req[r].endpoint}

\* Mutant: READ COMMITTED, like the other transactions.
CreateSubscriptionUnchecked(r) ==
    LET e == req[r].endpoint IN
    /\ req[r] # Idle /\ req[r].at = "write" /\ ~req[r].found /\ req[r].user \in Users
    /\ lastId < MaxRows /\ lastId' = lastId + 1
    /\ rows' = rows \cup {[id |-> lastId + 1, user |-> req[r].user, endpoint |-> e]}
    /\ req' = Touched(e, r)
    /\ Subscribed(r)
    /\ UNCHANGED <<pushing, removing, dead>>

CreateSubscription(r) ==
    LET e == req[r].endpoint IN
    /\ req[r] # Idle /\ req[r].at = "write" /\ ~req[r].found /\ req[r].user \in Users
    /\ ~req[r].changed
    /\ lastId < MaxRows /\ lastId' = lastId + 1
    /\ rows' = rows \cup {[id |-> lastId + 1, user |-> req[r].user, endpoint |-> e]}
    /\ req' = Touched(e, r)
    /\ Subscribed(r)
    /\ UNCHANGED <<pushing, removing, dead>>

\* updateSubscription: new keys are written, the user stays the first one that
\* subscribed.  With the keys the row has already, save() writes nothing, and
\* the transaction does not notice that the row has gone.
UpdateSubscription(r, newKeys) ==
    /\ req[r] # Idle /\ req[r].at = "write" /\ req[r].found
    /\ newKeys => ~req[r].changed
    /\ req' = IF newKeys THEN Touched(req[r].endpoint, r) ELSE [req EXCEPT ![r] = Idle]
    /\ wanted' = IF req[r].changed THEN wanted ELSE wanted \cup {req[r].endpoint}
    /\ UNCHANGED <<rows, lastId, pushing, removing, dead>>

\* A serialization failure or any other: the transaction rolls back.
FailSubscribe(r) ==
    /\ req[r] # Idle
    /\ req' = [req EXCEPT ![r] = Idle]
    /\ UNCHANGED <<rows, lastId, pushing, removing, dead, wanted>>

\* deleteByEndpoint
Delete(e) ==
    /\ rows' = rows \ RowsOf(e)
    /\ req' = [q \in Requests |->
                 IF Writing(q, e)
                 THEN [req[q] EXCEPT !.changed = @ \/ RowsOf(e) # {}, !.givenUp = TRUE]
                 ELSE req[q]]

\* unsubscribeWeb, of anybody's endpoint.
Unsubscribe(e) ==
    /\ e \in wanted
    /\ Delete(e)
    /\ wanted' = wanted \ {e}
    /\ UNCHANGED <<lastId, pushing, removing, dead>>

----------------------------------------------------------------------------
(* sendToUser *)

\* The user has no connection when a private message comes: all its endpoints.
SendToUser(u) ==
    /\ \E s \in rows : s.user = u
    /\ pushing' = pushing \cup {s.endpoint : s \in {s \in rows : s.user = u}}
    /\ UNCHANGED <<rows, lastId, req, removing, dead, wanted>>

\* Mutant: every refusal counts as 404 or 410.
PushAnsweredAny(e) ==
    /\ e \in pushing
    /\ pushing' = pushing \ {e}
    /\ removing' \in {removing, removing \cup {e}}
    /\ UNCHANGED <<rows, lastId, req, dead, wanted>>

\* The push service accepts, or answers 404 or 410.  (Any other answer is thrown
\* on, out of a promise nobody awaits: Crash.)
PushAnswered(e) ==
    /\ e \in pushing
    /\ pushing' = pushing \ {e}
    /\ removing' = IF e \in dead THEN removing \cup {e} ELSE removing
    /\ UNCHANGED <<rows, lastId, req, dead, wanted>>

\* Mutant: the rows of the user go, in place of those of the endpoint.
RemoveInvalidSubscriptionOfUser(e) ==
    /\ e \in removing /\ removing' = removing \ {e}
    /\ rows' = {s \in rows : s.user \notin {t.user : t \in RowsOf(e)}}
    /\ UNCHANGED <<lastId, req, pushing, dead, wanted>>

RemoveInvalidSubscription(e) ==
    /\ e \in removing /\ removing' = removing \ {e}
    /\ Delete(e)
    /\ UNCHANGED <<lastId, pushing, dead, wanted>>

----------------------------------------------------------------------------
\* The browser gives the endpoint up, or the push service drops it, for good.
Die(e) ==
    /\ dead' = dead \cup {e} /\ e \notin dead
    /\ UNCHANGED <<rows, lastId, req, pushing, removing, wanted>>

\* The account is deleted: its rows go by cascade, and with them an endpoint
\* that another user of the browser has subscribed since.  A call of the account
\* that is under way can still update a row, and no longer insert one.
DeleteUser(u) ==
    LET gone == {s.endpoint : s \in {s \in rows : s.user = u}} IN
    /\ rows' = {s \in rows : s.user # u}
    /\ req' = [q \in Requests |->
                 IF req[q] = Idle THEN Idle
                 ELSE [req[q] EXCEPT !.user = IF @ = u THEN Nobody ELSE @,
                                     !.changed = @ \/ req[q].endpoint \in gone,
                                     !.givenUp = @ \/ req[q].endpoint \in gone]]
    /\ wanted' = wanted \ gone
    /\ UNCHANGED <<lastId, pushing, removing, dead>>

Crash ==
    /\ req' = [r \in Requests |-> Idle]
    /\ pushing' = {} /\ removing' = {}
    /\ UNCHANGED <<rows, lastId, dead, wanted>>

Next ==
    \/ \E r \in Requests :
         \/ \E u \in Users, e \in Endpoints : Subscribe(r, u, e)
         \/ FindEndpoint(r)
         \/ CreateSubscription(r)
         \/ \E newKeys \in BOOLEAN : UpdateSubscription(r, newKeys)
         \/ FailSubscribe(r)
    \/ \E e \in Endpoints :
         Unsubscribe(e) \/ PushAnswered(e) \/ RemoveInvalidSubscription(e) \/ Die(e)
    \/ \E u \in Users : SendToUser(u) \/ DeleteUser(u)
    \/ Crash

Spec == Init /\ [][Next]_vars

----------------------------------------------------------------------------
(* Properties *)

\* Every variable has its type, ids are given once, and only an endpoint that the
\* push service has reported gone is about to be removed.
TypeOK ==
    /\ rows \subseteq Row /\ lastId \in 0..MaxRows
    /\ \A s \in rows : s.id <= lastId
    /\ req \in [Requests -> {Idle} \cup Call]
    /\ pushing \subseteq Endpoints /\ removing \subseteq dead
    /\ dead \subseteq Endpoints /\ wanted \subseteq Endpoints

\* However subscriptions of one browser overlap, its endpoint has at most one row
\* (with two, every message would be shown twice and one update would leave the
\* other row with old keys): no unique key guards this, only the isolation level
\* of subscribeWeb does.
OneRowPerEndpoint ==
    \A s, t \in rows : s.endpoint = t.endpoint => s.id = t.id

\* A subscription that was confirmed to the browser stays until it is given up, or
\* the account that owns the row is deleted: no late answer of the push service
\* and no overlap of calls removes a live endpoint (sendToUser,
\* removeInvalidSubscription).
LiveSubscriptionStays ==
    \A e \in wanted \ dead : RowsOf(e) # {}

=============================================================================
