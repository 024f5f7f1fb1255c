----------------------------- MODULE Connections -----------------------------
(***************************************************************************)
(* The life of WebSocket connections: websocket-server.ts (authentication  *)
(* by cookie or by message, the 10 s timer, the heartbeat, the close       *)
(* listener), connection-manager.ts (the two maps that say who is online)  *)
(* and the announcement of a user's departure (presence-handler.ts).       *)
(*                                                                         *)
(* A handler runs alone up to its next await.  The 'message' and 'close'   *)
(* listeners exist only once the connection handler has got past its       *)
(* awaits, so a socket may close with nobody listening.                    *)
(***************************************************************************)
EXTENDS Naturals, FiniteSets

CONSTANTS
    Users,   \* accounts
    Conns,   \* connections: bounds those that exist at a time
    Tokens,  \* connection |-> the users whose valid tokens its client presents
    Nobody   \* userId of a connection that is not authenticated

ASSUME ConnsFinite == IsFiniteSet(Conns)
ASSUME NobodyIsNoUser == Nobody \notin Users
ASSUME TokensType == Tokens \in [Conns -> SUBSET Users]

VARIABLES
    socket,        \* connection |-> state of its socket, as the server sees it
    peer,          \* connection |-> whether the client still answers
    isAlive,       \* connection |-> the heartbeat's mark
    registered,    \* keys of the manager's connections map
    userOf,        \* connection |-> Connection.userId
    userConns,     \* user |-> the manager's userConnections entry, {} if none
    handler,       \* connection |-> where its 'connection' handler is
    tokenMsg,      \* connection |-> where its AUTH_TOKEN_SENT handler is
    authenticated, \* connection |-> the handler's local flag
    timer,         \* connection |-> whether the authentication timer is set
    leaving        \* connections whose presenceOfflineHandler awaits its UPDATE

wire    == <<socket, peer, isAlive>>
manager == <<registered, userOf, userConns>>
process == <<handler, tokenMsg, authenticated, timer>>
vars    == <<socket, peer, isAlive, registered, userOf, userConns,
             handler, tokenMsg, authenticated, timer, leaving>>

----------------------------------------------------------------------------
(* "none": no such connection.  "closing": close or terminate was called, or *)
(* the client's close arrived; sends are skipped.  "closed": event emitted.  *)
Socket == {"none", "open", "closing", "closed"}

\* "cookies": awaiting the session of the cookie's token.  "syncing": attached,
\* awaiting offline synchronisation.  "listening": past the try block, with its
\* listeners.  "returned": failed, without listeners.
Handler == {"none", "cookies", "syncing", "listening", "returned"}

\* An AUTH_TOKEN_SENT handler awaits the session, then the synchronisation.
TokenMsg == {"none", "session", "syncing"}

Init ==
    /\ socket = [c \in Conns |-> "none"]
    /\ peer = [c \in Conns |-> FALSE]
    /\ isAlive = [c \in Conns |-> FALSE]
    /\ registered = {}
    /\ userOf = [c \in Conns |-> Nobody]
    /\ userConns = [u \in Users |-> {}]
    /\ handler = [c \in Conns |-> "none"]
    /\ tokenMsg = [c \in Conns |-> "none"]
    /\ authenticated = [c \in Conns |-> FALSE]
    /\ timer = [c \in Conns |-> FALSE]
    /\ leaving = {}

\* socket.close: nothing if the socket is past that.
CloseSocket(c) ==
    socket' = [socket EXCEPT ![c] = IF @ = "open" THEN "closing" ELSE @]

\* Nothing of an earlier connection is left: its id can stand for a new one.
Free(c) ==
    /\ socket[c] \in {"none", "closed"}
    /\ handler[c] \in {"none", "listening", "returned"}
    /\ tokenMsg[c] = "none" /\ ~timer[c]
    /\ c \notin registered \cup leaving \cup UNION {userConns[u] : u \in Users}

\* A client connects: register.
Open(c) ==
    /\ Free(c)
    /\ socket' = [socket EXCEPT ![c] = "open"]
    /\ peer' = [peer EXCEPT ![c] = TRUE]
    /\ isAlive' = [isAlive EXCEPT ![c] = TRUE]
    /\ registered' = registered \cup {c}
    /\ userOf' = [userOf EXCEPT ![c] = Nobody]
    /\ handler' = [handler EXCEPT ![c] = "cookies"]
    /\ authenticated' = [authenticated EXCEPT ![c] = FALSE]
    /\ UNCHANGED <<userConns, tokenMsg, timer, leaving>>

----------------------------------------------------------------------------
(* authenticate, up to its first await: set the ids and attachUser *)

\* Mutant: the user's entry starts anew with each connection.
AttachUserAlone(c, u) ==
    /\ userOf' = [userOf EXCEPT ![c] = u]
    /\ userConns' = [userConns EXCEPT ![u] = {c}]
    /\ UNCHANGED registered

AttachUser(c, u) ==
    /\ userOf' = [userOf EXCEPT ![c] = u]
    /\ userConns' = [userConns EXCEPT ![u] = @ \cup {c}]
    /\ UNCHANGED registered

\* Mutant: the synchronisation is forgotten.
CookieAttachUnsynced(c, u) ==
    /\ handler[c] = "cookies" /\ u \in Tokens[c]
    /\ AttachUser(c, u)
    /\ authenticated' = [authenticated EXCEPT ![c] = TRUE]
    /\ handler' = [handler EXCEPT ![c] = "listening"]
    /\ UNCHANGED <<wire, tokenMsg, timer, leaving>>

\* The cookie carries a token with a live session.
CookieAttach(c, u) ==
    /\ handler[c] = "cookies" /\ u \in Tokens[c]
    /\ AttachUser(c, u)
    /\ handler' = [handler EXCEPT ![c] = "syncing"]
    /\ UNCHANGED <<wire, tokenMsg, authenticated, timer, leaving>>

CookieSynced(c) ==
    /\ handler[c] = "syncing"
    /\ authenticated' = [authenticated EXCEPT ![c] = TRUE]
    /\ handler' = [handler EXCEPT ![c] = "listening"]
    /\ UNCHANGED <<wire, manager, tokenMsg, timer, leaving>>

\* No cookie: ask for a token and set the timer.
CookieNone(c) ==
    /\ handler[c] = "cookies"
    /\ timer' = [timer EXCEPT ![c] = TRUE]
    /\ handler' = [handler EXCEPT ![c] = "listening"]
    /\ UNCHANGED <<wire, manager, tokenMsg, authenticated, leaving>>

\* Mutant: the failed connection is left open.
CookieFailedOpen(c) ==
    /\ handler[c] \in {"cookies", "syncing"}
    /\ handler' = [handler EXCEPT ![c] = "returned"]
    /\ UNCHANGED <<wire, manager, tokenMsg, authenticated, timer, leaving>>

\* Bad token, dead session, or a failing query: close and return.
CookieFailed(c) ==
    /\ handler[c] \in {"cookies", "syncing"}
    /\ CloseSocket(c)
    /\ handler' = [handler EXCEPT ![c] = "returned"]
    /\ UNCHANGED <<peer, isAlive, manager, tokenMsg, authenticated, timer, leaving>>

\* The client answers REQUEST_AUTH_TOKEN, or sends a token unasked; a bound: not
\* while an earlier token of this connection is looked at.
TokenArrives(c) ==
    /\ handler[c] = "listening" /\ tokenMsg[c] = "none"
    /\ socket[c] = "open" /\ peer[c]
    /\ tokenMsg' = [tokenMsg EXCEPT ![c] = "session"]
    /\ UNCHANGED <<wire, manager, handler, authenticated, timer, leaving>>

\* The session was found: attach, whatever became of the socket meanwhile.
TokenAttach(c, u) ==
    /\ tokenMsg[c] = "session" /\ u \in Tokens[c]
    /\ AttachUser(c, u)
    /\ tokenMsg' = [tokenMsg EXCEPT ![c] = "syncing"]
    /\ UNCHANGED <<wire, handler, authenticated, timer, leaving>>

TokenSynced(c) ==
    /\ tokenMsg[c] = "syncing"
    /\ authenticated' = [authenticated EXCEPT ![c] = TRUE]
    /\ timer' = [timer EXCEPT ![c] = FALSE]
    /\ tokenMsg' = [tokenMsg EXCEPT ![c] = "none"]
    /\ UNCHANGED <<wire, manager, handler, leaving>>

\* Bad token, dead session, or a failing query: an error message, no more.
TokenFailed(c) ==
    /\ tokenMsg[c] # "none"
    /\ tokenMsg' = [tokenMsg EXCEPT ![c] = "none"]
    /\ UNCHANGED <<wire, manager, handler, authenticated, timer, leaving>>

\* Ten seconds have passed.
Timeout(c) ==
    /\ timer[c]
    /\ timer' = [timer EXCEPT ![c] = FALSE]
    /\ IF authenticated[c] THEN UNCHANGED socket ELSE CloseSocket(c)
    /\ UNCHANGED <<peer, isAlive, manager, handler, tokenMsg, authenticated, leaving>>

----------------------------------------------------------------------------
(* The wire *)

\* Mutant: the mark is not taken back before the ping.
HeartbeatUnmarked ==
    /\ socket' = [c \in Conns |->
          IF socket[c] = "open" /\ ~isAlive[c] THEN "closing" ELSE socket[c]]
    /\ UNCHANGED <<peer, isAlive, manager, process, leaving>>

\* The heartbeat, over every socket: terminate it or mark it and ping.
Heartbeat ==
    /\ socket' = [c \in Conns |->
          IF socket[c] = "open" /\ ~isAlive[c] THEN "closing" ELSE socket[c]]
    /\ isAlive' = [c \in Conns |->
          IF socket[c] = "open" THEN FALSE ELSE isAlive[c]]
    /\ UNCHANGED <<peer, manager, process, leaving>>

Pong(c) ==
    /\ socket[c] = "open" /\ peer[c] /\ ~isAlive[c]
    /\ isAlive' = [isAlive EXCEPT ![c] = TRUE]
    /\ UNCHANGED <<socket, peer, manager, process, leaving>>

\* The client vanishes without a word.
PeerGone(c) ==
    /\ peer[c]
    /\ peer' = [peer EXCEPT ![c] = FALSE]
    /\ UNCHANGED <<socket, isAlive, manager, process, leaving>>

ClientCloses(c) ==
    /\ socket[c] = "open" /\ peer[c]
    /\ CloseSocket(c)
    /\ UNCHANGED <<peer, isAlive, manager, process, leaving>>

\* connectionManager.getUserConnections
UserConnections(u) == userConns[u] \cap registered

\* Mutant: unregister forgets that the connection may have no user, and its
\* removal from the entry takes the entry of nobody.
UnregisterAnyone(c) ==
    /\ registered' = registered \ {c}
    /\ userConns' = [u \in Users \cup {userOf[c]} |->
          IF u = userOf[c] THEN {} ELSE userConns[u]]
    /\ UNCHANGED userOf

\* connectionManager.unregister: only the entry of the present user is cleaned.
Unregister(c) ==
    /\ registered' = registered \ {c}
    /\ userConns' = IF c \in registered /\ userOf[c] # Nobody
                    THEN [userConns EXCEPT ![userOf[c]] = @ \ {c}]
                    ELSE userConns
    /\ UNCHANGED userOf

\* Mutant: the count is taken after unregister.
OnCloseCountedLate(c) ==
    /\ timer' = [timer EXCEPT ![c] = FALSE]
    /\ Unregister(c)
    /\ leaving' = IF /\ userOf[c] # Nobody
                     /\ Cardinality(UserConnections(userOf[c]) \ {c}) = 1
                  THEN leaving \cup {c} ELSE leaving

\* The 'close' listener; whether this is the user's last connection is asked
\* before it goes.
OnClose(c) ==
    /\ timer' = [timer EXCEPT ![c] = FALSE]
    /\ Unregister(c)
    /\ leaving' = IF /\ userOf[c] # Nobody
                     /\ Cardinality(UserConnections(userOf[c])) = 1
                  THEN leaving \cup {c} ELSE leaving

\* The socket's close event, heard or not.
CloseEvent(c) ==
    /\ socket[c] = "closing"
    /\ socket' = [socket EXCEPT ![c] = "closed"]
    /\ peer' = [peer EXCEPT ![c] = FALSE]
    /\ IF handler[c] = "listening" THEN OnClose(c)
       ELSE UNCHANGED <<manager, timer, leaving>>
    /\ UNCHANGED <<isAlive, handler, tokenMsg, authenticated>>

\* updateLastSeenAt is done: PRESENCE_OFFLINE goes to every connection.
AnnounceOffline(c) ==
    /\ c \in leaving
    /\ leaving' = leaving \ {c}
    /\ UNCHANGED <<wire, manager, process>>

\* The process dies, for instance of the rejection of presenceOfflineHandler's
\* promise, which nobody handles; it starts again with empty maps.
Crash ==
    /\ socket' = [c \in Conns |-> "none"]
    /\ peer' = [c \in Conns |-> FALSE]
    /\ isAlive' = [c \in Conns |-> FALSE]
    /\ registered' = {}
    /\ userOf' = [c \in Conns |-> Nobody]
    /\ userConns' = [u \in Users |-> {}]
    /\ handler' = [c \in Conns |-> "none"]
    /\ tokenMsg' = [c \in Conns |-> "none"]
    /\ authenticated' = [c \in Conns |-> FALSE]
    /\ timer' = [c \in Conns |-> FALSE]
    /\ leaving' = {}

\* The steps of the server alone on one connection.
CookieStep(c) ==
    \/ \E u \in Users : CookieAttach(c, u)
    \/ CookieSynced(c) \/ CookieNone(c) \/ CookieFailed(c)

TokenStep(c) ==
    \/ \E u \in Users : TokenAttach(c, u)
    \/ TokenSynced(c) \/ TokenFailed(c)

Next ==
    \/ \E c \in Conns :
         \/ Open(c) \/ CookieStep(c)
         \/ TokenArrives(c) \/ TokenStep(c) \/ Timeout(c)
         \/ Pong(c) \/ PeerGone(c) \/ ClientCloses(c)
         \/ CloseEvent(c) \/ AnnounceOffline(c)
    \/ Heartbeat
    \/ Crash

Spec == Init /\ [][Next]_vars

\* Awaited queries end one way or another, timers and intervals fire, and a
\* socket being closed gets closed (ws destroys it if the peer is silent).
Fairness ==
    /\ \A c \in Conns : /\ WF_vars(CookieStep(c)) /\ WF_vars(TokenStep(c))
                        /\ WF_vars(Timeout(c)) /\ WF_vars(CloseEvent(c))
    /\ WF_vars(Heartbeat)

FairSpec == Spec /\ Fairness

----------------------------------------------------------------------------
(* Properties *)

\* Every variable stays within its type.
TypeOK ==
    /\ socket \in [Conns -> Socket]
    /\ peer \in [Conns -> BOOLEAN]
    /\ isAlive \in [Conns -> BOOLEAN]
    /\ registered \in SUBSET Conns
    /\ userOf \in [Conns -> Users \cup {Nobody}]
    /\ userConns \in [Users -> SUBSET Conns]
    /\ handler \in [Conns -> Handler]
    /\ tokenMsg \in [Conns -> TokenMsg]
    /\ authenticated \in [Conns -> BOOLEAN]
    /\ timer \in [Conns -> BOOLEAN]
    /\ leaving \in SUBSET Conns

\* Messages find every device: a registered connection is in the entry of the
\* user it is authenticated as, however connections of that user and others
\* open, authenticate again and close around it (attachUser, unregister).
EveryDeviceIsReached ==
    \A c \in registered : userOf[c] # Nobody => c \in UserConnections(userOf[c])

\* A client that shows no valid token does not keep its socket: it is closed by
\* the failed handler or by the timer, also when its token message is refused,
\* is under way, or is repeated.
UnauthenticatedIsClosed ==
    \A c \in Conns :
        socket[c] = "open" /\ userOf[c] = Nobody
        ~> socket[c] # "open" \/ userOf[c] # Nobody

\* A client that vanished does not stay: the heartbeat terminates its socket.
DeadPeerIsClosed ==
    \A c \in Conns : socket[c] = "open" /\ ~peer[c] ~> socket[c] # "open"

\* A user's departure is announced when the close listener removes the last
\* connection authenticated as that user, and only then: one of two devices
\* closing, or both one after the other, announces nothing too early and nothing
\* twice (the count is taken before unregister).  For clients that present the
\* tokens of one user only.
LastCloseAnnounces ==
    [][\A c \in registered \ registered' :
         socket'[c] = "closed" =>
           (c \in leaving' <=>
              /\ userOf[c] # Nobody
              /\ \A d \in registered' : userOf'[d] # userOf[c])]_vars

\* "Stores all active connections by connection id": a connection whose socket
\* has closed, and whose handlers are through, is not in the map.
ClosedIsUnregistered ==
    \A c \in Conns :
        /\ socket[c] = "closed"
        /\ handler[c] \in {"listening", "returned"}
        => c \notin registered

=============================================================================
