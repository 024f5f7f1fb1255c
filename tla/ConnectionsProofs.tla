------------------------- MODULE ConnectionsProofs -------------------------
(* Proofs about Connections, for every set of users and of connections and  *)
(* whichever tokens the clients present.                                    *)
EXTENDS ConnectionDevices, FiniteSetTheorems, TLAPS

\* A user who attaches keeps the maps well typed.
LEMMA AttachType ==
    ASSUME TypeOK, NEW c \in Conns, NEW u \in Users, AttachUser(c, u)
    PROVE  /\ userOf' \in [Conns -> Users \cup {Nobody}]
           /\ userConns' \in [Users -> SUBSET Conns]
           /\ registered' = registered
BY DEF AttachUser, TypeOK

\* So does a connection that is unregistered.
LEMMA UnregisterType ==
    ASSUME TypeOK, NEW c \in Conns, Unregister(c)
    PROVE  /\ userOf' = userOf
           /\ userConns' \in [Users -> SUBSET Conns]
           /\ registered' = registered \ {c}
BY DEF Unregister, TypeOK

\* close() keeps the state of a socket a state of a socket.
LEMMA CloseSocketType ==
    ASSUME TypeOK, NEW c \in Conns, CloseSocket(c)
    PROVE  socket' \in [Conns -> Socket]
BY DEF CloseSocket, TypeOK, Socket

LEMMA InitType == Init => TypeOK
BY DEF Init, TypeOK, Socket, Handler, TokenMsg

\* Every step keeps the type invariant.
LEMMA NextType == TypeOK /\ [Next]_vars => TypeOK'
<1> SUFFICES ASSUME TypeOK, [Next]_vars PROVE TypeOK'
  OBVIOUS
<1> USE DEF wire, manager, process
<1>1. ASSUME NEW c \in Conns, Open(c) PROVE TypeOK'
  BY <1>1 DEF Open, TypeOK, Socket, Handler
<1>2. ASSUME NEW c \in Conns, CookieStep(c) PROVE TypeOK'
  <2>1. ASSUME NEW u \in Users, CookieAttach(c, u) PROVE TypeOK'
    BY <2>1, AttachType DEF CookieAttach, TypeOK, Handler
  <2>2. CASE CookieSynced(c)
    BY <2>2 DEF CookieSynced, TypeOK, Handler
  <2>3. CASE CookieNone(c)
    BY <2>3 DEF CookieNone, TypeOK, Handler
  <2>4. CASE CookieFailed(c)
    BY <2>4, CloseSocketType DEF CookieFailed, TypeOK, Handler
  <2> QED
    BY <1>2, <2>1, <2>2, <2>3, <2>4 DEF CookieStep
<1>3. ASSUME NEW c \in Conns, TokenArrives(c) \/ TokenStep(c) PROVE TypeOK'
  <2>1. ASSUME NEW u \in Users, TokenAttach(c, u) PROVE TypeOK'
    BY <2>1, AttachType DEF TokenAttach, TypeOK, TokenMsg
  <2>2. CASE TokenArrives(c) \/ TokenSynced(c) \/ TokenFailed(c)
    BY <2>2 DEF TokenArrives, TokenSynced, TokenFailed, TypeOK, TokenMsg
  <2> QED
    BY <1>3, <2>1, <2>2 DEF TokenStep
<1>4. ASSUME NEW c \in Conns, Timeout(c) PROVE TypeOK'
  BY <1>4, CloseSocketType DEF Timeout, TypeOK
<1>5. ASSUME NEW c \in Conns, Pong(c) \/ PeerGone(c) \/ ClientCloses(c) PROVE TypeOK'
  BY <1>5, CloseSocketType DEF Pong, PeerGone, ClientCloses, TypeOK
<1>6. ASSUME NEW c \in Conns, CloseEvent(c) PROVE TypeOK'
  <2>1. /\ socket' \in [Conns -> Socket] /\ peer' \in [Conns -> BOOLEAN]
        /\ isAlive' = isAlive /\ handler' = handler /\ tokenMsg' = tokenMsg
        /\ authenticated' = authenticated
    BY <1>6 DEF CloseEvent, TypeOK, Socket
  <2>2. CASE handler[c] = "listening"
    <3>1. /\ Unregister(c) /\ timer' = [timer EXCEPT ![c] = FALSE]
          /\ leaving' \subseteq leaving \cup {c}
      BY <1>6, <2>2 DEF CloseEvent, OnClose
    <3>2. /\ userOf' = userOf /\ userConns' \in [Users -> SUBSET Conns]
          /\ registered' = registered \ {c}
      BY <3>1, UnregisterType
    <3> QED
      BY <2>1, <3>1, <3>2 DEF TypeOK
  <2>3. CASE handler[c] # "listening"
    BY <1>6, <2>1, <2>3 DEF CloseEvent, TypeOK
  <2> QED
    BY <2>2, <2>3
<1>7. ASSUME NEW c \in Conns, AnnounceOffline(c) PROVE TypeOK'
  BY <1>7 DEF AnnounceOffline, TypeOK
<1>8. CASE Heartbeat
  BY <1>8 DEF Heartbeat, TypeOK, Socket
<1>9. CASE Crash
  BY <1>9 DEF Crash, TypeOK, Socket, Handler, TokenMsg
<1>10. CASE UNCHANGED vars
  BY <1>10 DEF vars, TypeOK
<1> QED
  BY <1>1, <1>2, <1>3, <1>4, <1>5, <1>6, <1>7, <1>8, <1>9, <1>10 DEF Next

\* Every reachable state is well typed: in particular the maps of the connection
\* manager never name a user or a connection there is not.
THEOREM TypeCorrect == Spec => []TypeOK
BY InitType, NextType, PTL DEF Spec

----------------------------------------------------------------------------
(* Routing.  EveryDeviceIsReached is inductive as it stands: attachUser adds *)
(* the connection to the entry of its new user in the same step that names   *)
(* this user, and unregister takes a connection out of an entry only when it *)
(* takes it out of the map.                                                  *)

\* A step that leaves the maps alone leaves routing alone.
LEMMA ManagerKept ==
    ASSUME EveryDeviceIsReached, UNCHANGED manager
    PROVE  EveryDeviceIsReached'
BY DEF manager, EveryDeviceIsReached, UserConnections

LEMMA AttachReached ==
    ASSUME TypeOK, EveryDeviceIsReached, NEW c \in Conns, NEW u \in Users,
           AttachUser(c, u)
    PROVE  EveryDeviceIsReached'
<1> SUFFICES ASSUME NEW d \in registered', userOf'[d] # Nobody
             PROVE  d \in userConns'[userOf'[d]]
  BY DEF EveryDeviceIsReached, UserConnections
<1>1. d \in registered /\ d \in Conns
  BY DEF AttachUser, TypeOK
<1>2. CASE d = c
  BY <1>2 DEF AttachUser, TypeOK
<1>3. CASE d # c
  <2>1. userOf'[d] = userOf[d] /\ userOf[d] \in Users
    BY <1>1, <1>3 DEF AttachUser, TypeOK
  <2>2. d \in userConns[userOf[d]]
    BY <1>1, <2>1 DEF EveryDeviceIsReached, UserConnections
  <2> QED
    BY <2>1, <2>2 DEF AttachUser, TypeOK
<1> QED
  BY <1>2, <1>3

LEMMA UnregisterReached ==
    ASSUME TypeOK, EveryDeviceIsReached, NEW c \in Conns, Unregister(c)
    PROVE  EveryDeviceIsReached'
<1> SUFFICES ASSUME NEW d \in registered', userOf'[d] # Nobody
             PROVE  d \in userConns'[userOf'[d]]
  BY DEF EveryDeviceIsReached, UserConnections
<1>1. /\ d \in registered /\ d # c /\ userOf'[d] = userOf[d]
      /\ userOf[d] \in Users
  BY DEF Unregister, TypeOK
<1>2. d \in userConns[userOf[d]]
  BY <1>1 DEF EveryDeviceIsReached, UserConnections
<1> QED
  BY <1>1, <1>2 DEF Unregister, TypeOK

LEMMA NextReached ==
    TypeOK /\ EveryDeviceIsReached /\ [Next]_vars => EveryDeviceIsReached'
<1> SUFFICES ASSUME TypeOK, EveryDeviceIsReached, [Next]_vars
             PROVE  EveryDeviceIsReached'
  OBVIOUS
<1>1. ASSUME NEW c \in Conns, Open(c) PROVE EveryDeviceIsReached'
  BY <1>1 DEF Open, TypeOK, EveryDeviceIsReached, UserConnections
<1>2. ASSUME NEW c \in Conns, CookieStep(c) \/ TokenStep(c)
      PROVE  EveryDeviceIsReached'
  BY <1>2, AttachReached, ManagerKept
     DEF CookieStep, CookieAttach, CookieSynced, CookieNone, CookieFailed,
         TokenStep, TokenAttach, TokenSynced, TokenFailed
<1>3. ASSUME NEW c \in Conns, CloseEvent(c) PROVE EveryDeviceIsReached'
  BY <1>3, UnregisterReached, ManagerKept DEF CloseEvent, OnClose
<1>4. ASSUME NEW c \in Conns,
             \/ TokenArrives(c) \/ Timeout(c) \/ Pong(c) \/ PeerGone(c)
             \/ ClientCloses(c) \/ AnnounceOffline(c)
      PROVE  EveryDeviceIsReached'
  BY <1>4, ManagerKept
     DEF TokenArrives, Timeout, Pong, PeerGone, ClientCloses, AnnounceOffline
<1>5. CASE Heartbeat
  BY <1>5, ManagerKept DEF Heartbeat
<1>6. CASE Crash
  BY <1>6 DEF Crash, EveryDeviceIsReached
<1>7. CASE UNCHANGED vars
  BY <1>7, ManagerKept DEF vars, manager
<1> QED
  BY <1>1, <1>2, <1>3, <1>4, <1>5, <1>6, <1>7 DEF Next

\* Whatever a user's devices do at the same time, a message for the user is sent
\* to each registered connection authenticated as that user
\* (connectionManager.attachUser, unregister, getUserConnections).
THEOREM EveryDeviceIsAlwaysReached == Spec => []EveryDeviceIsReached
<1>1. Init => EveryDeviceIsReached
  BY DEF Init, EveryDeviceIsReached
<1> QED
  BY <1>1, NextReached, TypeCorrect, PTL DEF Spec

----------------------------------------------------------------------------
(* Departures.  When each client keeps to one user, the entry of a user      *)
(* lists exactly the registered connections authenticated as that user, so   *)
(* that the count the close listener takes is the number of these.           *)

OneUserEach == \A c \in Conns : \A u, v \in Tokens[c] : u = v

EntriesExact ==
    /\ \A c \in Conns : userOf[c] # Nobody => userOf[c] \in Tokens[c]
    /\ \A c \in registered, u \in Users : c \in userConns[u] => userOf[c] = u
    /\ leaving \cap registered = {}

LEMMA EntriesKept ==
    ASSUME EntriesExact, UNCHANGED manager, leaving' \subseteq leaving
    PROVE  EntriesExact'
BY DEF manager, EntriesExact

LEMMA AttachExact ==
    ASSUME TypeOK, EntriesExact, OneUserEach, NEW c \in Conns, NEW u \in Users,
           u \in Tokens[c], AttachUser(c, u), leaving' = leaving
    PROVE  EntriesExact'
<1>1. \A d \in Conns : userOf'[d] = IF d = c THEN u ELSE userOf[d]
  BY DEF AttachUser, TypeOK
<1>2. ASSUME NEW d \in registered', NEW w \in Users, d \in userConns'[w]
      PROVE  userOf'[d] = w
  <2>1. d \in registered /\ d \in Conns
    BY <1>2 DEF AttachUser, TypeOK
  <2>2. d \in userConns[w] \/ (d = c /\ w = u)
    BY <1>2 DEF AttachUser, TypeOK
  <2>3. CASE d = c /\ w = u
    BY <1>1, <2>1, <2>3
  <2>4. CASE d \in userConns[w]
    <3>1. userOf[d] = w /\ w \in Tokens[d]
      BY <2>1, <2>4, NobodyIsNoUser DEF EntriesExact
    <3> QED
      BY <1>1, <2>1, <3>1 DEF OneUserEach
  <2> QED
    BY <2>2, <2>3, <2>4
<1> QED
  BY <1>1, <1>2 DEF EntriesExact, AttachUser

LEMMA CloseExact ==
    ASSUME TypeOK, EntriesExact, NEW c \in Conns, OnClose(c)
    PROVE  EntriesExact'
<1>1. /\ registered' = registered \ {c} /\ userOf' = userOf
      /\ leaving' \subseteq leaving \cup {c}
  BY DEF OnClose, Unregister
<1>2. \A u \in Users : userConns'[u] \subseteq userConns[u]
  BY DEF OnClose, Unregister, TypeOK
<1> QED
  BY <1>1, <1>2 DEF EntriesExact

LEMMA NextExact ==
    ASSUME OneUserEach
    PROVE  TypeOK /\ EntriesExact /\ [Next]_vars => EntriesExact'
<1> SUFFICES ASSUME TypeOK, EntriesExact, [Next]_vars PROVE EntriesExact'
  OBVIOUS
<1>1. ASSUME NEW c \in Conns, Open(c) PROVE EntriesExact'
  <2>1. \A u \in Users : c \notin userConns[u]
    BY <1>1 DEF Open, Free
  <2> QED
    BY <1>1, <2>1 DEF Open, Free, TypeOK, EntriesExact
<1>2. ASSUME NEW c \in Conns, CookieStep(c) \/ TokenStep(c) PROVE EntriesExact'
  <2>1. CASE \E u \in Users : CookieAttach(c, u) \/ TokenAttach(c, u)
    BY <2>1, AttachExact DEF CookieAttach, TokenAttach
  <2>2. CASE \/ CookieSynced(c) \/ CookieNone(c) \/ CookieFailed(c)
             \/ TokenSynced(c) \/ TokenFailed(c)
    BY <2>2, EntriesKept
       DEF CookieSynced, CookieNone, CookieFailed, TokenSynced, TokenFailed
  <2> QED
    BY <1>2, <2>1, <2>2 DEF CookieStep, TokenStep
<1>3. ASSUME NEW c \in Conns, CloseEvent(c) PROVE EntriesExact'
  BY <1>3, CloseExact, EntriesKept DEF CloseEvent
<1>4. ASSUME NEW c \in Conns,
             \/ TokenArrives(c) \/ Timeout(c) \/ Pong(c) \/ PeerGone(c)
             \/ ClientCloses(c) \/ AnnounceOffline(c)
      PROVE  EntriesExact'
  BY <1>4, EntriesKept
     DEF TokenArrives, Timeout, Pong, PeerGone, ClientCloses, AnnounceOffline
<1>5. CASE Heartbeat
  BY <1>5, EntriesKept DEF Heartbeat
<1>6. CASE Crash
  BY <1>6 DEF Crash, EntriesExact
<1>7. CASE UNCHANGED vars
  BY <1>7, EntriesKept DEF vars, manager
<1> QED
  BY <1>1, <1>2, <1>3, <1>4, <1>5, <1>6, <1>7 DEF Next

\* The count is 1 exactly if no other connection of the user is registered.
LEMMA CountOfLast ==
    ASSUME TypeOK, EveryDeviceIsReached, EntriesExact,
           NEW c \in registered, userOf[c] # Nobody
    PROVE  Cardinality(UserConnections(userOf[c])) = 1
           <=> \A d \in registered \ {c} : userOf[d] # userOf[c]
<1> DEFINE S == UserConnections(userOf[c])
<1>1. userOf[c] \in Users /\ c \in S
  BY DEF TypeOK, EveryDeviceIsReached
<1>2. \A d \in registered : d \in S <=> userOf[d] = userOf[c]
  BY <1>1 DEF EveryDeviceIsReached, EntriesExact, UserConnections
<1>3. S \subseteq registered /\ S \subseteq Conns
  BY DEF UserConnections, TypeOK
<1>4. IsFiniteSet(S)
  BY <1>3, ConnsFinite, FS_Subset
<1>5. Cardinality(S) = 1 <=> S = {c}
  BY <1>1, <1>4, FS_Singleton
<1> QED
  BY <1>1, <1>2, <1>3, <1>5

\* Only the close listener takes a connection out of the map while its socket
\* is closed, and then it announces exactly the last one.
LEMMA LastCloseStep ==
    ASSUME TypeOK, EveryDeviceIsReached, EntriesExact, Next,
           NEW c \in registered \ registered', socket'[c] = "closed"
    PROVE  c \in leaving' <=> /\ userOf[c] # Nobody
                              /\ \A d \in registered' : userOf'[d] # userOf[c]
<1>1. c \in Conns /\ c \notin leaving
  BY DEF TypeOK, EntriesExact
<1>2. ~Crash
  BY <1>1 DEF Crash
<1>3. PICK d \in Conns : CloseEvent(d) /\ OnClose(d)
  <2>1. ASSUME NEW d \in Conns,
               \/ Open(d) \/ CookieStep(d) \/ TokenArrives(d) \/ TokenStep(d)
               \/ Timeout(d) \/ Pong(d) \/ PeerGone(d) \/ ClientCloses(d)
               \/ AnnounceOffline(d)
        PROVE  registered \subseteq registered'
    BY <2>1 DEF Open, CookieStep, CookieAttach, CookieSynced, CookieNone,
       CookieFailed, TokenArrives, TokenStep, TokenAttach, TokenSynced, TokenFailed,
       Timeout, Pong, PeerGone, ClientCloses, AnnounceOffline, AttachUser, manager
  <2>2. ~Heartbeat
    BY DEF Heartbeat, manager
  <2>3. PICK d \in Conns : CloseEvent(d)
    BY <1>2, <2>1, <2>2 DEF Next
  <2> QED
    BY <2>3 DEF CloseEvent, manager
<1>4. /\ registered' = registered \ {d} /\ userOf' = userOf
      /\ leaving' = IF /\ userOf[d] # Nobody
                       /\ Cardinality(UserConnections(userOf[d])) = 1
                    THEN leaving \cup {d} ELSE leaving
  BY <1>3 DEF OnClose, Unregister
<1>5. c = d
  BY <1>4
<1> QED
  BY <1>1, <1>4, <1>5, CountOfLast

\* When each client presents the tokens of one user only, a user's departure is
\* announced exactly when the last registered connection of that user closes,
\* for any number of devices (the close listener, connectionManager).
THEOREM LastCloseAlwaysAnnounces ==
    ASSUME OneUserEach
    PROVE  Spec => LastCloseAnnounces
<1>1. Init => EntriesExact
  BY DEF Init, EntriesExact
<1>2. TypeOK /\ EntriesExact /\ [Next]_vars => EntriesExact'
  BY NextExact
<1>3. TypeOK /\ EveryDeviceIsReached /\ EntriesExact /\ [Next]_vars =>
        [\A c \in registered \ registered' :
           socket'[c] = "closed" =>
             (c \in leaving' <=>
                /\ userOf[c] # Nobody
                /\ \A d \in registered' : userOf'[d] # userOf[c])]_vars
  BY LastCloseStep
<1> QED
  BY <1>1, <1>2, <1>3, TypeCorrect, EveryDeviceIsAlwaysReached, PTL
     DEF Spec, LastCloseAnnounces

----------------------------------------------------------------------------
(* Connections implements Devices.  Besides the types, the steps of Devices   *)
(* rest on the order inside one connection: a token is handled only once the  *)
(* handler of the connection has its listeners, so that the synchronisations  *)
(* of the cookie and of a token never overlap.                                *)

TokenAfterHandler ==
    \A c \in Conns : tokenMsg[c] # "none" => handler[c] = "listening"

LEMMA InitOrder == Init => TokenAfterHandler
BY DEF Init, TokenAfterHandler

LEMMA NextOrder == TypeOK /\ TokenAfterHandler /\ [Next]_vars => TokenAfterHandler'
<1> SUFFICES ASSUME TypeOK, TokenAfterHandler, [Next]_vars
             PROVE  TokenAfterHandler'
  OBVIOUS
<1> USE DEF TokenAfterHandler, TypeOK, wire, manager, process
<1>1. ASSUME NEW c \in Conns, Open(c) PROVE TokenAfterHandler'
  BY <1>1 DEF Open, Free
<1>2. ASSUME NEW c \in Conns, CookieStep(c) PROVE TokenAfterHandler'
  BY <1>2 DEF CookieStep, CookieAttach, CookieSynced, CookieNone, CookieFailed
<1>3. ASSUME NEW c \in Conns, TokenArrives(c) \/ TokenStep(c) PROVE TokenAfterHandler'
  BY <1>3 DEF TokenArrives, TokenStep, TokenAttach, TokenSynced, TokenFailed
<1>4. ASSUME NEW c \in Conns,
             \/ Timeout(c) \/ Pong(c) \/ PeerGone(c) \/ ClientCloses(c)
             \/ CloseEvent(c) \/ AnnounceOffline(c)
      PROVE  TokenAfterHandler'
  BY <1>4 DEF Timeout, Pong, PeerGone, ClientCloses, CloseEvent, AnnounceOffline
<1>5. CASE Heartbeat
  BY <1>5 DEF Heartbeat
<1>6. CASE Crash
  BY <1>6 DEF Crash
<1>7. CASE UNCHANGED vars
  BY <1>7 DEF vars
<1> QED
  BY <1>1, <1>2, <1>3, <1>4, <1>5, <1>6, <1>7 DEF Next

\* One step of the abstract specification, or none.
AbstractStep == [Senders!Next]_(Senders!devices)

\* What the server lists depends on its maps only, and what a listed connection
\* is worth on its socket and its peer.
LEMMA LineKept ==
    ASSUME userConns' = userConns, registered' = registered,
           socket' = socket, peer' = peer
    PROVE  Line' = Line
BY DEF Line, Listed, UserConnections

LEMMA SyncingKept ==
    ASSUME handler' = handler, tokenMsg' = tokenMsg
    PROVE  Syncing' = Syncing
BY DEF Syncing

LEMMA LineValues ==
    ASSUME NEW c \in Conns
    PROVE  /\ Line[c] = "on" <=> Listed(c) /\ socket[c] = "open" /\ peer[c]
           /\ Line[c] = "off" <=> ~Listed(c)
           /\ Line[c] \in Senders!ConnState
BY DEF Line, Senders!ConnState

\* Each action of Devices, in terms of the connections.
LEMMA Unseen ==
    ASSUME Line' = Line, Syncing' = Syncing
    PROVE  AbstractStep
BY DEF AbstractStep, Senders!devices

LEMMA IsAttach ==
    ASSUME NEW c \in Conns, c \notin Syncing, Syncing' = Syncing \cup {c},
           Line[c] # "off" => Line'[c] = Line[c],
           \A d \in Conns \ {c} : Line'[d] = Line[d]
    PROVE  AbstractStep
<1>1. Line' = [Line EXCEPT ![c] = Line'[c]]
  BY DEF Line
<1>2. Line'[c] \in Senders!ConnState
  BY DEF Line, Senders!ConnState
<1>3. Senders!Attach(c)
  BY <1>1, <1>2 DEF Senders!Attach
<1> QED
  BY <1>3 DEF AbstractStep, Senders!Next

LEMMA IsSynced ==
    ASSUME NEW c \in Conns, c \in Syncing, Syncing' = Syncing \ {c}, Line' = Line
    PROVE  AbstractStep
<1>1. Senders!Synced(c)
  BY DEF Senders!Synced
<1> QED
  BY <1>1 DEF AbstractStep, Senders!Next

LEMMA IsGoStale ==
    ASSUME NEW cs \in SUBSET Conns,
           \A c \in cs : Line[c] = "on" => Line'[c] = "stale",
           \A c \in cs : Line[c] # "on" => Line'[c] = Line[c],
           \A c \in Conns \ cs : Line'[c] = Line[c]
    PROVE  Senders!GoStale(cs)
BY DEF Line, Senders!GoStale

LEMMA IsSyncFails ==
    ASSUME NEW c \in Conns, c \in Syncing, Syncing' = Syncing \ {c},
           Line[c] = "on" => Line'[c] = "stale",
           Line[c] # "on" => Line'[c] = Line[c],
           \A d \in Conns \ {c} : Line'[d] = Line[d]
    PROVE  AbstractStep
<1>1. Senders!GoStale({c})
  BY IsGoStale
<1>2. Senders!SyncFails(c)
  BY <1>1 DEF Senders!SyncFails
<1> QED
  BY <1>2 DEF AbstractStep, Senders!Next

LEMMA IsDrop ==
    ASSUME Syncing' = Syncing,
           \A c \in Conns : \/ Line'[c] = Line[c]
                            \/ Line[c] = "on" /\ Line'[c] = "stale"
    PROVE  AbstractStep
<1> DEFINE cs == {c \in Conns : Line[c] = "on" /\ Line'[c] = "stale"}
<1>1. CASE cs = {}
  <2>1. Line' = Line
    BY <1>1 DEF Line
  <2> QED
    BY <2>1, Unseen
<1>2. CASE cs # {}
  <2>1. Senders!GoStale(cs)
    BY IsGoStale
  <2>2. Senders!Drop(cs)
    BY <1>2, <2>1 DEF Senders!Drop
  <2> QED
    BY <2>2 DEF AbstractStep, Senders!Next
<1> QED
  BY <1>1, <1>2

LEMMA IsDetach ==
    ASSUME NEW c \in Conns, Line[c] = "stale", Line'[c] = "off", Syncing' = Syncing,
           \A d \in Conns \ {c} : Line'[d] = Line[d]
    PROVE  AbstractStep
<1>1. Line' = [Line EXCEPT ![c] = "off"]
  BY DEF Line
<1>2. Senders!Detach(c)
  BY <1>1 DEF Senders!Detach
<1> QED
  BY <1>2 DEF AbstractStep, Senders!Next

\* The steps of Connections, by what they do to the connections seen.
LEMMA OpenStep ==
    ASSUME TypeOK, NEW c \in Conns, Open(c)
    PROVE  AbstractStep
<1>1. \A d \in Conns : Listed(d)' <=> Listed(d)
  BY DEF Open, Free, Listed, UserConnections
<1>2. ~Listed(c)
  BY DEF Open, Free, Listed, UserConnections
<1>3. \A d \in Conns \ {c} : socket'[d] = socket[d] /\ peer'[d] = peer[d]
  BY DEF Open, TypeOK
<1>4. Line' = Line
  BY <1>1, <1>2, <1>3 DEF Line
<1>5. Syncing' = Syncing
  BY DEF Syncing, Open, Free, TypeOK
<1> QED
  BY <1>4, <1>5, Unseen

LEMMA AttachStep ==
    ASSUME TypeOK, NEW c \in Conns, NEW u \in Users, AttachUser(c, u), UNCHANGED wire,
           c \notin Syncing, Syncing' = Syncing \cup {c}
    PROVE  AbstractStep
<1>1. \A d \in Conns \ {c} : Listed(d)' <=> Listed(d)
  BY DEF AttachUser, Listed, UserConnections, TypeOK
<1>2. Listed(c) => Listed(c)'
  BY DEF AttachUser, Listed, UserConnections, TypeOK
<1>3. socket' = socket /\ peer' = peer
  BY DEF wire
<1>4. \A d \in Conns \ {c} : Line'[d] = Line[d]
  BY <1>1, <1>3 DEF Line
<1>5. Line[c] # "off" => Line'[c] = Line[c]
  BY <1>2, <1>3 DEF Line
<1> QED
  BY <1>4, <1>5, IsAttach

\* Sockets close and peers go; none comes back.
LEMMA GoneStep ==
    ASSUME userConns' = userConns, registered' = registered, Syncing' = Syncing,
           \A c \in Conns :
              socket'[c] = "open" /\ peer'[c] => socket[c] = "open" /\ peer[c]
    PROVE  AbstractStep
<1>1. \A c \in Conns : Listed(c)' <=> Listed(c)
  BY DEF Listed, UserConnections
<1>2. ASSUME NEW c \in Conns
      PROVE  \/ Line'[c] = Line[c]
             \/ Line[c] = "on" /\ Line'[c] = "stale"
  BY <1>1 DEF Line
<1> QED
  BY <1>2, IsDrop

LEMMA CookieStepSeen ==
    ASSUME TypeOK, TokenAfterHandler, NEW c \in Conns, CookieStep(c)
    PROVE  AbstractStep
<1> USE DEF wire, manager
<1>0. tokenMsg[c] = "none"
  BY DEF CookieStep, CookieAttach, CookieSynced, CookieNone, CookieFailed,
     TokenAfterHandler
<1>1. ASSUME NEW u \in Users, CookieAttach(c, u) PROVE AbstractStep
  <2>1. c \notin Syncing /\ Syncing' = Syncing \cup {c}
    BY <1>0, <1>1 DEF CookieAttach, Syncing, TypeOK
  <2> QED
    BY <1>1, <2>1, AttachStep DEF CookieAttach
<1>2. CASE CookieSynced(c)
  <2>1. c \in Syncing /\ Syncing' = Syncing \ {c}
    BY <1>0, <1>2 DEF CookieSynced, Syncing, TypeOK
  <2>2. Line' = Line
    BY <1>2, LineKept DEF CookieSynced
  <2> QED
    BY <2>1, <2>2, IsSynced
<1>3. CASE CookieNone(c)
  <2>1. Syncing' = Syncing
    BY <1>3 DEF CookieNone, Syncing, TypeOK
  <2> QED
    BY <1>3, <2>1, LineKept, Unseen DEF CookieNone
<1>4. CASE CookieFailed(c)
  <2>1. /\ userConns' = userConns /\ registered' = registered /\ peer' = peer
        /\ tokenMsg' = tokenMsg /\ handler' = [handler EXCEPT ![c] = "returned"]
        /\ \A d \in Conns \ {c} : socket'[d] = socket[d]
        /\ socket'[c] # "open"
    BY <1>4 DEF CookieFailed, CloseSocket, TypeOK
  <2>2. CASE handler[c] = "cookies"
    <3>1. Syncing' = Syncing
      BY <1>0, <2>1, <2>2 DEF Syncing, TypeOK
    <3> QED
      BY <2>1, <3>1, GoneStep
  <2>3. CASE handler[c] = "syncing"
    <3>1. c \in Syncing /\ Syncing' = Syncing \ {c}
      BY <1>0, <2>1, <2>3 DEF Syncing, TypeOK
    <3>2. \A d \in Conns : Listed(d)' <=> Listed(d)
      BY <2>1 DEF Listed, UserConnections
    <3>3. \A d \in Conns \ {c} : Line'[d] = Line[d]
      BY <2>1, <3>2 DEF Line
    <3>4. /\ Line[c] = "on" => Line'[c] = "stale"
          /\ Line[c] # "on" => Line'[c] = Line[c]
      BY <2>1, <3>2 DEF Line
    <3> QED
      BY <3>1, <3>3, <3>4, IsSyncFails
  <2> QED
    BY <1>4, <2>2, <2>3 DEF CookieFailed
<1> QED
  BY <1>1, <1>2, <1>3, <1>4 DEF CookieStep

LEMMA TokenStepSeen ==
    ASSUME TypeOK, TokenAfterHandler, NEW c \in Conns, TokenStep(c)
    PROVE  AbstractStep
<1> USE DEF wire, manager
<1>0. handler[c] = "listening"
  BY DEF TokenStep, TokenAttach, TokenSynced, TokenFailed, TokenAfterHandler
<1>1. ASSUME NEW u \in Users, TokenAttach(c, u) PROVE AbstractStep
  <2>1. c \notin Syncing /\ Syncing' = Syncing \cup {c}
    BY <1>0, <1>1 DEF TokenAttach, Syncing, TypeOK
  <2> QED
    BY <1>1, <2>1, AttachStep DEF TokenAttach
<1>2. CASE TokenSynced(c) \/ TokenFailed(c)
  <2>1. Line' = Line
    BY <1>2, LineKept DEF TokenSynced, TokenFailed
  <2>2. Syncing' = Syncing \ {c}
    BY <1>0, <1>2 DEF TokenSynced, TokenFailed, Syncing, TypeOK
  <2>3. CASE c \in Syncing
    BY <2>1, <2>2, <2>3, IsSynced
  <2>4. CASE c \notin Syncing
    BY <2>1, <2>2, <2>4, Unseen
  <2> QED
    BY <2>3, <2>4
<1> QED
  BY <1>1, <1>2 DEF TokenStep

LEMMA CloseEventSeen ==
    ASSUME TypeOK, NEW c \in Conns, CloseEvent(c)
    PROVE  AbstractStep
<1>1. /\ handler' = handler /\ tokenMsg' = tokenMsg
      /\ socket[c] = "closing" /\ socket'[c] = "closed"
      /\ \A d \in Conns \ {c} : socket'[d] = socket[d] /\ peer'[d] = peer[d]
  BY DEF CloseEvent, TypeOK
<1>2. Syncing' = Syncing
  BY <1>1, SyncingKept
<1>3. CASE handler[c] = "listening"
  <2>1. Unregister(c)
    BY <1>3 DEF CloseEvent, OnClose
  <2>2. ~Listed(c)'
    BY <2>1 DEF Unregister, Listed, UserConnections
  <2>3. \A d \in Conns \ {c} : Listed(d)' <=> Listed(d)
    BY <2>1 DEF Unregister, Listed, UserConnections, TypeOK
  <2>4. \A d \in Conns \ {c} : Line'[d] = Line[d]
    BY <1>1, <2>3 DEF Line
  <2>5. Line'[c] = "off"
    BY <2>2 DEF Line
  <2>6. CASE Line[c] = "off"
    <3>1. Line' = Line
      BY <2>4, <2>5, <2>6 DEF Line
    <3> QED
      BY <1>2, <3>1, Unseen
  <2>7. CASE Line[c] # "off"
    <3>1. Line[c] = "stale"
      BY <1>1, <2>7 DEF Line
    <3> QED
      BY <1>2, <2>4, <2>5, <3>1, IsDetach
  <2> QED
    BY <2>6, <2>7
<1>4. CASE handler[c] # "listening"
  <2>1. userConns' = userConns /\ registered' = registered
    BY <1>4 DEF CloseEvent, manager
  <2> QED
    BY <1>1, <1>2, <2>1, GoneStep
<1> QED
  BY <1>3, <1>4

LEMMA NextSeen == TypeOK /\ TokenAfterHandler /\ [Next]_vars => AbstractStep
<1> SUFFICES ASSUME TypeOK, TokenAfterHandler, [Next]_vars PROVE AbstractStep
  OBVIOUS
<1> USE DEF wire, manager, process
<1>1. ASSUME NEW c \in Conns, Open(c) PROVE AbstractStep
  BY <1>1, OpenStep
<1>2. ASSUME NEW c \in Conns, CookieStep(c) \/ TokenStep(c) PROVE AbstractStep
  BY <1>2, CookieStepSeen, TokenStepSeen
<1>3. ASSUME NEW c \in Conns, TokenArrives(c) PROVE AbstractStep
  <2>1. Syncing' = Syncing
    BY <1>3 DEF TokenArrives, Syncing, TypeOK
  <2> QED
    BY <1>3, <2>1, LineKept, Unseen DEF TokenArrives
<1>4. ASSUME NEW c \in Conns, Timeout(c) \/ ClientCloses(c) PROVE AbstractStep
  <2>1. /\ userConns' = userConns /\ registered' = registered
        /\ handler' = handler /\ tokenMsg' = tokenMsg /\ peer' = peer
    BY <1>4 DEF Timeout, ClientCloses
  <2>2. \A d \in Conns : socket'[d] = socket[d] \/ socket'[d] = "closing"
    BY <1>4 DEF Timeout, ClientCloses, CloseSocket, TypeOK
  <2> QED
    BY <2>1, <2>2, SyncingKept, GoneStep
<1>5. ASSUME NEW c \in Conns, Pong(c) \/ AnnounceOffline(c) PROVE AbstractStep
  BY <1>5, LineKept, SyncingKept, Unseen DEF Pong, AnnounceOffline
<1>6. ASSUME NEW c \in Conns, PeerGone(c) PROVE AbstractStep
  <2>1. \A d \in Conns : peer'[d] = peer[d] \/ ~peer'[d]
    BY <1>6 DEF PeerGone, TypeOK
  <2> QED
    BY <1>6, <2>1, SyncingKept, GoneStep DEF PeerGone
<1>7. ASSUME NEW c \in Conns, CloseEvent(c) PROVE AbstractStep
  BY <1>7, CloseEventSeen
<1>8. CASE Heartbeat
  <2>1. \A d \in Conns : socket'[d] = socket[d] \/ socket'[d] = "closing"
    BY <1>8 DEF Heartbeat
  <2> QED
    BY <1>8, <2>1, SyncingKept, GoneStep DEF Heartbeat
<1>9. CASE Crash
  <2>1. Line' = [c \in Conns |-> "off"]
    BY <1>9 DEF Crash, Line, Listed, UserConnections
  <2>2. Syncing' = {}
    BY <1>9 DEF Crash, Syncing
  <2>3. Senders!Restart
    BY <2>1, <2>2 DEF Senders!Restart
  <2> QED
    BY <2>3 DEF AbstractStep, Senders!Next
<1>10. CASE UNCHANGED vars
  BY <1>10, LineKept, SyncingKept, Unseen DEF vars
<1> QED
  BY <1>1, <1>2, <1>3, <1>4, <1>5, <1>6, <1>7, <1>8, <1>9, <1>10 DEF Next

\* For every number of users and of devices, whichever tokens the clients present
\* and whatever their sockets do, the message handlers see a connection come and
\* go in the steps of Devices only: it is listed in the step that starts its
\* synchronisation, and leaves the list only once it has stopped delivering
\* (authenticate, unregister, the listeners).
THEOREM ConnectionsImplementDevices == Spec => ImplementsDevices
<1>1. Init => Senders!Init
  BY DEF Init, Senders!Init, Line, Syncing, Listed, UserConnections
<1>2. TypeOK /\ TokenAfterHandler /\ [Next]_vars
        => [Senders!Next]_(Senders!devices)
  BY NextSeen DEF AbstractStep
<1> QED
  BY <1>1, <1>2, InitOrder, NextOrder, TypeCorrect, PTL
     DEF Spec, ImplementsDevices, Senders!Spec
=============================================================================
