------------------------------- MODULE Devices -------------------------------
(***************************************************************************)
(* What handlers that send messages may count on of a user's connections:  *)
(* which of them the connection manager lists, which of these deliver what *)
(* is sent on them, and on which the synchronisation that authenticate     *)
(* runs is under way.  There are no cookies, tokens, timers, pings or maps *)
(* here: ConnectionDevices shows how Connections implements these steps,   *)
(* and MessageDelivery is built on them.                                   *)
(***************************************************************************)

CONSTANT Conns

VARIABLES
    conn,     \* connection |-> what the server has of it, and the wire
    syncing   \* the connections whose synchronisation is under way

devices == <<conn, syncing>>

\* "off": not listed under a user.  "on": listed, and the socket delivers.
\* "stale": listed, but nothing sent arrives, because the socket is closing or
\* closed and not unregistered, or the peer is gone.
ConnState == {"off", "on", "stale"}

Init ==
    /\ conn = [c \in Conns |-> "off"]
    /\ syncing = {}

\* Connections that deliver do so no more.
GoStale(cs) ==
    conn' = [c \in Conns |-> IF c \in cs /\ conn[c] = "on" THEN "stale" ELSE conn[c]]

\* The connection is listed in the step that starts its synchronisation, unless
\* its close listener has run before.  Its socket may have gone while the session
\* was looked up, and it may have been listed already.
Attach(c) ==
    /\ c \notin syncing
    /\ syncing' = syncing \cup {c}
    /\ \E s \in IF conn[c] = "off" THEN ConnState ELSE {conn[c]} :
          conn' = [conn EXCEPT ![c] = s]

Synced(c) ==
    /\ c \in syncing
    /\ syncing' = syncing \ {c}
    /\ UNCHANGED conn

\* Some failures close the socket.
SyncFails(c) ==
    /\ c \in syncing
    /\ syncing' = syncing \ {c}
    /\ \E cs \in SUBSET {c} : GoStale(cs)

\* Sockets begin to close, or peers vanish.
Drop(cs) ==
    /\ \E c \in cs : conn[c] = "on"
    /\ GoStale(cs)
    /\ UNCHANGED syncing

\* The close listener takes the connection off the list; a synchronisation
\* under way goes on.
Detach(c) ==
    /\ conn[c] = "stale"
    /\ conn' = [conn EXCEPT ![c] = "off"]
    /\ UNCHANGED syncing

Restart ==
    /\ conn' = [c \in Conns |-> "off"]
    /\ syncing' = {}

Next ==
    \/ \E c \in Conns : Attach(c) \/ Synced(c) \/ SyncFails(c) \/ Detach(c)
    \/ \E cs \in SUBSET Conns : Drop(cs)
    \/ Restart

Spec == Init /\ [][Next]_devices

=============================================================================
