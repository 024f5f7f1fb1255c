-------------------------- MODULE ConnectionDevices --------------------------
(* Connections seen by those who send messages. *)
EXTENDS Connections

\* getUserConnections of some user lists the connection.
Listed(c) == \E u \in Users : c \in UserConnections(u)

Line == [c \in Conns |-> IF ~Listed(c) THEN "off"
                         ELSE IF socket[c] = "open" /\ peer[c] THEN "on" ELSE "stale"]

Syncing == {c \in Conns : handler[c] = "syncing" \/ tokenMsg[c] = "syncing"}

Senders == INSTANCE Devices WITH conn <- Line, syncing <- Syncing

\* Whatever cookies, tokens, timers, pings and close events do, for the message
\* handlers a connection is listed in the very step in which its synchronisation
\* starts, also when it is listed already, delivers no more once it has stopped
\* delivering, and is taken off the list only after that; the synchronisations
\* of its cookie and of its tokens do not overlap.  This is all that
\* MessageDelivery takes for granted (authenticate, attachUser, unregister, the
\* listeners and the heartbeat of websocket-server.ts).
ImplementsDevices == Senders!Spec

=============================================================================
