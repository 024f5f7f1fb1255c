--------------------------- MODULE MessageDelivery ---------------------------
(***************************************************************************)
(* Messages of one group conversation on their way to its members: the     *)
(* transaction that stores them (message.service.ts), the push to sockets  *)
(* that follows (group-message-handler.ts), the synchronisation of what a  *)
(* user missed while away (offline-sync.service.ts), the confirmations that*)
(* clients send back (confirmDelivery), the unread counters, and deletion. *)
(*                                                                         *)
(* Each await of the code is a point where every other handler may run.    *)
(* Transactions with no read of their own are one step; the members who    *)
(* receive a message were read before its transaction and may have left.   *)
(***************************************************************************)
EXTENDS Naturals, FiniteSets

CONSTANTS
    Users,      \* accounts with a conversation_members row
    Messages,   \* ids of the messages that can be posted: bounds them
    Conns,      \* WebSocket connections, reused after they close
    Owner,      \* connection |-> the user whose tokens its client presents
    Confirms    \* slots for confirmations in flight: |Confirms| bounds them

ASSUME MessagesFinite == IsFiniteSet(Messages)
ASSUME OwnerType == Owner \in [Conns -> Users]

VARIABLES
    members,   \* users whose membership row is not soft-deleted
    stored,    \* ids with a messages row
    status,    \* message |-> user |-> status of the message_deliveries row
    unread,    \* user |-> conversation_members.unreadCount
    post,      \* message |-> the handler that posts it
    conn,      \* connection |-> what the server has of it, and the wire
    sync,      \* connection |-> the syncPendingMessages run by authenticate
    confirm,   \* slot |-> the confirmDelivery that runs in it
    inbox,     \* connection |-> messages its client received, while it delivers
    received,  \* user |-> messages any of its clients ever received
    caughtUp,  \* delivering connections on which, since they were attached, some
               \* synchronisation has sent all it found
    setBack,   \* deliveries <<message, user>> a client's confirmation made SENT
    misread    \* deliveries made READ in the name of another conversation, since
               \* when the user's counter was not reset

db     == <<members, stored, status, unread>>
client == <<inbox, received>>
confirming == <<confirm, setBack, misread>>
vars   == <<db, post, conn, sync, confirming, client, caughtUp>>

----------------------------------------------------------------------------
(* A delivery row exists while its message is stored (ON DELETE CASCADE);   *)
(* status keeps its last value after that.  "NONE": there never was a row.  *)
Status == {"NONE", "SENT", "DELIVERED", "READ"}

\* A post awaits the SELECTs of createGroupMessage, then its transaction, then
\* pushes; to holds the members it read.
Post == [pc: {"idle", "reading", "stored", "done"}, sender: Users,
         pending: SUBSET {"member", "members"}, to: SUBSET Users]
NoPost == [pc |-> "idle"]

\* Where authenticate's synchronisation is: before its answer of pending
\* deliveries, before that of the messages, before its UPDATE, or failed.
Sync == [pc: {"idle", "query", "load", "mark", "failed"}, ids: SUBSET Messages]
NoSync == [pc |-> "idle", ids |-> {}]
Syncing == {c \in Conns : sync[c].pc \in {"query", "load", "mark"}}

\* The connections come and go as Connections lets them.
Line == INSTANCE Devices WITH syncing <- Syncing

\* Where confirmDelivery is: before its reset, before its UPDATE.  The schema
\* takes any MessageStatus and any conversation; named says whether the one given
\* is the message's own.  A READ of another conversation's message that names this
\* one is, seen from here, a ResetUnread.
Confirm == [pc: {"reset", "update"}, user: Users, msg: Messages,
            status: Status \ {"NONE"}, named: BOOLEAN]
NoConfirm == [pc |-> "idle"]

\* connectionManager.getUserConnections, for several users.
ConnectionsOf(us) == {c \in Conns : Owner[c] \in us /\ conn[c] # "off"}

\* sendMessage on each of the connections: one that is not open is skipped.
SendTo(cs, ms) ==
    LET open == {c \in cs : conn[c] = "on"} IN
    /\ inbox' = [c \in Conns |-> IF c \in open THEN inbox[c] \cup ms ELSE inbox[c]]
    /\ received' = [u \in Users |->
          IF \E c \in open : Owner[c] = u THEN received[u] \cup ms ELSE received[u]]

\* A synchronisation on c has sent all it found.
CatchUp(c) == caughtUp' = {d \in caughtUp \cup {c} : conn[d] = "on"}

\* The clients of connections that deliver no more are of no more interest.
Forget ==
    /\ inbox' = [c \in Conns |-> IF conn'[c] = "on" THEN inbox[c] ELSE {}]
    /\ caughtUp' = {c \in caughtUp : conn'[c] = "on"}

----------------------------------------------------------------------------
Init ==
    /\ members = Users
    /\ stored = {}
    /\ status = [m \in Messages |-> [u \in Users |-> "NONE"]]
    /\ unread = [u \in Users |-> 0]
    /\ post = [m \in Messages |-> NoPost]
    /\ sync = [c \in Conns |-> NoSync] /\ Line!Init
    /\ confirm = [k \in Confirms |-> NoConfirm]
    /\ inbox = [c \in Conns |-> {}]
    /\ received = [u \in Users |-> {}]
    /\ caughtUp = {} /\ setBack = {} /\ misread = {}

\* Membership changes under the feet of the other handlers: conversation.service
\* soft-deletes a row or restores it.
Leave(u) ==
    /\ u \in members
    /\ members' = members \ {u}
    /\ UNCHANGED <<stored, status, unread, post, conn, sync, confirming, client, caughtUp>>

Rejoin(u) ==
    /\ u \notin members
    /\ members' = members \cup {u}
    /\ UNCHANGED <<stored, status, unread, post, conn, sync, confirming, client, caughtUp>>

----------------------------------------------------------------------------
(* createGroupMessage and the push of group-message-handler *)

PostStart(m, u) ==
    /\ post[m] = NoPost
    /\ post' = [post EXCEPT ![m] =
          [pc |-> "reading", sender |-> u, pending |-> {"member", "members"},
           to |-> {}]]
    /\ UNCHANGED <<db, conn, sync, confirming, client, caughtUp>>

\* The sender's own row must be that of a present member (USER_LEFT_GROUP).
PostReadMember(m) ==
    /\ post[m].pc = "reading" /\ "member" \in post[m].pending
    /\ post[m].sender \in members
    /\ post' = [post EXCEPT ![m].pending = @ \ {"member"}]
    /\ UNCHANGED <<db, conn, sync, confirming, client, caughtUp>>

PostReadMembers(m) ==
    /\ post[m].pc = "reading" /\ "members" \in post[m].pending
    /\ post' = [post EXCEPT ![m].pending = @ \ {"members"},
                            ![m].to = members \ {post[m].sender}]
    /\ UNCHANGED <<db, conn, sync, confirming, client, caughtUp>>

\* The transaction: message, a SENT delivery for and an increment of each
\* member read but the sender.
PostCommit(m) ==
    /\ post[m].pc = "reading" /\ post[m].pending = {}
    /\ stored' = stored \cup {m}
    /\ status' = [status EXCEPT ![m] =
          [u \in Users |-> IF u \in post[m].to THEN "SENT" ELSE "NONE"]]
    /\ unread' = [u \in Users |->
          IF u \in post[m].to THEN unread[u] + 1 ELSE unread[u]]
    /\ post' = [post EXCEPT ![m].pc = "stored"]
    /\ UNCHANGED <<members, conn, sync, confirming, client, caughtUp>>

\* The loop over the members' connections has no await.
PostSend(m) ==
    /\ post[m].pc = "stored"
    /\ SendTo(ConnectionsOf(post[m].to), {m})
    /\ post' = [post EXCEPT ![m].pc = "done"]
    /\ UNCHANGED <<db, conn, sync, confirming, caughtUp>>

\* A check refuses, or the transaction fails as a whole.
PostFail(m) ==
    /\ post[m].pc = "reading"
    /\ post' = [post EXCEPT ![m].pc = "done"]
    /\ UNCHANGED <<db, conn, sync, confirming, client, caughtUp>>

----------------------------------------------------------------------------
(* Connections and the synchronisation that authenticate runs on each *)

\* Mutant: the synchronisation runs before the connection is attached.
ConnectAfterSync(c) ==
    /\ conn[c] = "off" /\ sync[c] = NoSync
    /\ conn' = [conn EXCEPT ![c] = "on"]
    /\ caughtUp' = caughtUp \cup {c}
    /\ UNCHANGED <<db, post, sync, confirming, client>>

\* authenticate: the connection is attached before its first query is sent, and
\* may have been attached before, by a token sent earlier.
Connect(c) ==
    /\ sync' = [sync EXCEPT ![c] = [pc |-> "query", ids |-> {}]]
    /\ Line!Attach(c)
    /\ UNCHANGED <<db, post, confirming, client, caughtUp>>

\* Mutant: the query asks for the wrong status.
SyncQueryDelivered(c) ==
    LET pending == {m \in stored : status[m][Owner[c]] = "DELIVERED"} IN
    /\ sync[c].pc = "query"
    /\ sync' = [sync EXCEPT ![c] = IF pending = {} THEN NoSync
                                   ELSE [pc |-> "load", ids |-> pending]]
    /\ IF pending = {} THEN CatchUp(c) ELSE UNCHANGED caughtUp
    /\ UNCHANGED <<db, post, conn, confirming, client>>

\* The pending deliveries are read; with none the synchronisation is over.
SyncQuery(c) ==
    LET pending == {m \in stored : status[m][Owner[c]] = "SENT"} IN
    /\ sync[c].pc = "query"
    /\ sync' = [sync EXCEPT ![c] = IF pending = {} THEN NoSync
                                   ELSE [pc |-> "load", ids |-> pending]]
    /\ IF pending = {} THEN CatchUp(c) ELSE UNCHANGED caughtUp
    /\ UNCHANGED <<db, post, conn, confirming, client>>

\* The messages are read (those deleted meanwhile are missing) and sent to all
\* connections the user has at this moment; without one nothing is marked.
SyncLoad(c) ==
    LET conns == ConnectionsOf({Owner[c]}) IN
    /\ sync[c].pc = "load"
    /\ IF conns = {}
       THEN /\ sync' = [sync EXCEPT ![c] = NoSync]
            /\ UNCHANGED <<client, caughtUp>>
       ELSE /\ sync' = [sync EXCEPT ![c].pc = "mark"]
            /\ SendTo(conns, sync[c].ids \cap stored)
            /\ CatchUp(c)
    /\ UNCHANGED <<db, post, conn, confirming>>

\* One UPDATE for all the ids read, whatever their status has become.
SyncMark(c) ==
    /\ sync[c].pc = "mark"
    /\ status' = [m \in Messages |->
          IF m \in sync[c].ids \cap stored
          THEN [status[m] EXCEPT ![Owner[c]] = "DELIVERED"] ELSE status[m]]
    /\ LET marked == (sync[c].ids \cap stored) \X {Owner[c]}
       IN  setBack' = setBack \ marked /\ misread' = misread \ marked
    /\ sync' = [sync EXCEPT ![c] = NoSync]
    /\ UNCHANGED <<members, stored, unread, post, conn, confirm, client, caughtUp>>

\* A query fails and authenticate throws.  The connection is closed at once
\* (cookie); later (Drop), when the 10 s timer finds it not authenticated; or
\* not at all, if an earlier token was good or a later one is (Connect).
SyncFail(c) ==
    /\ sync' = [sync EXCEPT ![c] = [pc |-> "failed", ids |-> {}]]
    /\ Line!SyncFails(c) /\ Forget
    /\ UNCHANGED <<db, post, confirming, received>>

\* Clients go away and the server does not know yet, or it closes sockets.
Drop(cs) ==
    /\ UNCHANGED <<db, post, sync, confirming, received>>
    /\ Line!Drop(cs) /\ Forget

\* The close event unregisters the connection; a synchronisation goes on.
Disconnect(c) ==
    /\ UNCHANGED <<db, post, sync, confirming, client, caughtUp>>
    /\ Line!Detach(c)

----------------------------------------------------------------------------
(* confirmDelivery, the reset call, deletion *)

ResetCounter(u) ==
    /\ unread' = [unread EXCEPT ![u] = 0]
    /\ misread' = {d \in misread : d[2] # u}

\* Mutant: the counter is reset for DELIVERED and not for READ.
ConfirmFindSwapped(k, u, m, s, named) ==
    /\ confirm[k] = NoConfirm
    /\ m \in received[u] /\ m \in stored
    /\ s = "READ" \/ named
    /\ confirm' = [confirm EXCEPT ![k] =
          [pc |-> IF s = "READ" THEN "update" ELSE "reset",
           user |-> u, msg |-> m, status |-> s, named |-> named]]
    /\ UNCHANGED <<db, post, conn, sync, client, caughtUp, setBack, misread>>

\* A client confirms a message it has.  Until the SELECT is answered the call may
\* as well be under way to the server; without a delivery row it has no effect.
\* Only a READ looks at the conversation: it resets the counter first.
ConfirmFind(k, u, m, s, named) ==
    /\ confirm[k] = NoConfirm
    /\ m \in received[u] /\ m \in stored
    /\ s = "READ" \/ named
    /\ confirm' = [confirm EXCEPT ![k] =
          [pc |-> IF s = "READ" THEN "reset" ELSE "update",
           user |-> u, msg |-> m, status |-> s, named |-> named]]
    /\ UNCHANGED <<db, post, conn, sync, client, caughtUp, setBack, misread>>

\* Mutant: each READ takes one off the counter.
ConfirmDecrement(k) ==
    /\ confirm[k].pc = "reset"
    /\ unread' = [unread EXCEPT ![confirm[k].user] = @ - 1]
    /\ confirm' = [confirm EXCEPT ![k].pc = "update"]
    /\ UNCHANGED <<members, stored, status, post, conn, sync, client, caughtUp, setBack,
                   misread>>

\* The counter of the conversation named: another's is not seen from here.
ConfirmReset(k) ==
    LET d == confirm[k] IN
    /\ d.pc = "reset"
    /\ IF d.named
       THEN ResetCounter(d.user) ELSE UNCHANGED <<unread, misread>>
    /\ confirm' = [confirm EXCEPT ![k].pc = "update"]
    /\ UNCHANGED <<members, stored, status, post, conn, sync, client, caughtUp, setBack>>

\* A set of deliveries, with that of confirmation d in it or not.
Mark(marked, d, yes) ==
    IF yes THEN marked \cup {<<d.msg, d.user>>} ELSE marked \ {<<d.msg, d.user>>}

\* UPDATE by id, with no look at the present status.
ConfirmUpdate(k) ==
    LET d == confirm[k] IN
    /\ d.pc = "update"
    /\ IF d.msg \in stored
       THEN /\ status' = [status EXCEPT ![d.msg][d.user] = d.status]
            /\ setBack' = Mark(setBack, d, d.status = "SENT")
            /\ misread' = Mark(misread, d, d.status = "READ" /\ ~d.named)
       ELSE UNCHANGED <<status, setBack, misread>>
    /\ confirm' = [confirm EXCEPT ![k] = NoConfirm]
    /\ UNCHANGED <<members, stored, unread, post, conn, sync, client, caughtUp>>

\* A statement fails.
ConfirmFail(k) ==
    /\ confirm[k] # NoConfirm
    /\ confirm' = [confirm EXCEPT ![k] = NoConfirm]
    /\ UNCHANGED <<db, post, conn, sync, client, caughtUp, setBack, misread>>

\* resetUnreadMessagesCount, when a user opens the conversation.
ResetUnread(u) ==
    /\ unread[u] # 0
    /\ ResetCounter(u)
    /\ UNCHANGED <<members, stored, status, post, conn, sync, confirm, setBack, client,
                   caughtUp>>

\* deleteMessages and the cleanup job: deliveries go by cascade, counters stay.
DeleteMessage(m) ==
    /\ m \in stored
    /\ stored' = stored \ {m}
    /\ UNCHANGED <<members, status, unread, post, conn, sync, confirming, client, caughtUp>>

\* The process dies: every handler and connection is lost, the rows are not.
Crash ==
    /\ post' = [m \in Messages |->
          IF post[m].pc = "idle" THEN post[m] ELSE [post[m] EXCEPT !.pc = "done"]]
    /\ sync' = [c \in Conns |-> NoSync] /\ Line!Restart /\ Forget
    /\ confirm' = [k \in Confirms |-> NoConfirm]
    /\ UNCHANGED <<db, received, setBack, misread>>

Next ==
    \/ \E u \in Users : Leave(u) \/ Rejoin(u) \/ ResetUnread(u)
    \/ \E m \in Messages :
         \/ \E u \in Users : PostStart(m, u)
         \/ PostReadMember(m) \/ PostReadMembers(m)
         \/ PostCommit(m) \/ PostSend(m) \/ PostFail(m)
         \/ DeleteMessage(m)
    \/ \E c \in Conns :
         \/ Connect(c) \/ Disconnect(c)
         \/ SyncQuery(c) \/ SyncLoad(c) \/ SyncMark(c) \/ SyncFail(c)
    \/ \E cs \in SUBSET Conns : Drop(cs)
    \/ \E k \in Confirms :
         \/ \E u \in Users, m \in Messages, s \in Status \ {"NONE"}, named \in BOOLEAN :
              ConfirmFind(k, u, m, s, named)
         \/ ConfirmReset(k) \/ ConfirmUpdate(k) \/ ConfirmFail(k)
    \/ Crash

Spec == Init /\ [][Next]_vars

\* The event loop and the database serve every query of a synchronisation in
\* the end, and a push loop runs once its transaction has committed.  Clients,
\* the network and failures are under no obligation.
Fairness ==
    /\ \A c \in Conns : WF_vars(SyncQuery(c) \/ SyncLoad(c) \/ SyncMark(c))
    /\ \A m \in Messages : WF_vars(PostSend(m))

FairSpec == Spec /\ Fairness

----------------------------------------------------------------------------
(* Properties *)

\* Every variable stays within its type.
TypeOK ==
    /\ members \in SUBSET Users
    /\ stored \in SUBSET Messages
    /\ status \in [Messages -> [Users -> Status]]
    /\ unread \in [Users -> Nat]
    /\ post \in [Messages -> Post \cup {NoPost}]
    /\ conn \in [Conns -> Line!ConnState]
    /\ sync \in [Conns -> Sync]
    /\ confirm \in [Confirms -> Confirm \cup {NoConfirm}]
    /\ inbox \in [Conns -> SUBSET Messages]
    /\ received \in [Users -> SUBSET Messages]
    /\ caughtUp \in SUBSET Conns
    /\ setBack \in SUBSET (Messages \X Users) /\ misread \in SUBSET (Messages \X Users)

Owed(m, u) == status[m][u] \in {"SENT", "DELIVERED"}

\* Read, but in the name of another conversation: this counter was not reset.
Uncleared(m, u) == Owed(m, u) \/ <<m, u>> \in misread

\* The unread counter never counts a message twice, nor one the user has read:
\* it is at most the number of messages posted to the user and not READ,
\* deleted ones included, and those whose READ named another conversation since
\* the last reset.  Increments, resets and status updates of overlapping posts,
\* confirmations and synchronisations are separate statements
\* (createGroupMessage, confirmDelivery).
UnreadIsOwed ==
    \A u \in Users : unread[u] <= Cardinality({m \in Messages : Uncleared(m, u)})

\* The delivery is still what the post's transaction made it.
AsStored(m, u) == status[m][u] = "SENT" /\ <<m, u>> \notin setBack

\* No message falls between the push and the synchronisation: on a connection
\* that delivers and on which a synchronisation has sent what it found, every
\* stored message that is still SENT for the user has arrived, unless its push
\* loop is yet to run or the user's own client set it back to SENT, and whatever
\* later synchronisations of that connection do (attachUser before the query in
\* authenticate; getUserConnections after the transaction in the handlers).
NoMessageFallsBetween ==
    \A m \in stored, c \in caughtUp :
        AsStored(m, Owner[c]) /\ post[m].pc = "done" => m \in inbox[c]

\* A message waiting as SENT when its user's synchronisation starts reaches that
\* connection, unless meanwhile the message is deleted, another confirmation or
\* synchronisation changes its status, the connection goes, or a query fails.
PendingReachesDevice ==
    \A c \in Conns, m \in Messages :
        /\ sync[c].pc = "query" /\ m \in stored
        /\ status[m][Owner[c]] = "SENT"
        ~> \/ m \in inbox[c]
           \/ m \notin stored \/ status[m][Owner[c]] # "SENT"
           \/ conn[c] # "on" \/ sync[c].pc = "failed"

\* A delivery marked DELIVERED or READ was received by a client of that user:
\* sendMessage "sends a message through an active WebSocket connection", and
\* syncPendingMessages marks what it handed to sendMessage.
DeliveredMeansReceived ==
    \A m \in stored, u \in Users :
        status[m][u] \in {"DELIVERED", "READ"} => m \in received[u]

=============================================================================
