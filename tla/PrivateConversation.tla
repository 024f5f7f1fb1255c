------------------------ MODULE PrivateConversation ------------------------
(***************************************************************************)
(* The private conversation of two users: its creation with their first    *)
(* message, its deletion by one of them, which only hides it, and by the   *)
(* last of them, which drops it; and the deletion of their accounts        *)
(* (getOrCreatePrivateConversation and deletePrivateConversation of        *)
(* conversation.service.ts, createPrivateMessage of message.service.ts,    *)
(* deleteUser of admin.service.ts).                                        *)
(*                                                                         *)
(* The deletions read inside their transactions, at READ COMMITTED, and so *)
(* are several steps: what they wrote is seen by others at the last one,   *)
(* and the member row deletePrivateConversation has updated stays locked   *)
(* until then.  The transaction of a message contains no read and is one   *)
(* step, which waits for the rows it updates.  A deadlock is a Fail.       *)
(***************************************************************************)
EXTENDS Naturals

CONSTANTS
    Users,      \* the two users
    Requests,   \* slots for service calls in flight: |Requests| bounds them
    MaxCalls,   \* bound: how many calls are made in a behaviour
    Nobody      \* the null of messages.sender_id

ASSUME MaxCallsIsNat == MaxCalls \in Nat
ASSUME TwoUsers == \E u, v \in Users : u # v /\ Users = {u, v}

VARIABLES
    account,   \* the users whose account exists
    conv,      \* id of the conversation stored under the pair's private key
    row,       \* user |-> its conversation_members row there
    messages,  \* its messages; `seen' is history: how often each user had
               \* hidden it when the sender read that user's row
    lastId,    \* the ids given so far
    req,       \* slot |-> the call that runs in it
    calls,     \* how many calls were made, for the bound
    hides,     \* history: user |-> how often it has hidden the conversation
    crossed    \* history: two transactions that delete have overlapped

db    == <<account, conv, row, messages, lastId>>
vars  == <<db, req, calls, hides, crossed>>
past  == <<hides, crossed>>

----------------------------------------------------------------------------
(* Rows and calls *)

NoConv == 0   \* no conversation has the key; the ids are 1, 2, ...
Ids    == 1..MaxCalls

Other(u) == CHOOSE v \in Users : v # u

\* softDeletedAt is only tested for null; "NONE": no row.
RowState == {"NONE", "SHOWN", "HIDDEN"}
NoRows   == [u \in Users |-> "NONE"]
Never    == [u \in Users |-> 0]
Message  == [from: Users \cup {Nobody}, to: Users, seen: [Users -> 0..MaxCalls]]

\* A call: its step, who makes it, the conversation it works on, the rows it has
\* still to read, those it has read as hidden, how often each had been hidden by
\* then, and whether nobody else remains in the conversation.
Idle == [at |-> "IDLE"]
Step == {"key", "create", "write",         \* a message
         "find", "mark", "count", "commit",  \* deletePrivateConversation
         "members", "erase"}               \* deleteUser
Call == [at: Step, actor: Users, conv: Ids \cup {NoConv}, pending: SUBSET Users,
         hidden: SUBSET Users, seen: [Users -> 0..MaxCalls], alone: BOOLEAN]

At(r, step)   == req[r] # Idle /\ req[r].at = step
GoTo(r, step) == req' = [req EXCEPT ![r].at = step]
End(r)        == req' = [req EXCEPT ![r] = Idle]

\* In the transaction of deletePrivateConversation, after its UPDATE.
Holds(r)    == req[r] # Idle /\ req[r].at \in {"count", "commit"}
Deleting(r) == Holds(r) \/ At(r, "erase")
Locked(u)   == \E r \in Requests : Holds(r) /\ req[r].actor = u /\ req[r].conv = conv

\* A transaction that deletes begins in slot r.
Begin(r) ==
    crossed' = (crossed \/ \E q \in Requests \ {r} :
                               Deleting(q) /\ req[q].actor # req[r].actor)

Init ==
    /\ account = Users
    /\ conv = NoConv /\ row = NoRows /\ messages = {} /\ lastId = 0
    /\ req = [r \in Requests |-> Idle]
    /\ calls = 0
    /\ hides = Never
    /\ crossed = FALSE

\* A user sends a message, deletes the conversation its client shows, or has
\* its account deleted by an admin.
Start(r, u, step) ==
    /\ req[r] = Idle
    /\ step \in {"key", "find", "members"}
    /\ u \in account
    /\ calls < MaxCalls /\ calls' = calls + 1
    /\ step = "find" => conv # NoConv
    /\ req' = [req EXCEPT ![r] =
                 [at |-> step, actor |-> u, conv |-> IF step = "find" THEN conv ELSE NoConv,
                  pending |-> Users, hidden |-> {}, seen |-> Never, alone |-> FALSE]]
    /\ UNCHANGED <<db, past>>

----------------------------------------------------------------------------
(* A private message *)

\* findByPrivateKey
FindKey(r) ==
    /\ At(r, "key")
    /\ req' = [req EXCEPT ![r].conv = conv,
                          ![r].at = IF conv = NoConv THEN "create" ELSE "write"]
    /\ UNCHANGED <<db, calls, past>>

\* The transaction that inserts conversation and members.  It fails if another
\* first message was faster (unique key) or an account is gone (foreign key).
Create(r) ==
    /\ At(r, "create")
    /\ conv = NoConv /\ account = Users
    /\ conv' = lastId + 1 /\ lastId' = lastId + 1
    /\ row' = [u \in Users |-> "SHOWN"]
    /\ req' = [req EXCEPT ![r].conv = lastId + 1, ![r].at = "write"]
    /\ UNCHANGED <<account, messages, calls, past>>

\* findMember of the sender and of the receiver, in either order; the third
\* query, the member list, only addresses deliveries and pushes.
ReadRow(r, u) ==
    /\ At(r, "write") /\ u \in req[r].pending
    /\ req' = [req EXCEPT
         ![r].pending = @ \ {u},
         ![r].hidden = IF req[r].conv = conv /\ row[u] = "HIDDEN" THEN @ \cup {u} ELSE @,
         ![r].seen[u] = hides[u]]
    /\ UNCHANGED <<db, calls, past>>

\* Mutant: only the sender's row is restored.
RestoredSender(r) == [u \in Users |-> IF u \in req[r].hidden \cap {req[r].actor}
                                      THEN "SHOWN" ELSE row[u]]

\* restoreConversation, for the rows that were read as hidden.
Restored(r) == [u \in Users |-> IF u \in req[r].hidden /\ row[u] # "NONE"
                                THEN "SHOWN" ELSE row[u]]

\* The transaction of createPrivateMessage.  The foreign keys need the
\* conversation and the sender; the UPDATEs of the receiver's row (unread
\* counter) and of the restored ones wait for whoever holds them.
Write(r) ==
    LET u == req[r].actor IN
    /\ At(r, "write") /\ req[r].pending = {}
    /\ req[r].conv = conv /\ u \in account
    /\ \A v \in {Other(u)} \cup req[r].hidden : ~Locked(v)
    /\ row' = Restored(r)
    /\ messages' = messages \cup {[from |-> u, to |-> Other(u), seen |-> req[r].seen]}
    /\ End(r)
    /\ UNCHANGED <<account, conv, lastId, calls, past>>

----------------------------------------------------------------------------
(* Deletion by a member *)

\* The row must be there and not hidden already.
FindMember(r) ==
    /\ At(r, "find")
    /\ req[r].conv = conv /\ row[req[r].actor] = "SHOWN"
    /\ GoTo(r, "mark")
    /\ UNCHANGED <<db, calls, past>>

\* markConversationAsDeleted: takes the row's lock; others do not see it yet.
Mark(r) ==
    /\ At(r, "mark")
    /\ ~Locked(req[r].actor)
    /\ GoTo(r, "count")
    /\ Begin(r)
    /\ UNCHANGED <<db, calls, hides>>

\* Mutant: the conversation is dropped while one member still shows it.
RemainingFew(u) == {}

\* Mutant: members count as remaining although they have hidden the conversation.
RemainingHidden(u) == {v \in Users \ {u} : row[v] # "NONE"}

\* getRemainingConversations: the caller's own row counts as hidden already.
Remaining(u) == {v \in Users \ {u} : row[v] = "SHOWN"}

Count(r) ==
    /\ At(r, "count")
    /\ req' = [req EXCEPT ![r].at = "commit",
                 ![r].alone = req[r].conv # conv \/ Remaining(req[r].actor) = {}]
    /\ UNCHANGED <<db, calls, past>>

\* Mutant: the members do not go with the conversation.
DropConversationAlone ==
    conv' = NoConv /\ messages' = {} /\ UNCHANGED row

\* deleteConversation: members and messages go by cascade.
DropConversation ==
    conv' = NoConv /\ messages' = {} /\ row' = NoRows

\* deletePrivateConversation commits: nothing if the conversation has gone.
Commit(r) ==
    LET u == req[r].actor IN
    /\ At(r, "commit")
    /\ \/ /\ req[r].conv = conv /\ req[r].alone /\ ~Locked(Other(u))
          /\ DropConversation
          /\ hides' = [hides EXCEPT ![u] = @ + 1]
       \/ /\ req[r].conv = conv /\ ~req[r].alone /\ row[u] # "NONE"
          /\ row' = [row EXCEPT ![u] = "HIDDEN"]
          /\ hides' = [hides EXCEPT ![u] = @ + 1]
          /\ UNCHANGED <<conv, messages>>
       \/ /\ req[r].conv # conv \/ (~req[r].alone /\ row[u] = "NONE")
          /\ UNCHANGED <<conv, row, messages, hides>>
    /\ End(r)
    /\ UNCHANGED <<account, lastId, calls, crossed>>

----------------------------------------------------------------------------
(* Deletion of an account *)

\* The user's memberships, and the conversations nobody else is a member of.
FindLonely(r) ==
    LET u == req[r].actor IN
    /\ At(r, "members")
    /\ req' = [req EXCEPT ![r].at = "erase", ![r].conv = conv,
                 ![r].alone = row[u] # "NONE" /\ row[Other(u)] = "NONE"]
    /\ Begin(r)
    /\ UNCHANGED <<db, calls, hides>>

\* deleteUser commits: those conversations, the account, its rows by cascade,
\* and its messages lose their sender.
Erase(r) ==
    LET u == req[r].actor IN
    /\ At(r, "erase")
    /\ ~Locked(u)
    /\ account' = account \ {u}
    /\ IF req[r].alone /\ req[r].conv = conv THEN DropConversation
       ELSE /\ row' = [row EXCEPT ![u] = "NONE"]
            /\ messages' = {[m EXCEPT !.from = IF @ = u THEN Nobody ELSE @] : m \in messages}
            /\ UNCHANGED conv
    /\ End(r)
    /\ UNCHANGED <<lastId, calls, past>>

\* A call ends without effect: a check refuses it, a statement fails (a key, a
\* deadlock, a lost connection) and its transaction rolls back, or the process dies.
Fail(r) ==
    /\ req[r] # Idle
    /\ End(r)
    /\ UNCHANGED <<db, calls, past>>

Next ==
    \E r \in Requests :
        \/ \E u \in Users, step \in Step : Start(r, u, step)
        \/ FindKey(r)
        \/ Create(r)
        \/ \E u \in Users : ReadRow(r, u)
        \/ Write(r)
        \/ FindMember(r)
        \/ Mark(r)
        \/ Count(r)
        \/ Commit(r)
        \/ FindLonely(r)
        \/ Erase(r)
        \/ Fail(r)

Spec == Init /\ [][Next]_vars

----------------------------------------------------------------------------
(* Properties *)

\* Every variable stays within its type; without a conversation there are no
\* rows and no messages, and an account that is gone has no row.
TypeOK ==
    /\ account \in SUBSET Users
    /\ conv \in 0..lastId /\ lastId \in Ids \cup {NoConv}
    /\ row \in [Users -> RowState]
    /\ messages \in SUBSET Message
    /\ conv = NoConv => row = NoRows /\ messages = {}
    /\ \A u \in Users \ account : row[u] = "NONE"
    /\ req \in [Requests -> Call \cup {Idle}]
    /\ calls \in 0..MaxCalls
    /\ hides \in [Users -> 0..MaxCalls]
    /\ crossed \in BOOLEAN

\* The conversation is only dropped with the consent of everybody who wrote in
\* it: whose message goes has hidden it since, or is the one who deletes.  So a
\* message that arrives between the count of the remaining members and the DELETE
\* is not destroyed with it, because it needs the row the deletion has locked
\* (deletePrivateConversation against createPrivateMessage).  The deleter's own
\* message is not safe: it restores the other's row without waiting.
ForeignMessageSurvives ==
    [][conv # NoConv /\ conv' = NoConv =>
         \A m \in messages :
            \/ m.from = Nobody
            \/ hides[m.from] > m.seen[m.from]
            \/ \E r \in Requests : req[r] # Idle /\ req[r].actor = m.from /\ req'[r] = Idle
      ]_vars

\* A message brings the conversation back to its receiver, who can only miss it
\* by hiding the conversation after the sender's look at it (the restoration in
\* createPrivateMessage follows a row read before its transaction).
MessageIsShown ==
    \A m \in messages : row[m.to] = "HIDDEN" => hides[m.to] > m.seen[m.to]

Showing == {u \in Users : row[u] = "SHOWN"}

\* Unless two deletions overlapped (then each may take the other's user for a
\* remaining one, and nothing deletes the conversation any more), no conversation
\* is left behind without a member row; and one that somebody shows is left with
\* nobody to show it only by the deletion of the account of the one who did.  That
\* does happen: the NOT EXISTS of deleteUser counts the row of a user who has
\* hidden the conversation, the count of deletePrivateConversation does not.  So
\* hiding it is never what leaves it behind, also when the other's account has gone.
NothingIsAbandoned ==
    [][conv' # NoConv /\ ~crossed' =>
         /\ \E u \in Users : row'[u] # "NONE"
         /\ Showing # {} /\ Showing' = {} => \E u \in account \ account' : u \in Showing
      ]_vars

=============================================================================
