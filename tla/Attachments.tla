---------------------------- MODULE Attachments ----------------------------
(***************************************************************************)
(* Files of messages: presigned uploads, their claim by the transaction of *)
(* a message (storage.service.ts, createPrivateMessage and                 *)
(* createGroupMessage of message.service.ts), and the three that delete    *)
(* messages with their files: a user's request (deleteMessages of the      *)
(* controller), the nightly job (delete-messages.job.ts) and the deletion  *)
(* of an account (deleteUser of admin.service.ts).                         *)
(*                                                                         *)
(* The object store R2 takes no part in transactions: objects are looked   *)
(* up and deleted while database transactions are open, and any of these   *)
(* may fail between two steps.  One user uploads, every message has one    *)
(* attachment, and all are in one conversation.  Assumed: no transaction   *)
(* stays open for the two days after which messages are cleaned up.        *)
(***************************************************************************)
CONSTANTS
    Messages,   \* the messages that may be posted: bounds the behaviours
    Keys,       \* the storage keys that may be handed out, likewise
    Plans       \* which keys the clients' messages may name, likewise

ASSUME PlansType == Plans \subseteq [Messages -> Keys]

VARIABLES
    pending,       \* key |-> its pending_uploads row
    urls,          \* the keys whose presigned URL is still accepted
    objects,       \* the keys with an object in R2
    post,          \* message |-> how far its transaction is, and the key it names
    old,           \* the messages older than MAX_MESSAGE_AGE_DAYS
    conversation,  \* whether the conversation exists
    deletion,      \* one deletion in flight of each kind
    doomed,        \* history: the messages some deletion has read to delete them
    met            \* history: pairs of messages whose transactions overlapped

store == <<pending, urls, objects>>
past  == <<doomed, met>>
vars  == <<store, post, old, conversation, deletion, past>>

----------------------------------------------------------------------------
Upload == {"NONE", "VALID", "EXPIRED", "CLAIMED"}   \* CLAIMED: the row is deleted
Phase  == {"NEW", "find", "head", "commit", "REFUSED", "STORED", "DELETED"}
Kinds  == {"request", "job", "account"}

InTransaction(m) == post[m].at \in {"find", "head", "commit"}
Stored           == {m \in Messages : post[m].at = "STORED"}
KeysOf(ms)       == {post[m].key : m \in ms}
SetAt(ms, at)    == [m \in Messages |-> IF m \in ms THEN [post[m] EXCEPT !.at = at]
                                        ELSE post[m]]

\* A deletion: the messages its DELETE will match, and those it has read, whose
\* keys it deletes.
Idle     == [at |-> "IDLE", scope |-> {}, read |-> {}]
Deletion == [at: {"IDLE", "read", "files", "rows"},
             scope: SUBSET Messages, read: SUBSET Messages]

Init ==
    /\ pending = [k \in Keys |-> "NONE"]
    /\ urls = {} /\ objects = {}
    /\ \E plan \in Plans : post = [m \in Messages |-> [at |-> "NEW", key |-> plan[m]]]
    /\ old = {}
    /\ conversation = TRUE
    /\ deletion = [d \in Kinds |-> Idle]
    /\ doomed = {} /\ met = {}

----------------------------------------------------------------------------
(* Uploads *)

\* prepareUploads: a pending row for 24 hours and a URL for ten minutes.
PrepareUpload(k) ==
    /\ pending[k] = "NONE" /\ k \in KeysOf(Messages)
    /\ pending' = [pending EXCEPT ![k] = "VALID"]
    /\ urls' = urls \cup {k}
    /\ UNCHANGED <<objects, post, old, conversation, deletion, past>>

\* The client puts the object, as often as it likes while the URL is accepted.
PutObject(k) ==
    /\ k \in urls \ objects
    /\ objects' = objects \cup {k}
    /\ UNCHANGED <<pending, urls, post, old, conversation, deletion, past>>

UrlExpires(k) ==
    /\ urls' = urls \ {k}
    /\ k \in urls
    /\ UNCHANGED <<pending, objects, post, old, conversation, deletion, past>>

\* The row stays where it is: nothing calls deleteExpired.
UploadExpires(k) ==
    /\ pending[k] = "VALID" /\ k \notin urls
    /\ pending' = [pending EXCEPT ![k] = "EXPIRED"]
    /\ UNCHANGED <<urls, objects, post, old, conversation, deletion, past>>

----------------------------------------------------------------------------
(* The transaction of a message *)

StartPost(m) ==
    /\ post[m].at = "NEW"
    /\ post' = SetAt({m}, "find")
    /\ met' = met \cup {{m, n} : n \in {n \in Messages : InTransaction(n)}}
    /\ UNCHANGED <<store, old, conversation, deletion, doomed>>

\* Mutant: a pending row that is not there any more is not missed.
FindUploadUnchecked(m) ==
    /\ post[m].at = "find"
    /\ post' = SetAt({m}, "head")
    /\ UNCHANGED <<store, old, conversation, deletion, past>>

\* processMessageAttachments: the pending row is found and in date ...
FindUpload(m) ==
    /\ post[m].at = "find"
    /\ pending[post[m].key] = "VALID"
    /\ post' = SetAt({m}, "head")
    /\ UNCHANGED <<store, old, conversation, deletion, past>>

\* Mutant: the object is taken for granted.
HeadObjectSkipped(m) ==
    /\ post[m].at = "head"
    /\ post' = SetAt({m}, "commit")
    /\ UNCHANGED <<store, old, conversation, deletion, past>>

\* ... and the object is there (objectExists).
HeadObject(m) ==
    /\ post[m].at = "head"
    /\ post[m].key \in objects
    /\ post' = SetAt({m}, "commit")
    /\ UNCHANGED <<store, old, conversation, deletion, past>>

\* Mutant: deleteById is left out.
CommitPostUnclaimed(m) ==
    /\ post[m].at = "commit"
    /\ conversation
    /\ post' = SetAt({m}, "STORED")
    /\ UNCHANGED <<store, old, conversation, deletion, past>>

\* Message, attachment and the end of the pending row are committed together.
\* That DELETE does not mind finding nothing: another transaction may have
\* claimed the upload since FindUpload.
CommitPost(m) ==
    /\ post[m].at = "commit"
    /\ conversation
    /\ post' = SetAt({m}, "STORED")
    /\ pending' = [pending EXCEPT ![post[m].key] = "CLAIMED"]
    /\ UNCHANGED <<urls, objects, old, conversation, deletion, past>>

\* A check throws, a statement or R2 fails: the transaction rolls back.
RefusePost(m) ==
    /\ InTransaction(m)
    /\ post' = SetAt({m}, "REFUSED")
    /\ UNCHANGED <<store, old, conversation, deletion, past>>

\* Two days pass.
GrowOld(m) ==
    /\ m \in Stored \ old
    /\ old' = old \cup {m}
    /\ UNCHANGED <<store, post, conversation, deletion, past>>

----------------------------------------------------------------------------
(* Deletions *)

\* Bound: besides the job one of the others at a time.
Begin(d, scope) ==
    /\ deletion[d].at = "IDLE"
    /\ d = "job" \/ \A e \in Kinds \ {"job"} : deletion[e].at = "IDLE"
    /\ deletion' = [deletion EXCEPT ![d] = [at |-> "read", scope |-> scope, read |-> {}]]
    /\ UNCHANGED <<store, post, old, conversation, past>>

\* The cutoff is computed once, and used for the list and for the DELETE.
BeginJob == Begin("job", old)

\* A user names messages, which its client shows (of whatever sender).
BeginRequest == \E ms \in SUBSET Stored \ {{}} : Begin("request", ms)

\* The conversation of a deleted account in which nobody else remains: all its
\* messages, those of transactions still open included.
BeginAccount == conversation /\ Begin("account", Messages)

\* Mutant: a message that a failed night has read is not read again.
ReadMessagesOnce(d) ==
    LET read == (Stored \cap deletion[d].scope) \ doomed IN
    /\ deletion[d].at = "read"
    /\ IF read = {} /\ d # "account"
       THEN deletion' = [deletion EXCEPT ![d] = Idle]
       ELSE deletion' = [deletion EXCEPT ![d].read = read,
                           ![d].at = IF d = "request" THEN "rows" ELSE "files"]
    /\ doomed' = doomed \cup read
    /\ UNCHANGED <<store, post, old, conversation, met>>

\* findMessagesToCleanup, deleteMessages and deleteUser read messages and keys.
\* Without messages the job is over; a request would match nothing either.
ReadMessages(d) ==
    LET read == Stored \cap deletion[d].scope IN
    /\ deletion[d].at = "read"
    /\ IF read = {} /\ d # "account"
       THEN deletion' = [deletion EXCEPT ![d] = Idle]
       ELSE deletion' = [deletion EXCEPT ![d].read = read,
                           ![d].at = IF d = "request" THEN "rows" ELSE "files"]
    /\ doomed' = doomed \cup read
    /\ UNCHANGED <<store, post, old, conversation, met>>

\* deleteFiles: the answer lists objects that were not deleted, which is not
\* looked at.
DeleteFiles(d) ==
    /\ deletion[d].at = "files"
    /\ \E ks \in SUBSET KeysOf(deletion[d].read) : objects' = objects \ ks
    /\ deletion' = [deletion EXCEPT ![d] = IF d = "request" THEN Idle
                                           ELSE [@ EXCEPT !.at = "rows"]]
    /\ UNCHANGED <<pending, urls, post, old, conversation, past>>

\* Mutant: the job computes its cutoff anew.
MatchedNow(d) == Stored \cap (IF d = "job" THEN old ELSE deletion[d].scope)

\* The messages the DELETE finds, by date, by id or by cascade.
Matched(d) == Stored \cap deletion[d].scope

\* The rows go, attachments and deliveries by cascade.
DeleteRows(d) ==
    /\ deletion[d].at = "rows"
    /\ post' = SetAt(Matched(d), "DELETED")
    /\ conversation' = (conversation /\ d # "account")
    /\ deletion' = [deletion EXCEPT ![d] = IF d = "request" THEN [@ EXCEPT !.at = "files"]
                                           ELSE Idle]
    /\ UNCHANGED <<store, old, past>>

\* A step fails or the process dies: the job ends until the next night, the
\* request is answered with an error, the transaction of deleteUser rolls back.
Abort(d) ==
    /\ deletion[d].at # "IDLE"
    /\ deletion' = [deletion EXCEPT ![d] = Idle]
    /\ UNCHANGED <<store, post, old, conversation, past>>

\* The members delete the conversation (deletePrivateConversation, deleteGroup):
\* its messages go by cascade, and nobody deletes their objects.
DropConversation ==
    /\ conversation
    /\ conversation' = FALSE
    /\ post' = SetAt(Stored, "DELETED")
    /\ UNCHANGED <<store, old, deletion, past>>

Next ==
    \/ \E k \in Keys : \/ PrepareUpload(k) \/ PutObject(k)
                       \/ UrlExpires(k) \/ UploadExpires(k)
    \/ \E m \in Messages : \/ StartPost(m) \/ FindUpload(m) \/ HeadObject(m)
                           \/ CommitPost(m) \/ RefusePost(m) \/ GrowOld(m)
    \/ BeginJob \/ BeginRequest \/ BeginAccount
    \/ \E d \in Kinds : ReadMessages(d) \/ DeleteFiles(d) \/ DeleteRows(d) \/ Abort(d)
    \/ DropConversation

Spec == Init /\ [][Next]_vars

\* The job runs every night (cron.schedule), and no step of it fails every night.
FairSpec ==
    /\ Spec
    /\ WF_vars(BeginJob)
    /\ SF_vars(ReadMessages("job"))
    /\ SF_vars(DeleteFiles("job"))
    /\ SF_vars(DeleteRows("job"))

----------------------------------------------------------------------------
(* Properties *)

\* Every variable stays within its type.  A pending row goes exactly when the
\* message that claims it is committed, never with one that is refused.
TypeOK ==
    /\ pending \in [Keys -> Upload]
    /\ urls \subseteq Keys /\ objects \subseteq Keys
    /\ post \in [Messages -> [at: Phase, key: Keys]]
    /\ \A k \in Keys : pending[k] = "CLAIMED" <=>
           \E m \in Messages : post[m].at \in {"STORED", "DELETED"} /\ post[m].key = k
    /\ old \subseteq Messages
    /\ conversation \in BOOLEAN
    /\ deletion \in [Kinds -> Deletion]
    /\ doomed \subseteq Messages
    /\ met \subseteq SUBSET Messages

\* Two messages share an object only if their transactions overlapped: the
\* pending row, deleted by the first, keeps all others from naming it
\* (processMessageAttachments).  Overlapping ones do share it, since nothing
\* locks the row and the number of rows deleted is not looked at.
SharedOnlyByOverlap ==
    \A m, n \in Messages :
        LET Claimed(i) == post[i].at \in {"STORED", "DELETED"} IN
        m # n /\ Claimed(m) /\ Claimed(n) /\ post[m].key = post[n].key => {m, n} \in met

\* A message keeps its file as long as nobody has set out to delete it: it is
\* not stored without the object, and the deletion of other messages does not
\* touch it, unless they share the object.  A deletion that fails half-way may
\* leave its own messages without files (deleteFiles before the rows).
AttachmentHasFile ==
    \A m \in Stored \ doomed :
        \/ post[m].key \in objects
        \/ \E n \in doomed : post[n].key = post[m].key

\* The job and the request delete no row whose key they have not read
\* before: no file is left in R2 because its message became old, or was stored,
\* between the list and the DELETE (one cutoff in delete-messages.job.ts).  The
\* deletion of a whole conversation is not so careful.
NoRowUnread ==
    [][\A m \in Stored : post'[m].at = "DELETED" /\ conversation' => m \in doomed]_vars

\* Every message older than two days is deleted in the end, whatever else fails
\* or overlaps: a night that fails leaves all it needs to the next one.
OldMessagesGo == \A m \in Messages : m \in old /\ m \in Stored ~> m \notin Stored

=============================================================================
