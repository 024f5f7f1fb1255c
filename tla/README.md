# Verification of messinger-backend

TLA+ specifications of the messaging backend in `src/`, checked with TLC on small
instances and, where marked, proved with TLAPS for every value of the constants.

The program is one Node.js process: an Express REST API and a WebSocket server
(`ws`) over a PostgreSQL database (TypeORM, READ COMMITTED), object storage
(Cloudflare R2), web push, and a nightly job. JavaScript runs one handler at a time,
but every `await` lets others run. What is hard in this code is therefore

* decisions taken from rows read before a transaction that does not read them again;
* state kept in memory (the connection maps) that changes between two awaits;
* several statements, or a statement and a send, of which only the first happens;
* a process that dies, sockets that close, and clients that vanish, at any of these points.

The repository has test directories but no tests.

## 1. Inventory

| Component | State | Operations | Talks to | Correct when | Model |
|---|---|---|---|---|---|
| Group membership (`conversation.service`, member and invitation repositories) | `conversations`, `conversation_members`, `group_invitations`, `conversation_events` rows | create, invite, accept, reject, leave, remove, transfer, delete; deletion of accounts | DB; notifications through `groupEvents` | a group keeps an owner as long as owners keep their accounts; nobody enters uninvited; history explains members; a deleted group is gone | `GroupMembership`, `GroupOwnership` |
| Private conversations (`conversation.service`, `message.service`) | `conversations` with a unique key, member rows with `softDeletedAt` | get or create, delete for one side, restore on a new message | DB | gone when both sides deleted it, not before; a new message shows it again | `PrivateConversation` |
| Group messages and deliveries (`message.service`, handlers) | `messages`, `message_deliveries`, `unreadCount` | post, push, confirm, reset, delete | DB, connection manager | no message missed; counters never count too much | `MessageDelivery` |
| Offline synchronisation (`offline-sync.service`) | none of its own | send pending messages and invitations when a connection authenticates | DB, connection manager | what waited arrives | `MessageDelivery` (messages) |
| WebSocket connections (`websocket-server`, `connection-manager`) | the two maps, flags and timers per connection | open, authenticate (cookie or message), time out, ping, close | sessions, synchronisation, presence | each device reached under its user; strangers and dead peers closed | `Connections` |
| Presence (`presence-handler`) | `lastSeenAt` | announce arrival, departure | connection manager, DB | departure announced once, with the last device | `Connections` (departures) |
| Sessions (`middlewares/auth`, `session.repository`, `auth.service`) | `user_sessions` rows, JWTs, cookies | sign in, rotate, revoke, log out | DB | parallel requests keep a session alive; revoked stays revoked | `Sessions` |
| Attachments (`storage.service`) | `pending_uploads`, `message_attachments`, objects | prepare, claim, delete | DB, R2 | an upload is claimed once; a message keeps its file | `Attachments` |
| Cleanup job (`delete-messages.job`) | none | delete objects, then rows, of old messages | R2, DB | old messages go in the end; no row goes unread | `Attachments`; deliveries in `MessageDelivery` |
| Push (`push-subscription`, `push-notification`) | `push_subscriptions` | subscribe, send, drop dead endpoints | DB, push service | one row per endpoint; a live subscription stays | `PushSubscriptions` |
| Administration (`admin.service`) | users | delete accounts, restore keys | DB, R2 | no conversation left without members | account deletion in `GroupMembership`, `PrivateConversation`, `Attachments`, `Sessions`, `PushSubscriptions` |
| Group notifications, dispatch, typing, routes, validation, logging, configuration, migrations | none that others read | | | | not modelled (section 6) |

`PROJECT.json` lists the same components with their files, and under `hazards`
each place in the code where these difficulties bite, with the properties that
cover it or the reason why none does.

## 2. Modules

Each module is one component with the rows, the memory and the handlers in flight
that its operations meet. A handler is cut at its awaits: what runs between two of
them is one action, and every other handler may run in between. A transaction
without reads is serializable by its row locks and one step; one that reads inside
is several steps, with the locks it holds until it commits.

### GroupMembership

One group. `accounts` are the users rows, `member`, `invitations`, `events` the group's
rows by user, `group` whether the conversation row exists, `req` the service calls in
flight, `invited` (history) for whom an invitation was ever written.

* A call is made (`Start`) and awaits the SELECTs of its `Promise.all` (`Queries`).
* Each SELECT is answered from the database of that moment (`Answer`), in any order,
  and must pass the call's checks (`ActorPasses`, `TargetPasses`, `Passes`); of the
  answer the call keeps only what its write depends on (`Told`).
* With all answers the call writes, in one action per method: `Invite`, `Join`,
  `Rejoin`, `Reject`, `MarkExpired`, `Leave`, `Remove`, `Transfer`, `DeleteGroup`.
  A write that names a deleted group is refused by a foreign key (`Stored`), one of a
  member row or an invitation also if it names a deleted account; events have no
  foreign key to users. An UPDATE that finds no row does nothing (`SetRole`,
  `SetRemoved`).
* `DeleteUser` is `deleteUser` of `admin.service.ts`, for any user. Its transaction asks
  for the conversations of the user ("memberships"), then which of them nobody else has
  a row of ("others"); what it found is `wasAlone`. Its commit drops the group in that
  case (`DropGroup`), and the account with its member row and the invitations to and by
  the user, by cascade (`DropRowsOf`). Calls of the user in flight go on.
* `Fail` is a refused check, a failing statement, or the death of the process;
  `Expire` is the passing of the 24 hours of an invitation.

Abstracted: names and times (`softDeletedAt` is null or not, an invitation is past
its date or not); accepted and rejected invitations, which no code distinguishes,
are both ANSWERED; notifications.

### GroupOwnership and GroupRefinement

`GroupOwnership` is what the calls promise the users of a group: a group is created by
one owner, others are admitted and depart, the ownership passes between users who are in
the group, users vanish with their accounts, the group dissolves as a whole. It knows no
rows, invitations, answers or transactions. Only a group with an owner changes hands or
is dissolved; one whose owner has vanished ends with its last member's account.
`GroupRefinement` maps the rows to it (`owners` are the rows with the role OWNER,
`present` those not soft-deleted, `gone` the users without an account) and states
`ImplementsOwnership`: one call at a time, each call is one of these steps or none.

### MessageDelivery

The messages of one group. `status` is the delivery row of each message and user,
`unread` the counters, `post`, `sync` and `confirm` the handlers in flight with what
they have read, `conn` what the server has of a connection and whether bytes sent on
it arrive, `inbox`, `received` and `caughtUp` (history variables) what the clients
got and on which connections a synchronisation has been through, `setBack` and `misread`
(history) which deliveries carry the mark of a confirmation no proper client sends.

* Posting (`PostStart` to `PostSend`) reads the sender and the members one by one,
  commits one transaction, and pushes in a loop without await.
* `Connect` attaches and starts `syncPendingMessages`: three queries, `SyncQuery`,
  `SyncLoad` (and send), `SyncMark`. It may happen again on an attached connection,
  whose client sends another token, and may come too late for its socket.
* `Confirm...` are the SELECT, the reset of the counter and the UPDATE of
  `confirmDelivery`. As far as the schema goes, the status is any of the three, SENT
  included, and the conversation (`named`) need not be the message's own.
* `Drop` are clients that vanish and sockets that begin to close (several at once in
  the heartbeat), `Disconnect` the close listener, `Crash` a restart.
* What `Connect`, `SyncFail`, `Drop`, `Disconnect` and `Crash` do to `conn` are the
  actions of `Devices` (the instance `Line`).
* `Leave` and `Rejoin` are what GroupMembership does to the members, seen from here;
  `DeleteMessage` is what Attachments does to the messages.

Abstracted: contents and encryption, the conversation row's last message,
`deliveredAt`/`readAt`; private messages, whose deliveries are written the same way.
Other conversations are seen by what they do to this one: a READ of one of their
messages that names this conversation is a `ResetUnread`. A client presents the tokens
of one user (`Owner`).

### Connections

The server's side of each WebSocket. `registered`, `userOf` and `userConns` are the
connection manager; `handler`, `tokenMsg`, `authenticated` and `timer` the local
state of the connection handler; `socket`, `peer`, `isAlive` the wire; `leaving`
the departures being announced.

* `Open` to `CookieFailed` are the connection handler cut at its awaits; the
  listeners for messages and for the close exist only in `handler = "listening"`.
* `TokenArrives` to `TokenFailed` are an AUTH_TOKEN_SENT message, `Timeout` the
  10 s timer, `Heartbeat` the 30 s interval over all sockets.
* `CloseEvent` runs the close listener if there is one (`OnClose`, `Unregister`).
* `Crash` empties all maps.

Abstracted: one AUTH_TOKEN_SENT message per connection is processed at a time;
sessions are a set of users whose tokens the client presents (`Tokens`); a
connection id may stand for a new connection once nothing of the old one is left
(the code draws a new UUID). `Connections` treats the synchronisation as an await;
`MessageDelivery` treats everything before `attachUser` as one step.

### Devices and ConnectionDevices

`Devices` is what the message handlers may count on of connections, without cookies,
tokens, timers, pings or maps: a connection is not listed under a user, listed and
delivering, or listed and stale (`conn`), and on some a synchronisation is under way
(`syncing`). `ConnectionDevices` maps the state of `Connections` to it (listed is what
`getUserConnections` returns, delivering is an open socket with a peer) and states
`ImplementsDevices`; `MessageDelivery` does its connection steps with the actions of
`Devices`. The two modules meet there: what is shown of messages holds for
connections that come and go as in `Connections`. Two limits: in `Connections` the
synchronisation includes that of invitations, in `MessageDelivery` it ends with the
messages (a failure after that which closes the socket is a `Drop`); and
`Connections` also has clients that present tokens of several users.

### Sessions

REST authentication. `row` are the `user_sessions` rows, `jar` the tokens each
client holds, `req` the requests in flight with the token they brought and the one
they were issued, `stale` and `age` how far tokens and sessions have expired.

* Tokens are numbered by the rotation that made them: the hash in the row is that of
  token `current`, the previous hash that of `current - 1`, and `grace` says that
  `rotatedAt` is within `REFRESH_ROTATION_GRACE_PERIOD`.
* `Send` is a request with the tokens the client holds; a fresh access token goes
  straight to the controller. `FindSession` reads the row and makes all checks of
  `authenticate` on it (`Verdict`); what follows is a step of its own:
  `RevokeAllSessions`, `ExpireSession`, the catch block (`Caught`), or
  `rotateSession` under the row lock (`ReturnRotated`, `RefuseRotation`,
  `RotateSession`, and `RotateUnacknowledged`, a COMMIT whose answer is lost).
* `LogoutFinds` and `LogoutWrites` are the controller of logout; `Receive` is the reply
  at the client, in any order; `Lose` a request or reply that never arrives.
* `GraceEnds`, `AccessExpires` and `Age` are time; `DeleteUser` the cascade.

Abstracted: hashes and JWT contents; a request's claims other than its token. Assumed
of the configuration: an access token outlives the five seconds of grace.

### PrivateConversation

The one conversation two different users (`TwoUsers`) can have. `conv` is the id
stored under their private key, `row` their member rows, `req` the calls in flight.

* A message looks the key up (`FindKey`), inserts conversation and members if there
  are none (`Create`, refused by the unique key if another was faster), reads both
  member rows (`ReadRow`) and commits (`Write`), restoring rows it had read as hidden.
* `FindMember`, `Mark`, `Count` and `Commit` are `deletePrivateConversation` and its
  transaction: the UPDATE holds the caller's row (`Locked`), the count sees only what
  others have committed, the DELETE takes rows and messages by cascade.
* `FindLonely` and `Erase` are the part of `deleteUser` that meets conversations.

A user's conversation with itself, which the code does not refuse, is left out.
`hides` and `crossed` are history: how often a user has hidden the conversation, and
whether two deletions have overlapped.

### Attachments

Files of the messages of one conversation. `pending` are the `pending_uploads` rows,
`urls` the presigned URLs still accepted, `objects` the objects in R2, `post` the
messages and how far the transaction that stores each has come.

* `PrepareUpload`, `PutObject`, `UrlExpires`, `UploadExpires` are an upload.
* `StartPost`, `FindUpload`, `HeadObject`, `CommitPost` are
  `processMessageAttachments` in the transaction of a message.
* A deletion (`deletion`) is the nightly job, a request, or the deletion of an
  account: `ReadMessages`, `DeleteFiles` (of which R2 may leave any out, since the
  answer is not looked at), `DeleteRows`, in the order of each; `Abort` at any step.
* `DropConversation` is the cascade when members delete the conversation.

`doomed` and `met` are history: messages some deletion has read, and pairs of
messages whose transactions overlapped.

### PushSubscriptions

`rows` are the `push_subscriptions` rows; `req` the `subscribeWeb` transactions,
which are SERIALIZABLE: `FindEndpoint` takes the snapshot, and `CreateSubscription` or
`UpdateSubscription` commits only if the endpoint's rows have not changed since
(`changed`). `SendToUser`, `PushAnswered` and `RemoveInvalidSubscription` are a push and
the removal of an endpoint reported 404 or 410; `dead` are the endpoints the push
service no longer knows, `wanted` (history) those confirmed to a browser and not
given up.

### MC modules and proof modules

`MC...` give the constants of a module their values and define its symmetry sets.
The eight modules `...Proofs` hold the theorems, each about the module it is named
after. Operators introduced by a comment "Mutant" are wrong variants of the definition
that follows them, with a bug the code might have had; no specification uses them.
They document which error each property detects.

## 3. What TLC checks

| Run | Instance | Shows |
|---|---|---|
| `GroupConcurrent` | 3 users, 2 call slots, 6 calls, deletions of accounts among them (2.1 million states) | however two calls overlap, a stored group loses its last owner only with an account (`OwnerRemains`), and `JoinNeedsInvitation`, `HistoryExplainsMembership`, `DeletedStaysEmpty` |
| `GroupSequential` | 3 users, 1 slot, 8 calls (690 thousand states) | without overlap there is exactly one owner, who is present, or none since an account went (`SoleActiveOwner`), no account takes the last member row along and leaves the group (`GroupIsNotAbandoned`), a member who was never out is not offered the group (`MemberIsNotOffered`), and the calls implement `GroupOwnership` (`ImplementsOwnership`) |
| `GroupOwnerRemoved` | 2 users, 2 slots, 4 calls | violated: an overlapping removal makes the owner a removed member |
| `DeliveryTwoDevices` | 1 message, 2 connections of one user, 1 confirmation at a time, fair server (610 thousand states) | `UnreadIsOwed`: a counter never counts a message twice, nor one that was read in the name of its conversation; `NoMessageFallsBetween` push and synchronisation; `PendingReachesDevice` |
| `DeliveredUnseen` | the same without fairness, 1 connection | violated: DELIVERED without receipt |
| `ConnRouting` | 2 connections, one presents the tokens of two users (80 thousand states) | `EveryDeviceIsReached` under its user; the connections implement `Devices` (`ImplementsDevices`) |
| `ConnClosing` | 2 connections of one user, fair server | `LastCloseAnnounces`, `UnauthenticatedIsClosed`, `DeadPeerIsClosed` |
| `ConnGhost` | as above, no fairness | violated: a closed socket stays registered |
| `SessionsParallel` | 2 sessions of one user, 3 requests at once, 2 rotations (2.4 million states) | `PromptClientKeepsSession`, `SuspicionHasCause`, `NoTokensAfterRevocation`, `LogoutEndsSession` |
| `PrivateOverlap` | 2 users, 3 calls at once, 6 calls (920 thousand states) | `MessageIsShown`, `ForeignMessageSurvives`, and, unless deletions overlap, that no conversation is left without member rows, and none with nobody to show it but by the deletion of the account that did (`NothingIsAbandoned`) |
| `AttachmentsDeleted` | 2 messages, 2 uploads, all deletions, fair job | `SharedOnlyByOverlap`, `AttachmentHasFile`, `NoRowUnread`, `OldMessagesGo` |
| `PushSameEndpoint` | 2 users, 2 endpoints, 2 calls at once, 3 rows | `OneRowPerEndpoint`, `LiveSubscriptionStays` |

Each module's `TypeOK` is checked in one run. All runs turn deadlock checking off:
bounds on calls, requests, messages and rows end a behaviour, and a system whose
clients are silent may rest.

**Bounds.** Transfer against transfer needs an owner and two members, hence 3 users;
6 calls are two invitations, two joins and two overlapping calls; a conflict is
between two calls, as every property speaks of one user or one row at a time. In
MessageDelivery the interesting pairs are device against device and push against
synchronisation, for which one message is enough; that messages do not disturb each
other at the counter is proved for any number of them (section 4). In Connections the
maps relate one connection to one or two users, and two devices are the least that
have a last one. In Sessions three requests are the least with which one rotates,
one returns the rotated tokens and one revokes or logs out; two rotations let a late
reply of the first meet the second; two sessions show that suspicion spreads. In
PrivateConversation three calls let two deletions and a message overlap, and the six
calls include the earlier messages and deletions that prepare the rows. In Attachments
two messages are the least that share an upload; besides the job one other deletion
runs at a time. In PushSubscriptions a third row lets an endpoint return after it was
removed; a second endpoint and a second user are there because a push goes to all
endpoints of a user, and rows go with their first user.

**Symmetry** is used in safety runs only, over sets no property singles out.

**Fairness.** In MessageDelivery: the queries of a synchronisation are answered or
fail, and a push loop, which has no await, runs after its transaction. In
Connections: awaited queries end one way or another, timers and intervals fire, a
closing socket gets closed (`ws` destroys it after a while if the peer is silent). In
Attachments: the job starts again whenever it has ended and there is a night to come
(weak fairness of `BeginJob`), and no step of it fails every night (strong fairness of its
three steps, which an `Abort` may prevent any finite number of times in a row).
Clients, the network, failures and crashes have no fairness: nothing needs them to
act, and no property depends on their not acting beyond what it says.

**Found.** The two violations among the connection and delivery runs have a common
root: what the connection manager lists need not be a live socket. The listeners are
installed after awaits, and `sendMessage` says nothing when it does not send. The
group violation is a check-then-act: the role tested before the transaction is not
tested in it. `GroupOwnerRemoved` finds it with transfer against `leaveGroup` and also
with transfer against `removeGroupMember`, which the REST API does expose.

**What the properties except.** Where the code does something questionable that
nothing in the repository speaks against, no finding is claimed; the property says
precisely what holds in spite of it:

* a token accepted after its socket was closed leaves an entry in `userConnections`
  (against the comment at `connection-manager.ts:97`): `EveryDeviceIsReached` and
  `LastCloseAnnounces` hold with it;
* a request under way while its session is revoked may still be given tokens, and a
  logout whose token was just rotated revokes nothing: `NoTokensAfterRevocation`,
  `LogoutEndsSession`;
* any failed statement of `authenticate` ends the session as INVALID:
  `PromptClientKeepsSession` excepts such sessions (`disturbed`);
* the account of a group's owner can be deleted, which leaves the group without one; so
  does a transfer whose target's account goes between the look and the writes, which
  demote one row and find no other to promote: `OwnerRemains`;
* deletions of all members' accounts that overlap can leave a group without any row:
  `GroupIsNotAbandoned` is checked with one call at a time;
* two deletions that overlap leave a private conversation nobody shows; so does, without
  any overlap, one member who hides it and the deletion of the other's account, since the
  NOT EXISTS of `deleteUser` (`admin.service.ts:44`) counts the row of who has hidden it:
  `NothingIsAbandoned`;
* a client may set its delivery back to SENT, which then waits for the next
  synchronisation, or mark it READ in the name of another conversation, whose counter is
  reset in place of this one: `NoMessageFallsBetween`, `UnreadIsOwed`;
* a message the deleter sends meanwhile from a second device is destroyed:
  `ForeignMessageSurvives`;
* two messages that claim an upload at once share it, and the deletion of one takes
  the file of both: `SharedOnlyByOverlap`, `AttachmentHasFile`;
* a failed deletion may leave messages without files, since objects go first; the
  comment in `delete-messages.job.ts` says such a failure does not affect the
  outcome, but the job aborts and tries again the next night: `OldMessagesGo`.

## 4. What is proved

All theorems hold for every value of the constants: any sets of users (but two in a
private conversation), messages, uploads, endpoints, sessions and connections, any
number of calls in flight, and any bound on the calls. Each property below was an
invariant, or an action property, of a run before it was proved, and so were the
inductive invariants.

| Module | Assumes |
|---|---|
| `GroupMembership` | `MaxCalls \in Nat` |
| `MessageDelivery` | finitely many messages; each connection has an owner |
| `Connections` | finitely many connections; tokens are users' tokens; `Nobody` is no user |
| `Sessions` | each session has an owner; the bounds are numbers |
| `PrivateConversation` | two users, who are different; `MaxCalls \in Nat` |
| `Attachments` | each message names one upload (`Plans`) |
| `PushSubscriptions` | `MaxRows \in Nat` |

**GroupMembershipProofs.**

* `TypeCorrect`.
* `OwnerAlwaysRemains` (an action property), `JoinAlwaysNeedsInvitation`,
  `HistoryAlwaysExplains`, `DeletedAlwaysStaysEmpty`, from one inductive invariant `Safe`.
  `Transfer` demotes one row and promotes another, and if the second were gone no owner
  would be left. What saves it is that a call which was shown the target's row knows the
  target to have entered on record (`AnswersKnown`), and by the history a user who has
  entered has a row as long as the account exists. So only the target's account can be
  missing, which is the exception the property states. The invitation behind a join may
  have gone with who wrote it, hence the history `invited`. All of it needs that no call
  is in flight when the group is created, and that without a group there are no rows.
  There is one lemma per action.
* `SoleOwnerWithoutOverlap`: with a single slot (`OneSlot`), all checks a call has
  passed would pass again when it writes (`Fresh`), and then there is always exactly
  one owner, who has not been removed, or none after the account of one who owned it
  has gone. With two slots this is false, which is exactly the finding of
  `GroupOwnerRemoved`.
* `GroupNotAbandoned`, also with a single slot: what `deleteUser` has read of the members
  is still so when it commits (`KnowsAlone`, part of `Fresh`), hence it drops the group
  whenever its own user's row is the last.
* `MembersAreNotOffered`, also with a single slot: the invitation is answered in the
  step that admits, and an invitation is refused to those who are in. For a member
  who returns, `RemovedOnRecord` says that a call which was shown a removed row was
  shown one whose removal is in the history; that part holds for any number of slots.

**GroupRefinementProofs.** `GroupImplementsOwnership`: with a single slot, the
initial states map to the abstract one and every step to a step of `GroupOwnership` or
to a stutter. It rests on `SoleOwnerWithoutOverlap` and `Fresh`: a transfer is `PassOn`
because its target is still present and its actor still the only owner; a deletion of an
account is `Vanish`, and takes the group along only if nobody else has a row. Calls that
only read, invite or reject are stutters.

**MessageDeliveryProofs.**

* `TypeCorrect`. That a counter stays a number needs no more than its type; that it
  is right is the next theorem.
* `UnreadIsAlwaysOwed`. The property is not inductive: the reset and the READ of a
  confirmation are two statements, and between them the counter is 0 while the message
  is still owed, then owed no more. The invariant `Covered` bounds the counter by the
  messages that no confirmation is just about to mark READ, and says that a message
  not posted yet has no delivery rows. A READ in another conversation's name resets
  nothing here, and its message goes on to count (`misread`). The rest is counting in
  finite sets.
* `NoMessageEverFallsBetween`. The invariant `NoGap` says, of each message that is
  pending for a delivering device, which of the two will bring it: the push loop of
  its handler, which has not run, or the first synchronisation of the device, whose
  query has not been answered or has found it. Later synchronisations, failed ones
  included, take nothing back; a confirmation can, and is excepted (`AsStored`).
* `DeliveryBuildsOnDevices`: the steps of the synchronisations are steps of `Devices`
  too, or stutters, and so is everything else.

**ConnectionsProofs.**

* `TypeCorrect`.
* `EveryDeviceIsAlwaysReached`: inductive as it stands, for any tokens.
* `ConnectionsImplementDevices`: the initial states map to the abstract one and every
  step to a step of `Devices` or to a stutter, with one lemma per abstract action and
  one per handler. Besides the types it needs `TokenAfterHandler`: tokens are looked
  at only once the handler has its listeners, so the synchronisation of a cookie and
  that of a token never overlap. A connection that is opened is not listed, since
  nothing of an earlier one with its id is left (`Free`); one that is taken off the
  list was closing, since only the close listener does it.
* `LastCloseAlwaysAnnounces`, an action property, if each client presents tokens of
  one user only (`OneUserEach`): then an entry lists exactly the registered
  connections of its user (`EntriesExact`), and the count taken before `unregister`
  is 1 exactly for the last one.

**SessionsProofs.**

* `TypeCorrect`.
* `NoTokensAfterAnyRevocation`, from `RevokedGetNothing`: a request sent after the
  revocation never reaches the rotation, because the row it finds has been revoked
  before, and revocation is never taken back.
* `SuspicionAlwaysHasCause`, from `SuspicionIsJustified`: a request only sets out to
  revoke all sessions after it found its own revoked, and when it writes there is
  still a session with a cause of its own, since `revokeAllSessions` spares sessions
  that are revoked already and an account takes all its sessions along.
  `TokensAreKnown` is what keeps requests of sessions that do not exist yet out.
* `LogoutAlwaysEndsSession`: between `LogoutFinds` and `LogoutWrites` the row may be
  rotated, revoked or deleted by others; the reply with cleared cookies is sent only
  after the UPDATE, or when the token was no longer the present one, which never
  becomes present again (`TokensAreKnown`).
* `PromptClientsKeepSessions`. The invariant `Prompt` says why no order of replies sets
  a client back: tokens under way to it are always the present ones and the grace has
  not ended (`RequestPrompt`); what it holds is present, or is the previous token while
  a reply with the present one is under way (`JarPrompt`), so the grace does not end
  before that arrives unless the session counts as disturbed; and a session in its
  grace has a fresh access token, so that nothing rotates it again meanwhile.

**PrivateConversationProofs.**

* `TypeCorrect`. That the bounds suffice is a counting argument (`Counted`): every
  conversation, and every time one is hidden, is the work of a call of its own.
* `MessagesAreShown`, from `Shown`: a row that a sender has read as shown and that is
  hidden by the time it commits was hidden in between (`HiddenSinceRead`), and what a
  sender has read is never from the future (`SeenInPast`).
* `ForeignMessagesSurvive`, an action property, from `Surviving`. After the count no
  message of the other user can commit, as it needs the row the deletion has locked;
  and one committed before was, if the count found nobody, followed by its sender
  hiding the conversation, which is `Shown` again (`CountIsSafe`).
* `NothingAbandoned`, an action property, from `Kept`: unless deletions of both users
  overlap, all that are under way are one user's (`OneDeletes`), and what they have read
  of the other user's row is still true (`OtherStillThere`). So a conversation keeps a
  member row, and hiding it never leaves it with nobody who shows it; the deletion of an
  account can, and does. With overlap all of it is false.

**AttachmentsProofs.**

* `TypeCorrect`; part of it is that a pending row is CLAIMED exactly if a committed
  message names it, so the claim and the commit cannot come apart.
* `UploadsSharedByOverlap`, from `Sharing`: a transaction that has found its row
  unclaimed was open whenever somebody has claimed it since (`FoundIsUnclaimed`).
* `MessagesKeepFiles`, from `Filing`: an object is only deleted by a deletion that has
  read a message naming it (`DoomedAreRead`), and between `HeadObject` and the commit
  it does not vanish otherwise (`SeenHasFile`).
* `NoRowDeletedUnread`, an action property, from `ScopeIsOver`: job and request look
  for messages that were committed before they began, so that none joins them between
  their list and their DELETE.

**PushSubscriptionsProofs.**

* `TypeCorrect`.
* `EndpointsAreUnique`, from `SnapshotsHold`: the snapshot of a serializable
  transaction whose endpoint has not changed is still true, so an insertion that
  commits meets no row. No unique key of the table would refuse it.
* `SubscriptionsStay`, an invariant with each action that removes rows considered:
  what is confirmed goes only with its browser, its endpoint or an account.

**Only model-checked:** liveness (`PendingReachesDevice`, `UnauthenticatedIsClosed`,
`DeadPeerIsClosed`, `OldMessagesGo`), since fairness and ENABLED are out of the
prover's reach.

## 5. Plan

Several tokens of one connection at a time, with a synchronisation for each in `Devices`
and `MessageDelivery`; presence as other clients see it.

## 6. Not modelled

* **Group notifications** (`events/`, invitation handlers): sends to member lists, without
  state or acknowledgement. Read on the way: `GROUP_DELETED` iterates over member rows
  as if they were user ids (`events/group-listeners.ts:92`); `MEMBER_JOINED` is never
  emitted.
* **What other clients see of presence**, and `lastSeenAt`: PRESENCE_OFFLINE is sent
  after an UPDATE, by when the user may be back. Whether and when a departure is
  announced is modelled.
* **Dispatch, typing, errors**: a table look-up, parsing and sends.
  `member-invitation-manager` keeps a map nothing uses.
* **Routes, controllers, validation**: each route calls one service method. The route
  `POST /conversation/leave-group` runs `authorize` before `authenticate`
  (`routes/v1/index.ts:108-114`), so `leaveGroup` cannot be reached through it; the
  service method is modelled as it stands.
* **Administration other than account deletion**: listing, sign-up, passwords and login
  keys are single statements on one row. Account deletion is an action of each module
  whose rows it takes along; in `MessageDelivery`, whose deliveries have no foreign key to
  users, it is left out: the member row goes with its counter, as in a `Leave` that no
  `Rejoin` follows.
* **History pages, pagination, lists, encryption, downloads**: they only read or
  transform data.
* **Objects left in R2** by the deletion of a whole conversation, and pending rows
  past their date (`deleteExpired` is never called): modelled, but no property claims
  that R2 is ever cleaned up.
* **Configuration, logging, start-up, migrations**: run before the program or keep no
  state others read. The attribute `restoredAt` is written and never read; the status
  of an invitation never becomes `EXPIRED` (`group-invitation.repository.ts:51`
  writes `ACCEPTED`).
* **The second user of a browser** keeps updating the push row of the first
  (`push-subscription.repository.ts:39`): modelled in `UpdateSubscription` and
  `DeleteUser`, with no property, as nothing says whose row it should be.
