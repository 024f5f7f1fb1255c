----------------------- MODULE MessageDeliveryProofs -----------------------
(* Proofs about MessageDelivery, for every set of users, of connections and *)
(* of confirmations in flight, and every finite set of messages.            *)
EXTENDS MessageDelivery, FiniteSetTheorems, TLAPS

----------------------------------------------------------------------------
(* The inductive invariant.  UnreadIsOwed alone is not inductive: between the *)
(* reset of a READ confirmation and its UPDATE, other posts raise the counter *)
(* again, and the UPDATE then takes a message from those owed.  The count is  *)
(* therefore bounded by the messages no such UPDATE is about to take, and the *)
(* UPDATE cannot be about a message whose increment is yet to come.           *)

AboutToRead(k, m, u) ==
    /\ confirm[k].pc = "update" /\ confirm[k].status = "READ" /\ confirm[k].named
    /\ confirm[k].msg = m /\ confirm[k].user = u

Counted(u) ==
    {m \in Messages : Uncleared(m, u) /\ \A k \in Confirms : ~AboutToRead(k, m, u)}

CounterIsCovered == \A u \in Users : unread[u] <= Cardinality(Counted(u))

\* Nobody has, or confirms, a message that is not committed yet.
UnpostedIsUnknown ==
    \A m \in Messages :
        post[m].pc \in {"idle", "reading"} =>
            /\ m \notin stored
            /\ \A u \in Users : /\ status[m][u] = "NONE" /\ m \notin received[u]
                               /\ <<m, u>> \notin misread
            /\ \A k \in Confirms : confirm[k].pc # "idle" => confirm[k].msg # m

Covered == CounterIsCovered /\ UnpostedIsUnknown

----------------------------------------------------------------------------
(* Facts about the model's operators *)

\* Sending grows what the recipients have, and by these messages only.
LEMMA SendFacts ==
    ASSUME TypeOK, NEW cs, NEW ms \in SUBSET Messages, SendTo(cs, ms)
    PROVE  /\ inbox' \in [Conns -> SUBSET Messages]
           /\ received' \in [Users -> SUBSET Messages]
           /\ \A u \in Users : received'[u] \subseteq received[u] \cup ms
BY DEF SendTo, TypeOK

\* A handler that posts has a full record, and a step of it leaves one.
LEMMA PostFacts ==
    ASSUME TypeOK, NEW m \in Messages, post[m].pc # "idle"
    PROVE  /\ post[m] \in Post
           /\ \A p \in {"reading", "stored", "done"} :
                [post[m] EXCEPT !.pc = p] \in Post
           /\ \A p \in SUBSET {"member", "members"} :
                [post[m] EXCEPT !.pending = p] \in Post
           /\ \A p \in SUBSET {"member", "members"}, t \in SUBSET Users :
                [post[m] EXCEPT !.pending = p, !.to = t] \in Post
<1>1. post[m] \in Post
  BY DEF TypeOK, NoPost
<1> QED
  BY <1>1 DEF Post

LEMMA PostUpdateType ==
    ASSUME TypeOK, NEW m \in Messages, NEW p \in Post, post' = [post EXCEPT ![m] = p]
    PROVE  post' \in [Messages -> Post \cup {NoPost}]
BY DEF TypeOK

LEMMA SyncFacts ==
    ASSUME TypeOK, NEW c \in Conns
    PROVE  /\ NoSync \in Sync
           /\ \A p \in {"idle", "query", "load", "mark", "failed"} :
                [sync[c] EXCEPT !.pc = p] \in Sync
BY DEF TypeOK, Sync, NoSync

\* Connections that deliver no more lose what is known of their clients.
LEMMA ForgetFacts ==
    ASSUME TypeOK, Forget
    PROVE  /\ inbox' \in [Conns -> SUBSET Messages]
           /\ \A c \in Conns : conn'[c] = "on" => inbox'[c] = inbox[c]
           /\ caughtUp' \subseteq caughtUp
           /\ \A c \in caughtUp' : conn'[c] = "on"
BY DEF Forget, TypeOK

\* What each step of Devices does to a connection.
LEMMA LineFacts ==
    ASSUME TypeOK
    PROVE  /\ \A c \in Conns : Line!Attach(c) =>
                /\ conn' \in [Conns -> Line!ConnState]
                /\ \A d \in Conns \ {c} : conn'[d] = conn[d]
                /\ conn[c] # "off" => conn'[c] = conn[c]
           /\ \A cs : Line!GoStale(cs) =>
                /\ conn' \in [Conns -> Line!ConnState]
                /\ \A d \in Conns : conn'[d] = "on" => conn[d] = "on"
           /\ \A c \in Conns : Line!Detach(c) =>
                /\ conn' \in [Conns -> Line!ConnState]
                /\ \A d \in Conns : conn'[d] = "on" <=> conn[d] = "on"
<1> USE DEF TypeOK, Line!ConnState
<1>1. ASSUME NEW c \in Conns, Line!Attach(c)
      PROVE  /\ conn' \in [Conns -> Line!ConnState]
             /\ \A d \in Conns \ {c} : conn'[d] = conn[d]
             /\ conn[c] # "off" => conn'[c] = conn[c]
  <2>1. PICK s \in (IF conn[c] = "off" THEN Line!ConnState ELSE {conn[c]}) :
           conn' = [conn EXCEPT ![c] = s]
    BY <1>1 DEF Line!Attach
  <2> QED
    BY <2>1
<1>2. ASSUME NEW cs, Line!GoStale(cs)
      PROVE  /\ conn' \in [Conns -> Line!ConnState]
             /\ \A d \in Conns : conn'[d] = "on" => conn[d] = "on"
  BY <1>2 DEF Line!GoStale
<1>3. ASSUME NEW c \in Conns, Line!Detach(c)
      PROVE  /\ conn' \in [Conns -> Line!ConnState]
             /\ \A d \in Conns : conn'[d] = "on" <=> conn[d] = "on"
  BY <1>3 DEF Line!Detach
<1> QED
  BY <1>1, <1>2, <1>3

LEMMA ConfirmFacts ==
    ASSUME TypeOK, NEW k \in Confirms, confirm[k].pc # "idle"
    PROVE  /\ confirm[k] \in Confirm
           /\ \A p \in {"reset", "update"} :
                [confirm[k] EXCEPT !.pc = p] \in Confirm
           /\ <<confirm[k].msg, confirm[k].user>> \in Messages \X Users
<1>1. confirm[k] \in Confirm
  BY DEF TypeOK, NoConfirm
<1> QED
  BY <1>1 DEF Confirm

\* The counted messages are finitely many, and a larger set has no smaller
\* cardinality.
LEMMA CountFacts ==
    ASSUME NEW S, NEW T \in SUBSET Messages, S \subseteq T
    PROVE  /\ IsFiniteSet(S) /\ IsFiniteSet(T)
           /\ Cardinality(S) \in Nat /\ Cardinality(T) \in Nat
           /\ Cardinality(S) <= Cardinality(T)
<1>1. IsFiniteSet(T)
  BY FS_Subset, MessagesFinite
<1> QED
  BY <1>1, FS_Subset, FS_CardinalityType

LEMMA CountType ==
    ASSUME NEW u \in Users
    PROVE  /\ IsFiniteSet(Counted(u)) /\ Cardinality(Counted(u)) \in Nat
           /\ IsFiniteSet(Counted(u)') /\ Cardinality(Counted(u)') \in Nat
<1>1. Counted(u) \in SUBSET Messages /\ Counted(u)' \in SUBSET Messages
  BY DEF Counted
<1> QED
  BY <1>1, CountFacts

\* A counter that is reset, or does not grow while nothing counted is lost, stays
\* covered.
LEMMA CountKept ==
    ASSUME TypeOK, CounterIsCovered, unread' \in [Users -> Nat],
           \A u \in Users : unread'[u] <= unread[u],
           \A u \in Users : unread'[u] = 0 \/ Counted(u) \subseteq Counted(u)'
    PROVE  CounterIsCovered'
<1> SUFFICES ASSUME NEW u \in Users
             PROVE  unread'[u] <= Cardinality(Counted(u)')
  BY DEF CounterIsCovered
<1>1. CASE unread'[u] = 0
  BY <1>1, CountType
<1>2. CASE Counted(u) \subseteq Counted(u)'
  <2>1. Counted(u)' \in SUBSET Messages
    BY DEF Counted
  <2>2. Cardinality(Counted(u)) <= Cardinality(Counted(u)')
    BY <1>2, <2>1, CountFacts
  <2>3. unread[u] <= Cardinality(Counted(u)) /\ unread'[u] <= unread[u]
    BY DEF CounterIsCovered
  <2> QED
    BY <2>2, <2>3, CountType DEF TypeOK
<1> QED
  BY <1>1, <1>2

\* In particular when neither deliveries nor confirmations about to write READ
\* change.
LEMMA CountUntouched ==
    ASSUME TypeOK, CounterIsCovered,
           unread' = unread, status' = status, misread' = misread,
           \A k \in Confirms :
              confirm'[k] = confirm[k] \/ confirm'[k].pc # "update"
              \/ confirm'[k].status # "READ" \/ ~confirm'[k].named
    PROVE  CounterIsCovered'
<1>1. \A u \in Users : Counted(u) \subseteq Counted(u)'
  BY DEF Counted, Uncleared, Owed, AboutToRead
<1> QED
  BY <1>1, CountKept DEF TypeOK

----------------------------------------------------------------------------
(* Type correctness *)

LEMMA InitType == Init => TypeOK
BY DEF Init, TypeOK, Status, NoPost, Line!Init, Line!ConnState, Sync, NoSync, NoConfirm

\* Every step keeps the type invariant.
LEMMA NextType == TypeOK /\ [Next]_vars => TypeOK'
<1> SUFFICES ASSUME TypeOK, [Next]_vars PROVE TypeOK'
  OBVIOUS
<1> USE DEF db, client, confirming
<1>1. ASSUME NEW u \in Users, Leave(u) \/ Rejoin(u) \/ ResetUnread(u) PROVE TypeOK'
  BY <1>1 DEF Leave, Rejoin, ResetUnread, ResetCounter, TypeOK
<1>2. ASSUME NEW m \in Messages, NEW u \in Users, PostStart(m, u) PROVE TypeOK'
  BY <1>2 DEF PostStart, TypeOK, Post
<1>3. ASSUME NEW m \in Messages, PostReadMember(m) \/ PostReadMembers(m) PROVE TypeOK'
  <2>1. PICK p \in Post : post' = [post EXCEPT ![m] = p]
    <3>1. CASE PostReadMember(m)
      <4>1. post[m].pending \ {"member"} \in SUBSET {"member", "members"}
        BY <3>1, PostFacts DEF PostReadMember, Post
      <4> QED
        BY <3>1, <4>1, PostFacts DEF PostReadMember
    <3>2. CASE PostReadMembers(m)
      <4>1. post[m].pending \ {"members"} \in SUBSET {"member", "members"}
        BY <3>2, PostFacts DEF PostReadMembers, Post
      <4>2. members \ {post[m].sender} \in SUBSET Users
        BY DEF TypeOK
      <4> QED
        BY <3>2, <4>1, <4>2, PostFacts DEF PostReadMembers
    <3> QED
      BY <1>3, <3>1, <3>2
  <2> QED
    BY <1>3, <2>1, PostUpdateType DEF PostReadMember, PostReadMembers, TypeOK
<1>4. ASSUME NEW m \in Messages, PostCommit(m) PROVE TypeOK'
  <2>1. PICK p \in Post : post' = [post EXCEPT ![m] = p]
    BY <1>4, PostFacts DEF PostCommit
  <2>2. status' \in [Messages -> [Users -> Status]] /\ unread' \in [Users -> Nat]
    BY <1>4 DEF PostCommit, TypeOK, Status
  <2> QED
    BY <1>4, <2>1, <2>2, PostUpdateType DEF PostCommit, TypeOK
<1>5. ASSUME NEW m \in Messages, PostSend(m) PROVE TypeOK'
  <2>1. PICK p \in Post : post' = [post EXCEPT ![m] = p]
    BY <1>5, PostFacts DEF PostSend
  <2>2. inbox' \in [Conns -> SUBSET Messages] /\ received' \in [Users -> SUBSET Messages]
    BY <1>5, SendFacts, {m} \in SUBSET Messages DEF PostSend
  <2> QED
    BY <1>5, <2>1, <2>2, PostUpdateType DEF PostSend, TypeOK
<1>6. ASSUME NEW m \in Messages, PostFail(m) \/ DeleteMessage(m) PROVE TypeOK'
  <2>1. CASE PostFail(m)
    <3>1. PICK p \in Post : post' = [post EXCEPT ![m] = p]
      BY <2>1, PostFacts DEF PostFail
    <3> QED
      BY <2>1, <3>1, PostUpdateType DEF PostFail, TypeOK
  <2> QED
    BY <1>6, <2>1 DEF DeleteMessage, TypeOK
<1>7. ASSUME NEW c \in Conns, Connect(c) \/ Disconnect(c) \/ SyncFail(c) PROVE TypeOK'
  <2>1. CASE Connect(c)
    BY <2>1, LineFacts DEF Connect, TypeOK, Sync
  <2>2. CASE Disconnect(c)
    BY <2>2, LineFacts DEF Disconnect, TypeOK
  <2>3. CASE SyncFail(c)
    BY <2>3, LineFacts, ForgetFacts DEF SyncFail, Line!SyncFails, TypeOK, Sync
  <2> QED
    BY <1>7, <2>1, <2>2, <2>3
<1>8. ASSUME NEW cs \in SUBSET Conns, Drop(cs) PROVE TypeOK'
  BY <1>8, LineFacts, ForgetFacts DEF Drop, Line!Drop, TypeOK
<1>9. ASSUME NEW c \in Conns, SyncQuery(c) \/ SyncLoad(c) PROVE TypeOK'
  <2>1. sync' \in [Conns -> Sync]
    <3>1. CASE SyncQuery(c)
      BY <3>1, SyncFacts DEF SyncQuery, TypeOK, Sync
    <3>2. CASE SyncLoad(c)
      BY <3>2, SyncFacts DEF SyncLoad, TypeOK
    <3> QED
      BY <1>9, <3>1, <3>2
  <2>2. caughtUp' \in SUBSET Conns
    BY <1>9 DEF SyncQuery, SyncLoad, CatchUp, TypeOK
  <2>3. sync[c].ids \cap stored \in SUBSET Messages
    BY DEF TypeOK
  <2>4. inbox' \in [Conns -> SUBSET Messages] /\ received' \in [Users -> SUBSET Messages]
    BY <1>9, <2>3, SendFacts DEF SyncQuery, SyncLoad, TypeOK
  <2> QED
    BY <1>9, <2>1, <2>2, <2>4 DEF SyncQuery, SyncLoad, TypeOK
<1>10. ASSUME NEW c \in Conns, SyncMark(c) PROVE TypeOK'
  <2>1. status' \in [Messages -> [Users -> Status]]
    BY <1>10, OwnerType DEF SyncMark, TypeOK, Status
  <2>2. setBack' \subseteq setBack /\ misread' \subseteq misread
    BY <1>10 DEF SyncMark
  <2> QED
    BY <1>10, <2>1, <2>2 DEF SyncMark, TypeOK, Sync, NoSync
<1>11. ASSUME NEW k \in Confirms, NEW u \in Users, NEW m \in Messages,
              NEW s \in Status \ {"NONE"}, NEW named \in BOOLEAN,
              ConfirmFind(k, u, m, s, named)
       PROVE  TypeOK'
  BY <1>11 DEF ConfirmFind, TypeOK, Confirm
<1>12. ASSUME NEW k \in Confirms, ConfirmReset(k) \/ ConfirmFail(k)
       PROVE  TypeOK'
  <2>1. confirm' \in [Confirms -> Confirm \cup {NoConfirm}]
    <3>1. CASE ConfirmFail(k)
      BY <3>1 DEF ConfirmFail, TypeOK
    <3>2. CASE ConfirmReset(k)
      <4>1. PICK d \in Confirm : confirm' = [confirm EXCEPT ![k] = d]
        BY <3>2, ConfirmFacts DEF ConfirmReset
      <4> QED
        BY <4>1 DEF TypeOK
    <3> QED
      BY <1>12, <3>1, <3>2
  <2>2. unread' \in [Users -> Nat] /\ misread' \subseteq misread
    BY <1>12 DEF ConfirmReset, ResetCounter, ConfirmFail, TypeOK
  <2> QED
    BY <1>12, <2>1, <2>2 DEF ConfirmReset, ConfirmFail, TypeOK
<1>13. ASSUME NEW k \in Confirms, ConfirmUpdate(k) PROVE TypeOK'
  <2>1. /\ confirm[k].msg \in Messages /\ confirm[k].user \in Users
        /\ confirm[k].status \in Status /\ confirm[k].named \in BOOLEAN
    BY <1>13, ConfirmFacts DEF ConfirmUpdate, Confirm
  <2>2. CASE confirm[k].msg \in stored
    <3>1. status' \in [Messages -> [Users -> Status]]
      <4>1. status' = [status EXCEPT ![confirm[k].msg][confirm[k].user] = confirm[k].status]
        BY <1>13, <2>2 DEF ConfirmUpdate
      <4>2. status \in [Messages -> [Users -> Status]]
        BY DEF TypeOK
      <4> QED
        BY <2>1, <4>1, <4>2
    <3>2. ASSUME NEW S \in SUBSET (Messages \X Users), NEW yes \in BOOLEAN
          PROVE  Mark(S, confirm[k], yes) \in SUBSET (Messages \X Users)
      BY <2>1 DEF Mark
    <3>3. PICK back \in BOOLEAN, mis \in BOOLEAN :
             setBack' = Mark(setBack, confirm[k], back) /\ misread' = Mark(misread, confirm[k], mis)
      BY <1>13, <2>1, <2>2 DEF ConfirmUpdate
    <3>4. setBack \in SUBSET (Messages \X Users) /\ misread \in SUBSET (Messages \X Users)
      BY DEF TypeOK
    <3>5. /\ setBack' \in SUBSET (Messages \X Users)
          /\ misread' \in SUBSET (Messages \X Users)
      BY <3>2, <3>3, <3>4
    <3> QED
      BY <1>13, <3>1, <3>5 DEF ConfirmUpdate, TypeOK
  <2>3. CASE confirm[k].msg \notin stored
    BY <1>13, <2>3 DEF ConfirmUpdate, TypeOK
  <2> QED
    BY <2>2, <2>3
<1>14. CASE Crash
  <2>1. post' \in [Messages -> Post \cup {NoPost}]
    <3> SUFFICES ASSUME NEW m \in Messages PROVE post'[m] \in Post \cup {NoPost}
      BY <1>14 DEF Crash
    <3> QED
      BY <1>14, PostFacts DEF Crash, TypeOK
  <2>2. conn' \in [Conns -> Line!ConnState]
    BY <1>14 DEF Crash, Line!Restart, Line!ConnState
  <2> QED
    BY <1>14, <2>1, <2>2, ForgetFacts DEF Crash, TypeOK, Sync, NoSync
<1>15. CASE UNCHANGED vars
  BY <1>15 DEF vars, TypeOK
<1> QED
  BY <1>1, <1>2, <1>3, <1>4, <1>5, <1>6, <1>7, <1>8, <1>9, <1>10, <1>11, <1>12,
     <1>13, <1>14, <1>15 DEF Next

\* Every variable stays within its type, for any number of users, messages and
\* devices.
THEOREM TypeCorrect == Spec => []TypeOK
BY InitType, NextType, PTL DEF Spec

----------------------------------------------------------------------------
(* The counters *)

LEMMA InitCovered == Init => Covered
<1> SUFFICES ASSUME Init PROVE Covered
  OBVIOUS
<1>1. UnpostedIsUnknown
  BY DEF Init, UnpostedIsUnknown, NoConfirm
<1>2. \A u \in Users : unread[u] = 0 /\ Cardinality(Counted(u)) \in Nat
  BY CountType DEF Init
<1> QED
  BY <1>1, <1>2 DEF Covered, CounterIsCovered

\* Of a message nobody knows, nothing is sent, confirmed or marked.
LEMMA NextUnknown ==
    ASSUME TypeOK, UnpostedIsUnknown, [Next]_vars
    PROVE  UnpostedIsUnknown'
<1> SUFFICES ASSUME NEW m \in Messages, post'[m].pc \in {"idle", "reading"}
             PROVE  /\ m \notin stored'
                    /\ \A u \in Users : /\ status'[m][u] = "NONE" /\ m \notin received'[u]
                                       /\ <<m, u>> \notin misread'
                    /\ \A k \in Confirms :
                         confirm'[k].pc # "idle" => confirm'[k].msg # m
  BY DEF UnpostedIsUnknown
<1> USE DEF db, client, confirming
<1> DEFINE Unknown == /\ m \notin stored
                      /\ \A u \in Users : /\ status[m][u] = "NONE" /\ m \notin received[u]
                                         /\ <<m, u>> \notin misread
                      /\ \A k \in Confirms : confirm[k].pc # "idle" => confirm[k].msg # m
<1>0. ASSUME post[m].pc \in {"idle", "reading"} PROVE Unknown
  BY <1>0 DEF UnpostedIsUnknown
<1>1. ASSUME NEW u \in Users, Leave(u) \/ Rejoin(u) \/ ResetUnread(u) PROVE Unknown'
  BY <1>0, <1>1 DEF Leave, Rejoin, ResetUnread, ResetCounter
<1>2. ASSUME NEW n \in Messages,
             \/ \E u \in Users : PostStart(n, u)
             \/ PostReadMember(n) \/ PostReadMembers(n) \/ PostFail(n)
      PROVE  Unknown'
  BY <1>0, <1>2 DEF PostStart, PostReadMember, PostReadMembers, PostFail, TypeOK, NoPost
<1>3. ASSUME NEW n \in Messages, PostCommit(n) PROVE Unknown'
  <2>1. n # m
    BY <1>3 DEF PostCommit, TypeOK
  <2> QED
    BY <1>0, <1>3, <2>1 DEF PostCommit, TypeOK
<1>4. ASSUME NEW n \in Messages, PostSend(n) PROVE Unknown'
  <2>1. n # m /\ post'[m] = post[m]
    BY <1>4 DEF PostSend, TypeOK
  <2>2. \A u \in Users : received'[u] \subseteq received[u] \cup {n}
    BY <1>4, SendFacts, {n} \in SUBSET Messages DEF PostSend
  <2> QED
    BY <1>0, <1>4, <2>1, <2>2 DEF PostSend
<1>5. ASSUME NEW n \in Messages, DeleteMessage(n) PROVE Unknown'
  BY <1>0, <1>5 DEF DeleteMessage
<1>6. ASSUME \/ \E c \in Conns :
                  Connect(c) \/ Disconnect(c) \/ SyncQuery(c) \/ SyncFail(c)
             \/ \E cs \in SUBSET Conns : Drop(cs)
      PROVE  Unknown'
  BY <1>0, <1>6 DEF Connect, Drop, Disconnect, SyncQuery, SyncFail
<1>7. ASSUME NEW c \in Conns, SyncLoad(c) PROVE Unknown'
  <2>1. sync[c].ids \cap stored \in SUBSET Messages
    BY DEF TypeOK
  <2>2. \A u \in Users : received'[u] \subseteq received[u] \cup stored
    BY <1>7, <2>1, SendFacts DEF SyncLoad
  <2> QED
    BY <1>0, <1>7, <2>2 DEF SyncLoad
<1>8. ASSUME NEW c \in Conns, SyncMark(c) PROVE Unknown'
  BY <1>0, <1>8 DEF SyncMark
<1>9. ASSUME NEW k \in Confirms, NEW u \in Users, NEW n \in Messages,
             NEW s \in Status \ {"NONE"}, NEW named \in BOOLEAN,
             ConfirmFind(k, u, n, s, named)
      PROVE  Unknown'
  BY <1>0, <1>9 DEF ConfirmFind, TypeOK
<1>10. ASSUME NEW k \in Confirms, ConfirmReset(k) \/ ConfirmFail(k)
       PROVE  Unknown'
  <2>1. ASSUME NEW j \in Confirms, confirm'[j].pc # "idle"
        PROVE  confirm[j].pc # "idle" /\ confirm'[j].msg = confirm[j].msg
    <3>1. CASE ConfirmFail(k)
      BY <2>1, <3>1 DEF ConfirmFail, TypeOK, NoConfirm
    <3>2. CASE ConfirmReset(k)
      BY <2>1, <3>2, ConfirmFacts DEF ConfirmReset, TypeOK, Confirm
    <3> QED
      BY <1>10, <3>1, <3>2
  <2>2. /\ stored' = stored /\ status' = status /\ received' = received
        /\ post' = post /\ misread' \subseteq misread
    BY <1>10 DEF ConfirmReset, ResetCounter, ConfirmFail
  <2> QED
    BY <1>0, <2>1, <2>2
<1>11. ASSUME NEW k \in Confirms, ConfirmUpdate(k) PROVE Unknown'
  <2>1. confirm[k].msg # m
    BY <1>0, <1>11 DEF ConfirmUpdate
  <2>2. /\ status'[m] = status[m]
        /\ \A u \in Users : <<m, u>> \in misread' => <<m, u>> \in misread
    BY <1>11, <2>1 DEF ConfirmUpdate, Mark, TypeOK
  <2> QED
    BY <1>0, <1>11, <2>2 DEF ConfirmUpdate, TypeOK, NoConfirm
<1>12. CASE Crash
  BY <1>0, <1>12 DEF Crash, NoConfirm
<1>13. CASE UNCHANGED vars
  BY <1>0, <1>13 DEF vars
<1> QED
  BY <1>1, <1>2, <1>3, <1>4, <1>5, <1>6, <1>7, <1>8, <1>9, <1>10, <1>11, <1>12,
     <1>13 DEF Next

\* A post counts its message once, for those it makes a delivery row for.
LEMMA PostCommitCovered ==
    ASSUME TypeOK, Covered, NEW m \in Messages, PostCommit(m)
    PROVE  CounterIsCovered'
<1> SUFFICES ASSUME NEW u \in Users
             PROVE  unread'[u] <= Cardinality(Counted(u)')
  BY DEF CounterIsCovered
<1> USE DEF confirming
<1>1. /\ \A v \in Users : status[m][v] = "NONE" /\ <<m, v>> \notin misread
      /\ \A k \in Confirms : confirm[k].pc # "idle" => confirm[k].msg # m
  BY DEF PostCommit, Covered, UnpostedIsUnknown
<1>2. unread[u] <= Cardinality(Counted(u)) /\ unread[u] \in Nat
  BY DEF Covered, CounterIsCovered, TypeOK
<1>3. m \notin Counted(u)
  BY <1>1 DEF Counted, Uncleared, Owed
<1>4. misread' = misread /\ \A n \in Messages \ {m} : status'[n] = status[n]
  BY DEF PostCommit, TypeOK
<1>5. \A n, k : AboutToRead(k, n, u)' = AboutToRead(k, n, u)
  BY DEF AboutToRead, PostCommit
<1>6. CASE u \in post[m].to
  <2>1. Counted(u) \cup {m} \subseteq Counted(u)'
    <3>1. \A k \in Confirms : ~AboutToRead(k, m, u)
      BY <1>1 DEF AboutToRead
    <3>2. status'[m][u] = "SENT"
      BY <1>6 DEF PostCommit, TypeOK
    <3> QED
      BY <1>4, <1>5, <3>1, <3>2 DEF Counted, Uncleared, Owed
  <2>2. Cardinality(Counted(u) \cup {m}) = Cardinality(Counted(u)) + 1
    BY <1>3, CountType, FS_AddElement
  <2>3. Counted(u)' \in SUBSET Messages
    BY DEF Counted
  <2>4. Cardinality(Counted(u) \cup {m}) <= Cardinality(Counted(u)')
    BY <2>1, <2>3, CountFacts
  <2>5. unread'[u] = unread[u] + 1
    BY <1>6 DEF PostCommit
  <2> QED
    BY <1>2, <2>2, <2>4, <2>5, CountType
<1>7. CASE u \notin post[m].to
  <2>1. Counted(u) \subseteq Counted(u)'
    BY <1>3, <1>4, <1>5 DEF Counted, Uncleared, Owed
  <2>2. Counted(u)' \in SUBSET Messages
    BY DEF Counted
  <2>3. Cardinality(Counted(u)) <= Cardinality(Counted(u)')
    BY <2>1, <2>2, CountFacts
  <2>4. unread'[u] = unread[u]
    BY <1>7 DEF PostCommit
  <2> QED
    BY <1>2, <2>3, <2>4, CountType
<1> QED
  BY <1>6, <1>7

\* A reset takes the counter to 0 before messages stop counting.
LEMMA ResetCovered ==
    ASSUME TypeOK, CounterIsCovered, NEW u \in Users, ResetCounter(u), status' = status,
           \A k \in Confirms, m \in Messages, v \in Users :
              AboutToRead(k, m, v)' => AboutToRead(k, m, v) \/ v = u
    PROVE  CounterIsCovered'
<1>1. /\ unread' \in [Users -> Nat] /\ unread'[u] = 0
      /\ \A v \in Users \ {u} : unread'[v] = unread[v]
  BY DEF ResetCounter, TypeOK
<1>2. \A v \in Users \ {u}, m \in Messages : <<m, v>> \in misread => <<m, v>> \in misread'
  BY DEF ResetCounter
<1>3. \A v \in Users \ {u} : Counted(v) \subseteq Counted(v)'
  BY <1>2 DEF Counted, Uncleared, Owed
<1>4. \A v \in Users : unread'[v] <= unread[v]
  BY <1>1 DEF TypeOK
<1> QED
  BY <1>1, <1>3, <1>4, CountKept

\* A READ under another name resets nothing here, and its message stays counted.
LEMMA ConfirmResetCovered ==
    ASSUME TypeOK, CounterIsCovered, NEW k \in Confirms, ConfirmReset(k)
    PROVE  CounterIsCovered'
<1>1. confirm[k] \in Confirm /\ confirm[k].user \in Users
  BY ConfirmFacts DEF ConfirmReset, Confirm
<1>2. \A j \in Confirms \ {k} : confirm'[j] = confirm[j]
  BY DEF ConfirmReset, TypeOK
<1>3. /\ confirm'[k].user = confirm[k].user /\ confirm'[k].named = confirm[k].named
  BY <1>1 DEF ConfirmReset, TypeOK, Confirm
<1>4. CASE confirm[k].named
  <2>1. \A j \in Confirms, m \in Messages, v \in Users :
           AboutToRead(j, m, v)' => AboutToRead(j, m, v) \/ v = confirm[k].user
    BY <1>2, <1>3 DEF AboutToRead
  <2>2. ResetCounter(confirm[k].user) /\ status' = status
    BY <1>4 DEF ConfirmReset
  <2> QED
    BY <1>1, <2>1, <2>2, ResetCovered
<1>5. CASE ~confirm[k].named
  <2>1. \A j \in Confirms : confirm'[j] = confirm[j] \/ ~confirm'[j].named
    BY <1>2, <1>3, <1>5
  <2> QED
    BY <1>5, <2>1, CountUntouched DEF ConfirmReset
<1> QED
  BY <1>4, <1>5

\* The UPDATE that follows takes a message that was no longer counted.
LEMMA ConfirmUpdateCovered ==
    ASSUME TypeOK, CounterIsCovered, NEW k \in Confirms, ConfirmUpdate(k)
    PROVE  CounterIsCovered'
<1> DEFINE d == confirm[k]
<1>1. /\ d.pc = "update" /\ d.status \in {"SENT", "DELIVERED", "READ"}
      /\ d.msg \in Messages /\ d.user \in Users
  BY ConfirmFacts DEF ConfirmUpdate, Confirm, Status
<1>2. ASSUME NEW m \in Messages, NEW u \in Users, Uncleared(m, u)
      PROVE  Uncleared(m, u)' \/ AboutToRead(k, m, u)
  <2>1. CASE d.msg \notin stored \/ <<m, u>> # <<d.msg, d.user>>
    <3>1. status'[m][u] = status[m][u]
      BY <2>1 DEF ConfirmUpdate, TypeOK
    <3>2. <<m, u>> \in misread' <=> <<m, u>> \in misread
      BY <2>1 DEF ConfirmUpdate, Mark
    <3> QED
      BY <1>2, <3>1, <3>2 DEF Uncleared, Owed
  <2>2. CASE d.msg \in stored /\ m = d.msg /\ u = d.user
    <3>1. status'[m][u] = d.status
      BY <2>2 DEF ConfirmUpdate, TypeOK
    <3>2. d.status = "READ" /\ ~d.named => <<m, u>> \in misread'
      BY <2>2 DEF ConfirmUpdate, Mark
    <3> QED
      BY <1>1, <2>2, <3>1, <3>2 DEF Uncleared, Owed, AboutToRead
  <2> QED
    BY <2>1, <2>2
<1>3. \A j \in Confirms, m \in Messages, u \in Users :
        AboutToRead(j, m, u)' => AboutToRead(j, m, u)
  BY DEF ConfirmUpdate, AboutToRead, TypeOK, NoConfirm
<1>4. \A u \in Users : Counted(u) \subseteq Counted(u)'
  BY <1>2, <1>3 DEF Counted
<1> QED
  BY <1>4, CountKept DEF ConfirmUpdate, TypeOK

LEMMA NextCovered == TypeOK /\ Covered /\ [Next]_vars => Covered'
<1> SUFFICES ASSUME TypeOK, Covered, [Next]_vars PROVE Covered'
  OBVIOUS
<1> USE DEF db, client, confirming
<1>a. TypeOK'
  BY NextType
<1>b. UnpostedIsUnknown'
  BY NextUnknown DEF Covered
<1>1. ASSUME NEW u \in Users, Leave(u) \/ Rejoin(u) PROVE CounterIsCovered'
  BY <1>1, CountUntouched DEF Leave, Rejoin, Covered
<1>2. ASSUME NEW u \in Users, ResetUnread(u) PROVE CounterIsCovered'
  BY <1>2, ResetCovered DEF ResetUnread, AboutToRead, Covered
<1>3. ASSUME NEW m \in Messages,
             \/ \E u \in Users : PostStart(m, u)
             \/ PostReadMember(m) \/ PostReadMembers(m) \/ PostFail(m)
             \/ PostSend(m) \/ DeleteMessage(m)
      PROVE  CounterIsCovered'
  BY <1>3, CountUntouched DEF PostStart, PostReadMember, PostReadMembers, PostFail,
     PostSend, DeleteMessage, Covered
<1>4. ASSUME NEW m \in Messages, PostCommit(m) PROVE CounterIsCovered'
  BY <1>4, PostCommitCovered
<1>5. ASSUME \/ \E c \in Conns : \/ Connect(c) \/ Disconnect(c) \/ SyncQuery(c)
                                 \/ SyncLoad(c) \/ SyncFail(c)
             \/ \E cs \in SUBSET Conns : Drop(cs)
      PROVE  CounterIsCovered'
  BY <1>5, CountUntouched DEF Connect, Drop, Disconnect, SyncQuery, SyncLoad, SyncFail,
     Covered
<1>6. ASSUME NEW c \in Conns, SyncMark(c) PROVE CounterIsCovered'
  <2>1. \A m \in Messages, u \in Users : Uncleared(m, u) => Uncleared(m, u)'
    BY <1>6 DEF SyncMark, Uncleared, Owed, TypeOK
  <2>2. \A u \in Users : Counted(u) \subseteq Counted(u)'
    BY <1>6, <2>1 DEF SyncMark, Counted, AboutToRead
  <2> QED
    BY <1>6, <2>2, CountKept DEF SyncMark, Covered, TypeOK
<1>7. ASSUME NEW k \in Confirms, NEW u \in Users, NEW m \in Messages,
             NEW s \in Status \ {"NONE"}, NEW named \in BOOLEAN,
             ConfirmFind(k, u, m, s, named)
      PROVE  CounterIsCovered'
  <2>1. \A j \in Confirms : confirm'[j] = confirm[j] \/ confirm'[j].pc # "update"
                            \/ confirm'[j].status # "READ"
    BY <1>7 DEF ConfirmFind, TypeOK
  <2> QED
    BY <1>7, <2>1, CountUntouched DEF ConfirmFind, Covered
<1>8. ASSUME NEW k \in Confirms, ConfirmFail(k) PROVE CounterIsCovered'
  <2>1. \A j \in Confirms : confirm'[j] = confirm[j] \/ confirm'[j].pc # "update"
    BY <1>8 DEF ConfirmFail, TypeOK, NoConfirm
  <2> QED
    BY <1>8, <2>1, CountUntouched DEF ConfirmFail, Covered
<1>9. ASSUME NEW k \in Confirms, ConfirmReset(k) \/ ConfirmUpdate(k)
      PROVE  CounterIsCovered'
  BY <1>9, ConfirmResetCovered, ConfirmUpdateCovered DEF Covered
<1>10. ASSUME Crash PROVE CounterIsCovered'
  BY <1>10, CountUntouched DEF Crash, NoConfirm, Covered
<1>11. ASSUME UNCHANGED vars PROVE CounterIsCovered'
  BY <1>11, CountUntouched DEF vars, Covered
<1> QED
  BY <1>b, <1>1, <1>2, <1>3, <1>4, <1>5, <1>6, <1>7, <1>8, <1>9, <1>10, <1>11
     DEF Next, Covered

LEMMA CoveredIsOwed == TypeOK /\ Covered => UnreadIsOwed
<1> SUFFICES ASSUME TypeOK, Covered, NEW u \in Users
             PROVE  unread[u] <= Cardinality({m \in Messages : Uncleared(m, u)})
  BY DEF UnreadIsOwed
<1> DEFINE OwedTo == {m \in Messages : Uncleared(m, u)}
<1>1. Counted(u) \subseteq OwedTo /\ OwedTo \in SUBSET Messages
  BY DEF Counted
<1>2. /\ Cardinality(Counted(u)) <= Cardinality(OwedTo)
      /\ Cardinality(Counted(u)) \in Nat /\ Cardinality(OwedTo) \in Nat
  BY <1>1, CountFacts
<1>3. unread[u] <= Cardinality(Counted(u)) /\ unread[u] \in Nat
  BY DEF Covered, CounterIsCovered, TypeOK
<1> HIDE DEF OwedTo
<1>4. unread[u] <= Cardinality(OwedTo)
  BY <1>2, <1>3
<1> QED
  BY <1>4 DEF OwedTo

\* For any number of messages, devices and confirmations in flight, a member's
\* unread counter is at most the number of messages posted to that member and
\* not READ, or READ in another conversation's name since the last reset
\* (createGroupMessage, confirmDelivery, resetUnreadMessagesCount).
THEOREM UnreadIsAlwaysOwed == Spec => []UnreadIsOwed
<1>1. Spec => []Covered
  BY InitCovered, NextCovered, TypeCorrect, PTL DEF Spec
<1> QED
  BY <1>1, CoveredIsOwed, TypeCorrect, PTL

----------------------------------------------------------------------------
(* Push and synchronisation *)

\* NoMessageFallsBetween, with what a synchronisation is about to send on a
\* connection where none has sent anything yet, and whom a push is about to
\* reach.
ToArrive(m, c) ==
    /\ c \in caughtUp => m \in inbox[c]
    /\ sync[c].pc = "load" => m \in inbox[c] \cup sync[c].ids

EveryPendingArrives ==
    \A m \in stored, c \in Conns :
        AsStored(m, Owner[c]) /\ conn[c] = "on" /\ post[m].pc = "done"
        => ToArrive(m, c)

PushReachesOwed ==
    \A m \in Messages, u \in Users :
        post[m].pc = "stored" /\ AsStored(m, u) => u \in post[m].to

CaughtUpDelivers == \A c \in caughtUp : conn[c] = "on"

NoGap == EveryPendingArrives /\ PushReachesOwed /\ CaughtUpDelivers

LEMMA InitNoGap == Init => NoGap
BY DEF Init, NoGap, EveryPendingArrives, PushReachesOwed, CaughtUpDelivers, AsStored

\* Deliveries become SENT in the transaction only; any other step leaves what is
\* to arrive, provided that connections that deliver keep what they have, that
\* one which begins to deliver begins with a query, and that no synchronisation
\* gets ahead.
LEMMA GapKept ==
    ASSUME TypeOK, NoGap, UnpostedIsUnknown,
           stored' \subseteq stored,
           \A m \in Messages, u \in Users :
              AsStored(m, u)' => AsStored(m, u),
           \A m \in Messages :
              post'[m] = post[m] \/ post'[m].pc = "reading"
              \/ (post'[m].pc = "done" /\ post[m].pc = "reading"),
           \A c \in Conns : conn'[c] = "on" =>
              /\ inbox[c] \subseteq inbox'[c]
              /\ conn[c] = "on" \/ sync'[c].pc = "query",
           \A c \in Conns : sync'[c] = sync[c] \/ sync'[c].pc # "load",
           caughtUp' \subseteq caughtUp, \A c \in caughtUp' : conn'[c] = "on"
    PROVE  NoGap'
<1>1. ASSUME NEW m \in stored', NEW c \in Conns,
             AsStored(m, Owner[c])', conn'[c] = "on", post'[m].pc = "done"
      PROVE  ToArrive(m, c)'
  <2>1. m \in stored /\ m \in Messages /\ Owner[c] \in Users
    BY OwnerType DEF TypeOK
  <2>2. AsStored(m, Owner[c]) /\ post[m].pc = "done"
    BY <1>1, <2>1 DEF UnpostedIsUnknown, AsStored
  <2>3. conn[c] = "on" => ToArrive(m, c)
    BY <2>1, <2>2 DEF NoGap, EveryPendingArrives
  <2>4. c \in caughtUp' => m \in inbox'[c]
    BY <1>1, <2>3 DEF ToArrive, NoGap, CaughtUpDelivers
  <2>5. sync'[c].pc = "load" => m \in inbox'[c] \cup sync'[c].ids
    BY <1>1, <2>3 DEF ToArrive
  <2> QED
    BY <2>4, <2>5 DEF ToArrive
<1>2. EveryPendingArrives'
  BY <1>1 DEF EveryPendingArrives
<1>3. PushReachesOwed'
  BY DEF PushReachesOwed, NoGap
<1>4. CaughtUpDelivers'
  BY DEF CaughtUpDelivers
<1> QED
  BY <1>2, <1>3, <1>4 DEF NoGap

\* In particular a step that leaves connections, synchronisations and inboxes.
LEMMA GapUntouched ==
    ASSUME TypeOK, NoGap, UnpostedIsUnknown,
           stored' \subseteq stored,
           \A m \in Messages, u \in Users :
              AsStored(m, u)' => AsStored(m, u),
           \A m \in Messages :
              post'[m] = post[m] \/ post'[m].pc = "reading"
              \/ (post'[m].pc = "done" /\ post[m].pc = "reading"),
           conn' = conn, sync' = sync, inbox' = inbox, caughtUp' = caughtUp
    PROVE  NoGap'
<1>1. \A c \in caughtUp' : conn'[c] = "on"
  BY DEF NoGap, CaughtUpDelivers
<1> QED
  BY <1>1, GapKept

\* A push reaches the delivering connections of all it made deliveries for.
LEMMA PostSendNoGap ==
    ASSUME TypeOK, NoGap, NEW m \in Messages, PostSend(m)
    PROVE  NoGap'
<1> USE DEF db, confirming, AsStored
<1>1. /\ post[m].pc = "stored" /\ post'[m].pc = "done"
      /\ \A n \in Messages \ {m} : post'[n] = post[n]
  BY DEF PostSend, TypeOK
<1>2. \A d \in Conns : inbox[d] \subseteq inbox'[d]
  BY DEF PostSend, SendTo, TypeOK
<1>3. ASSUME NEW d \in Conns, AsStored(m, Owner[d]), conn[d] = "on"
      PROVE  m \in inbox'[d]
  <2>1. Owner[d] \in post[m].to
    BY <1>1, <1>3, OwnerType DEF NoGap, PushReachesOwed
  <2>2. d \in ConnectionsOf(post[m].to)
    BY <1>3, <2>1 DEF ConnectionsOf
  <2> QED
    BY <1>3, <2>2 DEF PostSend, SendTo
<1>4. ASSUME NEW n \in stored, NEW d \in Conns,
             AsStored(n, Owner[d]), conn[d] = "on", post'[n].pc = "done"
      PROVE  ToArrive(n, d)'
  <2>1. CASE n = m
    BY <1>3, <1>4, <2>1 DEF ToArrive
  <2>2. CASE n # m
    <3>1. ToArrive(n, d)
      BY <1>1, <1>4, <2>2 DEF NoGap, EveryPendingArrives, TypeOK
    <3> QED
      BY <1>2, <3>1 DEF PostSend, ToArrive
  <2> QED
    BY <2>1, <2>2
<1>5. EveryPendingArrives'
  BY <1>4 DEF EveryPendingArrives, PostSend
<1>6. PushReachesOwed'
  BY <1>1 DEF NoGap, PushReachesOwed, PostSend
<1>7. CaughtUpDelivers'
  BY DEF NoGap, CaughtUpDelivers, PostSend
<1> QED
  BY <1>5, <1>6, <1>7 DEF NoGap

\* A step of one synchronisation that only adds to inboxes.
LEMMA GapOfOne ==
    ASSUME TypeOK, NoGap, NEW c \in Conns, CatchUp(c) \/ caughtUp' = caughtUp,
           stored' = stored, status' = status, setBack' = setBack, post' = post,
           conn' = conn,
           \A d \in Conns \ {c} : sync'[d] = sync[d],
           \A d \in Conns : inbox[d] \subseteq inbox'[d],
           \A m \in stored :
              AsStored(m, Owner[c]) /\ conn[c] = "on" /\ post[m].pc = "done"
              => ToArrive(m, c)'
    PROVE  NoGap'
<1>1. ASSUME NEW m \in stored, NEW d \in Conns,
             AsStored(m, Owner[d]), conn[d] = "on", post[m].pc = "done"
      PROVE  ToArrive(m, d)'
  <2>1. CASE d = c
    BY <1>1, <2>1
  <2>2. CASE d # c
    <3>1. ToArrive(m, d)
      BY <1>1 DEF NoGap, EveryPendingArrives
    <3>2. d \in caughtUp' => d \in caughtUp
      BY <2>2 DEF CatchUp
    <3> QED
      BY <2>2, <3>1, <3>2 DEF ToArrive
  <2> QED
    BY <2>1, <2>2
<1>2. EveryPendingArrives'
  BY <1>1 DEF EveryPendingArrives, AsStored
<1>3. PushReachesOwed'
  BY DEF NoGap, PushReachesOwed, AsStored
<1>4. CaughtUpDelivers'
  BY DEF NoGap, CaughtUpDelivers, CatchUp
<1> QED
  BY <1>2, <1>3, <1>4 DEF NoGap

\* The synchronisation asks for all that is SENT, and sends all it asked for.
LEMMA SyncNoGap ==
    ASSUME TypeOK, NoGap, NEW c \in Conns, SyncQuery(c) \/ SyncLoad(c)
    PROVE  NoGap'
<1> USE DEF db, client, confirming, AsStored
<1>1. CASE SyncQuery(c)
  <2>1. ASSUME NEW m \in stored, AsStored(m, Owner[c]), conn[c] = "on",
               post[m].pc = "done"
        PROVE  ToArrive(m, c)'
    <3>1. sync'[c] = [pc |-> "load", ids |-> {n \in stored : status[n][Owner[c]] = "SENT"}]
      BY <1>1, <2>1 DEF SyncQuery, TypeOK
    <3>2. caughtUp' = caughtUp /\ inbox' = inbox
      BY <1>1, <2>1 DEF SyncQuery
    <3>3. ToArrive(m, c)
      BY <2>1 DEF NoGap, EveryPendingArrives
    <3> QED
      BY <2>1, <3>1, <3>2, <3>3 DEF ToArrive
  <2>2. CatchUp(c) \/ caughtUp' = caughtUp
    BY <1>1 DEF SyncQuery
  <2> QED
    BY <1>1, <2>1, <2>2, GapOfOne DEF SyncQuery, TypeOK
<1>2. CASE SyncLoad(c)
  <2>1. \A d \in Conns : inbox[d] \subseteq inbox'[d]
    BY <1>2 DEF SyncLoad, SendTo, TypeOK
  <2>2. ASSUME NEW m \in stored, AsStored(m, Owner[c]), conn[c] = "on",
               post[m].pc = "done"
        PROVE  ToArrive(m, c)'
    <3>1. m \in inbox[c] \cup (sync[c].ids \cap stored)
      BY <1>2, <2>2 DEF SyncLoad, NoGap, EveryPendingArrives, ToArrive
    <3>2. c \in ConnectionsOf({Owner[c]})
      BY <2>2 DEF ConnectionsOf
    <3>3. m \in inbox'[c]
      BY <1>2, <2>2, <3>1, <3>2 DEF SyncLoad, SendTo
    <3> QED
      BY <3>3 DEF ToArrive
  <2>3. CatchUp(c) \/ caughtUp' = caughtUp
    BY <1>2 DEF SyncLoad
  <2>4. \A d \in Conns \ {c} : sync'[d] = sync[d]
    BY <1>2 DEF SyncLoad, TypeOK
  <2> QED
    BY <1>2, <2>1, <2>2, <2>3, <2>4, GapOfOne DEF SyncLoad
<1> QED
  BY <1>1, <1>2

\* A connection opens before its synchronisation, and delivers until it goes.
LEMMA ConnNoGap ==
    ASSUME TypeOK, NoGap, UnpostedIsUnknown, NEW c \in Conns,
           Connect(c) \/ Disconnect(c) \/ SyncFail(c)
    PROVE  NoGap'
<1> USE DEF db, client, confirming, AsStored
<1>1. CASE Connect(c)
  <2>1. /\ sync'[c].pc = "query"
        /\ \A d \in Conns \ {c} : sync'[d] = sync[d] /\ conn'[d] = conn[d]
        /\ conn[c] # "off" => conn'[c] = conn[c]
    BY <1>1, LineFacts DEF Connect, TypeOK
  <2>2. \A d \in caughtUp : conn'[d] = "on"
    BY <2>1 DEF NoGap, CaughtUpDelivers, TypeOK
  <2>3. \A d \in Conns : sync'[d] = sync[d] \/ sync'[d].pc # "load"
    BY <2>1
  <2>4. \A d \in Conns : conn'[d] = "on" => conn[d] = "on" \/ sync'[d].pc = "query"
    BY <2>1
  <2> QED
    BY <1>1, <2>2, <2>3, <2>4, GapKept DEF Connect
<1>2. CASE Disconnect(c)
  <2>1. \A d \in Conns : conn'[d] = "on" <=> conn[d] = "on"
    BY <1>2, LineFacts DEF Disconnect
  <2>2. \A d \in caughtUp : conn'[d] = "on"
    BY <2>1 DEF NoGap, CaughtUpDelivers, TypeOK
  <2> QED
    BY <1>2, <2>1, <2>2, GapKept DEF Disconnect
<1>3. CASE SyncFail(c)
  <2>1. \A d \in Conns : conn'[d] = "on" => conn[d] = "on"
    BY <1>3, LineFacts DEF SyncFail, Line!SyncFails
  <2>2. \A d \in Conns : sync'[d] = sync[d] \/ sync'[d].pc # "load"
    BY <1>3 DEF SyncFail, TypeOK
  <2> QED
    BY <1>3, <2>1, <2>2, ForgetFacts, GapKept DEF SyncFail
<1> QED
  BY <1>1, <1>2, <1>3

LEMMA DropNoGap ==
    ASSUME TypeOK, NoGap, UnpostedIsUnknown, NEW cs \in SUBSET Conns, Drop(cs)
    PROVE  NoGap'
<1>1. \A d \in Conns : conn'[d] = "on" => conn[d] = "on"
  BY LineFacts DEF Drop, Line!Drop
<1> QED
  BY <1>1, ForgetFacts, GapKept DEF Drop, db, confirming, AsStored

LEMMA NextNoGap == TypeOK /\ UnpostedIsUnknown /\ NoGap /\ [Next]_vars => NoGap'
<1> SUFFICES ASSUME TypeOK, UnpostedIsUnknown, NoGap, [Next]_vars PROVE NoGap'
  OBVIOUS
<1> USE DEF db, client, confirming, AsStored
<1>1. ASSUME NEW u \in Users, Leave(u) \/ Rejoin(u) \/ ResetUnread(u) PROVE NoGap'
  BY <1>1, GapUntouched DEF Leave, Rejoin, ResetUnread
<1>2. ASSUME NEW m \in Messages,
             \/ \E u \in Users : PostStart(m, u)
             \/ PostReadMember(m) \/ PostReadMembers(m) \/ PostFail(m)
             \/ DeleteMessage(m)
      PROVE  NoGap'
  <2>1. \A n \in Messages :
           post'[n] = post[n] \/ post'[n].pc = "reading"
           \/ (post'[n].pc = "done" /\ post[n].pc = "reading")
    BY <1>2 DEF PostStart, PostReadMember, PostReadMembers, PostFail, DeleteMessage,
       TypeOK, Post, NoPost
  <2> QED
    BY <1>2, <2>1, GapUntouched DEF PostStart, PostReadMember, PostReadMembers, PostFail,
       DeleteMessage
<1>3. ASSUME NEW m \in Messages, PostCommit(m) PROVE NoGap'
  <2>1. /\ post'[m].pc = "stored" /\ post'[m].to = post[m].to
        /\ \A n \in Messages \ {m} : post'[n] = post[n] /\ status'[n] = status[n]
    <3>1. post[m] \in Post
      BY <1>3, PostFacts DEF PostCommit
    <3>2. post' = [post EXCEPT ![m] = [post[m] EXCEPT !.pc = "stored"]]
      BY <1>3 DEF PostCommit
    <3>3. post'[m] = [post[m] EXCEPT !.pc = "stored"]
      BY <3>2 DEF TypeOK
    <3> QED
      BY <1>3, <3>1, <3>2, <3>3 DEF PostCommit, TypeOK, Post
  <2>2. EveryPendingArrives'
    <3> SUFFICES ASSUME NEW n \in stored', NEW c \in Conns,
                        AsStored(n, Owner[c])', conn'[c] = "on", post'[n].pc = "done"
                 PROVE  ToArrive(n, c)'
      BY DEF EveryPendingArrives
    <3>1. n # m /\ n \in stored /\ n \in Messages
      BY <1>3, <2>1 DEF PostCommit, TypeOK
    <3>2. AsStored(n, Owner[c]) /\ conn[c] = "on" /\ post[n].pc = "done"
      BY <1>3, <2>1, <3>1 DEF PostCommit
    <3>3. ToArrive(n, c)
      BY <3>1, <3>2 DEF NoGap, EveryPendingArrives
    <3> QED
      BY <1>3, <3>3 DEF ToArrive, PostCommit
  <2>3. PushReachesOwed'
    BY <1>3, <2>1 DEF NoGap, PushReachesOwed, PostCommit, TypeOK
  <2>4. CaughtUpDelivers'
    BY <1>3 DEF NoGap, CaughtUpDelivers, PostCommit
  <2> QED
    BY <2>2, <2>3, <2>4 DEF NoGap
<1>4. ASSUME NEW c \in Conns, SyncMark(c) PROVE NoGap'
  <2>1. \A m \in Messages, u \in Users :
           AsStored(m, u)' => AsStored(m, u)
    BY <1>4 DEF SyncMark, TypeOK
  <2>2. \A d \in Conns : sync'[d] = sync[d] \/ sync'[d].pc # "load"
    BY <1>4 DEF SyncMark, NoSync, TypeOK
  <2>3. \A d \in caughtUp : conn[d] = "on"
    BY DEF NoGap, CaughtUpDelivers
  <2> QED
    BY <1>4, <2>1, <2>2, <2>3, GapKept DEF SyncMark
<1>5. ASSUME NEW k \in Confirms,
             \/ \E u \in Users, m \in Messages, s \in Status \ {"NONE"}, named \in BOOLEAN :
                  ConfirmFind(k, u, m, s, named)
             \/ ConfirmReset(k) \/ ConfirmFail(k)
      PROVE  NoGap'
  BY <1>5, GapUntouched DEF ConfirmFind, ConfirmReset, ConfirmFail
<1>6. ASSUME NEW k \in Confirms, ConfirmUpdate(k) PROVE NoGap'
  <2>1. ASSUME NEW m \in Messages, NEW u \in Users, AsStored(m, u)'
        PROVE  AsStored(m, u)
    <3>1. <<m, u>> # <<confirm[k].msg, confirm[k].user>> \/ confirm[k].msg \notin stored
      BY <1>6, <2>1 DEF ConfirmUpdate, Mark, TypeOK
    <3>2. status'[m][u] = status[m][u] /\ (<<m, u>> \in setBack' <=> <<m, u>> \in setBack)
      BY <1>6, <3>1 DEF ConfirmUpdate, Mark, TypeOK
    <3> QED
      BY <2>1, <3>2
  <2> QED
    BY <1>6, <2>1, GapUntouched DEF ConfirmUpdate
<1>7. ASSUME Crash PROVE NoGap'
  <2>1. \A m \in Messages : post'[m].pc # "stored"
    <3> SUFFICES ASSUME NEW m \in Messages PROVE post'[m].pc # "stored"
      OBVIOUS
    <3>1. CASE post[m].pc = "idle"
      BY <1>7, <3>1 DEF Crash
    <3>2. CASE post[m].pc # "idle"
      <4>1. post[m] \in Post /\ post'[m] = [post[m] EXCEPT !.pc = "done"]
        BY <1>7, <3>2, PostFacts DEF Crash
      <4> QED
        BY <4>1 DEF Post
    <3> QED
      BY <3>1, <3>2
  <2> QED
    <3>1. EveryPendingArrives'
      BY <1>7 DEF Crash, Line!Restart, EveryPendingArrives
    <3>2. PushReachesOwed'
      BY <2>1 DEF PushReachesOwed
    <3>3. CaughtUpDelivers'
      BY <1>7, ForgetFacts DEF Crash, CaughtUpDelivers
    <3> QED
      BY <3>1, <3>2, <3>3 DEF NoGap
<1>8. ASSUME UNCHANGED vars PROVE NoGap'
  BY <1>8, GapUntouched DEF vars
<1> QED
  BY <1>1, <1>2, <1>3, <1>4, <1>5, <1>6, <1>7, <1>8, SyncNoGap, ConnNoGap,
     DropNoGap, PostSendNoGap DEF Next

LEMMA NoGapMeansArrived == TypeOK /\ NoGap => NoMessageFallsBetween
BY DEF NoGap, EveryPendingArrives, CaughtUpDelivers, ToArrive, NoMessageFallsBetween,
   TypeOK

\* For any number of messages, members and devices: no message falls between the
\* push of its handler and the synchronisation of a device that connects
\* meanwhile (authenticate attaches before it asks; the handlers look for
\* connections after the transaction).
THEOREM NoMessageEverFallsBetween == Spec => []NoMessageFallsBetween
<1>1. Spec => []Covered
  BY InitCovered, NextCovered, TypeCorrect, PTL DEF Spec
<1>2. Spec => []NoGap
  <2>1. TypeOK /\ Covered /\ NoGap /\ [Next]_vars => NoGap'
    BY NextNoGap DEF Covered
  <2> QED
    BY <1>1, <2>1, InitNoGap, TypeCorrect, PTL DEF Spec
<1> QED
  BY <1>2, NoGapMeansArrived, TypeCorrect, PTL

----------------------------------------------------------------------------
(* The connections of MessageDelivery are those of Devices: the steps of its  *)
(* synchronisations are steps of Devices too, or none.  Connections implements*)
(* Devices (ConnectionsImplementDevices).                                     *)

LineStep == [Line!Next]_(Line!devices)

LEMMA LineUntouched ==
    ASSUME conn' = conn, Syncing' = Syncing
    PROVE  LineStep
BY DEF LineStep, Line!devices

LEMMA SyncLineStep ==
    ASSUME TypeOK, NEW c \in Conns, SyncQuery(c) \/ SyncLoad(c) \/ SyncMark(c)
    PROVE  LineStep
<1>1. c \in Syncing /\ conn' = conn
  BY DEF SyncQuery, SyncLoad, SyncMark, Syncing
<1>2. \A d \in Conns \ {c} : sync'[d] = sync[d]
  BY DEF SyncQuery, SyncLoad, SyncMark, TypeOK
<1>3. CASE c \in Syncing'
  <2>1. Syncing' = Syncing
    BY <1>1, <1>2, <1>3 DEF Syncing
  <2> QED
    BY <1>1, <2>1, LineUntouched
<1>4. CASE c \notin Syncing'
  <2>1. Syncing' = Syncing \ {c}
    BY <1>1, <1>2, <1>4 DEF Syncing
  <2>2. Line!Synced(c)
    BY <1>1, <2>1 DEF Line!Synced
  <2> QED
    BY <2>2 DEF LineStep, Line!Next
<1> QED
  BY <1>3, <1>4

LEMMA NextLineStep == TypeOK /\ [Next]_vars => LineStep
<1> SUFFICES ASSUME TypeOK, [Next]_vars PROVE LineStep
  OBVIOUS
<1>a. sync' = sync => Syncing' = Syncing
  BY DEF Syncing
<1>1. ASSUME NEW u \in Users, Leave(u) \/ Rejoin(u) \/ ResetUnread(u) PROVE LineStep
  BY <1>1, <1>a, LineUntouched DEF Leave, Rejoin, ResetUnread
<1>2. ASSUME NEW m \in Messages,
             \/ \E u \in Users : PostStart(m, u)
             \/ PostReadMember(m) \/ PostReadMembers(m) \/ PostCommit(m)
             \/ PostSend(m) \/ PostFail(m) \/ DeleteMessage(m)
      PROVE  LineStep
  BY <1>2, <1>a, LineUntouched DEF PostStart, PostReadMember, PostReadMembers,
     PostCommit, PostSend, PostFail, DeleteMessage
<1>3. ASSUME NEW c \in Conns, Connect(c) \/ Disconnect(c) \/ SyncFail(c) PROVE LineStep
  BY <1>3 DEF Connect, Disconnect, SyncFail, LineStep, Line!Next
<1>4. ASSUME NEW c \in Conns, SyncQuery(c) \/ SyncLoad(c) \/ SyncMark(c) PROVE LineStep
  BY <1>4, SyncLineStep
<1>5. ASSUME NEW cs \in SUBSET Conns, Drop(cs) PROVE LineStep
  BY <1>5 DEF Drop, LineStep, Line!Next
<1>6. ASSUME NEW k \in Confirms,
             \/ \E u \in Users, m \in Messages, s \in Status \ {"NONE"}, named \in BOOLEAN :
                  ConfirmFind(k, u, m, s, named)
             \/ ConfirmReset(k) \/ ConfirmUpdate(k) \/ ConfirmFail(k)
      PROVE  LineStep
  BY <1>6, <1>a, LineUntouched DEF ConfirmFind, ConfirmReset,
     ConfirmUpdate, ConfirmFail
<1>7. CASE Crash
  BY <1>7 DEF Crash, LineStep, Line!Next
<1>8. CASE UNCHANGED vars
  BY <1>8, <1>a, LineUntouched DEF vars
<1> QED
  BY <1>1, <1>2, <1>3, <1>4, <1>5, <1>6, <1>7, <1>8 DEF Next

\* The connections messages travel on are those of Devices, so that what is said
\* of messages holds of connections that come and go as Connections lets them
\* (attachUser and the synchronisation of authenticate, unregister).
THEOREM DeliveryBuildsOnDevices == Spec => Line!Spec
<1>1. Init => Line!Init
  BY DEF Init
<1>2. TypeOK /\ [Next]_vars => [Line!Next]_(Line!devices)
  BY NextLineStep DEF LineStep
<1> QED
  BY <1>1, <1>2, TypeCorrect, PTL DEF Spec, Line!Spec
=============================================================================
