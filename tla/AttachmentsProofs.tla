------------------------- MODULE AttachmentsProofs -------------------------
(* Proofs about Attachments, for every set of messages and of storage keys, *)
(* and whichever keys the clients' messages name.                           *)
EXTENDS Attachments, TLAPS

----------------------------------------------------------------------------
(* Facts about the operators *)

\* What becomes of messages that are moved to another phase, and of the others.
LEMMA SetAtFacts ==
    ASSUME TypeOK, NEW ms, NEW at \in Phase, post' = SetAt(ms, at)
    PROVE  /\ post' \in [Messages -> [at: Phase, key: Keys]]
           /\ \A m \in Messages : post'[m].key = post[m].key
           /\ \A m \in Messages : m \in ms => post'[m].at = at
           /\ \A m \in Messages : m \notin ms => post'[m] = post[m]
BY DEF SetAt, TypeOK

\* The same for a single message, which a transaction moves.
LEMMA OneFacts ==
    ASSUME TypeOK, NEW m \in Messages, NEW at \in Phase, post' = SetAt({m}, at)
    PROVE  /\ post' \in [Messages -> [at: Phase, key: Keys]]
           /\ \A n \in Messages : post'[n].key = post[n].key
           /\ post'[m].at = at
           /\ \A n \in Messages : n # m => post'[n] = post[n]
BY DEF SetAt, TypeOK

\* The messages a deletion finds are stored ones of its scope.
LEMMA MatchedFacts ==
    ASSUME TypeOK, NEW d \in Kinds
    PROVE  /\ Matched(d) \subseteq Stored /\ Matched(d) \subseteq Messages
           /\ Matched(d) \subseteq deletion[d].scope
           /\ \A m \in Messages : m \in Stored <=> post[m].at = "STORED"
BY DEF Matched, Stored

\* A deletion that begins changes no rows, and reads nothing yet.
LEMMA BeginFacts ==
    ASSUME TypeOK, NEW d \in Kinds, NEW scope \in SUBSET Messages, Begin(d, scope)
    PROVE  /\ deletion' \in [Kinds -> Deletion]
           /\ deletion'[d] = [at |-> "read", scope |-> scope, read |-> {}]
           /\ \A e \in Kinds : e # d => deletion'[e] = deletion[e]
           /\ UNCHANGED <<store, post, old, conversation, past>>
BY DEF Begin, TypeOK, Deletion

\* Which deletion begins, and with what scope.
LEMMA BeginCases ==
    ASSUME TypeOK, BeginJob \/ BeginRequest \/ BeginAccount
    PROVE  \E d \in Kinds, scope \in SUBSET Messages :
              /\ Begin(d, scope)
              /\ d = "job" => scope = old
              /\ d = "request" => scope \subseteq Stored
<1>1. {"job", "request", "account"} \subseteq Kinds
  BY DEF Kinds
<1>2. CASE BeginJob
  BY <1>1, <1>2 DEF BeginJob, TypeOK
<1>3. CASE BeginRequest
  <2>1. PICK ms \in SUBSET Stored : Begin("request", ms)
    BY <1>3 DEF BeginRequest
  <2>2. ms \in SUBSET Messages
    BY DEF Stored
  <2> QED
    BY <1>1, <2>1, <2>2
<1>4. CASE BeginAccount
  BY <1>1, <1>4 DEF BeginAccount
<1> QED
  BY <1>2, <1>3, <1>4

----------------------------------------------------------------------------
(* Types *)

ClaimedOnce ==
    \A k \in Keys : pending[k] = "CLAIMED" <=>
        \E m \in Messages : post[m].at \in {"STORED", "DELETED"} /\ post[m].key = k

\* A step that leaves the pending rows, and no message's claim, as they are.
LEMMA ClaimsKept ==
    ASSUME TypeOK, NEW ms, NEW at \in Phase, post' = SetAt(ms, at), UNCHANGED pending,
           \A m \in Messages : m \in ms =>
              (post[m].at \in {"STORED", "DELETED"} <=> at \in {"STORED", "DELETED"})
    PROVE  ClaimedOnce'
BY SetAtFacts DEF ClaimedOnce, TypeOK

LEMMA InitType == Init => TypeOK
<1> SUFFICES ASSUME Init PROVE TypeOK
  OBVIOUS
<1>1. PICK plan \in Plans : post = [m \in Messages |-> [at |-> "NEW", key |-> plan[m]]]
  BY DEF Init
<1>2. plan \in [Messages -> Keys]
  BY PlansType
<1>3. post \in [Messages -> [at: Phase, key: Keys]]
  BY <1>1, <1>2 DEF Phase
<1> QED
  BY <1>1, <1>3 DEF Init, TypeOK, Upload, Deletion, Idle, Phase

LEMMA NextType == TypeOK /\ [Next]_vars => TypeOK'
<1> SUFFICES ASSUME TypeOK, [Next]_vars PROVE TypeOK'
  OBVIOUS
<1> USE DEF store, past
<1>0. {"find", "head", "commit", "REFUSED", "STORED", "DELETED"} \subseteq Phase
  BY DEF Phase
<1>1. ASSUME NEW k \in Keys,
             PrepareUpload(k) \/ PutObject(k) \/ UrlExpires(k) \/ UploadExpires(k)
      PROVE  TypeOK'
  <2>1. pending' \in [Keys -> Upload] /\ urls' \subseteq Keys /\ objects' \subseteq Keys
    BY <1>1 DEF PrepareUpload, PutObject, UrlExpires, UploadExpires, TypeOK, Upload
  <2>2. \A j \in Keys : pending'[j] = "CLAIMED" <=> pending[j] = "CLAIMED"
    BY <1>1 DEF PrepareUpload, PutObject, UrlExpires, UploadExpires, TypeOK
  <2>3. UNCHANGED <<post, old, conversation, deletion, past>>
    BY <1>1 DEF PrepareUpload, PutObject, UrlExpires, UploadExpires
  <2> QED
    BY <2>1, <2>2, <2>3 DEF TypeOK
<1>2. ASSUME NEW m \in Messages, StartPost(m) PROVE TypeOK'
  <2>0. post' = SetAt({m}, "find") /\ UNCHANGED pending /\ post[m].at = "NEW"
    BY <1>2 DEF StartPost
  <2>1. post' \in [Messages -> [at: Phase, key: Keys]] /\ ClaimedOnce'
    <3>1. post' \in [Messages -> [at: Phase, key: Keys]]
      BY <1>0, <2>0, OneFacts
    <3>2. ClaimedOnce'
      BY <1>0, <2>0, ClaimsKept
    <3> QED
      BY <3>1, <3>2
  <2>2. met' \subseteq SUBSET Messages
    BY <1>2 DEF StartPost, TypeOK
  <2> QED
    BY <1>2, <2>1, <2>2 DEF StartPost, TypeOK, ClaimedOnce
<1>3. ASSUME NEW m \in Messages, FindUpload(m) \/ HeadObject(m) \/ RefusePost(m)
      PROVE  TypeOK'
  <2>1. post' \in [Messages -> [at: Phase, key: Keys]] /\ ClaimedOnce'
    BY <1>0, <1>3, SetAtFacts, ClaimsKept
       DEF FindUpload, HeadObject, RefusePost, InTransaction
  <2> QED
    BY <1>3, <2>1 DEF FindUpload, HeadObject, RefusePost, TypeOK, ClaimedOnce
<1>4. ASSUME NEW m \in Messages, CommitPost(m) PROVE TypeOK'
  <2>1. /\ post' \in [Messages -> [at: Phase, key: Keys]]
        /\ \A n \in Messages : post'[n].key = post[n].key
        /\ post'[m].at = "STORED"
        /\ \A n \in Messages : n # m => post'[n] = post[n]
    <3>1. post' = SetAt({m}, "STORED")
      BY <1>4 DEF CommitPost
    <3> QED
      BY <1>0, <3>1, OneFacts
  <2>2. pending' \in [Keys -> Upload]
    BY <1>4 DEF CommitPost, TypeOK, Upload
  <2>3. ClaimedOnce'
    <3> SUFFICES ASSUME NEW k \in Keys
                 PROVE  pending'[k] = "CLAIMED" <=>
                          \E n \in Messages : post'[n].at \in {"STORED", "DELETED"}
                                              /\ post'[n].key = k
      BY DEF ClaimedOnce
    <3>1. pending' = [pending EXCEPT ![post[m].key] = "CLAIMED"]
      BY <1>4 DEF CommitPost
    <3>2. CASE k = post[m].key
      BY <2>1, <3>1, <3>2 DEF TypeOK
    <3>3. CASE k # post[m].key
      <4>1. pending'[k] = pending[k]
        BY <3>1, <3>3 DEF TypeOK
      <4>2. \A n \in Messages : post[n].key = k => post'[n] = post[n]
        BY <2>1, <3>3
      <4> QED
        BY <2>1, <4>1, <4>2 DEF TypeOK
    <3> QED
      BY <3>2, <3>3
  <2> QED
    BY <1>4, <2>1, <2>2, <2>3 DEF CommitPost, TypeOK, ClaimedOnce
<1>5. ASSUME NEW m \in Messages, GrowOld(m) PROVE TypeOK'
  BY <1>5 DEF GrowOld, TypeOK
<1>6. CASE BeginJob \/ BeginRequest \/ BeginAccount
  <2>1. PICK d \in Kinds, scope \in SUBSET Messages : Begin(d, scope)
    BY <1>6, BeginCases
  <2>2. deletion' \in [Kinds -> Deletion] /\ UNCHANGED <<store, post, old, conversation, past>>
    BY <2>1, BeginFacts
  <2> QED
    BY <2>2 DEF TypeOK
<1>7. ASSUME NEW d \in Kinds, ReadMessages(d) PROVE TypeOK'
  <2>1. Stored \cap deletion[d].scope \in SUBSET Messages
    BY DEF Stored
  <2>2. doomed' \subseteq Messages
    BY <1>7, <2>1 DEF ReadMessages, TypeOK
  <2>3. deletion \in [Kinds -> Deletion]
    BY DEF TypeOK
  <2>4. deletion' \in [Kinds -> Deletion]
    <3> DEFINE read == Stored \cap deletion[d].scope
               to   == [deletion[d] EXCEPT !.read = read,
                                           !.at = IF d = "request" THEN "rows" ELSE "files"]
    <3>1. to \in Deletion
      BY <2>1, <2>3 DEF Deletion
    <3>2. Idle \in Deletion
      BY DEF Deletion, Idle
    <3>3. deletion' = [deletion EXCEPT ![d] = Idle] \/ deletion' = [deletion EXCEPT ![d] = to]
      BY <1>7 DEF ReadMessages
    <3> HIDE DEF to
    <3> QED
      BY <2>3, <3>1, <3>2, <3>3
  <2> QED
    BY <1>7, <2>2, <2>4 DEF ReadMessages, TypeOK
<1>8. ASSUME NEW d \in Kinds, DeleteFiles(d) PROVE TypeOK'
  <2>1. deletion' \in [Kinds -> Deletion] /\ objects' \subseteq Keys
    BY <1>8 DEF DeleteFiles, TypeOK, Deletion, Idle
  <2> QED
    BY <1>8, <2>1 DEF DeleteFiles, TypeOK
<1>9. ASSUME NEW d \in Kinds, DeleteRows(d) PROVE TypeOK'
  <2>1. post' \in [Messages -> [at: Phase, key: Keys]] /\ ClaimedOnce'
    BY <1>0, <1>9, SetAtFacts, ClaimsKept, MatchedFacts DEF DeleteRows
  <2>2. deletion' \in [Kinds -> Deletion] /\ conversation' \in BOOLEAN
    BY <1>9 DEF DeleteRows, TypeOK, Deletion, Idle
  <2> QED
    BY <1>9, <2>1, <2>2 DEF DeleteRows, TypeOK, ClaimedOnce
<1>10. ASSUME NEW d \in Kinds, Abort(d) PROVE TypeOK'
  BY <1>10 DEF Abort, TypeOK, Deletion, Idle
<1>11. CASE DropConversation
  <2>1. post' \in [Messages -> [at: Phase, key: Keys]] /\ ClaimedOnce'
    BY <1>0, <1>11, SetAtFacts, ClaimsKept DEF DropConversation, Stored
  <2> QED
    BY <1>11, <2>1 DEF DropConversation, TypeOK, ClaimedOnce
<1>12. CASE UNCHANGED vars
  BY <1>12 DEF vars, TypeOK
<1> QED
  BY <1>1, <1>2, <1>3, <1>4, <1>5, <1>6, <1>7, <1>8, <1>9, <1>10, <1>11, <1>12 DEF Next

\* Every variable stays within its type, and the pending row of an upload goes
\* exactly with the commit of a message that names it.
THEOREM TypeCorrect == Spec => []TypeOK
BY InitType, NextType, PTL DEF Spec

----------------------------------------------------------------------------
(* What a step may do to a message *)

Claimed(m) == post[m].at \in {"STORED", "DELETED"}

\* Which steps move a message, and from where.
Moved(m) ==
    \/ StartPost(m) \/ FindUpload(m) \/ HeadObject(m) \/ CommitPost(m) \/ RefusePost(m)
    \/ post[m].at = "STORED" /\ post'[m].at = "DELETED"

\* A message keeps its key, and stays or makes one of its own moves.
LEMMA MessageMoves ==
    ASSUME TypeOK, [Next]_vars, NEW m \in Messages
    PROVE  /\ post'[m].key = post[m].key
           /\ post'[m] = post[m] \/ Moved(m)
<1> USE DEF Moved
<1>0. {"find", "head", "commit", "REFUSED", "STORED", "DELETED"} \subseteq Phase
  BY DEF Phase
<1>1. ASSUME NEW n \in Messages,
             StartPost(n) \/ FindUpload(n) \/ HeadObject(n) \/ CommitPost(n) \/ RefusePost(n)
      PROVE  post'[m].key = post[m].key /\ (post'[m] = post[m] \/ Moved(m))
  <2>1. PICK at \in Phase : post' = SetAt({n}, at)
    BY <1>0, <1>1 DEF StartPost, FindUpload, HeadObject, CommitPost, RefusePost
  <2>2. post'[m].key = post[m].key /\ (m # n => post'[m] = post[m])
    BY <2>1, OneFacts
  <2> QED
    BY <1>1, <2>2
<1>2. ASSUME NEW d \in Kinds, DeleteRows(d)
      PROVE  post'[m].key = post[m].key /\ (post'[m] = post[m] \/ Moved(m))
  <2>1. post' = SetAt(Matched(d), "DELETED")
    BY <1>2 DEF DeleteRows
  <2>2. /\ post'[m].key = post[m].key
        /\ m \in Matched(d) => post'[m].at = "DELETED"
        /\ m \notin Matched(d) => post'[m] = post[m]
    BY <1>0, <2>1, SetAtFacts
  <2> QED
    BY <2>2, MatchedFacts
<1>3. CASE DropConversation
  <2>1. post' = SetAt(Stored, "DELETED")
    BY <1>3 DEF DropConversation
  <2>2. /\ post'[m].key = post[m].key
        /\ m \in Stored => post'[m].at = "DELETED"
        /\ m \notin Stored => post'[m] = post[m]
    BY <1>0, <2>1, SetAtFacts
  <2> QED
    BY <2>2 DEF Stored
<1>4. ASSUME UNCHANGED post
      PROVE  post'[m].key = post[m].key /\ (post'[m] = post[m] \/ Moved(m))
  BY <1>4
<1>5. ASSUME NEW k \in Keys,
             PrepareUpload(k) \/ PutObject(k) \/ UrlExpires(k) \/ UploadExpires(k)
      PROVE  UNCHANGED post
  BY <1>5 DEF PrepareUpload, PutObject, UrlExpires, UploadExpires
<1>6. ASSUME NEW n \in Messages, GrowOld(n) PROVE UNCHANGED post
  BY <1>6 DEF GrowOld
<1>7. CASE BeginJob \/ BeginRequest \/ BeginAccount
  BY <1>7, <1>4 DEF BeginJob, BeginRequest, BeginAccount, Begin
<1>8. ASSUME NEW d \in Kinds, ReadMessages(d) \/ DeleteFiles(d) \/ Abort(d)
      PROVE  UNCHANGED post
  BY <1>8 DEF ReadMessages, DeleteFiles, Abort
<1>9. CASE UNCHANGED vars
  BY <1>4, <1>9 DEF vars
<1> QED
  BY <1>1, <1>2, <1>3, <1>4, <1>5, <1>6, <1>7, <1>8, <1>9 DEF Next

\* A transaction moves no message but its own.
LEMMA OneMoves ==
    ASSUME TypeOK, NEW m \in Messages,
           StartPost(m) \/ FindUpload(m) \/ HeadObject(m) \/ CommitPost(m) \/ RefusePost(m)
    PROVE  \A n \in Messages : n # m => post'[n] = post[n]
<1>1. {"find", "head", "commit", "REFUSED", "STORED"} \subseteq Phase
  BY DEF Phase
<1>2. PICK at \in Phase : post' = SetAt({m}, at)
  BY <1>1 DEF StartPost, FindUpload, HeadObject, CommitPost, RefusePost
<1> QED
  BY <1>2, OneFacts

\* Where its own moves take a message.
LEMMA OneGoes ==
    ASSUME TypeOK, NEW m \in Messages
    PROVE  /\ StartPost(m) => post'[m].at = "find"
           /\ FindUpload(m) => post'[m].at = "head"
           /\ HeadObject(m) => post'[m].at = "commit"
           /\ CommitPost(m) => post'[m].at = "STORED"
           /\ RefusePost(m) => post'[m].at = "REFUSED"
BY OneFacts DEF StartPost, FindUpload, HeadObject, CommitPost, RefusePost, Phase

\* Pairs that overlapped and messages that were read are not forgotten.
LEMMA PastStays ==
    ASSUME TypeOK, [Next]_vars
    PROVE  met \subseteq met' /\ doomed \subseteq doomed'
<1> USE DEF past
<1>1. ASSUME NEW k \in Keys,
             PrepareUpload(k) \/ PutObject(k) \/ UrlExpires(k) \/ UploadExpires(k)
      PROVE  UNCHANGED past
  BY <1>1 DEF PrepareUpload, PutObject, UrlExpires, UploadExpires
<1>2. ASSUME NEW m \in Messages, StartPost(m) \/ FindUpload(m) \/ HeadObject(m)
                                 \/ CommitPost(m) \/ RefusePost(m) \/ GrowOld(m)
      PROVE  met \subseteq met' /\ doomed' = doomed
  BY <1>2 DEF StartPost, FindUpload, HeadObject, CommitPost, RefusePost, GrowOld
<1>3. CASE BeginJob \/ BeginRequest \/ BeginAccount
  BY <1>3 DEF BeginJob, BeginRequest, BeginAccount, Begin
<1>4. ASSUME NEW d \in Kinds, ReadMessages(d) \/ DeleteFiles(d) \/ DeleteRows(d) \/ Abort(d)
      PROVE  met' = met /\ doomed \subseteq doomed'
  BY <1>4 DEF ReadMessages, DeleteFiles, DeleteRows, Abort
<1>5. CASE DropConversation
  BY <1>5 DEF DropConversation
<1>6. CASE UNCHANGED vars
  BY <1>6 DEF vars
<1> QED
  BY <1>1, <1>2, <1>3, <1>4, <1>5, <1>6 DEF Next

----------------------------------------------------------------------------
(* Which messages may share an object *)

\* Transactions that are open together are known to have overlapped.
OverlapIsKnown ==
    \A m, n \in Messages :
        m # n /\ InTransaction(m) /\ InTransaction(n) => {m, n} \in met

\* A transaction past FindUpload found its row unclaimed: whoever has claimed
\* the upload since was open at the same time.
FoundIsUnclaimed ==
    \A m, n \in Messages :
        /\ m # n /\ post[m].at \in {"head", "commit"} /\ Claimed(n)
        /\ post[m].key = post[n].key
        => {m, n} \in met

Sharing == OverlapIsKnown /\ FoundIsUnclaimed /\ SharedOnlyByOverlap

\* A transaction was open before the step, or begins with it.
LEMMA OpenBefore ==
    ASSUME TypeOK, [Next]_vars, NEW m \in Messages, InTransaction(m)'
    PROVE  InTransaction(m) \/ StartPost(m)
BY MessageMoves, OneGoes DEF Moved, InTransaction, FindUpload, HeadObject

\* A message was claimed before the step, or is committed with it.
LEMMA ClaimedBefore ==
    ASSUME TypeOK, [Next]_vars, NEW m \in Messages, Claimed(m)'
    PROVE  Claimed(m) \/ CommitPost(m)
BY MessageMoves, OneGoes DEF Moved, Claimed

LEMMA NextOverlap ==
    ASSUME TypeOK, OverlapIsKnown, [Next]_vars
    PROVE  OverlapIsKnown'
<1> SUFFICES ASSUME NEW m \in Messages, NEW n \in Messages, m # n,
                    InTransaction(m)', InTransaction(n)'
             PROVE  {m, n} \in met'
  BY DEF OverlapIsKnown
<1>1. CASE InTransaction(m) /\ InTransaction(n)
  BY <1>1, PastStays DEF OverlapIsKnown
<1>2. ASSUME NEW i \in Messages, NEW j \in Messages, i # j, StartPost(i), InTransaction(j)'
      PROVE  {i, j} \in met'
  <2>1. InTransaction(j)
    BY <1>2, OneMoves DEF InTransaction
  <2> QED
    BY <1>2, <2>1 DEF StartPost
<1>3. {m, n} = {n, m}
  OBVIOUS
<1> QED
  BY <1>1, <1>2, <1>3, OpenBefore

LEMMA NextFound ==
    ASSUME TypeOK, Sharing, [Next]_vars
    PROVE  FoundIsUnclaimed'
<1> SUFFICES ASSUME NEW m \in Messages, NEW n \in Messages, m # n,
                    post'[m].at \in {"head", "commit"}, Claimed(n)',
                    post'[m].key = post'[n].key
             PROVE  {m, n} \in met'
  BY DEF FoundIsUnclaimed
<1>1. post[m].key = post[n].key /\ post[m].key \in Keys
  BY MessageMoves DEF TypeOK
<1>2. CASE CommitPost(n)
  <2>1. InTransaction(n)
    BY <1>2 DEF CommitPost, InTransaction
  <2>2. InTransaction(m)
    BY <1>2, OneMoves DEF InTransaction
  <2> QED
    BY <2>1, <2>2, PastStays DEF Sharing, OverlapIsKnown
<1>3. CASE Claimed(n)
  <2>1. pending[post[m].key] = "CLAIMED"
    BY <1>1, <1>3 DEF Claimed, TypeOK
  <2>2. post[m].at \in {"head", "commit"}
    BY <2>1, MessageMoves, OneGoes DEF Moved, FindUpload, HeadObject
  <2> QED
    BY <1>1, <1>3, <2>2, PastStays DEF Sharing, FoundIsUnclaimed
<1> QED
  BY <1>2, <1>3, ClaimedBefore

LEMMA NextShared ==
    ASSUME TypeOK, Sharing, [Next]_vars
    PROVE  SharedOnlyByOverlap'
<1> SUFFICES ASSUME NEW m \in Messages, NEW n \in Messages, m # n,
                    Claimed(m)', Claimed(n)', post'[m].key = post'[n].key
             PROVE  {m, n} \in met'
  BY DEF SharedOnlyByOverlap, Claimed
<1>1. post[m].key = post[n].key
  BY MessageMoves
<1>2. CASE Claimed(m) /\ Claimed(n)
  BY <1>1, <1>2, PastStays DEF Sharing, SharedOnlyByOverlap, Claimed
<1>3. ASSUME NEW i \in Messages, NEW j \in Messages, i # j, CommitPost(i), Claimed(j)',
             post[i].key = post[j].key
      PROVE  {i, j} \in met'
  <2>1. Claimed(j)
    BY <1>3, OneMoves DEF Claimed
  <2>2. post[i].at \in {"head", "commit"}
    BY <1>3 DEF CommitPost
  <2> QED
    BY <1>3, <2>1, <2>2, PastStays DEF Sharing, FoundIsUnclaimed
<1>4. {m, n} = {n, m}
  OBVIOUS
<1> QED
  BY <1>1, <1>2, <1>3, <1>4, ClaimedBefore

LEMMA InitSharing == Init => Sharing
<1> SUFFICES ASSUME Init PROVE \A m \in Messages : post[m].at = "NEW"
  BY DEF Sharing, OverlapIsKnown, FoundIsUnclaimed, SharedOnlyByOverlap, InTransaction, Claimed
<1>1. PICK plan \in Plans : post = [m \in Messages |-> [at |-> "NEW", key |-> plan[m]]]
  BY DEF Init
<1> QED
  BY <1>1

\* Two messages that share an object were being posted at the same time: no
\* message names an upload that another one had claimed before.
THEOREM UploadsSharedByOverlap == Spec => []SharedOnlyByOverlap
<1>1. Init => TypeOK /\ Sharing
  BY InitType, InitSharing
<1>2. TypeOK /\ Sharing /\ [Next]_vars => TypeOK' /\ Sharing'
  BY NextType, NextOverlap, NextFound, NextShared DEF Sharing
<1>3. Sharing => SharedOnlyByOverlap
  BY DEF Sharing
<1> QED
  BY <1>1, <1>2, <1>3, PTL DEF Spec

----------------------------------------------------------------------------
(* What a step may do to a deletion *)

\* A deletion's scope stays, is emptied, or is the scope it begins with; what
\* it has read was read before or is remembered now, and past its reading it
\* has all that its scope holds.
LEMMA DeletionMoves ==
    ASSUME TypeOK, [Next]_vars, NEW d \in Kinds
    PROVE  /\ deletion'[d].read \subseteq deletion[d].read \cup doomed'
           /\ \/ deletion'[d].scope = deletion[d].scope
              \/ deletion'[d].scope = {}
              \/ d = "job" /\ deletion'[d].scope = old
              \/ d = "request" /\ deletion'[d].scope \subseteq Stored
              \/ d = "account"
           /\ deletion'[d].at \in {"files", "rows"} =>
                \/ deletion[d].at \in {"files", "rows"} /\ deletion'[d].scope = deletion[d].scope
                \/ /\ Stored \cap deletion'[d].scope \subseteq doomed'
                   /\ UNCHANGED post
<1> DEFINE Goal ==
        /\ deletion'[d].read \subseteq deletion[d].read \cup doomed'
        /\ \/ deletion'[d].scope = deletion[d].scope
           \/ deletion'[d].scope = {}
           \/ d = "job" /\ deletion'[d].scope = old
           \/ d = "request" /\ deletion'[d].scope \subseteq Stored
           \/ d = "account"
        /\ deletion'[d].at \in {"files", "rows"} =>
             \/ deletion[d].at \in {"files", "rows"} /\ deletion'[d].scope = deletion[d].scope
             \/ /\ Stored \cap deletion'[d].scope \subseteq doomed'
                /\ UNCHANGED post
<1>0. ASSUME deletion'[d] = deletion[d] \/ deletion'[d] = Idle
      PROVE  Goal
  BY <1>0 DEF Idle
<1>1. CASE BeginJob \/ BeginRequest \/ BeginAccount
  <2>1. PICK e \in Kinds, scope \in SUBSET Messages :
           /\ Begin(e, scope)
           /\ e = "job" => scope = old
           /\ e = "request" => scope \subseteq Stored
    BY <1>1, BeginCases
  <2>2. e # d => deletion'[d] = deletion[d]
    BY <2>1, BeginFacts
  <2>3. e = d => deletion'[d] = [at |-> "read", scope |-> scope, read |-> {}]
    BY <2>1, BeginFacts
  <2>4. d \in {"job", "request", "account"}
    BY DEF Kinds
  <2> QED
    BY <1>0, <2>1, <2>2, <2>3, <2>4
<1>2. ASSUME NEW e \in Kinds, ReadMessages(e) PROVE Goal
  <2>1. CASE e # d
    BY <1>0, <1>2, <2>1 DEF ReadMessages, TypeOK
  <2>2. CASE e = d /\ Stored \cap deletion[d].scope = {} /\ d # "account"
    BY <1>0, <1>2, <2>2 DEF ReadMessages, TypeOK
  <2>3. CASE e = d /\ ~(Stored \cap deletion[d].scope = {} /\ d # "account")
    <3>1. /\ deletion' = [deletion EXCEPT ![d].read = Stored \cap deletion[d].scope,
                             ![d].at = IF d = "request" THEN "rows" ELSE "files"]
          /\ doomed' = doomed \cup (Stored \cap deletion[d].scope)
          /\ UNCHANGED post
      BY <1>2, <2>3 DEF ReadMessages
    <3>2. /\ deletion'[d].scope = deletion[d].scope
          /\ deletion'[d].read = Stored \cap deletion[d].scope
      BY <3>1 DEF TypeOK, Deletion
    <3> QED
      BY <3>1, <3>2
  <2> QED
    BY <2>1, <2>2, <2>3
<1>3. ASSUME NEW e \in Kinds, DeleteFiles(e) \/ DeleteRows(e) \/ Abort(e) PROVE Goal
  <2>1. CASE e # d
    BY <1>0, <1>3, <2>1 DEF DeleteFiles, DeleteRows, Abort, TypeOK
  <2>2. CASE e = d
    <3>1. \/ deletion'[d] = Idle
          \/ /\ deletion[d].at \in {"files", "rows"}
             /\ \E at \in {"files", "rows"} : deletion'[d] = [deletion[d] EXCEPT !.at = at]
      BY <1>3, <2>2 DEF DeleteFiles, DeleteRows, Abort, TypeOK
    <3>2. \A at \in {"files", "rows"} : LET D == [deletion[d] EXCEPT !.at = at] IN
             D.scope = deletion[d].scope /\ D.read = deletion[d].read
      BY DEF TypeOK, Deletion
    <3> QED
      BY <1>0, <3>1, <3>2
  <2> QED
    BY <2>1, <2>2
<1>4. ASSUME UNCHANGED deletion PROVE Goal
  BY <1>0, <1>4
<1>5. ASSUME NEW k \in Keys,
             PrepareUpload(k) \/ PutObject(k) \/ UrlExpires(k) \/ UploadExpires(k)
      PROVE  UNCHANGED deletion
  BY <1>5 DEF PrepareUpload, PutObject, UrlExpires, UploadExpires
<1>6. ASSUME NEW m \in Messages, StartPost(m) \/ FindUpload(m) \/ HeadObject(m)
                                 \/ CommitPost(m) \/ RefusePost(m) \/ GrowOld(m)
      PROVE  UNCHANGED deletion
  BY <1>6 DEF StartPost, FindUpload, HeadObject, CommitPost, RefusePost, GrowOld
<1>7. CASE DropConversation
  BY <1>4, <1>7 DEF DropConversation
<1>8. CASE UNCHANGED vars
  BY <1>4, <1>8 DEF vars
<1>9. Goal
  BY <1>1, <1>2, <1>3, <1>4, <1>5, <1>6, <1>7, <1>8 DEF Next
<1> QED
  BY <1>9

----------------------------------------------------------------------------
(* Messages keep their files *)

\* A message has its file, or some deletion has set out to delete the file
\* with another message that shares it.
HasFile(m) ==
    \/ post[m].key \in objects
    \/ \E n \in doomed : post[n].key = post[m].key

\* What deletions have read is remembered: the keys they delete are theirs.
DoomedAreRead == \A d \in Kinds : deletion[d].read \subseteq doomed

\* A transaction past HeadObject saw its object, which has been there since.
SeenHasFile == \A m \in Messages : post[m].at = "commit" => HasFile(m)

Filing == DoomedAreRead /\ SeenHasFile /\ AttachmentHasFile

\* Which objects a step may take away.
LEMMA ObjectsGo ==
    ASSUME TypeOK, [Next]_vars
    PROVE  \A k \in objects : k \in objects' \/ \E d \in Kinds : k \in KeysOf(deletion[d].read)
<1> SUFFICES ASSUME NEW k \in objects, k \notin objects'
             PROVE  \E d \in Kinds : k \in KeysOf(deletion[d].read)
  OBVIOUS
<1> USE DEF store
<1>1. ASSUME NEW d \in Kinds, DeleteFiles(d) PROVE k \in KeysOf(deletion[d].read)
  BY <1>1 DEF DeleteFiles
<1>2. ASSUME NEW j \in Keys,
             PrepareUpload(j) \/ PutObject(j) \/ UrlExpires(j) \/ UploadExpires(j)
      PROVE  FALSE
  BY <1>2 DEF PrepareUpload, PutObject, UrlExpires, UploadExpires
<1>3. ASSUME NEW m \in Messages, StartPost(m) \/ FindUpload(m) \/ HeadObject(m)
                                 \/ CommitPost(m) \/ RefusePost(m) \/ GrowOld(m)
      PROVE  FALSE
  BY <1>3 DEF StartPost, FindUpload, HeadObject, CommitPost, RefusePost, GrowOld
<1>4. CASE BeginJob \/ BeginRequest \/ BeginAccount
  BY <1>4 DEF BeginJob, BeginRequest, BeginAccount, Begin
<1>5. ASSUME NEW d \in Kinds, ReadMessages(d) \/ DeleteRows(d) \/ Abort(d)
      PROVE  FALSE
  BY <1>5 DEF ReadMessages, DeleteRows, Abort
<1>6. CASE DropConversation
  BY <1>6 DEF DropConversation
<1>7. CASE UNCHANGED vars
  BY <1>7 DEF vars
<1> QED
  BY <1>1, <1>2, <1>3, <1>4, <1>5, <1>6, <1>7 DEF Next

LEMMA HasFileStays ==
    ASSUME TypeOK, DoomedAreRead, [Next]_vars, NEW m \in Messages, HasFile(m)
    PROVE  HasFile(m)'
<1>1. \A n \in Messages : post'[n].key = post[n].key
  BY MessageMoves
<1>2. doomed \subseteq doomed' /\ doomed \subseteq Messages
  BY PastStays DEF TypeOK
<1>3. CASE \E n \in doomed : post[n].key = post[m].key
  BY <1>1, <1>2, <1>3 DEF HasFile
<1>4. CASE post[m].key \in objects
  <2>1. CASE post[m].key \in objects'
    BY <1>1, <2>1 DEF HasFile
  <2>2. ASSUME NEW d \in Kinds, post[m].key \in KeysOf(deletion[d].read)
        PROVE  HasFile(m)'
    <3>1. \E n \in deletion[d].read : post[n].key = post[m].key
      BY <2>2 DEF KeysOf
    <3> QED
      BY <1>3, <3>1, <1>1, <1>2 DEF DoomedAreRead, HasFile
  <2> QED
    BY <1>4, <2>1, <2>2, ObjectsGo
<1> QED
  BY <1>3, <1>4 DEF HasFile

LEMMA InitFiling == Init => Filing
<1> SUFFICES ASSUME Init PROVE Filing
  OBVIOUS
<1>1. PICK plan \in Plans : post = [m \in Messages |-> [at |-> "NEW", key |-> plan[m]]]
  BY DEF Init
<1> QED
  BY <1>1 DEF Init, Filing, DoomedAreRead, SeenHasFile, AttachmentHasFile, Stored, Idle

LEMMA NextFiling ==
    ASSUME TypeOK, Filing, [Next]_vars
    PROVE  Filing'
<1>1. DoomedAreRead'
  <2> SUFFICES ASSUME NEW d \in Kinds PROVE deletion'[d].read \subseteq doomed'
    BY DEF DoomedAreRead
  <2>1. deletion'[d].read \subseteq deletion[d].read \cup doomed'
    BY DeletionMoves
  <2>2. deletion[d].read \subseteq doomed'
    BY PastStays DEF Filing, DoomedAreRead
  <2> QED
    BY <2>1, <2>2
<1>2. SeenHasFile'
  <2> SUFFICES ASSUME NEW m \in Messages, post'[m].at = "commit" PROVE HasFile(m)'
    BY DEF SeenHasFile
  <2>1. post[m].at = "commit" \/ HeadObject(m)
    BY MessageMoves, OneGoes DEF Moved
  <2>2. HasFile(m)
    BY <2>1 DEF Filing, SeenHasFile, HeadObject, HasFile
  <2> QED
    BY <2>2, HasFileStays DEF Filing
<1>3. AttachmentHasFile'
  <2> SUFFICES ASSUME NEW m \in Messages, post'[m].at = "STORED", m \notin doomed'
               PROVE  HasFile(m)'
    BY DEF AttachmentHasFile, Stored, HasFile
  <2>1. post[m].at = "STORED" \/ CommitPost(m)
    BY MessageMoves, OneGoes DEF Moved
  <2>2. HasFile(m)
    <3>1. m \notin doomed
      BY PastStays
    <3>2. CASE post[m].at = "STORED"
      BY <3>1, <3>2 DEF Filing, AttachmentHasFile, Stored, HasFile
    <3>3. CASE CommitPost(m)
      BY <3>3 DEF Filing, SeenHasFile, CommitPost
    <3> QED
      BY <2>1, <3>2, <3>3
  <2> QED
    BY <2>2, HasFileStays DEF Filing
<1> QED
  BY <1>1, <1>2, <1>3 DEF Filing

\* Nobody takes the file of a message away but those who delete it, or another
\* message that shares the object; and no message is stored without its object.
THEOREM MessagesKeepFiles == Spec => []AttachmentHasFile
<1>1. Init => TypeOK /\ Filing
  BY InitType, InitFiling
<1>2. TypeOK /\ Filing /\ [Next]_vars => TypeOK' /\ Filing'
  BY NextType, NextFiling
<1>3. Filing => AttachmentHasFile
  BY DEF Filing
<1> QED
  BY <1>1, <1>2, <1>3, PTL DEF Spec

----------------------------------------------------------------------------
(* Rows are not deleted unread *)

\* The messages that the job and the request may match have been committed
\* when these begin, so that none is added between their list and their DELETE:
\* all those still there then have been read.
ScopeIsOver ==
    /\ \A m \in old : Claimed(m)
    /\ \A d \in {"job", "request"} :
         /\ \A m \in deletion[d].scope : Claimed(m)
         /\ deletion[d].at \in {"files", "rows"} => Stored \cap deletion[d].scope \subseteq doomed

\* A message that was committed is stored or deleted ever after.
LEMMA ClaimedStays ==
    ASSUME TypeOK, [Next]_vars, NEW m \in Messages, Claimed(m)
    PROVE  Claimed(m)' /\ (post'[m].at = "STORED" => post[m].at = "STORED")
BY MessageMoves
   DEF Moved, Claimed, StartPost, FindUpload, HeadObject, CommitPost, RefusePost, InTransaction

\* Only stored messages become old.
LEMMA OldMoves ==
    ASSUME TypeOK, [Next]_vars
    PROVE  \A m \in old' : m \in old \/ m \in Stored
<1> USE DEF past
<1>1. ASSUME NEW k \in Keys,
             PrepareUpload(k) \/ PutObject(k) \/ UrlExpires(k) \/ UploadExpires(k)
      PROVE  old' = old
  BY <1>1 DEF PrepareUpload, PutObject, UrlExpires, UploadExpires
<1>2. ASSUME NEW m \in Messages, StartPost(m) \/ FindUpload(m) \/ HeadObject(m)
                                 \/ CommitPost(m) \/ RefusePost(m)
      PROVE  old' = old
  BY <1>2 DEF StartPost, FindUpload, HeadObject, CommitPost, RefusePost
<1>3. ASSUME NEW m \in Messages, GrowOld(m) PROVE old' = old \cup {m} /\ m \in Stored
  BY <1>3 DEF GrowOld
<1>4. CASE BeginJob \/ BeginRequest \/ BeginAccount
  BY <1>4 DEF BeginJob, BeginRequest, BeginAccount, Begin
<1>5. ASSUME NEW d \in Kinds, ReadMessages(d) \/ DeleteFiles(d) \/ DeleteRows(d) \/ Abort(d)
      PROVE  old' = old
  BY <1>5 DEF ReadMessages, DeleteFiles, DeleteRows, Abort
<1>6. CASE DropConversation
  BY <1>6 DEF DropConversation
<1>7. CASE UNCHANGED vars
  BY <1>7 DEF vars
<1> QED
  BY <1>1, <1>2, <1>3, <1>4, <1>5, <1>6, <1>7 DEF Next

LEMMA InitScope == Init => ScopeIsOver
BY DEF Init, ScopeIsOver, Idle, Kinds

LEMMA NextScope ==
    ASSUME TypeOK, ScopeIsOver, [Next]_vars
    PROVE  ScopeIsOver'
<1>0. \A m \in Stored : m \in Messages /\ Claimed(m)
  BY DEF Stored, Claimed
<1>1. \A m \in old' : Claimed(m)'
  <2> SUFFICES ASSUME NEW m \in old' PROVE Claimed(m)'
    OBVIOUS
  <2>1. m \in Messages /\ Claimed(m)
    BY <1>0, OldMoves DEF ScopeIsOver, TypeOK
  <2> QED
    BY <2>1, ClaimedStays
<1>2. ASSUME NEW d \in {"job", "request"}
      PROVE  /\ \A m \in deletion'[d].scope : Claimed(m)'
             /\ deletion'[d].at \in {"files", "rows"} =>
                  Stored' \cap deletion'[d].scope \subseteq doomed'
  <2>0. d \in Kinds /\ d # "account"
    BY DEF Kinds
  <2>1. \A m \in deletion'[d].scope : m \in Messages /\ Claimed(m)
    <3>1. deletion[d].scope \subseteq Messages
      BY <2>0 DEF TypeOK, Deletion
    <3>2. old \subseteq Messages
      BY DEF TypeOK
    <3>3. \/ deletion'[d].scope = deletion[d].scope
          \/ deletion'[d].scope = {}
          \/ deletion'[d].scope = old
          \/ deletion'[d].scope \subseteq Stored
      BY <2>0, DeletionMoves
    <3> QED
      BY <1>0, <3>1, <3>2, <3>3 DEF ScopeIsOver
  <2>2. \A m \in deletion'[d].scope : Claimed(m)'
    BY <2>1, ClaimedStays
  <2>3. ASSUME deletion'[d].at \in {"files", "rows"}
        PROVE  Stored' \cap deletion'[d].scope \subseteq doomed'
    <3>1. Stored' \cap deletion'[d].scope \subseteq Stored \cap deletion'[d].scope
      BY <2>1, ClaimedStays DEF Stored
    <3>2. CASE deletion[d].at \in {"files", "rows"} /\ deletion'[d].scope = deletion[d].scope
      BY <3>1, <3>2, PastStays DEF ScopeIsOver
    <3>3. CASE Stored \cap deletion'[d].scope \subseteq doomed'
      BY <3>1, <3>3
    <3> QED
      BY <2>0, <2>3, <3>2, <3>3, DeletionMoves
  <2> QED
    BY <2>2, <2>3
<1> QED
  BY <1>1, <1>2 DEF ScopeIsOver

\* A step that deletes the row of a message nobody has read ends the conversation.
LEMMA UnreadGoesWithAll ==
    ASSUME TypeOK, ScopeIsOver, [Next]_vars,
           NEW m \in Stored, post'[m].at = "DELETED", conversation'
    PROVE  m \in doomed
<1>0. m \in Messages /\ post[m].at = "STORED"
  BY DEF Stored
<1> USE DEF store
<1>1. ASSUME NEW n \in Messages,
             StartPost(n) \/ FindUpload(n) \/ HeadObject(n) \/ CommitPost(n) \/ RefusePost(n)
      PROVE  FALSE
  <2>1. m # n
    BY <1>0, <1>1
       DEF StartPost, FindUpload, HeadObject, CommitPost, RefusePost, InTransaction
  <2> QED
    BY <1>0, <1>1, <2>1, OneMoves
<1>2. ASSUME NEW d \in Kinds, DeleteRows(d) PROVE m \in doomed
  <2>1. d \in {"job", "request"} /\ deletion[d].at = "rows"
    BY <1>2 DEF DeleteRows, Kinds
  <2>2. m \in Matched(d)
    <3>1. post' = SetAt(Matched(d), "DELETED") /\ "DELETED" \in Phase
      BY <1>2 DEF DeleteRows, Phase
    <3>2. m \notin Matched(d) => post'[m] = post[m]
      BY <1>0, <3>1, SetAtFacts
    <3> QED
      BY <1>0, <3>2
  <2> QED
    BY <2>1, <2>2 DEF ScopeIsOver, Matched
<1>3. CASE DropConversation
  BY <1>3 DEF DropConversation
<1>4. ASSUME UNCHANGED post PROVE FALSE
  BY <1>0, <1>4
<1>5. ASSUME NEW k \in Keys,
             PrepareUpload(k) \/ PutObject(k) \/ UrlExpires(k) \/ UploadExpires(k)
      PROVE  UNCHANGED post
  BY <1>5 DEF PrepareUpload, PutObject, UrlExpires, UploadExpires
<1>6. ASSUME NEW n \in Messages, GrowOld(n) PROVE UNCHANGED post
  BY <1>6 DEF GrowOld
<1>7. CASE BeginJob \/ BeginRequest \/ BeginAccount
  BY <1>7, <1>4 DEF BeginJob, BeginRequest, BeginAccount, Begin
<1>8. ASSUME NEW d \in Kinds, ReadMessages(d) \/ DeleteFiles(d) \/ Abort(d)
      PROVE  UNCHANGED post
  BY <1>8 DEF ReadMessages, DeleteFiles, Abort
<1>9. CASE UNCHANGED vars
  BY <1>4, <1>9 DEF vars
<1> QED
  BY <1>1, <1>2, <1>3, <1>4, <1>5, <1>6, <1>7, <1>8, <1>9 DEF Next

\* The job and the request of a user delete no row whose keys they have not
\* read, whatever is posted, becomes old or is deleted between their steps.
THEOREM NoRowDeletedUnread == Spec => NoRowUnread
<1>1. Init => TypeOK /\ ScopeIsOver
  BY InitType, InitScope
<1>2. TypeOK /\ ScopeIsOver /\ [Next]_vars => TypeOK' /\ ScopeIsOver'
  BY NextType, NextScope
<1>3. TypeOK /\ ScopeIsOver /\ [Next]_vars =>
        \A m \in Stored : post'[m].at = "DELETED" /\ conversation' => m \in doomed
  BY UnreadGoesWithAll
<1>4. TypeOK /\ ScopeIsOver /\ [Next]_vars =>
        [\A m \in Stored : post'[m].at = "DELETED" /\ conversation' => m \in doomed]_vars
  BY <1>3
<1> QED
  BY <1>1, <1>2, <1>4, PTL DEF Spec, NoRowUnread
=============================================================================
