--------------------- MODULE PrivateConversationProofs ---------------------
(* Proofs about PrivateConversation, for any number of calls that overlap   *)
(* and any number of calls made.                                            *)
EXTENDS PrivateConversation, FiniteSetTheorems, TLAPS

----------------------------------------------------------------------------
(* The two users, and calls *)

\* There are two users, each the other of the other.
LEMMA OtherFacts ==
    ASSUME NEW u \in Users
    PROVE  /\ Other(u) \in Users /\ Other(u) # u
           /\ \A v \in Users : v # u => v = Other(u)
<1>1. \E v \in Users : v # u
  BY TwoUsers
<1>2. Other(u) \in Users /\ Other(u) # u
  BY <1>1 DEF Other
<1> QED
  BY <1>2, TwoUsers

LEMMA ConvFacts ==
    ASSUME TypeOK
    PROVE  /\ conv \in Nat /\ lastId \in Nat /\ conv <= lastId /\ lastId <= MaxCalls
           /\ conv \in Ids \cup {NoConv}
           /\ MaxCalls \in Nat /\ NoConv = 0
BY MaxCallsIsNat DEF TypeOK, Ids, NoConv

\* A call under way is one of Call, and has its fields.
LEMMA CallFacts ==
    ASSUME TypeOK, NEW r \in Requests, req[r] # Idle
    PROVE  /\ req[r] \in Call
           /\ req[r].at \in Step /\ req[r].actor \in Users /\ req[r].conv \in Nat
           /\ req[r].pending \subseteq Users /\ req[r].hidden \subseteq Users
           /\ req[r].seen \in [Users -> 0..MaxCalls] /\ req[r].alone \in BOOLEAN
BY MaxCallsIsNat DEF TypeOK, Call, Ids, NoConv

LEMMA IdleIsNoCall == \A c \in Call : c # Idle
BY DEF Call, Idle, Step

Calls  == [Requests -> Call \cup {Idle}]

\* The call in slot r goes on, and keeps its user and what it has read.
Keeps(r) ==
    /\ req'[r] \in Call /\ req'[r] # Idle
    /\ req'[r].actor = req[r].actor /\ req'[r].pending = req[r].pending
    /\ req'[r].hidden = req[r].hidden /\ req'[r].seen = req[r].seen

OnlyMoves(r) == req' \in Calls /\ \A q \in Requests \ {r} : req'[q] = req[q]

\* A call begins, with nothing read.
LEMMA StartFacts ==
    ASSUME TypeOK, NEW r \in Requests, NEW u \in Users, NEW step \in Step, Start(r, u, step)
    PROVE  /\ OnlyMoves(r)
           /\ step \in {"key", "find", "members"} /\ u \in account
           /\ req'[r] \in Call /\ req'[r] # Idle
           /\ req'[r].at = step /\ req'[r].actor = u
           /\ req'[r].conv = IF step = "find" THEN conv ELSE NoConv
           /\ step = "find" => conv # NoConv
           /\ req'[r].pending = Users /\ req'[r].hidden = {} /\ req'[r].seen = Never
           /\ req'[r].alone = FALSE
<1> DEFINE c == [at |-> step, actor |-> u, conv |-> IF step = "find" THEN conv ELSE NoConv,
                 pending |-> Users, hidden |-> {}, seen |-> Never, alone |-> FALSE]
<1>1. Never \in [Users -> 0..MaxCalls]
  BY MaxCallsIsNat DEF Never
<1>2. (IF step = "find" THEN conv ELSE NoConv) \in Ids \cup {NoConv}
  BY ConvFacts
<1>3. c \in Call
  BY <1>1, <1>2 DEF Call
<1>4. req'[r] = c
  BY DEF Start, TypeOK
<1>5. OnlyMoves(r)
  BY <1>3 DEF Start, TypeOK, OnlyMoves, Calls
<1>6. /\ req'[r].at = step /\ req'[r].actor = u
      /\ req'[r].conv = IF step = "find" THEN conv ELSE NoConv
      /\ req'[r].pending = Users /\ req'[r].hidden = {} /\ req'[r].seen = Never
      /\ req'[r].alone = FALSE
  BY <1>4
<1>7. /\ step \in {"key", "find", "members"} /\ u \in account
      /\ step = "find" => conv # NoConv
  BY DEF Start
<1> QED
  BY <1>3, <1>4, <1>5, <1>6, <1>7, IdleIsNoCall

LEMMA FindKeyFacts ==
    ASSUME TypeOK, NEW r \in Requests, FindKey(r)
    PROVE  /\ OnlyMoves(r) /\ Keeps(r)
           /\ req[r] # Idle /\ req[r].at = "key"
           /\ req'[r].at = IF conv = NoConv THEN "create" ELSE "write"
           /\ req'[r].conv = conv
<1>1. req[r] # Idle /\ req[r] \in Call
  BY CallFacts DEF FindKey, At
<1>2. PICK step \in Step : step = IF conv = NoConv THEN "create" ELSE "write"
  BY DEF Step
<1>3. req'[r] = [req[r] EXCEPT !.conv = conv, !.at = step]
  BY <1>2 DEF FindKey, TypeOK
<1>4. req'[r] \in Call
  BY <1>1, <1>3, ConvFacts DEF Call
<1>5. OnlyMoves(r)
  BY <1>4 DEF FindKey, TypeOK, OnlyMoves, Calls
<1>6. /\ req'[r].at = step /\ req'[r].conv = conv
      /\ req'[r].actor = req[r].actor /\ req'[r].pending = req[r].pending
      /\ req'[r].hidden = req[r].hidden /\ req'[r].seen = req[r].seen
  BY <1>1, <1>3 DEF Call
<1> QED
  BY <1>1, <1>2, <1>4, <1>5, <1>6, IdleIsNoCall DEF Keeps, FindKey, At

LEMMA ReadRowFacts ==
    ASSUME TypeOK, NEW r \in Requests, NEW u \in Users, ReadRow(r, u)
    PROVE  /\ OnlyMoves(r)
           /\ req[r] # Idle /\ req[r].at = "write"
           /\ req'[r] \in Call /\ req'[r] # Idle
           /\ req'[r].at = "write" /\ req'[r].actor = req[r].actor
           /\ req'[r].conv = req[r].conv
           /\ req'[r].pending = req[r].pending \ {u}
           /\ req[r].hidden \subseteq req'[r].hidden
           /\ req[r].conv = conv /\ row[u] = "HIDDEN" => u \in req'[r].hidden
           /\ req'[r].seen[u] = hides[u]
           /\ \A v \in Users : v # u => req'[r].seen[v] = req[r].seen[v]
<1>1. req[r] # Idle /\ req[r] \in Call
  BY CallFacts DEF ReadRow, At
<1> DEFINE h == IF req[r].conv = conv /\ row[u] = "HIDDEN" THEN req[r].hidden \cup {u}
                ELSE req[r].hidden
<1>2. h \subseteq Users /\ req[r].hidden \subseteq h
      /\ (req[r].conv = conv /\ row[u] = "HIDDEN" => u \in h)
  BY <1>1, CallFacts
<1>3. req'[r] = [req[r] EXCEPT !.pending = req[r].pending \ {u}, !.hidden = h,
                               !.seen = [req[r].seen EXCEPT ![u] = hides[u]]]
  BY <1>1 DEF ReadRow, TypeOK, Call
<1>4. [req[r].seen EXCEPT ![u] = hides[u]] \in [Users -> 0..MaxCalls]
  BY <1>1, CallFacts DEF TypeOK
<1> HIDE DEF h
<1>5. req'[r] \in Call
  BY <1>1, <1>2, <1>3, <1>4 DEF Call
<1>6. OnlyMoves(r)
  <2>1. \A q \in Requests \ {r} : req'[q] = req[q]
    BY DEF ReadRow, TypeOK
  <2>2. req' \in Calls
    BY <1>5, <2>1 DEF ReadRow, TypeOK, Calls
  <2> QED
    BY <2>1, <2>2 DEF OnlyMoves
<1>7. /\ req'[r].at = req[r].at /\ req'[r].actor = req[r].actor
      /\ req'[r].conv = req[r].conv
      /\ req'[r].pending = req[r].pending \ {u} /\ req'[r].hidden = h
      /\ req'[r].seen = [req[r].seen EXCEPT ![u] = hides[u]]
  BY <1>1, <1>3 DEF Call
<1>8. \A v \in Users : v # u => req'[r].seen[v] = req[r].seen[v]
  BY <1>1, <1>7, CallFacts
<1>9. req'[r].seen[u] = hides[u]
  BY <1>1, <1>7, CallFacts
<1> QED
  BY <1>1, <1>2, <1>5, <1>6, <1>7, <1>8, <1>9, IdleIsNoCall DEF ReadRow, At

\* A step of deletePrivateConversation that reads nothing.
LEMMA GoToFacts ==
    ASSUME TypeOK, NEW r \in Requests, req[r] # Idle, NEW step \in Step, GoTo(r, step)
    PROVE  /\ OnlyMoves(r) /\ Keeps(r)
           /\ req'[r].at = step /\ req'[r].conv = req[r].conv /\ req'[r].alone = req[r].alone
<1>1. req[r] \in Call
  BY CallFacts
<1>2. req'[r] = [req[r] EXCEPT !.at = step]
  BY DEF GoTo, TypeOK
<1>3. req'[r] \in Call
  BY <1>1, <1>2 DEF Call
<1>4. OnlyMoves(r)
  BY <1>3 DEF GoTo, TypeOK, OnlyMoves, Calls
<1> QED
  BY <1>1, <1>2, <1>3, <1>4, IdleIsNoCall DEF Call, Keeps

LEMMA CountFacts ==
    ASSUME TypeOK, NEW r \in Requests, Count(r)
    PROVE  /\ OnlyMoves(r) /\ Keeps(r)
           /\ req[r] # Idle /\ req[r].at = "count" /\ req'[r].at = "commit"
           /\ req'[r].conv = req[r].conv
           /\ req'[r].alone <=> req[r].conv # conv \/ Remaining(req[r].actor) = {}
<1>1. req[r] # Idle /\ req[r] \in Call
  BY CallFacts DEF Count, At
<1>2. /\ Keeps(r) /\ req'[r].at = "commit" /\ req'[r].conv = req[r].conv
      /\ req'[r].alone <=> req[r].conv # conv \/ Remaining(req[r].actor) = {}
  <2>1. CASE req[r].conv # conv \/ Remaining(req[r].actor) = {}
    <3>1. req'[r] = [req[r] EXCEPT !.at = "commit", !.alone = TRUE]
      BY <2>1 DEF Count, TypeOK
    <3>2. Keeps(r) /\ req'[r].at = "commit" /\ req'[r].conv = req[r].conv /\ req'[r].alone
      BY <1>1, <3>1, IdleIsNoCall DEF Call, Keeps, Step
    <3> QED
      BY <2>1, <3>2
  <2>2. CASE ~(req[r].conv # conv \/ Remaining(req[r].actor) = {})
    <3>1. req'[r] = [req[r] EXCEPT !.at = "commit", !.alone = FALSE]
      BY <2>2 DEF Count, TypeOK
    <3>2. Keeps(r) /\ req'[r].at = "commit" /\ req'[r].conv = req[r].conv /\ ~req'[r].alone
      BY <1>1, <3>1, IdleIsNoCall DEF Call, Keeps, Step
    <3> QED
      BY <2>2, <3>2
  <2> QED
    BY <2>1, <2>2
<1>3. OnlyMoves(r)
  <2>1. \A q \in Requests \ {r} : req'[q] = req[q]
    BY DEF Count, TypeOK
  <2>2. req' \in Calls
    BY <1>2, <2>1 DEF Count, TypeOK, Calls, Keeps
  <2> QED
    BY <2>1, <2>2 DEF OnlyMoves
<1> QED
  BY <1>1, <1>2, <1>3 DEF Count, At

LEMMA FindLonelyFacts ==
    ASSUME TypeOK, NEW r \in Requests, FindLonely(r)
    PROVE  /\ OnlyMoves(r) /\ Keeps(r)
           /\ req[r] # Idle /\ req[r].at = "members" /\ req'[r].at = "erase"
           /\ req'[r].conv = conv
           /\ req'[r].alone <=> row[req[r].actor] # "NONE" /\ row[Other(req[r].actor)] = "NONE"
<1> DEFINE P == row[req[r].actor] # "NONE" /\ row[Other(req[r].actor)] = "NONE"
<1>1. req[r] # Idle /\ req[r] \in Call
  BY CallFacts DEF FindLonely, At
<1>2. /\ Keeps(r) /\ req'[r].at = "erase" /\ req'[r].conv = conv
      /\ req'[r].alone <=> P
  <2>1. CASE P
    <3>1. req'[r] = [req[r] EXCEPT !.at = "erase", !.conv = conv, !.alone = TRUE]
      BY <2>1 DEF FindLonely, TypeOK
    <3>2. Keeps(r) /\ req'[r].at = "erase" /\ req'[r].conv = conv /\ req'[r].alone
      BY <1>1, <3>1, IdleIsNoCall, ConvFacts DEF Call, Keeps, Step
    <3> QED
      BY <2>1, <3>2
  <2>2. CASE ~P
    <3>1. req'[r] = [req[r] EXCEPT !.at = "erase", !.conv = conv, !.alone = FALSE]
      BY <2>2 DEF FindLonely, TypeOK
    <3>2. Keeps(r) /\ req'[r].at = "erase" /\ req'[r].conv = conv /\ ~req'[r].alone
      BY <1>1, <3>1, IdleIsNoCall, ConvFacts DEF Call, Keeps, Step
    <3> QED
      BY <2>2, <3>2
  <2> QED
    BY <2>1, <2>2
<1>3. OnlyMoves(r)
  <2>1. \A q \in Requests \ {r} : req'[q] = req[q]
    BY DEF FindLonely, TypeOK
  <2>2. req' \in Calls
    BY <1>2, <2>1 DEF FindLonely, TypeOK, Calls, Keeps
  <2> QED
    BY <2>1, <2>2 DEF OnlyMoves
<1> QED
  BY <1>1, <1>2, <1>3 DEF FindLonely, At

\* A call that is answered.
LEMMA EndFacts ==
    ASSUME TypeOK, NEW r \in Requests, End(r)
    PROVE  OnlyMoves(r) /\ req'[r] = Idle
BY DEF TypeOK, End, OnlyMoves, Calls

----------------------------------------------------------------------------
(* Ids, and the bound on calls *)

Active     == {r \in Requests : req[r] # Idle}
MayCreate  == {r \in Active : req[r].at \in {"key", "create"}}
MayHide(u) == {r \in Active : /\ req[r].actor = u
                              /\ req[r].at \in {"find", "mark", "count", "commit"}}

\* Every conversation, and every time one is hidden, is the work of a call of its own.
Counted ==
    /\ IsFiniteSet(Active)
    /\ lastId + Cardinality(MayCreate) <= calls
    /\ \A u \in Users : hides[u] + Cardinality(MayHide(u)) <= calls

\* The conversation a call works on was created before; and nothing is read before it.
IdsKnown ==
    \A r \in Requests : req[r] # Idle =>
        /\ req[r].conv <= lastId
        /\ req[r].at \in {"write", "find", "mark", "count", "commit"} => req[r].conv # NoConv
        /\ req[r].at \in {"key", "create"} => req[r].pending = Users

Typed == TypeOK /\ Counted /\ IdsKnown

\* The cardinality of a set of calls after a step of one of them.
LEMMA CardFacts ==
    ASSUME NEW S, IsFiniteSet(S), NEW T, NEW r
    PROVE  /\ Cardinality(S) \in Nat
           /\ T \subseteq S => IsFiniteSet(T) /\ Cardinality(T) \in Nat
                               /\ Cardinality(T) <= Cardinality(S)
           /\ T \subseteq S \cup {r} => IsFiniteSet(T) /\ Cardinality(T) \in Nat
                               /\ Cardinality(T) <= Cardinality(S) + 1
           /\ r \in S /\ T \subseteq S \ {r} =>
                IsFiniteSet(T) /\ Cardinality(T) \in Nat /\ Cardinality(T) + 1 <= Cardinality(S)
<1>1. Cardinality(S) \in Nat
  BY FS_CardinalityType
<1>2. ASSUME T \subseteq S
      PROVE  IsFiniteSet(T) /\ Cardinality(T) \in Nat /\ Cardinality(T) <= Cardinality(S)
  BY <1>2, FS_Subset, FS_CardinalityType
<1>3. ASSUME T \subseteq S \cup {r}
      PROVE  IsFiniteSet(T) /\ Cardinality(T) \in Nat /\ Cardinality(T) <= Cardinality(S) + 1
  <2>1. IsFiniteSet(S \cup {r}) /\ Cardinality(S \cup {r}) <= Cardinality(S) + 1
        /\ Cardinality(S \cup {r}) \in Nat
    BY <1>1, FS_AddElement, FS_CardinalityType
  <2>2. IsFiniteSet(T) /\ Cardinality(T) \in Nat /\ Cardinality(T) <= Cardinality(S \cup {r})
    BY <1>3, <2>1, FS_Subset, FS_CardinalityType
  <2> QED
    BY <1>1, <2>1, <2>2
<1>4. ASSUME r \in S, T \subseteq S \ {r}
      PROVE  IsFiniteSet(T) /\ Cardinality(T) \in Nat /\ Cardinality(T) + 1 <= Cardinality(S)
  <2>1. IsFiniteSet(S \ {r}) /\ Cardinality(S \ {r}) = Cardinality(S) - 1
        /\ Cardinality(S \ {r}) \in Nat
    BY <1>4, FS_RemoveElement, FS_CardinalityType
  <2>2. IsFiniteSet(T) /\ Cardinality(T) \in Nat /\ Cardinality(T) <= Cardinality(S \ {r})
    BY <1>4, <2>1, FS_Subset, FS_CardinalityType
  <2> QED
    BY <1>1, <2>1, <2>2
<1> QED
  BY <1>1, <1>2, <1>3, <1>4

LEMMA ActiveFinite ==
    ASSUME Counted
    PROVE  /\ IsFiniteSet(Active) /\ IsFiniteSet(MayCreate)
           /\ \A u \in Users : IsFiniteSet(MayHide(u))
<1>1. MayCreate \subseteq Active /\ \A u \in Users : MayHide(u) \subseteq Active
  BY DEF MayCreate, MayHide
<1> QED
  BY <1>1, FS_Subset DEF Counted

\* There is room for the id and the count that a call still has to give.
LEMMA CreateHasRoom ==
    ASSUME TypeOK, Counted, NEW r \in Requests, At(r, "create")
    PROVE  lastId + 1 \in 0..MaxCalls
<1>1. r \in MayCreate
  BY DEF At, MayCreate, Active
<1>2. Cardinality(MayCreate) \in Nat /\ Cardinality(MayCreate) >= 1
  BY <1>1, ActiveFinite, FS_CardinalityType, FS_EmptySet
<1>3. lastId \in Nat /\ calls \in 0..MaxCalls /\ MaxCalls \in Nat
  BY ConvFacts DEF TypeOK
<1> QED
  BY <1>2, <1>3 DEF Counted

LEMMA HideHasRoom ==
    ASSUME TypeOK, Counted, NEW r \in Requests, At(r, "commit")
    PROVE  hides[req[r].actor] + 1 \in 0..MaxCalls
<1> DEFINE u == req[r].actor
<1>0. u \in Users
  BY CallFacts DEF At
<1>1. r \in MayHide(u)
  BY DEF At, MayHide, Active
<1>2. Cardinality(MayHide(u)) \in Nat /\ Cardinality(MayHide(u)) >= 1
  BY <1>0, <1>1, ActiveFinite, FS_CardinalityType, FS_EmptySet
<1>3. hides[u] \in Nat /\ calls \in 0..MaxCalls /\ MaxCalls \in Nat
  BY <1>0, ConvFacts DEF TypeOK
<1>4. hides[u] + Cardinality(MayHide(u)) <= calls
  BY <1>0 DEF Counted
<1> QED
  BY <1>2, <1>3, <1>4

----------------------------------------------------------------------------
(* Types *)

LEMMA InitType == Init => Typed
<1> SUFFICES ASSUME Init PROVE Typed
  OBVIOUS
<1>1. TypeOK
  <2>1. conv \in 0..lastId /\ lastId \in Ids \cup {NoConv} /\ calls \in 0..MaxCalls
    BY MaxCallsIsNat DEF Init, NoConv, Ids
  <2>2. row \in [Users -> RowState] /\ hides \in [Users -> 0..MaxCalls]
    BY MaxCallsIsNat DEF Init, NoRows, Never, RowState
  <2>3. req \in [Requests -> Call \cup {Idle}]
    BY DEF Init
  <2> QED
    BY <2>1, <2>2, <2>3 DEF Init, TypeOK
<1>2. Active = {} /\ MayCreate = {} /\ \A u \in Users : MayHide(u) = {}
  BY DEF Init, Active, MayCreate, MayHide
<1>3. Counted
  BY <1>2, FS_EmptySet DEF Init, Counted, Never, NoConv
<1>4. IdsKnown
  BY DEF Init, IdsKnown
<1> QED
  BY <1>1, <1>3, <1>4 DEF Typed

\* The new row of a message, and the rows it leaves behind.
LEMMA WriteFacts ==
    ASSUME TypeOK, NEW r \in Requests, Write(r)
    PROVE  LET u == req[r].actor
               m == [from |-> u, to |-> Other(u), seen |-> req[r].seen] IN
           /\ OnlyMoves(r) /\ req'[r] = Idle
           /\ req[r] # Idle /\ req[r].at = "write" /\ req[r].conv = conv
           /\ req[r].pending = {}
           /\ u \in Users /\ u \in account
           /\ m \in Message /\ messages' = messages \cup {m}
           /\ m.from = u /\ m.to = Other(u) /\ m.seen = req[r].seen
           /\ row' \in [Users -> RowState]
           /\ \A v \in Users : /\ row'[v] = "NONE" <=> row[v] = "NONE"
                               /\ row'[v] = "HIDDEN" =>
                                    row[v] = "HIDDEN" /\ v \notin req[r].hidden
                               /\ row[v] = "SHOWN" => row'[v] = "SHOWN"
           /\ UNCHANGED <<account, conv, lastId, calls, past>>
<1> DEFINE u == req[r].actor
           m == [from |-> u, to |-> Other(u), seen |-> req[r].seen]
<1>1. req[r] # Idle /\ req[r].at = "write"
  BY DEF Write, At
<1>2. u \in Users /\ req[r].seen \in [Users -> 0..MaxCalls]
  BY <1>1, CallFacts
<1>3. m \in Message
  BY <1>2, OtherFacts DEF Message
<1>4. row' = [v \in Users |-> IF v \in req[r].hidden /\ row[v] # "NONE" THEN "SHOWN" ELSE row[v]]
  BY DEF Write, Restored
<1>5. /\ row' \in [Users -> RowState]
      /\ \A v \in Users : /\ row'[v] = "NONE" <=> row[v] = "NONE"
                          /\ row'[v] = "HIDDEN" => row[v] = "HIDDEN" /\ v \notin req[r].hidden
                          /\ row[v] = "SHOWN" => row'[v] = "SHOWN"
  BY <1>4 DEF TypeOK, RowState
<1>6. OnlyMoves(r) /\ req'[r] = Idle
  BY EndFacts DEF Write
<1>7. m.from = u /\ m.to = Other(u) /\ m.seen = req[r].seen
  OBVIOUS
<1>8. messages' = messages \cup {m}
  BY DEF Write
<1> HIDE DEF m
<1>9. /\ req[r].conv = conv /\ req[r].pending = {} /\ u \in account
      /\ UNCHANGED <<account, conv, lastId, calls, past>>
  BY DEF Write
<1> QED
  BY <1>1, <1>2, <1>3, <1>5, <1>6, <1>7, <1>8, <1>9 DEF m

\* What becomes of a message whose sender's account is deleted.
LEMMA EraseMessages ==
    ASSUME TypeOK, NEW u \in Users,
           messages' = {[m EXCEPT !.from = IF @ = u THEN Nobody ELSE @] : m \in messages}
    PROVE  /\ messages' \in SUBSET Message
           /\ messages = {} => messages' = {}
           /\ \A n \in messages' : \E m \in messages :
                /\ n.to = m.to /\ n.seen = m.seen
                /\ n.from = Nobody \/ (n.from = m.from /\ n.from # u)
<1> DEFINE Renamed(m) == [m EXCEPT !.from = IF m.from = u THEN Nobody ELSE m.from]
<1>1. ASSUME NEW m \in messages
      PROVE  /\ Renamed(m) \in Message
             /\ Renamed(m).to = m.to /\ Renamed(m).seen = m.seen
             /\ \/ Renamed(m).from = Nobody
                \/ Renamed(m).from = m.from /\ Renamed(m).from # u
  BY DEF TypeOK, Message
<1>2. messages' = {Renamed(m) : m \in messages}
  OBVIOUS
<1> HIDE DEF Renamed
<1> QED
  BY <1>1, <1>2

\* A step of a call that creates and hides nothing, and becomes no such call.
LEMMA CountedKept ==
    ASSUME TypeOK, Counted, NEW r \in Requests, OnlyMoves(r), req[r] # Idle,
           UNCHANGED <<lastId, hides, calls>>,
           req'[r] # Idle /\ req'[r].at \in {"key", "create"} => req[r].at \in {"key", "create"},
           req'[r] # Idle /\ req'[r].at \in {"find", "mark", "count", "commit"} =>
             /\ req[r].at \in {"find", "mark", "count", "commit"}
             /\ req'[r].actor = req[r].actor
    PROVE  Counted'
<1>1. Active' \subseteq Active /\ MayCreate' \subseteq MayCreate
  BY DEF OnlyMoves, Active, MayCreate
<1>2. \A u \in Users : MayHide(u)' \subseteq MayHide(u)
  BY DEF OnlyMoves, Active, MayHide
<1>3. IsFiniteSet(Active')
  BY <1>1, ActiveFinite, FS_Subset
<1>4. lastId' + Cardinality(MayCreate') <= calls'
  <2>1. Cardinality(MayCreate') \in Nat /\ Cardinality(MayCreate) \in Nat
        /\ Cardinality(MayCreate') <= Cardinality(MayCreate)
    BY <1>1, ActiveFinite, CardFacts
  <2>2. lastId + Cardinality(MayCreate) <= calls /\ lastId \in Nat /\ calls \in Nat
    BY ConvFacts DEF Counted, TypeOK
  <2> QED
    BY <2>1, <2>2
<1>5. ASSUME NEW u \in Users PROVE hides'[u] + Cardinality(MayHide(u)') <= calls'
  <2>1. Cardinality(MayHide(u)') \in Nat /\ Cardinality(MayHide(u)) \in Nat
        /\ Cardinality(MayHide(u)') <= Cardinality(MayHide(u))
    BY <1>2, ActiveFinite, CardFacts
  <2>2. hides[u] + Cardinality(MayHide(u)) <= calls /\ hides[u] \in Nat /\ calls \in Nat
    BY DEF Counted, TypeOK
  <2> QED
    BY <2>1, <2>2
<1> QED
  BY <1>3, <1>4, <1>5 DEF Counted

LEMMA StartCounted ==
    ASSUME TypeOK, Counted, NEW r \in Requests, NEW u \in Users, NEW step \in Step,
           Start(r, u, step)
    PROVE  Counted'
<1>0. OnlyMoves(r) /\ calls' = calls + 1 /\ UNCHANGED <<lastId, hides>>
  BY StartFacts DEF Start, db, past
<1>1. /\ Active' \subseteq Active \cup {r} /\ MayCreate' \subseteq MayCreate \cup {r}
      /\ \A v \in Users : MayHide(v)' \subseteq MayHide(v) \cup {r}
  BY <1>0 DEF OnlyMoves, Active, MayCreate, MayHide
<1>2. IsFiniteSet(Active')
  BY <1>1, ActiveFinite, CardFacts
<1>3. lastId' + Cardinality(MayCreate') <= calls'
  <2>1. Cardinality(MayCreate') \in Nat /\ Cardinality(MayCreate) \in Nat
        /\ Cardinality(MayCreate') <= Cardinality(MayCreate) + 1
    BY <1>1, ActiveFinite, CardFacts
  <2>2. lastId + Cardinality(MayCreate) <= calls /\ lastId \in Nat /\ calls \in Nat
    BY ConvFacts DEF Counted, TypeOK
  <2> QED
    BY <1>0, <2>1, <2>2
<1>4. ASSUME NEW v \in Users PROVE hides'[v] + Cardinality(MayHide(v)') <= calls'
  <2>1. Cardinality(MayHide(v)') \in Nat /\ Cardinality(MayHide(v)) \in Nat
        /\ Cardinality(MayHide(v)') <= Cardinality(MayHide(v)) + 1
    BY <1>1, ActiveFinite, CardFacts
  <2>2. hides[v] + Cardinality(MayHide(v)) <= calls /\ hides[v] \in Nat /\ calls \in Nat
    BY DEF Counted, TypeOK
  <2> QED
    BY <1>0, <2>1, <2>2
<1> QED
  BY <1>2, <1>3, <1>4 DEF Counted

\* Create and Commit use up the call that was to create or to hide.
LEMMA CreateFacts ==
    ASSUME TypeOK, Counted, NEW r \in Requests, Create(r)
    PROVE  /\ OnlyMoves(r) /\ Keeps(r)
           /\ req[r] # Idle /\ req[r].at = "create"
           /\ req'[r].at = "write" /\ req'[r].conv = lastId + 1
           /\ lastId' = lastId + 1 /\ conv' = lastId + 1
           /\ lastId + 1 \in Nat /\ lastId + 1 <= MaxCalls
           /\ conv = NoConv /\ account = Users
           /\ row' = [u \in Users |-> "SHOWN"]
           /\ UNCHANGED <<account, messages, calls, past>>
<1>1. At(r, "create") /\ req[r] # Idle /\ req[r].at = "create" /\ req[r] \in Call
  BY CallFacts DEF Create, At
<1>2. lastId + 1 \in Nat /\ lastId + 1 <= MaxCalls /\ lastId + 1 \in Ids
  BY <1>1, ConvFacts, CreateHasRoom DEF Ids
<1>3. req' = [req EXCEPT ![r] = [req[r] EXCEPT !.conv = lastId + 1, !.at = "write"]]
  BY DEF Create, TypeOK
<1>4. req'[r] = [req[r] EXCEPT !.conv = lastId + 1, !.at = "write"]
  BY <1>3 DEF TypeOK
<1>5. req'[r] \in Call
  BY <1>1, <1>2, <1>4 DEF Call, Step
<1>6. OnlyMoves(r)
  BY <1>3, <1>4, <1>5 DEF TypeOK, OnlyMoves, Calls
<1>7. /\ req'[r].at = "write" /\ req'[r].conv = lastId + 1
      /\ req'[r].actor = req[r].actor /\ req'[r].pending = req[r].pending
      /\ req'[r].hidden = req[r].hidden /\ req'[r].seen = req[r].seen
  BY <1>1, <1>4 DEF Call
<1>8. Keeps(r)
  BY <1>5, <1>7, IdleIsNoCall DEF Keeps
<1> QED
  BY <1>1, <1>2, <1>6, <1>7, <1>8 DEF Create

LEMMA CreateCounted ==
    ASSUME TypeOK, Counted, NEW r \in Requests, Create(r)
    PROVE  Counted'
<1>0. /\ OnlyMoves(r) /\ lastId' = lastId + 1 /\ UNCHANGED <<hides, calls>>
      /\ req[r] # Idle /\ req[r].at = "create" /\ req'[r].at = "write"
  BY CreateFacts DEF past
<1>1. /\ Active' \subseteq Active /\ r \in MayCreate /\ MayCreate' \subseteq MayCreate \ {r}
      /\ \A v \in Users : MayHide(v)' \subseteq MayHide(v)
  BY <1>0 DEF OnlyMoves, Active, MayCreate, MayHide
<1>2. IsFiniteSet(Active')
  BY <1>1, ActiveFinite, FS_Subset
<1>3. lastId' + Cardinality(MayCreate') <= calls'
  <2>1. Cardinality(MayCreate') \in Nat /\ Cardinality(MayCreate) \in Nat
        /\ Cardinality(MayCreate') + 1 <= Cardinality(MayCreate)
    BY <1>1, ActiveFinite, CardFacts
  <2>2. lastId + Cardinality(MayCreate) <= calls /\ lastId \in Nat /\ calls \in Nat
    BY ConvFacts DEF Counted, TypeOK
  <2> QED
    BY <1>0, <2>1, <2>2
<1>4. ASSUME NEW v \in Users PROVE hides'[v] + Cardinality(MayHide(v)') <= calls'
  <2>1. Cardinality(MayHide(v)') \in Nat /\ Cardinality(MayHide(v)) \in Nat
        /\ Cardinality(MayHide(v)') <= Cardinality(MayHide(v))
    BY <1>1, ActiveFinite, CardFacts
  <2>2. hides[v] + Cardinality(MayHide(v)) <= calls /\ hides[v] \in Nat /\ calls \in Nat
    BY DEF Counted, TypeOK
  <2> QED
    BY <1>0, <2>1, <2>2
<1> QED
  BY <1>2, <1>3, <1>4 DEF Counted

\* What Commit does: drop, hide, or nothing.
LEMMA CommitFacts ==
    ASSUME TypeOK, Counted, NEW r \in Requests, Commit(r)
    PROVE  LET u == req[r].actor IN
           /\ OnlyMoves(r) /\ req'[r] = Idle
           /\ req[r] # Idle /\ req[r].at = "commit" /\ u \in Users
           /\ UNCHANGED <<account, lastId, calls, crossed>>
           /\ hides' \in [Users -> 0..MaxCalls]
           /\ \A v \in Users : v # u => hides'[v] = hides[v]
           /\ \/ /\ req[r].conv = conv /\ req[r].alone /\ ~Locked(Other(u))
                 /\ conv' = NoConv /\ messages' = {} /\ row' = NoRows
                 /\ hides'[u] = hides[u] + 1
              \/ /\ req[r].conv = conv /\ ~req[r].alone /\ row[u] # "NONE"
                 /\ row' = [row EXCEPT ![u] = "HIDDEN"] /\ UNCHANGED <<conv, messages>>
                 /\ hides'[u] = hides[u] + 1
              \/ UNCHANGED <<conv, row, messages, hides>>
<1> DEFINE u == req[r].actor
<1>1. At(r, "commit") /\ req[r] # Idle /\ req[r].at = "commit"
  BY DEF Commit, At
<1>2. u \in Users /\ hides[u] + 1 \in 0..MaxCalls
  BY <1>1, CallFacts, HideHasRoom
<1>3. OnlyMoves(r) /\ req'[r] = Idle
  BY EndFacts DEF Commit
<1>4. hides' = hides \/ hides' = [hides EXCEPT ![u] = @ + 1]
  BY DEF Commit
<1>5. /\ hides' \in [Users -> 0..MaxCalls]
      /\ \A v \in Users : v # u => hides'[v] = hides[v]
  BY <1>2, <1>4 DEF TypeOK
<1>6. hides' = [hides EXCEPT ![u] = @ + 1] => hides'[u] = hides[u] + 1
  BY <1>2 DEF TypeOK
<1>7. \/ /\ req[r].conv = conv /\ req[r].alone /\ ~Locked(Other(u))
         /\ conv' = NoConv /\ messages' = {} /\ row' = NoRows
         /\ hides'[u] = hides[u] + 1
      \/ /\ req[r].conv = conv /\ ~req[r].alone /\ row[u] # "NONE"
         /\ row' = [row EXCEPT ![u] = "HIDDEN"] /\ UNCHANGED <<conv, messages>>
         /\ hides'[u] = hides[u] + 1
      \/ UNCHANGED <<conv, row, messages, hides>>
  BY <1>6 DEF Commit, DropConversation
<1>8. UNCHANGED <<account, lastId, calls, crossed>>
  BY DEF Commit
<1> QED
  BY <1>1, <1>2, <1>3, <1>5, <1>7, <1>8

LEMMA CommitCounted ==
    ASSUME TypeOK, Counted, NEW r \in Requests, Commit(r)
    PROVE  Counted'
<1>0. /\ OnlyMoves(r) /\ req'[r] = Idle /\ UNCHANGED <<lastId, calls>>
      /\ req[r] # Idle /\ req[r].at = "commit" /\ req[r].actor \in Users
  BY CommitFacts
<1>u. PICK u \in Users : u = req[r].actor
  BY <1>0
<1>1. /\ Active' \subseteq Active /\ MayCreate' \subseteq MayCreate
      /\ r \in MayHide(u) /\ MayHide(u)' \subseteq MayHide(u) \ {r}
      /\ \A v \in Users : MayHide(v)' \subseteq MayHide(v)
  BY <1>0, <1>u DEF OnlyMoves, Active, MayCreate, MayHide
<1>2. IsFiniteSet(Active')
  BY <1>1, ActiveFinite, FS_Subset
<1>3. lastId' + Cardinality(MayCreate') <= calls'
  <2>1. Cardinality(MayCreate') \in Nat /\ Cardinality(MayCreate) \in Nat
        /\ Cardinality(MayCreate') <= Cardinality(MayCreate)
    BY <1>1, ActiveFinite, CardFacts
  <2>2. lastId + Cardinality(MayCreate) <= calls /\ lastId \in Nat /\ calls \in Nat
    BY ConvFacts DEF Counted, TypeOK
  <2> QED
    BY <1>0, <2>1, <2>2
<1>4. ASSUME NEW v \in Users PROVE hides'[v] + Cardinality(MayHide(v)') <= calls'
  <2>1. Cardinality(MayHide(v)') \in Nat /\ Cardinality(MayHide(v)) \in Nat
        /\ Cardinality(MayHide(v)') <= Cardinality(MayHide(v))
    BY <1>1, ActiveFinite, CardFacts
  <2>2. hides[v] + Cardinality(MayHide(v)) <= calls /\ hides[v] \in Nat /\ calls \in Nat
    BY DEF Counted, TypeOK
  <2>3. CASE v # u
    <3>1. hides'[v] = hides[v]
      BY <1>u, <2>3, CommitFacts
    <3> QED
      BY <1>0, <2>1, <2>2, <3>1
  <2>4. CASE v = u
    <3>1. Cardinality(MayHide(u)') + 1 <= Cardinality(MayHide(u))
      BY <1>0, <1>1, ActiveFinite, CardFacts
    <3>2. hides'[u] = hides[u] + 1 \/ hides' = hides
      BY <1>u, CommitFacts
    <3> QED
      BY <1>0, <2>1, <2>2, <2>4, <3>1, <3>2
  <2> QED
    BY <2>3, <2>4
<1> QED
  BY <1>2, <1>3, <1>4 DEF Counted

\* What Erase does: drop, or take the user's row and name away.
LEMMA EraseFacts ==
    ASSUME TypeOK, NEW r \in Requests, Erase(r)
    PROVE  LET u == req[r].actor IN
           /\ OnlyMoves(r) /\ req'[r] = Idle
           /\ req[r] # Idle /\ req[r].at = "erase" /\ u \in Users
           /\ account' = account \ {u}
           /\ \/ /\ req[r].alone /\ req[r].conv = conv
                 /\ conv' = NoConv /\ messages' = {} /\ row' = NoRows
              \/ /\ ~(req[r].alone /\ req[r].conv = conv)
                 /\ row' = [row EXCEPT ![u] = "NONE"] /\ conv' = conv
                 /\ messages' \in SUBSET Message
                 /\ messages = {} => messages' = {}
                 /\ \A n \in messages' : \E m \in messages :
                      /\ n.to = m.to /\ n.seen = m.seen
                      /\ n.from = Nobody \/ (n.from = m.from /\ n.from # u)
           /\ UNCHANGED <<lastId, calls, past>>
<1>1. req[r] # Idle /\ req[r].at = "erase" /\ req[r].actor \in Users
  BY CallFacts DEF Erase, At
<1>2. OnlyMoves(r) /\ req'[r] = Idle
  BY EndFacts DEF Erase
<1>3. CASE req[r].alone /\ req[r].conv = conv
  BY <1>1, <1>2, <1>3 DEF Erase, DropConversation
<1>4. CASE ~(req[r].alone /\ req[r].conv = conv)
  <2>1. /\ row' = [row EXCEPT ![req[r].actor] = "NONE"] /\ conv' = conv
        /\ messages' = {[m EXCEPT !.from = IF @ = req[r].actor THEN Nobody ELSE @] : m \in messages}
    BY <1>4 DEF Erase
  <2>2. /\ messages' \in SUBSET Message
        /\ messages = {} => messages' = {}
        /\ \A n \in messages' : \E m \in messages :
             /\ n.to = m.to /\ n.seen = m.seen
             /\ n.from = Nobody \/ (n.from = m.from /\ n.from # req[r].actor)
    <3> DEFINE u == req[r].actor
    <3>1. u \in Users
      BY <1>1
    <3>2. messages' = {[m EXCEPT !.from = IF @ = u THEN Nobody ELSE @] : m \in messages}
      BY <2>1
    <3> HIDE DEF u
    <3>3. /\ messages' \in SUBSET Message
          /\ messages = {} => messages' = {}
          /\ \A n \in messages' : \E m \in messages :
               /\ n.to = m.to /\ n.seen = m.seen
               /\ n.from = Nobody \/ (n.from = m.from /\ n.from # u)
      BY <3>1, <3>2, EraseMessages
    <3> QED
      BY <3>3 DEF u
  <2>3. account' = account \ {req[r].actor} /\ UNCHANGED <<lastId, calls, past>>
    BY DEF Erase
  <2> QED
    BY <1>1, <1>2, <1>4, <2>1, <2>2, <2>3
<1> QED
  BY <1>3, <1>4

\* Steps that only move the call of one slot.
QuietStep(r) ==
    \/ FindKey(r) \/ (\E u \in Users : ReadRow(r, u))
    \/ FindMember(r) \/ Mark(r) \/ Count(r) \/ FindLonely(r) \/ Fail(r)

LEMMA QuietFacts ==
    ASSUME TypeOK, NEW r \in Requests, QuietStep(r)
    PROVE  /\ OnlyMoves(r) /\ req[r] # Idle /\ UNCHANGED <<db, calls, hides>>
           /\ crossed' \in BOOLEAN
           /\ \/ req'[r] = Idle
              \/ /\ req'[r] \in Call /\ req'[r] # Idle /\ req'[r].actor = req[r].actor
                 /\ req'[r].conv = req[r].conv \/ req'[r].conv = conv
                 /\ <<req[r].at, req'[r].at>> \in
                      {<<"key", "create">>, <<"key", "write">>, <<"write", "write">>,
                       <<"find", "mark">>, <<"mark", "count">>, <<"count", "commit">>,
                       <<"members", "erase">>}
                 /\ req'[r].at = "create" => req'[r].pending = req[r].pending
                 /\ req[r].at = "key" /\ req'[r].at = "write" => req'[r].conv # NoConv
                 /\ req[r].at # "key" /\ req[r].at # "members" => req'[r].conv = req[r].conv
<1> USE DEF past
<1>1. CASE FindKey(r)
  <2>1. UNCHANGED <<db, calls, past>> /\ crossed' \in BOOLEAN
    BY <1>1 DEF FindKey, TypeOK
  <2>2. /\ OnlyMoves(r) /\ req[r] # Idle /\ req'[r] \in Call /\ req'[r] # Idle
        /\ req'[r].actor = req[r].actor /\ req'[r].pending = req[r].pending
        /\ req'[r].conv = conv /\ req[r].at = "key"
        /\ \/ req'[r].at = "create"
           \/ req'[r].at = "write" /\ conv # NoConv
    BY <1>1, FindKeyFacts DEF Keeps
  <2> QED
    BY <2>1, <2>2
<1>2. ASSUME NEW u \in Users, ReadRow(r, u)
      PROVE  /\ OnlyMoves(r) /\ req[r] # Idle /\ UNCHANGED <<db, calls, past>>
             /\ req'[r] \in Call /\ req'[r] # Idle /\ req'[r].actor = req[r].actor
             /\ req'[r].conv = req[r].conv /\ req[r].at = "write" /\ req'[r].at = "write"
  BY <1>2, ReadRowFacts DEF ReadRow
<1>3. CASE FindMember(r) \/ Mark(r)
  <2>1. PICK step \in {"mark", "count"} :
           /\ GoTo(r, step) /\ req[r] # Idle
           /\ req[r].at = IF step = "mark" THEN "find" ELSE "mark"
    BY <1>3 DEF FindMember, Mark, At
  <2>2. /\ OnlyMoves(r) /\ Keeps(r)
        /\ req'[r].at = step /\ req'[r].conv = req[r].conv
    BY <2>1, GoToFacts DEF Step
  <2>3. UNCHANGED <<db, calls, hides>> /\ crossed' \in BOOLEAN
    BY <1>3 DEF FindMember, Mark, Begin, TypeOK
  <2> QED
    BY <2>1, <2>2, <2>3 DEF Keeps
<1>4. CASE Count(r)
  <2>1. UNCHANGED <<db, calls, past>>
    BY <1>4 DEF Count
  <2> QED
    BY <1>4, <2>1, CountFacts DEF Keeps, TypeOK
<1>5. CASE FindLonely(r)
  <2>1. UNCHANGED <<db, calls, hides>> /\ crossed' \in BOOLEAN
    BY <1>5 DEF FindLonely, Begin
  <2> QED
    BY <1>5, <2>1, FindLonelyFacts DEF Keeps
<1>6. CASE Fail(r)
  BY <1>6, EndFacts DEF Fail, TypeOK
<1>7. crossed \in BOOLEAN
  BY DEF TypeOK
<1>8. CASE \E u \in Users : ReadRow(r, u)
  BY <1>2, <1>7, <1>8
<1> QED
  BY <1>1, <1>3, <1>4, <1>5, <1>6, <1>8 DEF QuietStep

LEMMA NextType == Typed /\ [Next]_vars => Typed'
<1> SUFFICES ASSUME TypeOK, Counted, IdsKnown, [Next]_vars PROVE Typed'
  BY DEF Typed
<1> USE DEF Typed, past
<1>1. ASSUME NEW r \in Requests, NEW u \in Users, NEW step \in Step, Start(r, u, step)
      PROVE  Typed'
  <2>1. UNCHANGED <<db, past>> /\ calls' \in 0..MaxCalls
    BY <1>1, MaxCallsIsNat DEF Start, TypeOK
  <2>2. TypeOK'
    BY <1>1, <2>1, StartFacts DEF TypeOK, db, OnlyMoves, Calls
  <2>3. IdsKnown'
    <3>1. conv \in Nat /\ lastId \in Nat /\ conv <= lastId /\ NoConv = 0
      BY ConvFacts
    <3>2. /\ req'[r].conv = conv \/ req'[r].conv = NoConv
          /\ req'[r].at = "find" => req'[r].conv # NoConv
          /\ req'[r].at \in {"key", "find", "members"} /\ req'[r].pending = Users
      BY <1>1, StartFacts
    <3>3. OnlyMoves(r)
      BY <1>1, StartFacts
    <3>4. \A q \in Requests : q # r => req'[q] = req[q]
      BY <3>3 DEF OnlyMoves
    <3> QED
      BY <2>1, <3>1, <3>2, <3>4 DEF IdsKnown, db
  <2> QED
    BY <1>1, <2>2, <2>3, StartCounted
<1>2. ASSUME NEW r \in Requests, QuietStep(r) PROVE Typed'
  <2>1. TypeOK'
    BY <1>2, QuietFacts DEF TypeOK, db, OnlyMoves, Calls
  <2>2. Counted'
    BY <1>2, QuietFacts, CountedKept DEF db
  <2>3. IdsKnown'
    <3>1. conv \in Nat /\ lastId \in Nat /\ conv <= lastId /\ NoConv = 0 /\ lastId' = lastId
      BY <1>2, ConvFacts, QuietFacts DEF db
    <3> SUFFICES ASSUME NEW q \in Requests, req'[q] # Idle
                 PROVE  /\ req'[q].conv <= lastId
                        /\ req'[q].at \in {"write", "find", "mark", "count", "commit"} =>
                              req'[q].conv # NoConv
                        /\ req'[q].at \in {"key", "create"} => req'[q].pending = Users
      BY <3>1 DEF IdsKnown
    <3>2. CASE q # r
      BY <1>2, <3>2, QuietFacts DEF IdsKnown, OnlyMoves
    <3>3. CASE q = r
      <4>1. /\ req[r] # Idle
            /\ req'[r].conv = req[r].conv \/ req'[r].conv = conv
            /\ <<req[r].at, req'[r].at>> \in
                 {<<"key", "create">>, <<"key", "write">>, <<"write", "write">>,
                  <<"find", "mark">>, <<"mark", "count">>, <<"count", "commit">>,
                  <<"members", "erase">>}
            /\ req'[r].at = "create" => req'[r].pending = req[r].pending
            /\ req[r].at = "key" /\ req'[r].at = "write" => req'[r].conv # NoConv
            /\ req[r].at # "key" /\ req[r].at # "members" => req'[r].conv = req[r].conv
        BY <1>2, <3>3, QuietFacts
      <4> QED
        BY <3>1, <3>3, <4>1 DEF IdsKnown
    <3> QED
      BY <3>2, <3>3
  <2> QED
    BY <2>1, <2>2, <2>3
<1>3. ASSUME NEW r \in Requests, Create(r) PROVE Typed'
  <2>1. TypeOK'
    <3>1. /\ row' \in [Users -> RowState]
          /\ conv' \in 0..lastId' /\ lastId' \in Ids \cup {NoConv} /\ conv' # NoConv
      BY <1>3, CreateFacts, ConvFacts DEF RowState, Ids
    <3> QED
      BY <1>3, <3>1, CreateFacts DEF TypeOK, OnlyMoves, Calls
  <2>2. IdsKnown'
    <3>1. conv \in Nat /\ lastId \in Nat /\ NoConv = 0
      BY ConvFacts
    <3> QED
      BY <1>3, <3>1, CreateFacts, CallFacts DEF IdsKnown, OnlyMoves, Keeps
  <2> QED
    BY <1>3, <2>1, <2>2, CreateCounted
<1>4. ASSUME NEW r \in Requests, Write(r) PROVE Typed'
  <2>0. /\ OnlyMoves(r) /\ req'[r] = Idle /\ req[r] # Idle /\ req[r].at = "write"
        /\ req[r].conv = conv
        /\ UNCHANGED <<account, conv, lastId, calls, past>>
        /\ row' \in [Users -> RowState]
        /\ \A v \in Users : row'[v] = "NONE" <=> row[v] = "NONE"
        /\ \E m \in Message : messages' = messages \cup {m}
    BY <1>4, WriteFacts
  <2>1. conv # NoConv
    BY <2>0 DEF IdsKnown
  <2>2. TypeOK'
    <3>1. messages' \in SUBSET Message
      BY <2>0 DEF TypeOK
    <3> QED
      BY <2>0, <2>1, <3>1 DEF TypeOK, OnlyMoves, Calls
  <2>3. Counted'
    BY <2>0, CountedKept
  <2>4. IdsKnown'
    BY <2>0 DEF IdsKnown, OnlyMoves
  <2> QED
    BY <2>2, <2>3, <2>4
<1>5. ASSUME NEW r \in Requests, Commit(r) PROVE Typed'
  <2>1. row' \in [Users -> RowState] /\ messages' \in SUBSET Message
    BY <1>5, CommitFacts DEF TypeOK, RowState, NoRows
  <2>2. conv' \in 0..lastId' /\ lastId' \in Ids \cup {NoConv}
    BY <1>5, CommitFacts, ConvFacts DEF TypeOK
  <2>3. conv' = NoConv => row' = NoRows /\ messages' = {}
    <3>1. At(r, "commit") /\ (req[r].conv = conv => conv # NoConv)
      BY <1>5 DEF IdsKnown, Commit, At
    <3> QED
      BY <1>5, <3>1, CommitFacts DEF TypeOK
  <2>4. \A u \in Users \ account : row'[u] = "NONE"
    BY <1>5, CommitFacts DEF TypeOK, NoRows
  <2>5. TypeOK'
    BY <1>5, <2>1, <2>2, <2>3, <2>4, CommitFacts DEF TypeOK, OnlyMoves, Calls
  <2>6. IdsKnown'
    BY <1>5, CommitFacts DEF IdsKnown, OnlyMoves
  <2> QED
    BY <1>5, <2>5, <2>6, CommitCounted
<1>6. ASSUME NEW r \in Requests, Erase(r) PROVE Typed'
  <2>1. /\ row' \in [Users -> RowState] /\ messages' \in SUBSET Message
        /\ conv' \in 0..lastId' /\ lastId' \in Ids \cup {NoConv}
    BY <1>6, EraseFacts, ConvFacts DEF TypeOK, RowState, NoRows
  <2>2. conv' = NoConv => row' = NoRows /\ messages' = {}
    BY <1>6, EraseFacts DEF TypeOK, NoRows
  <2>3. \A u \in Users \ account' : row'[u] = "NONE"
    BY <1>6, EraseFacts DEF TypeOK, NoRows
  <2>4. TypeOK'
    BY <1>6, <2>1, <2>2, <2>3, EraseFacts DEF TypeOK, OnlyMoves, Calls
  <2>5. Counted'
    BY <1>6, EraseFacts, CountedKept
  <2>6. IdsKnown'
    BY <1>6, EraseFacts DEF IdsKnown, OnlyMoves
  <2> QED
    BY <2>4, <2>5, <2>6
<1>7. CASE UNCHANGED vars
  <2>1. TypeOK'
    BY <1>7 DEF vars, db, TypeOK
  <2>2. IdsKnown'
    BY <1>7 DEF vars, db, IdsKnown
  <2>3. Counted'
    BY <1>7 DEF vars, db, Counted, Active, MayCreate, MayHide
  <2> QED
    BY <2>1, <2>2, <2>3
<1>8. ASSUME NEW r \in Requests,
             \/ FindKey(r) \/ (\E u \in Users : ReadRow(r, u))
             \/ FindMember(r) \/ Mark(r) \/ Count(r) \/ FindLonely(r) \/ Fail(r)
      PROVE  Typed'
  BY <1>2, <1>8 DEF QuietStep
<1> QED
  BY <1>1, <1>3, <1>4, <1>5, <1>6, <1>7, <1>8 DEF Next

\* Every variable stays within its type, however the calls overlap; without a
\* conversation there are no rows and no messages, without an account no row.
THEOREM TypeCorrect == Spec => []TypeOK
<1>1. Typed => TypeOK
  BY DEF Typed
<1> QED
  BY <1>1, InitType, NextType, PTL DEF Spec

----------------------------------------------------------------------------
(* What a step may do *)

\* What becomes of one call.
LEMMA CallMoves ==
    ASSUME Typed, [Next]_vars, NEW q \in Requests
    PROVE  \/ req'[q] = req[q]
           \/ req'[q] = Idle
           \/ \E u \in Users, step \in Step : Start(q, u, step)
           \/ FindKey(q) \/ Create(q) \/ (\E u \in Users : ReadRow(q, u))
           \/ FindMember(q) \/ Mark(q) \/ Count(q) \/ FindLonely(q)
<1> DEFINE Goal ==
       \/ req'[q] = req[q]
       \/ req'[q] = Idle
       \/ \E u \in Users, step \in Step : Start(q, u, step)
       \/ FindKey(q) \/ Create(q) \/ (\E u \in Users : ReadRow(q, u))
       \/ FindMember(q) \/ Mark(q) \/ Count(q) \/ FindLonely(q)
<1> USE DEF Typed
<1>1. ASSUME NEW r \in Requests, OnlyMoves(r), q # r PROVE Goal
  BY <1>1 DEF OnlyMoves
<1>2. ASSUME NEW r \in Requests, NEW u \in Users, NEW step \in Step, Start(r, u, step)
      PROVE  Goal
  <2>1. CASE q = r
    BY <1>2, <2>1
  <2>2. CASE q # r
    BY <1>1, <1>2, <2>2, StartFacts
  <2> QED
    BY <2>1, <2>2
<1>3. ASSUME NEW r \in Requests, FindKey(r) PROVE Goal
  BY <1>1, <1>3, FindKeyFacts
<1>4. ASSUME NEW r \in Requests, Create(r) PROVE Goal
  BY <1>1, <1>4, CreateFacts
<1>5. ASSUME NEW r \in Requests, NEW u \in Users, ReadRow(r, u) PROVE Goal
  BY <1>1, <1>5, ReadRowFacts
<1>6. ASSUME NEW r \in Requests, FindMember(r) \/ Mark(r) \/ Count(r) \/ FindLonely(r)
      PROVE  Goal
  <2>1. OnlyMoves(r)
    BY <1>6, QuietFacts DEF QuietStep
  <2> QED
    BY <1>1, <1>6, <2>1
<1>7. ASSUME NEW r \in Requests, Write(r) \/ Commit(r) \/ Erase(r) \/ Fail(r) PROVE Goal
  <2>1. OnlyMoves(r) /\ req'[r] = Idle
    BY <1>7, EndFacts DEF Write, Commit, Erase, Fail
  <2> QED
    BY <1>1, <2>1
<1>8. CASE UNCHANGED vars
  BY <1>8 DEF vars
<1>9. Goal
  BY <1>2, <1>3, <1>4, <1>5, <1>6, <1>7, <1>8 DEF Next
<1> QED
  BY <1>9

\* The steps that change the database: all others leave it alone.
LEMMA DbMoves ==
    ASSUME Typed, [Next]_vars
    PROVE  \/ UNCHANGED <<db, hides>>
           \/ \E r \in Requests : Create(r) \/ Write(r) \/ Commit(r) \/ Erase(r)
<1> USE DEF Typed, past
<1>1. ASSUME NEW r \in Requests, NEW u \in Users, NEW step \in Step, Start(r, u, step)
      PROVE  UNCHANGED <<db, hides>>
  BY <1>1 DEF Start
<1>2. ASSUME NEW r \in Requests,
             \/ FindKey(r) \/ (\E u \in Users : ReadRow(r, u))
             \/ FindMember(r) \/ Mark(r) \/ Count(r) \/ FindLonely(r) \/ Fail(r)
      PROVE  UNCHANGED <<db, hides>>
  BY <1>2, QuietFacts DEF QuietStep
<1>3. CASE UNCHANGED vars
  BY <1>3 DEF vars
<1> QED
  BY <1>1, <1>2, <1>3 DEF Next

\* Users hide more and more often, and a row that is hidden was, or is hidden now.
LEMMA HidesGrow ==
    ASSUME Typed, [Next]_vars, NEW u \in Users
    PROVE  /\ hides[u] \in Nat /\ hides'[u] \in Nat /\ hides'[u] >= hides[u]
           /\ row'[u] = "HIDDEN" => row[u] = "HIDDEN" \/ hides'[u] = hides[u] + 1
<1> USE DEF Typed
<1>0. hides[u] \in Nat
  BY DEF TypeOK
<1>1. CASE UNCHANGED <<db, hides>>
  BY <1>0, <1>1 DEF db
<1>2. ASSUME NEW r \in Requests, Create(r)
      PROVE  hides' = hides /\ row'[u] # "HIDDEN"
  BY <1>2, CreateFacts DEF past
<1>3. ASSUME NEW r \in Requests, Write(r)
      PROVE  hides' = hides /\ (row'[u] = "HIDDEN" => row[u] = "HIDDEN")
  BY <1>3, WriteFacts DEF past
<1>4. ASSUME NEW r \in Requests, Commit(r)
      PROVE  /\ hides'[u] = hides[u] \/ hides'[u] = hides[u] + 1
             /\ row'[u] = "HIDDEN" => row[u] = "HIDDEN" \/ hides'[u] = hides[u] + 1
  BY <1>4, CommitFacts DEF NoRows, TypeOK
<1>5. ASSUME NEW r \in Requests, Erase(r)
      PROVE  hides' = hides /\ (row'[u] = "HIDDEN" => row[u] = "HIDDEN")
  BY <1>5, EraseFacts DEF NoRows, TypeOK, past
<1> QED
  BY <1>0, <1>1, <1>2, <1>3, <1>4, <1>5, DbMoves

\* A message was there before, its sender apart, or is written now.
LEMMA MessageMoves ==
    ASSUME Typed, [Next]_vars, NEW n \in messages'
    PROVE  \/ \E m \in messages : /\ n.to = m.to /\ n.seen = m.seen
                                  /\ n.from = Nobody \/ n.from = m.from
           \/ \E r \in Requests : /\ Write(r)
                                  /\ n.from = req[r].actor /\ n.to = Other(req[r].actor)
                                  /\ n.seen = req[r].seen
<1> USE DEF Typed
<1>1. CASE UNCHANGED <<db, hides>>
  BY <1>1 DEF db
<1>2. ASSUME NEW r \in Requests, Create(r) PROVE messages' = messages
  BY <1>2, CreateFacts
<1>3. ASSUME NEW r \in Requests, Write(r)
      PROVE  n \in messages \/ (/\ n.from = req[r].actor /\ n.to = Other(req[r].actor)
                                /\ n.seen = req[r].seen)
  <2>1. PICK m \in Message :
           /\ messages' = messages \cup {m}
           /\ m.from = req[r].actor /\ m.to = Other(req[r].actor) /\ m.seen = req[r].seen
    BY <1>3, WriteFacts
  <2> QED
    BY <2>1
<1>4. ASSUME NEW r \in Requests, Commit(r) PROVE n \in messages
  BY <1>4, CommitFacts
<1>5. ASSUME NEW r \in Requests, Erase(r)
      PROVE  \E m \in messages : /\ n.to = m.to /\ n.seen = m.seen
                                 /\ n.from = Nobody \/ n.from = m.from
  BY <1>5, EraseFacts
<1> QED
  BY <1>1, <1>2, <1>3, <1>4, <1>5, DbMoves

\* The conversation's id stays, is given up, or is a new one.
LEMMA ConvMoves ==
    ASSUME Typed, [Next]_vars
    PROVE  \/ conv' = conv \/ conv' = NoConv
           \/ conv' = lastId + 1 /\ \E r \in Requests : Create(r)
<1> USE DEF Typed
<1>1. ASSUME NEW r \in Requests, Write(r) PROVE conv' = conv
  BY <1>1, WriteFacts
<1>2. ASSUME NEW r \in Requests, Commit(r) PROVE conv' = conv \/ conv' = NoConv
  BY <1>2, CommitFacts
<1>3. ASSUME NEW r \in Requests, Erase(r) PROVE conv' = conv \/ conv' = NoConv
  BY <1>3, EraseFacts
<1>4. ASSUME NEW r \in Requests, Create(r) PROVE conv' = lastId + 1
  BY <1>4, CreateFacts
<1> QED
  BY <1>1, <1>2, <1>3, <1>4, DbMoves DEF db

\* So a call that works on the conversation did so before: no id is given twice.
LEMMA SameConv ==
    ASSUME Typed, [Next]_vars, NEW q \in Requests, req[q] # Idle,
           req[q].conv = conv', conv' # NoConv
    PROVE  conv' = conv /\ req[q].conv = conv
<1>1. req[q].conv \in Nat /\ req[q].conv <= lastId /\ lastId \in Nat
  BY CallFacts, ConvFacts DEF Typed, IdsKnown
<1> QED
  BY <1>1, ConvMoves

----------------------------------------------------------------------------
(* Messages bring the conversation back *)

\* What a sender has read of a row is not from the future.
SeenInPast ==
    /\ \A m \in messages, u \in Users : m.seen[u] <= hides[u]
    /\ \A r \in Requests, u \in Users : req[r] # Idle => req[r].seen[u] <= hides[u]

\* A row that a sender has read as shown, and that is hidden, was hidden since.
HiddenSinceRead ==
    \A r \in Requests : req[r] # Idle /\ req[r].at = "write" /\ req[r].conv = conv =>
        \A u \in Users \ (req[r].pending \cup req[r].hidden) :
            row[u] = "HIDDEN" => hides[u] > req[r].seen[u]

\* Neither the receiver nor the sender of a message has the conversation hidden
\* since before the sender's look at the rows.
NobodyMisses ==
    \A m \in messages, u \in Users : row[u] = "HIDDEN" => hides[u] > m.seen[u]

Shown == SeenInPast /\ HiddenSinceRead /\ NobodyMisses

LEMMA NextSeen ==
    ASSUME Typed, Shown, [Next]_vars
    PROVE  SeenInPast'
<1> USE DEF Shown
<1>1. ASSUME NEW n \in messages', NEW u \in Users PROVE n.seen[u] <= hides'[u]
  <2>0. /\ hides[u] \in Nat /\ hides'[u] \in Nat /\ hides'[u] >= hides[u]
        /\ n.seen[u] \in Nat
    <3>1. n \in Message
      BY NextType DEF Typed, TypeOK
    <3> QED
      BY <3>1, HidesGrow DEF Message
  <2>1. ASSUME NEW m \in messages, n.seen = m.seen PROVE n.seen[u] <= hides[u]
    BY <2>1 DEF SeenInPast
  <2>2. ASSUME NEW r \in Requests, Write(r), n.seen = req[r].seen PROVE n.seen[u] <= hides[u]
    BY <2>2 DEF SeenInPast, Write, At
  <2> QED
    BY <2>0, <2>1, <2>2, MessageMoves
<1>2. ASSUME NEW q \in Requests, NEW u \in Users, req'[q] # Idle
      PROVE  req'[q].seen[u] <= hides'[u]
  <2>0. hides[u] \in Nat /\ hides'[u] \in Nat /\ hides'[u] >= hides[u]
    BY HidesGrow
  <2>1. ASSUME req[q] # Idle, req'[q].seen[u] = req[q].seen[u]
        PROVE  req'[q].seen[u] <= hides'[u]
    <3>1. req[q].seen[u] <= hides[u] /\ req[q].seen[u] \in Nat
      BY <2>1, CallFacts DEF SeenInPast, Typed
    <3> QED
      BY <2>0, <2>1, <3>1
  <2>2. CASE req'[q] = req[q]
    BY <1>2, <2>1, <2>2
  <2>3. ASSUME NEW v \in Users, NEW step \in Step, Start(q, v, step)
        PROVE  req'[q].seen[u] <= hides'[u]
    <3>1. req'[q].seen = Never
      BY <2>3, StartFacts DEF Typed
    <3> QED
      BY <2>0, <3>1 DEF Never
  <2>4. CASE FindKey(q)
    BY <2>1, <2>4, FindKeyFacts DEF Typed, Keeps
  <2>5. CASE Create(q)
    BY <2>1, <2>5, CreateFacts DEF Typed, Keeps
  <2>6. ASSUME NEW v \in Users, ReadRow(q, v)
        PROVE  req'[q].seen[u] <= hides'[u]
    <3>1. CASE u = v
      BY <2>0, <2>6, <3>1, ReadRowFacts DEF Typed
    <3>2. CASE u # v
      BY <2>1, <2>6, <3>2, ReadRowFacts DEF Typed
    <3> QED
      BY <3>1, <3>2
  <2>7. CASE FindMember(q) \/ Mark(q)
    BY <2>1, <2>7, GoToFacts DEF Typed, Keeps, FindMember, Mark, At, Step
  <2>8. CASE Count(q)
    BY <2>1, <2>8, CountFacts DEF Typed, Keeps
  <2>9. CASE FindLonely(q)
    BY <2>1, <2>9, FindLonelyFacts DEF Typed, Keeps
  <2> QED
    BY <1>2, <2>2, <2>3, <2>4, <2>5, <2>6, <2>7, <2>8, <2>9, CallMoves
<1> QED
  BY <1>1, <1>2 DEF SeenInPast

LEMMA NextHidden ==
    ASSUME Typed, Shown, [Next]_vars
    PROVE  HiddenSinceRead'
<1> USE DEF Typed, Shown
<1> SUFFICES ASSUME NEW q \in Requests, req'[q] # Idle, req'[q].at = "write",
                    req'[q].conv = conv', NEW u \in Users,
                    u \notin req'[q].pending, u \notin req'[q].hidden, row'[u] = "HIDDEN"
             PROVE  hides'[u] > req'[q].seen[u]
  BY DEF HiddenSinceRead
<1>0. /\ hides[u] \in Nat /\ hides'[u] \in Nat /\ hides'[u] >= hides[u]
      /\ row[u] = "HIDDEN" \/ hides'[u] = hides[u] + 1
  BY HidesGrow
<1>1. CASE req'[q] = req[q]
  <2>1. req[q] # Idle /\ req[q].conv # NoConv
    BY <1>1 DEF IdsKnown
  <2>2. req[q].conv = conv
    BY <1>1, <2>1, SameConv
  <2>3. req[q].seen[u] \in Nat /\ req[q].seen[u] <= hides[u]
    BY <2>1, CallFacts DEF SeenInPast
  <2>4. row[u] = "HIDDEN" => hides[u] > req[q].seen[u]
    BY <1>1, <2>1, <2>2 DEF HiddenSinceRead
  <2> QED
    BY <1>0, <1>1, <2>3, <2>4
<1>2. ASSUME NEW v \in Users, NEW step \in Step, Start(q, v, step) PROVE FALSE
  BY <1>2, StartFacts
<1>3. CASE FindKey(q)
  BY <1>3, FindKeyFacts DEF Keeps, IdsKnown
<1>4. CASE Create(q)
  BY <1>4, CreateFacts DEF Keeps, IdsKnown
<1>5. ASSUME NEW v \in Users, ReadRow(q, v) PROVE hides'[u] > req'[q].seen[u]
  <2>1. /\ req[q] # Idle /\ req[q].at = "write" /\ req[q].conv = conv
        /\ row[u] = "HIDDEN" /\ hides' = hides
    BY <1>5, ReadRowFacts DEF ReadRow, db, past
  <2>2. u # v
    BY <1>5, <2>1, ReadRowFacts
  <2>3. u \notin req[q].pending /\ u \notin req[q].hidden /\ req'[q].seen[u] = req[q].seen[u]
    BY <1>5, <2>2, ReadRowFacts
  <2> QED
    BY <2>1, <2>3 DEF HiddenSinceRead
<1>6. CASE FindMember(q) \/ Mark(q)
  BY <1>6, GoToFacts DEF FindMember, Mark, At, Step
<1>7. CASE Count(q)
  BY <1>7, CountFacts
<1>8. CASE FindLonely(q)
  BY <1>8, FindLonelyFacts
<1> QED
  BY <1>1, <1>2, <1>3, <1>4, <1>5, <1>6, <1>7, <1>8, CallMoves

LEMMA NextMisses ==
    ASSUME Typed, Shown, [Next]_vars
    PROVE  NobodyMisses'
<1> USE DEF Typed, Shown
<1> SUFFICES ASSUME NEW n \in messages', NEW u \in Users, row'[u] = "HIDDEN"
             PROVE  hides'[u] > n.seen[u]
  BY DEF NobodyMisses
<1>0. /\ hides[u] \in Nat /\ hides'[u] \in Nat /\ hides'[u] >= hides[u]
      /\ row[u] = "HIDDEN" \/ hides'[u] = hides[u] + 1
  BY HidesGrow
<1>1. ASSUME NEW m \in messages, n.seen = m.seen PROVE hides'[u] > n.seen[u]
  <2>1. m.seen[u] \in Nat /\ m.seen[u] <= hides[u]
    BY DEF TypeOK, Message, SeenInPast
  <2>2. row[u] = "HIDDEN" => hides[u] > m.seen[u]
    BY DEF NobodyMisses
  <2> QED
    BY <1>0, <1>1, <2>1, <2>2
<1>2. ASSUME NEW r \in Requests, Write(r), n.seen = req[r].seen
      PROVE  hides'[u] > n.seen[u]
  <2>1. /\ req[r] # Idle /\ req[r].at = "write" /\ req[r].conv = conv /\ req[r].pending = {}
        /\ row[u] = "HIDDEN" /\ u \notin req[r].hidden /\ hides' = hides
    BY <1>2, WriteFacts DEF past
  <2> QED
    BY <1>2, <2>1 DEF HiddenSinceRead
<1> QED
  BY <1>1, <1>2, MessageMoves

LEMMA InitShown == Init => Shown
BY DEF Init, Shown, SeenInPast, HiddenSinceRead, NobodyMisses

LEMMA ShownAlways == Spec => [](Typed /\ Shown)
<1>1. Typed /\ Shown /\ [Next]_vars => Typed' /\ Shown'
  BY NextType, NextSeen, NextHidden, NextMisses DEF Shown
<1> QED
  BY <1>1, InitType, InitShown, PTL DEF Spec

\* A message brings the conversation back to its receiver, who misses it only by
\* hiding the conversation after the sender's look at it.
THEOREM MessagesAreShown == Spec => []MessageIsShown
<1>1. Typed /\ Shown => MessageIsShown
  BY DEF Typed, Shown, NobodyMisses, MessageIsShown, TypeOK, Message
<1> QED
  BY <1>1, ShownAlways, PTL

----------------------------------------------------------------------------
(* Messages survive the deletion by the other user *)

\* A conversation has the rows of all accounts that remain, and whoever wrote a
\* message has its account still, or is forgotten.
MembersStay == conv # NoConv => \A u \in account : row[u] # "NONE"
SendersStay == \A m \in messages : m.from # Nobody => m.from \in account

\* The deletion that counts itself alone will drop no message of the other user,
\* but those that it has hidden since.
CountIsSafe ==
    \A r \in Requests :
        /\ req[r] # Idle /\ req[r].at = "commit" /\ req[r].conv = conv /\ req[r].alone
        => \A m \in messages : m.from # Nobody /\ m.from = Other(req[r].actor) =>
              hides[m.from] > m.seen[m.from]

\* The deletion of an account that found a conversation without others: the other
\* account is gone.
LonelyIsAlone ==
    \A r \in Requests :
        req[r] # Idle /\ req[r].at = "erase" /\ req[r].alone => Other(req[r].actor) \notin account

Surviving == MembersStay /\ SendersStay /\ CountIsSafe /\ LonelyIsAlone

\* Accounts are only ever deleted.
LEMMA AccountsGo ==
    ASSUME Typed, [Next]_vars
    PROVE  account' \subseteq account
<1> USE DEF Typed
<1>1. ASSUME NEW r \in Requests, Create(r) \/ Write(r) \/ Commit(r) PROVE account' = account
  BY <1>1, CreateFacts, WriteFacts, CommitFacts
<1>2. ASSUME NEW r \in Requests, Erase(r) PROVE account' \subseteq account
  BY <1>2, EraseFacts
<1> QED
  BY <1>1, <1>2, DbMoves DEF db

LEMMA NextMembers ==
    ASSUME Typed, Surviving, [Next]_vars
    PROVE  MembersStay' /\ SendersStay'
<1> USE DEF Typed, Surviving
<1>1. MembersStay'
  <2> SUFFICES ASSUME conv' # NoConv, NEW u \in account' PROVE row'[u] # "NONE"
    BY DEF MembersStay
  <2>0. u \in account /\ u \in Users
    BY AccountsGo DEF TypeOK
  <2>1. CASE UNCHANGED <<db, hides>>
    BY <2>0, <2>1 DEF db, MembersStay
  <2>2. ASSUME NEW r \in Requests, Create(r) PROVE row'[u] # "NONE"
    BY <2>0, <2>2, CreateFacts
  <2>3. ASSUME NEW r \in Requests, Write(r) PROVE row'[u] # "NONE"
    BY <2>0, <2>3, WriteFacts DEF MembersStay
  <2>4. ASSUME NEW r \in Requests, Commit(r) PROVE row'[u] # "NONE"
    BY <2>0, <2>4, CommitFacts DEF MembersStay, TypeOK
  <2>5. ASSUME NEW r \in Requests, Erase(r) PROVE row'[u] # "NONE"
    BY <2>0, <2>5, EraseFacts DEF MembersStay, TypeOK
  <2> QED
    BY <2>1, <2>2, <2>3, <2>4, <2>5, DbMoves
<1>2. SendersStay'
  <2> SUFFICES ASSUME NEW n \in messages', n.from # Nobody PROVE n.from \in account'
    BY DEF SendersStay
  <2>1. CASE UNCHANGED <<db, hides>>
    BY <2>1 DEF db, SendersStay
  <2>2. ASSUME NEW r \in Requests, Create(r) PROVE n.from \in account'
    BY <2>2, CreateFacts DEF SendersStay
  <2>3. ASSUME NEW r \in Requests, Write(r) PROVE n.from \in account'
    BY <2>3, WriteFacts DEF SendersStay
  <2>4. ASSUME NEW r \in Requests, Commit(r) PROVE n.from \in account'
    BY <2>4, CommitFacts DEF SendersStay
  <2>5. ASSUME NEW r \in Requests, Erase(r) PROVE n.from \in account'
    BY <2>5, EraseFacts DEF SendersStay
  <2> QED
    BY <2>1, <2>2, <2>3, <2>4, <2>5, DbMoves
<1> QED
  BY <1>1, <1>2

LEMMA NextCountSafe ==
    ASSUME Typed, Shown, Surviving, [Next]_vars
    PROVE  CountIsSafe'
<1> USE DEF Typed, Surviving
<1> SUFFICES ASSUME NEW q \in Requests, req'[q] # Idle, req'[q].at = "commit",
                    req'[q].conv = conv', req'[q].alone,
                    NEW n \in messages', n.from # Nobody, n.from = Other(req'[q].actor)
             PROVE  hides'[n.from] > n.seen[n.from]
  BY DEF CountIsSafe
<1>0. n.from \in Users /\ n.seen[n.from] \in Nat
      /\ hides[n.from] \in Nat /\ hides'[n.from] \in Nat /\ hides'[n.from] >= hides[n.from]
  <2>1. n \in Message
    BY NextType DEF TypeOK
  <2>2. n.from \in Users
    BY <2>1 DEF Message
  <2> QED
    BY <2>1, <2>2, HidesGrow DEF Message
<1>1. CASE req'[q] = req[q]
  <2>1. req[q] # Idle /\ req[q].conv # NoConv /\ req[q].at = "commit" /\ req[q].alone
    BY <1>1 DEF IdsKnown
  <2>2. req[q].conv = conv
    BY <1>1, <2>1, SameConv
  <2>3. ASSUME NEW m \in messages, n.seen = m.seen, n.from = m.from
        PROVE  hides[n.from] > n.seen[n.from]
    BY <1>1, <2>1, <2>2, <2>3 DEF CountIsSafe
  <2>4. ASSUME NEW r \in Requests, Write(r), n.from = req[r].actor PROVE FALSE
    <3>1. req[q].actor = Other(req[r].actor)
      BY <1>1, <2>1, <2>4, OtherFacts, CallFacts DEF Write, At
    <3>2. Locked(req[q].actor)
      BY <2>1, <2>2 DEF Locked, Holds
    <3> QED
      BY <2>4, <3>1, <3>2 DEF Write
  <2> QED
    BY <1>0, <2>3, <2>4, MessageMoves
<1>2. ASSUME NEW v \in Users, NEW step \in Step, Start(q, v, step) PROVE FALSE
  BY <1>2, StartFacts
<1>3. CASE FindKey(q) \/ Create(q) \/ \E v \in Users : ReadRow(q, v)
  BY <1>3, FindKeyFacts, CreateFacts, ReadRowFacts
<1>4. CASE FindMember(q) \/ Mark(q)
  BY <1>4, GoToFacts DEF FindMember, Mark, At, Step
<1>5. CASE FindLonely(q)
  BY <1>5, FindLonelyFacts
<1>6. CASE Count(q)
  <2>1. /\ req[q] # Idle /\ req[q].at = "count" /\ req[q].conv = conv /\ UNCHANGED <<db, hides>>
        /\ req'[q].actor = req[q].actor /\ Remaining(req[q].actor) = {}
        /\ req[q].conv # NoConv /\ req[q].actor \in Users
    BY <1>6, CountFacts, CallFacts DEF Count, Keeps, IdsKnown, db, past
  <2>2. row[n.from] # "SHOWN"
    BY <1>0, <2>1, OtherFacts DEF Remaining
  <2>3. n \in messages /\ n.from \in account
    BY <2>1 DEF SendersStay, db
  <2>4. row[n.from] = "HIDDEN"
    BY <1>0, <2>1, <2>2, <2>3 DEF MembersStay, TypeOK, RowState
  <2> QED
    BY <1>0, <2>1, <2>3, <2>4 DEF Shown, NobodyMisses
<1> QED
  BY <1>1, <1>2, <1>3, <1>4, <1>5, <1>6, CallMoves

LEMMA NextLonely ==
    ASSUME Typed, Surviving, [Next]_vars
    PROVE  LonelyIsAlone'
<1> USE DEF Typed, Surviving
<1> SUFFICES ASSUME NEW q \in Requests, req'[q] # Idle, req'[q].at = "erase", req'[q].alone
             PROVE  Other(req'[q].actor) \notin account'
  BY DEF LonelyIsAlone
<1>1. CASE req'[q] = req[q]
  BY <1>1, AccountsGo DEF LonelyIsAlone
<1>2. ASSUME NEW v \in Users, NEW step \in Step, Start(q, v, step) PROVE FALSE
  BY <1>2, StartFacts
<1>3. CASE FindKey(q) \/ Create(q) \/ \E v \in Users : ReadRow(q, v)
  BY <1>3, FindKeyFacts, CreateFacts, ReadRowFacts
<1>4. CASE FindMember(q) \/ Mark(q) \/ Count(q)
  BY <1>4, GoToFacts, CountFacts DEF FindMember, Mark, At, Step
<1>5. CASE FindLonely(q)
  <2>1. /\ req[q] # Idle /\ req'[q].actor = req[q].actor /\ req[q].actor \in Users
        /\ row[req[q].actor] # "NONE" /\ row[Other(req[q].actor)] = "NONE"
    BY <1>5, FindLonelyFacts, CallFacts DEF Keeps
  <2>2. conv # NoConv
    BY <2>1 DEF TypeOK, NoRows
  <2>3. Other(req[q].actor) \notin account
    BY <2>1, <2>2 DEF MembersStay
  <2> QED
    BY <2>1, <2>3, AccountsGo
<1> QED
  BY <1>1, <1>2, <1>3, <1>4, <1>5, CallMoves

LEMMA InitSurviving == Init => Surviving
BY DEF Init, Surviving, MembersStay, SendersStay, CountIsSafe, LonelyIsAlone

\* What a step that drops the conversation does to its messages.
LEMMA DropIsSafe ==
    ASSUME Typed, Shown, Surviving, [Next]_vars, conv # NoConv, conv' = NoConv,
           NEW m \in messages
    PROVE  \/ m.from = Nobody
           \/ hides[m.from] > m.seen[m.from]
           \/ \E r \in Requests : req[r] # Idle /\ req[r].actor = m.from /\ req'[r] = Idle
<1> USE DEF Typed, Surviving
<1> SUFFICES ASSUME m.from # Nobody
             PROVE  \/ hides[m.from] > m.seen[m.from]
                    \/ \E r \in Requests : req[r] # Idle /\ req[r].actor = m.from /\ req'[r] = Idle
  OBVIOUS
<1>0. m.from \in Users
  BY DEF TypeOK, Message
<1>1. ASSUME NEW r \in Requests, Create(r) \/ Write(r) PROVE FALSE
  BY <1>1, CreateFacts, WriteFacts, ConvFacts
<1>2. ASSUME NEW r \in Requests, Commit(r), req[r].actor # m.from
      PROVE  hides[m.from] > m.seen[m.from]
  <2>1. /\ req[r] # Idle /\ req[r].at = "commit" /\ req[r].conv = conv /\ req[r].alone
        /\ req[r].actor \in Users
    BY <1>2, CommitFacts
  <2>2. m.from = Other(req[r].actor)
    BY <1>0, <1>2, <2>1, OtherFacts
  <2> QED
    BY <2>1, <2>2 DEF CountIsSafe
<1>3. ASSUME NEW r \in Requests, Erase(r), req[r].actor # m.from
      PROVE  FALSE
  <2>1. req[r] # Idle /\ req[r].at = "erase" /\ req[r].alone /\ req[r].actor \in Users
    BY <1>3, EraseFacts
  <2>2. m.from = Other(req[r].actor)
    BY <1>0, <1>3, <2>1, OtherFacts
  <2> QED
    BY <2>1, <2>2 DEF LonelyIsAlone, SendersStay
<1>4. ASSUME NEW r \in Requests, Commit(r) \/ Erase(r), req[r].actor = m.from
      PROVE  req[r] # Idle /\ req[r].actor = m.from /\ req'[r] = Idle
  BY <1>4, CommitFacts, EraseFacts
<1>5. CASE UNCHANGED <<db, hides>>
  BY <1>5 DEF db
<1> QED
  BY <1>1, <1>2, <1>3, <1>4, <1>5, DbMoves

\* The conversation is dropped only with messages whose senders have hidden it
\* since, are deleting it, or are gone: a message that arrives between the count
\* of the remaining members and the DELETE is not destroyed with it.
THEOREM ForeignMessagesSurvive == Spec => ForeignMessageSurvives
<1>1. Init => Surviving
  BY InitSurviving
<1>2. Typed /\ Shown /\ Surviving /\ [Next]_vars => Surviving'
  BY NextMembers, NextCountSafe, NextLonely DEF Surviving
<1>3. Typed /\ Shown /\ Surviving /\ [Next]_vars =>
        [conv # NoConv /\ conv' = NoConv =>
           \A m \in messages :
              \/ m.from = Nobody
              \/ hides[m.from] > m.seen[m.from]
              \/ \E r \in Requests : req[r] # Idle /\ req[r].actor = m.from /\ req'[r] = Idle]_vars
  BY DropIsSafe
<1> QED
  BY <1>1, <1>2, <1>3, ShownAlways, PTL DEF Spec, ForeignMessageSurvives

----------------------------------------------------------------------------
(* Nothing is abandoned *)

\* Without an overlap, all deletions under way are one user's ...
OneDeletes ==
    ~crossed => \A r, q \in Requests : Deleting(r) /\ Deleting(q) => req[r].actor = req[q].actor

\* ... so that what they have read of the other user's row is still true.
OtherStillThere ==
    ~crossed => \A r \in Requests :
        /\ req[r] # Idle /\ req[r].at = "commit" /\ req[r].conv = conv /\ ~req[r].alone =>
             row[Other(req[r].actor)] = "SHOWN"
        /\ req[r] # Idle /\ req[r].at = "erase" /\ conv # NoConv =>
             \/ req[r].alone /\ req[r].conv = conv
             \/ row[req[r].actor] = "NONE"
             \/ row[Other(req[r].actor)] # "NONE"

SomebodyIsMember == conv # NoConv /\ ~crossed => \E u \in Users : row[u] # "NONE"

Kept == OneDeletes /\ OtherStillThere /\ SomebodyIsMember

\* A call that deletes did so before, or begins to: Begin looks at the others.
LEMMA DeletingMoves ==
    ASSUME Typed, [Next]_vars, NEW q \in Requests, Deleting(q)'
    PROVE  /\ req[q] # Idle /\ req'[q].actor = req[q].actor
           /\ Deleting(q) \/ Mark(q) \/ FindLonely(q)
<1> USE DEF Typed
<1>0. req'[q] # Idle /\ req'[q].at \in {"count", "commit", "erase"}
  BY DEF Deleting, Holds, At
<1>1. CASE req'[q] = req[q]
  BY <1>0, <1>1 DEF Deleting, Holds, At
<1>2. ASSUME NEW v \in Users, NEW step \in Step, Start(q, v, step) PROVE FALSE
  BY <1>0, <1>2, StartFacts
<1>3. CASE FindKey(q) \/ Create(q) \/ \E v \in Users : ReadRow(q, v)
  BY <1>0, <1>3, FindKeyFacts, CreateFacts, ReadRowFacts
<1>4. CASE FindMember(q)
  BY <1>0, <1>4, GoToFacts DEF FindMember, At, Step
<1>5. CASE Mark(q)
  BY <1>5, GoToFacts DEF Mark, At, Step, Keeps
<1>6. CASE Count(q)
  BY <1>6, CountFacts DEF Keeps, Deleting, Holds
<1>7. CASE FindLonely(q)
  BY <1>7, FindLonelyFacts DEF Keeps
<1> QED
  BY <1>0, <1>1, <1>2, <1>3, <1>4, <1>5, <1>6, <1>7, CallMoves

\* An overlap is not forgotten.
LEMMA CrossedStays ==
    ASSUME Typed, [Next]_vars, crossed
    PROVE  crossed'
<1> USE DEF Typed, past
<1>1. ASSUME NEW r \in Requests, NEW u \in Users, NEW step \in Step, Start(r, u, step)
      PROVE  crossed'
  BY <1>1 DEF Start
<1>2. ASSUME NEW r \in Requests, NEW u \in Users, ReadRow(r, u) PROVE crossed'
  BY <1>2 DEF ReadRow
<1>3. ASSUME NEW r \in Requests,
             FindKey(r) \/ Create(r) \/ Write(r) \/ FindMember(r) \/ Count(r) \/ Fail(r)
      PROVE  crossed'
  BY <1>3 DEF FindKey, Create, Write, FindMember, Count, Fail
<1>4. ASSUME NEW r \in Requests, Mark(r) \/ FindLonely(r) PROVE crossed'
  BY <1>4 DEF Mark, FindLonely, Begin
<1>5. ASSUME NEW r \in Requests, Commit(r) \/ Erase(r) PROVE crossed'
  BY <1>5 DEF Commit, Erase
<1>6. CASE UNCHANGED vars
  BY <1>6 DEF vars
<1> QED
  BY <1>1, <1>2, <1>3, <1>4, <1>5, <1>6 DEF Next

LEMMA NextOneDeletes ==
    ASSUME Typed, Kept, [Next]_vars
    PROVE  OneDeletes'
<1> USE DEF Typed, Kept
<1> SUFFICES ASSUME ~crossed', NEW r \in Requests, NEW q \in Requests,
                    Deleting(r)', Deleting(q)'
             PROVE  req'[r].actor = req'[q].actor
  BY DEF OneDeletes
<1>1. CASE Deleting(r) /\ Deleting(q)
  BY <1>1, DeletingMoves, CrossedStays DEF OneDeletes
<1>2. ASSUME NEW i \in Requests, NEW j \in Requests, Mark(i) \/ FindLonely(i),
             Deleting(j)', i # j
      PROVE  req'[i].actor = req'[j].actor
  <2>1. OnlyMoves(i) /\ req'[i].actor = req[i].actor
    BY <1>2, GoToFacts, FindLonelyFacts DEF Mark, At, Step, Keeps
  <2>2. req'[j] = req[j]
    BY <1>2, <2>1 DEF OnlyMoves
  <2>3. Deleting(j)
    BY <1>2, <2>2 DEF Deleting, Holds, At
  <2>4. ~\E k \in Requests \ {i} : Deleting(k) /\ req[k].actor # req[i].actor
    BY <1>2 DEF Mark, FindLonely, Begin
  <2> QED
    BY <1>2, <2>1, <2>2, <2>3, <2>4
<1> QED
  BY <1>1, <1>2, DeletingMoves

\* While one user deletes, the row of the other one is neither hidden nor deleted.
LEMMA OtherRowStays ==
    ASSUME Typed, Kept, [Next]_vars, ~crossed, NEW q \in Requests, Deleting(q),
           conv' = conv, conv # NoConv
    PROVE  LET u == req[q].actor IN
           /\ u \in Users /\ Other(u) \in Users
           /\ row[u] = "NONE" => row'[u] = "NONE"
           /\ row[Other(u)] = "SHOWN" => row'[Other(u)] = "SHOWN"
           /\ row[Other(u)] # "NONE" => row'[Other(u)] # "NONE"
<1> USE DEF Typed, Kept
<1>0. PICK u \in Users : u = req[q].actor
  BY CallFacts DEF Deleting, Holds, At
<1>1. Other(u) \in Users /\ Other(u) # u
  BY OtherFacts
<1> DEFINE Goal == /\ row[u] = "NONE" => row'[u] = "NONE"
                   /\ row[Other(u)] = "SHOWN" => row'[Other(u)] = "SHOWN"
                   /\ row[Other(u)] # "NONE" => row'[Other(u)] # "NONE"
<1>2. ASSUME NEW r \in Requests, Deleting(r) PROVE req[r].actor = u
  BY <1>0, <1>2 DEF OneDeletes
<1>3. ASSUME NEW r \in Requests, Create(r) PROVE FALSE
  BY <1>3, CreateFacts
<1>4. ASSUME NEW r \in Requests, Write(r) PROVE Goal
  BY <1>1, <1>4, WriteFacts
<1>5. ASSUME NEW r \in Requests, Commit(r) PROVE Goal
  <2>1. req[r].actor = u
    BY <1>2, <1>5, CommitFacts DEF Deleting, Holds
  <2> QED
    BY <1>1, <1>5, <2>1, CommitFacts DEF TypeOK
<1>6. ASSUME NEW r \in Requests, Erase(r) PROVE Goal
  <2>1. req[r].actor = u
    BY <1>2, <1>6, EraseFacts DEF Deleting, At
  <2> QED
    BY <1>1, <1>6, <2>1, EraseFacts DEF TypeOK
<1>7. ASSUME UNCHANGED <<db, hides>> PROVE Goal
  BY <1>7 DEF db
<1>8. Goal
  BY <1>3, <1>4, <1>5, <1>6, <1>7, DbMoves
<1> QED
  BY <1>0, <1>1, <1>8

LEMMA NextOther ==
    ASSUME Typed, Kept, [Next]_vars
    PROVE  OtherStillThere'
<1> USE DEF Typed, Kept
<1>1. ASSUME ~crossed', NEW q \in Requests, req'[q] # Idle, req'[q].at = "commit",
             req'[q].conv = conv', ~req'[q].alone
      PROVE  row'[Other(req'[q].actor)] = "SHOWN"
  <2>0. ~crossed
    BY <1>1, CrossedStays
  <2>1. CASE req'[q] = req[q]
    <3>1. req[q] # Idle /\ req[q].conv # NoConv /\ req[q].at = "commit" /\ ~req[q].alone
      BY <1>1, <2>1 DEF IdsKnown
    <3>2. req[q].conv = conv /\ conv' = conv /\ conv # NoConv
      BY <1>1, <2>1, <3>1, SameConv
    <3>3. row[Other(req[q].actor)] = "SHOWN"
      BY <2>0, <3>1, <3>2 DEF OtherStillThere
    <3>4. Deleting(q)
      BY <3>1 DEF Deleting, Holds
    <3> QED
      BY <2>0, <2>1, <3>2, <3>3, <3>4, OtherRowStays
  <2>2. CASE Count(q)
    <3>1. /\ req'[q].actor = req[q].actor /\ req[q].actor \in Users
          /\ Remaining(req[q].actor) # {} /\ row' = row
      BY <1>1, <2>2, CountFacts, CallFacts DEF Keeps, Count, db
    <3>2. PICK v \in Users : v # req[q].actor /\ row[v] = "SHOWN"
      BY <3>1 DEF Remaining
    <3> QED
      BY <3>1, <3>2, OtherFacts
  <2>3. Deleting(q)'
    BY <1>1 DEF Deleting, Holds
  <2>4. ASSUME NEW v \in Users, NEW step \in Step, Start(q, v, step) PROVE FALSE
    BY <1>1, <2>4, StartFacts
  <2>5. CASE FindKey(q) \/ Create(q) \/ \E v \in Users : ReadRow(q, v)
    BY <1>1, <2>5, FindKeyFacts, CreateFacts, ReadRowFacts
  <2>6. CASE FindMember(q) \/ Mark(q)
    BY <1>1, <2>6, GoToFacts DEF FindMember, Mark, At, Step
  <2>7. CASE FindLonely(q)
    BY <1>1, <2>7, FindLonelyFacts
  <2> QED
    BY <1>1, <2>1, <2>2, <2>4, <2>5, <2>6, <2>7, CallMoves
<1>2. ASSUME ~crossed', NEW q \in Requests, req'[q] # Idle, req'[q].at = "erase",
             conv' # NoConv
      PROVE  \/ req'[q].alone /\ req'[q].conv = conv'
             \/ row'[req'[q].actor] = "NONE"
             \/ row'[Other(req'[q].actor)] # "NONE"
  <2>0. ~crossed
    BY <1>2, CrossedStays
  <2>1. CASE req'[q] = req[q]
    <3>1. Deleting(q) /\ req[q] # Idle /\ req[q].at = "erase" /\ req[q].actor \in Users
      BY <1>2, <2>1, CallFacts DEF Deleting, At
    <3>2. CASE conv' = conv
      <4>1. \/ req[q].alone /\ req[q].conv = conv
            \/ row[req[q].actor] = "NONE"
            \/ row[Other(req[q].actor)] # "NONE"
        BY <1>2, <2>0, <3>1, <3>2 DEF OtherStillThere
      <4> QED
        BY <1>2, <2>0, <2>1, <3>1, <3>2, <4>1, OtherRowStays
    <3>3. ASSUME NEW r \in Requests, Create(r) PROVE row'[Other(req'[q].actor)] # "NONE"
      BY <2>1, <3>1, <3>3, CreateFacts, OtherFacts
    <3> QED
      BY <1>2, <3>2, <3>3, ConvMoves
  <2>2. CASE FindLonely(q)
    <3>1. row' = row /\ conv' = conv /\ req'[q].actor = req[q].actor /\ req'[q].conv = conv
      BY <2>2, FindLonelyFacts DEF FindLonely, db, Keeps
    <3>2. req'[q].alone \/ row[req[q].actor] = "NONE" \/ row[Other(req[q].actor)] # "NONE"
      BY <2>2, FindLonelyFacts
    <3> QED
      BY <3>1, <3>2
  <2>3. ASSUME NEW v \in Users, NEW step \in Step, Start(q, v, step) PROVE FALSE
    BY <1>2, <2>3, StartFacts
  <2>4. CASE FindKey(q) \/ Create(q) \/ \E v \in Users : ReadRow(q, v)
    BY <1>2, <2>4, FindKeyFacts, CreateFacts, ReadRowFacts
  <2>5. CASE FindMember(q) \/ Mark(q) \/ Count(q)
    BY <1>2, <2>5, GoToFacts, CountFacts DEF FindMember, Mark, At, Step
  <2> QED
    BY <1>2, <2>1, <2>2, <2>3, <2>4, <2>5, CallMoves
<1> QED
  BY <1>1, <1>2 DEF OtherStillThere

\* What NothingIsAbandoned says of a step.
AbandonsNothing ==
    conv' # NoConv /\ ~crossed' =>
        /\ \E u \in Users : row'[u] # "NONE"
        /\ Showing # {} /\ Showing' = {} => \E u \in account \ account' : u \in Showing

LEMMA NextAbandoned ==
    ASSUME Typed, Kept, [Next]_vars
    PROVE  AbandonsNothing
<1> USE DEF Typed, Kept
<1> DEFINE Goal == /\ \E u \in Users : row'[u] # "NONE"
                   /\ Showing # {} /\ Showing' = {} =>
                        \E u \in account \ account' : u \in Showing
<1> SUFFICES ASSUME conv' # NoConv, ~crossed' PROVE Goal
  BY DEF AbandonsNothing
<1>0. ~crossed
  BY CrossedStays
<1>1. ASSUME NEW r \in Requests, Create(r) PROVE Goal
  <2>1. \A u \in Users : row'[u] = "SHOWN"
    BY <1>1, CreateFacts
  <2> QED
    BY <2>1, TwoUsers DEF Showing
<1>2. conv # NoConv => \E u \in Users : row[u] # "NONE"
  BY <1>0 DEF SomebodyIsMember
<1>3. CASE UNCHANGED <<db, hides>>
  BY <1>2, <1>3 DEF db, Showing
<1>4. ASSUME NEW r \in Requests, Write(r) PROVE Goal
  BY <1>2, <1>4, WriteFacts DEF Showing
<1>5. ASSUME NEW r \in Requests, Commit(r) PROVE Goal
  <2> DEFINE u == req[r].actor
  <2>0. /\ req[r] # Idle /\ req[r].at = "commit" /\ u \in Users
        /\ Other(u) \in Users /\ Other(u) # u
    BY <1>5, CommitFacts, OtherFacts
  <2>1. CASE UNCHANGED <<conv, row, messages, hides>>
    BY <1>2, <2>1 DEF Showing
  <2>2. CASE /\ req[r].conv = conv /\ ~req[r].alone
             /\ row' = [row EXCEPT ![u] = "HIDDEN"]
    <3>1. row[Other(u)] = "SHOWN"
      BY <1>0, <2>0, <2>2 DEF OtherStillThere
    <3>2. row'[Other(u)] = "SHOWN"
      BY <2>0, <2>2, <3>1 DEF TypeOK
    <3> QED
      BY <2>0, <3>2 DEF Showing
  <2> QED
    BY <1>5, <2>1, <2>2, CommitFacts
<1>6. ASSUME NEW r \in Requests, Erase(r) PROVE Goal
  <2> DEFINE u == req[r].actor
  <2>0. /\ req[r] # Idle /\ req[r].at = "erase" /\ u \in Users
        /\ Other(u) \in Users /\ Other(u) # u /\ account' = account \ {u}
        /\ ~(req[r].alone /\ req[r].conv = conv)
        /\ row' = [row EXCEPT ![u] = "NONE"] /\ conv' = conv
    BY <1>6, EraseFacts, OtherFacts
  <2>1. row[u] = "NONE" \/ row[Other(u)] # "NONE"
    BY <1>0, <2>0 DEF OtherStillThere
  <2>2. \E w \in Users : w # u /\ row[w] # "NONE"
    BY <1>2, <2>0, <2>1
  <2>3. \E w \in Users : row'[w] # "NONE"
    BY <2>0, <2>2 DEF TypeOK
  <2>4. ASSUME Showing # {}, Showing' = {} PROVE u \in Showing /\ u \in account
    <3>1. PICK w \in Users : row[w] = "SHOWN"
      BY <2>4 DEF Showing
    <3>2. w = u
      BY <2>0, <2>4, <3>1 DEF Showing, TypeOK
    <3> QED
      BY <3>1, <3>2 DEF Showing, TypeOK
  <2> QED
    BY <2>0, <2>3, <2>4
<1> QED
  BY <1>1, <1>3, <1>4, <1>5, <1>6, DbMoves

LEMMA NextMember ==
    ASSUME Typed, Kept, [Next]_vars
    PROVE  SomebodyIsMember'
BY NextAbandoned DEF AbandonsNothing, SomebodyIsMember

LEMMA InitKept == Init => Kept
BY DEF Init, Kept, OneDeletes, OtherStillThere, SomebodyIsMember, Deleting, Holds, At

\* Unless the deletions of two users overlapped, no conversation is left without a
\* member row, and only the deletion of an account takes away the last one who
\* shows it (deletePrivateConversation, deleteUser).
THEOREM NothingAbandoned == Spec => NothingIsAbandoned
<1>1. Typed /\ Kept /\ [Next]_vars => Typed' /\ Kept'
  BY NextType, NextOneDeletes, NextOther, NextMember DEF Kept
<1>2. Typed /\ Kept /\ [Next]_vars =>
        [conv' # NoConv /\ ~crossed' =>
           /\ \E u \in Users : row'[u] # "NONE"
           /\ Showing # {} /\ Showing' = {} =>
                \E u \in account \ account' : u \in Showing]_vars
  BY NextAbandoned DEF AbandonsNothing
<1> QED
  BY <1>1, <1>2, InitType, InitKept, PTL DEF Spec, NothingIsAbandoned
=============================================================================
