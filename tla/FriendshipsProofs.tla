-------------------------- MODULE FriendshipsProofs --------------------------
(* Machine-checked proofs about Friendships, for any number of handlers and   *)
(* of requests.                                                               *)
EXTENDS Friendships, FiniteSetTheorems, SequenceTheorems, TLAPS

-----------------------------------------------------------------------------
(* The inductive invariant.                                                   *)

\* A handler that answers works with a request that is stored.
AnswerInv ==
    \A h \in Handlers :
        /\ pc[h] \in {"load", "save", "befriend", "restore"} =>
              row[h] \in DOMAIN requests /\ op[h] \in Answering
        /\ pc[h] \in {"befriend", "restore"} => op[h] = "accept"

\* A friendship that is visible has been visible, and one that is restored exists.
FriendInv ==
    /\ Visible => wereFriends
    /\ AcceptMakesFriends
    /\ \A h \in Handlers : pc[h] = "restore" => friendship.exists

\* Whoever got past the gate has seen a visible friendship.
ConversationInv ==
    /\ OneConversation
    /\ ConversationNeedsFriendship
    /\ \A h \in Handlers : pc[h] \in {"lookup", "open", "again"} => wereFriends

AtMostOneWaits == \A i, j \in Waiting : i = j

\* Without overlap a handler of requests is alone, so what it has read is still
\* true when it writes.
SerialInv ==
    serial =>
        /\ \A g, h \in Handlers : AtRequests(g) /\ AtRequests(h) => g = h
        /\ AtMostOneWaits
        /\ \A h \in Handlers : pc[h] = "insert" => Waiting = {}
        /\ \A h \in Handlers : pc[h] = "save" =>
              /\ copy[h] = requests[row[h]]
              /\ op[h] # "delete" => copy[h].status = "pending"

Inductive == TypeOK /\ AnswerInv /\ FriendInv /\ ConversationInv /\ SerialInv

-----------------------------------------------------------------------------
LEMMA BlankType == Blank \in Request /\ Blank.by \in Users /\ Blank.status = "pending" /\ ~Blank.ignored
<1>1. Users # {}
  BY UsersAssumption, FS_EmptySet
<1>2. QED
  BY <1>1 DEF Blank, Request

LEMMA InitInductive == Init => Inductive
<1> SUFFICES ASSUME Init PROVE Inductive
  OBVIOUS
<1> USE BlankType DEF Init
<1>1. TypeOK
  BY EmptySeq DEF TypeOK, Locations, Operations
<1>2. AnswerInv /\ FriendInv /\ ConversationInv
  BY DEF AnswerInv, FriendInv, ConversationInv, AcceptMakesFriends, OneConversation,
         ConversationNeedsFriendship, Visible
<1>3. Waiting = {}
  BY DEF Waiting
<1>4. SerialInv
  BY <1>3 DEF SerialInv, AtRequests, AtMostOneWaits
<1>5. QED
  BY <1>1, <1>2, <1>4 DEF Inductive

\* What is written for an answered request is a request.
LEMMA AnsweredType ==
  ASSUME TypeOK, AnswerInv, NEW h \in Handlers, pc[h] = "save"
  PROVE  Answered(h) \in Request /\ row[h] \in 1..Len(requests)
<1>1. row[h] \in 1..Len(requests) /\ op[h] \in Answering
  BY LenProperties DEF TypeOK, AnswerInv
<1>2. requests[row[h]] \in Request
  BY <1>1, ElementOfSeq DEF TypeOK
<1>3. copy[h] \in Request /\ copy[h].ignored \in BOOLEAN
  BY DEF TypeOK, Request
<1>4. QED
  BY <1>1, <1>2, <1>3 DEF Answered, Answering, Request

LocalsOK ==
    /\ pc \in [Handlers -> Locations]
    /\ op \in [Handlers -> Operations]
    /\ user \in [Handlers -> Users]
    /\ row \in [Handlers -> Nat]
    /\ copy \in [Handlers -> Request]

\* A handler that ends, or goes on with what it knows, keeps the types.
LEMMA EndType ==
  ASSUME TypeOK, NEW h \in Handlers, End(h)
  PROVE  LocalsOK'
BY BlankType DEF TypeOK, LocalsOK, End, Goto, Locations, Operations

LEMMA GotoType ==
  ASSUME TypeOK, NEW h \in Handlers, NEW l \in Locations, Goto(h, l), UNCHANGED locals
  PROVE  LocalsOK'
BY DEF TypeOK, LocalsOK, Goto, locals

LEMMA TypePreserved ==
  ASSUME TypeOK, AnswerInv, [Next]_vars
  PROVE  TypeOK'
<1> DEFINE RestOK ==
      /\ requests \in Seq(Request)
      /\ friendship \in [exists : BOOLEAN, hidden : SUBSET Users]
      /\ conversations \in Nat
      /\ serial \in BOOLEAN
      /\ befriended \subseteq Nat
      /\ owed \in BOOLEAN
      /\ wereFriends \in BOOLEAN
      /\ named \subseteq Nat
<1>0. SUFFICES LocalsOK' /\ RestOK'
  BY DEF TypeOK, LocalsOK
<1>1. ASSUME NEW h \in Handlers, Start(h)
      PROVE  LocalsOK' /\ RestOK'
  <2>1. DOMAIN requests \subseteq Nat
    BY LenProperties DEF TypeOK
  <2>2. PICK o \in Operations, u \in Users, i \in DOMAIN requests \cup {0} :
           /\ op' = [op EXCEPT ![h] = o]
           /\ user' = [user EXCEPT ![h] = u]
           /\ row' = [row EXCEPT ![h] = i]
           /\ Goto(h, FirstStep(o))
    BY <1>1 DEF Start
  <2>3. pc' \in [Handlers -> Locations]
    <3>1. FirstStep(o) \in Locations
      BY DEF FirstStep, Locations
    <3>2. QED
      BY <2>2, <3>1 DEF Goto, TypeOK
  <2>4. LocalsOK'
    <3>1. copy' = copy
      BY <1>1 DEF Start
    <3>2. op' \in [Handlers -> Operations] /\ user' \in [Handlers -> Users]
      BY <2>2 DEF TypeOK
    <3>3. row' \in [Handlers -> Nat]
      BY <2>1, <2>2 DEF TypeOK
    <3>4. QED
      BY <2>3, <3>1, <3>2, <3>3 DEF LocalsOK, TypeOK
  <2>5. serial' \in BOOLEAN
    BY <1>1 DEF Start, TypeOK
  <2>6. RestOK'
    BY <1>1, <2>5 DEF Start, TypeOK, tables
  <2>7. QED
    BY <2>4, <2>6
<1>2. ASSUME NEW h \in Handlers, ReadRelation(h) \/ ReadPending(h) \/ Gate(h)
      PROVE  LocalsOK' /\ RestOK'
  <2>1. End(h) \/ \E l \in Locations : Goto(h, l) /\ UNCHANGED locals
    BY <1>2 DEF ReadRelation, ReadPending, Gate, Locations
  <2>2. LocalsOK'
    BY <2>1, EndType, GotoType
  <2>3. UNCHANGED <<tables, history>>
    BY <1>2 DEF ReadRelation, ReadPending, Gate
  <2>4. QED
    BY <2>2, <2>3 DEF TypeOK, tables, history
<1>3. ASSUME NEW h \in Handlers, InsertRequest(h)
      PROVE  LocalsOK' /\ RestOK'
  <2>1. [Blank EXCEPT !.by = user[h]] \in Request
    BY BlankType DEF Request, TypeOK
  <2>2. requests' \in Seq(Request)
    BY <1>3, <2>1, AppendProperties DEF InsertRequest, TypeOK
  <2>3. LocalsOK'
    BY <1>3, EndType DEF InsertRequest
  <2>4. QED
    BY <1>3, <2>2, <2>3 DEF InsertRequest, TypeOK, history
<1>4. ASSUME NEW h \in Handlers, Load(h)
      PROVE  LocalsOK' /\ RestOK'
  <2>1. row[h] \in 1..Len(requests)
    BY <1>4, LenProperties DEF Load, AnswerInv, TypeOK
  <2>2. requests[row[h]] \in Request
    BY <2>1, ElementOfSeq DEF TypeOK
  <2>3. CASE End(h)
    BY <1>4, <2>3, EndType DEF Load, TypeOK, tables, history
  <2>4. CASE ~End(h)
    <3>1. /\ copy' = [copy EXCEPT ![h] = requests[row[h]]]
          /\ Goto(h, "save")
          /\ UNCHANGED <<op, user, row, tables, history>>
      BY <1>4, <2>4 DEF Load
    <3>2. LocalsOK'
      BY <2>2, <3>1 DEF LocalsOK, TypeOK, Goto, Locations
    <3>3. QED
      BY <3>1, <3>2 DEF TypeOK, tables, history
  <2>5. QED
    BY <2>3, <2>4
<1>5. ASSUME NEW h \in Handlers, Save(h)
      PROVE  LocalsOK' /\ RestOK'
  <2>1. pc[h] = "save" /\ requests' = [requests EXCEPT ![row[h]] = Answered(h)]
    BY <1>5 DEF Save
  <2>2. requests' \in Seq(Request)
    BY <2>1, AnsweredType, ExceptSeq DEF TypeOK
  <2>3. End(h) \/ (Goto(h, "befriend") /\ UNCHANGED locals)
    BY <1>5 DEF Save
  <2>4. LocalsOK'
    BY <2>3, EndType, GotoType DEF Locations
  <2>5. QED
    BY <1>5, <2>2, <2>4 DEF Save, TypeOK, history
<1>6. ASSUME NEW h \in Handlers, Befriend(h) \/ Restore(h) \/ Hide(h)
      PROVE  LocalsOK' /\ RestOK'
  <2>1. friendship' \in [exists : BOOLEAN, hidden : SUBSET Users]
    <3> DEFINE F == friendship
    <3>1. F.exists \in BOOLEAN /\ F.hidden \subseteq Users /\ user[h] \in Users
      BY DEF TypeOK
    <3>2. CASE Befriend(h)
      BY <3>1, <3>2 DEF Befriend, TypeOK
    <3>3. CASE Restore(h)
      BY <3>1, <3>3 DEF Restore, TypeOK
    <3>4. CASE Hide(h)
      <4>1. CASE friendship' = friendship
        BY <4>1 DEF TypeOK
      <4>2. CASE friendship' = [friendship EXCEPT !.hidden = friendship.hidden \cup {user[h]}]
        BY <3>1, <4>2 DEF TypeOK
      <4>3. QED
        BY <3>4, <4>1, <4>2 DEF Hide
    <3>5. QED
      BY <1>6, <3>2, <3>3, <3>4
  <2>2. wereFriends' \in BOOLEAN /\ owed' \in BOOLEAN /\ befriended' \subseteq Nat
    <3>1. Visible' \in BOOLEAN
      BY DEF Visible
    <3>2. CASE Befriend(h)
      <4>1. wereFriends' = (wereFriends \/ Visible')
        BY <3>2 DEF Befriend
      <4>2. wereFriends' \in BOOLEAN
        BY <4>1, <3>1, Zenon DEF TypeOK
      <4>3. QED
        BY <3>2, <4>2 DEF Befriend, TypeOK
    <3>3. CASE Restore(h)
      BY <3>3 DEF Restore, TypeOK
    <3>4. CASE Hide(h)
      BY <3>4 DEF Hide, TypeOK
    <3>5. QED
      BY <1>6, <3>2, <3>3, <3>4
  <2>3. End(h) \/ (Goto(h, "restore") /\ UNCHANGED locals)
    BY <1>6 DEF Befriend, Restore, Hide
  <2>4. LocalsOK'
    BY <2>3, EndType, GotoType DEF Locations
  <2>5. UNCHANGED <<requests, conversations, serial, named>>
    BY <1>6 DEF Befriend, Restore, Hide
  <2>6. QED
    BY <2>1, <2>2, <2>4, <2>5 DEF TypeOK
<1>7. ASSUME NEW h \in Handlers, Lookup(h) \/ OpenConversation(h)
      PROVE  LocalsOK' /\ RestOK'
  <2>1. End(h) \/ \E l \in Locations : Goto(h, l) /\ UNCHANGED locals
    BY <1>7 DEF Lookup, OpenConversation, Locations
  <2>2. LocalsOK'
    BY <2>1, EndType, GotoType
  <2>3. conversations' \in Nat /\ named' \subseteq Nat
    <3>1. conversations' \in {conversations, 1}
      BY <1>7 DEF Lookup, OpenConversation, tables
    <3>2. named' \subseteq named \cup {1}
      BY <1>7 DEF Lookup, OpenConversation
    <3>3. QED
      BY <3>1, <3>2 DEF TypeOK
  <2>4. UNCHANGED <<requests, friendship, serial, befriended, owed, wereFriends>>
    BY <1>7 DEF Lookup, OpenConversation, tables
  <2>5. QED
    BY <2>2, <2>3, <2>4 DEF TypeOK
<1>8. ASSUME NEW h \in Handlers, Fail(h)
      PROVE  LocalsOK' /\ RestOK'
  BY <1>8, EndType DEF Fail, TypeOK, tables, history
<1>9. ASSUME UNCHANGED vars
      PROVE  LocalsOK' /\ RestOK'
  BY <1>9 DEF vars, TypeOK, LocalsOK, tables, locals, history
<1>10. QED
  BY <1>1, <1>2, <1>3, <1>4, <1>5, <1>6, <1>7, <1>8, <1>9 DEF Next

\* No step takes a request away.
LEMMA RequestsGrow ==
  ASSUME TypeOK, AnswerInv, [Next]_vars
  PROVE  DOMAIN requests \subseteq DOMAIN requests'
<1>1. ASSUME NEW h \in Handlers, InsertRequest(h)
      PROVE  DOMAIN requests \subseteq DOMAIN requests'
  BY <1>1, AppendProperties, LenProperties DEF InsertRequest, TypeOK
<1>2. ASSUME NEW h \in Handlers, Save(h)
      PROVE  DOMAIN requests \subseteq DOMAIN requests'
  BY <1>2 DEF Save
<1>3. CASE UNCHANGED requests
  BY <1>3
<1>4. QED
  BY <1>1, <1>2, <1>3 DEF Next, vars, tables, Start, ReadRelation, ReadPending, Load, Befriend,
     Restore, Hide, Gate, Lookup, OpenConversation, Fail

LEMMA AnswerPreserved ==
  ASSUME TypeOK, AnswerInv, [Next]_vars
  PROVE  AnswerInv'
<1>0. DOMAIN requests \subseteq DOMAIN requests'
  BY RequestsGrow
<1>1. ASSUME NEW h \in Handlers, End(h)
      PROVE  AnswerInv'
  BY <1>0, <1>1 DEF End, Goto, AnswerInv, TypeOK
<1>2. ASSUME NEW h \in Handlers, NEW l \in {"pending", "insert", "lookup", "open", "again"},
             Goto(h, l), UNCHANGED locals
      PROVE  AnswerInv'
  BY <1>0, <1>2 DEF Goto, AnswerInv, TypeOK, locals
<1>3. ASSUME NEW h \in Handlers, Start(h)
      PROVE  AnswerInv'
  <2>1. PICK o \in Operations, u \in Users, i \in DOMAIN requests \cup {0} :
           /\ (o \in Answering) <=> (i # 0)
           /\ op' = [op EXCEPT ![h] = o]
           /\ row' = [row EXCEPT ![h] = i]
           /\ Goto(h, FirstStep(o))
    BY <1>3 DEF Start
  <2>2. FirstStep(o) \in {"relation", "hide", "gate", "load"}
    BY DEF FirstStep
  <2>3. FirstStep(o) = "load" => o \in Answering
    BY DEF FirstStep, Operations, Answering
  <2>4. ASSUME NEW g \in Handlers
        PROVE  /\ pc'[g] \in {"load", "save", "befriend", "restore"} =>
                     row'[g] \in DOMAIN requests /\ op'[g] \in Answering
               /\ pc'[g] \in {"befriend", "restore"} => op'[g] = "accept"
    <3>1. CASE g = h
      BY <2>1, <2>2, <2>3, <3>1 DEF Goto, TypeOK
    <3>2. CASE g # h
      BY <2>1, <3>2 DEF Goto, TypeOK, AnswerInv
    <3>3. QED
      BY <3>1, <3>2
  <2>5. QED
    BY <1>0, <2>4 DEF AnswerInv
<1>4. ASSUME NEW h \in Handlers, Load(h), ~End(h)
      PROVE  AnswerInv'
  BY <1>0, <1>4 DEF Load, Goto, AnswerInv, TypeOK
<1>5. ASSUME NEW h \in Handlers, Save(h), ~End(h)
      PROVE  AnswerInv'
  BY <1>0, <1>5 DEF Save, Goto, AnswerInv, TypeOK, locals
<1>6. ASSUME NEW h \in Handlers, Befriend(h), ~End(h)
      PROVE  AnswerInv'
  BY <1>0, <1>6 DEF Befriend, Goto, AnswerInv, TypeOK, locals
<1>7. ASSUME NEW h \in Handlers,
             \/ ReadRelation(h) \/ ReadPending(h) \/ InsertRequest(h) \/ Restore(h) \/ Hide(h)
             \/ Gate(h) \/ Lookup(h) \/ OpenConversation(h) \/ Fail(h)
      PROVE  AnswerInv'
  <2>1. End(h) \/ \E l \in {"pending", "insert", "lookup", "open", "again"} : Goto(h, l) /\ UNCHANGED locals
    BY <1>7 DEF ReadRelation, ReadPending, InsertRequest, Restore, Hide, Gate, Lookup,
       OpenConversation, Fail
  <2>2. QED
    BY <2>1, <1>1, <1>2
<1>8. CASE UNCHANGED vars
  BY <1>8 DEF vars, tables, locals, AnswerInv
<1>9. QED
  BY <1>1, <1>3, <1>4, <1>5, <1>6, <1>7, <1>8 DEF Next

\* The location of every other handler stays as it is.
LEMMA OthersStay ==
  ASSUME TypeOK, NEW h \in Handlers, End(h) \/ \E l \in Locations : Goto(h, l)
  PROVE  \A g \in Handlers \ {h} : pc'[g] = pc[g]
BY DEF TypeOK, End, Goto

LEMMA FriendPreserved ==
  ASSUME TypeOK, AnswerInv, FriendInv, [Next]_vars
  PROVE  FriendInv'
<1> USE DEF FriendInv, AcceptMakesFriends, Visible, TypeOK
<1>1. ASSUME NEW h \in Handlers, Befriend(h)
      PROVE  FriendInv'
  <2>1. friendship' = [friendship EXCEPT !.exists = TRUE]
    BY <1>1 DEF Befriend
  <2>2. friendship'.exists /\ friendship'.hidden = friendship.hidden
    BY <2>1
  <2>3. Visible' => wereFriends'
    <3>1. wereFriends' = (wereFriends \/ Visible')
      BY <1>1 DEF Befriend
    <3>2. QED
      BY <3>1, Zenon
  <2>4. AcceptMakesFriends'
    BY <1>1, <2>2 DEF Befriend
  <2>5. QED
    BY <2>2, <2>3, <2>4
<1>2. ASSUME NEW h \in Handlers, Restore(h)
      PROVE  FriendInv'
  <2>1. friendship.exists /\ friendship' = [friendship EXCEPT !.hidden = {}]
    BY <1>2 DEF Restore
  <2>2. friendship'.exists /\ friendship'.hidden = {}
    BY <2>1
  <2>3. wereFriends' = TRUE
    BY <1>2 DEF Restore
  <2>4. QED
    BY <2>2, <2>3
<1>3. ASSUME NEW h \in Handlers, Hide(h)
      PROVE  FriendInv'
  <2>1. UNCHANGED wereFriends /\ End(h)
    BY <1>3 DEF Hide
  <2>2. \A g \in Handlers : pc'[g] = "restore" => pc[g] = "restore"
    BY <2>1 DEF End, Goto
  <2>3. CASE friendship.exists
    <3>1. friendship' = [friendship EXCEPT !.hidden = friendship.hidden \cup {user[h]}] /\ ~owed'
      BY <1>3, <2>3 DEF Hide
    <3>2. friendship'.exists /\ friendship'.hidden # {}
      BY <2>3, <3>1
    <3>3. QED
      BY <3>1, <3>2
  <2>4. CASE ~friendship.exists
    BY <1>3, <2>1, <2>2, <2>4 DEF Hide
  <2>5. QED
    BY <2>3, <2>4
<1>4. ASSUME UNCHANGED <<friendship, owed, wereFriends>>,
             \A g \in Handlers : pc'[g] = "restore" => pc[g] = "restore"
      PROVE  FriendInv'
  BY <1>4
<1>5. ASSUME NEW h \in Handlers, Start(h)
      PROVE  FriendInv'
  <2>1. \E o \in Operations : Goto(h, FirstStep(o))
    BY <1>5 DEF Start
  <2>2. \A o \in Operations : FirstStep(o) # "restore"
    BY DEF FirstStep
  <2>3. \A g \in Handlers : pc'[g] = "restore" => pc[g] = "restore"
    BY <2>1, <2>2 DEF Goto
  <2>4. QED
    BY <1>4, <1>5, <2>3 DEF Start, tables
<1>6. ASSUME NEW h \in Handlers,
             \/ ReadRelation(h) \/ ReadPending(h) \/ InsertRequest(h) \/ Load(h) \/ Save(h)
             \/ Gate(h) \/ Lookup(h) \/ OpenConversation(h) \/ Fail(h)
      PROVE  FriendInv'
  <2>1. UNCHANGED <<friendship, owed, wereFriends>>
    BY <1>6 DEF ReadRelation, ReadPending, InsertRequest, Load, Save, Gate, Lookup,
       OpenConversation, Fail, tables, history
  <2>2. End(h) \/ \E l \in Locations \ {"restore"} : Goto(h, l)
    BY <1>6 DEF ReadRelation, ReadPending, InsertRequest, Load, Save, Gate, Lookup,
       OpenConversation, Fail, Locations
  <2>3. \A g \in Handlers : pc'[g] = "restore" => pc[g] = "restore"
    BY <2>2 DEF End, Goto
  <2>4. QED
    BY <1>4, <2>1, <2>3
<1>7. CASE UNCHANGED vars
  BY <1>7 DEF vars, tables, history
<1>8. QED
  BY <1>1, <1>2, <1>3, <1>5, <1>6, <1>7 DEF Next

LEMMA ConversationPreserved ==
  ASSUME TypeOK, FriendInv, ConversationInv, [Next]_vars
  PROVE  ConversationInv'
<1> USE DEF ConversationInv, OneConversation, ConversationNeedsFriendship, TypeOK
<1> DEFINE Past(g) == pc[g] \in {"lookup", "open", "again"}
<1>1. wereFriends => wereFriends'
  <2>1. ASSUME NEW h \in Handlers, Befriend(h)
        PROVE  wereFriends => wereFriends'
    <3>1. wereFriends' = (wereFriends \/ Visible')
      BY <2>1 DEF Befriend
    <3>2. QED
      BY <3>1, Zenon
  <2>2. ASSUME NEW h \in Handlers, Restore(h)
        PROVE  wereFriends => wereFriends'
    BY <2>2 DEF Restore
  <2>3. CASE UNCHANGED wereFriends
    BY <2>3
  <2>4. QED
    BY <2>1, <2>2, <2>3 DEF Next, vars, history, Start, ReadRelation, ReadPending, InsertRequest,
       Load, Save, Hide, Gate, Lookup, OpenConversation, Fail
<1>2. ASSUME UNCHANGED <<conversations, named>>, \A g \in Handlers : Past(g)' => Past(g)
      PROVE  ConversationInv'
  BY <1>1, <1>2
<1>3. ASSUME NEW h \in Handlers, Start(h)
      PROVE  ConversationInv'
  <2>1. \E o \in Operations : Goto(h, FirstStep(o))
    BY <1>3 DEF Start
  <2>2. \A o \in Operations : FirstStep(o) \notin {"lookup", "open", "again"}
    BY DEF FirstStep
  <2>3. \A g \in Handlers : Past(g)' => Past(g)
    BY <2>1, <2>2 DEF Goto
  <2>4. QED
    BY <1>2, <1>3, <2>3 DEF Start, tables
<1>4. ASSUME NEW h \in Handlers,
             \/ ReadRelation(h) \/ ReadPending(h) \/ InsertRequest(h) \/ Load(h) \/ Save(h)
             \/ Befriend(h) \/ Restore(h) \/ Hide(h) \/ Fail(h)
      PROVE  ConversationInv'
  <2>1. UNCHANGED <<conversations, named>>
    BY <1>4 DEF ReadRelation, ReadPending, InsertRequest, Load, Save, Befriend, Restore, Hide,
       Fail, tables, history
  <2>2. End(h) \/ \E l \in {"pending", "insert", "save", "befriend", "restore"} : Goto(h, l)
    BY <1>4 DEF ReadRelation, ReadPending, InsertRequest, Load, Save, Befriend, Restore, Hide, Fail
  <2>3. \A g \in Handlers : Past(g)' => Past(g)
    BY <2>2 DEF End, Goto
  <2>4. QED
    BY <1>2, <2>1, <2>3
<1>5. ASSUME NEW h \in Handlers, Gate(h)
      PROVE  ConversationInv'
  <2>1. UNCHANGED <<conversations, named>>
    BY <1>5 DEF Gate, tables, history
  <2>2. CASE Visible
    BY <1>1, <2>1, <2>2 DEF FriendInv
  <2>3. CASE ~Visible
    <3>1. \A g \in Handlers : Past(g)' => Past(g)
      BY <1>5, <2>3 DEF Gate, End, Goto
    <3>2. QED
      BY <1>2, <2>1, <3>1
  <2>4. QED
    BY <2>2, <2>3
<1>6. ASSUME NEW h \in Handlers, Lookup(h) \/ OpenConversation(h)
      PROVE  ConversationInv'
  <2>1. wereFriends'
    BY <1>1, <1>6 DEF Lookup, OpenConversation
  <2>2. conversations' <= 1 /\ named' \subseteq 1..conversations'
    <3>0. conversations \in {0, 1} /\ \A n \in named : n \in Nat /\ 1 <= n /\ n <= conversations
      OBVIOUS
    <3>1. CASE Lookup(h)
      <4>1. UNCHANGED conversations
        BY <3>1 DEF Lookup, tables
      <4>2. \A n \in named' : n \in named \/ (n = 1 /\ conversations > 0)
        BY <3>1 DEF Lookup
      <4>3. ASSUME NEW n \in named' PROVE n \in 1..conversations
        <5>1. CASE n \in named
          BY <5>1
        <5>2. CASE n = 1 /\ conversations > 0
          BY <3>0, <5>2
        <5>3. QED
          BY <4>2, <5>1, <5>2
      <4>4. QED
        BY <3>0, <4>1, <4>3
    <3>2. CASE OpenConversation(h)
      <4>1. \/ conversations = 0 /\ conversations' = 1 /\ named' = named \cup {1}
            \/ UNCHANGED <<conversations, named>>
        BY <3>2 DEF OpenConversation
      <4>2. CASE conversations' = 1 /\ named' = named \cup {1}
        BY <3>0, <4>2
      <4>3. CASE UNCHANGED <<conversations, named>>
        BY <4>3
      <4>4. QED
        BY <4>1, <4>2, <4>3
    <3>3. QED
      BY <1>6, <3>1, <3>2
  <2>3. QED
    BY <2>1, <2>2
<1>7. CASE UNCHANGED vars
  BY <1>1, <1>7 DEF vars, tables, history
<1>8. QED
  BY <1>3, <1>4, <1>5, <1>6, <1>7 DEF Next

\* A step of a handler that changes no request and does not start one: what it
\* knows about the requests stays true.
LEMMA SerialKept ==
  ASSUME TypeOK, SerialInv, NEW h \in Handlers, UNCHANGED <<requests, serial>>,
         \/ End(h)
         \/ /\ UNCHANGED locals
            /\ \E l \in Locations \ {"relation", "insert", "load", "save"} :
                  /\ Goto(h, l)
                  /\ l \in {"pending", "befriend", "restore"} => AtRequests(h)
  PROVE  SerialInv'
<1> SUFFICES ASSUME serial PROVE SerialInv'
  BY DEF SerialInv
<1>1. UNCHANGED Waiting
  BY DEF Waiting
<1>2. \A g \in Handlers : AtRequests(g)' => AtRequests(g)
  BY DEF End, Goto, AtRequests, TypeOK, Locations
<1>3. \A g \in Handlers : pc'[g] \in {"insert", "save"} =>
         pc'[g] = pc[g] /\ UNCHANGED <<copy[g], row[g], op[g]>>
  BY DEF End, Goto, TypeOK, Locations, locals
<1>4. \A g1, g2 \in Handlers : AtRequests(g1)' /\ AtRequests(g2)' => g1 = g2
  BY <1>2 DEF SerialInv
<1>5. AtMostOneWaits'
  BY <1>1 DEF SerialInv, AtMostOneWaits
<1>6. \A g \in Handlers : pc'[g] = "insert" => Waiting' = {}
  BY <1>1, <1>3 DEF SerialInv
<1>7. \A g \in Handlers : pc'[g] = "save" =>
         /\ copy'[g] = requests'[row'[g]]
         /\ op'[g] # "delete" => copy'[g].status = "pending"
  BY <1>3 DEF SerialInv
<1>8. QED
  BY <1>4, <1>5, <1>6, <1>7 DEF SerialInv

LEMMA SerialPreserved ==
  ASSUME TypeOK, AnswerInv, SerialInv, [Next]_vars
  PROVE  SerialInv'
<1>1. ASSUME NEW h \in Handlers, Start(h)
      PROVE  SerialInv'
  <2> SUFFICES ASSUME serial' PROVE SerialInv'
    BY DEF SerialInv
  <2>1. PICK o \in Operations :
           /\ Goto(h, FirstStep(o))
           /\ o \in Answering \cup {"create"} => \A g \in Handlers \ {h} : ~AtRequests(g)
    BY <1>1 DEF Start
  <2>2. FirstStep(o) \in {"relation", "hide", "gate", "load"}
    BY DEF FirstStep
  <2>3. FirstStep(o) \in {"relation", "load"} => o \in Answering \cup {"create"}
    BY DEF FirstStep, Operations, Answering
  <2>4. serial /\ UNCHANGED <<requests, copy>> /\ UNCHANGED Waiting
    BY <1>1 DEF Start, tables, Waiting
  <2>5. \A g \in Handlers \ {h} : pc'[g] = pc[g] /\ UNCHANGED <<row[g], op[g]>>
    BY <1>1, <2>1 DEF Start, Goto, TypeOK
  <2>6. pc'[h] = FirstStep(o)
    BY <2>1 DEF Goto, TypeOK
  <2>7. \A g1, g2 \in Handlers : AtRequests(g1)' /\ AtRequests(g2)' => g1 = g2
    <3>1. \A g \in Handlers \ {h} : AtRequests(g)' => AtRequests(g)
      BY <2>5 DEF AtRequests
    <3>2. AtRequests(h)' => \A g \in Handlers \ {h} : ~AtRequests(g)
      BY <2>1, <2>2, <2>3, <2>6 DEF AtRequests
    <3>3. QED
      BY <2>4, <3>1, <3>2 DEF SerialInv
  <2>8. \A g \in Handlers : pc'[g] \in {"insert", "save"} =>
           g # h /\ pc'[g] = pc[g] /\ UNCHANGED <<row[g], op[g]>>
    BY <2>2, <2>5, <2>6
  <2>9. QED
    BY <2>4, <2>7, <2>8 DEF SerialInv, AtMostOneWaits
<1>2. ASSUME NEW h \in Handlers,
             \/ ReadRelation(h) \/ Befriend(h) \/ Restore(h) \/ Hide(h)
             \/ Gate(h) \/ Lookup(h) \/ OpenConversation(h) \/ Fail(h)
      PROVE  SerialInv'
  <2>1. UNCHANGED <<requests, serial>>
    BY <1>2 DEF ReadRelation, Befriend, Restore, Hide, Gate, Lookup, OpenConversation, Fail,
       tables, history
  <2>2. End(h) \/ (UNCHANGED locals /\ \E l \in Locations \ {"relation", "insert", "load", "save"} :
                      Goto(h, l) /\ (l \in {"pending", "befriend", "restore"} => AtRequests(h)))
    BY <1>2 DEF ReadRelation, Befriend, Restore, Hide, Gate, Lookup, OpenConversation, Fail,
       Locations, AtRequests
  <2>3. QED
    BY <2>1, <2>2, SerialKept
<1>3. ASSUME NEW h \in Handlers, ReadPending(h)
      PROVE  SerialInv'
  <2>1. UNCHANGED <<requests, serial>>
    BY <1>3 DEF ReadPending, tables, history
  <2>2. CASE End(h)
    BY <2>1, <2>2, SerialKept
  <2>3. CASE ~End(h)
    <3> SUFFICES ASSUME serial PROVE SerialInv'
      BY <2>1 DEF SerialInv
    <3>1. Waiting = {} /\ Goto(h, "insert") /\ UNCHANGED locals /\ pc[h] = "pending"
      BY <1>3, <2>3 DEF ReadPending
    <3>2. Waiting' = {}
      BY <2>1, <3>1 DEF Waiting
    <3>3. \A g \in Handlers : AtRequests(g)' => AtRequests(g)
      BY <3>1 DEF Goto, AtRequests, TypeOK
    <3>4. \A g \in Handlers : pc'[g] = "save" =>
             pc[g] = "save" /\ UNCHANGED <<copy[g], row[g], op[g]>>
      BY <3>1 DEF Goto, TypeOK, locals
    <3>5. QED
      BY <2>1, <3>2, <3>3, <3>4 DEF SerialInv, AtMostOneWaits
  <2>4. QED
    BY <2>2, <2>3
<1>4. ASSUME NEW h \in Handlers, InsertRequest(h)
      PROVE  SerialInv'
  <2> SUFFICES ASSUME serial PROVE SerialInv'
    BY <1>4 DEF SerialInv, InsertRequest, history
  <2>1. pc[h] = "insert" /\ End(h) /\ requests' = Append(requests, [Blank EXCEPT !.by = user[h]])
    BY <1>4 DEF InsertRequest
  <2>2. Waiting = {} /\ \A g \in Handlers : AtRequests(g) => g = h
    BY <2>1 DEF SerialInv, AtRequests
  <2>3. \A g \in Handlers : ~AtRequests(g)'
    BY <2>1, <2>2 DEF End, Goto, AtRequests, TypeOK
  <2>4. [Blank EXCEPT !.by = user[h]] \in Request
    BY BlankType DEF Request, TypeOK
  <2>5. /\ DOMAIN requests' = 1..(Len(requests) + 1) /\ DOMAIN requests = 1..Len(requests)
        /\ Len(requests) \in Nat
        /\ \A i \in 1..Len(requests) : requests'[i] = requests[i]
    BY <2>1, <2>4, AppendProperties, LenProperties DEF TypeOK
  <2>6. Waiting' \subseteq {Len(requests) + 1}
    BY <2>2, <2>5 DEF Waiting
  <2>7. QED
    BY <2>3, <2>6 DEF SerialInv, AtMostOneWaits, AtRequests
<1>5. ASSUME NEW h \in Handlers, Load(h)
      PROVE  SerialInv'
  <2>1. UNCHANGED <<requests, serial>>
    BY <1>5 DEF Load, tables, history
  <2>2. CASE End(h)
    BY <2>1, <2>2, SerialKept
  <2>3. CASE ~End(h)
    <3> SUFFICES ASSUME serial PROVE SerialInv'
      BY <2>1 DEF SerialInv
    <3>1. /\ pc[h] = "load" /\ Goto(h, "save") /\ UNCHANGED <<op, user, row>>
          /\ copy' = [copy EXCEPT ![h] = requests[row[h]]]
          /\ op[h] # "delete" => requests[row[h]].status = "pending"
      BY <1>5, <2>3 DEF Load
    <3>2. Waiting' = Waiting
      BY <2>1 DEF Waiting
    <3>3. \A g \in Handlers : AtRequests(g)' => AtRequests(g)
      BY <3>1 DEF Goto, AtRequests, TypeOK
    <3>4. \A g \in Handlers \ {h} : pc'[g] = pc[g] /\ UNCHANGED <<copy[g], row[g], op[g]>>
      BY <3>1 DEF Goto, TypeOK
    <3>5. pc'[h] = "save" /\ copy'[h] = requests'[row'[h]]
      BY <2>1, <3>1 DEF Goto, TypeOK
    <3>6. op'[h] # "delete" => copy'[h].status = "pending"
      BY <2>1, <3>1, <3>5
    <3>7. QED
      BY <2>1, <3>2, <3>3, <3>4, <3>5, <3>6 DEF SerialInv, AtMostOneWaits
  <2>4. QED
    BY <2>2, <2>3
<1>6. ASSUME NEW h \in Handlers, Save(h)
      PROVE  SerialInv'
  <2> SUFFICES ASSUME serial PROVE SerialInv'
    BY <1>6 DEF SerialInv, Save, history
  <2>1. pc[h] = "save" /\ requests' = [requests EXCEPT ![row[h]] = Answered(h)]
    BY <1>6 DEF Save
  <2>2. End(h) \/ (Goto(h, "befriend") /\ UNCHANGED locals)
    BY <1>6 DEF Save
  <2>3. \A g \in Handlers : AtRequests(g) => g = h
    BY <2>1 DEF SerialInv, AtRequests
  <2>4. \A g \in Handlers : pc'[g] \notin {"insert", "save"} /\ (AtRequests(g)' => g = h)
    BY <2>2, <2>3 DEF End, Goto, AtRequests, TypeOK
  <2>5. Answered(h).status = "pending" /\ ~Answered(h).ignored =>
           requests[row[h]].status = "pending" /\ ~requests[row[h]].ignored
    <3>1. copy[h] = requests[row[h]]
      BY <2>1 DEF SerialInv
    <3>2. copy[h] \in Request /\ op[h] \in Answering
      BY <2>1 DEF TypeOK, AnswerInv
    <3>3. QED
      BY <3>1, <3>2 DEF Answered, Answering, Request
  <2>6. Waiting' \subseteq Waiting
    BY <2>1, <2>5, LenProperties DEF Waiting, TypeOK
  <2>7. QED
    BY <2>4, <2>6 DEF SerialInv, AtMostOneWaits
<1>7. CASE UNCHANGED vars
  BY <1>7 DEF vars, tables, locals, history, SerialInv, AtRequests, AtMostOneWaits, Waiting
<1>8. QED
  BY <1>1, <1>2, <1>3, <1>4, <1>5, <1>6, <1>7 DEF Next

LEMMA StepInductive == Inductive /\ [Next]_vars => Inductive'
BY TypePreserved, AnswerPreserved, FriendPreserved, ConversationPreserved, SerialPreserved
   DEF Inductive

LEMMA AlwaysInductive == Spec => []Inductive
BY InitInductive, StepInductive, PTL DEF Spec

-----------------------------------------------------------------------------
(* The theorems.                                                              *)

\* Every variable keeps its type.
THEOREM TypeCorrect == Spec => []TypeOK
<1>1. Inductive => TypeOK
  BY DEF Inductive
<1>2. QED
  BY <1>1, AlwaysInductive, PTL

\* createFriendRequest: handlers that do not overlap leave at most one request of
\* the pair waiting.
THEOREM RequestsAreUnique == Spec => []OneRequestWaits
<1>1. Inductive => OneRequestWaits
  <2> SUFFICES ASSUME Inductive, serial PROVE Cardinality(Waiting) <= 1
    BY DEF OneRequestWaits
  <2>1. AtMostOneWaits
    BY DEF Inductive, SerialInv
  <2>2. CASE Waiting = {}
    BY <2>2, FS_EmptySet
  <2>3. CASE \E i \in Waiting : Waiting = {i}
    BY <2>3, FS_Singleton
  <2>4. QED
    BY <2>1, <2>2, <2>3 DEF AtMostOneWaits
<1>2. QED
  BY <1>1, AlwaysInductive, PTL

\* getPendingIncomingRequestOrThrow: handlers that do not overlap never change an
\* answer that was given.
THEOREM AnswersStay == Spec => AnswersAreFinal
<1> DEFINE Kept ==
      serial' => \A i \in DOMAIN requests :
        requests[i].status # "pending" => requests'[i].status = requests[i].status
<1>1. Inductive /\ [Next]_vars => [Kept]_vars
  <2> SUFFICES ASSUME Inductive, [Next]_vars, serial', NEW i \in DOMAIN requests,
                      requests[i].status # "pending"
               PROVE  requests'[i].status = requests[i].status
    OBVIOUS
  <2> USE DEF Inductive
  <2>1. ASSUME NEW h \in Handlers, InsertRequest(h)
        PROVE  requests'[i] = requests[i]
    <3>1. [Blank EXCEPT !.by = user[h]] \in Request
      BY BlankType DEF Request, TypeOK
    <3>2. QED
      BY <2>1, <3>1, AppendProperties, LenProperties DEF InsertRequest, TypeOK
  <2>2. ASSUME NEW h \in Handlers, Save(h)
        PROVE  requests'[i].status = requests[i].status
    <3>1. serial /\ pc[h] = "save" /\ requests' = [requests EXCEPT ![row[h]] = Answered(h)]
      BY <2>2 DEF Save, history
    <3>2. CASE i # row[h]
      BY <3>1, <3>2
    <3>3. CASE i = row[h]
      <4>1. copy[h] = requests[i] /\ (op[h] # "delete" => copy[h].status = "pending")
        BY <3>1, <3>3 DEF SerialInv
      <4>2. op[h] = "delete" /\ copy[h] \in Request
        BY <4>1 DEF TypeOK
      <4>3. Answered(h).status = copy[h].status
        BY <4>2 DEF Answered, Request
      <4>4. QED
        BY <3>1, <3>3, <4>1, <4>3
    <3>4. QED
      BY <3>2, <3>3
  <2>3. CASE UNCHANGED requests
    BY <2>3
  <2>4. QED
    BY <2>1, <2>2, <2>3 DEF Next, vars, tables, Start, ReadRelation, ReadPending, Load, Befriend,
       Restore, Hide, Gate, Lookup, OpenConversation, Fail
<1>2. QED
  BY <1>1, AlwaysInductive, PTL DEF Spec, AnswersAreFinal

\* acceptFriendRequest: whatever overlaps, an accept that was answered has made a
\* friendship that lasts until one of the two removes it.
THEOREM AcceptedAreFriends == Spec => []AcceptMakesFriends
<1>1. Inductive => AcceptMakesFriends
  BY DEF Inductive, FriendInv
<1>2. QED
  BY <1>1, AlwaysInductive, PTL

\* assertDirectConversationAllowed: whatever overlaps, only those who have been
\* friends have a direct conversation.
THEOREM ConversationsAreGated == Spec => []ConversationNeedsFriendship
<1>1. Inductive => ConversationNeedsFriendship
  BY DEF Inductive, ConversationInv
<1>2. QED
  BY <1>1, AlwaysInductive, PTL

\* createDirectConversation: whatever overlaps, the pair has one conversation.
THEOREM ConversationsAreUnique == Spec => []OneConversation
<1>1. Inductive => OneConversation
  BY DEF Inductive, ConversationInv
<1>2. QED
  BY <1>1, AlwaysInductive, PTL
=============================================================================
