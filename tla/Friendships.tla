---------------------------- MODULE Friendships -----------------------------
(* Two users: their friend requests, their friendship, and the direct         *)
(* conversation that the friendship gates.                                    *)
(*                                                                            *)
(*   FriendshipsService    request, accept, reject, delete, ignore, remove    *)
(*   ConversationsService  createDirectConversation                           *)
(*                                                                            *)
(* Every await of a handler is a step; a handler may fail at any of them.     *)
(* saveFriendRequest writes the whole row a handler has read, and nothing in  *)
(* the schema keeps a pair from having two pending requests; the friendship   *)
(* and the direct conversation of a pair are unique rows.                     *)
EXTENDS Naturals, Sequences, FiniteSets

CONSTANTS
    Handlers,  \* handlers that can run at the same time
    Users,     \* the two users
    MaxRows    \* bound: friend requests

ASSUME UsersAssumption == IsFiniteSet(Users) /\ Cardinality(Users) = 2
ASSUME BoundAssumption == MaxRows \in Nat

VARIABLES
    requests,      \* the friend request rows, in the order of createdAt
    friendship,    \* the friendship row: does it exist, who has hidden it
    conversations, \* how many conversations have the pair's directKey
    pc,            \* the call a handler makes next
    op,            \* what it does
    user,          \* for whom
    row,           \* the friend request it is about
    copy,          \* that row as it has read it
    serial,        \* history: handlers of friend requests never overlapped
    befriended,    \* history: rows whose accept called createFriendship
    owed,          \* history: an accept was answered and no removal came since
    wereFriends,   \* history: has the friendship been visible
    named          \* history: the conversations named in answers

tables == <<requests, friendship, conversations>>
locals == <<op, user, row, copy>>
history == <<serial, befriended, owed, wereFriends, named>>
vars == <<tables, pc, locals, history>>

Request == [by : Users, status : {"pending", "accepted", "rejected"}, ignored : BOOLEAN]
Operations == {"create", "accept", "reject", "delete", "ignore", "remove", "converse"}
Answering == {"accept", "reject", "delete", "ignore"}
Locations ==
    {"idle", "relation", "pending", "insert", "load", "save", "befriend", "restore",
     "hide", "gate", "lookup", "open", "again"}

Blank == [by |-> CHOOSE u \in Users : TRUE, status |-> "pending", ignored |-> FALSE]

\* findPendingRequestBetween: the requests that wait for an answer.
Waiting == {i \in DOMAIN requests : requests[i].status = "pending" /\ ~requests[i].ignored}
\* isFriendshipMutuallyVisible
Visible == friendship.exists /\ friendship.hidden = {}

Init ==
    /\ requests = <<>>
    /\ friendship = [exists |-> FALSE, hidden |-> {}]
    /\ conversations = 0
    /\ pc = [h \in Handlers |-> "idle"]
    /\ op = [h \in Handlers |-> "remove"]
    /\ user = [h \in Handlers |-> Blank.by]
    /\ row = [h \in Handlers |-> 0]
    /\ copy = [h \in Handlers |-> Blank]
    /\ serial = TRUE
    /\ befriended = {}
    /\ owed = FALSE
    /\ wereFriends = FALSE
    /\ named = {}

\* Does this handler work on a friend request?
AtRequests(h) ==
    pc[h] \in {"relation", "pending", "insert", "load", "save", "befriend", "restore"}

Goto(h, l) == pc' = [pc EXCEPT ![h] = l]

\* The handler ends, with an answer or an exception.
End(h) ==
    /\ Goto(h, "idle")
    /\ op' = [op EXCEPT ![h] = "remove"]
    /\ user' = [user EXCEPT ![h] = Blank.by]
    /\ row' = [row EXCEPT ![h] = 0]
    /\ copy' = [copy EXCEPT ![h] = Blank]

FirstStep(o) ==
    CASE o = "create"   -> "relation"
      [] o = "remove"   -> "hide"
      [] o = "converse" -> "gate"
      [] OTHER          -> "load"

\* A handler starts.  The rate limit, unknown users and the discovery mode may
\* refuse it; that is a failure like any other.
Start(h) ==
    /\ pc[h] = "idle"
    /\ \E o \in Operations, u \in Users, i \in DOMAIN requests \cup {0} :
          /\ (o \in Answering) <=> (i # 0)
          /\ op' = [op EXCEPT ![h] = o]
          /\ user' = [user EXCEPT ![h] = u]
          /\ row' = [row EXCEPT ![h] = i]
          /\ Goto(h, FirstStep(o))
          /\ serial' = (serial /\ (o \in Answering \cup {"create"} =>
                                    \A g \in Handlers \ {h} : ~AtRequests(g)))
    /\ UNCHANGED <<tables, copy, befriended, owed, wereFriends, named>>

-----------------------------------------------------------------------------
(* createFriendRequest                                                        *)

ReadRelation(h) ==
    /\ pc[h] = "relation"
    /\ IF Visible THEN End(h) ELSE Goto(h, "pending") /\ UNCHANGED locals
    /\ UNCHANGED <<tables, history>>

\* Faulty variant: only the user's own requests are looked at.
ReadOwnPending(h) ==
    /\ pc[h] = "pending"
    /\ IF \E i \in Waiting : requests[i].by = user[h]
       THEN End(h) ELSE Goto(h, "insert") /\ UNCHANGED locals
    /\ UNCHANGED <<tables, history>>

\* A request that waits for an answer, in either direction, is a conflict.
ReadPending(h) ==
    /\ pc[h] = "pending"
    /\ IF Waiting # {} THEN End(h) ELSE Goto(h, "insert") /\ UNCHANGED locals
    /\ UNCHANGED <<tables, history>>

InsertRequest(h) ==
    /\ pc[h] = "insert"
    /\ Len(requests) < MaxRows
    /\ requests' = Append(requests, [Blank EXCEPT !.by = user[h]])
    /\ End(h)
    /\ UNCHANGED <<friendship, conversations, history>>

-----------------------------------------------------------------------------
(* accept, reject, delete, ignore                                             *)

\* Faulty variant: a request that was answered can be answered again.
LoadAny(h) ==
    /\ pc[h] = "load"
    /\ LET r == requests[row[h]] IN
       IF op[h] # "delete" /\ r.by = user[h]
       THEN End(h)
       ELSE /\ copy' = [copy EXCEPT ![h] = r]
            /\ Goto(h, "save")
            /\ UNCHANGED <<op, user, row>>
    /\ UNCHANGED <<tables, history>>

\* Only the addressee answers a request, and only while it is pending; both
\* may delete their record of it.
Load(h) ==
    /\ pc[h] = "load"
    /\ LET r == requests[row[h]] IN
       IF op[h] # "delete" /\ (r.by = user[h] \/ r.status # "pending")
       THEN End(h)
       ELSE /\ copy' = [copy EXCEPT ![h] = r]
            /\ Goto(h, "save")
            /\ UNCHANGED <<op, user, row>>
    /\ UNCHANGED <<tables, history>>

\* Faulty variant: the ignored request gets a status of its own, which the
\* table does not have.
AnsweredByStatus(h) ==
    CASE op[h] = "accept" -> [copy[h] EXCEPT !.status = "accepted"]
      [] op[h] = "reject" -> [copy[h] EXCEPT !.status = "rejected"]
      [] op[h] \in {"delete", "ignore"} -> [copy[h] EXCEPT !.status = "ignored"]

\* What the handler writes.  An addressee who deletes a pending request ignores it.
Answered(h) ==
    CASE op[h] = "accept" -> [copy[h] EXCEPT !.status = "accepted"]
      [] op[h] = "reject" -> [copy[h] EXCEPT !.status = "rejected"]
      [] op[h] = "delete" ->
            [copy[h] EXCEPT !.ignored = @ \/ (copy[h].by # user[h] /\ copy[h].status = "pending")]
      [] op[h] = "ignore" ->
            [requests[row[h]] EXCEPT !.ignored = @ \/ requests[row[h]].status = "pending"]

\* saveFriendRequest writes the copy back; ignoreIncomingRequest is a conditional
\* update of the row as it is.
Save(h) ==
    /\ pc[h] = "save"
    /\ requests' = [requests EXCEPT ![row[h]] = Answered(h)]
    /\ IF op[h] = "accept" THEN Goto(h, "befriend") /\ UNCHANGED locals ELSE End(h)
    /\ UNCHANGED <<friendship, conversations, history>>

\* Faulty variant: a hidden friendship counts as restored.
BefriendOnce(h) ==
    /\ pc[h] = "befriend"
    /\ friendship' = [friendship EXCEPT !.exists = TRUE]
    /\ End(h)
    /\ owed' = TRUE
    /\ wereFriends' = (wereFriends \/ Visible')
    /\ befriended' = befriended \cup {row[h]}
    /\ UNCHANGED <<requests, conversations, serial, named>>

\* createFriendship: an upsert, and a second update if the row it finds is hidden.
Befriend(h) ==
    /\ pc[h] = "befriend"
    /\ friendship' = [friendship EXCEPT !.exists = TRUE]
    /\ IF friendship.hidden = {}
       THEN End(h) /\ owed' = TRUE
       ELSE Goto(h, "restore") /\ UNCHANGED <<locals, owed>>
    /\ wereFriends' = (wereFriends \/ Visible')
    /\ befriended' = befriended \cup {row[h]}
    /\ UNCHANGED <<requests, conversations, serial, named>>

Restore(h) ==
    /\ pc[h] = "restore"
    /\ friendship' = [friendship EXCEPT !.hidden = {}]
    /\ owed' = TRUE
    /\ wereFriends' = TRUE
    /\ End(h)
    /\ UNCHANGED <<requests, conversations, serial, befriended, named>>

-----------------------------------------------------------------------------
(* removeFriend                                                               *)

\* A conditional update: one who has not hidden the friendship hides it.
Hide(h) ==
    /\ pc[h] = "hide"
    /\ IF friendship.exists
       THEN /\ friendship' = [friendship EXCEPT !.hidden = @ \cup {user[h]}]
            /\ owed' = FALSE
       ELSE UNCHANGED <<friendship, owed>>
    /\ End(h)
    /\ UNCHANGED <<requests, conversations, serial, befriended, wereFriends, named>>

-----------------------------------------------------------------------------
(* createDirectConversation                                                   *)

\* Faulty variant: any relation lets a conversation be opened.
GateOnRelation(h) ==
    /\ pc[h] = "gate"
    /\ IF Visible \/ Waiting # {} THEN Goto(h, "lookup") /\ UNCHANGED locals ELSE End(h)
    /\ UNCHANGED <<tables, history>>

Gate(h) ==
    /\ pc[h] = "gate"
    /\ IF Visible THEN Goto(h, "lookup") /\ UNCHANGED locals ELSE End(h)
    /\ UNCHANGED <<tables, history>>

\* The conversation found is the answer; a second lookup that finds nothing
\* ends with the error of the insert.
Lookup(h) ==
    /\ pc[h] \in {"lookup", "again"}
    /\ IF conversations > 0 \/ pc[h] = "again"
       THEN End(h) /\ named' = named \cup {n \in {1} : conversations > 0}
       ELSE Goto(h, "open") /\ UNCHANGED <<locals, named>>
    /\ UNCHANGED <<tables, serial, befriended, owed, wereFriends>>

\* Faulty variant: directKey is not unique.
OpenAnother(h) ==
    /\ pc[h] = "open"
    /\ conversations' = conversations + 1
    /\ named' = named \cup {conversations + 1}
    /\ End(h)
    /\ UNCHANGED <<requests, friendship, serial, befriended, owed, wereFriends>>

\* The insert fails on the unique directKey when somebody else was first.
OpenConversation(h) ==
    /\ pc[h] = "open"
    /\ IF conversations = 0
       THEN conversations' = 1 /\ named' = named \cup {1} /\ End(h)
       ELSE Goto(h, "again") /\ UNCHANGED <<conversations, named, locals>>
    /\ UNCHANGED <<requests, friendship, serial, befriended, owed, wereFriends>>

-----------------------------------------------------------------------------
Fail(h) ==
    /\ pc[h] # "idle"
    /\ End(h)
    /\ UNCHANGED <<tables, history>>

Next ==
    \E h \in Handlers :
        \/ Start(h)
        \/ ReadRelation(h) \/ ReadPending(h) \/ InsertRequest(h)
        \/ Load(h) \/ Save(h) \/ Befriend(h) \/ Restore(h)
        \/ Hide(h)
        \/ Gate(h) \/ Lookup(h) \/ OpenConversation(h)
        \/ Fail(h)

Spec == Init /\ [][Next]_vars

-----------------------------------------------------------------------------
TypeOK ==
    /\ requests \in Seq(Request)
    /\ friendship \in [exists : BOOLEAN, hidden : SUBSET Users]
    /\ conversations \in Nat
    /\ pc \in [Handlers -> Locations]
    /\ op \in [Handlers -> Operations]
    /\ user \in [Handlers -> Users]
    /\ row \in [Handlers -> Nat]
    /\ copy \in [Handlers -> Request]
    /\ serial \in BOOLEAN
    /\ befriended \subseteq Nat
    /\ owed \in BOOLEAN
    /\ wereFriends \in BOOLEAN
    /\ named \subseteq Nat

\* As long as the handlers of friend requests do not overlap, at most one
\* request of the pair waits for an answer, whoever sent it.
OneRequestWaits ==
    serial => Cardinality(Waiting) <= 1

\* As long as they do not overlap, an answer is final: a request that was
\* accepted or rejected keeps that status, whatever is deleted or ignored later.
AnswersAreFinal ==
    [][serial' => \A i \in DOMAIN requests :
        requests[i].status # "pending" => requests'[i].status = requests[i].status]_vars

\* Whatever overlaps: after an accept was answered the two are friends until one
\* of them removes the other.
AcceptMakesFriends == owed => Visible

\* Whatever overlaps: there is a direct conversation only if the two have been
\* friends.
ConversationNeedsFriendship == conversations > 0 => wereFriends

\* Whatever overlaps: the pair has one conversation, and everybody is told so.
OneConversation == conversations <= 1 /\ named \subseteq 1..conversations

\* What the documents ask and the model does not keep when an accept and a reject
\* overlap (section 5 of the README): a request that is marked rejected has not
\* led to a friendship.
RejectedMakesNoFriends ==
    \A i \in DOMAIN requests : requests[i].status = "rejected" => i \notin befriended
=============================================================================
