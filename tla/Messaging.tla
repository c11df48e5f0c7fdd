------------------------------ MODULE Messaging ------------------------------
(* One direct conversation behind the message and read-cursor APIs.  Several  *)
(* API requests are handled at once, by one or by several server processes;   *)
(* every await of a handler is a step of its own, so the values a request has *)
(* read may be stale when it uses them.  A request may fail at any await (the *)
(* database or Redis answers with an error) and its process may crash.        *)
(*                                                                            *)
(*   POST /messages          MessagesService.sendMessage                      *)
(*   POST /read-cursor       ConversationsService.updateReadCursor            *)
(*                                                                            *)
(* Rows of the message table never change, so an entity that a request holds  *)
(* is represented by the row's sequence, which is its id.                     *)
EXTENDS Naturals, Sequences

CONSTANTS
    Requests,   \* API requests; each is handled once
    Members,    \* the members of the conversation
    ClientIds,  \* values of clientMessageId
    Positions,  \* read positions the members report
    NoBinding,  \* Redis holds no value for an idempotency key
    Pending,    \* the value 'PENDING' of a reserved idempotency key
    NoOne       \* nobody holds the conversation row's lock

ASSUME SentinelAssumption ==
    /\ NoBinding \notin Nat
    /\ Pending \notin Nat
    /\ NoBinding # Pending
    /\ NoOne \notin Requests
ASSUME PositionsAssumption == Positions \subseteq Nat

Keys == Members \X ClientIds
SenderOf(k) == k[1]

Statuses == {"sent", "failed"}
\* What a request is doing: storing a message with that status, answering a
\* send with a message stored before, or reporting a read position.
Modes == Statuses \cup {"replay", "read"}

Locations ==
    {"idle", "resolve", "unbind", "lookup", "reserve", "create", "insert",
     "recheck", "bind", "cursor", "advance", "emit", "push", "undo",
     "accepted", "error", "crashed"}
Ended == {"accepted", "error", "crashed"}

VARIABLES
    messages,       \* the committed rows of the message table
    latestSequence, \* conversation.latestSequence, as committed
    txOwner,        \* the request whose transaction holds the conversation row
    idem,           \* Redis: idempotency key -> NoBinding, Pending or a message id
    cursor,         \* readCursor.lastReadSequence of each member
    friends,        \* is the friendship visible to both members
    pc,             \* the call each request makes next
    mode,           \* what each request is doing
    key,            \* the client key of each send
    target,         \* the sequence a request works with; 0 before it has one
    granted,        \* did reserve() grant the key to this request
    seen,           \* the cursor a request has read and not written back yet
    emitted,        \* message.created events: which request announced which row
    late            \* history: was the key's row committed before the request came

store == <<messages, latestSequence, txOwner>>
locals == <<mode, key, target, granted, seen, late>>
vars == <<store, idem, cursor, friends, pc, locals, emitted>>

Row == [key : Keys, seq : Nat, status : Statuses]
RowsOf(k) == {m \in messages : m.key = k}
RowAt(n) == CHOOSE m \in messages : m.seq = n
Event == [by : Requests, seq : Nat]

Init ==
    /\ messages = {}
    /\ latestSequence = 0
    /\ txOwner = NoOne
    /\ idem = [k \in Keys |-> NoBinding]
    /\ cursor = [u \in Members |-> 0]
    /\ friends \in BOOLEAN
    /\ pc = [r \in Requests |-> "idle"]
    /\ mode = [r \in Requests |-> "read"]
    /\ key \in [Requests -> Keys]
    /\ target = [r \in Requests |-> 0]
    /\ granted = [r \in Requests |-> FALSE]
    /\ seen = [r \in Requests |-> 0]
    /\ emitted = {}
    /\ late = [r \in Requests |-> FALSE]

Goto(r, l) == pc' = [pc EXCEPT ![r] = l]

-----------------------------------------------------------------------------
(* A send.                                                                    *)

\* The rate limit, the membership and the friendship are checked; a friendship
\* that is not visible to both makes the request store a failed message.
Receive(r) ==
    /\ pc[r] = "idle"
    /\ mode' = [mode EXCEPT ![r] = IF friends THEN "sent" ELSE "failed"]
    /\ late' = [late EXCEPT ![r] = RowsOf(key[r]) # {}]
    /\ Goto(r, "resolve")
    /\ UNCHANGED <<store, idem, cursor, friends, key, target, granted, seen, emitted>>

\* Faulty variant: an existing message does not end the send early.
ReuseAsNew(r, n) ==
    /\ target' = [target EXCEPT ![r] = n]
    /\ UNCHANGED mode
    /\ Goto(r, "cursor")

\* A send answered with the message stored before moves the sender's cursor;
\* one that would store a failed message is answered at once.
Reuse(r, n) ==
    /\ target' = [target EXCEPT ![r] = n]
    /\ mode' = [mode EXCEPT ![r] = IF @ = "sent" THEN "replay" ELSE @]
    /\ Goto(r, IF mode[r] = "sent" THEN "cursor" ELSE "accepted")

\* The idempotency key is read.  A bound id is looked up; a read that fails
\* makes the request delete the key.
Resolve(r) ==
    /\ pc[r] = "resolve"
    /\ LET bound == idem[key[r]] IN
       \/ /\ bound \in Nat
          /\ \E m \in messages : m.seq = bound
          /\ Reuse(r, bound)
       \/ /\ bound \in Nat
          /\ Goto(r, "unbind")
          /\ UNCHANGED <<mode, target>>
       \/ /\ bound \notin Nat
          /\ Goto(r, "lookup")
          /\ UNCHANGED <<mode, target>>
    /\ UNCHANGED <<store, idem, cursor, friends, key, granted, seen, emitted, late>>

Unbind(r) ==
    /\ pc[r] = "unbind"
    /\ idem' = [idem EXCEPT ![key[r]] = NoBinding]
    /\ Goto(r, "lookup")
    /\ UNCHANGED <<store, cursor, friends, locals, emitted>>

\* Faulty variant: a retry stores the new status in the row it finds.
LookupAndRevive(r) ==
    /\ pc[r] = "lookup"
    /\ \/ \E m \in RowsOf(key[r]) :
            /\ messages' = (messages \ {m}) \cup {[m EXCEPT !.status = mode[r]]}
            /\ Reuse(r, m.seq)
       \/ /\ RowsOf(key[r]) = {}
          /\ Goto(r, IF mode[r] = "sent" THEN "reserve" ELSE "create")
          /\ UNCHANGED <<messages, mode, target>>
    /\ UNCHANGED <<latestSequence, txOwner, idem, cursor, friends, key, granted,
                   seen, emitted, late>>

\* The fallback: the row is looked up by its client key.
Lookup(r) ==
    /\ pc[r] = "lookup"
    /\ \/ \E m \in RowsOf(key[r]) : Reuse(r, m.seq)
       \/ /\ RowsOf(key[r]) = {}
          /\ Goto(r, IF mode[r] = "sent" THEN "reserve" ELSE "create")
          /\ UNCHANGED <<mode, target>>
    /\ UNCHANGED <<store, idem, cursor, friends, key, granted, seen, emitted, late>>

\* Faulty variant: a request that finds the key reserved answers "accepted".
ReserveOrAccept(r) ==
    /\ pc[r] = "reserve"
    /\ granted' = [granted EXCEPT ![r] = idem[key[r]] = NoBinding]
    /\ idem' = [idem EXCEPT ![key[r]] = IF @ = NoBinding THEN Pending ELSE @]
    /\ Goto(r, IF idem[key[r]] = NoBinding THEN "create" ELSE "accepted")
    /\ UNCHANGED <<store, cursor, friends, mode, key, target, seen, emitted, late>>

\* SET NX.  A request that loses goes on all the same: the answer decides only
\* whether it deletes the key if it fails.
Reserve(r) ==
    /\ pc[r] = "reserve"
    /\ granted' = [granted EXCEPT ![r] = idem[key[r]] = NoBinding]
    /\ idem' = [idem EXCEPT ![key[r]] = IF @ = NoBinding THEN Pending ELSE @]
    /\ Goto(r, "create")
    /\ UNCHANGED <<store, cursor, friends, mode, key, target, seen, emitted, late>>

\* The transaction's first statement increments latestSequence and so locks the
\* conversation row; the increment is visible once the transaction commits.
BeginInsert(r) ==
    /\ pc[r] = "create"
    /\ txOwner = NoOne
    /\ txOwner' = r
    /\ Goto(r, "insert")
    /\ UNCHANGED <<messages, latestSequence, idem, cursor, friends, locals, emitted>>

\* Where a stored message goes next: only a sent one is bound and announced.
Stored(r) == IF mode[r] = "sent" THEN "bind" ELSE "cursor"

\* Faulty variant: no unique index on the client key.
CommitUnindexed(r) ==
    /\ latestSequence' = latestSequence + 1
    /\ messages' = messages \cup
         {[key |-> key[r], seq |-> latestSequence + 1, status |-> mode[r]]}

Commit(r) ==
    /\ RowsOf(key[r]) = {}
    /\ latestSequence' = latestSequence + 1
    /\ messages' = messages \cup
         {[key |-> key[r], seq |-> latestSequence + 1, status |-> mode[r]]}

\* Faulty variant: the increment is not part of the transaction.
InsertAfterIncrement(r) ==
    /\ pc[r] = "insert"
    /\ txOwner = r
    /\ txOwner' = NoOne
    /\ \/ /\ Commit(r)
          /\ target' = [target EXCEPT ![r] = latestSequence + 1]
          /\ Goto(r, Stored(r))
       \/ /\ latestSequence' = latestSequence + 1
          /\ Goto(r, "recheck")
          /\ UNCHANGED <<messages, target>>
    /\ UNCHANGED <<idem, cursor, friends, mode, key, granted, seen, emitted, late>>

\* The second statement inserts the row.  The unique index on the client key
\* rolls the transaction back; so does a database that gives up on it.  The
\* answer to a commit may be lost.
Insert(r) ==
    /\ pc[r] = "insert"
    /\ txOwner = r
    /\ txOwner' = NoOne
    /\ \/ /\ Commit(r)
          /\ target' = [target EXCEPT ![r] = latestSequence + 1]
          /\ Goto(r, Stored(r))
       \/ /\ Commit(r)
          /\ Goto(r, "recheck")
          /\ UNCHANGED target
       \/ /\ Goto(r, "recheck")
          /\ UNCHANGED <<messages, latestSequence, target>>
    /\ UNCHANGED <<idem, cursor, friends, mode, key, granted, seen, emitted, late>>

\* Does a failure of this request delete the idempotency key?
HoldsReservation(r) ==
    granted[r] /\ pc[r] \in {"create", "insert", "recheck", "bind"}

Abandon(r) == Goto(r, IF HoldsReservation(r) THEN "undo" ELSE "error")

\* Faulty variant: the result of the second lookup is not tested for null.
RecheckUntested(r) ==
    /\ pc[r] = "recheck"
    /\ target' = [target EXCEPT ![r] =
                    IF RowsOf(key[r]) = {} THEN NoBinding
                    ELSE (CHOOSE m \in RowsOf(key[r]) : TRUE).seq]
    /\ Goto(r, Stored(r))
    /\ UNCHANGED <<store, idem, cursor, friends, mode, key, granted, seen, emitted, late>>

\* After a database error the row is looked up once more: the winner of a race
\* on the same key is taken for this request's own message.
Recheck(r) ==
    /\ pc[r] = "recheck"
    /\ \/ \E m \in RowsOf(key[r]) :
            /\ target' = [target EXCEPT ![r] = m.seq]
            /\ Goto(r, Stored(r))
       \/ /\ RowsOf(key[r]) = {}
          /\ Abandon(r)
          /\ UNCHANGED target
    /\ UNCHANGED <<store, idem, cursor, friends, mode, key, granted, seen, emitted, late>>

\* Faulty variant: the idempotency key is built without the sender.
BindForAllSenders(r) ==
    /\ pc[r] = "bind"
    /\ idem' = [k \in Keys |-> IF k[2] = key[r][2] THEN target[r] ELSE idem[k]]
    /\ Goto(r, "cursor")
    /\ UNCHANGED <<store, cursor, friends, locals, emitted>>

Bind(r) ==
    /\ pc[r] = "bind"
    /\ idem' = [idem EXCEPT ![key[r]] = target[r]]
    /\ Goto(r, "cursor")
    /\ UNCHANGED <<store, cursor, friends, locals, emitted>>

\* The view is read and message.created goes to the conversation room.
Emit(r) ==
    /\ pc[r] = "emit"
    /\ emitted' = emitted \cup {[by |-> r, seq |-> target[r]]}
    /\ Goto(r, "push")
    /\ UNCHANGED <<store, idem, cursor, friends, locals>>

\* The offline push, which the answer waits for.
Push(r) ==
    /\ pc[r] = "push"
    /\ Goto(r, "accepted")
    /\ UNCHANGED <<store, idem, cursor, friends, locals, emitted>>

\* The catch block deletes the reserved key, whoever holds it by now.
Undo(r) ==
    /\ pc[r] = "undo"
    /\ idem' = [idem EXCEPT ![key[r]] = NoBinding]
    /\ Goto(r, "error")
    /\ UNCHANGED <<store, cursor, friends, locals, emitted>>

-----------------------------------------------------------------------------
(* The read cursor of a member: sends move it too.                            *)

\* Faulty variant: the position is not clamped.
ReportAnyRead(r, n) ==
    /\ pc[r] = "idle"
    /\ target' = [target EXCEPT ![r] = n]
    /\ Goto(r, "cursor")
    /\ UNCHANGED <<store, idem, cursor, friends, mode, key, granted, seen, emitted, late>>

\* A member reports a read position, clamped to the latest sequence.
ReportRead(r, n) ==
    /\ pc[r] = "idle"
    /\ target' = [target EXCEPT ![r] = IF n < latestSequence THEN n ELSE latestSequence]
    /\ Goto(r, "cursor")
    /\ UNCHANGED <<store, idem, cursor, friends, mode, key, granted, seen, emitted, late>>

ReadCursor(r) ==
    /\ pc[r] = "cursor"
    /\ seen' = [seen EXCEPT ![r] = cursor[SenderOf(key[r])]]
    /\ Goto(r, "advance")
    /\ UNCHANGED <<store, idem, cursor, friends, mode, key, target, granted, emitted, late>>

\* The upsert writes the larger of the position and the cursor read before,
\* which another request of the same member may have moved since.
WriteCursor(r) ==
    /\ pc[r] = "advance"
    /\ cursor' = [cursor EXCEPT ![SenderOf(key[r])] =
                    IF seen[r] > target[r] THEN seen[r] ELSE target[r]]
    /\ Goto(r, IF mode[r] = "sent" THEN "emit" ELSE "accepted")
    /\ UNCHANGED <<store, idem, friends, locals, emitted>>

-----------------------------------------------------------------------------
(* What goes wrong, and what the environment does.                            *)

InFlight(r) == pc[r] \notin Ended \cup {"idle"}

\* Faulty variant: a failed transaction is left open.
KeepRow(r) == UNCHANGED txOwner

ReleaseRow(r) == txOwner' = IF txOwner = r THEN NoOne ELSE txOwner

\* The call a request awaits throws; an open transaction is rolled back.
Fail(r) ==
    /\ InFlight(r)
    /\ ReleaseRow(r)
    /\ Abandon(r)
    /\ UNCHANGED <<messages, latestSequence, idem, cursor, friends, locals, emitted>>

\* The process that handles the request dies.
Crash(r) ==
    /\ InFlight(r)
    /\ ReleaseRow(r)
    /\ Goto(r, "crashed")
    /\ UNCHANGED <<messages, latestSequence, idem, cursor, friends, locals, emitted>>

\* Redis drops a key at the end of its TTL (5 minutes pending, 7 days bound).
Expire(k) ==
    /\ idem[k] # NoBinding
    /\ idem' = [idem EXCEPT ![k] = NoBinding]
    /\ UNCHANGED <<store, cursor, friends, pc, locals, emitted>>

\* A member removes the other, or they become friends again.
ToggleFriendship ==
    /\ friends' = ~friends
    /\ UNCHANGED <<store, idem, cursor, pc, locals, emitted>>

-----------------------------------------------------------------------------
Handle(r) ==
    \/ Resolve(r) \/ Unbind(r) \/ Lookup(r) \/ Reserve(r)
    \/ BeginInsert(r) \/ Insert(r) \/ Recheck(r) \/ Bind(r)
    \/ ReadCursor(r) \/ WriteCursor(r) \/ Emit(r) \/ Push(r) \/ Undo(r)

Next ==
    \/ \E r \in Requests :
         \/ Receive(r)
         \/ \E n \in Positions : ReportRead(r, n)
         \/ Handle(r)
         \/ Fail(r)
         \/ Crash(r)
    \/ \E k \in Keys : Expire(k)
    \/ ToggleFriendship

Spec == Init /\ [][Next]_vars

\* A handler that can go on goes on: the event loop runs every continuation
\* whose awaited call was answered.  Nothing is assumed of clients, of failures
\* or of expiry.
FairSpec == Spec /\ \A r \in Requests : WF_vars(Handle(r))
-----------------------------------------------------------------------------
(* Properties.                                                                *)

\* Every variable holds what the code stores in it.
TypeOK ==
    /\ messages \subseteq Row
    /\ latestSequence \in Nat
    /\ txOwner \in Requests \cup {NoOne}
    /\ idem \in [Keys -> Nat \cup {NoBinding, Pending}]
    /\ cursor \in [Members -> Nat]
    /\ friends \in BOOLEAN
    /\ pc \in [Requests -> Locations]
    /\ mode \in [Requests -> Modes]
    /\ key \in [Requests -> Keys]
    /\ target \in [Requests -> Nat]
    /\ granted \in [Requests -> BOOLEAN]
    /\ seen \in [Requests -> Nat]
    /\ emitted \subseteq Event
    /\ late \in [Requests -> BOOLEAN]

\* The sequences of a conversation are 1..latestSequence, each used once,
\* whatever transactions were rolled back: a client that finds a hole in them
\* has missed a message (createMessage increments inside the transaction).
SequencesContiguous ==
    /\ {m.seq : m \in messages} = 1..latestSequence
    /\ \A m, n \in messages : m.seq = n.seq => m = n

\* A client message is stored once, however often it is sent and whatever
\* became of its idempotency key (the reservation does not stop a second
\* request; the lookup and the unique index have to).
OneRowPerKey == \A m, n \in messages : m.key = n.key => m = n

\* An idempotency key is only ever bound to the row of that very key, so a
\* retry is never answered with another message.
BindingIsOwn ==
    \A k \in Keys : idem[k] \in Nat => \E m \in RowsOf(k) : m.seq = idem[k]

\* "accepted" means stored: the answer names a committed row of the request's
\* own client key.
AcceptedIsStored ==
    \A r \in Requests :
        pc[r] = "accepted" /\ mode[r] # "read" =>
            \E m \in RowsOf(key[r]) : m.seq = target[r]

\* A retry that comes after the message was stored does not announce it again,
\* even if the first request is still at work or Redis has lost the key.
LateRetryIsSilent == \A e \in emitted : ~late[e.by]

\* Nobody has read further than the log goes, although read positions are
\* clamped to a latestSequence that other requests move meanwhile.
CursorWithinLog == \A u \in Members : cursor[u] <= latestSequence

\* Every request that a handler has begun is answered or dies with its process:
\* no one waits for ever for the lock of the conversation row.
EveryRequestEnds ==
    \A r \in Requests : InFlight(r) ~> pc[r] \in Ended

\* The messages in the order of their sequences.
StoredLog ==
    [n \in 1..latestSequence |->
        [key |-> RowAt(n).key, status |-> RowAt(n).status]]

\* The pipeline implements MessageLog: rows are the log, answers its
\* acknowledgements, message.created events its announcements.
Log == INSTANCE MessageLog WITH
    log <- StoredLog,
    acked <- {key[r] : r \in {q \in Requests : pc[q] = "accepted" /\ mode[q] # "read"}},
    published <- {e.seq : e \in emitted}
ImplementsLog == Log!LogSpec

\* What the documents of the product ask and the model does not keep; TLC finds a
\* counterexample to each of the two within seconds (section 5 of the README).

\* No request for this client key is being handled.
Quiet(k) == \A r \in Requests : key[r] = k /\ mode[r] # "read" => ~InFlight(r)

\* A message that a sender was told is accepted has been announced to the
\* conversation room by the time its requests are over.
AcceptedIsAnnounced ==
    \A r \in Requests :
        /\ pc[r] = "accepted"
        /\ mode[r] \in {"sent", "replay"}
        /\ RowAt(target[r]).status = "sent"
        /\ Quiet(key[r])
        => \E e \in emitted : e.seq = target[r]

\* A read cursor never moves back.
CursorNeverMovesBack ==
    [][\A u \in Members : cursor'[u] >= cursor[u]]_vars
=============================================================================
