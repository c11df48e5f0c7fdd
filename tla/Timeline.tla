------------------------------ MODULE Timeline ------------------------------
(* What one device shows of its conversations: the message list of the mobile *)
(* ChatController, fed by three sources that race with each other:            *)
(*                                                                            *)
(*   GET .../history      the newest page, then older pages one by one        *)
(*   GET .../sync         the rows after a sequence, page by page             *)
(*   the realtime socket  message.created, and connection.ready with the      *)
(*                        server's latest sequences after every (re)connect   *)
(*                                                                            *)
(* Nothing replays an event to a socket that was not connected: what a device *)
(* misses, it gets back by comparing sequences and syncing the gap.           *)
(*                                                                            *)
(* A row is represented by its conversation and sequence.  The list holds a   *)
(* row when it holds a message with that row's clientMessageId, whatever its  *)
(* delivery state.                                                            *)
EXTENDS Naturals, Sequences, FiniteSets, FiniteSetsExt

CONSTANTS
    Conversations,  \* the conversations of the user
    Nothing,        \* no conversation is open
    Opens,          \* calls of openConversation
    Sends,          \* messages the user writes
    HistorySize,    \* rows in a page of the history
    SyncSize,       \* rows in a page of a sync
    MaxLog,         \* bound: rows of each conversation
    MaxConnections, \* bound: connections of the socket
    MaxWire         \* bound: events on the wire

ASSUME ConversationAssumption == Nothing \notin Conversations
ASSUME SlotAssumption ==
    /\ Opens \cap Sends = {}
    /\ {"older", "sync"} \cap (Opens \cup Sends) = {}
ASSUME SizeAssumption ==
    HistorySize \in Nat \ {0} /\ SyncSize \in Nat \ {0}
ASSUME BoundAssumption ==
    MaxLog \in [Conversations -> Nat] /\ {MaxConnections, MaxWire} \subseteq Nat

\* The HTTP calls a controller can have in flight.  _isLoadingOlder and
\* _isRefreshing leave room for one call of a kind; opens and sends overlap.
Slots == Opens \cup Sends \cup {"older", "sync"}
InFlight == {"asked", "served", "marking"}
Phases == InFlight \cup {"idle", "done", "failed"}

VARIABLES
    log,         \* server: is the n-th row of a conversation visible to the user
    announced,   \* server: the rows whose message.created was emitted
    socket,      \* the connection: off, joined (in its rooms), built or on
    ready,       \* the latest sequences read for a connection.ready not yet sent
    connections, \* how many times the socket connected
    wire,        \* events sent on the socket and not handled yet
    active,      \* _activeConversation
    shown,       \* the rows in _messages
    bubbles,     \* the sends whose local message is in _messages
    watermark,   \* _latestSequence
    before,      \* _nextBeforeSequence; 0 is null
    error,       \* is _errorMessage set
    call,        \* the HTTP calls of the controller
    reported,    \* the greatest read position reported for each conversation
    base,        \* history: rows the server had when it answered the last open; 0 if none
    calm         \* history: no conversation was opened while a call was in flight

server == <<log, announced>>
link == <<socket, ready, connections, wire>>
list == <<active, shown, bubbles, watermark, before>>
vars == <<server, link, list, error, call, reported, base, calm>>

Rows == Conversations \X (Nat \ {0})
Call == [phase : Phases, of : Conversations \cup {Nothing},
         from : Nat, arg : Nat, at : Nat]
NoCall == [phase |-> "idle", of |-> Nothing, from |-> 0, arg |-> 0, at |-> 0]
Asked(c, n) ==
    [phase |-> "asked", of |-> c, from |-> n, arg |-> n, at |-> 0]

refreshing == call["sync"].phase \in InFlight
loadingOlder == call["older"].phase \in InFlight
Busy == \E s \in Slots : call[s].phase \in InFlight

Created(c, n) == [kind |-> "created", of |-> c, seq |-> n]
Ready(latest) == [kind |-> "ready", latest |-> latest]

-----------------------------------------------------------------------------
(* The pages of MessageReaderService over the first `at` rows of a log.       *)

Visible(c, at) == {n \in 1..at : log[c][n]}
LatestVisible(c, at) == Max(Visible(c, at) \cup {0})

Last(S, k) == {n \in S : Cardinality({m \in S : m > n}) < k}
First(S, k) == {n \in S : Cardinality({m \in S : m < n}) < k}

\* Faulty variant: the cursor names the row before the page.
HistoryPageSkipping(c, upTo, at) ==
    LET latest == LatestVisible(c, at)
        eligible == {n \in Visible(c, at) :
                        n <= IF upTo = 0 THEN latest ELSE upTo - 1}
        items == Last(eligible, HistorySize)
    IN  [items |-> items, latest |-> latest,
         next |-> IF items = eligible THEN 0 ELSE Min(items) - 1]

\* The newest rows below the cursor upTo, or the newest of all if it is null.
HistoryPage(c, upTo, at) ==
    LET latest == LatestVisible(c, at)
        eligible == {n \in Visible(c, at) :
                        n <= IF upTo = 0 THEN latest ELSE upTo - 1}
        items == Last(eligible, HistorySize)
    IN  [items |-> items, latest |-> latest,
         next |-> IF items = eligible THEN 0 ELSE Min(items)]

\* Faulty variant: whether there is more is told from all rows, not from those
\* the user can see.
SyncPageOfAll(c, after, at) ==
    LET missing == {n \in Visible(c, at) : n > after}
        items == First(missing, SyncSize)
        next == Max(items \cup {after})
    IN  [items |-> items, latest |-> LatestVisible(c, at),
         next |-> next, hasMore |-> next < at]

\* The oldest rows after a sequence.
SyncPage(c, after, at) ==
    LET missing == {n \in Visible(c, at) : n > after}
        items == First(missing, SyncSize)
        next == Max(items \cup {after})
    IN  [items |-> items, latest |-> LatestVisible(c, at),
         next |-> next, hasMore |-> next < LatestVisible(c, at)]

-----------------------------------------------------------------------------
Init ==
    /\ log = [c \in Conversations |-> <<>>]
    /\ announced = {}
    /\ socket = "off"
    /\ ready = [c \in Conversations |-> 0]
    /\ connections = 0
    /\ wire = <<>>
    /\ active = Nothing
    /\ shown = {}
    /\ bubbles = {}
    /\ watermark = 0
    /\ before = 0
    /\ error = FALSE
    /\ call = [s \in Slots |-> NoCall]
    /\ reported = [c \in Conversations |-> 0]
    /\ base = 0
    /\ calm = TRUE

(* The server stores and announces rows.                                      *)

\* A row of another member, or of another device; a failed row of another
\* member is not visible.
Store(c, visible) ==
    /\ Len(log[c]) < MaxLog[c]
    /\ log' = [log EXCEPT ![c] = Append(@, visible)]
    /\ UNCHANGED <<announced, link, list, error, call, reported, base, calm>>

\* message.created reaches the sockets that are in the conversation's room.
\* Requests announce their rows in any order, and some never do.
Announce(c, n) ==
    /\ n <= Len(log[c])
    /\ <<c, n>> \notin announced
    /\ Len(wire) < MaxWire
    /\ announced' = announced \cup {<<c, n>>}
    /\ wire' = IF socket = "off" THEN wire ELSE Append(wire, Created(c, n))
    /\ UNCHANGED <<log, socket, ready, connections, list, error, call, reported, base, calm>>

(* The connection.                                                            *)

\* acceptConnection joins the rooms, then reads the latest sequences, and
\* handleConnection sends them; rows may be announced between these steps.
Connect ==
    /\ socket = "off"
    /\ connections < MaxConnections
    /\ socket' = "joined"
    /\ connections' = connections + 1
    /\ UNCHANGED <<server, ready, wire, list, error, call, reported, base, calm>>

BuildReady ==
    /\ socket = "joined"
    /\ socket' = "built"
    /\ ready' = [c \in Conversations |-> Len(log[c])]
    /\ UNCHANGED <<server, connections, wire, list, error, call, reported, base, calm>>

SendReady ==
    /\ socket = "built"
    /\ Len(wire) < MaxWire
    /\ socket' = "on"
    /\ ready' = [c \in Conversations |-> 0]
    /\ wire' = Append(wire, Ready(ready))
    /\ UNCHANGED <<server, connections, list, error, call, reported, base, calm>>

\* The connection is lost with the events on it, or refused by the server,
\* which the controller shows as an error.
Drop ==
    /\ socket # "off"
    /\ socket' = "off"
    /\ ready' = [c \in Conversations |-> 0]
    /\ wire' = <<>>
    /\ error' \in IF socket = "on" THEN {error} ELSE {error, TRUE}
    /\ UNCHANGED <<server, connections, list, call, reported, base, calm>>

-----------------------------------------------------------------------------
(* The controller.                                                            *)

\* _markConversationAsRead: the watermark is reported for the conversation that
\* is open now.  It is left out for a row of the user's own; a report that
\* fails is ignored.
MarkRead(c, n) ==
    \/ UNCHANGED reported
    \/ /\ c # Nothing /\ n > 0
       /\ reported' = [reported EXCEPT ![c] = Max({@, n})]

\* Faulty variant: the watermark outlives the conversation it belongs to.
OpenKeepingWatermark(s, c) ==
    /\ call[s].phase = "idle"
    /\ active' = c
    /\ shown' = {}
    /\ bubbles' = {}
    /\ before' = 0
    /\ base' = 0
    /\ error' = FALSE
    /\ call' = [call EXCEPT ![s] = Asked(c, 0)]
    /\ calm' = (calm /\ ~Busy)
    /\ UNCHANGED <<server, link, watermark, reported>>

\* openConversation: the list is emptied and the newest page asked for.  The
\* calls in flight go on.
Open(s, c) ==
    /\ call[s].phase = "idle"
    /\ active' = c
    /\ shown' = {}
    /\ bubbles' = {}
    /\ watermark' = 0
    /\ before' = 0
    /\ base' = 0
    /\ error' = FALSE
    /\ call' = [call EXCEPT ![s] = Asked(c, 0)]
    /\ calm' = (calm /\ ~Busy)
    /\ UNCHANGED <<server, link, reported>>

LoadOlder ==
    /\ before # 0 /\ ~loadingOlder
    /\ call' = [call EXCEPT !["older"] = [Asked(active, before) EXCEPT !.from = 0]]
    /\ UNCHANGED <<server, link, list, error, reported, base, calm>>

\* refreshGapSync
Refresh ==
    /\ active # Nothing /\ ~refreshing
    /\ call' = [call EXCEPT !["sync"] = Asked(active, watermark)]
    /\ UNCHANGED <<server, link, list, error, reported, base, calm>>

\* sendText shows the message at once and asks for it to be stored.
SendText(s) ==
    /\ call[s].phase = "idle"
    /\ active # Nothing
    /\ bubbles' = bubbles \cup {s}
    /\ error' = FALSE
    /\ call' = [call EXCEPT ![s] = Asked(active, 0)]
    /\ UNCHANGED <<server, link, active, shown, watermark, before, reported, base, calm>>

\* retryMessage sends a failed message that is in the list once more, as a new
\* message, to the conversation it was written in.
RetryMessage(s) ==
    /\ call[s].phase = "failed"
    /\ s \in bubbles
    /\ call' = [call EXCEPT ![s] = Asked(call[s].of, 0)]
    /\ UNCHANGED <<server, link, list, error, reported, base, calm>>

\* Faulty variant: a send is answered with the sequence before its own.
ServeBeforeIncrement(s) ==
    /\ call[s].phase = "asked"
    /\ LET c == call[s].of IN
       IF s \in Sends
       THEN /\ Len(log[c]) < MaxLog[c]
            /\ log' = [log EXCEPT ![c] = Append(@, TRUE)]
            /\ shown' = shown \cup {<<c, Len(log[c])>> : b \in bubbles \cap {s}}
            /\ call' = [call EXCEPT ![s].phase = "served", ![s].at = Len(log[c])]
       ELSE /\ call' = [call EXCEPT ![s].phase = "served", ![s].at = Len(log[c])]
            /\ UNCHANGED <<log, shown>>
    /\ UNCHANGED <<announced, link, active, bubbles, watermark, before, error, reported, base, calm>>

\* The server answers a call: it reads the whole log once, and stores a row for
\* a send.
Serve(s) ==
    /\ call[s].phase = "asked"
    /\ LET c == call[s].of IN
       IF s \in Sends
       THEN /\ Len(log[c]) < MaxLog[c]
            /\ log' = [log EXCEPT ![c] = Append(@, TRUE)]
            /\ shown' = shown \cup {<<c, Len(log[c]) + 1>> : b \in bubbles \cap {s}}
            /\ call' = [call EXCEPT ![s].phase = "served", ![s].at = Len(log[c]) + 1]
       ELSE /\ call' = [call EXCEPT ![s].phase = "served", ![s].at = Len(log[c])]
            /\ UNCHANGED <<log, shown>>
    /\ UNCHANGED <<announced, link, active, bubbles, watermark, before, error, reported, base, calm>>

Merge(c, items, latest) ==
    /\ shown' = shown \cup {<<c, n>> : n \in items}
    /\ watermark' = Max({watermark, latest})

\* _applyHistoryPage, after openConversation or loadOlder.  Neither looks at
\* the conversation the page is of.
ApplyHistory(s) ==
    /\ s \in Opens \cup {"older"}
    /\ call[s].phase = "served"
    /\ LET c == call[s].of
           page == HistoryPage(c, call[s].arg, call[s].at) IN
       /\ Merge(c, page.items, page.latest)
       /\ before' = page.next
       /\ base' = IF s \in Opens THEN call[s].at ELSE base
       /\ IF s \in Opens
          THEN MarkRead(active, Max({watermark, page.latest}))
          ELSE UNCHANGED reported
       /\ call' = [call EXCEPT ![s] =
                    [NoCall EXCEPT !.phase = IF s \in Opens THEN "done" ELSE "idle"]]
    /\ UNCHANGED <<server, link, active, bubbles, error, calm>>

\* Faulty variant: the next page starts after the latest row of the server.
ApplySyncToLatest ==
    /\ call["sync"].phase = "served"
    /\ LET sync == call["sync"]
           page == SyncPage(sync.of, sync.arg, sync.at) IN
       /\ Merge(sync.of, page.items, page.latest)
       /\ call' = [call EXCEPT !["sync"] =
                    [@ EXCEPT !.phase = IF page.hasMore THEN "asked" ELSE "marking",
                              !.arg = page.latest, !.at = 0]]
       /\ IF page.hasMore
          THEN UNCHANGED reported
          ELSE MarkRead(active, Max({watermark, page.latest}))
    /\ UNCHANGED <<server, link, active, bubbles, before, error, base, calm>>

\* _applySyncResult and the loop of refreshGapSync.
ApplySync ==
    /\ call["sync"].phase = "served"
    /\ LET sync == call["sync"]
           page == SyncPage(sync.of, sync.arg, sync.at) IN
       /\ Merge(sync.of, page.items, page.latest)
       /\ call' = [call EXCEPT !["sync"] =
                    [@ EXCEPT !.phase = IF page.hasMore THEN "asked" ELSE "marking",
                              !.arg = page.next, !.at = 0]]
       /\ IF page.hasMore
          THEN UNCHANGED reported
          ELSE MarkRead(active, Max({watermark, page.latest}))
    /\ UNCHANGED <<server, link, active, bubbles, before, error, base, calm>>

\* The refresh ends when its read report is answered.
EndSync ==
    /\ call["sync"].phase = "marking"
    /\ call' = [call EXCEPT !["sync"] = NoCall]
    /\ UNCHANGED <<server, link, list, error, reported, base, calm>>

\* A send is confirmed: the stored message joins the list.
Confirm(s) ==
    /\ s \in Sends
    /\ call[s].phase = "served"
    /\ Merge(call[s].of, {call[s].at}, call[s].at)
    /\ MarkRead(active, Max({watermark, call[s].at}))
    /\ call' = [call EXCEPT ![s] = [NoCall EXCEPT !.phase = "done"]]
    /\ UNCHANGED <<server, link, active, bubbles, before, error, base, calm>>

\* A call is refused, or its answer is lost.
FailCall(s) ==
    /\ call[s].phase \in {"asked", "served"}
    /\ error' = TRUE
    /\ call' = [call EXCEPT ![s] =
                 IF s \in Sends THEN [@ EXCEPT !.phase = "failed", !.at = 0]
                 ELSE [NoCall EXCEPT !.phase = IF s \in Opens THEN "done" ELSE "idle"]]
    /\ UNCHANGED <<server, link, list, reported, base, calm>>

\* _handleMessageCreated: an event of another conversation is ignored.  A row
\* that is not the user's own is reported as read.
HandleCreated ==
    /\ wire # <<>> /\ Head(wire).kind = "created"
    /\ wire' = Tail(wire)
    /\ LET event == Head(wire) IN
       IF event.of = active
       THEN /\ Merge(event.of, {event.seq}, event.seq)
            /\ MarkRead(active, Max({watermark, event.seq})) \/ UNCHANGED reported
       ELSE UNCHANGED <<shown, watermark, reported>>
    /\ UNCHANGED <<server, socket, ready, connections, active, bubbles, before, error, call, base, calm>>

\* _handleConnectionReady: a gap is synced when the server is ahead of the
\* watermark, unless a refresh is going on.
HandleReady ==
    /\ wire # <<>> /\ Head(wire).kind = "ready"
    /\ wire' = Tail(wire)
    /\ IF active # Nothing /\ Head(wire).latest[active] > watermark /\ ~refreshing
       THEN call' = [call EXCEPT !["sync"] = Asked(active, watermark)]
       ELSE UNCHANGED call
    /\ UNCHANGED <<server, socket, ready, connections, list, error, reported, base, calm>>

-----------------------------------------------------------------------------
Answer(s) == Serve(s) \/ FailCall(s)
Take(s) == ApplyHistory(s) \/ Confirm(s)

Next ==
    \/ \E c \in Conversations, v \in BOOLEAN : Store(c, v)
    \/ \E c \in Conversations : \E n \in 1..MaxLog[c] : Announce(c, n)
    \/ Connect \/ BuildReady \/ SendReady \/ Drop
    \/ \E s \in Opens, c \in Conversations : Open(s, c)
    \/ LoadOlder \/ Refresh
    \/ \E s \in Sends : SendText(s) \/ RetryMessage(s)
    \/ \E s \in Slots : Answer(s) \/ Take(s)
    \/ ApplySync \/ EndSync
    \/ HandleCreated \/ HandleReady

Spec == Init /\ [][Next]_vars

\* A sync is answered or fails, and the controller's continuation runs.
FairSpec ==
    /\ Spec
    /\ WF_vars(Answer("sync")) /\ WF_vars(ApplySync) /\ WF_vars(EndSync)

-----------------------------------------------------------------------------
Event == [kind : {"created"}, of : Conversations, seq : Nat \ {0}]
            \cup [kind : {"ready"}, latest : [Conversations -> Nat]]

TypeOK ==
    /\ log \in [Conversations -> Seq(BOOLEAN)]
    /\ announced \subseteq Rows
    /\ socket \in {"off", "joined", "built", "on"}
    /\ ready \in [Conversations -> Nat]
    /\ connections \in Nat
    /\ wire \in Seq(Event)
    /\ active \in Conversations \cup {Nothing}
    /\ shown \subseteq Rows
    /\ bubbles \subseteq Sends
    /\ watermark \in Nat
    /\ before \in Nat
    /\ error \in BOOLEAN
    /\ call \in [Slots -> Call]
    /\ reported \in [Conversations -> Nat]
    /\ base \in Nat
    /\ calm \in BOOLEAN

\* The rows of the open conversation in a range are all in the list.
Complete(low, high) ==
    \A n \in Visible(active, Len(log[active])) : low <= n /\ n <= high => <<active, n>> \in shown

\* Paging back leaves no hole: from the cursor (or the first row, when there is
\* no older page) to the last row the server had when the conversation was
\* opened, every visible row is in the list, whatever events, syncs and sends
\* raced with the pages.
PagingLeavesNoHole ==
    calm /\ active # Nothing => Complete(before, base)

\* A gap sync leaves no hole: while the refresh runs, every visible row from
\* the watermark it started at up to the page it has reached is in the list.
SyncLeavesNoHole ==
    calm /\ refreshing => Complete(call["sync"].from + 1, call["sync"].arg)

\* The read position a device reports is a position of that conversation.
ReportsOwnPositions ==
    calm => \A c \in Conversations : reported[c] <= Len(log[c])

\* A refresh ends: its loop goes from page to page, while rows are stored, until
\* it reaches the server's latest visible row.
RefreshEnds == refreshing ~> ~refreshing

\* What the documents and comments ask and the model does not keep; TLC finds a
\* counterexample to each of the two within seconds (section 5 of the README).

\* The list, the watermark and the paging cursor belong to the open conversation.
TimelineBelongsToActive ==
    \A row \in shown : row[1] = active

\* When a device is connected and has handled all it was sent, when nothing is
\* in flight and no error is shown, its list has no hole.
Settled ==
    /\ socket = "on" /\ wire = <<>> /\ ~Busy /\ ~error /\ calm
    /\ \A c \in Conversations : \A n \in 1..Len(log[c]) : <<c, n>> \in announced
NoSilentHole ==
    Settled /\ active # Nothing => Complete(before, Len(log[active]))
=============================================================================
