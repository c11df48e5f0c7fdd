------------------------------- MODULE Inbox -------------------------------
(* The number of unread messages a device shows, in its list of conversations *)
(* and on the tab of the shell around it.                                     *)
(*                                                                            *)
(* The server counts it from the messages and the read cursor of the member;  *)
(* the list takes it from the answers to its reloads and from the events of   *)
(* cursor updates, and counts on by itself with every message it is told of.  *)
(* The shell takes it from the list, from pushes, and from the state it asks  *)
(* for when a push comes in.  The list lives as long as it is on the screen.  *)
(* One member with one device and one conversation with others; the member's  *)
(* other devices are the unseen callers of SendMessage and UpdateReadCursor.  *)
EXTENDS Naturals, FiniteSets, Sequences

CONSTANTS
    Loads,       \* reloads of the list that can be under way at the same time
    MarkRead,    \* the request that moves the cursor and counts for its event,
                 \* none of Loads
    Sync,        \* the request for the state of the notifications, another one
    NotLoaded,   \* the device has no list yet
    MaxMessages, \* bound on the messages of the conversation
    MaxUpsets    \* bound on the connections that break and the sends repeated

ASSUME RequestAssumption == MarkRead \notin Loads /\ Sync \notin Loads \cup {MarkRead}
ASSUME NotLoadedAssumption == NotLoaded \notin Nat
ASSUME InboxBounds == MaxMessages \in Nat /\ MaxUpsets \in Nat

VARIABLES
    rows,    \* the messages, by sequence: the sender, and if the send failed
    sending, \* the requests that have a stored message and are not done with it
    cursor,  \* the read cursor of the member
    count,   \* the counts the server is making, and their answers on the way
    link,    \* the connection of the device
    net,     \* the events on their way to the device
    shown,   \* the list is on the screen, and not the conversation
    list,    \* the number the list shows
    agreed,  \* the shell shows the number that this list gave it last
    old,     \* the reloads of a list that is gone
    upsets,  \* connections that broke, and sends that were repeated
    crossed, \* history: counts something else happened during
    right    \* history: the list shows a count nothing crossed, or counted on
             \* from one

server == <<rows, sending, cursor>>
device == <<shown, list, agreed, old>>
vars == <<server, count, link, net, device, upsets, crossed, right>>

Counters == Loads \cup {MarkRead, Sync}
Message == [by : {"me", "other"}, failed : BOOLEAN]
Idle == [at |-> "idle", from |-> 0, unread |-> 0]
Event == [kind : {"ready", "message", "cursor"}, unread : 0 .. MaxMessages]

\* The messages a member sees behind a position: a failed message is seen by
\* its sender only.
Unread(after) ==
    Cardinality({k \in DOMAIN rows :
        k > after /\ (~rows[k].failed \/ rows[k].by = "me")})
Later(a, b) == IF a > b THEN a ELSE b

Init ==
    /\ rows = <<>>
    /\ sending = {}
    /\ cursor = 0
    /\ count = [s \in Counters |-> Idle]
    /\ link = "down"
    /\ net = <<>>
    /\ shown = TRUE
    /\ list = NotLoaded
    /\ agreed = FALSE
    /\ old = {}
    /\ upsets = 0
    /\ crossed = {}
    /\ right = FALSE

UnderWay == {s \in Counters \ {Sync} : count[s].at \notin {"idle", "save"}}
\* What changes the number, or tells the device of a change, crosses every
\* count under way.
Cross == crossed' = crossed \cup UnderWay
\* A count that starts, c being the others, is crossed by what is still on its way.
Start(c, s) ==
    /\ c[s].at = "idle"
    /\ count' = [c EXCEPT ![s].at = "start"]
    /\ crossed' = IF sending # {} \/ UnderWay # {} \/ \E k \in DOMAIN net : net[k].kind # "ready"
                  THEN crossed \cup UnderWay \cup {s}
                  ELSE crossed
Load == \E l \in Loads : Start(count, l)

Deliver(e) == net' = IF link \in {"joined", "up"} THEN Append(net, e) ELSE net

-----------------------------------------------------------------------------
(* The server                                                                 *)

\* A request that has row k: nth is 0 for the one that stored it.  It goes on to
\* move the cursor of its sender, if that is the member, and then announces the
\* row, if it tells.
Request(k, by, n, tells) ==
    [seq |-> k, nth |-> n, at |-> IF by = "me" THEN "cursor" ELSE "emit", to |-> 0, tell |-> tells]
Further(x, at, to) == [x EXCEPT !.at = at, !.to = to]

\* A message is stored.  One that failed is announced to nobody.
SendMessage(m) ==
    /\ Len(rows) < MaxMessages
    /\ rows' = Append(rows, m)
    /\ sending' = sending \cup
         IF m.by = "other" /\ m.failed THEN {}
         ELSE {Request(Len(rows) + 1, m.by, 0, ~m.failed)}
    /\ Cross
    /\ UNCHANGED <<cursor, count, link, net, device, upsets, right>>

\* Another request with the client key of a row.  If it looked before the row was
\* stored, its insert finds the row and it goes on as if the row were its own,
\* failed or not; if it finds the row at once, or is refused, it tells nobody,
\* and the cursor of another sender is of no matter here.
SendAgain(k, tells) ==
    /\ upsets < MaxUpsets
    /\ rows[k].by = "me" \/ tells
    /\ upsets' = upsets + 1
    /\ sending' = sending \cup {Request(k, rows[k].by, upsets', tells)}
    /\ right' = FALSE
    /\ Cross
    /\ UNCHANGED <<rows, cursor, count, link, net, device>>

\* Sending reads all that came before: updateReadCursor finds the cursor, and
\* then saves the later of the two.  No event tells the member's devices.
SendFinds(x) ==
    /\ x.at = "cursor"
    /\ sending' = (sending \ {x}) \cup {Further(x, "save", Later(cursor, x.seq))}
    /\ UNCHANGED <<rows, cursor, count, link, net, device, upsets, crossed, right>>
SendReads(x) ==
    /\ x.at = "save"
    /\ cursor' = x.to
    /\ sending' = (sending \ {x}) \cup
         IF x.tell THEN {Further(x, "emit", 0)} ELSE {}
    /\ right' = (right /\ list = 0 /\ sending = {x} /\ net = <<>> /\ cursor <= x.to)
    /\ Cross
    /\ UNCHANGED <<rows, count, link, net, device, upsets>>

EmitMessageCreated(x) ==
    /\ x.at = "emit"
    /\ sending' = sending \ {x}
    /\ Deliver([kind |-> "message", unread |-> IF rows[x.seq].by = "me" THEN 0 ELSE 1])
    /\ Cross
    /\ UNCHANGED <<rows, cursor, count, link, device, upsets, right>>

\* A request fails: its message may never be announced.
FailSend(x) ==
    /\ sending' = sending \ {x}
    /\ right' = FALSE
    /\ Cross
    /\ UNCHANGED <<rows, cursor, count, link, net, device, upsets>>

\* updateReadCursor: the cursor is found, the later position is saved, and then
\* the rest is counted.
UpdateReadCursor(n) ==
    /\ n <= Len(rows)
    /\ count[MarkRead] = Idle
    /\ count' = [count EXCEPT ![MarkRead] =
                             [at |-> "save", from |-> Later(cursor, n), unread |-> 0]]
    /\ UNCHANGED <<server, link, net, device, upsets, crossed, right>>
SaveReadCursor ==
    /\ count[MarkRead].at = "save"
    /\ cursor' = count[MarkRead].from
    /\ Start([count EXCEPT ![MarkRead] = Idle], MarkRead)
    /\ UNCHANGED <<rows, sending, link, net, device, upsets, right>>

\* getUnreadCount reads the cursor and then the messages.
FindCursor(s) ==
    /\ s # Sync /\ count[s].at = "start"
    /\ count' = [count EXCEPT ![s].at = "rows", ![s].from = cursor]
    /\ UNCHANGED <<server, link, net, device, upsets, crossed, right>>
CountRows(s) ==
    /\ count[s].at = "rows"
    /\ count' = [count EXCEPT ![s].at = "answer", ![s].from = 0,
                              ![s].unread = Unread(count[s].from)]
    /\ UNCHANGED <<server, link, net, device, upsets, crossed, right>>

EmitReadCursorUpdated ==
    /\ count[MarkRead].at = "answer"
    /\ Deliver([kind |-> "cursor", unread |-> count[MarkRead].unread])
    /\ count' = [count EXCEPT ![MarkRead] =
           IF net' = net THEN Idle ELSE [Idle EXCEPT !.at = "net"]]
    /\ crossed' = IF net' = net THEN crossed \ {MarkRead} ELSE crossed
    /\ UNCHANGED <<server, link, device, upsets, right>>

-----------------------------------------------------------------------------
(* The connection                                                             *)

Connect ==
    /\ link = "down"
    /\ link' = "joining"
    /\ UNCHANGED <<server, count, net, device, upsets, crossed, right>>

\* The server says that the connection is ready once it has joined its rooms.
JoinRooms ==
    /\ link = "joining"
    /\ link' = "joined"
    /\ UNCHANGED <<server, count, net, device, upsets, crossed, right>>
EmitReady ==
    /\ link = "joined"
    /\ link' = "up"
    /\ net' = Append(net, [kind |-> "ready", unread |-> 0])
    /\ UNCHANGED <<server, count, device, upsets, crossed, right>>

\* The events on their way are lost with the connection.
Drop ==
    /\ link # "down"
    /\ upsets < MaxUpsets
    /\ link' = "down"
    /\ net' = <<>>
    /\ upsets' = upsets + 1
    /\ IF count[MarkRead].at = "net"
       THEN count' = [count EXCEPT ![MarkRead] = Idle] /\ crossed' = crossed \ {MarkRead}
       ELSE UNCHANGED <<count, crossed>>
    /\ UNCHANGED <<server, device, right>>

-----------------------------------------------------------------------------
(* The device                                                                 *)

\* The list is reloaded by hand and when the access token changes.
Reload ==
    /\ shown /\ Load
    /\ UNCHANGED <<server, link, net, device, upsets, right>>

Take(kind) == net # <<>> /\ Head(net).kind = kind /\ net' = Tail(net)

\* Faulty variant: the list is loaded with the first connection only.
HandleReadyOnce ==
    /\ shown /\ Take("ready")
    /\ IF list = NotLoaded THEN Load ELSE UNCHANGED <<count, crossed>>
    /\ UNCHANGED <<server, link, device, upsets, right>>

HandleReady ==
    /\ shown /\ Take("ready")
    /\ Load
    /\ UNCHANGED <<server, link, device, upsets, right>>

\* The shell takes over what the list shows.
Publish(n) == list' = n /\ agreed' = TRUE

\* No conversation is ever active while the list is on the screen.
ApplyMessageCreated ==
    /\ shown /\ Take("message")
    /\ IF list = NotLoaded
       THEN Load /\ UNCHANGED <<list, agreed>>
       ELSE Publish(list + Head(net).unread) /\ Cross /\ UNCHANGED count
    /\ UNCHANGED <<server, link, shown, old, upsets, right>>

ApplyReadCursorUpdated ==
    /\ shown /\ Take("cursor")
    /\ IF list = NotLoaded THEN UNCHANGED <<list, agreed, right>>
       ELSE Publish(Head(net).unread) /\ right' = (MarkRead \notin crossed)
    /\ count' = [count EXCEPT ![MarkRead] = Idle]
    /\ crossed' = (crossed \cup UnderWay) \ {MarkRead}
    /\ UNCHANGED <<server, link, shown, old, upsets>>

\* Nobody listens while the list is gone.
Ignore ==
    /\ ~shown /\ net # <<>>
    /\ net' = Tail(net)
    /\ IF Head(net).kind = "cursor"
       THEN count' = [count EXCEPT ![MarkRead] = Idle] /\ crossed' = crossed \ {MarkRead}
       ELSE UNCHANGED <<count, crossed>>
    /\ UNCHANGED <<server, link, device, upsets, right>>

\* The answer of a reload replaces the list, whatever came in meanwhile; that
\* of a list that is gone still reaches the shell.
ApplyLoad(l) ==
    /\ count[l].at = "answer"
    /\ agreed' = (l \notin old)
    /\ list' = IF l \in old THEN list ELSE count[l].unread
    /\ right' = (l \notin crossed \cup old)
    /\ count' = [count EXCEPT ![l] = Idle]
    /\ crossed' = (crossed \cup UnderWay) \ {l}
    /\ old' = old \ {l}
    /\ UNCHANGED <<server, link, net, shown, upsets>>

\* A reload or the count for an event fails; the list stays as it is.
FailCount(s) ==
    /\ count[s].at \notin {"idle", "net"}
    /\ count' = [count EXCEPT ![s] = Idle]
    /\ crossed' = crossed \ {s}
    /\ right' = FALSE
    /\ old' = old \ {s}
    /\ UNCHANGED <<server, link, net, shown, list, agreed, upsets>>

\* A list that is on the screen is loaded again.
LoadAfter(c) ==
    \/ shown /\ \E l \in Loads : Start(c, l)
    \/ ~shown /\ count' = c /\ UNCHANGED crossed

\* A push comes in with the number that was counted when it was sent: the latest
\* sequence less the cursor.  The shell shows that, and asks for the state of the
\* notifications.
HandlePush ==
    /\ count[Sync].at = "idle"
    /\ agreed' = FALSE
    /\ LoadAfter([count EXCEPT ![Sync].at = "start"])
    /\ right' = FALSE
    /\ UNCHANGED <<server, link, net, shown, list, old, upsets>>

ApplySync ==
    /\ count[Sync].at = "start"
    /\ agreed' = FALSE
    /\ LoadAfter([count EXCEPT ![Sync] = Idle])
    /\ right' = FALSE
    /\ UNCHANGED <<server, link, net, shown, list, old, upsets>>

\* The user opens the conversation, and comes back to a new list.
Open ==
    /\ shown /\ list # NotLoaded
    /\ shown' = FALSE
    /\ list' = NotLoaded
    /\ agreed' = FALSE
    /\ old' = UnderWay \cap Loads
    /\ right' = FALSE
    /\ UNCHANGED <<server, count, link, net, upsets, crossed>>
Close ==
    /\ ~shown
    /\ shown' = TRUE
    /\ Load
    /\ UNCHANGED <<server, link, net, list, agreed, old, upsets, right>>

-----------------------------------------------------------------------------
Next ==
    \/ \E m \in Message : SendMessage(m)
    \/ \E k \in DOMAIN rows, tells \in BOOLEAN : SendAgain(k, tells)
    \/ \E x \in sending :
         SendFinds(x) \/ SendReads(x) \/ EmitMessageCreated(x) \/ FailSend(x)
    \/ \E n \in 1 .. MaxMessages : UpdateReadCursor(n)
    \/ SaveReadCursor
    \/ \E s \in Counters : FindCursor(s) \/ CountRows(s) \/ FailCount(s)
    \/ EmitReadCursorUpdated
    \/ Connect \/ JoinRooms \/ EmitReady \/ Drop
    \/ Reload \/ HandleReady \/ ApplyMessageCreated \/ ApplyReadCursorUpdated \/ Ignore
    \/ \E l \in Loads : ApplyLoad(l)
    \/ HandlePush \/ ApplySync \/ Open \/ Close

Spec == Init /\ [][Next]_vars

-----------------------------------------------------------------------------
(* Properties                                                                 *)

TypeOK ==
    /\ rows \in Seq(Message)
    /\ sending \subseteq [seq : 1 .. MaxMessages, nth : 0 .. MaxUpsets,
                          at : {"cursor", "save", "emit"}, to : 0 .. MaxMessages,
                          tell : BOOLEAN]
    /\ cursor \in 0 .. MaxMessages
    /\ count \in [Counters -> [at : {"idle", "save", "start", "rows", "answer", "net"},
                               from : 0 .. MaxMessages, unread : 0 .. MaxMessages]]
    /\ link \in {"down", "joining", "joined", "up"}
    /\ net \in Seq(Event)
    /\ list \in Nat \cup {NotLoaded}
    /\ shown \in BOOLEAN
    /\ agreed \in BOOLEAN
    /\ old \subseteq Loads
    /\ upsets \in 0 .. MaxUpsets
    /\ crossed \subseteq Counters
    /\ right \in BOOLEAN

Quiet == link = "up" /\ net = <<>> /\ sending = {} /\ \A s \in Counters : count[s] = Idle

\* A list on a device that is connected and waits for nothing shows what the
\* server would count, and so does the shell around it, however often the
\* connection broke, whatever it missed meanwhile and whatever a push or a list
\* that is gone told the shell, if nothing crossed the last count it was given and
\* since then no send was repeated or failed and no cursor was moved back
\* (chat.gateway.ts:84-103 joins the rooms before it says ready, and the list
\* reloads on it, line 26 of conversation_list_controller.dart; line 194 of
\* app_shell_notifications.dart makes it reload once more).
UnreadIsRight == Quiet /\ right => list = Unread(cursor) /\ agreed

\* What openspec/specs/chat-notifications-and-sync/spec.md:23 asks for: after
\* connections that broke and came back no message is counted twice.
NothingCountsTwice ==
    Quiet /\ list # NotLoaded /\ cursor = 0 =>
        list <= Unread(0)
=============================================================================
