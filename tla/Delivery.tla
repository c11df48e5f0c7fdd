------------------------------ MODULE Delivery ------------------------------
(* How the members of a new group learn of a message in it: the event in the  *)
(* room of the conversation for the sockets that joined it when they          *)
(* connected, the ready event for those that are connecting, and a push for   *)
(* the members that presence reports as offline.                              *)
(*                                                                            *)
(* A session has at most one socket, and is signed in on a device that has a  *)
(* push token; the row of a token moves with the session that registers it    *)
(* last.  Every await that reads or writes what is modelled is a step.         *)
EXTENDS Naturals, FiniteSets

CONSTANTS
    Members,  \* the members of the conversation other than the sender
    Sessions, \* their sessions
    Owner,    \* whose session it is
    Tokens,   \* push tokens, each the key of one row
    Calls,    \* registerPushToken handlers, each used once
    Nobody    \* no session, no token, no member

ASSUME OwnerAssumption == Owner \in [Sessions -> Members]
ASSUME NobodyAssumption == Nobody \notin Members \cup Sessions \cup Tokens

VARIABLES
    conv,      \* the conversation: before and after it is stored, its handler over
    socket,    \* what the socket of a session awaits
    keys,      \* the sessions whose socket has a full presence key
    listed,    \* was the conversation in the list its connection has read
    live,      \* the sessions that are not revoked
    row,       \* the registration of a token
    step,      \* what a registration handler awaits
    mine,      \* its session
    token,     \* its token
    found,     \* did it find a row of its token
    send,      \* what the handler of the message awaits
    left,      \* the members its loop has not come to
    now,       \* the member it is at
    rows,      \* the registrations it has read and not come to, and whose they were
    told,      \* the members that have learned of the message
    unsettled, \* history: members whose sockets, session or registration changed meanwhile,
               \* or whom the loop took for online when their sockets were gone
    crossed    \* history: sessions with two overlapping registrations, or a failed one

registration == <<row, step, mine, token, found>>
dispatch == <<send, left, now, rows>>
connection == <<socket, keys, listed>>
vars == <<conv, connection, live, registration, dispatch, told, unsettled, crossed>>

NoRow == [session |-> Nobody, active |-> FALSE]

Init ==
    /\ conv = "none"
    /\ socket = [s \in Sessions |-> "off"]
    /\ keys = {}
    /\ listed = [s \in Sessions |-> FALSE]
    /\ live = Sessions
    /\ row = [t \in Tokens |-> NoRow]
    /\ step = [c \in Calls |-> "new"]
    /\ mine = [c \in Calls |-> Nobody]
    /\ token = [c \in Calls |-> Nobody]
    /\ found = [c \in Calls |-> FALSE]
    /\ send = "new"
    /\ left = {}
    /\ now = Nobody
    /\ rows = {}
    /\ told = {}
    /\ unsettled = {}
    /\ crossed = {}

\* The members that presence counts as connected: those of the keys, which come
\* before the rooms and outlive the socket.
Online == {Owner[s] : s \in keys}
InRoom == {s \in Sessions : socket[s] = "on" /\ listed[s]}
\* From the event on, a change of a member's own makes its delivery a matter of luck.
Unsettle(U) == unsettled' = IF send = "new" THEN unsettled ELSE unsettled \cup U

-----------------------------------------------------------------------------
(* createGroupConversation: the rows, the view, the events.                   *)

\* Every handle is that of an active user who lets himself be found; any other
\* outcome leaves everything as it was.
Create ==
    /\ conv = "none"
    /\ conv' = "stored"
    /\ UNCHANGED <<connection, live, registration, dispatch, told, unsettled, crossed>>

\* The sockets of its members are told, and reload their conversations; none of
\* them joins the room.
EmitConversationCreated ==
    /\ conv = "stored"
    /\ conv' = "over"
    /\ told' = IF send = "new" THEN told
               ELSE told \cup {Owner[s] : s \in {x \in Sessions : socket[x] = "on"}}
    /\ UNCHANGED <<connection, live, registration, dispatch, unsettled, crossed>>

\* A member that is disabled by now makes buildConversationView throw: the
\* conversation stays, and nobody is told of it.
FailView ==
    /\ conv = "stored"
    /\ conv' = "over"
    /\ UNCHANGED <<connection, live, registration, dispatch, told, unsettled, crossed>>

-----------------------------------------------------------------------------
(* acceptConnection and handleDisconnect                                      *)

Socket(s, from, to) == socket[s] = from /\ socket' = [socket EXCEPT ![s] = to]

Connect(s) ==
    /\ s \in live
    /\ Socket(s, "off", "list")
    /\ UNCHANGED <<conv, keys, listed, live, registration, dispatch, told, unsettled, crossed>>

ListConversations(s) ==
    /\ Socket(s, "list", "register")
    /\ listed' = [listed EXCEPT ![s] = (conv \in {"stored", "over"})]
    /\ UNCHANGED <<conv, keys, live, registration, dispatch, told, unsettled, crossed>>

\* A command of the pipeline that fails is not noticed: the socket goes on.
RegisterConnection(s) ==
    /\ Socket(s, "register", "join")
    /\ keys' \in {keys, keys \cup {s}}
    /\ UNCHANGED <<conv, listed, live, registration, dispatch, told, unsettled, crossed>>

\* The ready event that follows makes the device load its conversations.
JoinRooms(s) ==
    /\ Socket(s, "join", "on")
    /\ told' = IF send # "new" THEN told \cup {Owner[s]} ELSE told
    /\ UNCHANGED <<conv, keys, listed, live, registration, dispatch, unsettled, crossed>>

\* The socket leaves its rooms at once, and its key stays.  The handler of a
\* connection that has no key yet goes on and may register it all the same.
Disconnect(s) ==
    /\ socket[s] \notin {"off", "gone"}
    /\ socket' = [socket EXCEPT ![s] = "gone"]
    /\ keys' \in IF socket[s] \in {"list", "register"} THEN {keys, keys \cup {s}} ELSE {keys}
    /\ listed' = [listed EXCEPT ![s] = FALSE]
    /\ Unsettle({Owner[s]})
    /\ UNCHANGED <<conv, live, registration, dispatch, told, crossed>>

\* handleDisconnect comes to delete the key, or the key expires: 45 s after a
\* process has died with the socket, or under a socket whose heartbeats stall.
Unregister(s) ==
    /\ s \in keys
    /\ keys' = keys \ {s}
    /\ UNCHANGED <<conv, socket, listed, live, registration, dispatch, told, unsettled, crossed>>

Revoke(s) ==
    /\ s \in live
    /\ live' = live \ {s}
    /\ Unsettle({Owner[s]})
    /\ UNCHANGED <<conv, connection, registration, dispatch, told, crossed>>

-----------------------------------------------------------------------------
(* registerPushToken                                                          *)

Goto(c, from, to) == step[c] = from /\ step' = [step EXCEPT ![c] = to]
Working(c) == step[c] \notin {"new", "over"}

FindRegistration(c, s, t) ==
    /\ s \in live
    /\ Goto(c, "new", "write")
    /\ mine' = [mine EXCEPT ![c] = s]
    /\ token' = [token EXCEPT ![c] = t]
    /\ found' = [found EXCEPT ![c] = (row[t] # NoRow)]
    /\ crossed' = IF \E d \in Calls : Working(d) /\ (mine[d] = s \/ token[d] = t)
                  THEN crossed \cup {s} \cup {mine[d] : d \in {x \in Calls : Working(x)}}
                  ELSE crossed
    /\ UNCHANGED <<conv, connection, live, row, dispatch, told, unsettled>>

OwnersOf(t) == {Owner[s] : s \in {row[t].session} \ {Nobody}}

Write(c) ==
    /\ Goto(c, "write", "revoke")
    /\ row' = [row EXCEPT ![token[c]] = [session |-> mine[c], active |-> TRUE]]
    /\ Unsettle(OwnersOf(token[c]) \cup {Owner[mine[c]]})
    /\ UNCHANGED <<conv, connection, live, mine, token, found, dispatch, told, crossed>>

\* The token is unique: a create that finds it taken by now fails.
CreateRegistration(c) == Write(c) /\ ~found[c] /\ row[token[c]] = NoRow

\* The row is saved whole and active, whoever had it.
SaveRegistration(c) == Write(c) /\ found[c]

\* The handler is over: answered, or failed.
Forget(c) ==
    /\ step' = [step EXCEPT ![c] = "over"]
    /\ mine' = [mine EXCEPT ![c] = Nobody]
    /\ token' = [token EXCEPT ![c] = Nobody]
    /\ found' = [found EXCEPT ![c] = FALSE]

\* Faulty variant: the other registrations of the session are kept.
RevokeNoOther(c) ==
    /\ step[c] = "revoke"
    /\ Forget(c)
    /\ UNCHANGED <<conv, connection, live, row, dispatch, told, unsettled, crossed>>

RevokeOthers(c) ==
    /\ step[c] = "revoke"
    /\ row' = [t \in Tokens |->
                  IF row[t].session = mine[c] /\ t # token[c]
                  THEN [row[t] EXCEPT !.active = FALSE] ELSE row[t]]
    /\ Unsettle({Owner[mine[c]]})
    /\ Forget(c)
    /\ UNCHANGED <<conv, connection, live, dispatch, told, crossed>>

\* Any call fails.
FailRegistration(c) ==
    /\ Working(c)
    /\ crossed' = crossed \cup {mine[c]}
    /\ Forget(c)
    /\ UNCHANGED <<conv, connection, live, row, dispatch, told, unsettled>>

-----------------------------------------------------------------------------
(* sendMessage, from the event on, and dispatchOfflineMessagePush             *)

EmitMessageCreated ==
    /\ send = "new" /\ conv \in {"stored", "over"}
    /\ told' = {Owner[s] : s \in InRoom}
    /\ send' = "members"
    /\ UNCHANGED <<conv, connection, live, registration, left, now, rows, unsettled, crossed>>

ListMembers ==
    /\ send = "members"
    /\ left' = Members
    /\ send' = "next"
    /\ UNCHANGED <<conv, connection, live, registration, now, rows, told, unsettled, crossed>>

\* The members come in an order of the database.
NextMember ==
    /\ send = "next"
    /\ IF left = {}
       THEN send' = "done" /\ now' = Nobody /\ UNCHANGED left
       ELSE \E u \in left : now' = u /\ left' = left \ {u} /\ send' = "presence"
    /\ UNCHANGED <<conv, connection, live, registration, rows, told, unsettled, crossed>>

\* Presence takes a member for online though all its sockets are gone.
Misled(u) == u \in Online /\ \A s \in keys : Owner[s] = u => socket[s] = "gone"

\* Faulty variant: the first member that is online ends the loop.
GetPresenceReturning ==
    /\ send = "presence"
    /\ send' = IF now \in Online THEN "done" ELSE "registrations"
    /\ unsettled' = IF Misled(now) THEN unsettled \cup {now} ELSE unsettled
    /\ UNCHANGED <<conv, connection, live, registration, left, now, rows, told, crossed>>

GetPresence ==
    /\ send = "presence"
    /\ send' = IF now \in Online THEN "next" ELSE "registrations"
    /\ unsettled' = IF Misled(now) THEN unsettled \cup {now} ELSE unsettled
    /\ UNCHANGED <<conv, connection, live, registration, left, now, rows, told, crossed>>

ListRegistrations ==
    /\ send = "registrations"
    /\ rows' = {[on |-> t, session |-> row[t].session] :
                   t \in {x \in Tokens : row[x].active /\ Owner[row[x].session] = now}}
    /\ send' = IF rows' = {} THEN "next" ELSE "session"
    /\ UNCHANGED <<conv, connection, live, registration, left, now, told, unsettled, crossed>>

\* What the push says is counted and read, then findActiveSessionById and the
\* provider of the registration.
Push(r) ==
    /\ send = "session" /\ r \in rows
    /\ rows' = rows \ {r}
    /\ told' = IF r.session \in live THEN told \cup {now} ELSE told
    /\ send' = IF rows' = {} THEN "next" ELSE "session"
    /\ UNCHANGED <<conv, connection, live, registration, left, now, unsettled, crossed>>

GiveUp ==
    /\ send' = "failed"
    /\ left' = {} /\ now' = Nobody /\ rows' = {}
    /\ UNCHANGED <<conv, connection, live, registration, told, unsettled, crossed>>

\* A provider throws when it gets no access token, or an answer that is not ok;
\* the exception is counted and thrown on, which ends the loops over the
\* registrations and the members.
FailPush(r) ==
    /\ send = "session" /\ r \in rows /\ r.session \in live
    /\ GiveUp

\* Any other call throws: the members that are left get no push.  The sender is
\* answered with an error, and the retry that follows finds the message stored
\* and dispatches nothing.
FailSend ==
    /\ send \in {"members", "presence", "registrations", "session"}
    /\ GiveUp

-----------------------------------------------------------------------------
Next ==
    \/ Create \/ EmitConversationCreated \/ FailView
    \/ \E s \in Sessions :
         \/ Connect(s) \/ ListConversations(s) \/ RegisterConnection(s) \/ JoinRooms(s)
         \/ Disconnect(s) \/ Unregister(s) \/ Revoke(s)
    \/ \E c \in Calls :
         \/ \E s \in Sessions, t \in Tokens : FindRegistration(c, s, t)
         \/ CreateRegistration(c) \/ SaveRegistration(c) \/ RevokeOthers(c) \/ FailRegistration(c)
    \/ EmitMessageCreated \/ ListMembers \/ NextMember \/ GetPresence
    \/ ListRegistrations
    \/ \E r \in rows : Push(r) \/ FailPush(r)
    \/ FailSend

Spec == Init /\ [][Next]_vars

-----------------------------------------------------------------------------
(* Properties                                                                 *)

TypeOK ==
    /\ conv \in {"none", "stored", "over"}
    /\ socket \in [Sessions -> {"off", "list", "register", "join", "on", "gone"}]
    /\ keys \subseteq Sessions
    /\ listed \in [Sessions -> BOOLEAN]
    /\ live \subseteq Sessions
    /\ row \in [Tokens -> [session : Sessions, active : BOOLEAN] \cup {NoRow}]
    /\ step \in [Calls -> {"new", "write", "revoke", "over"}]
    /\ mine \in [Calls -> Sessions \cup {Nobody}]
    /\ token \in [Calls -> Tokens \cup {Nobody}]
    /\ found \in [Calls -> BOOLEAN]
    /\ send \in {"new", "members", "next", "presence", "registrations",
                "session", "done", "failed"}
    /\ left \subseteq Members
    /\ now \in Members \cup {Nobody}
    /\ rows \subseteq [on : Tokens, session : Sessions]
    /\ told \subseteq Members /\ unsettled \subseteq Members
    /\ crossed \subseteq Sessions

\* The sockets of a member: one that connects, and one that does not get the events.
Connecting(u) == \E s \in Sessions : Owner[s] = u /\ socket[s] \in {"list", "register", "join"}
Deaf(u) == \E s \in Sessions : Owner[s] = u /\ socket[s] = "on" /\ ~listed[s]
Reachable(u) ==
    \E t \in Tokens : row[t].active /\ row[t].session \in live /\ Owner[row[t].session] = u

\* When the dispatch has gone through, every member that can be reached has
\* learned of the message or is connecting: the gap between presence and the
\* rooms (lines 47 and 59 of realtime-connection.service.ts) is closed by the
\* ready event.  Left out are the members that came or went meanwhile, those
\* connected since before the conversation was stored, who count as online and
\* are told nothing, and those whom a key that outlived its socket, after a
\* disconnect or for 45 s after a crash, makes count as online (section 5 of the
\* README).
EveryMemberLearns ==
    send = "done" =>
        \A u \in Members \ unsettled :
            Reachable(u) => u \in told \/ Connecting(u) \/ Deaf(u)

\* A session has one active registration at most, as long as its registrations
\* do not overlap and none fails (lines 37-68 of notifications.service.ts).
OneTokenPerSession ==
    \A s \in Sessions \ crossed :
        (\A c \in Calls : mine[c] = s => ~Working(c)) =>
            Cardinality({t \in Tokens : row[t].active /\ row[t].session = s}) <= 1
=============================================================================
