------------------------------ MODULE Realtime ------------------------------
(* What the gateway and its clients keep up besides the messages: the list of *)
(* conversations of a device (Inbox, here without a prefix), the presence and *)
(* the typing of a user, and the reports of the administration.  The parts    *)
(* run beside each other and share no state: what one of them says of a       *)
(* connection is not what another says of it.                                 *)
EXTENDS Inbox

CONSTANTS
    Sockets, Residents, MaxFaults,                           \* of Presence
    Gateways, Calls, NoCall,                                 \* of Typing
    Users, Admins, Members, Author, Ids, Nobody, MaxDecisions \* of Reports

ASSUME ResidentAssumption == Residents \subseteq Sockets
ASSUME FaultAssumption == MaxFaults \in Nat
ASSUME AuthorAssumption == Author \in Users

VARIABLES
    socket, conn, disc, got, saw, touch, beat, hash, members, announced,
    told, overtaken, hasty, starved, wiped, missed, faults,
    call, place, entry, ticking, firing, key, visible, broken, late,
    active, report, log, filing, pc, held, unlogged

P == INSTANCE Presence WITH link <- socket, shown <- announced
T == INSTANCE Typing
R == INSTANCE Reports

presence == <<socket, conn, disc, got, saw, touch, beat, hash, members, announced,
              told, overtaken, hasty, starved, wiped, missed, faults>>
typing == <<call, place, entry, ticking, firing, key, visible, broken, late>>
reports == <<active, report, log, filing, pc, held, unlogged>>
realtime == <<vars, presence, typing, reports>>

RealtimeInit == Init /\ P!Init /\ T!Init /\ R!Init

InboxStep == Next /\ UNCHANGED <<presence, typing, reports>>
PresenceStep == P!Next /\ UNCHANGED <<vars, typing, reports>>
TypingStep == T!Next /\ UNCHANGED <<vars, presence, reports>>
ReportsStep == R!Next /\ UNCHANGED <<vars, presence, typing>>
RealtimeNext == InboxStep \/ PresenceStep \/ TypingStep \/ ReportsStep

RealtimeSpec == RealtimeInit /\ [][RealtimeNext]_realtime

-----------------------------------------------------------------------------
(* Properties of the parts; UnreadIsRight is that of Inbox.                   *)

\* A connected socket keeps its user online, whatever readers and other sockets
\* of the user do (redis-realtime-presence.store.ts); see Presence.
ConnectedIsActive == P!ConnectedIsActive

\* When no handler runs, the rooms were told the truth last, if it was the truth
\* when it was sent; see Presence.
QuietIsTold == P!QuietIsTold

\* Who sees the user typing will see it end; see Typing.
VisibleEnds == T!VisibleEnds

\* What a report says was decided is in the audit log, about to be, or its
\* request failed between the two; see Reports.
DecisionIsLogged == R!DecisionIsLogged
=============================================================================
