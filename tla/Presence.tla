------------------------------ MODULE Presence ------------------------------
(* The presence of one user: the sockets of the devices, the keys the gateway *)
(* keeps for them in Redis, the heartbeat timers, and what the rooms are told.*)
(*                                                                            *)
(* handleConnection and handleDisconnect run for a socket without waiting for *)
(* each other, and so do those of other sockets.  A pipeline is no            *)
(* transaction: its commands are steps of their own, and one that fails is    *)
(* not noticed.  The session sets are kept like the user set;                 *)
(* disconnectSession goes by the room and does not read them.                 *)
EXTENDS Naturals, FiniteSets

CONSTANTS
    Sockets, \* socket ids, each used for one connection
    Residents, \* those that are connected at the start
    MaxFaults \* bound: failed calls, stalls and deaths of a process

VARIABLES
    link,    \* the connection of a socket
    conn,    \* the call its handleConnection makes next
    disc,    \* the call its handleDisconnect makes next
    got,     \* the socket ids a broadcast got from the user set, then the stale
    saw,     \* whether it found an active one
    touch,   \* sockets with a refresh between EXISTS and its write
    beat,    \* sockets whose heartbeat timer runs
    hash,    \* the socket key: a heartbeat alone makes a partial one
    members, \* the user set
    shown,   \* isOnline as the rooms were told last
    told,    \* history: no broadcast overtook that one, and nothing failed since
    overtaken, \* history: broadcasts that have read before another one, or a failure
    hasty,   \* history: sockets gone before handleConnection was done
    starved, \* history: connected sockets whose key expired
    wiped,   \* history: sockets lost by the DEL of the user set
    missed,  \* history: sockets a failed command kept out of Redis, or made stale to a reader
    faults   \* how many faults there were

handlers == <<conn, disc, got, saw>>
redis == <<hash, members>>
history == <<told, overtaken, hasty, starved, wiped, missed, faults>>
vars == <<link, handlers, touch, beat, redis, shown, history>>

\* The broadcasts of the two handlers.
Broadcasts == {"conn", "disc"} \X Sockets
ReadSteps == {"smembers", "payloads", "stale", "emit"}

At(r) == IF r[1] = "conn" THEN conn[r[2]] ELSE disc[r[2]]
Go(r, l) ==
    /\ conn' = IF r[1] = "conn" THEN [conn EXCEPT ![r[2]] = l] ELSE conn
    /\ disc' = IF r[1] = "disc" THEN [disc EXCEPT ![r[2]] = l] ELSE disc
\* Those that have read the user set.
Reading == {r \in Broadcasts : At(r) \in {"payloads", "stale", "emit"}}

\* Active is a socket whose key names the user.
Stale(S) == {s \in S : hash[s] # "full"}
Active == members \ Stale(members)
Online == Active # {}

Init ==
    /\ link = [s \in Sockets |-> IF s \in Residents THEN "up" ELSE "new"]
    /\ conn = [s \in Sockets |-> IF s \in Residents THEN "done" ELSE "idle"]
    /\ disc = [s \in Sockets |-> "idle"]
    /\ hash = [s \in Sockets |-> IF s \in Residents THEN "full" ELSE "none"]
    /\ members = Residents
    /\ beat = Residents
    /\ shown = (Residents # {})
    /\ got = [r \in Broadcasts |-> {}]
    /\ saw = [r \in Broadcasts |-> FALSE]
    /\ touch = {}
    /\ told = TRUE
    /\ overtaken = {}
    /\ hasty = {}
    /\ starved = {}
    /\ wiped = {}
    /\ missed = {}
    /\ faults = 0

Fault == faults < MaxFaults /\ faults' = faults + 1
\* Something changes that nobody tells of, and the broadcasts R end.
Spoil(R) == told' = FALSE /\ overtaken' = Reading \ R
Drop(R) ==
    /\ got' = [r \in Broadcasts |-> IF r \in R THEN {} ELSE got[r]]
    /\ saw' = [r \in Broadcasts |-> IF r \in R THEN FALSE ELSE saw[r]]

ConnAt(s, from, to) == conn[s] = from /\ conn' = [conn EXCEPT ![s] = to]
DiscAt(s, from, to) == disc[s] = from /\ disc' = [disc EXCEPT ![s] = to]

-----------------------------------------------------------------------------
(* handleConnection                                                           *)

\* The socket is accepted; authentication and the list of conversations touch
\* no state of this module.
Connect(s) ==
    /\ link[s] = "new"
    /\ link' = [link EXCEPT ![s] = "up"]
    /\ ConnAt(s, "idle", "hset")
    /\ UNCHANGED <<disc, got, saw, touch, beat, redis, shown, history>>

\* registerConnection: the key, with its lifetime, comes before the set.
RegisterKey(s) ==
    /\ ConnAt(s, "hset", "sadd")
    /\ hash' = [hash EXCEPT ![s] = "full"]
    /\ UNCHANGED <<link, disc, got, saw, touch, beat, members, shown, history>>

\* Faulty variant: the user has one socket, the last.
RegisterSoleMember(s) ==
    /\ ConnAt(s, "sadd", "start")
    /\ members' = {s}
    /\ UNCHANGED <<link, disc, got, saw, touch, beat, hash, shown, history>>

RegisterMember(s) ==
    /\ ConnAt(s, "sadd", "start")
    /\ members' = members \cup {s}
    /\ UNCHANGED <<link, disc, got, saw, touch, beat, hash, shown, history>>

\* The rooms are joined and connection.ready is built, then the timer starts.
StartHeartbeat(s) ==
    /\ ConnAt(s, "start", "smembers")
    /\ beat' = beat \cup {s}
    /\ UNCHANGED <<link, disc, got, saw, touch, redis, shown, history>>

\* A command of the two pipelines fails, which neither handler notices: exec()
\* resolves with the error among the results.
FailCommand(s) ==
    /\ Fault
    /\ \/ /\ ConnAt(s, "hset", "sadd") \/ ConnAt(s, "sadd", "start")
          /\ missed' = missed \cup {s}
          /\ UNCHANGED disc
       \/ /\ DiscAt(s, "del", "srem") \/ DiscAt(s, "delOnly", "done") \/ DiscAt(s, "srem", "scard")
          /\ UNCHANGED <<conn, missed>>
    /\ UNCHANGED <<link, got, saw, touch, beat, redis, shown, told, overtaken, hasty, starved, wiped>>

\* A call throws, or the process dies with the handler: the client is
\* disconnected.
FailConnection(s) ==
    /\ conn[s] \notin {"idle", "done"}
    /\ Fault
    /\ conn' = [conn EXCEPT ![s] = "done"]
    /\ Spoil({<<"conn", s>>})
    /\ IF link[s] = "up"
       THEN /\ link' = [link EXCEPT ![s] = "gone"]
            /\ disc' = [disc EXCEPT ![s] = "hgetall"]
            /\ beat' = beat \ {s}
       ELSE UNCHANGED <<link, disc, beat>>
    /\ Drop({<<"conn", s>>})
    /\ UNCHANGED <<touch, redis, shown, hasty, starved, wiped, missed>>

-----------------------------------------------------------------------------
(* handleDisconnect                                                           *)

\* The connection ends, by the client or by disconnectSession: the timer stops
\* and handleDisconnect runs, whether handleConnection is done or not.
Disconnect(s) ==
    /\ link[s] = "up"
    /\ link' = [link EXCEPT ![s] = "gone"]
    /\ beat' = beat \ {s}
    /\ DiscAt(s, "idle", "hgetall")
    /\ hasty' = IF conn[s] \in {"hset", "sadd", "start"} THEN hasty \cup {s} ELSE hasty
    /\ UNCHANGED <<conn, got, saw, touch, redis, shown, told, overtaken, starved, wiped, missed, faults>>

\* unregisterConnection: without a key there is nothing to do, and nobody is
\* told.  A partial key names no user.
LookUp(s) ==
    /\ disc[s] = "hgetall"
    /\ disc' = [disc EXCEPT ![s] = CASE hash[s] = "full" -> "del"
                                     [] hash[s] = "partial" -> "delOnly"
                                     [] hash[s] = "none" -> "done"]
    /\ UNCHANGED <<link, conn, got, saw, touch, beat, redis, shown, history>>

DeleteKey(s) ==
    /\ DiscAt(s, "del", "srem") \/ DiscAt(s, "delOnly", "done")
    /\ hash' = [hash EXCEPT ![s] = "none"]
    /\ UNCHANGED <<link, conn, got, saw, touch, beat, members, shown, history>>

RemoveMember(s) ==
    /\ DiscAt(s, "srem", "scard")
    /\ members' = members \ {s}
    /\ UNCHANGED <<link, conn, got, saw, touch, beat, hash, shown, history>>

Count(s) ==
    /\ disc[s] = "scard"
    /\ disc' = [disc EXCEPT ![s] = IF members = {} THEN "delSet" ELSE "smembers"]
    /\ UNCHANGED <<link, conn, got, saw, touch, beat, redis, shown, history>>

\* The set was empty when it was counted.
DeleteSet(s) ==
    /\ DiscAt(s, "delSet", "smembers")
    /\ members' = {}
    /\ wiped' = wiped \cup members
    /\ UNCHANGED <<link, conn, got, saw, touch, beat, hash, shown,
                   told, overtaken, hasty, starved, missed, faults>>

\* A call throws, or the process dies with the handler.
FailDisconnection(s) ==
    /\ disc[s] \notin {"idle", "done"}
    /\ Fault
    /\ disc' = [disc EXCEPT ![s] = "done"]
    /\ Spoil({<<"disc", s>>})
    /\ Drop({<<"disc", s>>})
    /\ UNCHANGED <<link, conn, touch, beat, redis, shown, hasty, starved, wiped, missed>>

-----------------------------------------------------------------------------
(* getUserPresence, and the broadcast of what it found.                       *)

ReadMembers(r) ==
    /\ At(r) = "smembers"
    /\ got' = [got EXCEPT ![r] = members]
    /\ Go(r, "payloads")
    /\ UNCHANGED <<link, saw, touch, beat, redis, shown, history>>

Found(r, stale) ==
    /\ At(r) = "payloads"
    /\ got' = [got EXCEPT ![r] = stale]
    /\ saw' = [saw EXCEPT ![r] = stale # got[r]]
    /\ UNCHANGED <<link, touch, beat, redis, shown>>

\* Faulty variant: a user who is not online is not announced.
FetchPayloadsOfSome(r) ==
    LET stale == Stale(got[r]) IN
    /\ Found(r, stale)
    /\ Go(r, IF stale = got[r] THEN "done" ELSE IF stale = {} THEN "emit" ELSE "stale")
    /\ UNCHANGED history

FetchPayloads(r) ==
    LET stale == Stale(got[r]) IN
    /\ Found(r, stale)
    /\ Go(r, IF stale = {} THEN "emit" ELSE "stale")
    /\ UNCHANGED history

\* An HGETALL of the pipeline that fails leaves its socket without a payload:
\* it counts as stale.
FailPayloads(r) ==
    /\ Fault
    /\ \E lost \in (SUBSET got[r]) \ {{}} :
          Found(r, Stale(got[r]) \cup lost) /\ missed' = missed \cup lost
    /\ Go(r, "stale")
    /\ UNCHANGED <<told, overtaken, hasty, starved, wiped>>

RemoveStale(r) ==
    /\ At(r) = "stale"
    /\ members' = members \ got[r]
    /\ Go(r, "emit")
    /\ UNCHANGED <<link, got, saw, touch, beat, hash, shown, history>>

\* presence.updated goes to the rooms.
Emit(r) ==
    /\ At(r) = "emit"
    /\ Go(r, "done")
    /\ shown' = saw[r]
    /\ told' = (r \notin overtaken)
    /\ overtaken' = Reading \ {r}
    /\ Drop({r})
    /\ UNCHANGED <<link, touch, beat, redis, hasty, starved, wiped, missed, faults>>

\* The other readers, buildConnectionReadyEvent and the push dispatcher, take the
\* same steps and tell no room.  What they remove is stale and stays so, unless
\* they failed to read it.
ReadElsewhere(out) ==
    /\ out # {}
    /\ members' = members \ out
    /\ IF out = Stale(out)
       THEN UNCHANGED history
       ELSE /\ Fault
            /\ missed' = missed \cup (out \ Stale(out))
            /\ Spoil({})
            /\ UNCHANGED <<hasty, starved, wiped>>
    /\ UNCHANGED <<link, handlers, touch, beat, hash, shown>>

-----------------------------------------------------------------------------
(* Heartbeats and lifetimes                                                   *)

\* The timer of a socket, or a typing.set of it, finds the key, or stops the
\* timer for good.
Refresh(s) ==
    /\ s \in beat \/ link[s] = "up"
    /\ s \notin touch
    /\ IF hash[s] # "none"
       THEN touch' = touch \cup {s} /\ UNCHANGED beat
       ELSE beat' = beat \ {s} /\ UNCHANGED touch
    /\ UNCHANGED <<link, handlers, redis, shown, history>>

\* The write after it makes a key that has gone in between again, without the
\* user.
Touch(s) ==
    /\ s \in touch
    /\ touch' = touch \ {s}
    /\ hash' = [hash EXCEPT ![s] = IF @ = "none" THEN "partial" ELSE @]
    /\ UNCHANGED <<link, handlers, beat, members, shown, history>>

\* Forty-five seconds pass without a refresh.  For a socket whose timer runs
\* that takes a Redis or a process that stalls.
Lapse(s) ==
    /\ hash[s] # "none"
    /\ hash' = [hash EXCEPT ![s] = "none"]
    /\ IF s \in Active THEN Spoil({}) ELSE UNCHANGED <<told, overtaken>>
    /\ starved' = IF link[s] = "up" THEN starved \cup {s} ELSE starved
    /\ UNCHANGED <<link, handlers, touch, beat, members, shown, hasty, wiped, missed>>
Expire(s) == link[s] = "gone" /\ s \notin beat /\ Lapse(s) /\ UNCHANGED faults
Starve(s) == (link[s] = "up" \/ s \in beat) /\ Lapse(s) /\ Fault

\* The process of a socket dies: nobody unregisters the socket.
Crash(s) ==
    /\ link[s] = "up" \/ s \in beat
    /\ Fault
    /\ link' = [link EXCEPT ![s] = "gone"]
    /\ conn' = [conn EXCEPT ![s] = "done"]
    /\ disc' = [disc EXCEPT ![s] = "done"]
    /\ Drop({<<"conn", s>>, <<"disc", s>>})
    /\ touch' = touch \ {s}
    /\ beat' = beat \ {s}
    /\ Spoil({<<"conn", s>>, <<"disc", s>>})
    /\ UNCHANGED <<redis, shown, hasty, starved, wiped, missed>>

-----------------------------------------------------------------------------
Run(s) ==
    \/ RegisterKey(s) \/ RegisterMember(s) \/ StartHeartbeat(s)
    \/ LookUp(s) \/ DeleteKey(s) \/ RemoveMember(s) \/ Count(s) \/ DeleteSet(s)
Read(r) ==
    ReadMembers(r) \/ FetchPayloads(r) \/ FailPayloads(r) \/ RemoveStale(r) \/ Emit(r)

Next ==
    \/ \E s \in Sockets :
         \/ Connect(s) \/ Disconnect(s) \/ Run(s)
         \/ FailCommand(s) \/ FailConnection(s) \/ FailDisconnection(s)
         \/ Refresh(s) \/ Touch(s) \/ Expire(s) \/ Starve(s) \/ Crash(s)
    \/ \E r \in Broadcasts : Read(r)
    \/ \E out \in SUBSET members : ReadElsewhere(out)

Spec == Init /\ [][Next]_vars

-----------------------------------------------------------------------------
(* Properties                                                                 *)

TypeOK ==
    /\ link \in [Sockets -> {"new", "up", "gone"}]
    /\ conn \in [Sockets -> {"idle", "hset", "sadd", "start", "done"} \cup ReadSteps]
    /\ disc \in [Sockets -> {"idle", "hgetall", "del", "delOnly", "srem", "scard", "delSet", "done"}
                              \cup ReadSteps]
    /\ got \in [Broadcasts -> SUBSET Sockets]
    /\ saw \in [Broadcasts -> BOOLEAN]
    /\ touch \subseteq Sockets
    /\ beat \subseteq Sockets
    /\ hash \in [Sockets -> {"none", "partial", "full"}]
    /\ members \subseteq Sockets
    /\ shown \in BOOLEAN /\ told \in BOOLEAN
    /\ faults \in 0 .. MaxFaults
    /\ \A r \in Broadcasts : got[r] # {} => At(r) \in ReadSteps
    /\ overtaken \subseteq Broadcasts
    /\ hasty \subseteq Sockets /\ starved \subseteq Sockets
    /\ wiped \subseteq Sockets /\ missed \subseteq Sockets

Registered == {s \in Sockets : link[s] = "up" /\ conn[s] \in {"start", "done"} \cup ReadSteps}

\* A connected socket keeps its user online: no reader and no other socket takes
\* it out of the set, unless its key was starved, a command for it failed, or the
\* late DEL of another socket's unregisterConnection took the whole set.
ConnectedIsActive == Registered \ (starved \cup wiped \cup missed) \subseteq Active

Quiet == \A r \in Broadcasts : At(r) \in {"idle", "done"}

\* When no handler runs, the rooms know what Redis knows: every change of it is
\* followed by a broadcast that reads after it, so the last one was right, if none
\* overtook it between its read and its update (lines 26-38 of
\* realtime-broadcast.service.ts) and nothing failed or expired since its read.
\* And Redis knows whether the user is connected, if nothing failed, no socket
\* left before it was registered, and no late DEL took the set.
QuietIsTold ==
    Quiet =>
        /\ told => shown = Online
        /\ faults = 0 /\ hasty \cup wiped = {} => Online = (\E s \in Sockets : link[s] = "up")
=============================================================================
