------------------------------- MODULE Typing -------------------------------
(* The typing indicator of one user in one conversation: the key in Redis,    *)
(* the timers of the gateways that end it, and what the other members see.    *)
(*                                                                            *)
(* A gateway keeps its timers in timeoutByKey, by conversation and user: one  *)
(* entry here.  A timer that has lost its entry cannot be cleared any more.   *)
EXTENDS Naturals, FiniteSets

CONSTANTS
    Gateways, \* server processes with a socket of the user
    Calls,    \* typing.set handlers, each used once
    NoCall    \* no timer has the entry; none of Calls

VARIABLES
    call,     \* the step a handler makes next
    place,    \* its gateway
    entry,    \* the timer in timeoutByKey of a gateway, named after its call
    ticking,  \* the timers that run
    firing,   \* the timers that have fired: those before their DEL, and after
    key,      \* is the key in Redis there
    visible,  \* what the other members were told last
    broken,   \* history: a handler or an expiry notice failed, or a gateway died
    late      \* history: a start was told after its timer had been cleared or fired

vars == <<call, place, entry, ticking, firing, key, visible, broken, late>>

Init ==
    /\ call = [c \in Calls |-> "new"]
    /\ place \in [Calls -> Gateways]
    /\ entry = [g \in Gateways |-> NoCall]
    /\ ticking = {}
    /\ firing = [c \in Calls |-> "no"]
    /\ key = FALSE
    /\ visible = FALSE
    /\ late = FALSE
    /\ broken = FALSE

CallAt(c, from, to) == call[c] = from /\ call' = [call EXCEPT ![c] = to]

\* clearTimer: only the timer that has the entry is stopped.
ClearTimer(g) ==
    /\ ticking' = ticking \ {entry[g]}
    /\ entry' = [entry EXCEPT ![g] = NoCall]

\* setTyping and clearTyping begin with clearTimer, before their first await.
Begin(c, to) ==
    /\ CallAt(c, "new", to)
    /\ ClearTimer(place[c])
    /\ UNCHANGED <<place, firing, key, visible, broken, late>>
Start(c) == Begin(c, "set")
Stop(c) == Begin(c, "del")

\* SET with its lifetime of five seconds, then the new timer gets the entry.
Set(c) ==
    /\ CallAt(c, "set", "show")
    /\ key' = TRUE
    /\ entry' = [entry EXCEPT ![place[c]] = c]
    /\ ticking' = ticking \cup {c}
    /\ UNCHANGED <<place, firing, visible, broken, late>>

Del(c) ==
    /\ CallAt(c, "del", "hide")
    /\ key' = FALSE
    /\ UNCHANGED <<place, entry, ticking, firing, visible, broken, late>>

\* emitTypingUpdated, after the members are listed.
Tell(c) ==
    /\ CallAt(c, "show", "over") \/ CallAt(c, "hide", "over")
    /\ visible' = (call[c] = "show")
    /\ late' = (late \/ (call[c] = "show" /\ c \notin ticking))
    /\ UNCHANGED <<place, entry, ticking, firing, key, broken>>

\* Redis or the database fails a handler: a start that had cleared the timer
\* before it sets none.  The SET or DEL may have had its effect.
Fail(c) ==
    /\ call[c] \notin {"new", "over"}
    /\ call' = [call EXCEPT ![c] = "over"]
    /\ \/ key' = key
       \/ call[c] = "set" /\ key' = TRUE
       \/ call[c] = "del" /\ key' = FALSE
    /\ broken' = TRUE
    /\ UNCHANGED <<place, entry, ticking, firing, visible, late>>

\* Faulty variant: nobody is told when the key had expired already.
FireDelIfThere(c) ==
    /\ firing[c] = "del"
    /\ firing' = [firing EXCEPT ![c] = IF key THEN "hide" ELSE "no"]
    /\ key' = FALSE
    /\ UNCHANGED <<call, place, entry, ticking, visible, broken, late>>

\* The timer of a call fires five seconds after it was set, whether or not the
\* call has told the members by then.  The entry goes, whoever has it.
Fire(c) ==
    /\ c \in ticking
    /\ ticking' = ticking \ {c}
    /\ entry' = [entry EXCEPT ![place[c]] = NoCall]
    /\ firing' = [firing EXCEPT ![c] = "del"]
    /\ UNCHANGED <<call, place, key, visible, broken, late>>

\* The notice follows in finally: whether the DEL succeeded or not.
FireDel(c) ==
    /\ firing[c] = "del"
    /\ firing' = [firing EXCEPT ![c] = "hide"]
    /\ key' \in {key, FALSE}
    /\ UNCHANGED <<call, place, entry, ticking, visible, broken, late>>

\* onExpired: emitTypingUpdated, after the members are listed.
FireTell(c) ==
    /\ firing[c] = "hide"
    /\ firing' = [firing EXCEPT ![c] = "no"]
    /\ visible' = FALSE
    /\ UNCHANGED <<call, place, entry, ticking, key, broken, late>>

\* The database fails the list of members.  The call is voided: nobody is told,
\* and no timer is left to tell them later.
FireFail(c) ==
    /\ firing[c] = "hide"
    /\ firing' = [firing EXCEPT ![c] = "no"]
    /\ broken' = TRUE
    /\ UNCHANGED <<call, place, entry, ticking, key, visible, late>>

KeyExpires ==
    /\ key
    /\ key' = FALSE
    /\ UNCHANGED <<call, place, entry, ticking, firing, visible, broken, late>>

Crash(g) ==
    /\ broken' = TRUE
    /\ entry' = [entry EXCEPT ![g] = NoCall]
    /\ ticking' = {c \in ticking : place[c] # g}
    /\ firing' = [c \in Calls |-> IF place[c] = g THEN "no" ELSE firing[c]]
    /\ call' = [c \in Calls |-> IF place[c] = g THEN "over" ELSE call[c]]
    /\ UNCHANGED <<place, key, visible, late>>

Next ==
    \/ \E c \in Calls :
         \/ Start(c) \/ Stop(c) \/ Set(c) \/ Del(c) \/ Tell(c) \/ Fail(c)
         \/ Fire(c) \/ FireDel(c) \/ FireTell(c) \/ FireFail(c)
    \/ \E g \in Gateways : Crash(g)
    \/ KeyExpires

Spec == Init /\ [][Next]_vars

-----------------------------------------------------------------------------
(* Properties                                                                 *)

TypeOK ==
    /\ call \in [Calls -> {"new", "set", "del", "show", "hide", "over"}]
    /\ place \in [Calls -> Gateways]
    /\ entry \in [Gateways -> Calls \cup {NoCall}]
    /\ ticking \subseteq Calls
    /\ firing \in [Calls -> {"no", "del", "hide"}]
    /\ key \in BOOLEAN /\ visible \in BOOLEAN
    /\ broken \in BOOLEAN /\ late \in BOOLEAN

\* Who sees the user typing will see it end: a timer runs or has fired, or a
\* handler is on its way to tell, unless a call failed after it had cleared the
\* timer, the notice of a timer failed, a gateway died, or the timer of a start
\* was cleared or fired before that start was told (lines 30, 37-50 and 75 of
\* realtime-typing.service.ts, 166-171 of chat.gateway.ts).
VisibleEnds ==
    visible /\ ~broken /\ ~late =>
        \/ ticking # {}
        \/ \E c \in Calls : firing[c] # "no" \/ call[c] \in {"set", "del", "hide"}
=============================================================================
