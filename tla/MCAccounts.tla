----------------------------- MODULE MCAccounts -----------------------------
(* Instances of Accounts for TLC.                                            *)
(*                                                                           *)
(* Two handlers on several sessions are too many states at once, so a        *)
(* behaviour has either: handlers that overlap on one session, or one        *)
(* handler at a time on all of them.                                         *)
EXTENDS Accounts, TLC

CONSTANTS
    OverlapSession, \* the session of the behaviours in which handlers overlap
    OverlapCalls,   \* what the handlers do in them
    OverlapNonces   \* bound: nonces issued in them

VARIABLE overlapping \* do the handlers of this behaviour overlap

MCInit == Init /\ overlapping \in BOOLEAN

MCNext ==
    /\ Next
    /\ UNCHANGED overlapping
    /\ IF overlapping
       THEN /\ \A s \in Sessions \ {OverlapSession} : session'[s].state = "none"
            /\ \A r \in Requests : pc'[r] = "idle" \/ op'[r] \in OverlapCalls
            /\ issued' <= OverlapNonces
       ELSE Cardinality({r \in Requests : pc'[r] # "idle"}) <= 1

MCSpec == MCInit /\ [][MCNext]_<<vars, overlapping>>

\* Handlers are interchangeable.
Symmetry == Permutations(Requests)
=============================================================================
