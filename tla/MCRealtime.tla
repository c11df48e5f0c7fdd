----------------------------- MODULE MCRealtime -----------------------------
(* The parts share no state: the run explores each from an initial state of   *)
(* its own, while the others stay where they are.                             *)
EXTENDS Realtime

VARIABLE part

\* Bound on the requests, counts and events of Inbox that are under way together.
MaxUnderWay == 3
Busy == Cardinality(sending) + Cardinality({s \in Counters : count[s] # Idle}) + Len(net)

MCInit ==
    /\ part \in {"inbox", "presence", "typing", "reports"}
    /\ RealtimeInit
    /\ part # "typing" => \A c \in Calls : place[c] = CHOOSE g \in Gateways : TRUE
MCNext ==
    /\ UNCHANGED part
    /\ \/ part = "inbox" /\ InboxStep /\ Busy' <= MaxUnderWay
       \/ part = "presence" /\ PresenceStep
       \/ part = "typing" /\ TypingStep
       \/ part = "reports" /\ ReportsStep
MCSpec == MCInit /\ [][MCNext]_<<part, realtime>>
=============================================================================
