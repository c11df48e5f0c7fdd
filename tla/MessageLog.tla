----------------------------- MODULE MessageLog -----------------------------
(* What the message pipeline of one conversation promises its users: an       *)
(* append-only log.  A client key (sender, clientMessageId) is logged at most *)
(* once, an entry never changes its place or its status, and only what is     *)
(* logged is acknowledged to a sender or published to the conversation room.  *)
(* Messaging.tla implements this specification.                               *)
EXTENDS Naturals, Sequences

CONSTANTS
    Keys,       \* client keys: <<sender, clientMessageId>>
    Statuses    \* statuses a message row is stored with

VARIABLES
    log,        \* the conversation's entries; a position is a conversation sequence
    acked,      \* keys some request was answered "accepted" for
    published   \* positions announced as message.created

logVars == <<log, acked, published>>

Entries == [key : Keys, status : Statuses]
LoggedKeys == {log[n].key : n \in DOMAIN log}

LogInit ==
    /\ log = <<>>
    /\ acked = {}
    /\ published = {}

AppendEntry(e) ==
    /\ e.key \notin LoggedKeys
    /\ log' = Append(log, e)
    /\ UNCHANGED <<acked, published>>

Ack(k) ==
    /\ k \in LoggedKeys
    /\ acked' = acked \cup {k}
    /\ UNCHANGED <<log, published>>

Publish(n) ==
    /\ n \in DOMAIN log
    /\ published' = published \cup {n}
    /\ UNCHANGED <<log, acked>>

LogNext ==
    \/ \E e \in Entries : AppendEntry(e)
    \/ \E k \in Keys : Ack(k)
    \/ \E n \in DOMAIN log : Publish(n)

LogSpec == LogInit /\ [][LogNext]_logVars
=============================================================================
