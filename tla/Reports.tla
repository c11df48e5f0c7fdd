------------------------------ MODULE Reports ------------------------------
(* Reports: what members report, what the administrators decide and the log   *)
(* of what they did.                                                          *)
(*                                                                            *)
(* A user files one report at a time and an administrator processes one at a  *)
(* time; the same report may be in the hands of several.  The row and the log *)
(* are two tables that no transaction covers.                                 *)
EXTENDS Naturals, FiniteSets

CONSTANTS
    Users,      \* members that report
    Admins,     \* members whose handle is in the list of administrators
    Members,    \* the users in the conversation that can be reported
    Author,     \* the one of them who sent the message that can be reported
    Ids,        \* report ids
    Nobody,     \* no user
    MaxDecisions \* bound on the different decisions a run takes

VARIABLES
    active,   \* users and administrators whose account is not disabled
    report,   \* the rows of the reports
    log,      \* the entries of the audit log; their order is left out
    filing,   \* the target a user is about to file a report on
    pc,       \* the call an administrator's request makes next
    held,     \* the report it processes and the status it gives to it
    unlogged  \* history: decisions whose request ended before its entry

handlers == <<filing, pc, held>>
vars == <<active, report, log, handlers, unlogged>>

People == Users \cup Admins
Decision == {"reviewed", "resolved", "rejected"}
Target == {"message", "conversation"} \cup Users

\* A row that does not exist has the status "none".
NoReport == [status |-> "none", on |-> "message", reported |-> Nobody,
             reporter |-> Nobody, handledBy |-> Nobody]
Report == [status : {"pending_review"} \cup Decision, on : Target,
           reported : Users \cup {Nobody}, reporter : Users, handledBy : Admins \cup {Nobody}]
\* An entry of the log: who gave which status to which report.
Entry == [actor : Admins, id : Ids, status : Decision]
NoWork == [id |-> Nobody, status |-> "none"]
EntryOf(d) == [actor |-> d, id |-> held[d].id, status |-> held[d].status]

Init ==
    /\ active = People
    /\ report = [i \in Ids |-> NoReport]
    /\ log = {}
    /\ filing = [u \in Users |-> Nobody]
    /\ pc = [d \in Admins |-> "idle"]
    /\ held = [d \in Admins |-> NoWork]
    /\ unlogged = {}

\* banUser, as far as getActiveUserById sees it.
Ban(p) ==
    /\ p \in active
    /\ active' = active \ {p}
    /\ UNCHANGED <<report, log, handlers, unlogged>>

-----------------------------------------------------------------------------
(* createReport                                                               *)

\* What a user may report: what is said in a conversation of his, the
\* conversation itself, and an active user who is not himself.
ResolveReportTarget(u, t) ==
    IF t \in Users THEN t \in active /\ t # u ELSE u \in Members
ReportedUser(t) ==
    CASE t \in Users -> t [] t = "message" -> Author [] t = "conversation" -> Nobody

\* As long as there is an id left, which is a bound of the model.
StartReport(u) ==
    /\ filing[u] = Nobody
    /\ \E i \in Ids : report[i].status = "none"
    /\ \E t \in Target :
         /\ ResolveReportTarget(u, t)
         /\ filing' = [filing EXCEPT ![u] = t]
    /\ UNCHANGED <<active, report, log, pc, held, unlogged>>

CreateReport(u) ==
    /\ filing[u] # Nobody
    /\ \E i \in Ids :
         /\ report[i].status = "none"
         /\ report' = [report EXCEPT ![i] =
                [status |-> "pending_review", on |-> filing[u],
                 reported |-> ReportedUser(filing[u]), reporter |-> u, handledBy |-> Nobody]]
    /\ filing' = [filing EXCEPT ![u] = Nobody]
    /\ UNCHANGED <<active, log, pc, held, unlogged>>

\* The call fails, or a limit refuses it.
FailReport(u) ==
    /\ filing[u] # Nobody
    /\ filing' = [filing EXCEPT ![u] = Nobody]
    /\ UNCHANGED <<active, report, log, pc, held, unlogged>>

-----------------------------------------------------------------------------
(* processReport                                                              *)

Filed(i) == report[i].status # "none"

\* The two reads run together; what is read of the row and saved again is not
\* changed by anybody.  Every status can be processed, also one that is decided.
ReadReport(d, i, s) ==
    /\ pc[d] = "idle"
    /\ d \in active
    /\ Filed(i)
    /\ Cardinality(log) + Cardinality(unlogged) < MaxDecisions
    /\ held' = [held EXCEPT ![d] = [id |-> i, status |-> s]]
    /\ pc' = [pc EXCEPT ![d] = "save"]
    /\ UNCHANGED <<active, report, log, filing, unlogged>>

\* Faulty variant: a report keeps the administrator who handled it first.
SaveReportKeeping(d) ==
    /\ pc[d] = "save"
    /\ LET i == held[d].id IN
       report' = [report EXCEPT ![i].status = held[d].status,
                                ![i].handledBy = IF @ = Nobody THEN d ELSE @]
    /\ pc' = [pc EXCEPT ![d] = "log"]
    /\ UNCHANGED <<active, log, filing, held, unlogged>>

SaveReport(d) ==
    /\ pc[d] = "save"
    /\ LET i == held[d].id IN
       report' = [report EXCEPT ![i].status = held[d].status,
                                ![i].handledBy = d]
    /\ pc' = [pc EXCEPT ![d] = "log"]
    /\ UNCHANGED <<active, log, filing, held, unlogged>>

\* The request is over.
Over(d) ==
    /\ pc' = [pc EXCEPT ![d] = "idle"]
    /\ held' = [held EXCEPT ![d] = NoWork]

CreateLog(d) ==
    /\ pc[d] = "log"
    /\ log' = log \cup {EntryOf(d)}
    /\ Over(d)
    /\ UNCHANGED <<active, report, filing, unlogged>>

\* A call fails or the process dies.  After the save the decision stands and
\* nothing in the log tells of it.
FailProcess(d) ==
    /\ pc[d] # "idle"
    /\ unlogged' = IF pc[d] = "log" THEN unlogged \cup {EntryOf(d)} ELSE unlogged
    /\ Over(d)
    /\ UNCHANGED <<active, report, log, filing>>

-----------------------------------------------------------------------------
Next ==
    \/ \E p \in People : Ban(p)
    \/ \E u \in Users : StartReport(u) \/ CreateReport(u) \/ FailReport(u)
    \/ \E d \in Admins :
         \/ \E i \in Ids, s \in Decision : ReadReport(d, i, s)
         \/ SaveReport(d) \/ CreateLog(d) \/ FailProcess(d)

Spec == Init /\ [][Next]_vars

-----------------------------------------------------------------------------
(* Properties                                                                 *)

TypeOK ==
    /\ active \subseteq People
    /\ report \in [Ids -> Report \cup {NoReport}]
    /\ log \subseteq Entry
    /\ filing \in [Users -> Target \cup {Nobody}]
    /\ pc \in [Admins -> {"idle", "save", "log"}]
    /\ held \in [Admins -> [id : Ids, status : Decision] \cup {NoWork}]
    /\ unlogged \subseteq Entry

\* Whatever the row of a report says was decided, and by whom, the audit log
\* has an entry that says the same, or the request that decided it is about to
\* write one, or it failed between the two (lines 180-181 of admin.service.ts).
\* It holds also when several administrators process a report at once, when
\* the entry written last may not be the one the row agrees with.
DecisionIsLogged ==
    \A i \in Ids : report[i].status \in Decision =>
        LET d == report[i].handledBy
            e == [actor |-> d, id |-> i, status |-> report[i].status]
        IN  \/ e \in log \cup unlogged
            \/ d \in Admins /\ pc[d] = "log" /\ EntryOf(d) = e
=============================================================================
