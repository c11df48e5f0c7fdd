-------------------------------- MODULE Codes --------------------------------
(* Verification codes and the rate limits around them, with the registration  *)
(* that a code pays for.                                                      *)
(*                                                                            *)
(* A counter is INCR and, when it was the first, PEXPIRE: two calls.  A code  *)
(* row is read, its hash is verified, and the row is saved whole with its     *)
(* consumedAt: a code that was issued in between is overwritten.  A handler   *)
(* is an element of Handlers; every await is a step.                          *)
EXTENDS Naturals, FiniteSets

CONSTANTS
    Handlers,    \* requests that can run at the same time
    Identifiers, \* what users register with; all have one base handle
    NoOne,       \* the handler serves nobody
    Limit,       \* the attempts an identifier has in the window
    MaxCodes,    \* bound: codes issued
    MaxSuffix    \* bound: suffixes of the base handle

ASSUME IdentifierAssumption == NoOne \notin Identifiers
ASSUME NumberAssumption == Limit \in Nat \ {0} /\ MaxCodes \in Nat /\ MaxSuffix \in Nat

VARIABLES
    row,      \* the verification code row of an identifier
    expired,  \* the codes whose expiresAt has passed
    issued,   \* how many codes were issued
    mail,     \* the code an identifier was sent last
    counter,  \* the counter of the attempts at a code of an identifier, in Redis
    handle,   \* the handle of the account of an identifier
    pc,       \* the call a handler makes next
    who,      \* its identifier
    given,    \* the code it was given, or has made
    number,   \* what INCR answered, then the suffix it tries
    copy,     \* the row it has read
    newest,   \* history: the code an identifier was issued last
    bought,   \* history: how often a code was accepted
    twice,    \* history: codes two handlers had read unused at the same time
    undone,   \* history: codes whose row a stale save overwrote
    wasted,   \* history: identifiers whose code was accepted in vain
    stuck     \* history: identifiers whose counter lost its handler before PEXPIRE

locals == <<pc, who, given, number, copy>>
history == <<newest, bought, twice, undone, wasted, stuck>>
vars == <<row, expired, issued, mail, counter, handle, locals, history>>

Codes == 1 .. MaxCodes
NoCode == 0
NoHandle == MaxSuffix + 1
Row == [code : Codes \cup {NoCode}, used : BOOLEAN]
Counter == [count : 0 .. Limit + 1, ttl : BOOLEAN]
Gone == [count |-> 0, ttl |-> FALSE]
Unused == [code |-> NoCode, used |-> FALSE]

Init ==
    /\ row = [i \in Identifiers |-> Unused]
    /\ expired = {}
    /\ issued = 0
    /\ mail = [i \in Identifiers |-> NoCode]
    /\ counter = [i \in Identifiers |-> Gone]
    /\ handle = [i \in Identifiers |-> NoHandle]
    /\ pc = [h \in Handlers |-> "idle"]
    /\ who = [h \in Handlers |-> NoOne]
    /\ given = [h \in Handlers |-> NoCode]
    /\ number = [h \in Handlers |-> 0]
    /\ copy = [h \in Handlers |-> Unused]
    /\ newest = [i \in Identifiers |-> NoCode]
    /\ bought = [c \in Codes |-> 0]
    /\ twice = {}
    /\ undone = {}
    /\ wasted = {}
    /\ stuck = {}

Goto(h, l) == pc' = [pc EXCEPT ![h] = l]

\* The handler is over: answered, refused or failed.
Forget(h) ==
    /\ Goto(h, "idle")
    /\ who' = [who EXCEPT ![h] = NoOne]
    /\ given' = [given EXCEPT ![h] = NoCode]
    /\ number' = [number EXCEPT ![h] = 0]
    /\ copy' = [copy EXCEPT ![h] = Unused]

-----------------------------------------------------------------------------
(* The two requests.  Each first passes assertAuthRateLimit, whose counters     *)
(* work like the one below: a request it refuses leaves no trace here.        *)

Arrive(h, i, c, l) ==
    /\ pc[h] = "idle"
    /\ Goto(h, l)
    /\ who' = [who EXCEPT ![h] = i]
    /\ given' = [given EXCEPT ![h] = c]
    /\ UNCHANGED <<row, expired, issued, mail, counter, handle, number, copy, history>>
RequestCode(h, i) == Arrive(h, i, NoCode, "issue")
\* The user has the code of the last mail, or mistypes it.
Register(h, i) == \E c \in {mail[i], NoCode} : Arrive(h, i, c, "find")

-----------------------------------------------------------------------------
(* consumeOrThrow, for the counter of assertVerificationCode                  *)

\* Faulty variant: the lifetime is set from the second attempt on.
IncrOnly(h) ==
    /\ pc[h] = "incr"
    /\ LET n == IF counter[who[h]].count > Limit THEN Limit + 1
                ELSE counter[who[h]].count + 1 IN
       /\ counter' = [counter EXCEPT ![who[h]].count = n]
       /\ number' = [number EXCEPT ![h] = n]
       /\ Goto(h, IF n > 1 THEN "pexpire" ELSE "check")
    /\ UNCHANGED <<row, expired, issued, mail, handle, who, given, copy, history>>

\* Counts beyond the limit make no difference.
Incr(h) ==
    /\ pc[h] = "incr"
    /\ LET n == IF counter[who[h]].count > Limit THEN Limit + 1
                ELSE counter[who[h]].count + 1 IN
       /\ counter' = [counter EXCEPT ![who[h]].count = n]
       /\ number' = [number EXCEPT ![h] = n]
       /\ Goto(h, IF n = 1 THEN "pexpire" ELSE "check")
    /\ UNCHANGED <<row, expired, issued, mail, handle, who, given, copy, history>>

\* On a counter that has gone PEXPIRE does nothing.
Pexpire(h) ==
    /\ pc[h] = "pexpire"
    /\ counter' = [counter EXCEPT ![who[h]].ttl = (counter[who[h]].count > 0)]
    /\ Goto(h, "check")
    /\ UNCHANGED <<row, expired, issued, mail, handle, who, given, number, copy, history>>

Check(h) ==
    /\ pc[h] = "check"
    /\ IF number[h] > Limit
       THEN Forget(h)
       ELSE /\ Goto(h, "row")
            /\ number' = [number EXCEPT ![h] = 0]
            /\ UNCHANGED <<who, given, copy>>
    /\ UNCHANGED <<row, expired, issued, mail, counter, handle, history>>

WindowEnds(i) ==
    /\ counter[i].ttl
    /\ counter' = [counter EXCEPT ![i] = Gone]
    /\ UNCHANGED <<row, expired, issued, mail, handle, locals, history>>

-----------------------------------------------------------------------------
(* requestCode                                                                *)

\* Faulty variant: the upsert leaves consumedAt as it is.
IssueCodeOnly(h) ==
    /\ pc[h] = "issue"
    /\ issued < MaxCodes
    /\ issued' = issued + 1
    /\ row' = [row EXCEPT ![who[h]].code = issued + 1]
    /\ given' = [given EXCEPT ![h] = issued + 1]
    /\ newest' = [newest EXCEPT ![who[h]] = issued + 1]
    /\ Goto(h, "reset")
    /\ UNCHANGED <<expired, mail, counter, handle, who, number, copy,
                   bought, twice, undone, wasted, stuck>>

\* The row is replaced, whatever it held.
IssueCode(h) ==
    /\ pc[h] = "issue"
    /\ issued < MaxCodes
    /\ issued' = issued + 1
    /\ row' = [row EXCEPT ![who[h]] = [code |-> issued + 1, used |-> FALSE]]
    /\ given' = [given EXCEPT ![h] = issued + 1]
    /\ newest' = [newest EXCEPT ![who[h]] = issued + 1]
    /\ Goto(h, "reset")
    /\ UNCHANGED <<expired, mail, counter, handle, who, number, copy,
                   bought, twice, undone, wasted, stuck>>

\* A new code comes with new attempts.
ResetAttempts(h) ==
    /\ pc[h] = "reset"
    /\ counter' = [counter EXCEPT ![who[h]] = Gone]
    /\ stuck' = stuck \ {who[h]}
    /\ Goto(h, "deliver")
    /\ UNCHANGED <<row, expired, issued, mail, handle, who, given, number, copy, newest,
                   bought, twice, undone, wasted>>

Deliver(h) ==
    /\ pc[h] = "deliver"
    /\ mail' = [mail EXCEPT ![who[h]] = given[h]]
    /\ Forget(h)
    /\ UNCHANGED <<row, expired, issued, counter, handle, history>>

CodeExpires(c) ==
    /\ \E i \in Identifiers : row[i].code = c
    /\ expired' = expired \cup {c}
    /\ UNCHANGED <<row, issued, mail, counter, handle, locals, history>>

-----------------------------------------------------------------------------
(* register                                                                   *)

FindUser(h) ==
    /\ pc[h] = "find"
    /\ IF handle[who[h]] # NoHandle
       THEN Forget(h)
       ELSE Goto(h, "incr") /\ UNCHANGED <<who, given, number, copy>>
    /\ UNCHANGED <<row, expired, issued, mail, counter, handle, history>>

\* There is a code, it has not expired, and it is the one that was typed in.
Matches(r, code) == r.code # NoCode /\ r.code \notin expired /\ r.code = code

\* Faulty variant: consumedAt is not looked at.
FindCodeUsed(h) ==
    /\ pc[h] = "row"
    /\ LET r == row[who[h]] IN
       IF Matches(r, given[h])
       THEN /\ copy' = [copy EXCEPT ![h] = r]
            /\ Goto(h, "save")
            /\ twice' = IF \E g \in Handlers : pc[g] = "save" /\ copy[g].code = r.code
                        THEN twice \cup {r.code} ELSE twice
            /\ UNCHANGED <<who, given, number>>
       ELSE Forget(h) /\ UNCHANGED twice
    /\ UNCHANGED <<row, expired, issued, mail, counter, handle, newest, bought, undone,
                   wasted, stuck>>

\* findVerificationCode; the verification of the hash follows, then the save.
FindCode(h) ==
    /\ pc[h] = "row"
    /\ LET r == row[who[h]] IN
       IF Matches(r, given[h]) /\ ~r.used
       THEN /\ copy' = [copy EXCEPT ![h] = r]
            /\ Goto(h, "save")
            /\ twice' = IF \E g \in Handlers : pc[g] = "save" /\ copy[g].code = r.code
                        THEN twice \cup {r.code} ELSE twice
            /\ UNCHANGED <<who, given, number>>
       ELSE Forget(h) /\ UNCHANGED twice
    /\ UNCHANGED <<row, expired, issued, mail, counter, handle, newest, bought, undone,
                   wasted, stuck>>

SaveConsumed(h) ==
    /\ pc[h] = "save"
    /\ row' = [row EXCEPT ![who[h]] = [copy[h] EXCEPT !.used = TRUE]]
    /\ undone' = IF row[who[h]].code = copy[h].code THEN undone
                 ELSE undone \cup {row[who[h]].code}
    /\ bought' = [bought EXCEPT ![copy[h].code] = @ + 1]
    /\ Goto(h, "handle")
    /\ UNCHANGED <<expired, issued, mail, counter, handle, who, given, number, copy,
                   newest, twice, wasted, stuck>>

Taken == {handle[i] : i \in Identifiers} \ {NoHandle}

\* buildUniqueHandle asks for one suffix after the other.
FindHandle(h) ==
    /\ pc[h] = "handle"
    /\ IF number[h] \notin Taken
       THEN Goto(h, "create") /\ UNCHANGED number
       ELSE number[h] < MaxSuffix /\ number' = [number EXCEPT ![h] = @ + 1] /\ UNCHANGED pc
    /\ UNCHANGED <<row, expired, issued, mail, counter, handle, who, given, copy, history>>

\* Faulty variant: a registration that finds its handle taken is dropped in
\* silence.
CreateUserTaken(h) ==
    /\ pc[h] = "create"
    /\ IF handle[who[h]] = NoHandle /\ number[h] \notin Taken
       THEN handle' = [handle EXCEPT ![who[h]] = number[h]]
       ELSE UNCHANGED handle
    /\ Forget(h)
    /\ UNCHANGED <<row, expired, issued, mail, counter, history>>

\* The row has to be unique by its identifier and by its handle: of two
\* registrations that found the same one free the second fails.
CreateUser(h) ==
    /\ pc[h] = "create"
    /\ IF handle[who[h]] = NoHandle /\ number[h] \notin Taken
       THEN handle' = [handle EXCEPT ![who[h]] = number[h]] /\ UNCHANGED wasted
       ELSE wasted' = wasted \cup {who[h]} /\ UNCHANGED handle
    /\ Forget(h)
    /\ UNCHANGED <<row, expired, issued, mail, counter, newest, bought, twice, undone, stuck>>

\* Any call fails, or the process dies: before PEXPIRE the counter stays for
\* ever, after the code is saved nobody creates the account.
Fail(h) ==
    /\ pc[h] \notin {"idle", "check"}
    /\ stuck' = IF pc[h] = "pexpire" THEN stuck \cup {who[h]} ELSE stuck
    /\ wasted' = IF pc[h] \in {"handle", "create"} THEN wasted \cup {who[h]} ELSE wasted
    /\ Forget(h)
    /\ UNCHANGED <<row, expired, issued, mail, counter, handle, newest, bought, twice, undone>>

-----------------------------------------------------------------------------
Handle(h) ==
    \/ Incr(h) \/ Pexpire(h) \/ Check(h)
    \/ IssueCode(h) \/ ResetAttempts(h) \/ Deliver(h)
    \/ FindUser(h) \/ FindCode(h) \/ SaveConsumed(h) \/ FindHandle(h) \/ CreateUser(h)

Next ==
    \/ \E h \in Handlers :
         \/ \E i \in Identifiers : RequestCode(h, i) \/ Register(h, i)
         \/ Handle(h)
         \/ Fail(h)
    \/ \E i \in Identifiers : WindowEnds(i)
    \/ \E c \in Codes : CodeExpires(c)

Spec == Init /\ [][Next]_vars

-----------------------------------------------------------------------------
(* Properties                                                                 *)

TypeOK ==
    /\ row \in [Identifiers -> Row]
    /\ expired \subseteq Codes
    /\ issued \in 0 .. MaxCodes
    /\ mail \in [Identifiers -> Codes \cup {NoCode}]
    /\ counter \in [Identifiers -> Counter]
    /\ handle \in [Identifiers -> 0 .. NoHandle]
    /\ pc \in [Handlers -> {"idle", "incr", "pexpire", "check", "issue", "reset", "deliver",
                            "find", "row", "save", "handle", "create"}]
    /\ who \in [Handlers -> Identifiers \cup {NoOne}]
    /\ given \in [Handlers -> Codes \cup {NoCode}]
    /\ number \in [Handlers -> Nat]
    /\ copy \in [Handlers -> Row]
    /\ \A h \in Handlers :
         /\ pc[h] = "idle" <=> who[h] = NoOne
         /\ pc[h] \in {"save", "handle", "create"} =>
                copy[h] = [code |-> given[h], used |-> FALSE]
    /\ newest \in [Identifiers -> Codes \cup {NoCode}]
    /\ bought \in [Codes -> Nat]
    /\ twice \subseteq Codes /\ undone \subseteq Codes
    /\ wasted \subseteq Identifiers
    /\ stuck \subseteq Identifiers

\* A counter ends by itself: it has a lifetime, or the handler that counted first
\* is about to give it one, unless that handler died (lines 31-35 of
\* rate-limit.service.ts).
CounterEnds ==
    \A i \in Identifiers :
        counter[i].count > 0 =>
            \/ counter[i].ttl
            \/ \E h \in Handlers : pc[h] = "pexpire" /\ who[h] = i
            \/ i \in stuck

\* A code is accepted once, unless two handlers had read it unused (lines 75 and
\* 103 of auth-verification-code.service.ts).
CodeIsAcceptedOnce == \A c \in Codes \ twice : bought[c] <= 1

\* The code of the last mail works, if it is the one that was issued last, until it
\* is accepted or a stale save puts an older row over it: mails that overtake each
\* other, codes whose mail failed and registrations with an older code do not
\* touch it (lines 44-66 and 103 of auth-verification-code.service.ts).
MailedCodeWorks ==
    \A i \in Identifiers :
        LET c == mail[i] IN
        c # NoCode /\ c = newest[i] /\ bought[c] = 0 /\ c \notin undone
            => row[i] = [code |-> c, used |-> FALSE]

\* A code that was accepted buys its account: it is there, or a handler is on
\* its way to create it, unless that handler failed or lost the handle to another
\* registration.
AcceptedBuysAccount ==
    \A i \in Identifiers :
        row[i].used =>
            \/ handle[i] # NoHandle
            \/ \E h \in Handlers : who[h] = i /\ pc[h] \in {"handle", "create"}
            \/ i \in wasted
=============================================================================
