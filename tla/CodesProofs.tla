----------------------------- MODULE CodesProofs -----------------------------
(* Machine-checked proofs about Codes, for any number of handlers, of         *)
(* identifiers, of codes and of suffixes, and any limit.                      *)
EXTENDS Codes, TLAPS

-----------------------------------------------------------------------------
(* The inductive invariant.                                                   *)

\* A handler that registers tries suffixes within the bound, and one that is
\* about to save has a code, and an identifier that has one.
WorkInv ==
    \A h \in Handlers :
        /\ pc[h] \in {"row", "save", "handle", "create"} => number[h] \in 0 .. MaxSuffix
        /\ pc[h] = "save" => copy[h].code \in Codes /\ row[who[h]].code \in Codes

\* A handler that has found a code is about to save it.
Saves(h, c) == pc[h] = "save" /\ copy[h].code = c

\* A code is at home with an identifier whose row holds it, or is about to.
Home(i, c) == row[i].code = c \/ \E h \in Handlers : who[h] = i /\ Saves(h, c)

\* Codes are numbered as they are issued, and no two identifiers share one.
HomeInv ==
    /\ \A i \in Identifiers, c \in Codes : Home(i, c) => c <= issued
    /\ \A i, j \in Identifiers, c \in Codes : Home(i, c) /\ Home(j, c) => i = j
    /\ \A c \in Codes : bought[c] > 0 => c <= issued

\* Unless two handlers had found it unused, a code is saved by one, and once
\* it was accepted nobody finds it unused any more.
OnceInv ==
    \A c \in Codes \ twice :
        /\ bought[c] <= 1
        /\ \A g, h \in Handlers : Saves(g, c) /\ Saves(h, c) => g = h
        /\ bought[c] > 0 =>
              /\ \A h \in Handlers : ~Saves(h, c)
              /\ \A i \in Identifiers : row[i].code = c => row[i].used

\* The code that was issued last is in its row, whether it was mailed or not.
NewestInv ==
    \A i \in Identifiers :
        LET c == newest[i] IN
        c # NoCode /\ bought[c] = 0 /\ c \notin undone
            => row[i] = [code |-> c, used |-> FALSE]

Inductive ==
    /\ TypeOK /\ WorkInv /\ HomeInv /\ OnceInv /\ NewestInv
    /\ CounterEnds /\ AcceptedBuysAccount

Steps == {"idle", "incr", "pexpire", "check", "issue", "reset", "deliver",
          "find", "row", "save", "handle", "create"}

LEMMA InitInductive == Init => Inductive
<1> SUFFICES ASSUME Init PROVE Inductive
  OBVIOUS
<1> USE IdentifierAssumption, NumberAssumption
<1>1. TypeOK
  BY DEF Init, TypeOK, Row, Unused, Codes, NoCode, NoHandle, Counter, Gone
<1>2. WorkInv /\ OnceInv /\ NewestInv
  BY DEF Init, WorkInv, OnceInv, NewestInv, Saves
<1>3. HomeInv
  BY DEF Init, HomeInv, Home, Saves, Unused, Codes, NoCode
<1>4. CounterEnds /\ AcceptedBuysAccount
  BY DEF Init, CounterEnds, AcceptedBuysAccount, Gone, Unused
<1>5. QED
  BY <1>1, <1>2, <1>3, <1>4 DEF Inductive

-----------------------------------------------------------------------------
(* Every step preserves the types.                                            *)

\* A handler that is over is one that has nothing in hand.
LEMMA ForgetKeepsTypes ==
  ASSUME TypeOK, NEW h \in Handlers, Forget(h)
  PROVE  /\ pc' \in [Handlers -> Steps]
         /\ who' \in [Handlers -> Identifiers \cup {NoOne}]
         /\ given' \in [Handlers -> Codes \cup {NoCode}]
         /\ number' \in [Handlers -> Nat]
         /\ copy' \in [Handlers -> Row]
         /\ \A g \in Handlers :
              /\ pc'[g] = "idle" <=> who'[g] = NoOne
              /\ pc'[g] \in {"save", "handle", "create"} =>
                     copy'[g] = [code |-> given'[g], used |-> FALSE]
BY DEF TypeOK, Forget, Goto, Row, Unused, Steps

\* A handler that goes on keeps its identifier, its code and its copy.
LEMMA GotoKeepsTypes ==
  ASSUME TypeOK, NEW h \in Handlers, NEW l \in Steps \ {"idle"}, Goto(h, l),
         pc[h] # "idle", l \in {"save", "handle", "create"} => pc[h] \in {"save", "handle", "create"},
         UNCHANGED <<who, given, copy>>
  PROVE  /\ pc' \in [Handlers -> Steps]
         /\ \A g \in Handlers :
              /\ pc'[g] = "idle" <=> who'[g] = NoOne
              /\ pc'[g] \in {"save", "handle", "create"} =>
                     copy'[g] = [code |-> given'[g], used |-> FALSE]
BY DEF TypeOK, Goto, Steps

LEMMA TypePreserved ==
  ASSUME TypeOK, WorkInv, [Next]_vars
  PROVE  TypeOK'
<1> USE IdentifierAssumption, NumberAssumption DEF Steps
<1>1. ASSUME NEW h \in Handlers, NEW i \in Identifiers, NEW c \in Codes \cup {NoCode},
             NEW l \in {"issue", "find"}, Arrive(h, i, c, l)
      PROVE  TypeOK'
  BY <1>1 DEF Arrive, Goto, TypeOK, history
<1>2. ASSUME NEW h \in Handlers, Incr(h) PROVE TypeOK'
  <2> DEFINE n == IF counter[who[h]].count > Limit THEN Limit + 1 ELSE counter[who[h]].count + 1
  <2>1. who[h] \in Identifiers /\ counter[who[h]] \in Counter /\ pc[h] = "incr"
    BY <1>2 DEF Incr, TypeOK
  <2>2. n \in 0 .. Limit + 1
    BY <2>1 DEF Counter
  <2>3. counter' = [counter EXCEPT ![who[h]].count = n] /\ number' = [number EXCEPT ![h] = n]
    BY <1>2 DEF Incr
  <2>4. counter' \in [Identifiers -> Counter] /\ number' \in [Handlers -> Nat]
    <3> HIDE DEF n
    <3>1. QED
      BY <2>1, <2>2, <2>3 DEF TypeOK, Counter
  <2>5. PICK l \in {"pexpire", "check"} : Goto(h, l)
    BY <1>2 DEF Incr
  <2>6. UNCHANGED <<row, expired, issued, mail, handle, who, given, copy, history>>
    BY <1>2 DEF Incr
  <2>7. QED
    BY <2>1, <2>4, <2>5, <2>6, GotoKeepsTypes DEF TypeOK, history
<1>3. ASSUME NEW h \in Handlers, Pexpire(h) PROVE TypeOK'
  <2>1. who[h] \in Identifiers /\ counter[who[h]] \in Counter /\ pc[h] = "pexpire"
    BY <1>3 DEF Pexpire, TypeOK
  <2>2. counter' \in [Identifiers -> Counter]
    <3>1. PICK b \in BOOLEAN : b = (counter[who[h]].count > 0)
      <4>1. (counter[who[h]].count > 0) \in BOOLEAN
        OBVIOUS
      <4>2. QED
        BY <4>1, Zenon
    <3>2. counter' = [counter EXCEPT ![who[h]].ttl = b]
      BY <1>3, <3>1, Zenon DEF Pexpire
    <3>3. [counter[who[h]] EXCEPT !.ttl = b] \in Counter
      BY <2>1 DEF Counter
    <3>4. QED
      BY <2>1, <3>2, <3>3 DEF TypeOK
  <2>3. Goto(h, "check")
    BY <1>3 DEF Pexpire
  <2>4. QED
    BY <1>3, <2>1, <2>2, <2>3, GotoKeepsTypes DEF Pexpire, TypeOK, history
<1>4. ASSUME NEW h \in Handlers, Check(h) PROVE TypeOK'
  <2>1. CASE Forget(h)
    BY <1>4, <2>1, ForgetKeepsTypes DEF Check, TypeOK, history
  <2>2. CASE ~Forget(h)
    <3>1. Goto(h, "row") /\ pc[h] = "check"
      BY <1>4, <2>2 DEF Check
    <3>2. QED
      BY <1>4, <2>2, <3>1, GotoKeepsTypes DEF Check, TypeOK, history
  <2>3. QED
    BY <2>1, <2>2
<1>5. ASSUME NEW i \in Identifiers, WindowEnds(i) PROVE TypeOK'
  BY <1>5 DEF WindowEnds, TypeOK, locals, history, Counter, Gone
<1>6. ASSUME NEW h \in Handlers, IssueCode(h) PROVE TypeOK'
  <2>1. issued + 1 \in Codes /\ issued' \in 0 .. MaxCodes /\ who[h] \in Identifiers
    BY <1>6 DEF IssueCode, TypeOK, Codes
  <2>2. QED
    BY <1>6, <2>1 DEF IssueCode, Goto, TypeOK, Row
<1>7. ASSUME NEW h \in Handlers, ResetAttempts(h) PROVE TypeOK'
  <2>1. Goto(h, "deliver") /\ pc[h] = "reset"
    BY <1>7 DEF ResetAttempts
  <2>2. QED
    BY <1>7, <2>1, GotoKeepsTypes DEF ResetAttempts, TypeOK, Counter, Gone
<1>8. ASSUME NEW h \in Handlers, Deliver(h) PROVE TypeOK'
  BY <1>8, ForgetKeepsTypes DEF Deliver, TypeOK, history
<1>9. ASSUME NEW c \in Codes, CodeExpires(c) PROVE TypeOK'
  BY <1>9 DEF CodeExpires, TypeOK, locals, history
<1>10. ASSUME NEW h \in Handlers, FindUser(h) PROVE TypeOK'
  <2>1. CASE Forget(h)
    BY <1>10, <2>1, ForgetKeepsTypes DEF FindUser, TypeOK, history
  <2>2. CASE ~Forget(h)
    BY <1>10, <2>2, GotoKeepsTypes DEF FindUser, TypeOK, history
  <2>3. QED
    BY <2>1, <2>2
<1>11. ASSUME NEW h \in Handlers, FindCode(h) PROVE TypeOK'
  <2>1. CASE Forget(h)
    <3>1. twice' \subseteq Codes
      BY <1>11 DEF FindCode, TypeOK, Row, Matches
    <3>2. QED
      BY <1>11, <2>1, <3>1, ForgetKeepsTypes DEF FindCode, TypeOK
  <2>2. CASE ~Forget(h)
    <3>1. /\ who[h] \in Identifiers /\ row[who[h]] \in Row /\ row[who[h]].code = given[h]
          /\ row[who[h]].used = FALSE /\ row[who[h]].code # NoCode
      BY <1>11, <2>2 DEF FindCode, TypeOK, Row, Matches
    <3>2. row[who[h]] = [code |-> given[h], used |-> FALSE]
      BY <3>1 DEF Row
    <3>3. twice' \subseteq Codes
      BY <1>11, <3>1 DEF FindCode, TypeOK, Row
    <3>4. QED
      BY <1>11, <2>2, <3>1, <3>2, <3>3 DEF FindCode, Goto, TypeOK
  <2>3. QED
    BY <2>1, <2>2
<1>12. ASSUME NEW h \in Handlers, SaveConsumed(h) PROVE TypeOK'
  <2>1. who[h] \in Identifiers /\ copy[h] \in Row /\ copy[h].code \in Codes
        /\ row[who[h]].code \in Codes /\ pc[h] = "save"
    BY <1>12 DEF SaveConsumed, TypeOK, WorkInv
  <2>2. row' \in [Identifiers -> Row]
    <3>1. [copy[h] EXCEPT !.used = TRUE] \in Row
      BY <2>1 DEF Row
    <3>2. QED
      BY <1>12, <2>1, <3>1 DEF SaveConsumed, TypeOK
  <2>3. undone' \subseteq Codes /\ bought' \in [Codes -> Nat]
    BY <1>12, <2>1 DEF SaveConsumed, TypeOK
  <2>4. Goto(h, "handle")
    BY <1>12 DEF SaveConsumed
  <2>5. QED
    BY <1>12, <2>1, <2>2, <2>3, <2>4, GotoKeepsTypes DEF SaveConsumed, TypeOK
<1>13. ASSUME NEW h \in Handlers, FindHandle(h) PROVE TypeOK'
  BY <1>13 DEF FindHandle, Goto, TypeOK, history
<1>14. ASSUME NEW h \in Handlers, CreateUser(h) PROVE TypeOK'
  <2>1. who[h] \in Identifiers /\ number[h] \in 0 .. NoHandle
    BY <1>14 DEF CreateUser, TypeOK, WorkInv, NoHandle
  <2>2. handle' \in [Identifiers -> 0 .. NoHandle] /\ wasted' \subseteq Identifiers
    BY <1>14, <2>1 DEF CreateUser, TypeOK
  <2>3. QED
    BY <1>14, <2>2, ForgetKeepsTypes DEF CreateUser, TypeOK
<1>15. ASSUME NEW h \in Handlers, Fail(h) PROVE TypeOK'
  <2>1. who[h] \in Identifiers
    BY <1>15 DEF Fail, TypeOK
  <2>2. stuck' \subseteq Identifiers /\ wasted' \subseteq Identifiers
    BY <1>15, <2>1 DEF Fail, TypeOK
  <2>3. QED
    BY <1>15, <2>2, ForgetKeepsTypes DEF Fail, TypeOK
<1>16. CASE UNCHANGED vars
  BY <1>16 DEF vars, locals, history, TypeOK
<1>17. QED
  <2>1. ASSUME NEW h \in Handlers, NEW i \in Identifiers, RequestCode(h, i) \/ Register(h, i)
        PROVE  TypeOK'
    BY <1>1, <2>1 DEF RequestCode, Register, TypeOK
  <2>2. QED
    BY <2>1, <1>2, <1>3, <1>4, <1>5, <1>6, <1>7, <1>8, <1>9, <1>10, <1>11, <1>12, <1>13, <1>14,
       <1>15, <1>16 DEF Next, Handle
-----------------------------------------------------------------------------
(* Every step preserves what a handler works with.                            *)

\* A row that holds a code holds one ever after.
LEMMA RowsAreKept ==
  ASSUME TypeOK, WorkInv, [Next]_vars, NEW i \in Identifiers, row[i].code \in Codes
  PROVE  row'[i].code \in Codes
<1> USE IdentifierAssumption, NumberAssumption
<1>1. ASSUME NEW h \in Handlers, IssueCode(h) PROVE row'[i].code \in Codes
  <2>1. issued + 1 \in Codes
    BY <1>1 DEF IssueCode, TypeOK, Codes
  <2>2. QED
    BY <1>1, <2>1 DEF IssueCode, TypeOK
<1>2. ASSUME NEW h \in Handlers, SaveConsumed(h) PROVE row'[i].code \in Codes
  <2>1. copy[h] \in Row /\ copy[h].code \in Codes
    BY <1>2 DEF SaveConsumed, TypeOK, WorkInv
  <2>2. [copy[h] EXCEPT !.used = TRUE].code = copy[h].code
    BY <2>1 DEF Row
  <2>3. QED
    BY <1>2, <2>1, <2>2 DEF SaveConsumed, TypeOK
<1>3. QED
  BY <1>1, <1>2 DEF Next, Handle, RequestCode, Register, Arrive, Incr, Pexpire, Check, WindowEnds,
     ResetAttempts, Deliver, CodeExpires, FindUser, FindCode, FindHandle, CreateUser, Fail, vars

\* Who is about to save was so before the step, or finds its code with it.
LEMMA SavesSince ==
  ASSUME TypeOK, [Next]_vars, NEW h \in Handlers, pc'[h] = "save"
  PROVE  (pc[h] = "save" /\ UNCHANGED <<copy[h], who[h]>>) \/ FindCode(h)
<1>1. ASSUME NEW g \in Handlers, Forget(g) PROVE g # h /\ UNCHANGED <<pc[h], copy[h], who[h]>>
  BY <1>1 DEF Forget, Goto, TypeOK
<1>2. ASSUME NEW g \in Handlers, FindCode(g), g # h PROVE UNCHANGED <<pc[h], copy[h], who[h]>>
  BY <1>1, <1>2 DEF FindCode, Goto, TypeOK
<1>3. ASSUME NEW g \in Handlers, NEW i \in Identifiers, RequestCode(g, i) \/ Register(g, i)
      PROVE  UNCHANGED <<pc[h], copy[h], who[h]>>
  BY <1>3 DEF RequestCode, Register, Arrive, Goto, TypeOK
<1>4. ASSUME NEW g \in Handlers, Check(g) \/ FindUser(g) \/ FindHandle(g)
      PROVE  UNCHANGED <<pc[h], copy[h], who[h]>>
  BY <1>1, <1>4 DEF Check, FindUser, FindHandle, Goto, TypeOK
<1>5. ASSUME NEW g \in Handlers,
             Incr(g) \/ Pexpire(g) \/ IssueCode(g) \/ ResetAttempts(g) \/ SaveConsumed(g)
      PROVE  UNCHANGED <<pc[h], copy[h], who[h]>>
  BY <1>5 DEF Incr, Pexpire, IssueCode, ResetAttempts, SaveConsumed, Goto, TypeOK
<1>6. ASSUME NEW g \in Handlers, Deliver(g) \/ CreateUser(g) \/ Fail(g)
      PROVE  UNCHANGED <<pc[h], copy[h], who[h]>>
  BY <1>1, <1>6 DEF Deliver, CreateUser, Fail
<1>7. ASSUME UNCHANGED locals PROVE UNCHANGED <<pc[h], copy[h], who[h]>>
  BY <1>7 DEF locals
<1>8. QED
  BY <1>2, <1>3, <1>4, <1>5, <1>6, <1>7 DEF Next, Handle, WindowEnds, CodeExpires, vars

LEMMA WorkPreserved ==
  ASSUME TypeOK, WorkInv, [Next]_vars
  PROVE  WorkInv'
<1> USE IdentifierAssumption, NumberAssumption
<1> DEFINE Number(h) == pc[h] \in {"row", "save", "handle", "create"} => number[h] \in 0 .. MaxSuffix
           Found(h) == pc[h] = "save" => copy[h].code \in Codes /\ row[who[h]].code \in Codes
<1>1. \A h \in Handlers : Number(h)'
  <2>1. ASSUME NEW h \in Handlers, Forget(h) PROVE \A g \in Handlers : Number(g)'
    BY <2>1 DEF Forget, Goto, TypeOK, WorkInv
  <2>2. ASSUME NEW h \in Handlers, NEW i \in Identifiers, RequestCode(h, i) \/ Register(h, i)
        PROVE  \A g \in Handlers : Number(g)'
    BY <2>2 DEF RequestCode, Register, Arrive, Goto, TypeOK, WorkInv
  <2>3. ASSUME NEW h \in Handlers, Incr(h) PROVE \A g \in Handlers : Number(g)'
    BY <2>3 DEF Incr, Goto, TypeOK, WorkInv
  <2>4. ASSUME NEW h \in Handlers, Check(h) PROVE \A g \in Handlers : Number(g)'
    BY <2>1, <2>4 DEF Check, Goto, TypeOK, WorkInv
  <2>5. ASSUME NEW h \in Handlers,
               Pexpire(h) \/ IssueCode(h) \/ ResetAttempts(h) \/ FindCode(h) \/ SaveConsumed(h)
        PROVE  \A g \in Handlers : Number(g)'
    BY <2>1, <2>5 DEF Pexpire, IssueCode, ResetAttempts, FindCode, SaveConsumed, Goto, TypeOK, WorkInv
  <2>6. ASSUME NEW h \in Handlers, FindUser(h) PROVE \A g \in Handlers : Number(g)'
    BY <2>1, <2>6 DEF FindUser, Goto, TypeOK, WorkInv
  <2>7. ASSUME NEW h \in Handlers, FindHandle(h) PROVE \A g \in Handlers : Number(g)'
    BY <2>7 DEF FindHandle, Goto, TypeOK, WorkInv
  <2>8. ASSUME NEW h \in Handlers, Deliver(h) \/ CreateUser(h) \/ Fail(h)
        PROVE  \A g \in Handlers : Number(g)'
    BY <2>1, <2>8 DEF Deliver, CreateUser, Fail
  <2>9. ASSUME UNCHANGED locals PROVE \A g \in Handlers : Number(g)'
    BY <2>9 DEF locals, WorkInv
  <2>10. QED
    BY <2>2, <2>3, <2>4, <2>5, <2>6, <2>7, <2>8, <2>9 DEF Next, Handle, WindowEnds, CodeExpires, vars
<1>2. ASSUME NEW h \in Handlers, pc'[h] = "save" PROVE copy'[h].code \in Codes /\ row'[who'[h]].code \in Codes
  <2>1. CASE pc[h] = "save" /\ UNCHANGED <<copy[h], who[h]>>
    <3>1. who[h] \in Identifiers
      BY <2>1 DEF TypeOK
    <3>2. QED
      BY <2>1, <3>1, RowsAreKept DEF WorkInv
  <2>2. CASE FindCode(h)
    <3>1. who[h] \in Identifiers /\ row[who[h]] \in Row /\ row[who[h]].code # NoCode
          /\ copy'[h] = row[who[h]] /\ who' = who /\ row' = row
      BY <1>2, <2>2 DEF FindCode, Forget, Goto, TypeOK, Matches
    <3>2. QED
      BY <3>1 DEF Row
  <2>3. QED
    BY <1>2, <2>1, <2>2, SavesSince
<1>3. QED
  BY <1>1, <1>2 DEF WorkInv

-----------------------------------------------------------------------------
(* Every step preserves where a code is at home.                              *)

\* The rows are written by two actions only, and what was accepted by one.
LEMMA RowsStay ==
  ASSUME TypeOK, [Next]_vars
  PROVE  \/ \E h \in Handlers : IssueCode(h)
         \/ \E h \in Handlers : SaveConsumed(h)
         \/ UNCHANGED <<row, issued, newest, bought, undone>>
BY DEF Next, Handle, RequestCode, Register, Arrive, Incr, Pexpire, Check, WindowEnds,
   ResetAttempts, Deliver, CodeExpires, FindUser, FindCode, FindHandle, CreateUser, Fail, vars,
   history

\* What the save of an accepted code writes.
LEMMA SavedRow ==
  ASSUME TypeOK, WorkInv, NEW h \in Handlers, SaveConsumed(h)
  PROVE  /\ pc[h] = "save" /\ who[h] \in Identifiers /\ copy[h].code \in Codes
         /\ row'[who[h]].code = copy[h].code /\ row'[who[h]].used
         /\ \A i \in Identifiers \ {who[h]} : row'[i] = row[i]
         /\ bought' = [bought EXCEPT ![copy[h].code] = @ + 1]
         /\ UNCHANGED <<issued, newest, twice>>
         /\ ~ Saves(h, copy[h].code)'
<1> USE IdentifierAssumption, NumberAssumption
<1>1. pc[h] = "save" /\ who[h] \in Identifiers /\ copy[h] \in Row /\ copy[h].code \in Codes
  BY DEF SaveConsumed, TypeOK, WorkInv
<1>2. row' = [row EXCEPT ![who[h]] = [copy[h] EXCEPT !.used = TRUE]]
  BY DEF SaveConsumed
<1>3. row'[who[h]] = [copy[h] EXCEPT !.used = TRUE]
  BY <1>1, <1>2 DEF TypeOK
<1>4. row'[who[h]].code = copy[h].code /\ row'[who[h]].used
  BY <1>1, <1>3 DEF Row
<1>5. pc'[h] = "handle"
  BY DEF SaveConsumed, Goto, TypeOK
<1>6. QED
  BY <1>1, <1>2, <1>4, <1>5 DEF SaveConsumed, Saves, TypeOK

\* Unless a code is issued with the step, it was at home before.
LEMMA HomeSince ==
  ASSUME TypeOK, WorkInv, [Next]_vars, NEW i \in Identifiers, NEW c \in Codes, Home(i, c)'
  PROVE  \/ Home(i, c)
         \/ \E h \in Handlers : IssueCode(h) /\ who[h] = i /\ c = issued + 1
<1> USE IdentifierAssumption, NumberAssumption
<1>1. ASSUME NEW h \in Handlers, who'[h] = i, Saves(h, c)' PROVE Home(i, c)
  <2>1. CASE pc[h] = "save" /\ UNCHANGED <<copy[h], who[h]>>
    BY <1>1, <2>1 DEF Home, Saves
  <2>2. CASE FindCode(h)
    <3>1. copy'[h] = row[who[h]] /\ who'[h] = who[h]
      BY <1>1, <2>2 DEF FindCode, Forget, Goto, TypeOK, Saves
    <3>2. QED
      BY <1>1, <3>1 DEF Home, Saves
  <2>3. QED
    BY <1>1, <2>1, <2>2, SavesSince DEF Saves
<1>2. ASSUME row'[i].code = c
      PROVE  Home(i, c) \/ \E h \in Handlers : IssueCode(h) /\ who[h] = i /\ c = issued + 1
  <2>1. ASSUME NEW h \in Handlers, IssueCode(h)
        PROVE  Home(i, c) \/ (who[h] = i /\ c = issued + 1)
    <3>1. who[h] \in Identifiers
      BY <2>1 DEF IssueCode, TypeOK
    <3>2. QED
      BY <1>2, <2>1, <3>1 DEF IssueCode, TypeOK, Home
  <2>2. ASSUME NEW h \in Handlers, SaveConsumed(h) PROVE Home(i, c)
    BY <1>2, <2>2, SavedRow DEF TypeOK, Home, Saves
  <2>3. CASE UNCHANGED row
    BY <1>2, <2>3 DEF Home
  <2>4. QED
    BY <2>1, <2>2, <2>3, RowsStay
<1>3. QED
  BY <1>1, <1>2 DEF Home

LEMMA HomePreserved ==
  ASSUME TypeOK, WorkInv, HomeInv, [Next]_vars
  PROVE  HomeInv'
<1> USE IdentifierAssumption, NumberAssumption
<1>1. issued \in Nat /\ issued' \in Nat /\ issued <= issued'
  BY RowsStay, SavedRow DEF TypeOK, IssueCode
<1>2. ASSUME NEW h \in Handlers, IssueCode(h) PROVE issued' = issued + 1
  BY <1>2 DEF IssueCode
<1>3. ASSUME NEW i \in Identifiers, NEW c \in Codes, Home(i, c)' PROVE c <= issued'
  BY <1>1, <1>2, <1>3, HomeSince DEF HomeInv, Codes
<1>4. ASSUME NEW i \in Identifiers, NEW j \in Identifiers, NEW c \in Codes, Home(i, c)', Home(j, c)'
      PROVE  i = j
  <2>1. CASE Home(i, c) /\ Home(j, c)
    BY <2>1 DEF HomeInv
  \* A code that is issued was nowhere at home, and one handler issues it.
  <2>2. CASE \E h \in Handlers : IssueCode(h) /\ c = issued + 1
    <3>1. ~ Home(i, c) /\ ~ Home(j, c)
      BY <1>1, <2>2 DEF HomeInv
    <3>2. PICK g \in Handlers : IssueCode(g) /\ who[g] = i
      BY <1>4, <3>1, HomeSince
    <3>3. PICK h \in Handlers : IssueCode(h) /\ who[h] = j
      BY <1>4, <3>1, HomeSince
    <3>4. pc[g] = "issue" /\ pc'[g] = "reset" /\ pc[h] = "issue" /\ pc'[h] = "reset"
      BY <3>2, <3>3 DEF IssueCode, Goto, TypeOK
    <3>5. g = h
      BY <3>2, <3>3, <3>4 DEF IssueCode, Goto, TypeOK
    <3>6. QED
      BY <3>2, <3>3, <3>5
  <2>3. QED
    BY <1>4, <2>1, <2>2, HomeSince
<1>5. ASSUME NEW c \in Codes, bought'[c] > 0 PROVE c <= issued'
  <2>0. (bought[c] > 0 => c <= issued) /\ c \in Nat
    BY DEF HomeInv, Codes
  <2>1. CASE UNCHANGED bought
    BY <1>1, <1>5, <2>0, <2>1
  <2>2. ASSUME NEW h \in Handlers, SaveConsumed(h) PROVE c <= issued'
    <3>1. CASE c = copy[h].code
      <4>1. who[h] \in Identifiers /\ Home(who[h], c)
        BY <2>2, <3>1, SavedRow DEF Home, Saves
      <4>2. c <= issued
        BY <4>1 DEF HomeInv
      <4>3. QED
        BY <1>1, <2>0, <4>2
    <3>2. CASE c # copy[h].code
      BY <1>1, <1>5, <2>0, <2>2, <3>2, SavedRow DEF TypeOK
    <3>3. QED
      BY <3>1, <3>2
  <2>3. QED
    BY <2>1, <2>2, RowsStay DEF IssueCode
<1>6. QED
  BY <1>3, <1>4, <1>5 DEF HomeInv

-----------------------------------------------------------------------------
(* Every step preserves that a code is accepted once.                         *)

LEMMA OncePreserved ==
  ASSUME TypeOK, WorkInv, HomeInv, OnceInv, [Next]_vars
  PROVE  OnceInv'
<1> USE IdentifierAssumption, NumberAssumption
<1> DEFINE Once(c) ==
             /\ bought[c] <= 1
             /\ \A g, h \in Handlers : Saves(g, c) /\ Saves(h, c) => g = h
             /\ bought[c] > 0 =>
                   /\ \A h \in Handlers : ~Saves(h, c)
                   /\ \A i \in Identifiers : row[i].code = c => row[i].used
<1>0. /\ twice \subseteq twice'
      /\ \A c \in Codes \ twice : Once(c)
  <2>1. twice \subseteq twice'
    BY DEF Next, Handle, RequestCode, Register, Arrive, Incr, Pexpire, Check, WindowEnds, IssueCode,
       ResetAttempts, Deliver, CodeExpires, FindUser, FindCode, SaveConsumed, FindHandle,
       CreateUser, Fail, vars, history
  <2>2. QED
    BY <2>1 DEF OnceInv
<1>1. ASSUME NEW c \in Codes \ twice' PROVE Once(c)'
  <2>0. Once(c) /\ bought[c] \in Nat
    BY <1>0, <1>1 DEF TypeOK
  \* Who finds the code finds it unused, and nobody else about to save it.
  <2>1. ASSUME NEW h \in Handlers, Saves(h, c)', ~ Saves(h, c)
        PROVE  bought[c] = 0 /\ FindCode(h) /\ \A g \in Handlers : ~ Saves(g, c)
    <3>1. FindCode(h)
      BY <2>1, SavesSince DEF Saves
    <3>2. /\ who[h] \in Identifiers /\ row[who[h]].code = c /\ ~ row[who[h]].used
          /\ \A g \in Handlers : ~ (pc[g] = "save" /\ copy[g].code = c)
      BY <1>1, <2>1, <3>1 DEF FindCode, Forget, Goto, TypeOK, Saves
    <3>3. QED
      BY <2>0, <3>1, <3>2 DEF Saves
  <2>2. CASE UNCHANGED <<row, bought>>
    <3>1. ASSUME NEW g \in Handlers, NEW h \in Handlers, Saves(g, c)', Saves(h, c)' PROVE g = h
      <4>1. CASE Saves(g, c) /\ Saves(h, c)
        BY <2>0, <4>1
      <4>2. CASE ~ Saves(g, c)
        <5>1. pc[g] = "row" /\ (FindCode(h) => pc'[g] = pc[g] \/ g = h)
          BY <2>1, <3>1, <4>2 DEF FindCode, Forget, Goto, TypeOK
        <5>2. ~ Saves(h, c)
          BY <2>1, <3>1, <4>2
        <5>3. QED
          BY <2>1, <3>1, <5>1, <5>2 DEF Saves
      <4>3. CASE ~ Saves(h, c)
        <5>1. pc[h] = "row" /\ (FindCode(g) => pc'[h] = pc[h] \/ g = h)
          BY <2>1, <3>1, <4>3 DEF FindCode, Forget, Goto, TypeOK
        <5>2. ~ Saves(g, c)
          BY <2>1, <3>1, <4>3
        <5>3. QED
          BY <2>1, <3>1, <5>1, <5>2 DEF Saves
      <4>4. QED
        BY <4>1, <4>2, <4>3
    <3>2. QED
      BY <2>0, <2>1, <2>2, <3>1
  \* A code that is issued is new.
  <2>3. ASSUME NEW h \in Handlers, IssueCode(h) PROVE Once(c)'
    <3>1. \A g \in Handlers : Saves(g, c)' => Saves(g, c)
      BY <2>3, SavesSince DEF IssueCode, Goto, TypeOK, Saves, FindCode
    <3>2. bought' = bought
      BY <2>3 DEF IssueCode
    <3>3. ASSUME NEW i \in Identifiers, row'[i].code = c, ~ row'[i].used PROVE bought[c] = 0
      <4>1. CASE row'[i] = row[i]
        BY <2>0, <3>3, <4>1
      <4>2. CASE row'[i] # row[i]
        <5>1. c = issued + 1
          BY <2>3, <3>3, <4>2 DEF IssueCode, TypeOK
        <5>2. QED
          BY <2>0, <5>1 DEF HomeInv, TypeOK
      <4>3. QED
        BY <4>1, <4>2
    <3>4. QED
      BY <2>0, <3>1, <3>2, <3>3
  \* The code that is accepted was in no other hand, and is in no other row.
  <2>4. ASSUME NEW h \in Handlers, SaveConsumed(h) PROVE Once(c)'
    <3>1. \A g \in Handlers : Saves(g, c)' => Saves(g, c) /\ g # h
      BY <2>4, SavesSince DEF SaveConsumed, Goto, TypeOK, Saves, FindCode
    <3>2. CASE c = copy[h].code
      <4>1. Saves(h, c) /\ \A g \in Handlers : ~ Saves(g, c)'
        BY <2>0, <2>4, <3>1, <3>2, SavedRow DEF Saves
      <4>2. bought[c] = 0 /\ bought'[c] = 1
        BY <2>0, <2>4, <3>2, <4>1, SavedRow DEF TypeOK
      <4>3. ASSUME NEW i \in Identifiers, row'[i].code = c PROVE row'[i].used
        <5>1. CASE i = who[h]
          BY <2>4, <5>1, SavedRow DEF TypeOK
        <5>2. CASE i # who[h]
          <6>1. Home(i, c) /\ Home(who[h], c) /\ who[h] \in Identifiers
            BY <2>4, <4>1, <4>3, <5>2, SavedRow DEF Home, TypeOK
          <6>2. QED
            BY <5>2, <6>1 DEF HomeInv
        <5>3. QED
          BY <5>1, <5>2
      <4>4. QED
        BY <4>1, <4>2, <4>3
    <3>3. CASE c # copy[h].code
      <4>1. bought'[c] = bought[c]
        BY <2>4, <3>3, SavedRow DEF TypeOK
      <4>2. \A i \in Identifiers : row'[i].code = c => row'[i] = row[i]
        BY <2>4, <3>3, SavedRow DEF TypeOK
      <4>3. QED
        BY <2>0, <3>1, <4>1, <4>2
    <3>4. QED
      BY <3>2, <3>3
  <2>5. QED
    BY <2>2, <2>3, <2>4, RowsStay
<1>2. QED
  BY <1>1 DEF OnceInv

-----------------------------------------------------------------------------
(* Every step preserves that the newest code is in its row.                   *)

LEMMA NewestPreserved ==
  ASSUME TypeOK, WorkInv, NewestInv, [Next]_vars
  PROVE  NewestInv'
<1> USE IdentifierAssumption, NumberAssumption
<1> SUFFICES ASSUME NEW i \in Identifiers, newest'[i] # NoCode, bought'[newest'[i]] = 0,
                    newest'[i] \notin undone'
             PROVE  row'[i] = [code |-> newest'[i], used |-> FALSE]
  BY DEF NewestInv
<1>1. ASSUME NEW h \in Handlers, IssueCode(h)
      PROVE  row'[i] = [code |-> newest'[i], used |-> FALSE]
  BY <1>1 DEF IssueCode, TypeOK, NewestInv
<1>2. ASSUME NEW h \in Handlers, SaveConsumed(h)
      PROVE  row'[i] = [code |-> newest'[i], used |-> FALSE]
  <2> DEFINE c == newest[i]
  <2>1. c \in Codes /\ newest' = newest
    BY <1>2, SavedRow DEF TypeOK
  <2>2. bought[c] = 0 /\ c # copy[h].code
    BY <1>2, <2>1, SavedRow DEF TypeOK
  <2>3. c \notin undone /\ (row[who[h]].code # c \/ row[who[h]].code = copy[h].code)
    BY <1>2, <2>1 DEF SaveConsumed
  <2>4. row[i] = [code |-> c, used |-> FALSE]
    <3>1. c # NoCode /\ bought[c] = 0 /\ c \notin undone
               => row[i] = [code |-> c, used |-> FALSE]
      BY Zenon DEF NewestInv
    <3>2. QED
      BY <2>1, <2>2, <2>3, <3>1
  <2>5. who[h] # i
    BY <2>2, <2>3, <2>4
  <2>6. row'[i] = row[i]
    BY <1>2, <2>5, SavedRow
  <2>7. QED
    BY <2>1, <2>4, <2>6
<1>3. CASE UNCHANGED <<row, newest, bought, undone>>
  BY <1>3 DEF NewestInv
<1>4. QED
  BY <1>1, <1>2, <1>3, RowsStay

-----------------------------------------------------------------------------
(* Every step preserves that a counter ends.                                  *)

LEMMA CounterPreserved ==
  ASSUME TypeOK, CounterEnds, [Next]_vars
  PROVE  CounterEnds'
<1> USE IdentifierAssumption, NumberAssumption
<1> SUFFICES ASSUME NEW i \in Identifiers, counter'[i].count > 0, ~ counter'[i].ttl, i \notin stuck'
             PROVE  \E h \in Handlers : pc'[h] = "pexpire" /\ who'[h] = i
  BY DEF CounterEnds
<1> DEFINE Waits(h) == pc[h] = "pexpire" /\ who[h] = i
<1>0. counter[i].count > 0 /\ ~ counter[i].ttl /\ i \notin stuck => \E h \in Handlers : Waits(h)
  BY DEF CounterEnds
\* The first count makes its handler set the lifetime; of a later one the first is known.
<1>1. ASSUME NEW h \in Handlers, Incr(h) PROVE \E g \in Handlers : Waits(g)'
  <2>1. who[h] \in Identifiers /\ counter[who[h]] \in Counter /\ pc[h] = "incr" /\ counter[i] \in Counter
    BY <1>1 DEF Incr, TypeOK
  <2>2. stuck' = stuck /\ who' = who /\ counter'[i].ttl = counter[i].ttl
    BY <1>1, <2>1 DEF Incr, TypeOK, history, Counter
  <2>3. CASE who[h] = i /\ counter[i].count = 0
    <3>1. pc'[h] = "pexpire"
      BY <1>1, <2>1, <2>3 DEF Incr, Goto, TypeOK, Counter
    <3>2. QED
      BY <2>2, <2>3, <3>1
  <2>4. CASE ~ (who[h] = i /\ counter[i].count = 0)
    <3>1. counter[i].count > 0
      BY <1>1, <2>1, <2>4 DEF Incr, TypeOK, Counter
    <3>2. PICK g \in Handlers : Waits(g)
      BY <1>0, <2>2, <3>1
    <3>3. g # h /\ pc'[g] = pc[g]
      BY <1>1, <2>1, <3>2 DEF Incr, Goto, TypeOK
    <3>4. QED
      BY <2>2, <3>2, <3>3
  <2>5. QED
    BY <2>3, <2>4
<1>2. ASSUME NEW h \in Handlers, Pexpire(h) PROVE \E g \in Handlers : Waits(g)'
  <2>1. who[h] \in Identifiers /\ counter[who[h]] \in Counter /\ pc[h] = "pexpire" /\ counter[i] \in Counter
    BY <1>2 DEF Pexpire, TypeOK
  <2>2. who[h] # i /\ counter'[i] = counter[i]
    BY <1>2, <2>1 DEF Pexpire, TypeOK, Counter
  <2>3. PICK g \in Handlers : Waits(g)
    BY <1>0, <1>2, <2>2 DEF Pexpire, history
  <2>4. QED
    BY <1>2, <2>2, <2>3 DEF Pexpire, Goto, TypeOK
<1>3. ASSUME NEW j \in Identifiers, WindowEnds(j) PROVE \E g \in Handlers : Waits(g)'
  BY <1>0, <1>3 DEF WindowEnds, TypeOK, Gone, locals, history
<1>4. ASSUME NEW h \in Handlers, ResetAttempts(h) PROVE \E g \in Handlers : Waits(g)'
  <2>1. who[h] # i /\ counter'[i] = counter[i] /\ i \notin stuck
    BY <1>4 DEF ResetAttempts, TypeOK, Gone
  <2>2. QED
    BY <1>0, <1>4, <2>1 DEF ResetAttempts, Goto, TypeOK
\* A handler that dies before it sets the lifetime is remembered.
<1>5. ASSUME NEW h \in Handlers, Fail(h) PROVE \E g \in Handlers : Waits(g)'
  <2>1. PICK g \in Handlers : Waits(g)
    BY <1>0, <1>5 DEF Fail
  <2>2. g # h
    BY <1>5, <2>1 DEF Fail
  <2>3. QED
    BY <1>5, <2>1, <2>2 DEF Fail, Forget, Goto, TypeOK
\* The rest leaves the counter alone, and is of handlers that have no lifetime to set.
<1>6. ASSUME UNCHANGED <<counter, stuck>>, \A g \in Handlers : Waits(g) => UNCHANGED <<pc[g], who[g]>>
      PROVE  \E g \in Handlers : Waits(g)'
  BY <1>0, <1>6
<1>7. ASSUME NEW h \in Handlers, NEW j \in Identifiers, RequestCode(h, j) \/ Register(h, j)
      PROVE  \E g \in Handlers : Waits(g)'
  BY <1>0, <1>7 DEF RequestCode, Register, Arrive, Goto, TypeOK, history
<1>8. ASSUME NEW h \in Handlers, Check(h) \/ FindUser(h) PROVE \E g \in Handlers : Waits(g)'
  BY <1>6, <1>8 DEF Check, FindUser, Forget, Goto, TypeOK, history
<1>9. ASSUME NEW h \in Handlers, IssueCode(h) \/ Deliver(h) PROVE \E g \in Handlers : Waits(g)'
  BY <1>6, <1>9 DEF IssueCode, Deliver, Forget, Goto, TypeOK, history
<1>10. ASSUME NEW h \in Handlers, FindCode(h) \/ SaveConsumed(h) PROVE \E g \in Handlers : Waits(g)'
  BY <1>6, <1>10 DEF FindCode, SaveConsumed, Forget, Goto, TypeOK
<1>11. ASSUME NEW h \in Handlers, FindHandle(h) \/ CreateUser(h) PROVE \E g \in Handlers : Waits(g)'
  BY <1>6, <1>11 DEF FindHandle, CreateUser, Forget, Goto, TypeOK, history
<1>12. ASSUME UNCHANGED <<counter, locals, history>> PROVE \E g \in Handlers : Waits(g)'
  BY <1>6, <1>12 DEF locals, history
<1>13. QED
  BY <1>1, <1>2, <1>3, <1>4, <1>5, <1>7, <1>8, <1>9, <1>10, <1>11, <1>12
     DEF Next, Handle, CodeExpires, vars

-----------------------------------------------------------------------------
(* Every step preserves that an accepted code buys its account.               *)

LEMMA AccountPreserved ==
  ASSUME TypeOK, WorkInv, AcceptedBuysAccount, [Next]_vars
  PROVE  AcceptedBuysAccount'
<1> USE IdentifierAssumption, NumberAssumption
<1> SUFFICES ASSUME NEW i \in Identifiers, row'[i].used, handle'[i] = NoHandle, i \notin wasted'
             PROVE  \E h \in Handlers : who'[h] = i /\ pc'[h] \in {"handle", "create"}
  BY DEF AcceptedBuysAccount
<1> DEFINE Creates(h) == who[h] = i /\ pc[h] \in {"handle", "create"}
<1>0. row[i].used /\ handle[i] = NoHandle /\ i \notin wasted => \E h \in Handlers : Creates(h)
  BY DEF AcceptedBuysAccount
<1>1. ASSUME NEW h \in Handlers, SaveConsumed(h) PROVE \E g \in Handlers : Creates(g)'
  <2>1. CASE who[h] = i
    BY <1>1, <2>1 DEF SaveConsumed, Goto, TypeOK
  <2>2. CASE who[h] # i
    <3>1. row'[i] = row[i]
      BY <1>1, <2>2, SavedRow DEF TypeOK
    <3>2. QED
      BY <1>0, <1>1, <3>1 DEF SaveConsumed, Goto, TypeOK
  <2>3. QED
    BY <2>1, <2>2
<1>2. ASSUME NEW h \in Handlers, IssueCode(h) PROVE \E g \in Handlers : Creates(g)'
  <2>1. row'[i] = row[i]
    BY <1>2 DEF IssueCode, TypeOK
  <2>2. QED
    BY <1>0, <1>2, <2>1 DEF IssueCode, Goto, TypeOK, history
\* A registration that ends has made the account, or its code was wasted.
<1>3. ASSUME NEW h \in Handlers, CreateUser(h) PROVE \E g \in Handlers : Creates(g)'
  <2>1. who[h] # i
    BY <1>3 DEF CreateUser, TypeOK, WorkInv, NoHandle
  <2>2. handle[i] = NoHandle /\ i \notin wasted /\ row' = row
    BY <1>3, <2>1 DEF CreateUser, TypeOK
  <2>3. PICK g \in Handlers : Creates(g)
    BY <1>0, <2>2
  <2>4. QED
    BY <1>3, <2>1, <2>3 DEF CreateUser, Forget, Goto, TypeOK
<1>4. ASSUME NEW h \in Handlers, Fail(h) PROVE \E g \in Handlers : Creates(g)'
  <2>1. PICK g \in Handlers : Creates(g)
    BY <1>0, <1>4 DEF Fail
  <2>2. g # h
    BY <1>4, <2>1 DEF Fail
  <2>3. QED
    BY <1>4, <2>1, <2>2 DEF Fail, Forget, Goto, TypeOK
<1>5. ASSUME NEW h \in Handlers, FindHandle(h) PROVE \E g \in Handlers : Creates(g)'
  BY <1>0, <1>5 DEF FindHandle, Goto, TypeOK, history
<1>6. ASSUME UNCHANGED <<row, handle, wasted>>,
             \A g \in Handlers : Creates(g) => UNCHANGED <<pc[g], who[g]>>
      PROVE  \E g \in Handlers : Creates(g)'
  BY <1>0, <1>6
<1>7. ASSUME NEW h \in Handlers, NEW j \in Identifiers, RequestCode(h, j) \/ Register(h, j)
      PROVE  \E g \in Handlers : Creates(g)'
  BY <1>0, <1>7 DEF RequestCode, Register, Arrive, Goto, TypeOK, history
<1>8. ASSUME NEW h \in Handlers, Incr(h) \/ Pexpire(h) \/ ResetAttempts(h) PROVE \E g \in Handlers : Creates(g)'
  BY <1>6, <1>8 DEF Incr, Pexpire, ResetAttempts, Goto, TypeOK, history
<1>9. ASSUME NEW h \in Handlers, Check(h) \/ FindUser(h) PROVE \E g \in Handlers : Creates(g)'
  BY <1>6, <1>9 DEF Check, FindUser, Forget, Goto, TypeOK, history
<1>10. ASSUME NEW h \in Handlers, Deliver(h) \/ FindCode(h) PROVE \E g \in Handlers : Creates(g)'
  BY <1>6, <1>10 DEF Deliver, FindCode, Forget, Goto, TypeOK, history
<1>11. ASSUME UNCHANGED <<row, handle, locals, history>> PROVE \E g \in Handlers : Creates(g)'
  BY <1>6, <1>11 DEF locals, history
<1>12. QED
  BY <1>1, <1>2, <1>3, <1>4, <1>5, <1>7, <1>8, <1>9, <1>10, <1>11
     DEF Next, Handle, WindowEnds, CodeExpires, vars

-----------------------------------------------------------------------------
(* The theorems.                                                              *)

LEMMA Invariance == Spec => []Inductive
<1>1. Inductive /\ [Next]_vars => Inductive'
  BY TypePreserved, WorkPreserved, HomePreserved, OncePreserved, NewestPreserved,
     CounterPreserved, AccountPreserved DEF Inductive
<1>2. QED
  BY <1>1, InitInductive, PTL DEF Spec

\* The rows, the counters and the handlers keep their types.
THEOREM TypeCorrect == Spec => []TypeOK
BY Invariance, PTL DEF Inductive

\* However many requests overlap, the counter of an identifier has a lifetime,
\* or its first attempt is about to set it, unless that one failed before it did
\* (lines 31-35 of rate-limit.service.ts).
THEOREM CountersEnd == Spec => []CounterEnds
BY Invariance, PTL DEF Inductive

\* A code that no two requests had read unused at once is accepted once at most,
\* however many codes are issued and whatever a stale save puts back (lines 75
\* and 103 of auth-verification-code.service.ts).
THEOREM CodesAreAcceptedOnce == Spec => []CodeIsAcceptedOnce
<1>1. Inductive => CodeIsAcceptedOnce
  BY DEF Inductive, OnceInv, CodeIsAcceptedOnce
<1>2. QED
  BY <1>1, Invariance, PTL

\* In whatever order the mails arrive, the code that was issued last is found in
\* its row when it is typed in, until it is accepted or a stale save overwrites it
\* (line 103 of auth-verification-code.service.ts).
THEOREM MailedCodesWork == Spec => []MailedCodeWorks
<1>1. Inductive => MailedCodeWorks
  BY DEF Inductive, NewestInv, MailedCodeWorks
<1>2. QED
  BY <1>1, Invariance, PTL

\* However many registrations compete for the handles, an accepted code has made
\* its account, or its request still goes on to, or failed.
THEOREM AcceptedBuyAccounts == Spec => []AcceptedBuysAccount
BY Invariance, PTL DEF Inductive
=============================================================================
