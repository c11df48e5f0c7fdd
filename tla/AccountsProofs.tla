--------------------------- MODULE AccountsProofs ---------------------------
(* Theorems about Accounts: what a revocation, a reset, a ban and a refresh   *)
(* promise, for any number of handlers that overlap, sessions, passwords and  *)
(* nonces.                                                                    *)
EXTENDS Accounts, TLAPS

RowTypes ==
    /\ account \in Account
    /\ session \in [Sessions -> Session]
    /\ room \subseteq Sessions
    /\ device \in [Sessions -> Nat]
    /\ issued \in Nat

LocalTypes ==
    /\ pc \in [Requests -> Locations]
    /\ op \in [Requests -> Operations]
    /\ self \in [Requests -> Sessions \cup {NoSession}]
    /\ held \in [Requests -> Nat]
    /\ copy \in [Requests -> Account]
    /\ victims \in [Requests -> SUBSET Sessions]
    /\ listed \in [Requests -> SUBSET Sessions]

HistoryTypes ==
    /\ born \in [Sessions -> Nat]
    /\ lost \subseteq Sessions
    /\ ended \subseteq Sessions
    /\ resetTo \in Nat
    /\ banned \in BOOLEAN
    /\ crossed \subseteq Sessions /\ raced \subseteq Sessions /\ slipped \subseteq Sessions
    /\ undone \in BOOLEAN

\* What a request is about, at the places where that matters.
AboutInv ==
    \A r \in Requests :
       /\ pc[r] \in {"session", "user", "save", "join", "answer", "revoke", "disconnect"} =>
             self[r] \in Sessions
       /\ pc[r] \in {"session", "user", "save"} => op[r] \in Guarded \cup {"refresh"}
       /\ pc[r] = "account" => op[r] \in {"profile", "login", "reset", "ban"}
       /\ pc[r] = "list" => op[r] \in {"reset", "ban"}
       /\ pc[r] = "find" => op[r] \in {"revoke", "kick"}
       /\ pc[r] \in {"revoke", "disconnect"} => self[r] \in victims[r]
       /\ op[r] = "refresh" => pc[r] \in {"session", "user", "save", "answer"}

\* A session that somebody works on has been opened.
OpenedInv ==
    /\ \A s \in Sessions : device[s] # 0 => session[s].state # "none"
    /\ \A r \in Requests :
          /\ pc[r] \in {"session", "user", "save", "join", "answer", "revoke", "disconnect"} =>
                session[self[r]].state # "none"
          /\ \A s \in victims[r] \cup listed[r] : session[s].state # "none"

\* What a handler has read of a session is what its row holds, unless a revocation
\* or a refresh crossed it; what it has revoked stays so.
SessionCopyInv ==
    \A r \in Requests : self[r] \notin crossed =>
       /\ pc[r] \in {"user", "save", "join"} => session[self[r]].state = "active"
       /\ pc[r] \in {"user", "save"} /\ self[r] \notin raced => held[r] = session[self[r]].nonce
       /\ pc[r] = "disconnect" => session[self[r]].state = "revoked"

\* The sessions a handler has done with are over.
VictimInv ==
    \A r \in Requests :
       \A s \in listed[r] \ (victims[r] \cup crossed) : session[s].state = "revoked" /\ s \notin room

\* What a login, a reset and a ban have read of the user row, before a save.
UserCopyInv ==
    \A r \in Requests :
       /\ pc[r] = "create" => held[r] = copy[r].password /\ ~copy[r].disabled
       /\ pc[r] \in {"list", "take", "revoke", "disconnect"} /\ op[r] = "reset" /\ ~undone =>
             copy[r].password <= account.password

Revoking == {"take", "revoke", "disconnect"}

\* The sessions a reset or a ban has to end.
Bound == Active \ (crossed \cup slipped)

\* A ban that has listed the sessions misses none of them.
BanInv ==
    \A r \in Requests : op[r] = "ban" /\ ~undone =>
       /\ pc[r] \in Revoking \cup {"saveUser"} => Bound \subseteq victims[r]
       /\ pc[r] \in Revoking => account.disabled

\* A reset that has listed them misses none that was opened with an older password.
ResetInv ==
    /\ ~undone => resetTo <= account.password
    /\ \A r \in Requests : op[r] = "reset" /\ pc[r] \in Revoking /\ ~undone =>
          \A s \in Bound \ victims[r] : born[s] >= copy[r].password

\* Nobody has a nonce that was not issued.
IssuedInv ==
    /\ \A s \in Sessions : device[s] <= issued /\ session[s].nonce <= issued
    /\ \A r \in Requests :
          pc[r] \in {"session", "user", "save", "revoke", "answer"} => held[r] <= issued

\* Sessions whose nonces nothing has crossed.
Clean == Active \ (crossed \cup raced)

\* An answer on its way is the only one for its session, and who refreshes the
\* session meanwhile does it with an old nonce.
AnswerInv ==
    \A r \in Requests : pc[r] = "answer" /\ self[r] \in Clean =>
       /\ held[r] = session[self[r]].nonce /\ device[self[r]] < held[r]
       /\ \A q \in Requests \ {r} : self[q] = self[r] =>
             /\ pc[q] # "answer"
             /\ op[q] = "refresh" => pc[q] = "session" /\ held[q] < held[r]

Inductive ==
    /\ TypeOK
    /\ AboutInv /\ OpenedInv
    /\ SessionCopyInv /\ VictimInv /\ UserCopyInv /\ BanInv /\ ResetInv
    /\ IssuedInv /\ AnswerInv
    /\ RevokedIsOver /\ ResetEndsOldSessions /\ BanIsFinal /\ DeviceCanRefresh

LEMMA TypesSplit == TypeOK <=> RowTypes /\ LocalTypes /\ HistoryTypes
BY DEF TypeOK, RowTypes, LocalTypes, HistoryTypes

LEMMA InitInductive == Init => Inductive
<1> SUFFICES ASSUME Init PROVE Inductive
  OBVIOUS
<1>1. RowTypes /\ HistoryTypes
  BY BoundAssumption DEF Init, RowTypes, HistoryTypes, Account, Session
<1>2. LocalTypes
  BY DEF Init, LocalTypes, Account, Locations, Operations, Guarded
<1>3. AboutInv /\ SessionCopyInv /\ UserCopyInv /\ VictimInv
  BY DEF Init, AboutInv, SessionCopyInv, UserCopyInv, VictimInv
<1>4. Active = {}
  BY DEF Init, Active
<1>5. OpenedInv /\ BanInv /\ AnswerInv
  BY <1>4 DEF Init, OpenedInv, BanInv, AnswerInv, Revoking
<1>6. ResetInv /\ IssuedInv
  BY DEF Init, ResetInv, IssuedInv, Revoking
<1>7. RevokedIsOver /\ ResetEndsOldSessions /\ BanIsFinal /\ DeviceCanRefresh
  BY <1>4 DEF Init, RevokedIsOver, ResetEndsOldSessions, BanIsFinal, DeviceCanRefresh
<1>8. QED
  BY <1>1, <1>2, <1>3, <1>5, <1>6, <1>7, TypesSplit DEF Inductive

-----------------------------------------------------------------------------
(* Every step preserves the types, however many handlers run.                 *)

LEMMA ForgetTypes ==
  ASSUME LocalTypes, NEW r \in Requests, Forget(r)
  PROVE  LocalTypes'
BY DEF Forget, Goto, LocalTypes, Account, Locations, Operations, Guarded

LEMMA AfterGuardTypes ==
  ASSUME NEW o \in (Guarded \cup {"refresh"}) \ {"touch"}
  PROVE  AfterGuard(o) \in {"account", "find", "take", "join", "answer"}
BY DEF AfterGuard, Guarded

LEMMA ChangedTypes ==
  ASSUME LocalTypes, NEW r \in Requests
  PROVE  /\ Changed(r) \in Account
         /\ op[r] = "reset" => Changed(r).password = copy[r].password + 1
         /\ op[r] # "reset" => Changed(r).password = copy[r].password
         /\ op[r] = "ban" => Changed(r).disabled = TRUE
         /\ op[r] # "ban" => Changed(r).disabled = copy[r].disabled
<1>1. copy[r] \in Account
  BY DEF LocalTypes
<1>2. CASE op[r] = "reset"
  <2>1. Changed(r) = [copy[r] EXCEPT !.password = @ + 1, !.disabled = @]
    BY <1>2 DEF Changed
  <2>2. ASSUME NEW c \in Account
        PROVE  /\ [c EXCEPT !.password = @ + 1, !.disabled = @] \in Account
               /\ [c EXCEPT !.password = @ + 1, !.disabled = @].password = c.password + 1
               /\ [c EXCEPT !.password = @ + 1, !.disabled = @].disabled = c.disabled
    <3>1. c.password + 1 \in Nat /\ c.disabled \in BOOLEAN
      BY DEF Account
    <3>2. QED
      BY <3>1 DEF Account
  <2>3. QED
    BY <1>1, <1>2, <2>1, <2>2
<1>3. CASE op[r] = "ban"
  <2>1. Changed(r) = [copy[r] EXCEPT !.password = @, !.disabled = TRUE]
    BY <1>3 DEF Changed
  <2>2. QED
    BY <1>1, <1>3, <2>1 DEF Account
<1>4. CASE op[r] \notin {"reset", "ban"}
  <2>1. Changed(r) = [copy[r] EXCEPT !.password = @, !.disabled = @]
    BY <1>4 DEF Changed
  <2>2. QED
    BY <1>1, <1>4, <2>1 DEF Account
<1>5. QED
  BY <1>2, <1>3, <1>4

LEMMA LocalTypesPreserved ==
  ASSUME RowTypes, LocalTypes, AboutInv, [Next]_vars
  PROVE  LocalTypes'
<1>1. ASSUME NEW r \in Requests, NEW o \in Operations, NEW s \in Sessions, DeviceCalls(r, o, s)
      PROVE  LocalTypes'
  BY <1>1 DEF DeviceCalls, Goto, LocalTypes, RowTypes, Locations
<1>2. ASSUME NEW r \in Requests, NEW o \in Operations, AccountCalls(r, o) PROVE LocalTypes'
  BY <1>2 DEF AccountCalls, Goto, LocalTypes, RowTypes, Locations, Account
<1>3. ASSUME NEW r \in Requests, Answer(r) \/ Join(r) \/ Finish(r) \/ Fail(r) PROVE LocalTypes'
  BY <1>3, ForgetTypes DEF Answer, Join, Finish, Fail
<1>4. ASSUME NEW r \in Requests, ReadSession(r) \/ ReadUser(r) PROVE LocalTypes'
  <2>1. CASE Forget(r)
    BY <2>1, ForgetTypes
  <2>2. CASE ~Forget(r)
    BY <1>4, <2>2 DEF ReadSession, ReadUser, locals, Goto, LocalTypes, RowTypes, Session, Locations, AboutInv
  <2>3. QED
    BY <2>1, <2>2
<1>5. ASSUME NEW r \in Requests, SaveSession(r) PROVE LocalTypes'
  <2>1. CASE op[r] = "touch"
    BY <1>5, <2>1, ForgetTypes DEF SaveSession
  <2>2. CASE op[r] # "touch"
    <3>1. AfterGuard(op[r]) \in Locations
      BY <1>5, <2>2, AfterGuardTypes DEF SaveSession, AboutInv, Locations
    <3>2. QED
      BY <1>5, <2>2, <3>1 DEF SaveSession, ToRevoke, Goto, LocalTypes, RowTypes, AboutInv
  <2>3. QED
    BY <2>1, <2>2
<1>6. ASSUME NEW r \in Requests, ReadAccount(r) PROVE LocalTypes'
  <2>1. CASE Forget(r)
    BY <2>1, ForgetTypes
  <2>2. CASE ~Forget(r)
    BY <1>6, <2>2 DEF ReadAccount, Goto, LocalTypes, RowTypes, Locations, AboutInv
  <2>3. QED
    BY <2>1, <2>2
<1>7. ASSUME NEW r \in Requests, CreateSession(r) PROVE LocalTypes'
  BY <1>7 DEF CreateSession, Goto, LocalTypes, RowTypes, Locations
<1>8. ASSUME NEW r \in Requests, SaveUser(r) PROVE LocalTypes'
  <2>1. CASE Forget(r)
    BY <2>1, ForgetTypes
  <2>2. CASE ~Forget(r)
    BY <1>8, <2>2, ChangedTypes DEF SaveUser, Goto, LocalTypes, Locations
  <2>3. QED
    BY <2>1, <2>2
<1>9. ASSUME NEW r \in Requests, List(r) PROVE LocalTypes'
  BY <1>9 DEF List, ToRevoke, Goto, LocalTypes, Locations, Active
<1>10. ASSUME NEW r \in Requests, Find(r) PROVE LocalTypes'
  <2>1. CASE Forget(r)
    BY <2>1, ForgetTypes
  <2>2. CASE ~Forget(r)
    BY <1>10, <2>2 DEF Find, ToRevoke, Goto, LocalTypes, Locations
  <2>3. QED
    BY <2>1, <2>2
<1>11. ASSUME NEW r \in Requests, Take(r) \/ Revoke(r) \/ DisconnectSession(r) PROVE LocalTypes'
  <2>1. CASE Take(r)
    <3>1. PICK s \in victims[r] :
             /\ self' = [self EXCEPT ![r] = s]
             /\ held' = [held EXCEPT ![r] = session[s].nonce]
             /\ Goto(r, IF session[s].state = "active" THEN "revoke" ELSE "disconnect")
      BY <2>1 DEF Take
    <3>2. s \in Sessions /\ session[s].nonce \in Nat
      BY DEF LocalTypes, RowTypes, Session
    <3>3. QED
      BY <2>1, <3>1, <3>2 DEF Take, Goto, LocalTypes, Locations
  <2>2. CASE Revoke(r) \/ DisconnectSession(r)
    BY <2>2 DEF Revoke, DisconnectSession, Withdraw, locals, Goto, LocalTypes, Locations
  <2>3. QED
    BY <1>11, <2>1, <2>2
<1>12. ASSUME NEW s \in Sessions, Disconnect(s) PROVE LocalTypes'
  BY <1>12 DEF Disconnect, locals, LocalTypes
<1>13. CASE UNCHANGED vars
  BY <1>13 DEF vars, locals, LocalTypes
<1>14. QED
  BY <1>1, <1>2, <1>3, <1>4, <1>5, <1>6, <1>7, <1>8, <1>9, <1>10, <1>11, <1>12, <1>13
  DEF Next, Handle

LEMMA RowTypesPreserved ==
  ASSUME RowTypes, LocalTypes, AboutInv, [Next]_vars
  PROVE  RowTypes'
<1> USE DEF RowTypes
<1>1. ASSUME NEW r \in Requests, Answer(r) \/ Join(r) PROVE RowTypes'
  BY <1>1 DEF Answer, Join, rows, LocalTypes, AboutInv
<1>2. ASSUME NEW r \in Requests, SaveSession(r) PROVE RowTypes'
  <2>1. held[r] \in Nat /\ issued' \in Nat
    BY <1>2 DEF SaveSession, LocalTypes
  <2>2. session' \in [Sessions -> Session]
    BY <1>2, <2>1 DEF SaveSession, Session
  <2>3. QED
    BY <1>2, <2>1, <2>2 DEF SaveSession
<1>3. ASSUME NEW r \in Requests, CreateSession(r) PROVE RowTypes'
  BY <1>3 DEF CreateSession, Opened, Session
<1>4. ASSUME NEW r \in Requests, SaveUser(r) PROVE RowTypes'
  BY <1>4, ChangedTypes DEF SaveUser
<1>5. ASSUME NEW r \in Requests, Revoke(r) PROVE RowTypes'
  <2>1. held[r] \in Nat
    BY DEF LocalTypes
  <2>2. session' \in [Sessions -> Session]
    BY <1>5, <2>1 DEF Revoke, Session
  <2>3. QED
    BY <1>5, <2>2 DEF Revoke
<1>6. ASSUME NEW r \in Requests, DisconnectSession(r) PROVE RowTypes'
  BY <1>6 DEF DisconnectSession, rows
<1>7. ASSUME NEW s \in Sessions, Disconnect(s) PROVE RowTypes'
  BY <1>7 DEF Disconnect, rows
<1>8. ASSUME UNCHANGED <<rows, room, device>> PROVE RowTypes'
  BY <1>8 DEF rows
<1>9. ASSUME NEW r \in Requests,
             \/ \E o \in Operations, s \in Sessions : DeviceCalls(r, o, s)
             \/ \E o \in Operations : AccountCalls(r, o)
             \/ ReadSession(r) \/ ReadUser(r) \/ ReadAccount(r) \/ List(r) \/ Find(r)
             \/ Take(r) \/ Finish(r) \/ Fail(r)
      PROVE  UNCHANGED <<rows, room, device>>
  BY <1>9 DEF DeviceCalls, AccountCalls, ReadSession, ReadUser, ReadAccount, List, Find, Take, Finish, Fail
<1>10. CASE UNCHANGED vars
  BY <1>8, <1>10 DEF vars
<1>11. QED
  BY <1>1, <1>2, <1>3, <1>4, <1>5, <1>6, <1>7, <1>8, <1>9, <1>10 DEF Next, Handle

LEMMA HistoryTypesPreserved ==
  ASSUME LocalTypes, HistoryTypes, AboutInv, [Next]_vars
  PROVE  HistoryTypes'
<1> USE DEF HistoryTypes
<1>1. ASSUME NEW r \in Requests, CreateSession(r) PROVE HistoryTypes'
  BY <1>1 DEF CreateSession, LocalTypes
<1>2. ASSUME NEW r \in Requests, Finish(r) PROVE HistoryTypes'
  <2>1. banned' \in BOOLEAN
    BY <1>2, Zenon DEF Finish
  <2>2. copy[r].password \in Nat
    BY DEF LocalTypes, Account
  <2>3. /\ UNCHANGED <<born, lost, crossed, raced, slipped, undone>>
        /\ ended' \subseteq Sessions /\ resetTo' \in Nat
    BY <1>2, <2>2 DEF Finish, LocalTypes
  <2>4. QED
    BY <2>1, <2>3
<1>3. ASSUME NEW r \in Requests, Fail(r) PROVE HistoryTypes'
  BY <1>3 DEF Fail, AboutInv
<1>4. ASSUME NEW r \in Requests, SaveSession(r) PROVE HistoryTypes'
  BY <1>4 DEF SaveSession, AboutInv
<1>5. ASSUME NEW r \in Requests, SaveUser(r) PROVE HistoryTypes'
  <2>1. undone' \in BOOLEAN
    BY <1>5, Zenon DEF SaveUser
  <2>2. QED
    BY <1>5, <2>1 DEF SaveUser
<1>6. ASSUME NEW r \in Requests, Revoke(r) PROVE HistoryTypes'
  BY <1>6 DEF Revoke, AboutInv
<1>7. ASSUME UNCHANGED history PROVE HistoryTypes'
  BY <1>7 DEF history
<1>8. ASSUME NEW r \in Requests,
             \/ \E o \in Operations, s \in Sessions : DeviceCalls(r, o, s)
             \/ \E o \in Operations : AccountCalls(r, o)
             \/ ReadSession(r) \/ ReadUser(r) \/ Answer(r) \/ Join(r)
             \/ ReadAccount(r) \/ List(r) \/ Find(r) \/ Take(r) \/ DisconnectSession(r)
      PROVE  UNCHANGED history
  BY <1>8 DEF DeviceCalls, AccountCalls, ReadSession, ReadUser, Answer, Join, ReadAccount,
     List, Find, Take, DisconnectSession
<1>9. ASSUME NEW s \in Sessions, Disconnect(s) PROVE UNCHANGED history
  BY <1>9 DEF Disconnect
<1>10. CASE UNCHANGED vars
  BY <1>7, <1>10 DEF vars
<1>11. QED
  BY <1>1, <1>2, <1>3, <1>4, <1>5, <1>6, <1>7, <1>8, <1>9, <1>10 DEF Next, Handle

\* What the steps of a handler know of what they are about.
LEMMA AboutPreserved ==
  ASSUME RowTypes, LocalTypes, AboutInv, [Next]_vars
  PROVE  AboutInv'
<1> USE DEF AboutInv, Goto, LocalTypes
<1>1. ASSUME NEW r \in Requests, Forget(r) PROVE AboutInv'
  BY <1>1 DEF Forget
<1>2. ASSUME NEW r \in Requests, NEW o \in Operations, NEW s \in Sessions, DeviceCalls(r, o, s)
      PROVE  AboutInv'
  BY <1>2 DEF DeviceCalls
<1>3. ASSUME NEW r \in Requests, NEW o \in Operations, AccountCalls(r, o) PROVE AboutInv'
  BY <1>3 DEF AccountCalls
<1>4. ASSUME NEW r \in Requests, ReadSession(r) \/ ReadUser(r) \/ ReadAccount(r) \/ Find(r), ~Forget(r)
      PROVE  AboutInv'
  <2>1. CASE ReadSession(r) \/ ReadUser(r)
    BY <1>4, <2>1 DEF ReadSession, ReadUser, locals
  <2>2. CASE ReadAccount(r)
    BY <1>4, <2>2 DEF ReadAccount
  <2>3. CASE Find(r)
    BY <1>4, <2>3 DEF Find, ToRevoke
  <2>4. QED
    BY <1>4, <2>1, <2>2, <2>3
<1>5. ASSUME NEW r \in Requests, SaveSession(r), op[r] # "touch" PROVE AboutInv'
  <2>1. op[r] \in (Guarded \cup {"refresh"}) \ {"touch"}
    BY <1>5 DEF SaveSession
  <2>2. /\ AfterGuard(op[r]) = "account" => op[r] = "profile"
        /\ AfterGuard(op[r]) = "find" => op[r] = "revoke"
        /\ AfterGuard(op[r]) \in {"join", "answer"} => self'[r] = self[r]
        /\ op[r] = "refresh" => AfterGuard(op[r]) = "answer"
    BY <1>5, <2>1 DEF AfterGuard, Guarded, SaveSession
  <2>3. QED
    BY <1>5, <2>1, <2>2, AfterGuardTypes DEF SaveSession, ToRevoke
<1>6. ASSUME NEW r \in Requests, CreateSession(r) \/ List(r) PROVE AboutInv'
  BY <1>6 DEF CreateSession, List, ToRevoke
<1>7. ASSUME NEW r \in Requests, SaveUser(r), ~Forget(r) PROVE AboutInv'
  BY <1>7 DEF SaveUser
<1>8. ASSUME NEW r \in Requests, Take(r) \/ Revoke(r) \/ DisconnectSession(r) PROVE AboutInv'
  BY <1>8 DEF Take, Revoke, DisconnectSession, Withdraw, locals
<1>9. ASSUME NEW s \in Sessions, Disconnect(s) PROVE AboutInv'
  BY <1>9 DEF Disconnect, locals
<1>10. CASE UNCHANGED vars
  BY <1>10 DEF vars, locals
<1>11. ASSUME NEW r \in Requests, Answer(r) \/ Join(r) \/ Finish(r) \/ Fail(r) PROVE Forget(r)
  BY <1>11 DEF Answer, Join, Finish, Fail
<1>12. ASSUME NEW r \in Requests, SaveSession(r), op[r] = "touch" PROVE Forget(r)
  BY <1>12 DEF SaveSession
<1>13. QED
  BY <1>1, <1>2, <1>3, <1>4, <1>5, <1>6, <1>7, <1>8, <1>9, <1>10, <1>11, <1>12 DEF Next, Handle

-----------------------------------------------------------------------------
(* What a step does, in the words the invariants need.                        *)

Step(r) ==
    \/ \E o \in Operations, s \in Sessions : DeviceCalls(r, o, s)
    \/ \E o \in Operations : AccountCalls(r, o)
    \/ Handle(r) \/ Fail(r)

LEMMA Steps ==
  ASSUME [Next]_vars
  PROVE  \/ \E r \in Requests : Step(r)
         \/ \E s \in Sessions : Disconnect(s)
         \/ UNCHANGED vars
BY DEF Next, Step

\* A request does not touch what another one holds.
LEMMA OthersStay ==
  ASSUME LocalTypes, NEW r \in Requests, Step(r), NEW q \in Requests \ {r}
  PROVE  /\ pc'[q] = pc[q] /\ op'[q] = op[q] /\ self'[q] = self[q] /\ held'[q] = held[q]
         /\ copy'[q] = copy[q] /\ victims'[q] = victims[q] /\ listed'[q] = listed[q]
<1> USE DEF Goto, LocalTypes
<1>1. CASE Forget(r)
  BY <1>1 DEF Forget
<1>2. CASE (\E o \in Operations, s \in Sessions : DeviceCalls(r, o, s)) \/ (\E o \in Operations : AccountCalls(r, o))
  BY <1>2 DEF DeviceCalls, AccountCalls
<1>3. CASE (ReadSession(r) \/ ReadUser(r) \/ ReadAccount(r) \/ Find(r)) /\ ~Forget(r)
  BY <1>3 DEF ReadSession, ReadUser, ReadAccount, Find, ToRevoke, locals
<1>4. CASE SaveSession(r) /\ ~Forget(r)
  BY <1>4 DEF SaveSession, ToRevoke
<1>5. CASE (SaveUser(r) /\ ~Forget(r)) \/ CreateSession(r) \/ List(r)
  BY <1>5 DEF SaveUser, CreateSession, List, ToRevoke
<1>6. CASE Take(r) \/ Revoke(r) \/ DisconnectSession(r)
  BY <1>6 DEF Take, Revoke, DisconnectSession, Withdraw, locals
<1>7. ASSUME Answer(r) \/ Join(r) \/ Finish(r) \/ Fail(r) PROVE Forget(r)
  BY <1>7 DEF Answer, Join, Finish, Fail
<1>8. QED
  BY <1>1, <1>2, <1>3, <1>4, <1>5, <1>6, <1>7 DEF Step, Handle

\* A request that is over holds nothing.
LEMMA Forgotten ==
  ASSUME LocalTypes, NEW r \in Requests, Forget(r)
  PROVE  /\ pc'[r] = "idle" /\ op'[r] = "touch" /\ self'[r] = NoSession
         /\ victims'[r] = {} /\ listed'[r] = {}
BY DEF Forget, Goto, LocalTypes

\* The rows of sessions change when one is saved, opened or revoked.
Rests(r) == ~SaveSession(r) /\ ~CreateSession(r) /\ ~Revoke(r)

LEMMA SessionsRest ==
  ASSUME NEW r \in Requests, Step(r), Rests(r)
  PROVE  UNCHANGED <<session, issued, born, crossed, raced, slipped>>
BY DEF Step, Handle, Rests, DeviceCalls, AccountCalls, ReadSession, ReadUser, Answer, Join, ReadAccount,
   SaveUser, List, Find, Take, DisconnectSession, Finish, Fail, rows, history

LEMMA DisconnectRests ==
  ASSUME NEW s \in Sessions, Disconnect(s)
  PROVE  /\ UNCHANGED <<account, session, issued, device, pc, op, self, held, copy, victims, listed>>
         /\ UNCHANGED <<born, lost, ended, resetTo, banned, crossed, raced, slipped, undone>>
         /\ room' \subseteq room
BY DEF Disconnect, rows, locals, history

LEMMA StutterRests ==
  ASSUME UNCHANGED vars
  PROVE  /\ UNCHANGED <<account, session, issued, device, pc, op, self, held, copy, victims, listed>>
         /\ UNCHANGED <<born, lost, ended, resetTo, banned, crossed, raced, slipped, undone>>
         /\ room' \subseteq room
BY DEF vars, rows, locals, history

LEMMA Saved ==
  ASSUME RowTypes, LocalTypes, AboutInv, NEW r \in Requests, SaveSession(r)
  PROVE  /\ pc[r] = "save" /\ self[r] \in Sessions
         /\ \A s \in Sessions \ {self[r]} : session'[s] = session[s]
         /\ session'[self[r]].state = "active"
         /\ session'[self[r]].nonce = IF op[r] = "refresh" THEN issued + 1 ELSE held[r]
         /\ issued' = IF op[r] = "refresh" THEN issued + 1 ELSE issued
         /\ raced' = IF op[r] = "refresh" /\ Using(self[r], {"user", "save"}) # {r}
                     THEN raced \cup {self[r]} ELSE raced
         /\ UNCHANGED <<account, room, device, born, lost, ended, resetTo, banned, crossed, slipped, undone>>
<1>1. pc[r] = "save" /\ self[r] \in Sessions
  BY DEF SaveSession, AboutInv
<1>2. QED
  BY <1>1 DEF SaveSession, RowTypes

\* What a request holds after it has saved a session.
LEMMA SavedLocals ==
  ASSUME LocalTypes, AboutInv, NEW r \in Requests, SaveSession(r)
  PROVE  /\ pc'[r] \in {"idle", "account", "find", "take", "join", "answer"}
         /\ pc'[r] = "join" => self'[r] = self[r]
         /\ pc'[r] = "answer" => op[r] = "refresh" /\ op'[r] = op[r] /\ self'[r] = self[r] /\ held'[r] = issued + 1
         /\ op[r] = "refresh" => pc'[r] = "answer"
         /\ pc'[r] = "take" => op'[r] = "logout"
         /\ victims'[r] = listed'[r] /\ victims'[r] \subseteq {self[r]}
         /\ op'[r] \in {"touch", op[r]}
<1>1. CASE op[r] = "touch"
  <2>1. Forget(r)
    BY <1>1 DEF SaveSession
  <2>2. QED
    BY <1>1, <2>1, Forgotten
<1>2. CASE op[r] # "touch"
  <2>1. op[r] \in (Guarded \cup {"refresh"}) \ {"touch"}
    BY <1>2 DEF SaveSession, AboutInv
  <2>2. /\ AfterGuard(op[r]) \in {"account", "find", "take", "join", "answer"}
        /\ AfterGuard(op[r]) = "join" => op[r] = "connect"
        /\ AfterGuard(op[r]) = "answer" <=> op[r] = "refresh"
        /\ AfterGuard(op[r]) = "take" => op[r] = "logout"
    BY <2>1 DEF AfterGuard, Guarded
  <2>3. /\ pc'[r] = AfterGuard(op[r]) /\ op' = op
        /\ victims'[r] = listed'[r] /\ victims'[r] \subseteq {self[r]}
        /\ op[r] \in {"refresh", "connect"} => self'[r] = self[r]
        /\ op[r] = "refresh" => held'[r] = issued + 1
    BY <1>2 DEF SaveSession, ToRevoke, Goto, LocalTypes
  <2>4. QED
    BY <2>2, <2>3
<1>3. QED
  BY <1>1, <1>2

LEMMA Created ==
  ASSUME RowTypes, LocalTypes, HistoryTypes, NEW r \in Requests, CreateSession(r)
  PROVE  /\ pc[r] = "create" /\ pc'[r] = "answer" /\ issued' = issued + 1
         /\ op'[r] = op[r] /\ held'[r] = issued + 1 /\ self'[r] \in Sessions
         /\ UNCHANGED <<victims, listed, copy, op>>
         /\ session[self'[r]].state = "none"
         /\ session'[self'[r]] = Opened(issued + 1)
         /\ \A s \in Sessions \ {self'[r]} : session'[s] = session[s] /\ born'[s] = born[s]
         /\ born'[self'[r]] = held[r]
         /\ slipped \subseteq slipped'
         /\ self'[r] \notin slipped' =>
               copy[r] = account /\ \A q \in Requests : ~(op[q] = "ban" /\ pc[q] = "saveUser")
         /\ UNCHANGED <<account, room, device, lost, ended, resetTo, banned, crossed, raced, undone>>
<1>1. PICK s \in Sessions :
         /\ session[s].state = "none"
         /\ session' = [session EXCEPT ![s] = Opened(issued + 1)]
         /\ born' = [born EXCEPT ![s] = held[r]]
         /\ self' = [self EXCEPT ![r] = s]
         /\ slipped' = IF copy[r] # account \/ \E q \in Requests : op[q] = "ban" /\ pc[q] = "saveUser"
                       THEN slipped \cup {s} ELSE slipped
  BY DEF CreateSession
<1>2. self'[r] = s
  BY <1>1 DEF LocalTypes
<1>3. /\ pc[r] = "create" /\ pc'[r] = "answer" /\ issued' = issued + 1 /\ held'[r] = issued + 1
      /\ UNCHANGED <<victims, listed, copy, op, account, room, device, lost, ended, resetTo, banned, crossed, raced, undone>>
  BY DEF CreateSession, Goto, LocalTypes
<1>4. session'[s] = Opened(issued + 1) /\ born'[s] = held[r]
  BY <1>1 DEF RowTypes, HistoryTypes
<1>5. \A t \in Sessions \ {s} : session'[t] = session[t] /\ born'[t] = born[t]
  BY <1>1 DEF RowTypes, HistoryTypes
<1>6. /\ slipped \subseteq slipped'
      /\ s \notin slipped' =>
            copy[r] = account /\ \A q \in Requests : ~(op[q] = "ban" /\ pc[q] = "saveUser")
  BY <1>1
<1>7. QED
  BY <1>1, <1>2, <1>3, <1>4, <1>5, <1>6

LEMMA Revoked ==
  ASSUME RowTypes, LocalTypes, AboutInv, NEW r \in Requests, Revoke(r)
  PROVE  /\ pc[r] = "revoke" /\ pc'[r] = "disconnect" /\ self[r] \in Sessions
         /\ UNCHANGED <<op, self, held, copy, victims, listed>>
         /\ \A s \in Sessions \ {self[r]} : session'[s] = session[s]
         /\ session'[self[r]].state = "revoked" /\ session'[self[r]].nonce = held[r]
         /\ crossed' = IF Using(self[r], {"user", "save", "join"}) # {}
                       THEN crossed \cup {self[r]} ELSE crossed
         /\ UNCHANGED <<account, issued, room, device, born, lost, ended, resetTo, banned, raced, slipped, undone>>
<1>1. pc[r] = "revoke" /\ self[r] \in Sessions
  BY DEF Revoke, AboutInv
<1>2. QED
  BY <1>1 DEF Revoke, RowTypes, LocalTypes, Goto, locals

\* The user row changes when it is saved, and a save that is not stale takes
\* nothing back.
LEMMA SavedUser ==
  ASSUME RowTypes, LocalTypes, HistoryTypes, AboutInv, NEW r \in Requests, SaveUser(r)
  PROVE  /\ pc[r] = "saveUser" /\ UNCHANGED <<session, issued, room, device>>
         /\ UNCHANGED <<born, lost, ended, resetTo, banned, crossed, raced, slipped>>
         /\ ~undone' => /\ ~undone /\ copy[r] = account
                        /\ account'.password >= account.password
                        /\ account.disabled => account'.disabled
         /\ op[r] = "ban" => account'.disabled
         /\ op[r] = "profile" => Forget(r)
         /\ op[r] # "profile" =>
               /\ UNCHANGED <<op, self, held, victims, listed>>
               /\ copy'[r] = account'
               /\ pc'[r] = IF op[r] = "reset" THEN "list" ELSE "take"
<1>1. account' = Changed(r) /\ (undone' <=> undone \/ copy[r] # account)
  BY Zenon DEF SaveUser
<1>2. /\ pc[r] = "saveUser" /\ UNCHANGED <<session, issued, room, device>>
      /\ UNCHANGED <<born, lost, ended, resetTo, banned, crossed, raced, slipped>>
      /\ op[r] = "profile" => Forget(r)
      /\ op[r] # "profile" =>
            /\ UNCHANGED <<op, self, held, victims, listed>>
            /\ copy'[r] = Changed(r)
            /\ pc'[r] = IF op[r] = "reset" THEN "list" ELSE "take"
  BY DEF SaveUser, Goto, LocalTypes
<1>3. /\ Changed(r) \in Account
      /\ Changed(r).password \in {copy[r].password, copy[r].password + 1}
      /\ op[r] = "ban" => Changed(r).disabled
      /\ copy[r].disabled => Changed(r).disabled
  <2>1. CASE op[r] = "ban"
    BY <2>1, ChangedTypes
  <2>2. CASE op[r] # "ban"
    BY <2>2, ChangedTypes
  <2>3. QED
    BY <2>1, <2>2
<1>4. ~undone' => ~undone /\ copy[r] = account /\ account'.password >= account.password
  BY <1>1, <1>3 DEF RowTypes, Account
<1>5. ~undone' => (account.disabled => account'.disabled)
  BY <1>1, <1>3
<1>6. QED
  BY <1>1, <1>2, <1>3, <1>4, <1>5

LEMMA AccountRests ==
  ASSUME NEW r \in Requests, Step(r), ~SaveUser(r)
  PROVE  UNCHANGED <<account, undone>>
BY DEF Step, Handle, DeviceCalls, AccountCalls, ReadSession, ReadUser, SaveSession, Answer, Join, ReadAccount,
   CreateSession, List, Find, Take, Revoke, DisconnectSession, Finish, Fail, rows, history

-----------------------------------------------------------------------------
(* The sessions.                                                              *)

\* A session that was opened is never forgotten.
LEMMA OpenedStays ==
  ASSUME RowTypes, LocalTypes, HistoryTypes, AboutInv, [Next]_vars,
         NEW s \in Sessions, session[s].state # "none"
  PROVE  session'[s].state # "none"
<1>1. ASSUME NEW r \in Requests, Step(r), Rests(r) PROVE session'[s].state # "none"
  BY <1>1, SessionsRest
<1>2. ASSUME NEW r \in Requests, SaveSession(r) PROVE session'[s].state # "none"
  <2>1. s # self[r] => session'[s] = session[s]
    BY <1>2, Saved
  <2>2. session'[self[r]].state = "active"
    BY <1>2, Saved
  <2>3. QED
    BY <2>1, <2>2
<1>3. ASSUME NEW r \in Requests, CreateSession(r) PROVE session'[s].state # "none"
  BY <1>3, Created DEF Opened
<1>4. ASSUME NEW r \in Requests, Revoke(r) PROVE session'[s].state # "none"
  <2>1. s # self[r] => session'[s] = session[s]
    BY <1>4, Revoked
  <2>2. session'[self[r]].state = "revoked"
    BY <1>4, Revoked
  <2>3. QED
    BY <2>1, <2>2
<1>5. ASSUME NEW t \in Sessions, Disconnect(t) PROVE session'[s].state # "none"
  BY <1>5, DisconnectRests
<1>6. CASE UNCHANGED vars
  BY <1>6, StutterRests
<1>7. QED
  BY <1>1, <1>2, <1>3, <1>4, <1>5, <1>6, Steps DEF Rests

At == {"session", "user", "save", "join", "answer", "revoke", "disconnect"}

LEMMA OpenedPreserved ==
  ASSUME RowTypes, LocalTypes, HistoryTypes, AboutInv, OpenedInv, [Next]_vars
  PROVE  OpenedInv'
<1>1. \A s \in Sessions : session[s].state # "none" => session'[s].state # "none"
  BY OpenedStays
<1>2. \A r \in Requests : pc[r] \in At => self[r] \in Sessions /\ session[self[r]].state # "none"
  BY DEF OpenedInv, AboutInv, At
<1>3. \A r \in Requests : \A s \in victims[r] \cup listed[r] : s \in Sessions /\ session[s].state # "none"
  BY DEF OpenedInv, LocalTypes
<1>4. SUFFICES
        /\ \A s \in Sessions : device'[s] # 0 => session'[s].state # "none"
        /\ \A r \in Requests :
              /\ pc'[r] \in At => session'[self'[r]].state # "none"
              /\ \A s \in victims'[r] \cup listed'[r] : session'[s].state # "none"
  BY DEF OpenedInv, At
<1>5. CASE UNCHANGED <<device, pc, self, victims, listed>>
  BY <1>1, <1>2, <1>3, <1>5 DEF OpenedInv
<1>6. ASSUME NEW r \in Requests, Step(r) PROVE
        /\ \A s \in Sessions : device'[s] # 0 => session'[s].state # "none"
        /\ \A q \in Requests :
              /\ pc'[q] \in At => session'[self'[q]].state # "none"
              /\ \A s \in victims'[q] \cup listed'[q] : session'[s].state # "none"
  <2>1. \A s \in Sessions : device'[s] # 0 => session'[s].state # "none"
    <3>1. CASE Answer(r)
      BY <1>1, <1>2, <3>1 DEF Answer, RowTypes, OpenedInv, At
    <3>2. CASE ~Answer(r)
      <4>1. device' = device
        BY <1>6, <3>2 DEF Step, Handle, DeviceCalls, AccountCalls, ReadSession, ReadUser, SaveSession, Join,
           ReadAccount, CreateSession, SaveUser, List, Find, Take, Revoke, DisconnectSession, Finish, Fail
      <4>2. QED
        BY <1>1, <4>1 DEF OpenedInv
    <3>3. QED
      BY <3>1, <3>2
  <2>2. ASSUME NEW q \in Requests \ {r}
        PROVE  /\ pc'[q] \in At => session'[self'[q]].state # "none"
               /\ \A s \in victims'[q] \cup listed'[q] : session'[s].state # "none"
    BY <1>1, <1>2, <1>3, <1>6, OthersStay
  <2>3. /\ pc'[r] \in At => session'[self'[r]].state # "none"
        /\ \A s \in victims'[r] \cup listed'[r] : session'[s].state # "none"
    <3>1. CASE Forget(r)
      BY <3>1, Forgotten DEF At
    <3>2. ASSUME NEW o \in Operations, NEW s \in Sessions, DeviceCalls(r, o, s)
          PROVE  /\ self'[r] = s /\ s \in Sessions /\ session[s].state # "none"
                 /\ UNCHANGED <<victims, listed>>
      BY <3>2 DEF DeviceCalls, LocalTypes, OpenedInv
    <3>3. ASSUME NEW o \in Operations, AccountCalls(r, o)
          PROVE  pc'[r] \notin At /\ UNCHANGED <<victims, listed>>
      BY <3>3 DEF AccountCalls, Goto, LocalTypes, At
    <3>4. CASE (ReadSession(r) \/ ReadUser(r)) /\ ~Forget(r)
      <4>1. pc[r] \in At /\ UNCHANGED <<self, victims, listed>>
        BY <3>4 DEF ReadSession, ReadUser, locals, At
      <4>2. QED
        BY <1>1, <1>2, <1>3, <4>1
    <3>5. CASE SaveSession(r)
      <4>1. /\ victims'[r] \cup listed'[r] \subseteq {self[r]}
            /\ pc'[r] \in At => self'[r] = self[r]
        BY <3>5, SavedLocals DEF At
      <4>2. session'[self[r]].state = "active"
        BY <3>5, Saved
      <4>3. QED
        BY <4>1, <4>2
    <3>6. CASE CreateSession(r)
      <4>1. session'[self'[r]].state = "active" /\ UNCHANGED <<victims, listed>>
        BY <3>6, Created DEF Opened
      <4>2. QED
        BY <1>1, <1>3, <4>1
    <3>7. CASE (ReadAccount(r) \/ SaveUser(r)) /\ ~Forget(r)
      <4>1. pc'[r] \notin At /\ UNCHANGED <<victims, listed>>
        BY <3>7 DEF ReadAccount, SaveUser, Goto, LocalTypes, AboutInv, At
      <4>2. QED
        BY <1>1, <1>3, <4>1
    <3>8. CASE (List(r) \/ Find(r)) /\ ~Forget(r)
      <4>1. pc'[r] \notin At /\ victims'[r] \cup listed'[r] \subseteq Active
        <5>1. CASE List(r)
          BY <5>1 DEF List, ToRevoke, Goto, LocalTypes, At
        <5>2. CASE Find(r)
          <6>1. PICK s \in Sessions : session[s].state = "active" /\ ToRevoke(r, {s}) /\ Goto(r, "take")
            BY <3>8, <5>2 DEF Find
          <6>2. QED
            BY <6>1 DEF ToRevoke, Goto, LocalTypes, At, Active
        <5>3. QED
          BY <3>8, <5>1, <5>2
      <4>2. QED
        BY <1>1, <4>1 DEF Active
    <3>9. CASE Take(r)
      <4>1. PICK s \in victims[r] : self' = [self EXCEPT ![r] = s]
        BY <3>9 DEF Take
      <4>2. self'[r] = s /\ UNCHANGED <<victims, listed>>
        BY <3>9, <4>1 DEF Take, LocalTypes
      <4>3. QED
        BY <1>1, <1>3, <4>2
    <3>10. CASE Revoke(r)
      <4>1. pc[r] \in At /\ UNCHANGED <<self, victims, listed>>
        BY <3>10, Revoked DEF At
      <4>2. QED
        BY <1>1, <1>2, <1>3, <4>1
    <3>11. CASE DisconnectSession(r)
      <4>1. pc'[r] \notin At /\ victims'[r] \subseteq victims[r] /\ listed' = listed
        BY <3>11 DEF DisconnectSession, Withdraw, Goto, LocalTypes, At
      <4>2. QED
        BY <1>1, <1>3, <4>1
    <3>12. ASSUME Answer(r) \/ Join(r) \/ Finish(r) \/ Fail(r) PROVE Forget(r)
      BY <3>12 DEF Answer, Join, Finish, Fail
    <3>13. QED
      BY <1>1, <1>3, <1>6, <3>1, <3>2, <3>3, <3>4, <3>5, <3>6, <3>7, <3>8, <3>9, <3>10, <3>11, <3>12
      DEF Step, Handle
  <2>4. QED
    BY <2>1, <2>2, <2>3
<1>7. ASSUME NEW s \in Sessions, Disconnect(s) PROVE UNCHANGED <<device, pc, self, victims, listed>>
  BY <1>7, DisconnectRests
<1>8. ASSUME UNCHANGED vars PROVE UNCHANGED <<device, pc, self, victims, listed>>
  BY <1>8, StutterRests
<1>9. QED
  BY <1>5, <1>6, <1>7, <1>8, Steps

\* Only a call that was crossed by the revocation brings a session back.
LEMMA RevokedStays ==
  ASSUME RowTypes, LocalTypes, HistoryTypes, AboutInv, SessionCopyInv, [Next]_vars,
         NEW s \in Sessions, s \notin crossed, session[s].state = "revoked"
  PROVE  session'[s].state = "revoked"
<1>1. ASSUME NEW r \in Requests, Step(r), Rests(r) PROVE session'[s].state = "revoked"
  BY <1>1, SessionsRest
<1>2. ASSUME NEW r \in Requests, SaveSession(r) PROVE session'[s] = session[s]
  <2>1. s # self[r]
    BY <1>2, Saved DEF SessionCopyInv
  <2>2. QED
    BY <1>2, <2>1, Saved
<1>3. ASSUME NEW r \in Requests, CreateSession(r) PROVE session'[s] = session[s]
  BY <1>3, Created
<1>4. ASSUME NEW r \in Requests, Revoke(r) PROVE session'[s].state = "revoked"
  <2>1. CASE s = self[r]
    BY <1>4, <2>1, Revoked
  <2>2. CASE s # self[r]
    BY <1>4, <2>2, Revoked
  <2>3. QED
    BY <2>1, <2>2
<1>5. ASSUME NEW t \in Sessions, Disconnect(t) PROVE session'[s].state = "revoked"
  BY <1>5, DisconnectRests
<1>6. CASE UNCHANGED vars
  BY <1>6, StutterRests
<1>7. QED
  BY <1>1, <1>2, <1>3, <1>4, <1>5, <1>6, Steps DEF Rests

\* What crosses a call stays noted.
LEMMA NotesGrow ==
  ASSUME RowTypes, LocalTypes, HistoryTypes, AboutInv, [Next]_vars
  PROVE  /\ crossed \subseteq crossed' /\ raced \subseteq raced' /\ slipped \subseteq slipped'
         /\ ~undone' => ~undone
<1>1. ASSUME NEW r \in Requests, Step(r), Rests(r)
      PROVE  UNCHANGED <<crossed, raced, slipped>> /\ (~undone' => ~undone)
  <2>1. CASE SaveUser(r)
    BY <1>1, <2>1, SessionsRest, SavedUser
  <2>2. CASE ~SaveUser(r)
    BY <1>1, <2>2, SessionsRest, AccountRests
  <2>3. QED
    BY <2>1, <2>2
<1>2. ASSUME NEW r \in Requests, SaveSession(r)
      PROVE  raced \subseteq raced' /\ UNCHANGED <<crossed, slipped, undone>>
  BY <1>2, Saved
<1>3. ASSUME NEW r \in Requests, CreateSession(r)
      PROVE  slipped \subseteq slipped' /\ UNCHANGED <<crossed, raced, undone>>
  BY <1>3, Created
<1>4. ASSUME NEW r \in Requests, Revoke(r)
      PROVE  crossed \subseteq crossed' /\ UNCHANGED <<raced, slipped, undone>>
  BY <1>4, Revoked
<1>5. ASSUME NEW t \in Sessions, Disconnect(t) PROVE UNCHANGED <<crossed, raced, slipped, undone>>
  BY <1>5, DisconnectRests
<1>6. ASSUME UNCHANGED vars PROVE UNCHANGED <<crossed, raced, slipped, undone>>
  BY <1>6, StutterRests
<1>7. QED
  BY <1>1, <1>2, <1>3, <1>4, <1>5, <1>6, Steps DEF Rests

LEMMA SessionCopyPreserved ==
  ASSUME RowTypes, LocalTypes, HistoryTypes, AboutInv, OpenedInv, SessionCopyInv, [Next]_vars
  PROVE  SessionCopyInv'
<1> DEFINE Copies(q) ==
      self[q] \notin crossed =>
         /\ pc[q] \in {"user", "save", "join"} => session[self[q]].state = "active"
         /\ pc[q] \in {"user", "save"} /\ self[q] \notin raced => held[q] = session[self[q]].nonce
         /\ pc[q] = "disconnect" => session[self[q]].state = "revoked"
<1>1. \A q \in Requests : Copies(q)
  BY DEF SessionCopyInv
<1>2. SUFFICES \A q \in Requests : Copies(q)'
  BY DEF SessionCopyInv
<1> HIDE DEF Copies
<1>3. crossed \subseteq crossed' /\ raced \subseteq raced'
  BY NotesGrow
<1>4. ASSUME UNCHANGED <<session, pc, self, held>> PROVE \A q \in Requests : Copies(q)'
  BY <1>1, <1>3, <1>4 DEF Copies
<1>5. ASSUME NEW r \in Requests, Step(r), NEW q \in Requests \ {r} PROVE Copies(q)'
  <2>1. pc'[q] = pc[q] /\ self'[q] = self[q] /\ held'[q] = held[q]
    BY <1>5, OthersStay
  <2>2. CASE pc[q] \notin {"user", "save", "join", "disconnect"}
    BY <2>1, <2>2 DEF Copies
  <2>3. CASE pc[q] \in {"user", "save", "join", "disconnect"}
    <3>1. self[q] \in Sessions /\ session[self[q]].state # "none"
      BY <2>3 DEF AboutInv, OpenedInv
    <3>2. CASE Rests(r)
      BY <1>1, <1>3, <1>5, <2>1, <3>2, SessionsRest DEF Copies
    <3>3. CASE CreateSession(r)
      <4>1. session'[self[q]] = session[self[q]]
        BY <3>1, <3>3, Created
      <4>2. QED
        BY <1>1, <1>3, <2>1, <4>1 DEF Copies
    <3>4. CASE SaveSession(r)
      <4>1. CASE self[r] # self[q]
        <5>1. session'[self[q]] = session[self[q]]
          BY <3>1, <3>4, <4>1, Saved
        <5>2. QED
          BY <1>1, <1>3, <2>1, <5>1 DEF Copies
      <4>2. CASE self[r] = self[q] /\ self[q] \notin crossed'
        <5>1. pc[r] = "save" /\ session[self[r]].state = "active"
          BY <1>3, <3>4, <4>2, Saved DEF SessionCopyInv
        <5>2. pc[q] # "disconnect"
          BY <1>1, <1>3, <4>2, <5>1 DEF Copies
        <5>3. session'[self[q]].state = "active"
          BY <3>4, <4>2, Saved
        <5>4. ASSUME pc[q] \in {"user", "save"}, self[q] \notin raced'
              PROVE  held[q] = session'[self[q]].nonce
          <6>1. q \in Using(self[r], {"user", "save"})
            BY <4>2, <5>4 DEF Using
          <6>2. op[r] # "refresh"
            BY <3>4, <4>2, <5>4, <6>1, Saved
          <6>3. session'[self[q]].nonce = held[r]
            BY <3>4, <4>2, <6>2, Saved
          <6>4. held[r] = session[self[r]].nonce /\ held[q] = session[self[q]].nonce
            BY <1>1, <1>3, <4>2, <5>1, <5>4 DEF Copies
          <6>5. QED
            BY <4>2, <6>3, <6>4
        <5>5. QED
          BY <2>1, <5>2, <5>3, <5>4 DEF Copies
      <4>3. CASE self[q] \in crossed'
        BY <2>1, <4>3 DEF Copies
      <4>4. QED
        BY <4>1, <4>2, <4>3
    <3>5. CASE Revoke(r)
      <4>1. CASE self[r] # self[q]
        <5>1. session'[self[q]] = session[self[q]]
          BY <3>1, <3>5, <4>1, Revoked
        <5>2. QED
          BY <1>1, <1>3, <2>1, <5>1 DEF Copies
      <4>2. CASE self[r] = self[q] /\ pc[q] = "disconnect"
        <5>1. session'[self[q]].state = "revoked"
          BY <3>5, <4>2, Revoked
        <5>2. QED
          BY <2>1, <4>2, <5>1 DEF Copies
      <4>3. CASE self[r] = self[q] /\ pc[q] # "disconnect"
        <5>1. q \in Using(self[r], {"user", "save", "join"})
          BY <2>3, <4>3 DEF Using
        <5>2. self[q] \in crossed'
          BY <3>5, <4>3, <5>1, Revoked
        <5>3. QED
          BY <2>1, <5>2 DEF Copies
      <4>4. QED
        BY <4>1, <4>2, <4>3
    <3>6. QED
      BY <3>2, <3>3, <3>4, <3>5 DEF Rests
  <2>4. QED
    BY <2>2, <2>3
<1>6. ASSUME NEW r \in Requests, Step(r) PROVE Copies(r)'
  <2>1. CASE pc'[r] \notin {"user", "save", "join", "disconnect"}
    BY <2>1 DEF Copies
  <2>2. CASE ReadSession(r) /\ ~Forget(r)
    <3>1. /\ pc'[r] = "user" /\ self'[r] = self[r] /\ session' = session
          /\ session[self[r]].state = "active" /\ held'[r] = session[self[r]].nonce
      BY <2>2 DEF ReadSession, Goto, LocalTypes, rows
    <3>2. QED
      BY <3>1 DEF Copies
  <2>3. CASE ReadUser(r) /\ ~Forget(r)
    <3>1. pc[r] = "user" /\ pc'[r] = "save" /\ UNCHANGED <<self, held, session, crossed, raced>>
      BY <2>3 DEF ReadUser, Goto, LocalTypes, rows, locals, history
    <3>2. QED
      BY <1>1, <3>1 DEF Copies
  <2>4. CASE SaveSession(r)
    <3>1. pc'[r] = "join" => self'[r] = self[r]
      BY <2>4, SavedLocals
    <3>2. pc'[r] \notin {"user", "save", "disconnect"} /\ session'[self[r]].state = "active"
      BY <2>4, SavedLocals, Saved
    <3>3. QED
      BY <3>1, <3>2 DEF Copies
  <2>5. CASE Take(r)
    <3>1. PICK s \in victims[r] :
             /\ self' = [self EXCEPT ![r] = s]
             /\ Goto(r, IF session[s].state = "active" THEN "revoke" ELSE "disconnect")
      BY <2>5 DEF Take
    <3>2. s \in Sessions /\ session[s].state \in {"active", "revoked"}
      BY DEF OpenedInv, LocalTypes, RowTypes, Session
    <3>3. session' = session /\ self'[r] = s /\ pc'[r] = IF session[s].state = "active" THEN "revoke" ELSE "disconnect"
      BY <2>5, <3>1 DEF Take, rows, LocalTypes, Goto
    <3>4. QED
      BY <3>2, <3>3 DEF Copies
  <2>6. CASE Revoke(r)
    <3>1. pc'[r] = "disconnect" /\ self'[r] = self[r] /\ session'[self[r]].state = "revoked"
      BY <2>6, Revoked
    <3>2. QED
      BY <3>1 DEF Copies
  <2>7. CASE Forget(r)
    BY <2>7, Forgotten DEF Copies
  <2>8. ASSUME ~Forget(r), ~ReadSession(r), ~ReadUser(r), ~SaveSession(r), ~Take(r), ~Revoke(r)
        PROVE  pc'[r] \notin {"user", "save", "join", "disconnect"}
    BY <1>6, <2>8 DEF Step, Handle, DeviceCalls, AccountCalls, Answer, Join, ReadAccount, CreateSession, SaveUser,
       List, Find, DisconnectSession, Withdraw, Finish, Fail, Goto, LocalTypes, AboutInv
  <2>9. QED
    BY <2>1, <2>2, <2>3, <2>4, <2>5, <2>6, <2>7, <2>8
<1>7. QED
  BY <1>4, <1>5, <1>6, Steps, DisconnectRests, StutterRests

Over(s) == session[s].state = "revoked" /\ s \notin room

\* What is over stays over: nobody opens a socket for it.
LEMMA OverStays ==
  ASSUME RowTypes, LocalTypes, HistoryTypes, AboutInv, SessionCopyInv, [Next]_vars,
         NEW s \in Sessions \ crossed, Over(s)
  PROVE  Over(s)'
<1>1. session'[s].state = "revoked"
  BY RevokedStays DEF Over
<1>2. ASSUME NEW r \in Requests, Join(r) PROVE s \notin room'
  <2>1. self[r] # s
    BY <1>2 DEF Join, SessionCopyInv, Over
  <2>2. QED
    BY <1>2, <2>1 DEF Join, Over
<1>3. ASSUME NEW r \in Requests, Step(r), ~Join(r) PROVE room' \subseteq room
  BY <1>3 DEF Step, Handle, DeviceCalls, AccountCalls, ReadSession, ReadUser, SaveSession, Answer, ReadAccount,
     CreateSession, SaveUser, List, Find, Take, Revoke, DisconnectSession, Finish, Fail
<1>4. s \notin room'
  BY <1>2, <1>3, Steps, DisconnectRests, StutterRests DEF Over
<1>5. QED
  BY <1>1, <1>4 DEF Over

LEMMA VictimPreserved ==
  ASSUME RowTypes, LocalTypes, HistoryTypes, AboutInv, SessionCopyInv, VictimInv, [Next]_vars
  PROVE  VictimInv'
<1>1. crossed \subseteq crossed'
  BY NotesGrow
<1>2. \A s \in Sessions \ crossed : Over(s) => Over(s)'
  BY OverStays
<1>3. SUFFICES \A q \in Requests : \A s \in listed'[q] \ (victims'[q] \cup crossed') : Over(s)'
  BY DEF VictimInv, Over
<1>4. \A q \in Requests : \A s \in listed[q] \ (victims[q] \cup crossed) : s \in Sessions /\ Over(s)
  BY DEF VictimInv, LocalTypes, Over
<1>5. ASSUME NEW q \in Requests, listed'[q] = listed[q], victims'[q] = victims[q],
             NEW s \in listed'[q] \ (victims'[q] \cup crossed')
      PROVE  Over(s)'
  BY <1>1, <1>2, <1>4, <1>5
<1>6. ASSUME NEW r \in Requests, Step(r), NEW s \in listed'[r] \ (victims'[r] \cup crossed')
      PROVE  Over(s)'
  <2>1. CASE Forget(r)
    BY <1>6, <2>1, Forgotten
  <2>2. CASE SaveSession(r)
    BY <1>6, <2>2, SavedLocals
  <2>3. CASE (List(r) \/ Find(r)) /\ ~Forget(r)
    BY <1>6, <2>3 DEF List, Find, ToRevoke, LocalTypes
  <2>4. CASE DisconnectSession(r)
    <3>1. /\ pc[r] = "disconnect" /\ self[r] \in Sessions /\ listed' = listed
          /\ victims'[r] = victims[r] \ {self[r]} /\ session' = session /\ room' = room \ {self[r]}
      BY <2>4 DEF DisconnectSession, Withdraw, LocalTypes, rows, AboutInv
    <3>2. CASE s = self[r]
      BY <1>1, <1>6, <3>1, <3>2 DEF SessionCopyInv, Over
    <3>3. CASE s # self[r]
      BY <1>1, <1>2, <1>4, <1>6, <3>1, <3>3
    <3>4. QED
      BY <3>2, <3>3
  <2>5. ASSUME ~Forget(r), ~SaveSession(r), ~List(r), ~Find(r), ~DisconnectSession(r)
        PROVE  listed'[r] = listed[r] /\ victims'[r] = victims[r]
    BY <1>6, <2>5 DEF Step, Handle, DeviceCalls, AccountCalls, ReadSession, ReadUser, Answer, Join, ReadAccount,
       CreateSession, SaveUser, Take, Revoke, Finish, Fail, locals
  <2>6. QED
    BY <1>5, <1>6, <2>1, <2>2, <2>3, <2>4, <2>5
<1>7. QED
  BY <1>5, <1>6, Steps, OthersStay, DisconnectRests, StutterRests

-----------------------------------------------------------------------------
(* The user row.                                                              *)

\* While no save was stale, the password and the mark of a ban only grow.
LEMMA AccountGrows ==
  ASSUME RowTypes, LocalTypes, HistoryTypes, AboutInv, [Next]_vars, ~undone'
  PROVE  /\ ~undone /\ account'.password >= account.password
         /\ account.disabled => account'.disabled
<1>1. account.password \in Nat
  BY DEF RowTypes, Account
<1>2. ASSUME NEW r \in Requests, SaveUser(r)
      PROVE  /\ ~undone /\ account'.password >= account.password
             /\ account.disabled => account'.disabled
  BY <1>2, SavedUser
<1>3. ASSUME NEW r \in Requests, Step(r), ~SaveUser(r) PROVE UNCHANGED <<account, undone>>
  BY <1>3, AccountRests
<1>4. ASSUME UNCHANGED <<account, undone>>
      PROVE  /\ ~undone /\ account'.password >= account.password
             /\ account.disabled => account'.disabled
  BY <1>1, <1>4
<1>5. QED
  BY <1>2, <1>3, <1>4, Steps, DisconnectRests, StutterRests

\* How a request comes to revoke the sessions of a reset or a ban.
LEMMA Revoker ==
  ASSUME RowTypes, LocalTypes, HistoryTypes, AboutInv, NEW r \in Requests, Step(r),
         op'[r] \in {"reset", "ban"}, pc'[r] \in Revoking \cup {"saveUser", "list"}
  PROVE  /\ op'[r] = op[r]
         /\ \/ ReadAccount(r) /\ pc'[r] = (IF op[r] = "ban" THEN "list" ELSE "saveUser")
            \/ SaveUser(r) /\ pc'[r] = (IF op[r] = "ban" THEN "take" ELSE "list") /\ UNCHANGED victims
            \/ /\ List(r) /\ pc'[r] = (IF op[r] = "ban" THEN "saveUser" ELSE "take")
               /\ victims'[r] = Active /\ UNCHANGED <<session, copy>>
            \/ /\ Take(r) \/ Revoke(r)
               /\ pc[r] \in Revoking /\ pc'[r] \in Revoking /\ UNCHANGED <<victims, copy>>
            \/ /\ DisconnectSession(r) /\ pc[r] = "disconnect" /\ pc'[r] \in Revoking
               /\ victims'[r] = victims[r] \ {self[r]} /\ UNCHANGED <<session, copy>>
<1> USE DEF Goto, LocalTypes, Revoking
<1>1. ~Forget(r)
  BY Forgotten
<1>2. CASE ReadAccount(r)
  BY <1>1, <1>2 DEF ReadAccount
<1>3. CASE SaveUser(r)
  BY <1>1, <1>3, SavedUser
<1>4. CASE List(r)
  BY <1>4 DEF List, ToRevoke, rows, AboutInv
<1>5. CASE Take(r)
  BY <1>5 DEF Take
<1>6. CASE Revoke(r)
  BY <1>6, Revoked
<1>7. CASE DisconnectSession(r)
  BY <1>7 DEF DisconnectSession, Withdraw, rows
<1>8. CASE SaveSession(r)
  <2>1. op'[r] = "logout" \/ pc'[r] \notin Revoking \cup {"saveUser", "list"}
    BY <1>8, SavedLocals
  <2>2. QED
    BY <2>1
<1>9. CASE Find(r)
  BY <1>1, <1>9 DEF Find, AboutInv
<1>10. CASE (\E o \in Operations, s \in Sessions : DeviceCalls(r, o, s)) \/ (\E o \in Operations : AccountCalls(r, o))
  BY <1>10 DEF DeviceCalls, AccountCalls
<1>11. CASE ReadSession(r) \/ ReadUser(r) \/ CreateSession(r)
  BY <1>1, <1>11 DEF ReadSession, ReadUser, CreateSession
<1>12. ASSUME Answer(r) \/ Join(r) \/ Finish(r) \/ Fail(r) PROVE Forget(r)
  BY <1>12 DEF Answer, Join, Finish, Fail
<1>13. QED
  BY <1>1, <1>2, <1>3, <1>4, <1>5, <1>6, <1>7, <1>8, <1>9, <1>10, <1>11, <1>12 DEF Step, Handle

LEMMA UserCopyPreserved ==
  ASSUME RowTypes, LocalTypes, HistoryTypes, AboutInv, UserCopyInv, [Next]_vars
  PROVE  UserCopyInv'
<1> DEFINE Listing == {"list", "take", "revoke", "disconnect"}
<1> DEFINE Reads(q) ==
      /\ pc[q] = "create" => held[q] = copy[q].password /\ ~copy[q].disabled
      /\ pc[q] \in Listing /\ op[q] = "reset" /\ ~undone => copy[q].password <= account.password
<1>1. \A q \in Requests : Reads(q)
  BY DEF UserCopyInv
<1>2. SUFFICES \A q \in Requests : Reads(q)'
  BY DEF UserCopyInv
<1>3. ~undone' => ~undone /\ account'.password >= account.password
  BY AccountGrows
<1>4. account.password \in Nat /\ \A q \in Requests : copy[q].password \in Nat
  BY DEF RowTypes, LocalTypes, Account
<1>5. account'.password \in Nat
  <2>1. RowTypes'
    BY RowTypesPreserved
  <2>2. QED
    BY <2>1 DEF RowTypes, Account
<1>6. ASSUME NEW q \in Requests, pc'[q] = pc[q], op'[q] = op[q], held'[q] = held[q], copy'[q] = copy[q]
      PROVE  Reads(q)'
  <2>1. pc[q] \in Listing /\ op[q] = "reset" /\ ~undone' => copy[q].password <= account'.password
    BY <1>1, <1>3, <1>4, <1>5
  <2>2. QED
    BY <1>1, <1>6, <2>1
<1>7. ASSUME NEW r \in Requests, Step(r) PROVE Reads(r)'
  <2>1. ASSUME pc'[r] = "create" PROVE held'[r] = copy'[r].password /\ ~copy'[r].disabled
    <3>1. ReadAccount(r) /\ ~Forget(r)
      <4>1. ~Forget(r)
        BY <2>1, Forgotten
      <4>2. ~SaveSession(r)
        BY <2>1, SavedLocals
      <4>3. QED
        BY <1>7, <2>1, <4>1, <4>2 DEF Step, Handle, DeviceCalls, AccountCalls, ReadSession, ReadUser, Answer, Join,
           CreateSession, SaveUser, List, Find, Take, Revoke, DisconnectSession, Withdraw, Finish, Fail, Goto, LocalTypes
    <3>2. op[r] \in {"profile", "login", "reset", "ban"}
      BY <3>1 DEF ReadAccount, AboutInv
    <3>3. op[r] = "login"
      BY <2>1, <3>1, <3>2 DEF ReadAccount, Goto, LocalTypes
    <3>4. QED
      BY <3>1, <3>3 DEF ReadAccount, LocalTypes
  <2>2. ASSUME pc'[r] \in Listing, op'[r] = "reset", ~undone'
        PROVE  copy'[r].password <= account'.password
    <3>1. CASE SaveUser(r)
      <4>1. op[r] = "reset"
        BY <1>7, <2>2, Revoker DEF Revoking
      <4>2. copy'[r] = account'
        BY <3>1, <4>1, SavedUser
      <4>3. QED
        BY <1>5, <4>2
    <3>2. CASE ~SaveUser(r)
      <4>1. account' = account
        BY <1>7, <3>2, AccountRests
      <4>2. pc[r] \in Listing /\ op[r] = "reset" /\ copy' = copy
        <5>1. ReadAccount(r) => pc'[r] # "saveUser"
          BY <2>2
        <5>2. List(r) => pc[r] = "list"
          BY DEF List
        <5>3. QED
          BY <1>7, <2>2, <3>2, <5>1, <5>2, Revoker DEF Revoking
      <4>3. QED
        BY <1>1, <1>3, <2>2, <4>1, <4>2
    <3>3. QED
      BY <3>1, <3>2
  <2>3. QED
    BY <2>1, <2>2
<1>8. QED
  BY <1>6, <1>7, Steps, OthersStay, DisconnectRests, StutterRests

\* A session that a reset or a ban has to end was already one, or has just been
\* opened with the user row as it is.
Fresh(r, s) ==
    /\ CreateSession(r) /\ s = self'[r] /\ born'[s] = account.password /\ ~account.disabled
    /\ \A q \in Requests : ~(op[q] = "ban" /\ pc[q] = "saveUser")
    /\ UNCHANGED <<account, resetTo, banned, undone>>

LEMMA BoundStep ==
  ASSUME RowTypes, LocalTypes, HistoryTypes, AboutInv, SessionCopyInv, UserCopyInv, [Next]_vars,
         NEW s \in Bound'
  PROVE  /\ s \in Sessions
         /\ \/ s \in Bound /\ born'[s] = born[s]
            \/ \E r \in Requests : Fresh(r, s)
<1>1. s \in Sessions /\ session'[s].state = "active" /\ s \notin crossed' /\ s \notin slipped'
  BY DEF Bound, Active
<1>2. s \notin crossed /\ s \notin slipped
  BY <1>1, NotesGrow
<1>3. ASSUME session[s].state = "active" PROVE s \in Bound
  BY <1>1, <1>2, <1>3 DEF Bound, Active
<1>4. ASSUME NEW r \in Requests, Step(r), Rests(r) PROVE s \in Bound /\ born'[s] = born[s]
  BY <1>1, <1>3, <1>4, SessionsRest
<1>5. ASSUME NEW r \in Requests, SaveSession(r) PROVE s \in Bound /\ born'[s] = born[s]
  <2>1. session[s].state = "active"
    <3>1. CASE s = self[r]
      BY <1>2, <1>5, <3>1, Saved DEF SessionCopyInv
    <3>2. CASE s # self[r]
      BY <1>1, <1>5, <3>2, Saved
    <3>3. QED
      BY <3>1, <3>2
  <2>2. QED
    BY <1>3, <1>5, <2>1, Saved
<1>6. ASSUME NEW r \in Requests, CreateSession(r), s # self'[r] PROVE s \in Bound /\ born'[s] = born[s]
  BY <1>1, <1>3, <1>6, Created
<1>7. ASSUME NEW r \in Requests, CreateSession(r), s = self'[r] PROVE Fresh(r, s)
  <2>1. copy[r] = account /\ \A q \in Requests : ~(op[q] = "ban" /\ pc[q] = "saveUser")
    BY <1>1, <1>7, Created
  <2>2. held[r] = copy[r].password /\ ~copy[r].disabled
    BY <1>7, Created DEF UserCopyInv
  <2>3. born'[s] = held[r] /\ UNCHANGED <<account, resetTo, banned, undone>>
    BY <1>7, Created
  <2>4. QED
    BY <1>7, <2>1, <2>2, <2>3 DEF Fresh
<1>8. ASSUME NEW r \in Requests, Revoke(r) PROVE s \in Bound /\ born'[s] = born[s]
  <2>1. s # self[r]
    BY <1>1, <1>8, Revoked
  <2>2. QED
    BY <1>1, <1>3, <1>8, <2>1, Revoked
<1>9. ASSUME UNCHANGED <<session, born>> PROVE s \in Bound /\ born'[s] = born[s]
  BY <1>1, <1>3, <1>9
<1>10. QED
  BY <1>1, <1>4, <1>5, <1>6, <1>7, <1>8, <1>9, Steps, DisconnectRests, StutterRests DEF Rests

LEMMA BoundShrinks ==
  ASSUME RowTypes, LocalTypes, HistoryTypes, AboutInv, SessionCopyInv, UserCopyInv, [Next]_vars,
         NEW r \in Requests, Step(r), ~CreateSession(r), NEW s \in Bound'
  PROVE  s \in Bound /\ born'[s] = born[s]
<1>1. SUFFICES ASSUME NEW q \in Requests, Fresh(q, s) PROVE FALSE
  BY BoundStep
<1>2. pc[q] = "create" /\ pc'[q] = "answer"
  BY <1>1, Created DEF Fresh
<1>3. q # r
  BY <1>1 DEF Fresh
<1>4. QED
  BY <1>2, <1>3, OthersStay

LEMMA BanPreserved ==
  ASSUME RowTypes, LocalTypes, HistoryTypes, AboutInv, SessionCopyInv, UserCopyInv, BanInv, [Next]_vars
  PROVE  BanInv'
<1> DEFINE Banning(q) ==
      op[q] = "ban" /\ ~undone =>
         /\ pc[q] \in Revoking \cup {"saveUser"} => Bound \subseteq victims[q]
         /\ pc[q] \in Revoking => account.disabled
<1>1. \A q \in Requests : Banning(q)
  BY DEF BanInv
<1>2. SUFFICES \A q \in Requests : Banning(q)'
  BY DEF BanInv
<1>3. ~undone' => ~undone /\ (account.disabled => account'.disabled)
  BY AccountGrows
<1>4. ASSUME NEW q \in Requests, pc'[q] = pc[q], op'[q] = op[q], victims'[q] = victims[q]
      PROVE  Banning(q)'
  <2>1. ASSUME op[q] = "ban", ~undone', pc[q] \in Revoking \cup {"saveUser"}, NEW s \in Bound'
        PROVE  s \in victims[q]
    <3>1. Bound \subseteq victims[q] /\ (pc[q] \in Revoking => account.disabled)
      BY <1>1, <1>3, <2>1
    <3>2. ASSUME NEW r \in Requests, Fresh(r, s) PROVE FALSE
      BY <2>1, <3>1, <3>2 DEF Fresh
    <3>3. QED
      BY <3>1, <3>2, BoundStep
  <2>2. ASSUME op[q] = "ban", ~undone', pc[q] \in Revoking PROVE account'.disabled
    BY <1>1, <1>3, <2>2
  <2>3. QED
    BY <1>4, <2>1, <2>2 DEF Revoking
<1>5. ASSUME NEW r \in Requests, Step(r), op'[r] = "ban", ~undone', pc'[r] \in Revoking \cup {"saveUser"}
      PROVE  /\ Bound' \subseteq victims'[r]
             /\ pc'[r] \in Revoking => account'.disabled
  <2>1. ASSUME ~CreateSession(r) PROVE Bound' \subseteq Bound
    BY <1>5, <2>1, BoundShrinks
  <2>2. ~CreateSession(r)
    BY <1>5, Created DEF Revoking
  <2>3. CASE SaveUser(r)
    <3>1. op[r] = "ban" /\ pc[r] = "saveUser" /\ victims' = victims
      BY <1>5, <2>3, SavedUser, Revoker DEF Revoking
    <3>2. account'.disabled
      BY <2>3, <3>1, SavedUser
    <3>3. QED
      BY <1>1, <1>3, <1>5, <2>1, <2>2, <3>1, <3>2
  <2>4. CASE List(r)
    <3>1. victims'[r] = Active /\ pc'[r] \notin Revoking
      BY <1>5, <2>4, Revoker DEF Revoking, List, ToRevoke, Goto, LocalTypes
    <3>2. QED
      BY <2>1, <2>2, <3>1 DEF Bound
  <2>5. CASE Take(r) \/ Revoke(r)
    <3>1. op[r] = "ban" /\ pc[r] \in Revoking /\ victims'[r] = victims[r]
      BY <1>5, <2>5, Revoker, Revoked DEF Take, Revoking, LocalTypes
    <3>2. Bound \subseteq victims[r] /\ account.disabled
      BY <1>1, <1>3, <1>5, <3>1
    <3>3. QED
      BY <1>3, <1>5, <2>1, <2>2, <3>1, <3>2
  <2>6. CASE DisconnectSession(r)
    <3>1. op[r] = "ban" /\ pc[r] = "disconnect" /\ victims'[r] = victims[r] \ {self[r]} /\ UNCHANGED <<session, crossed>>
      BY <2>6, <1>5, Forgotten DEF DisconnectSession, Withdraw, Goto, LocalTypes, rows, history
    <3>2. Bound \subseteq victims[r] /\ account.disabled
      BY <1>1, <1>3, <1>5, <3>1 DEF Revoking
    <3>3. self[r] \notin Bound
      BY <3>1 DEF SessionCopyInv, Bound, Active
    <3>4. QED
      BY <1>3, <1>5, <2>1, <2>2, <3>1, <3>2, <3>3
  <2>7. QED
    BY <1>5, <2>3, <2>4, <2>5, <2>6, Revoker DEF Revoking
<1>6. ASSUME NEW r \in Requests, Step(r) PROVE Banning(r)'
  BY <1>5, <1>6
<1>7. QED
  BY <1>4, <1>6, Steps, OthersStay, DisconnectRests, StutterRests

LEMMA FinishRests ==
  ASSUME NEW r \in Requests, Step(r), ~Finish(r)
  PROVE  UNCHANGED <<ended, resetTo, banned>>
BY DEF Step, Handle, DeviceCalls, AccountCalls, ReadSession, ReadUser, SaveSession, Answer, Join, ReadAccount,
   CreateSession, SaveUser, List, Find, Take, Revoke, DisconnectSession, Fail, history

LEMMA ResetPreserved ==
  ASSUME RowTypes, LocalTypes, HistoryTypes, AboutInv, SessionCopyInv, UserCopyInv, ResetInv, [Next]_vars
  PROVE  ResetInv'
<1> DEFINE Resets(q) ==
      op[q] = "reset" /\ pc[q] \in Revoking /\ ~undone =>
         \A s \in Bound \ victims[q] : born[s] >= copy[q].password
<1>1. \A q \in Requests : Resets(q)
  BY DEF ResetInv
<1>2. ~undone' => ~undone /\ account'.password >= account.password
  BY AccountGrows
<1>3. account.password \in Nat /\ account'.password \in Nat /\ \A q \in Requests : copy[q].password \in Nat
  <2>1. RowTypes'
    BY RowTypesPreserved
  <2>2. QED
    BY <2>1 DEF RowTypes, LocalTypes, Account
<1>4. ASSUME ~undone' PROVE resetTo' <= account'.password
  <2>1. ASSUME NEW r \in Requests, Finish(r) PROVE resetTo' <= account.password
    <3>1. op[r] = "reset" => copy[r].password <= account.password
      BY <1>2, <1>4, <2>1 DEF Finish, UserCopyInv
    <3>2. QED
      BY <1>2, <1>4, <2>1, <3>1 DEF Finish, ResetInv
  <2>2. ASSUME UNCHANGED resetTo PROVE resetTo' <= account.password
    BY <1>2, <1>4, <2>2 DEF ResetInv
  <2>3. resetTo' <= account.password
    BY <2>1, <2>2, Steps, FinishRests, DisconnectRests, StutterRests
  <2>4. resetTo' \in Nat
    BY HistoryTypesPreserved DEF HistoryTypes
  <2>5. QED
    BY <1>2, <1>3, <1>4, <2>3, <2>4
<1>5. ASSUME NEW q \in Requests, pc'[q] = pc[q], op'[q] = op[q], copy'[q] = copy[q], victims'[q] = victims[q]
      PROVE  Resets(q)'
  <2>1. SUFFICES ASSUME op[q] = "reset", pc[q] \in Revoking, ~undone', NEW s \in Bound' \ victims[q]
                 PROVE  born'[s] >= copy[q].password
    BY <1>5
  <2>2. CASE s \in Bound /\ born'[s] = born[s]
    BY <1>1, <1>2, <2>1, <2>2
  <2>3. ASSUME NEW r \in Requests, Fresh(r, s) PROVE born'[s] >= copy[q].password
    <3>1. born'[s] = account.password
      BY <2>3 DEF Fresh
    <3>2. copy[q].password <= account.password
      BY <1>2, <2>1 DEF UserCopyInv, Revoking
    <3>3. QED
      BY <1>3, <3>1, <3>2
  <2>4. QED
    BY <2>2, <2>3, BoundStep
<1>6. ASSUME NEW r \in Requests, Step(r), op'[r] = "reset", pc'[r] \in Revoking, ~undone',
             NEW s \in Bound' \ victims'[r]
      PROVE  born'[s] >= copy'[r].password
  <2>1. ~CreateSession(r)
    BY <1>6, Created DEF Revoking
  <2>2. s \in Bound /\ born'[s] = born[s]
    BY <1>6, <2>1, BoundShrinks
  <2>3. CASE List(r)
    <3>1. victims'[r] = Active
      BY <2>3 DEF List, ToRevoke, LocalTypes
    <3>2. QED
      BY <1>6, <2>2, <3>1 DEF Bound
  <2>4. CASE Take(r) \/ Revoke(r)
    <3>1. op[r] = "reset" /\ pc[r] \in Revoking /\ victims'[r] = victims[r] /\ copy' = copy
      BY <1>6, <2>4, Revoker, Revoked DEF Take, Revoking, LocalTypes
    <3>2. QED
      BY <1>1, <1>2, <1>6, <2>2, <3>1
  <2>5. CASE DisconnectSession(r)
    <3>1. /\ op[r] = "reset" /\ pc[r] = "disconnect" /\ victims'[r] = victims[r] \ {self[r]} /\ copy' = copy
      BY <2>5, <1>6 DEF DisconnectSession, Withdraw, Goto, LocalTypes
    <3>2. self[r] \notin Bound
      BY <3>1 DEF SessionCopyInv, Bound, Active
    <3>3. QED
      BY <1>1, <1>2, <1>6, <2>2, <3>1, <3>2 DEF Revoking
  <2>6. CASE SaveUser(r) \/ ReadAccount(r)
    <3>1. op[r] = "reset"
      BY <1>6, Revoker
    <3>2. pc'[r] \in {"list", "saveUser", "idle"}
      <4>1. CASE SaveUser(r)
        BY <3>1, <4>1, SavedUser
      <4>2. CASE ReadAccount(r)
        BY <3>1, <4>2, Forgotten DEF ReadAccount, Goto, LocalTypes
      <4>3. QED
        BY <2>6, <4>1, <4>2
    <3>3. QED
      BY <1>6, <3>2 DEF Revoking
  <2>7. QED
    BY <1>6, <2>3, <2>4, <2>5, <2>6, Revoker
<1>7. ASSUME NEW r \in Requests, Step(r) PROVE Resets(r)'
  BY <1>6, <1>7
<1>8. \A q \in Requests : Resets(q)'
  BY <1>5, <1>7, Steps, OthersStay, DisconnectRests, StutterRests
<1>9. QED
  BY <1>4, <1>8 DEF ResetInv

-----------------------------------------------------------------------------
(* What an answered revocation, reset and ban promise.                        *)

LEMMA RevocationPreserved ==
  ASSUME RowTypes, LocalTypes, HistoryTypes, AboutInv, SessionCopyInv, VictimInv, RevokedIsOver, [Next]_vars
  PROVE  RevokedIsOver'
<1>1. crossed \subseteq crossed'
  BY NotesGrow
<1>2. \A s \in ended \ crossed : Over(s)
  BY DEF RevokedIsOver, Over
<1>3. ASSUME NEW r \in Requests, Finish(r) PROVE \A s \in ended' \ crossed : s \in Sessions /\ Over(s)
  BY <1>2, <1>3 DEF Finish, VictimInv, Over, LocalTypes, HistoryTypes
<1>4. ASSUME UNCHANGED ended PROVE \A s \in ended' \ crossed : s \in Sessions /\ Over(s)
  BY <1>2, <1>4 DEF HistoryTypes
<1>5. \A s \in ended' \ crossed : s \in Sessions /\ Over(s)
  BY <1>3, <1>4, Steps, FinishRests, DisconnectRests, StutterRests
<1>6. \A s \in ended' \ crossed' : Over(s)'
  BY <1>1, <1>5, OverStays
<1>7. QED
  BY <1>6 DEF RevokedIsOver, Over

LEMMA ResetsPreserved ==
  ASSUME RowTypes, LocalTypes, HistoryTypes, AboutInv, SessionCopyInv, UserCopyInv, ResetInv,
         ResetEndsOldSessions, [Next]_vars
  PROVE  ResetEndsOldSessions'
<1>1. SUFFICES ASSUME ~undone', NEW s \in Bound' PROVE born'[s] >= resetTo'
  BY DEF ResetEndsOldSessions, Bound
<1>2. ~undone
  BY <1>1, AccountGrows
<1>3. s \in Bound => born[s] >= resetTo
  BY <1>2 DEF ResetEndsOldSessions, Bound
<1>4. ASSUME NEW r \in Requests, Fresh(r, s) PROVE born'[s] >= resetTo'
  BY <1>2, <1>4 DEF Fresh, ResetInv, HistoryTypes, RowTypes, Account
<1>5. CASE s \in Bound /\ born'[s] = born[s]
  <2>1. ASSUME NEW r \in Requests, Finish(r) PROVE born'[s] >= resetTo'
    <3>1. op[r] = "reset" => born[s] >= copy[r].password
      BY <1>2, <1>5, <2>1 DEF Finish, ResetInv, Revoking
    <3>2. QED
      BY <1>3, <1>5, <2>1, <3>1 DEF Finish
  <2>2. ASSUME UNCHANGED resetTo PROVE born'[s] >= resetTo'
    BY <1>3, <1>5, <2>2
  <2>3. QED
    BY <2>1, <2>2, Steps, FinishRests, DisconnectRests, StutterRests
<1>6. QED
  BY <1>4, <1>5, BoundStep

LEMMA BansPreserved ==
  ASSUME RowTypes, LocalTypes, HistoryTypes, AboutInv, SessionCopyInv, UserCopyInv, BanInv, BanIsFinal, [Next]_vars
  PROVE  BanIsFinal'
<1>1. SUFFICES ASSUME banned', ~undone' PROVE account'.disabled /\ Bound' = {}
  BY DEF BanIsFinal, Bound
<1>2. ~undone /\ (account.disabled => account'.disabled)
  BY <1>1, AccountGrows
<1>3. ASSUME NEW r \in Requests, Finish(r), ~banned PROVE account.disabled /\ Bound = {}
  <2>1. op[r] = "ban" /\ pc[r] = "take" /\ victims[r] = {}
    BY <1>1, <1>3, Zenon DEF Finish
  <2>2. QED
    BY <1>2, <2>1 DEF BanInv, Revoking
<1>4. banned => account.disabled /\ Bound = {}
  BY <1>2 DEF BanIsFinal, Bound
<1>5. ~banned => \E r \in Requests : Finish(r)
  BY <1>1, Steps, FinishRests, DisconnectRests, StutterRests
<1>6. account.disabled /\ Bound = {}
  BY <1>3, <1>4, <1>5
<1>7. Bound' = {}
  BY <1>6, BoundStep DEF Fresh
<1>8. QED
  BY <1>2, <1>6, <1>7

-----------------------------------------------------------------------------
(* The nonces.                                                                *)

\* How a request comes to an answer that carries a nonce.
LEMMA ToAnswer ==
  ASSUME LocalTypes, AboutInv, NEW r \in Requests, Step(r), pc'[r] = "answer"
  PROVE  (SaveSession(r) /\ op[r] = "refresh") \/ CreateSession(r)
<1>1. ~Forget(r)
  BY Forgotten
<1>2. CASE SaveSession(r)
  BY <1>2, SavedLocals
<1>3. CASE ~SaveSession(r)
  BY <1>1, <1>3 DEF Step, Handle, DeviceCalls, AccountCalls, ReadSession, ReadUser, Answer, Join, ReadAccount,
     SaveUser, List, Find, Take, Revoke, DisconnectSession, Withdraw, Finish, Fail, Goto, LocalTypes, AboutInv
<1>4. QED
  BY <1>2, <1>3

\* How a request comes to hold the nonce of a refresh.
LEMMA ToRefresh ==
  ASSUME LocalTypes, AboutInv, NEW r \in Requests, Step(r), op'[r] = "refresh"
  PROVE  \/ pc'[r] = "session" /\ self'[r] \in Sessions /\ held'[r] = device[self'[r]]
         \/ /\ op[r] = "refresh" /\ pc[r] \in {"session", "user", "save"} /\ self'[r] = self[r]
            /\ pc[r] = "session" => held[r] = session[self[r]].nonce
<1>1. ~Forget(r)
  BY Forgotten
<1>2. CASE \E o \in Operations, s \in Sessions : DeviceCalls(r, o, s)
  BY <1>2 DEF DeviceCalls, Goto, LocalTypes
<1>3. CASE \E o \in Operations : AccountCalls(r, o)
  BY <1>3 DEF AccountCalls, LocalTypes
<1>4. CASE ReadSession(r)
  BY <1>1, <1>4 DEF ReadSession, LocalTypes
<1>5. CASE ReadUser(r)
  BY <1>1, <1>5 DEF ReadUser, locals
<1>6. CASE SaveSession(r)
  <2>1. op[r] = "refresh"
    BY <1>6, SavedLocals
  <2>2. QED
    BY <1>6, <2>1, SavedLocals DEF SaveSession
<1>7. ASSUME Answer(r) \/ Join(r) \/ Finish(r) \/ Fail(r) PROVE Forget(r)
  BY <1>7 DEF Answer, Join, Finish, Fail
<1>8. CASE ReadAccount(r) \/ CreateSession(r) \/ SaveUser(r) \/ List(r) \/ Find(r)
           \/ Take(r) \/ Revoke(r) \/ DisconnectSession(r)
  <2>1. op'[r] = op[r]
    BY <1>1, <1>8 DEF ReadAccount, CreateSession, SaveUser, List, Find, Take, Revoke, DisconnectSession, locals
  <2>2. pc[r] \notin {"session", "user", "save", "answer"}
    BY <1>8 DEF ReadAccount, CreateSession, SaveUser, List, Find, Take, Revoke, DisconnectSession
  <2>3. QED
    BY <2>1, <2>2 DEF AboutInv
<1>9. QED
  BY <1>1, <1>2, <1>3, <1>4, <1>5, <1>6, <1>7, <1>8 DEF Step, Handle

\* The nonce of a device changes with an answer.
LEMMA DeviceStep ==
  ASSUME RowTypes, LocalTypes, NEW r \in Requests, Step(r), NEW s \in Sessions
  PROVE  \/ device'[s] = device[s]
         \/ Answer(r) /\ self[r] = s /\ device'[s] = held[r]
<1>1. CASE Answer(r)
  BY <1>1 DEF Answer, RowTypes
<1>2. CASE ~Answer(r)
  BY <1>2 DEF Step, Handle, DeviceCalls, AccountCalls, ReadSession, ReadUser, SaveSession, Join, ReadAccount,
     CreateSession, SaveUser, List, Find, Take, Revoke, DisconnectSession, Finish, Fail
<1>3. QED
  BY <1>1, <1>2

LEMMA IssuedPreserved ==
  ASSUME RowTypes, LocalTypes, HistoryTypes, AboutInv, IssuedInv, [Next]_vars
  PROVE  IssuedInv'
<1> DEFINE Holding == {"session", "user", "save", "revoke", "answer"}
<1>1. issued \in Nat /\ issued' \in Nat /\ \A q \in Requests : held[q] \in Nat
  BY RowTypesPreserved DEF RowTypes, LocalTypes
<1>2. \A s \in Sessions : /\ device[s] \in Nat /\ session[s].nonce \in Nat
                         /\ device'[s] \in Nat /\ session'[s].nonce \in Nat
  BY RowTypesPreserved DEF RowTypes, Session
<1>3. \A q \in Requests : held'[q] \in Nat
  BY LocalTypesPreserved DEF LocalTypes
<1>4. issued' >= issued
  <2>1. ASSUME NEW r \in Requests, Step(r) PROVE issued' >= issued
    BY <1>1, <2>1, SessionsRest, Saved, Created, Revoked DEF Rests
  <2>2. QED
    BY <1>1, <2>1, Steps, DisconnectRests, StutterRests
<1>5. ASSUME NEW s \in Sessions PROVE device'[s] <= issued'
  <2>1. device[s] <= issued
    BY DEF IssuedInv
  <2>2. ASSUME NEW r \in Requests, Answer(r), device'[s] = held[r] PROVE device'[s] <= issued
    BY <2>2 DEF Answer, IssuedInv
  <2>3. device'[s] <= issued
    BY <2>1, <2>2, Steps, DeviceStep, DisconnectRests, StutterRests
  <2>4. QED
    BY <1>1, <1>2, <1>4, <2>3
<1>6. ASSUME NEW s \in Sessions PROVE session'[s].nonce <= issued'
  <2>1. session[s].nonce <= issued'
    BY <1>1, <1>2, <1>4 DEF IssuedInv
  <2>2. ASSUME NEW r \in Requests, SaveSession(r) PROVE session'[s].nonce <= issued'
    <3>1. held[r] <= issued'
      <4>1. held[r] <= issued
        BY <2>2, Saved DEF IssuedInv
      <4>2. QED
        BY <1>1, <1>4, <4>1
    <3>2. s = self[r] => session'[s].nonce = issued' \/ session'[s].nonce = held[r]
      BY <2>2, Saved
    <3>3. s # self[r] => session'[s] = session[s]
      BY <2>2, Saved
    <3>4. QED
      BY <1>1, <2>1, <3>1, <3>2, <3>3
  <2>3. ASSUME NEW r \in Requests, CreateSession(r) PROVE session'[s].nonce <= issued'
    <3>1. s = self'[r] => session'[s].nonce = issued'
      BY <2>3, Created DEF Opened
    <3>2. s # self'[r] => session'[s] = session[s]
      BY <2>3, Created
    <3>3. QED
      BY <1>1, <2>1, <3>1, <3>2
  <2>4. ASSUME NEW r \in Requests, Revoke(r) PROVE session'[s].nonce <= issued'
    <3>1. held[r] <= issued /\ issued' = issued
      BY <2>4, Revoked DEF IssuedInv
    <3>2. s = self[r] => session'[s].nonce = held[r]
      BY <2>4, Revoked
    <3>3. s # self[r] => session'[s] = session[s]
      BY <2>4, Revoked
    <3>4. QED
      BY <2>1, <3>1, <3>2, <3>3
  <2>5. ASSUME UNCHANGED session PROVE session'[s].nonce <= issued'
    BY <2>1, <2>5
  <2>6. QED
    BY <2>2, <2>3, <2>4, <2>5, Steps, SessionsRest, DisconnectRests, StutterRests DEF Rests
<1>7. ASSUME NEW q \in Requests, pc'[q] = pc[q], held'[q] = held[q] PROVE pc'[q] \in Holding => held'[q] <= issued'
  BY <1>1, <1>4, <1>7 DEF IssuedInv
<1>8. ASSUME NEW r \in Requests, Step(r), pc'[r] \in Holding PROVE held'[r] <= issued'
  <2>1. ~Forget(r)
    BY <1>8, Forgotten
  <2>2. CASE SaveSession(r) \/ CreateSession(r)
    <3>1. pc'[r] = "answer"
      BY <1>8, <2>2, SavedLocals, Created
    <3>2. held'[r] = issued'
      BY <2>2, <3>1, SavedLocals, Saved, Created
    <3>3. QED
      BY <1>1, <3>2
  <2>3. CASE ReadSession(r)
    <3>1. held'[r] = session[self[r]].nonce /\ self[r] \in Sessions
      BY <2>1, <2>3 DEF ReadSession, AboutInv, LocalTypes
    <3>2. QED
      BY <1>1, <1>2, <1>4, <3>1 DEF IssuedInv
  <2>4. CASE Take(r)
    <3>1. PICK s \in Sessions : held'[r] = session[s].nonce
      BY <2>4 DEF Take, LocalTypes
    <3>2. QED
      BY <1>1, <1>2, <1>4, <3>1 DEF IssuedInv
  <2>5. CASE \E o \in Operations, s \in Sessions : DeviceCalls(r, o, s)
    <3>1. PICK o \in Operations, s \in Sessions : DeviceCalls(r, o, s)
      BY <2>5
    <3>2. held'[r] = device[s] \/ held'[r] = 0
      BY <3>1 DEF DeviceCalls, LocalTypes
    <3>3. QED
      BY <1>1, <1>2, <1>4, <3>2 DEF IssuedInv
  <2>6. CASE ReadUser(r)
    <3>1. pc[r] = "user" /\ held' = held
      BY <2>1, <2>6 DEF ReadUser, locals
    <3>2. QED
      BY <1>1, <1>4, <3>1 DEF IssuedInv
  <2>7. ASSUME Answer(r) \/ Join(r) \/ Finish(r) \/ Fail(r) PROVE Forget(r)
    BY <2>7 DEF Answer, Join, Finish, Fail
  <2>8. ~(ReadAccount(r) \/ SaveUser(r) \/ List(r) \/ Find(r) \/ Revoke(r) \/ DisconnectSession(r))
    BY <1>8, <2>1 DEF ReadAccount, SaveUser, List, Find, Revoke, DisconnectSession, Withdraw, Goto, LocalTypes, AboutInv
  <2>9. ~(\E o \in Operations : AccountCalls(r, o))
    BY <1>8 DEF AccountCalls, Goto, LocalTypes
  <2>10. QED
    BY <1>8, <2>1, <2>2, <2>3, <2>4, <2>5, <2>6, <2>7, <2>8, <2>9 DEF Step, Handle
<1>9. \A q \in Requests : pc'[q] \in Holding => held'[q] <= issued'
  BY <1>7, <1>8, Steps, OthersStay, DisconnectRests, StutterRests
<1>10. QED
  BY <1>5, <1>6, <1>9 DEF IssuedInv

\* What a step leaves of a session that nothing has crossed.
LEMMA CleanStays ==
  ASSUME RowTypes, LocalTypes, HistoryTypes, AboutInv, SessionCopyInv, [Next]_vars,
         NEW r \in Requests, Step(r), NEW s \in Clean', session[s].state # "none"
  PROVE  /\ s \in Clean
         /\ \/ session'[s].nonce = session[s].nonce
            \/ SaveSession(r) /\ self[r] = s /\ op[r] = "refresh"
         /\ CreateSession(r) => s # self'[r]
<1>1. s \in Sessions /\ session'[s].state = "active" /\ s \notin crossed' /\ s \notin raced'
  BY DEF Clean, Active
<1>2. s \notin crossed /\ s \notin raced
  BY <1>1, NotesGrow
<1>3. CASE Rests(r)
  BY <1>1, <1>2, <1>3, SessionsRest DEF Clean, Active, Rests
<1>4. CASE SaveSession(r)
  <2>1. CASE s = self[r]
    <3>1. session[s].state = "active" /\ held[r] = session[s].nonce
      BY <1>2, <1>4, <2>1, Saved DEF SessionCopyInv
    <3>2. op[r] # "refresh" => session'[s].nonce = held[r]
      BY <1>4, <2>1, Saved
    <3>3. s \in Clean /\ pc'[r] # "create" /\ pc[r] = "save"
      BY <1>1, <1>2, <1>4, <3>1, Saved, SavedLocals DEF Clean, Active
    <3>4. ~CreateSession(r)
      BY <3>3 DEF CreateSession
    <3>5. QED
      BY <1>4, <2>1, <3>1, <3>2, <3>3, <3>4
  <2>2. CASE s # self[r]
    <3>1. session'[s] = session[s] /\ pc[r] = "save"
      BY <1>1, <1>4, <2>2, Saved
    <3>2. ~CreateSession(r)
      BY <3>1 DEF CreateSession
    <3>3. QED
      BY <1>1, <1>2, <3>1, <3>2 DEF Clean, Active
  <2>3. QED
    BY <2>1, <2>2
<1>5. CASE CreateSession(r)
  <2>1. s # self'[r]
    BY <1>5, Created
  <2>2. session'[s] = session[s]
    BY <1>1, <1>5, <2>1, Created
  <2>3. QED
    BY <1>1, <1>2, <2>1, <2>2 DEF Clean, Active
<1>6. CASE Revoke(r)
  <2>1. s # self[r] /\ pc[r] = "revoke"
    BY <1>1, <1>6, Revoked
  <2>2. session'[s] = session[s]
    BY <1>1, <1>6, <2>1, Revoked
  <2>3. ~CreateSession(r)
    BY <2>1 DEF CreateSession
  <2>4. QED
    BY <1>1, <1>2, <2>2, <2>3 DEF Clean, Active
<1>7. QED
  BY <1>3, <1>4, <1>5, <1>6 DEF Rests

LEMMA AnswerPreserved ==
  ASSUME RowTypes, LocalTypes, HistoryTypes, AboutInv, OpenedInv, SessionCopyInv, IssuedInv, AnswerInv, [Next]_vars
  PROVE  AnswerInv'
<1> DEFINE Alone(a, q) ==
      self[q] = self[a] =>
         pc[q] # "answer" /\ (op[q] = "refresh" => pc[q] = "session" /\ held[q] < held[a])
<1> DEFINE Answering(a) ==
      pc[a] = "answer" /\ self[a] \in Clean =>
         /\ held[a] = session[self[a]].nonce /\ device[self[a]] < held[a]
         /\ \A q \in Requests \ {a} : Alone(a, q)
<1>1. \A a \in Requests : Answering(a)
  BY DEF AnswerInv
<1>2. SUFFICES \A a \in Requests : Answering(a)'
  BY DEF AnswerInv
<1>3. /\ issued \in Nat /\ \A q \in Requests : held[q] \in Nat
      /\ \A s \in Sessions : device[s] \in Nat /\ session[s].nonce \in Nat
  BY DEF RowTypes, LocalTypes, Session
\* The answer of another request than the one that steps.
<1>4. ASSUME NEW r \in Requests, Step(r), NEW a \in Requests \ {r}, pc'[a] = "answer", self'[a] \in Clean'
      PROVE  /\ held'[a] = session'[self'[a]].nonce /\ device'[self'[a]] < held'[a]
             /\ \A q \in Requests \ {a} : Alone(a, q)'
  <2>1. pc[a] = "answer" /\ self'[a] = self[a] /\ held'[a] = held[a]
    BY <1>4, OthersStay
  <2>2. self[a] \in Sessions /\ session[self[a]].state # "none"
    BY <2>1 DEF AboutInv, OpenedInv
  <2>3. /\ self[a] \in Clean
        /\ \/ session'[self[a]].nonce = session[self[a]].nonce
           \/ SaveSession(r) /\ self[r] = self[a] /\ op[r] = "refresh"
        /\ CreateSession(r) => self[a] # self'[r]
    BY <1>4, <2>1, <2>2, CleanStays
  <2>4. /\ held[a] = session[self[a]].nonce /\ device[self[a]] < held[a]
        /\ \A q \in Requests \ {a} : Alone(a, q)
    BY <1>1, <2>1, <2>3
  <2>5. self[r] = self[a] => pc[r] # "answer" /\ (op[r] = "refresh" => pc[r] = "session" /\ held[r] < held[a])
    BY <1>4, <2>4
  <2>6. held'[a] = session'[self'[a]].nonce
    BY <2>1, <2>3, <2>4, <2>5, Saved
  <2>7. device'[self[a]] = device[self[a]]
    BY <1>4, <2>2, <2>5, DeviceStep DEF Answer
  <2>8. ASSUME NEW q \in Requests \ {a, r} PROVE Alone(a, q)'
    BY <1>4, <2>1, <2>4, <2>8, OthersStay
  <2>9. ASSUME self'[r] = self[a] PROVE pc'[r] # "answer"
    <3>1. SUFFICES ASSUME SaveSession(r), op[r] = "refresh" PROVE FALSE
      BY <1>4, <2>3, <2>9, ToAnswer
    <3>2. self'[r] = self[r] /\ pc[r] = "save"
      BY <3>1, SavedLocals, Saved
    <3>3. QED
      BY <2>5, <2>9, <3>1, <3>2
  <2>10. ASSUME self'[r] = self[a], op'[r] = "refresh" PROVE pc'[r] = "session" /\ held'[r] < held[a]
    <3>1. CASE pc'[r] = "session" /\ held'[r] = device[self'[r]]
      BY <2>4, <2>10, <3>1
    <3>2. CASE /\ op[r] = "refresh" /\ pc[r] \in {"session", "user", "save"} /\ self'[r] = self[r]
               /\ pc[r] = "session" => held[r] = session[self[r]].nonce
      <4>1. pc[r] = "session" /\ held[r] < held[a] /\ held[r] = held[a]
        BY <2>4, <2>5, <2>10, <3>2
      <4>2. QED
        BY <1>3, <4>1
    <3>3. QED
      BY <1>4, <2>10, <3>1, <3>2, ToRefresh
  <2>11. QED
    BY <2>1, <2>4, <2>6, <2>7, <2>8, <2>9, <2>10
\* A request that comes to its answer.
<1>5. ASSUME NEW r \in Requests, SaveSession(r), op[r] = "refresh", Step(r), self'[r] \in Clean'
      PROVE  /\ held'[r] = session'[self'[r]].nonce /\ device'[self'[r]] < held'[r]
             /\ \A q \in Requests \ {r} : Alone(r, q)'
  <2>1. /\ pc[r] = "save" /\ self[r] \in Sessions /\ pc'[r] = "answer" /\ self'[r] = self[r] /\ held'[r] = issued + 1
        /\ session'[self[r]].nonce = issued + 1 /\ device' = device
    BY <1>5, Saved, SavedLocals
  <2>2. self[r] \notin crossed /\ self[r] \notin raced /\ self[r] \notin raced'
    BY <1>5, <2>1, NotesGrow DEF Clean
  <2>3. self[r] \in Clean
    BY <2>1, <2>2 DEF SessionCopyInv, Clean, Active
  <2>4. Using(self[r], {"user", "save"}) = {r}
    BY <1>5, <2>2, Saved
  <2>5. device[self[r]] < issued + 1
    BY <1>3, <2>1 DEF IssuedInv
  <2>6. ASSUME NEW q \in Requests \ {r}, self[q] = self[r] PROVE pc[q] # "answer"
    <3>1. SUFFICES ASSUME pc[q] = "answer" PROVE FALSE
      OBVIOUS
    <3>2. Alone(q, r)
      BY <1>1, <2>3, <2>6, <3>1
    <3>3. QED
      BY <1>5, <2>1, <2>6, <3>2
  <2>7. ASSUME NEW q \in Requests \ {r}, self[q] = self[r], op[q] = "refresh"
        PROVE  pc[q] = "session" /\ held[q] < issued + 1
    <3>1. pc[q] \notin {"user", "save"}
      BY <2>4, <2>7 DEF Using
    <3>2. pc[q] = "session"
      BY <2>6, <2>7, <3>1 DEF AboutInv
    <3>3. QED
      BY <1>3, <3>2 DEF IssuedInv
  <2>8. ASSUME NEW q \in Requests \ {r} PROVE Alone(r, q)'
    BY <1>5, <2>1, <2>6, <2>7, <2>8, OthersStay
  <2>9. QED
    BY <2>1, <2>5, <2>8
<1>6. ASSUME NEW r \in Requests, CreateSession(r), Step(r)
      PROVE  /\ held'[r] = session'[self'[r]].nonce /\ device'[self'[r]] < held'[r]
             /\ \A q \in Requests \ {r} : Alone(r, q)'
  <2>1. /\ self'[r] \in Sessions /\ session[self'[r]].state = "none" /\ held'[r] = issued + 1
        /\ session'[self'[r]].nonce = issued + 1 /\ device' = device
    BY <1>6, Created DEF Opened
  <2>2. device[self'[r]] < issued + 1
    BY <1>3, <2>1 DEF IssuedInv
  <2>3. ASSUME NEW q \in Requests \ {r}, self[q] = self'[r]
        PROVE  pc[q] # "answer" /\ op[q] # "refresh"
    BY <2>1, <2>3 DEF OpenedInv, AboutInv
  <2>4. ASSUME NEW q \in Requests \ {r} PROVE Alone(r, q)'
    BY <1>6, <2>3, <2>4, OthersStay
  <2>5. QED
    BY <2>1, <2>2, <2>4
<1>7. ASSUME NEW r \in Requests, Step(r) PROVE \A a \in Requests : Answering(a)'
  <2>1. Answering(r)'
    BY <1>5, <1>6, <1>7, ToAnswer
  <2>2. \A a \in Requests \ {r} : Answering(a)'
    BY <1>4, <1>7
  <2>3. QED
    BY <2>1, <2>2
<1>8. ASSUME UNCHANGED <<session, device, pc, op, self, held, crossed, raced>>
      PROVE  \A a \in Requests : Answering(a)'
  BY <1>1, <1>8 DEF Clean, Active
<1>9. QED
  BY <1>7, <1>8, Steps, DisconnectRests, StutterRests

LEMMA RefreshPreserved ==
  ASSUME RowTypes, LocalTypes, HistoryTypes, AboutInv, SessionCopyInv, AnswerInv, DeviceCanRefresh, [Next]_vars
  PROVE  DeviceCanRefresh'
<1> DEFINE Coming(s) == \E r \in Requests : self[r] = s /\ pc[r] = "answer"
<1>1. SUFFICES ASSUME NEW s \in Clean', s \notin lost' PROVE device'[s] = session'[s].nonce \/ Coming(s)'
  BY DEF DeviceCanRefresh, Clean
<1>2. s \in Sessions
  BY DEF Clean, Active
<1>3. ASSUME NEW r \in Requests, Step(r) PROVE device'[s] = session'[s].nonce \/ Coming(s)'
  <2>1. CASE CreateSession(r) /\ s = self'[r]
    BY <2>1, Created
  <2>2. CASE SaveSession(r) /\ self[r] = s /\ op[r] = "refresh"
    BY <2>2, SavedLocals
  <2>3. CASE /\ ~(CreateSession(r) /\ s = self'[r])
             /\ ~(SaveSession(r) /\ self[r] = s /\ op[r] = "refresh")
    <3>1. session[s].state # "none"
      <4>1. CASE SaveSession(r)
        BY <1>1, <1>2, <4>1, Saved DEF SessionCopyInv, Clean, Active
      <4>2. CASE CreateSession(r)
        BY <1>1, <1>2, <2>3, <4>2, Created DEF Clean, Active
      <4>3. CASE Revoke(r)
        BY <1>1, <1>2, <4>3, Revoked DEF Clean, Active
      <4>4. CASE Rests(r)
        BY <1>1, <1>3, <4>4, SessionsRest DEF Clean, Active
      <4>5. QED
        BY <4>1, <4>2, <4>3, <4>4 DEF Rests
    <3>2. s \in Clean /\ session'[s].nonce = session[s].nonce
      BY <1>3, <2>3, <3>1, CleanStays
    <3>3. CASE Answer(r) /\ self[r] = s
      <4>1. held[r] = session[s].nonce
        BY <3>2, <3>3 DEF Answer, AnswerInv
      <4>2. device'[s] = held[r]
        BY <1>2, <3>3 DEF Answer, RowTypes
      <4>3. QED
        BY <3>2, <4>1, <4>2
    <3>4. CASE ~(Answer(r) /\ self[r] = s)
      <4>1. device'[s] = device[s]
        BY <1>2, <1>3, <3>4, DeviceStep
      <4>2. s \notin lost
        <5>1. lost \subseteq lost'
          BY <1>3 DEF Step, Handle, DeviceCalls, AccountCalls, ReadSession, ReadUser, SaveSession, Answer, Join,
             ReadAccount, CreateSession, SaveUser, List, Find, Take, Revoke, DisconnectSession, Finish, Fail, history
        <5>2. QED
          BY <1>1, <5>1
      <4>3. device[s] = session[s].nonce \/ Coming(s)
        BY <3>2, <4>2 DEF DeviceCanRefresh, Clean
      <4>4. ASSUME NEW a \in Requests, self[a] = s, pc[a] = "answer"
            PROVE  self'[a] = s /\ pc'[a] = "answer"
        <5>1. CASE a # r
          BY <1>3, <4>4, <5>1, OthersStay
        <5>2. CASE a = r
          <6>1. Answer(r) \/ Fail(r)
            BY <1>3, <4>4, <5>2 DEF Step, Handle, DeviceCalls, AccountCalls, ReadSession, ReadUser, SaveSession, Join,
               ReadAccount, CreateSession, SaveUser, List, Find, Take, Revoke, DisconnectSession, Finish
          <6>2. ~Fail(r)
            BY <1>1, <4>4, <5>2 DEF Fail
          <6>3. QED
            BY <3>4, <4>4, <5>2, <6>1, <6>2
        <5>3. QED
          BY <5>1, <5>2
      <4>5. QED
        BY <3>2, <4>1, <4>3, <4>4
    <3>5. QED
      BY <3>3, <3>4
  <2>4. QED
    BY <2>1, <2>2, <2>3
<1>4. ASSUME UNCHANGED <<session, device, pc, self, crossed, raced, lost>>
      PROVE  device'[s] = session'[s].nonce \/ Coming(s)'
  <2>1. s \in Clean /\ s \notin lost
    BY <1>1, <1>4 DEF Clean, Active
  <2>2. QED
    BY <1>4, <2>1 DEF DeviceCanRefresh, Clean
<1>5. QED
  BY <1>3, <1>4, Steps, DisconnectRests, StutterRests

-----------------------------------------------------------------------------
LEMMA StepInductive == Inductive /\ [Next]_vars => Inductive'
<1> SUFFICES ASSUME Inductive, [Next]_vars PROVE Inductive'
  OBVIOUS
<1>1. RowTypes /\ LocalTypes /\ HistoryTypes
  BY TypesSplit DEF Inductive
<1>2. /\ AboutInv /\ OpenedInv /\ SessionCopyInv /\ VictimInv /\ UserCopyInv /\ BanInv /\ ResetInv
      /\ IssuedInv /\ AnswerInv
      /\ RevokedIsOver /\ ResetEndsOldSessions /\ BanIsFinal /\ DeviceCanRefresh
  BY DEF Inductive
<1>3. TypeOK'
  BY <1>1, <1>2, RowTypesPreserved, LocalTypesPreserved, HistoryTypesPreserved, TypesSplit
  DEF TypeOK, RowTypes, LocalTypes, HistoryTypes
<1>4. AboutInv' /\ OpenedInv' /\ SessionCopyInv' /\ VictimInv' /\ UserCopyInv'
  BY <1>1, <1>2, AboutPreserved, OpenedPreserved, SessionCopyPreserved, VictimPreserved, UserCopyPreserved
<1>5. BanInv' /\ ResetInv' /\ IssuedInv' /\ AnswerInv'
  BY <1>1, <1>2, BanPreserved, ResetPreserved, IssuedPreserved, AnswerPreserved
<1>6. RevokedIsOver' /\ ResetEndsOldSessions' /\ BanIsFinal' /\ DeviceCanRefresh'
  BY <1>1, <1>2, RevocationPreserved, ResetsPreserved, BansPreserved, RefreshPreserved
<1>7. QED
  BY <1>3, <1>4, <1>5, <1>6 DEF Inductive

LEMMA AlwaysInductive == Spec => []Inductive
BY InitInductive, StepInductive, PTL DEF Spec

\* The rows, the tokens and what every handler holds have their types, however
\* many handlers overlap.
THEOREM TypeCorrect == Spec => []TypeOK
<1>1. Inductive => TypeOK
  BY DEF Inductive
<1>2. QED
  BY <1>1, AlwaysInductive, PTL

\* A session whose revocation was answered stays revoked and off its socket,
\* whatever overlaps, unless the revocation crossed a call of the session itself
\* (revokeSession and disconnectSession, auth.repository.ts and chat.gateway.ts).
THEOREM RevocationsLast == Spec => []RevokedIsOver
<1>1. Inductive => RevokedIsOver
  BY DEF Inductive
<1>2. QED
  BY <1>1, AlwaysInductive, PTL

\* After an answered password reset only sessions opened with that password or a
\* later one are active, whatever overlaps, unless a user row was saved stale, a
\* login had checked the old password or a call of the session was under way.
THEOREM ResetsEndSessions == Spec => []ResetEndsOldSessions
<1>1. Inductive => ResetEndsOldSessions
  BY DEF Inductive
<1>2. QED
  BY <1>1, AlwaysInductive, PTL

\* After an answered ban the account is disabled and no session is active,
\* whatever overlaps, unless a user row was saved stale, a login slipped in behind
\* the list of sessions or a call of the session was under way.
THEOREM BansLast == Spec => []BanIsFinal
<1>1. Inductive => BanIsFinal
  BY DEF Inductive
<1>2. QED
  BY <1>1, AlwaysInductive, PTL

\* A device that lost no answer can refresh, whatever overlaps, unless its session
\* was refreshed or revoked while another call of the session was under way.
THEOREM DevicesCanRefresh == Spec => []DeviceCanRefresh
<1>1. Inductive => DeviceCanRefresh
  BY DEF Inductive
<1>2. QED
  BY <1>1, AlwaysInductive, PTL
=============================================================================
