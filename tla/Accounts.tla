------------------------------ MODULE Accounts ------------------------------
(* One account: its row, its device sessions and their realtime sockets,      *)
(* under the requests of the devices and of an administrator.                 *)
(*                                                                            *)
(* The repositories read whole rows and write whole rows back (saveUser,      *)
(* saveSession): a request keeps the copies it has read, and whatever changed *)
(* in the row between its read and its write is overwritten.  Every await is  *)
(* a step; a request may fail at any of them, or its process may die.         *)
(*                                                                            *)
(* A handler that can run is an element of Requests: with one element the     *)
(* requests come one at a time, with two they overlap.                        *)
EXTENDS Naturals, FiniteSets

CONSTANTS
    Requests,    \* handlers that can run at the same time
    Sessions,    \* ids of device sessions
    NoSession,   \* the request has no session
    MaxPassword, \* bound: passwords set
    MaxNonce     \* bound: refresh nonces issued

ASSUME SessionAssumption == NoSession \notin Sessions
ASSUME BoundAssumption == MaxPassword \in Nat /\ MaxNonce \in Nat

\* What the devices ask: any call that only passes the AccessTokenGuard, a
\* profile update, revoking a session, logging out, opening the socket; the
\* calls without an access token; and what the administrator asks.
Guarded == {"touch", "profile", "revoke", "logout", "connect"}
Operations == Guarded \cup {"refresh", "login", "reset", "ban", "kick"}

VARIABLES
    account,  \* the user row: password and disabledAt
    session,  \* the device session rows: state and refreshNonce
    room,     \* the sessions whose socket is in their session room
    device,   \* the refresh nonce each device has received last
    issued,   \* how many nonces were issued
    pc,       \* the call a request makes next
    op,       \* what it does
    self,     \* the session of its token
    held,     \* the nonce or password presented, then the nonce of its copy
    copy,     \* the user row it has read
    victims,  \* the sessions it still has to revoke
    listed,   \* the sessions it was to revoke
    born,     \* history: the password a session was opened with
    lost,     \* history: sessions whose device missed an answer with a nonce
    ended,    \* history: sessions revoked by a request that was answered
    resetTo,  \* history: the password of the last reset that was answered
    banned,   \* history: was a ban answered
    crossed,  \* history: sessions revoked while another call of theirs went on
    raced,    \* history: sessions refreshed while another call of theirs went on
    slipped,  \* history: sessions opened with a user row that has changed
    undone    \* history: has a user row been saved that had changed meanwhile

rows == <<account, session, issued>>
locals == <<op, self, held, copy, victims, listed>>
history == <<born, lost, ended, resetTo, banned, crossed, raced, slipped, undone>>
vars == <<rows, room, device, pc, locals, history>>

Account == [password : Nat, disabled : BOOLEAN]
Session == [state : {"none", "active", "revoked"}, nonce : Nat]
Locations ==
    {"idle", "session", "user", "save", "find", "account", "saveUser", "list",
     "create", "take", "revoke", "disconnect", "join", "answer"}
Active == {s \in Sessions : session[s].state = "active"}

Init ==
    /\ account = [password |-> 0, disabled |-> FALSE]
    /\ session = [s \in Sessions |-> [state |-> "none", nonce |-> 0]]
    /\ room = {}
    /\ device = [s \in Sessions |-> 0]
    /\ issued = 0
    /\ pc = [r \in Requests |-> "idle"]
    /\ op = [r \in Requests |-> "touch"]
    /\ self = [r \in Requests |-> NoSession]
    /\ held = [r \in Requests |-> 0]
    /\ copy = [r \in Requests |-> account]
    /\ victims = [r \in Requests |-> {}]
    /\ listed = [r \in Requests |-> {}]
    /\ born = [s \in Sessions |-> 0]
    /\ lost = {}
    /\ ended = {}
    /\ resetTo = 0
    /\ banned = FALSE
    /\ crossed = {}
    /\ raced = {}
    /\ slipped = {}
    /\ undone = FALSE

\* The requests of a session that are at one of the places L, and so have a copy
\* of its row.
Using(s, L) == {r \in Requests : self[r] = s /\ pc[r] \in L}

Goto(r, l) == pc' = [pc EXCEPT ![r] = l]

\* The request ends: with an answer, refused, or by a failure.
Forget(r) ==
    /\ Goto(r, "idle")
    /\ op' = [op EXCEPT ![r] = "touch"]
    /\ self' = [self EXCEPT ![r] = NoSession]
    /\ held' = [held EXCEPT ![r] = 0]
    /\ copy' = [copy EXCEPT ![r] = [password |-> 0, disabled |-> FALSE]]
    /\ victims' = [victims EXCEPT ![r] = {}]
    /\ listed' = [listed EXCEPT ![r] = {}]

-----------------------------------------------------------------------------
(* Requests arrive.                                                           *)

\* A device calls with the tokens it holds.
DeviceCalls(r, o, s) ==
    /\ pc[r] = "idle"
    /\ o \in Guarded \cup {"refresh"}
    /\ device[s] # 0
    /\ op' = [op EXCEPT ![r] = o]
    /\ self' = [self EXCEPT ![r] = s]
    /\ held' = [held EXCEPT ![r] = IF o = "refresh" THEN device[s] ELSE 0]
    /\ Goto(r, "session")
    /\ UNCHANGED <<rows, room, device, copy, victims, listed, history>>

\* Somebody logs in with the password of the moment, or proves to own the
\* account with a code, or the administrator acts.
AccountCalls(r, o) ==
    /\ pc[r] = "idle"
    /\ o \in {"login", "reset", "ban", "kick"}
    /\ op' = [op EXCEPT ![r] = o]
    /\ held' = [held EXCEPT ![r] = IF o = "login" THEN account.password ELSE 0]
    /\ Goto(r, IF o = "kick" THEN "find" ELSE "account")
    /\ UNCHANGED <<rows, room, device, self, copy, victims, listed, history>>

-----------------------------------------------------------------------------
(* AccessTokenGuard, authenticateClient and refresh share their reads.        *)

ReadSession(r) ==
    /\ pc[r] = "session"
    /\ LET s == session[self[r]] IN
       IF s.state # "active" \/ (op[r] = "refresh" /\ s.nonce # held[r])
       THEN Forget(r)
       ELSE /\ held' = [held EXCEPT ![r] = s.nonce]
            /\ Goto(r, "user")
            /\ UNCHANGED <<op, self, copy, victims, listed>>
    /\ UNCHANGED <<rows, room, device, history>>

ReadUser(r) ==
    /\ pc[r] = "user"
    /\ IF account.disabled
       THEN Forget(r)
       ELSE Goto(r, "save") /\ UNCHANGED locals
    /\ UNCHANGED <<rows, room, device, history>>

AfterGuard(o) ==
    CASE o = "profile" -> "account"
      [] o = "revoke"  -> "find"
      [] o = "logout"  -> "take"
      [] o = "connect" -> "join"
      [] o = "refresh" -> "answer"

ToRevoke(r, S) ==
    /\ victims' = [victims EXCEPT ![r] = S]
    /\ listed' = [listed EXCEPT ![r] = S]

\* Faulty variant: every call of a device rotates the nonce.
SaveSessionRotating(r) ==
    /\ pc[r] = "save"
    /\ issued < MaxNonce
    /\ LET nonce == issued + 1 IN
       /\ issued' = nonce
       /\ session' = [session EXCEPT ![self[r]] = [state |-> "active", nonce |-> nonce]]
       /\ IF op[r] = "touch" THEN Forget(r)
          ELSE /\ Goto(r, AfterGuard(op[r]))
               /\ ToRevoke(r, IF op[r] = "logout" THEN {self[r]} ELSE {})
               /\ self' = IF op[r] \in {"refresh", "connect"} THEN self ELSE [self EXCEPT ![r] = NoSession]
               /\ held' = [held EXCEPT ![r] = IF op[r] = "refresh" THEN nonce ELSE 0]
               /\ UNCHANGED <<op, copy>>
    /\ UNCHANGED <<account, room, device, history>>

\* saveSession writes the copy back, with the time of the visit; a refresh puts
\* a new nonce in it.
SaveSession(r) ==
    /\ pc[r] = "save"
    /\ issued < MaxNonce \/ op[r] # "refresh"
    /\ LET nonce == IF op[r] = "refresh" THEN issued + 1 ELSE held[r] IN
       /\ issued' = IF op[r] = "refresh" THEN issued + 1 ELSE issued
       /\ session' = [session EXCEPT ![self[r]] = [state |-> "active", nonce |-> nonce]]
       /\ IF op[r] = "touch" THEN Forget(r)
          ELSE /\ Goto(r, AfterGuard(op[r]))
               /\ ToRevoke(r, IF op[r] = "logout" THEN {self[r]} ELSE {})
               /\ self' = IF op[r] \in {"refresh", "connect"} THEN self ELSE [self EXCEPT ![r] = NoSession]
               /\ held' = [held EXCEPT ![r] = IF op[r] = "refresh" THEN nonce ELSE 0]
               /\ UNCHANGED <<op, copy>>
       /\ raced' = IF op[r] = "refresh" /\ Using(self[r], {"user", "save"}) # {r}
                   THEN raced \cup {self[r]} ELSE raced
    /\ UNCHANGED <<account, room, device>>
    /\ UNCHANGED <<born, lost, ended, resetTo, banned, crossed, slipped, undone>>

\* The answer to a login or a refresh carries the nonce to the device.
Answer(r) ==
    /\ pc[r] = "answer"
    /\ device' = [device EXCEPT ![self[r]] = held[r]]
    /\ Forget(r)
    /\ UNCHANGED <<rows, room, history>>

\* The socket joins the session's room.
Join(r) ==
    /\ pc[r] = "join"
    /\ room' = room \cup {self[r]}
    /\ Forget(r)
    /\ UNCHANGED <<rows, device, history>>

Disconnect(s) ==
    /\ s \in room
    /\ room' = room \ {s}
    /\ UNCHANGED <<rows, device, pc, locals, history>>

-----------------------------------------------------------------------------
(* Login, reset, ban, revocation.                                             *)

\* Faulty variant: a login does not look at disabledAt.
ReadAccountOfAnyone(r) ==
    /\ pc[r] = "account"
    /\ IF (account.disabled /\ op[r] # "login") \/ (op[r] = "login" /\ account.password # held[r])
       THEN Forget(r)
       ELSE /\ copy' = [copy EXCEPT ![r] = account]
            /\ Goto(r, CASE op[r] = "login" -> "create"
                         [] op[r] = "ban" -> "list"
                         [] op[r] \in {"profile", "reset"} -> "saveUser")
            /\ UNCHANGED <<op, self, held, victims, listed>>
    /\ UNCHANGED <<rows, room, device, history>>

\* The user row is read; a disabled account, and a login with another password,
\* are refused.
ReadAccount(r) ==
    /\ pc[r] = "account"
    /\ IF account.disabled \/ (op[r] = "login" /\ account.password # held[r])
       THEN Forget(r)
       ELSE /\ copy' = [copy EXCEPT ![r] = account]
            /\ Goto(r, CASE op[r] = "login" -> "create"
                         [] op[r] = "ban" -> "list"
                         [] op[r] \in {"profile", "reset"} -> "saveUser")
            /\ UNCHANGED <<op, self, held, victims, listed>>
    /\ UNCHANGED <<rows, room, device, history>>

Opened(nonce) == [state |-> "active", nonce |-> nonce]

\* A login opens a session with a nonce of its own.
CreateSession(r) ==
    /\ pc[r] = "create"
    /\ issued < MaxNonce
    /\ issued' = issued + 1
    /\ \E s \in Sessions :
          /\ session[s].state = "none"
          /\ session' = [session EXCEPT ![s] = Opened(issued + 1)]
          /\ born' = [born EXCEPT ![s] = held[r]]
          /\ self' = [self EXCEPT ![r] = s]
          /\ slipped' = IF copy[r] # account \/ \E q \in Requests : op[q] = "ban" /\ pc[q] = "saveUser"
                        THEN slipped \cup {s} ELSE slipped
    /\ held' = [held EXCEPT ![r] = issued + 1]
    /\ Goto(r, "answer")
    /\ UNCHANGED <<account, room, device, op, copy, victims, listed>>
    /\ UNCHANGED <<lost, ended, resetTo, banned, crossed, raced, undone>>

\* A profile and the mark on viewed requests change columns the model leaves out.
Changed(r) ==
    [copy[r] EXCEPT !.password = IF op[r] = "reset" THEN @ + 1 ELSE @,
                    !.disabled = IF op[r] = "ban" THEN TRUE ELSE @]

\* saveUser writes the copy back with what the request changes in it.
SaveUser(r) ==
    /\ pc[r] = "saveUser"
    /\ copy[r].password < MaxPassword \/ op[r] # "reset"
    /\ account' = Changed(r)
    /\ undone' = (undone \/ copy[r] # account)
    /\ IF op[r] = "profile"
       THEN Forget(r)
       ELSE /\ copy' = [copy EXCEPT ![r] = Changed(r)]
            /\ Goto(r, IF op[r] = "reset" THEN "list" ELSE "take")
            /\ UNCHANGED <<op, self, held, victims, listed>>
    /\ UNCHANGED <<session, issued, room, device>>
    /\ UNCHANGED <<born, lost, ended, resetTo, banned, crossed, raced, slipped>>

\* Faulty variant: one session is taken for the only one.
ListOne(r) ==
    /\ pc[r] = "list"
    /\ \E S \in SUBSET Active : Cardinality(S) <= 1 /\ (S = {} <=> Active = {}) /\ ToRevoke(r, S)
    /\ Goto(r, IF op[r] = "reset" THEN "take" ELSE "saveUser")
    /\ UNCHANGED <<rows, room, device, op, self, held, copy, history>>

\* listActiveSessionsByUserId: a reset lists after it has saved the password, a
\* ban before it saves disabledAt.
List(r) ==
    /\ pc[r] = "list"
    /\ ToRevoke(r, Active)
    /\ Goto(r, IF op[r] = "reset" THEN "take" ELSE "saveUser")
    /\ UNCHANGED <<rows, room, device, op, self, held, copy, history>>

\* The session to revoke is looked up before it is revoked.
Find(r) ==
    /\ pc[r] = "find"
    /\ \E s \in Sessions :
          IF session[s].state = "active"
          THEN /\ ToRevoke(r, {s})
               /\ Goto(r, "take")
               /\ UNCHANGED <<op, self, held, copy>>
          ELSE Forget(r)
    /\ UNCHANGED <<rows, room, device, history>>

\* AuthRepository.revokeSession reads the session, unless it is revoked already,
Take(r) ==
    /\ pc[r] = "take"
    /\ \E s \in victims[r] :
          /\ self' = [self EXCEPT ![r] = s]
          /\ held' = [held EXCEPT ![r] = session[s].nonce]
          /\ Goto(r, IF session[s].state = "active" THEN "revoke" ELSE "disconnect")
    /\ UNCHANGED <<rows, room, device, op, copy, victims, listed, history>>

\* Faulty variant: the row is written without the fields of the copy.
RevokeBare(r) ==
    /\ pc[r] = "revoke"
    /\ session' = [session EXCEPT ![self[r]] = [state |-> "revoked"]]
    /\ Goto(r, "disconnect")
    /\ UNCHANGED <<account, issued, room, device, locals, history>>

\* and writes it back revoked.
Revoke(r) ==
    /\ pc[r] = "revoke"
    /\ session' = [session EXCEPT ![self[r]] = [state |-> "revoked", nonce |-> held[r]]]
    /\ Goto(r, "disconnect")
    /\ crossed' = IF Using(self[r], {"user", "save", "join"}) # {}
                  THEN crossed \cup {self[r]} ELSE crossed
    /\ UNCHANGED <<account, issued, room, device, locals>>
    /\ UNCHANGED <<born, lost, ended, resetTo, banned, raced, slipped, undone>>

\* The session is done with, and the next one is taken.
Withdraw(r) ==
    /\ victims' = [victims EXCEPT ![r] = @ \ {self[r]}]
    /\ self' = [self EXCEPT ![r] = NoSession]
    /\ held' = [held EXCEPT ![r] = 0]
    /\ Goto(r, "take")

\* Faulty variant: only the session's row is revoked.
DisconnectNobody(r) ==
    /\ pc[r] = "disconnect"
    /\ Withdraw(r)
    /\ UNCHANGED <<rows, room, device, op, copy, listed, history>>

\* ChatGateway.disconnectSession closes the sockets in the session's room.
DisconnectSession(r) ==
    /\ pc[r] = "disconnect"
    /\ room' = room \ {self[r]}
    /\ Withdraw(r)
    /\ UNCHANGED <<rows, device, op, copy, listed, history>>

\* Nothing is left to revoke: the request is answered.
Finish(r) ==
    /\ pc[r] = "take"
    /\ victims[r] = {}
    /\ ended' = ended \cup listed[r]
    /\ resetTo' = IF op[r] = "reset" /\ copy[r].password > resetTo THEN copy[r].password ELSE resetTo
    /\ banned' = (banned \/ op[r] = "ban")
    /\ Forget(r)
    /\ UNCHANGED <<rows, room, device, born, lost, crossed, raced, slipped, undone>>

\* A call fails, or the process dies: an answer on its way is lost.
Fail(r) ==
    /\ pc[r] # "idle"
    /\ lost' = IF pc[r] = "answer" THEN lost \cup {self[r]} ELSE lost
    /\ Forget(r)
    /\ UNCHANGED <<rows, room, device, born, ended, resetTo, banned>>
    /\ UNCHANGED <<crossed, raced, slipped, undone>>

Handle(r) ==
    \/ ReadSession(r) \/ ReadUser(r) \/ SaveSession(r) \/ Answer(r) \/ Join(r)
    \/ ReadAccount(r) \/ CreateSession(r) \/ SaveUser(r) \/ List(r) \/ Find(r)
    \/ Take(r) \/ Revoke(r) \/ DisconnectSession(r) \/ Finish(r)

Next ==
    \/ \E r \in Requests :
          \/ \E o \in Operations, s \in Sessions : DeviceCalls(r, o, s)
          \/ \E o \in Operations : AccountCalls(r, o)
          \/ Handle(r)
          \/ Fail(r)
    \/ \E s \in Sessions : Disconnect(s)

Spec == Init /\ [][Next]_vars

-----------------------------------------------------------------------------
TypeOK ==
    /\ account \in Account
    /\ session \in [Sessions -> Session]
    /\ room \subseteq Sessions
    /\ device \in [Sessions -> Nat]
    /\ issued \in Nat
    /\ pc \in [Requests -> Locations]
    /\ op \in [Requests -> Operations]
    /\ self \in [Requests -> Sessions \cup {NoSession}]
    /\ held \in [Requests -> Nat]
    /\ copy \in [Requests -> Account]
    /\ victims \in [Requests -> SUBSET Sessions]
    /\ listed \in [Requests -> SUBSET Sessions]
    /\ born \in [Sessions -> Nat]
    /\ lost \subseteq Sessions
    /\ ended \subseteq Sessions
    /\ resetTo \in Nat
    /\ banned \in BOOLEAN
    /\ crossed \subseteq Sessions
    /\ raced \subseteq Sessions
    /\ slipped \subseteq Sessions
    /\ undone \in BOOLEAN

\* Once a request that revokes sessions (a logout, a revoked device, a password
\* reset, a ban) is answered, these sessions are over: no later call of their
\* devices, the opening of a socket included, brings them back, unless a call
\* was past its read of the session when that was revoked (lines 24-34 of
\* access-token.guard.ts).
RevokedIsOver ==
    \A s \in ended \ crossed : session[s].state = "revoked" /\ s \notin room

\* Once a password reset is answered, only sessions opened with that password or
\* a later one are active, unless a stale save undid it, a login had checked the
\* old password or a call of the session was under way.
ResetEndsOldSessions ==
    ~undone => \A s \in Active \ (crossed \cup slipped) : born[s] >= resetTo

\* Once a ban is answered the account stays disabled and has no active session,
\* whatever its devices or its owner try afterwards, unless a stale save undid
\* it, the session was opened after the ban had listed the sessions (line 208 of
\* admin.service.ts) or a call of the session was under way.
BanIsFinal ==
    banned /\ ~undone => account.disabled /\ Active \subseteq crossed \cup slipped

\* A device that received every answer holds the nonce of its session, so its
\* next refresh is accepted, or the answer with the nonce is on its way, unless
\* another call of the session was under way when it was refreshed.
DeviceCanRefresh ==
    \A s \in Active \ (lost \cup crossed \cup raced) :
        device[s] = session[s].nonce \/ \E r \in Requests : self[r] = s /\ pc[r] = "answer"

\* What the documents ask and the code does not keep when calls of a session
\* overlap (section 5 of the README): a session that was revoked stays so.
RevocationIsFinal ==
    \A s \in ended : session[s].state = "revoked" /\ s \notin room
=============================================================================
