---------------------------- MODULE DeliveryProofs ----------------------------
(* Machine-checked proofs about Delivery, for any number of members, sessions, *)
(* tokens and registrations.                                                   *)
EXTENDS Delivery, FiniteSetTheorems, TLAPS

-----------------------------------------------------------------------------
(* The inductive invariant.                                                   *)

\* A member that has learned of the message, or needs not to.
Served(u) ==
    u \in unsettled \/ ~ Reachable(u) \/ u \in told \/ Connecting(u) \/ Deaf(u)

\* A member whose registrations have been read has one to go if it is not served.
Pending(u) ==
    \/ u \in unsettled \/ u \in told
    \/ \A t \in Tokens :
          row[t].active /\ row[t].session \in live /\ Owner[row[t].session] = u =>
              [on |-> t, session |-> row[t].session] \in rows

\* A handler that works on a registration has a session and a token; the loop of
\* the dispatch is at a member.
WorkInv ==
    /\ \A c \in Calls : Working(c) => mine[c] \in Sessions /\ token[c] \in Tokens
    /\ send \in {"presence", "registrations", "session"} => now \in Members
    /\ \A t \in Tokens : row[t].active => row[t].session \in Sessions

\* A key is of a socket that has been registered, or is gone since.
KeyInv ==
    \A s \in keys : socket[s] \in {"join", "on", "gone"}

\* From the event on, who is in the room of the conversation has learned of it.
RoomInv ==
    send # "new" => \A s \in InRoom : Owner[s] \in told

\* The members the loop has passed are served, and the one it is at will be.
LoopInv ==
    /\ send = "next" => \A u \in Members \ left : Served(u)
    /\ send \in {"presence", "registrations", "session"} =>
           \A u \in Members \ (left \cup {now}) : Served(u)
    /\ send = "session" => Pending(now)
    /\ send = "done" => \A u \in Members : Served(u)

\* The active registrations of a session are of one token, unless one of its
\* registrations is under way, has failed or crossed another one.
OneInv ==
    \A s \in Sessions \ crossed :
        (\A c \in Calls : mine[c] = s => ~Working(c)) =>
            \A t, x \in Tokens :
                /\ row[t].active /\ row[t].session = s
                /\ row[x].active /\ row[x].session = s
                => t = x

Inductive == TypeOK /\ WorkInv /\ KeyInv /\ RoomInv /\ LoopInv /\ OneInv

LEMMA InitInductive == Init => Inductive
<1> SUFFICES ASSUME Init PROVE Inductive
  OBVIOUS
<1> USE OwnerAssumption, NobodyAssumption
<1>1. TypeOK
  BY DEF Init, TypeOK, NoRow
<1>2. WorkInv /\ KeyInv /\ RoomInv /\ LoopInv /\ OneInv
  BY DEF Init, WorkInv, KeyInv, RoomInv, LoopInv, OneInv, Working, NoRow
<1>3. QED
  BY <1>1, <1>2 DEF Inductive

-----------------------------------------------------------------------------
(* Every step preserves the types.                                            *)

\* What a registration writes.
LEMMA WrittenRow ==
  ASSUME TypeOK, WorkInv, NEW c \in Calls, Write(c)
  PROVE  /\ mine[c] \in Sessions /\ token[c] \in Tokens
         /\ Working(c) /\ step'[c] = "revoke"
         /\ row'[token[c]] = [session |-> mine[c], active |-> TRUE]
         /\ \A t \in Tokens \ {token[c]} : row'[t] = row[t]
         /\ row' \in [Tokens -> [session : Sessions, active : BOOLEAN] \cup {NoRow}]
<1>1. Working(c) /\ mine[c] \in Sessions /\ token[c] \in Tokens
  BY DEF Write, Goto, Working, WorkInv
<1>2. [session |-> mine[c], active |-> TRUE] \in [session : Sessions, active : BOOLEAN]
  BY <1>1
<1>3. QED
  BY <1>1, <1>2 DEF Write, Goto, TypeOK

\* What the revocation of the others writes.
LEMMA RevokedRows ==
  ASSUME TypeOK, WorkInv, NEW c \in Calls, RevokeOthers(c)
  PROVE  /\ mine[c] \in Sessions /\ token[c] \in Tokens
         /\ Working(c) /\ step'[c] = "over"
         /\ row' \in [Tokens -> [session : Sessions, active : BOOLEAN] \cup {NoRow}]
         /\ \A t \in Tokens :
              /\ row'[t].active => row'[t] = row[t]
              /\ row'[t].active /\ row'[t].session = mine[c] => t = token[c]
              /\ row[t].session # mine[c] => row'[t] = row[t]
<1>1. Working(c) /\ mine[c] \in Sessions /\ token[c] \in Tokens /\ step'[c] = "over"
  BY DEF RevokeOthers, Forget, Working, WorkInv, TypeOK
<1>2. ASSUME NEW t \in Tokens, row[t].session = mine[c], t # token[c]
      PROVE  /\ row'[t] = [row[t] EXCEPT !.active = FALSE]
             /\ row'[t] \in [session : Sessions, active : BOOLEAN]
             /\ ~ row'[t].active
  <2>1. row'[t] = [row[t] EXCEPT !.active = FALSE]
    BY <1>2 DEF RevokeOthers
  <2>2. row[t] \in [session : Sessions, active : BOOLEAN]
    BY <1>1, <1>2, NobodyAssumption DEF TypeOK, NoRow
  <2>3. QED
    BY <2>1, <2>2
<1>3. ASSUME NEW t \in Tokens, ~ (row[t].session = mine[c] /\ t # token[c])
      PROVE  row'[t] = row[t]
  BY <1>3 DEF RevokeOthers
<1>4. row' \in [Tokens -> [session : Sessions, active : BOOLEAN] \cup {NoRow}]
  <2>1. row' = [t \in Tokens |-> row'[t]]
    BY DEF RevokeOthers
  <2>2. \A t \in Tokens : row'[t] \in [session : Sessions, active : BOOLEAN] \cup {NoRow}
    BY <1>2, <1>3 DEF TypeOK
  <2>3. QED
    BY <2>1, <2>2
<1>5. QED
  BY <1>1, <1>2, <1>3, <1>4

LEMMA OwnersAreMembers ==
  ASSUME TypeOK, NEW t \in Tokens
  PROVE  OwnersOf(t) \subseteq Members
<1>1. row[t].session \in Sessions \cup {Nobody}
  BY DEF TypeOK, NoRow
<1>2. QED
  BY <1>1, OwnerAssumption DEF OwnersOf

LEMMA UnsettledAreMembers ==
  ASSUME unsettled \subseteq Members, NEW U, U \subseteq Members, Unsettle(U)
  PROVE  unsettled' \subseteq Members
BY DEF Unsettle

LEMMA TypePreserved ==
  ASSUME TypeOK, WorkInv, [Next]_vars
  PROVE  TypeOK'
<1> USE OwnerAssumption, NobodyAssumption
<1>0. \A s \in Sessions : Owner[s] \in Members
  OBVIOUS
<1>1. ASSUME Create \/ FailView PROVE TypeOK'
  BY <1>1 DEF Create, FailView, connection, registration, dispatch, TypeOK
<1>2. ASSUME EmitConversationCreated PROVE TypeOK'
  BY <1>0, <1>2 DEF EmitConversationCreated, connection, registration, dispatch, TypeOK
<1>3. ASSUME NEW s \in Sessions, Connect(s) \/ RegisterConnection(s) PROVE TypeOK'
  BY <1>3 DEF Connect, RegisterConnection, Socket, connection, registration, dispatch, TypeOK
<1>4. ASSUME NEW s \in Sessions, ListConversations(s) PROVE TypeOK'
  <2>1. (conv = "stored" \/ conv = "over") \in BOOLEAN
    BY Zenon
  <2>2. listed' \in [Sessions -> BOOLEAN]
    <3>1. (conv \in {"stored", "over"}) = (conv = "stored" \/ conv = "over")
      OBVIOUS
    <3>2. QED
      BY <1>4, <2>1, <3>1, Zenon DEF ListConversations, TypeOK
  <2>3. QED
    BY <1>4, <2>2 DEF ListConversations, Socket, connection, registration, dispatch, TypeOK
<1>5. ASSUME NEW s \in Sessions, JoinRooms(s) \/ Unregister(s) \/ Revoke(s) PROVE TypeOK'
  BY <1>0, <1>5 DEF JoinRooms, Unregister, Revoke, Unsettle, Socket, connection,
     registration, dispatch, TypeOK
<1>6. ASSUME NEW s \in Sessions, Disconnect(s) PROVE TypeOK'
  <2>1. keys' \subseteq Sessions
    BY <1>6 DEF Disconnect, TypeOK
  <2>2. unsettled' \subseteq Members
    BY <1>0, <1>6, UnsettledAreMembers DEF Disconnect, TypeOK
  <2>3. QED
    BY <1>6, <2>1, <2>2 DEF Disconnect, registration, dispatch, TypeOK
<1>7. ASSUME NEW c \in Calls, NEW s \in Sessions, NEW t \in Tokens, FindRegistration(c, s, t)
      PROVE  TypeOK'
  <2>1. (row[t] # NoRow) \in BOOLEAN
    BY Zenon
  <2>2. found' \in [Calls -> BOOLEAN]
    BY <1>7, <2>1, Zenon DEF FindRegistration, TypeOK
  <2>3. crossed' \subseteq Sessions
    BY <1>7 DEF FindRegistration, WorkInv, TypeOK
  <2>4. QED
    BY <1>7, <2>2, <2>3 DEF FindRegistration, Goto, connection, dispatch, TypeOK
<1>8. ASSUME NEW c \in Calls, Write(c) PROVE TypeOK'
  <2>1. unsettled' \subseteq Members
    <3>1. OwnersOf(token[c]) \cup {Owner[mine[c]]} \subseteq Members
      BY <1>0, <1>8, WrittenRow, OwnersAreMembers
    <3>2. QED
      BY <1>8, <3>1, UnsettledAreMembers DEF Write, TypeOK
  <2>2. QED
    BY <1>8, <2>1, WrittenRow DEF Write, Goto, connection, dispatch, TypeOK
<1>9. ASSUME NEW c \in Calls, RevokeOthers(c) PROVE TypeOK'
  <2>1. unsettled' \subseteq Members
    <3>1. {Owner[mine[c]]} \subseteq Members
      BY <1>0, <1>9, RevokedRows
    <3>2. QED
      BY <1>9, <3>1, UnsettledAreMembers DEF RevokeOthers, TypeOK
  <2>2. QED
    BY <1>9, <2>1, RevokedRows DEF RevokeOthers, Forget, connection, dispatch, TypeOK
<1>10. ASSUME NEW c \in Calls, FailRegistration(c) PROVE TypeOK'
  BY <1>10 DEF FailRegistration, Forget, WorkInv, connection, dispatch, TypeOK
<1>11. ASSUME EmitMessageCreated PROVE TypeOK'
  BY <1>0, <1>11 DEF EmitMessageCreated, InRoom, connection, registration, TypeOK
<1>12. ASSUME ListMembers PROVE TypeOK'
  BY <1>12 DEF ListMembers, connection, registration, TypeOK
<1>13. ASSUME GetPresence PROVE TypeOK'
  BY <1>13 DEF GetPresence, WorkInv, connection, registration, TypeOK
<1>14. ASSUME NextMember PROVE TypeOK'
  BY <1>14 DEF NextMember, connection, registration, TypeOK
<1>15. ASSUME ListRegistrations PROVE TypeOK'
  <2>1. rows' \subseteq [on : Tokens, session : Sessions]
    BY <1>15 DEF ListRegistrations, WorkInv
  <2>2. QED
    BY <1>15, <2>1 DEF ListRegistrations, connection, registration, TypeOK
<1>16. ASSUME NEW r \in rows, Push(r) PROVE TypeOK'
  BY <1>16 DEF Push, WorkInv, connection, registration, TypeOK
<1>17. ASSUME GiveUp PROVE TypeOK'
  BY <1>17 DEF GiveUp, connection, registration, TypeOK
<1>18. CASE UNCHANGED vars
  BY <1>18 DEF vars, connection, registration, dispatch, TypeOK
<1>19. QED
  BY <1>1, <1>2, <1>3, <1>4, <1>5, <1>7, <1>8, <1>9, <1>10, <1>11, <1>12, <1>14, <1>15, <1>16,
     <1>17, <1>18, <1>13, <1>6 DEF Next, CreateRegistration, SaveRegistration, FailPush, FailSend

-----------------------------------------------------------------------------
(* Every step preserves what a handler works with.                            *)

LEMMA WorkPreserved ==
  ASSUME TypeOK, WorkInv, [Next]_vars
  PROVE  WorkInv'
<1> USE OwnerAssumption, NobodyAssumption
<1>1. ASSUME Create \/ FailView \/ EmitConversationCreated PROVE WorkInv'
  BY <1>1 DEF Create, FailView, EmitConversationCreated, connection, registration, dispatch,
     WorkInv, Working
<1>2. ASSUME NEW s \in Sessions, \/ Connect(s) \/ ListConversations(s) \/ RegisterConnection(s)
                                 \/ JoinRooms(s) \/ Disconnect(s) \/ Unregister(s) \/ Revoke(s)
      PROVE  WorkInv'
  BY <1>2 DEF Connect, ListConversations, RegisterConnection, JoinRooms, Disconnect, Unregister, Revoke,
     connection, registration, dispatch, WorkInv, Working
<1>3. ASSUME NEW c \in Calls, NEW s \in Sessions, NEW t \in Tokens, FindRegistration(c, s, t)
      PROVE  WorkInv'
  BY <1>3 DEF FindRegistration, Goto, dispatch, TypeOK, WorkInv, Working
<1>4. ASSUME NEW c \in Calls, Write(c) PROVE WorkInv'
  BY <1>4, WrittenRow DEF Write, Goto, dispatch, TypeOK, WorkInv, Working
<1>5. ASSUME NEW c \in Calls, RevokeOthers(c) PROVE WorkInv'
  BY <1>5, RevokedRows DEF RevokeOthers, Forget, connection, dispatch, TypeOK, WorkInv, Working
<1>6. ASSUME NEW c \in Calls, FailRegistration(c) PROVE WorkInv'
  BY <1>6 DEF FailRegistration, Forget, connection, dispatch, TypeOK, WorkInv, Working
<1>7. ASSUME EmitMessageCreated \/ ListMembers \/ GetPresence
      PROVE  WorkInv'
  BY <1>7 DEF EmitMessageCreated, ListMembers, GetPresence,
     connection, registration, WorkInv, Working
<1>8. ASSUME NextMember PROVE WorkInv'
  BY <1>8 DEF NextMember, connection, registration, TypeOK, WorkInv, Working
<1>9. ASSUME ListRegistrations PROVE WorkInv'
  BY <1>9 DEF ListRegistrations, connection, registration, WorkInv, Working
<1>10. ASSUME NEW r \in rows, Push(r) PROVE WorkInv'
  BY <1>10 DEF Push, connection, registration, WorkInv, Working
<1>11. ASSUME GiveUp PROVE WorkInv'
  BY <1>11 DEF GiveUp, connection, registration, WorkInv, Working
<1>12. CASE UNCHANGED vars
  BY <1>12 DEF vars, connection, registration, dispatch, WorkInv, Working
<1>13. QED
  BY <1>1, <1>2, <1>3, <1>4, <1>5, <1>6, <1>7, <1>8, <1>9, <1>10, <1>11, <1>12
     DEF Next, CreateRegistration, SaveRegistration, FailPush, FailSend

-----------------------------------------------------------------------------
(* From the event on a member that is served stays so.                        *)

\* The steps of the dispatch itself.
Dispatches ==
    \/ ListMembers \/ NextMember \/ GetPresence \/ ListRegistrations
    \/ \E r \in rows : Push(r)
    \/ GiveUp

\* A step is of the conversation, of a socket, of a registration or of the dispatch.
LEMMA StepKinds ==
  ASSUME [Next]_vars, send # "new"
  PROVE  \/ Create \/ FailView \/ EmitConversationCreated
         \/ \E s \in Sessions :
              \/ Connect(s) \/ ListConversations(s) \/ RegisterConnection(s)
              \/ JoinRooms(s) \/ Disconnect(s) \/ Unregister(s) \/ Revoke(s)
         \/ \E c \in Calls :
              \/ \E s \in Sessions, t \in Tokens : FindRegistration(c, s, t)
              \/ Write(c) \/ RevokeOthers(c) \/ FailRegistration(c)
         \/ Dispatches
         \/ UNCHANGED vars
BY DEF Next, CreateRegistration, SaveRegistration, FailPush, FailSend, EmitMessageCreated, Dispatches

\* Registrations change for members only who are not settled then.
LEMMA RegistrationsUnsettle ==
  ASSUME TypeOK, WorkInv, send # "new", NEW c \in Calls, Write(c) \/ RevokeOthers(c),
         NEW t \in Tokens, row'[t].active, Owner[row'[t].session] \notin unsettled'
  PROVE  row'[t] = row[t]
<1>1. CASE Write(c)
  BY <1>1, WrittenRow DEF Write, Unsettle
<1>2. CASE RevokeOthers(c)
  BY <1>2, RevokedRows
<1>3. QED
  BY <1>1, <1>2

LEMMA ServedStays ==
  ASSUME TypeOK, WorkInv, [Next]_vars, send # "new", NEW u \in Members, Served(u)
  PROVE  Served(u)'
<1> USE OwnerAssumption, NobodyAssumption
<1>1. CASE Create \/ FailView \/ EmitConversationCreated
  BY <1>1 DEF Create, FailView, EmitConversationCreated, connection, registration, dispatch,
     Served, Reachable, Connecting, Deaf
<1>2. ASSUME NEW s \in Sessions, Connect(s) \/ ListConversations(s) \/ RegisterConnection(s)
      PROVE  Served(u)'
  <2>1. \A x \in Sessions : x # s => socket'[x] = socket[x] /\ listed'[x] = listed[x]
    BY <1>2 DEF Connect, ListConversations, RegisterConnection, Socket, TypeOK
  <2>2. socket[s] # "on" /\ socket'[s] \in {"list", "register", "join"}
    BY <1>2 DEF Connect, ListConversations, RegisterConnection, Socket, TypeOK
  <2>3. Connecting(u) => Connecting(u)'
    BY <2>1, <2>2 DEF Connecting
  <2>4. Deaf(u) => Deaf(u)'
    BY <2>1, <2>2 DEF Deaf
  <2>5. UNCHANGED <<row, live, told, unsettled>>
    BY <1>2 DEF Connect, ListConversations, RegisterConnection, connection, registration
  <2>6. QED
    BY <2>3, <2>4, <2>5 DEF Served, Reachable
\* A device whose connection is ready loads its conversations, and one that leaves
\* is not settled any more.
<1>3. ASSUME NEW s \in Sessions, JoinRooms(s) \/ Disconnect(s) PROVE Served(u)'
  <2>1. \A x \in Sessions : x # s => socket'[x] = socket[x] /\ listed'[x] = listed[x]
    BY <1>3 DEF JoinRooms, Disconnect, Socket, TypeOK
  <2>2. UNCHANGED <<row, live>> /\ told \subseteq told' /\ unsettled \subseteq unsettled'
    BY <1>3 DEF JoinRooms, Disconnect, Unsettle, connection, registration
  <2>3. CASE u = Owner[s]
    <3>1. u \in told' \cup unsettled'
      BY <1>3, <2>3 DEF JoinRooms, Disconnect, Unsettle
    <3>2. QED
      BY <3>1 DEF Served
  <2>4. CASE u # Owner[s]
    BY <2>1, <2>2, <2>4 DEF Served, Reachable, Connecting, Deaf
  <2>5. QED
    BY <2>3, <2>4
<1>4. ASSUME NEW s \in Sessions, Revoke(s) PROVE Served(u)'
  BY <1>4 DEF Revoke, Unsettle, connection, registration, Served, Reachable, Connecting, Deaf
<1>5. ASSUME NEW c \in Calls, \/ \E s \in Sessions, t \in Tokens : FindRegistration(c, s, t)
                              \/ FailRegistration(c)
      PROVE  Served(u)'
  BY <1>5 DEF FindRegistration, FailRegistration, connection, Served, Reachable, Connecting, Deaf
<1>6. ASSUME NEW s \in Sessions, Unregister(s) PROVE Served(u)'
  BY <1>6 DEF Unregister, registration, Served, Reachable, Connecting, Deaf
<1>7. ASSUME NEW c \in Calls, Write(c) \/ RevokeOthers(c) PROVE Served(u)'
  <2>1. UNCHANGED <<socket, listed, live, told>> /\ unsettled \subseteq unsettled'
    BY <1>7 DEF Write, RevokeOthers, Unsettle, connection
  <2>2. ASSUME Reachable(u)', u \notin unsettled' PROVE Reachable(u)
    BY <1>7, <2>1, <2>2, RegistrationsUnsettle DEF Reachable
  <2>3. QED
    BY <2>1, <2>2 DEF Served, Connecting, Deaf
<1>8. CASE Dispatches
  BY <1>8 DEF Dispatches, ListMembers, NextMember, GetPresence, ListRegistrations, 
     Push, GiveUp, connection, registration, Served, Reachable, Connecting, Deaf
<1>9. CASE UNCHANGED vars
  BY <1>9 DEF vars, connection, registration, Served, Reachable, Connecting, Deaf
<1>10. QED
  BY <1>1, <1>2, <1>3, <1>4, <1>5, <1>7, <1>8, <1>9, <1>6, StepKinds

\* What the dispatch has read of a member stays enough while it does not move.
LEMMA PendingStays ==
  ASSUME TypeOK, WorkInv, [Next]_vars, send # "new", NEW u \in Members, Pending(u), ~ Dispatches
  PROVE  Pending(u)' /\ UNCHANGED dispatch
<1>1. CASE Create \/ FailView \/ EmitConversationCreated
  BY <1>1 DEF Create, FailView, EmitConversationCreated, connection, registration, dispatch,
     Pending
<1>2. ASSUME NEW s \in Sessions, \/ Connect(s) \/ ListConversations(s) \/ RegisterConnection(s)
                                 \/ JoinRooms(s) \/ Disconnect(s) \/ Unregister(s) \/ Revoke(s)
      PROVE  Pending(u)' /\ UNCHANGED dispatch
  BY <1>2 DEF Connect, ListConversations, RegisterConnection, JoinRooms, Disconnect, Unregister, Revoke,
     Unsettle, connection, registration, dispatch, Pending
<1>3. ASSUME NEW c \in Calls, \/ \E s \in Sessions, t \in Tokens : FindRegistration(c, s, t)
                              \/ FailRegistration(c)
      PROVE  Pending(u)' /\ UNCHANGED dispatch
  BY <1>3 DEF FindRegistration, FailRegistration, connection, dispatch, Pending
<1>4. ASSUME NEW c \in Calls, Write(c) \/ RevokeOthers(c) PROVE Pending(u)' /\ UNCHANGED dispatch
  <2>1. UNCHANGED <<live, told, dispatch>> /\ unsettled \subseteq unsettled'
    BY <1>4 DEF Write, RevokeOthers, Unsettle
  <2>2. ASSUME u \notin unsettled', NEW t \in Tokens, row'[t].active, Owner[row'[t].session] = u
        PROVE  row'[t] = row[t]
    BY <1>4, <2>2, RegistrationsUnsettle
  <2>3. QED
    BY <2>1, <2>2 DEF Pending, dispatch
<1>5. CASE UNCHANGED vars
  BY <1>5 DEF vars, connection, registration, dispatch, Pending
<1>6. QED
  BY <1>1, <1>2, <1>3, <1>4, <1>5, StepKinds

-----------------------------------------------------------------------------
(* Every step preserves what has a key, and who is in the room and knows.     *)

LEMMA KeyPreserved ==
  ASSUME TypeOK, KeyInv, [Next]_vars
  PROVE  KeyInv'
<1>1. ASSUME NEW s \in Sessions, \/ Connect(s) \/ ListConversations(s) \/ RegisterConnection(s)
                                 \/ JoinRooms(s) \/ Disconnect(s) \/ Unregister(s)
      PROVE  KeyInv'
  <2>1. \A x \in Sessions : x # s => socket'[x] = socket[x]
    BY <1>1 DEF Connect, ListConversations, RegisterConnection, JoinRooms, Disconnect, Unregister,
       Socket, TypeOK
  <2>2. keys' \subseteq keys \cup {s}
    BY <1>1 DEF Connect, ListConversations, RegisterConnection, JoinRooms, Disconnect, Unregister
  <2>3. s \in keys' => socket'[s] \in {"join", "on", "gone"}
    BY <1>1 DEF Connect, ListConversations, RegisterConnection, JoinRooms, Disconnect, Unregister,
       Socket, TypeOK, KeyInv
  <2>4. QED
    BY <2>1, <2>2, <2>3 DEF KeyInv, TypeOK
<1>2. CASE UNCHANGED <<socket, keys>>
  BY <1>2 DEF KeyInv
<1>3. QED
  BY <1>1, <1>2 DEF Next, Create, FailView, EmitConversationCreated, Revoke, FindRegistration,
     CreateRegistration, SaveRegistration, Write, RevokeOthers, FailRegistration,
     EmitMessageCreated, ListMembers, NextMember, GetPresence, ListRegistrations, Push, FailPush,
     FailSend, GiveUp, connection, vars


LEMMA RoomPreserved ==
  ASSUME TypeOK, RoomInv, [Next]_vars
  PROVE  RoomInv'
<1> USE OwnerAssumption, NobodyAssumption
<1>1. ASSUME EmitMessageCreated PROVE RoomInv'
  BY <1>1 DEF EmitMessageCreated, connection, RoomInv, InRoom
<1>2. ASSUME send = "new", ~ EmitMessageCreated PROVE RoomInv'
  <2>1. send' = "new"
    BY <1>2 DEF Next, Create, FailView, EmitConversationCreated, Connect,
       ListConversations, RegisterConnection, JoinRooms, Disconnect, Unregister, Revoke, FindRegistration,
       CreateRegistration, SaveRegistration, Write, RevokeOthers, FailRegistration, ListMembers,
       NextMember, GetPresence, ListRegistrations, Push, FailPush,
       FailSend, dispatch, vars
  <2>2. QED
    BY <2>1 DEF RoomInv
<1>3. ASSUME send # "new" PROVE RoomInv'
  <2>1. told \subseteq told'
    BY <1>3 DEF Next, Create, FailView, EmitConversationCreated, Connect,
       ListConversations, RegisterConnection, JoinRooms, Disconnect, Unregister, Revoke, FindRegistration,
       CreateRegistration, SaveRegistration, Write, RevokeOthers, FailRegistration, ListMembers,
       EmitMessageCreated, NextMember, GetPresence, ListRegistrations, 
       Push, FailPush, FailSend, GiveUp, dispatch, vars
  <2>2. ASSUME NEW s \in Sessions, JoinRooms(s) PROVE RoomInv'
    BY <1>3, <2>1, <2>2 DEF JoinRooms, Socket, TypeOK, RoomInv, InRoom
  <2>3. ASSUME NEW s \in Sessions,
               Connect(s) \/ ListConversations(s) \/ RegisterConnection(s) \/ Disconnect(s)
        PROVE  RoomInv'
    <3>1. InRoom' \subseteq InRoom
      BY <2>3 DEF Connect, ListConversations, RegisterConnection, Disconnect, Socket, TypeOK, InRoom
    <3>2. QED
      BY <1>3, <2>1, <3>1 DEF RoomInv
  <2>4. CASE UNCHANGED <<socket, listed>>
    BY <1>3, <2>1, <2>4 DEF RoomInv, InRoom
  <2>5. QED
    BY <1>3, <2>2, <2>3, <2>4, StepKinds DEF Create, FailView, EmitConversationCreated,
       Unregister, Revoke, FindRegistration, Write, RevokeOthers, FailRegistration, Dispatches,
       ListMembers, NextMember, GetPresence, ListRegistrations, Push, GiveUp, connection, vars
<1>4. QED
  BY <1>1, <1>2, <1>3

-----------------------------------------------------------------------------
(* Every step of the loop leaves the members it has passed served.            *)

\* A member that counts as online, and not for a socket that is gone, is connecting,
\* in the room, or gets no events.
LEMMA OnlineIsServed ==
  ASSUME TypeOK, KeyInv, RoomInv, send # "new", NEW u \in Online, ~ Misled(u)
  PROVE  Served(u)
<1>1. PICK s \in keys : Owner[s] = u /\ socket[s] # "gone"
  BY DEF Misled, Online
<1>2. QED
  BY <1>1 DEF TypeOK, KeyInv, RoomInv, InRoom, Served, Connecting, Deaf

\* A member that is pending and for whom nothing is left to push is served.
LEMMA PendingIsServed ==
  ASSUME NEW u, Pending(u), rows = {}
  PROVE  Served(u)
BY DEF Pending, Served, Reachable

LEMMA LoopPreserved ==
  ASSUME TypeOK, WorkInv, KeyInv, RoomInv, LoopInv, [Next]_vars
  PROVE  LoopInv'
<1> USE OwnerAssumption, NobodyAssumption
<1> DEFINE At == {"presence", "registrations", "session"}
<1>1. CASE send = "new"
  <2>1. send' \in {"new", "members"}
    BY <1>1 DEF Next, Create, FailView, EmitConversationCreated, Connect,
       ListConversations, RegisterConnection, JoinRooms, Disconnect, Unregister, Revoke, FindRegistration,
       CreateRegistration, SaveRegistration, Write, RevokeOthers, FailRegistration, ListMembers,
       EmitMessageCreated, NextMember, GetPresence, ListRegistrations, 
       Push, FailPush, FailSend, dispatch, vars
  <2>2. QED
    BY <2>1 DEF LoopInv
<1>2. CASE send # "new" /\ ~ Dispatches
  <2>1. UNCHANGED <<send, left, now>>
    BY <1>2, StepKinds DEF Create, FailView, EmitConversationCreated, Connect,
       ListConversations, RegisterConnection, JoinRooms, Disconnect, Unregister, Revoke, FindRegistration,
       Write, RevokeOthers, FailRegistration, connection, dispatch, vars
  <2>2. \A u \in Members : Served(u) => Served(u)'
    BY <1>2, ServedStays
  <2>3. now \in Members /\ Pending(now) => Pending(now)'
    <3>1. ASSUME NEW u \in Members, Pending(u) PROVE Pending(u)'
      BY <1>2, <3>1, PendingStays
    <3>2. now' = now
      BY <2>1
    <3>3. QED
      BY <3>1, <3>2 DEF Pending
  <2>4. send = "session" => now \in Members
    BY DEF WorkInv
  <2>5. QED
    BY <2>1, <2>2, <2>3, <2>4 DEF LoopInv
<1>3. CASE send # "new" /\ Dispatches
  <2>0. \A u \in Members : Served(u) => Served(u)'
    BY <1>3, ServedStays
  <2>1. ASSUME ListMembers PROVE LoopInv'
    BY <2>1 DEF ListMembers, LoopInv
  <2>2. ASSUME NextMember PROVE LoopInv'
    <3>1. CASE left = {}
      BY <2>0, <2>2, <3>1 DEF NextMember, LoopInv
    <3>2. CASE left # {}
      <4>1. PICK u \in left : now' = u /\ left' = left \ {u} /\ send' = "presence" /\ send = "next"
        BY <2>2, <3>2 DEF NextMember
      <4>2. Members \ (left' \cup {now'}) \subseteq Members \ left
        BY <4>1
      <4>3. QED
        BY <2>0, <4>1, <4>2 DEF LoopInv
    <3>3. QED
      BY <3>1, <3>2
  <2>3. ASSUME GetPresence PROVE LoopInv'
    <3>1. CASE now \in Online
      <4>1. Served(now)' /\ now \in Members
        <5>1. now \in Members /\ now' = now
          BY <2>3 DEF GetPresence, WorkInv
        <5>2. CASE Misled(now)
          BY <2>3, <5>1, <5>2 DEF GetPresence, Served
        <5>3. CASE ~ Misled(now)
          <6>1. Served(now)
            BY <1>3, <3>1, <5>3, OnlineIsServed
          <6>2. ASSUME NEW u \in Members, Served(u) PROVE Served(u)'
            BY <2>0, <6>2
          <6>3. QED
            BY <5>1, <6>1, <6>2 DEF Served, Reachable, Connecting, Deaf
        <5>4. QED
          BY <5>1, <5>2, <5>3
      <4>2. send' = "next" /\ UNCHANGED <<left, now>> /\ send = "presence"
        BY <2>3, <3>1 DEF GetPresence
      <4>3. \A u \in Members \ left : Served(u)'
        <5>1. ASSUME NEW u \in Members \ left PROVE Served(u)'
          <6>1. CASE u = now
            <7>1. now' = now
              BY <4>2
            <7>2. QED
              BY <4>1, <6>1, <7>1 DEF Served, Reachable, Connecting, Deaf
          <6>2. CASE u # now
            BY <2>0, <4>2, <6>2 DEF LoopInv
          <6>3. QED
            BY <6>1, <6>2
        <5>2. QED
          BY <5>1
      <4>4. QED
        BY <4>2, <4>3 DEF LoopInv
    <3>2. CASE now \notin Online
      BY <2>0, <2>3, <3>2 DEF GetPresence, LoopInv
    <3>3. QED
      BY <3>1, <3>2
  <2>4. ASSUME ListRegistrations PROVE LoopInv'
    <3>1. UNCHANGED <<row, live, told, unsettled, socket, listed, left, now>> /\ send = "registrations"
      BY <2>4 DEF ListRegistrations, connection, registration
    <3>2. Pending(now)'
      BY <2>4, <3>1 DEF ListRegistrations, Pending
    <3>3. \A u \in Members \ (left \cup {now}) : Served(u)'
      BY <2>0, <3>1 DEF LoopInv
    <3>4. CASE rows' = {}
      <4>1. send' = "next"
        BY <2>4, <3>4 DEF ListRegistrations
      <4>2. \A u \in Members : u = now => Served(u)'
        BY <3>1, <3>2, <3>4 DEF Pending, Served, Reachable
      <4>3. \A u \in Members \ left : Served(u)'
        BY <3>3, <4>2
      <4>4. QED
        BY <3>1, <4>1, <4>3 DEF LoopInv
    <3>5. CASE rows' # {}
      BY <2>4, <3>1, <3>2, <3>3, <3>5 DEF ListRegistrations, LoopInv
    <3>6. QED
      BY <3>4, <3>5
  <2>6. ASSUME NEW r \in rows, Push(r) PROVE LoopInv'
    <3>1. /\ UNCHANGED <<row, live, unsettled, socket, listed, left, now>> /\ send = "session"
          /\ rows' = rows \ {r} /\ told \subseteq told'
          /\ r.session \in live => now \in told'
      BY <2>6 DEF Push, connection, registration
    <3>2. Pending(now)
      BY <3>1 DEF LoopInv
    <3>3. Pending(now)'
      BY <3>1, <3>2 DEF Pending
    <3>4. \A u \in Members \ (left \cup {now}) : Served(u)'
      BY <2>0, <3>1 DEF LoopInv
    <3>5. CASE rows' = {}
      <4>1. send' = "next"
        BY <2>6, <3>5 DEF Push
      <4>2. \A u \in Members : u = now => Served(u)'
        BY <3>1, <3>3, <3>5 DEF Pending, Served, Reachable
      <4>3. \A u \in Members \ left : Served(u)'
        BY <3>4, <4>2
      <4>4. QED
        BY <3>1, <4>1, <4>3 DEF LoopInv
    <3>6. CASE rows' # {}
      BY <2>6, <3>1, <3>3, <3>4, <3>6 DEF Push, LoopInv
    <3>7. QED
      BY <3>5, <3>6
  <2>7. ASSUME GiveUp PROVE LoopInv'
    BY <2>7 DEF GiveUp, LoopInv
  <2>8. QED
    BY <1>3, <2>1, <2>2, <2>3, <2>4, <2>6, <2>7 DEF Dispatches
<1>4. QED
  BY <1>1, <1>2, <1>3

-----------------------------------------------------------------------------
(* Every step preserves that a session has one token.                         *)

LEMMA OnePreserved ==
  ASSUME TypeOK, WorkInv, OneInv, [Next]_vars
  PROVE  OneInv'
<1> USE OwnerAssumption, NobodyAssumption
<1> DEFINE Active(t, s) == row[t].active /\ row[t].session = s
           One(s) == \A t, x \in Tokens : Active(t, s) /\ Active(x, s) => t = x
           Still(s) == \A c \in Calls : mine[c] = s => ~Working(c)
<1>0. /\ \A s \in Sessions \ crossed : Still(s) => One(s)
      /\ (\A s \in Sessions \ crossed' : Still(s)' => One(s)') => OneInv'
  BY DEF OneInv
<1>1. ASSUME NEW c \in Calls, NEW s \in Sessions, NEW t \in Tokens, FindRegistration(c, s, t)
      PROVE  OneInv'
  <2>1. crossed \subseteq crossed' /\ row' = row
    BY <1>1 DEF FindRegistration
  <2>2. ~ Still(s)'
    BY <1>1 DEF FindRegistration, Goto, TypeOK, Working
  <2>3. ASSUME NEW x \in Sessions, x # s, Still(x)' PROVE Still(x)
    <3>1. \A d \in Calls : d # c => mine'[d] = mine[d] /\ step'[d] = step[d]
      BY <1>1 DEF FindRegistration, Goto, TypeOK
    <3>2. ~ Working(c)
      BY <1>1 DEF FindRegistration, Goto, Working
    <3>3. QED
      BY <2>3, <3>1, <3>2 DEF Working
  <2>4. QED
    <3> HIDE DEF Still
    <3>1. QED
      BY <1>0, <2>1, <2>2, <2>3
<1>2. ASSUME NEW c \in Calls, Write(c) PROVE OneInv'
  <2>1. crossed' = crossed /\ mine' = mine /\ mine[c] \in Sessions
    BY <1>2, WrittenRow DEF Write
  <2>2. ~ Still(mine[c])'
    BY <1>2, <2>1, WrittenRow DEF Working
  <2>3. ASSUME NEW x \in Sessions, x # mine[c], Still(x)' PROVE Still(x)
    BY <1>2, <2>1, <2>3 DEF Write, Goto, TypeOK, Working
  <2>4. ASSUME NEW x \in Sessions, x # mine[c], NEW t \in Tokens, Active(t, x)' PROVE Active(t, x)
    <3>1. t # token[c]
      <4>1. row'[token[c]].session = mine[c]
        <5>1. row'[token[c]] = [session |-> mine[c], active |-> TRUE]
          BY <1>2, WrittenRow
        <5>2. QED
          BY <5>1
      <4>2. QED
        BY <2>4, <4>1
    <3>2. QED
      BY <1>2, <2>4, <3>1, WrittenRow
  <2>5. \A x \in Sessions : x # mine[c] /\ One(x) => One(x)'
    BY <2>4
  <2>6. QED
    <3> HIDE DEF Still, One
    <3>1. QED
      BY <1>0, <2>1, <2>2, <2>3, <2>5
<1>3. ASSUME NEW c \in Calls, RevokeOthers(c) PROVE OneInv'
  <2>1. crossed' = crossed /\ mine[c] \in Sessions
    BY <1>3, RevokedRows DEF RevokeOthers
  <2>8. ASSUME NEW d \in Calls, d # c PROVE mine'[d] = mine[d] /\ step'[d] = step[d]
    BY <1>3, <2>8 DEF RevokeOthers, Forget, TypeOK
  <2>2. ASSUME NEW x \in Sessions, x = mine[c] PROVE One(x)'
    BY <1>3, <2>2, RevokedRows
  <2>3. ASSUME NEW x \in Sessions, x # mine[c], Still(x)' PROVE Still(x)
    BY <2>3, <2>8 DEF Working
  <2>4. ASSUME NEW x \in Sessions, NEW t \in Tokens, Active(t, x)' PROVE Active(t, x)
    BY <1>3, <2>4, RevokedRows
  <2>5. \A x \in Sessions : One(x) => One(x)'
    BY <2>4
  <2>6. ASSUME NEW x \in Sessions \ crossed', Still(x)' PROVE One(x)'
    <3>1. CASE x = mine[c]
      BY <2>2, <3>1
    <3>2. CASE x # mine[c]
      <4>1. Still(x) /\ x \in Sessions \ crossed
        BY <2>1, <2>3, <2>6, <3>2
      <4>2. One(x)
        BY <1>0, <4>1
      <4>3. QED
        BY <2>5, <4>2
    <3>3. QED
      BY <3>1, <3>2
  <2>7. QED
    BY <1>0, <2>6
\* A registration that fails is remembered.
<1>4. ASSUME NEW c \in Calls, FailRegistration(c) PROVE OneInv'
  <2>1. crossed' = crossed \cup {mine[c]} /\ row' = row
    BY <1>4 DEF FailRegistration
  <2>4. ASSUME NEW d \in Calls, d # c PROVE mine'[d] = mine[d] /\ step'[d] = step[d]
    BY <1>4, <2>4 DEF FailRegistration, Forget, TypeOK
  <2>2. ASSUME NEW x \in Sessions, x # mine[c], Still(x)' PROVE Still(x)
    BY <2>2, <2>4 DEF Working
  <2>3. QED
    BY <1>0, <2>1, <2>2
<1>5. CASE UNCHANGED <<row, step, mine, crossed>>
  BY <1>5 DEF OneInv, Working
<1>6. QED
  BY <1>1, <1>2, <1>3, <1>4, <1>5 DEF Next, Create, FailView, EmitConversationCreated, Connect,
     ListConversations, RegisterConnection, JoinRooms, Disconnect, Unregister, Revoke,
     CreateRegistration, SaveRegistration, EmitMessageCreated, ListMembers, NextMember,
     GetPresence, ListRegistrations, Push, FailPush, FailSend, GiveUp, registration, vars

-----------------------------------------------------------------------------
(* The theorems.                                                              *)

LEMMA Invariance == Spec => []Inductive
<1>1. Inductive /\ [Next]_vars => Inductive'
  BY TypePreserved, WorkPreserved, KeyPreserved, RoomPreserved, LoopPreserved, OnePreserved DEF Inductive
<1>2. QED
  BY <1>1, InitInductive, PTL DEF Spec

\* The sockets, the registrations and the dispatch keep their types.
THEOREM TypeCorrect == Spec => []TypeOK
BY Invariance, PTL DEF Inductive

\* However many members and devices there are, and in whatever order they connect,
\* register and leave: when the dispatch has gone through, a member that can be
\* reached has learned of the message, is connecting, or is deaf to the room,
\* unless its devices changed meanwhile or a key that outlived its socket made it
\* count as online (lines 47 and 59 of realtime-connection.service.ts).
THEOREM EveryMemberIsServed == Spec => []EveryMemberLearns
<1>1. Inductive => EveryMemberLearns
  BY DEF Inductive, LoopInv, Served, EveryMemberLearns
<1>2. QED
  BY <1>1, Invariance, PTL

\* A session whose registrations neither overlapped nor failed has one active
\* token at most, however tokens move between sessions (lines 37-68 of
\* notifications.service.ts).
THEOREM TokensAreUnique == Spec => []OneTokenPerSession
<1>1. ASSUME Inductive, NEW s \in Sessions \ crossed, \A c \in Calls : mine[c] = s => ~Working(c)
      PROVE  Cardinality({t \in Tokens : row[t].active /\ row[t].session = s}) <= 1
  <2> DEFINE T == {t \in Tokens : row[t].active /\ row[t].session = s}
  <2>1. \A t, x \in T : t = x
    BY <1>1 DEF Inductive, OneInv
  <2>2. T = {} \/ \E t : T = {t}
    BY <2>1
  <2>3. Cardinality(T) = 0 \/ Cardinality(T) = 1
    BY <2>2, FS_EmptySet, FS_Singleton
  <2>4. QED
    BY <2>3
<1>2. Inductive => OneTokenPerSession
  BY <1>1 DEF OneTokenPerSession
<1>3. QED
  BY <1>2, Invariance, PTL
=============================================================================
