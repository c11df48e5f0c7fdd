--------------------------- MODULE MessagingProofs ---------------------------
(* Machine-checked proofs about Messaging, for any number of requests,        *)
(* members and client ids.  The invariants of the runs are not inductive by   *)
(* themselves; the parts below say what a request knows at each of its steps. *)
EXTENDS Messaging, TLAPS

-----------------------------------------------------------------------------
(* The inductive invariant.                                                   *)

\* A request at one of these steps is storing a message; one that has not
\* begun is counted as a read.
StoringSteps ==
    {"resolve", "unbind", "lookup", "reserve", "create", "insert", "recheck",
     "bind", "emit", "push", "undo"}
ModeInv ==
    \A r \in Requests :
        /\ pc[r] \in StoringSteps => mode[r] \in Statuses
        /\ pc[r] = "idle" => mode[r] = "read"

\* The row a request works with is stored, under the request's own key.
HasRow(r) == \E m \in RowsOf(key[r]) : m.seq = target[r]
TargetInv ==
    \A r \in Requests :
        /\ pc[r] \in {"bind", "emit", "push"} => HasRow(r)
        /\ pc[r] \in {"cursor", "advance", "accepted"} /\ mode[r] # "read" => HasRow(r)

\* Every position a request or a cursor holds is one the log has reached.
BoundInv ==
    /\ \A r \in Requests : target[r] <= latestSequence /\ seen[r] <= latestSequence
    /\ CursorWithinLog

\* A late retry finds the row and takes the short way out.
LateInv ==
    \A r \in Requests : late[r] =>
        /\ RowsOf(key[r]) # {}
        /\ pc[r] \in {"resolve", "unbind", "lookup", "cursor", "advance"} \cup Ended
        /\ pc[r] \in {"cursor", "advance"} => mode[r] # "sent"

\* An announcement is of a stored row, by a request that has begun.
EmittedInv ==
    \A e \in emitted :
        /\ pc[e.by] # "idle"
        /\ ~late[e.by]
        /\ \E m \in messages : m.seq = e.seq

StoreInv == SequencesContiguous /\ OneRowPerKey

Inductive ==
    /\ TypeOK /\ ModeInv /\ StoreInv /\ TargetInv /\ BindingIsOwn
    /\ BoundInv /\ LateInv /\ EmittedInv
-----------------------------------------------------------------------------
LEMMA InitInductive == Init => Inductive
<1> SUFFICES ASSUME Init PROVE Inductive
  OBVIOUS
<1> USE SentinelAssumption DEF Init
<1>1. TypeOK /\ ModeInv
  BY DEF TypeOK, ModeInv, StoringSteps, Row, Event, Locations, Modes, Statuses
<1>2. StoreInv /\ TargetInv /\ EmittedInv /\ LateInv
  BY DEF StoreInv, SequencesContiguous, OneRowPerKey, TargetInv, EmittedInv, LateInv
<1>3. BindingIsOwn /\ BoundInv
  BY DEF BindingIsOwn, BoundInv, CursorWithinLog
<1>4. QED
  BY <1>1, <1>2, <1>3 DEF Inductive

\* Every step keeps the types, and what a storing request is doing.
LEMMA TypePreserved ==
  ASSUME TypeOK, ModeInv, [Next]_vars
  PROVE  (TypeOK /\ ModeInv)'
<1> USE PositionsAssumption DEF TypeOK, ModeInv, StoringSteps, Row, Event, Locations, Modes, Statuses, SenderOf, Keys, Ended, Goto, store, locals
<1>1. ASSUME NEW r \in Requests, Receive(r)
      PROVE  (TypeOK /\ ModeInv)'
  BY <1>1 DEF Receive
<1>2. ASSUME NEW r \in Requests, NEW n \in Positions, ReportRead(r, n)
      PROVE  (TypeOK /\ ModeInv)'
  BY <1>2 DEF ReportRead
<1>3. ASSUME NEW r \in Requests, Resolve(r)
      PROVE  (TypeOK /\ ModeInv)'
  BY <1>3 DEF Resolve, Reuse
<1>4. ASSUME NEW r \in Requests, Unbind(r)
      PROVE  (TypeOK /\ ModeInv)'
  BY <1>4 DEF Unbind
<1>5. ASSUME NEW r \in Requests, Lookup(r)
      PROVE  (TypeOK /\ ModeInv)'
  BY <1>5 DEF Lookup, Reuse, RowsOf
<1>6. ASSUME NEW r \in Requests, Reserve(r)
      PROVE  (TypeOK /\ ModeInv)'
  BY <1>6 DEF Reserve
<1>7. ASSUME NEW r \in Requests, BeginInsert(r)
      PROVE  (TypeOK /\ ModeInv)'
  BY <1>7 DEF BeginInsert
<1>8. ASSUME NEW r \in Requests, Insert(r)
      PROVE  (TypeOK /\ ModeInv)'
  <2>1. ASSUME Commit(r)
        PROVE  messages' \subseteq Row /\ latestSequence' \in Nat
    <3>1. mode[r] \in Statuses
      BY <1>8 DEF Insert
    <3>2. [key |-> key[r], seq |-> latestSequence + 1, status |-> mode[r]] \in Row
      BY <3>1
    <3>3. QED
      BY <2>1, <3>2 DEF Commit
  <2>2. messages' \subseteq Row /\ latestSequence' \in Nat
    BY <1>8, <2>1 DEF Insert
  <2>3. target' \in [Requests -> Nat]
    BY <1>8 DEF Insert
  <2>4. Stored(r) \in Locations
    BY DEF Stored
  <2>5. pc' \in [Requests -> Locations]
    BY <1>8, <2>4 DEF Insert
  <2>6. ModeInv'
    BY <1>8 DEF Insert, Stored
  <2>7. QED
    BY <1>8, <2>2, <2>3, <2>5, <2>6 DEF Insert
<1>9. ASSUME NEW r \in Requests, Recheck(r)
      PROVE  (TypeOK /\ ModeInv)'
  BY <1>9 DEF Recheck, RowsOf, Stored, Abandon, HoldsReservation
<1>10. ASSUME NEW r \in Requests, Bind(r)
      PROVE  (TypeOK /\ ModeInv)'
  BY <1>10 DEF Bind
<1>11. ASSUME NEW r \in Requests, ReadCursor(r)
      PROVE  (TypeOK /\ ModeInv)'
  BY <1>11 DEF ReadCursor
<1>12. ASSUME NEW r \in Requests, WriteCursor(r)
      PROVE  (TypeOK /\ ModeInv)'
  BY <1>12 DEF WriteCursor
<1>13. ASSUME NEW r \in Requests, Emit(r)
      PROVE  (TypeOK /\ ModeInv)'
  BY <1>13 DEF Emit
<1>14. ASSUME NEW r \in Requests, Push(r)
      PROVE  (TypeOK /\ ModeInv)'
  BY <1>14 DEF Push
<1>15. ASSUME NEW r \in Requests, Undo(r)
      PROVE  (TypeOK /\ ModeInv)'
  BY <1>15 DEF Undo
<1>16. ASSUME NEW r \in Requests, Fail(r)
      PROVE  (TypeOK /\ ModeInv)'
  BY <1>16 DEF Fail, Abandon, HoldsReservation, ReleaseRow, InFlight
<1>17. ASSUME NEW r \in Requests, Crash(r)
      PROVE  (TypeOK /\ ModeInv)'
  BY <1>17 DEF Crash, ReleaseRow, InFlight
<1>18. ASSUME NEW k \in Keys, Expire(k)
      PROVE  (TypeOK /\ ModeInv)'
  BY <1>18 DEF Expire
<1>19. CASE ToggleFriendship
  BY <1>19 DEF ToggleFriendship
<1>20. CASE UNCHANGED vars
  BY <1>20 DEF vars
<1>21. QED
  BY <1>1, <1>2, <1>3, <1>4, <1>5, <1>6, <1>7, <1>8, <1>9, <1>10, <1>11, <1>12, <1>13, <1>14, <1>15, <1>16, <1>17, <1>18, <1>19, <1>20 DEF Next, Handle

\* The table and latestSequence change together, and only by a commit.
LEMMA StoreStep ==
  ASSUME [Next]_vars
  PROVE  \/ UNCHANGED <<messages, latestSequence>>
         \/ \E r \in Requests : pc[r] = "insert" /\ Commit(r)
<1>1. ASSUME NEW r \in Requests, Insert(r)
      PROVE  UNCHANGED <<messages, latestSequence>> \/ (pc[r] = "insert" /\ Commit(r))
  BY <1>1 DEF Insert
<1>2. QED
  BY <1>1 DEF Next, Handle, vars, store, locals, Receive, ReportRead, Resolve, Unbind,
     Lookup, Reserve, BeginInsert, Recheck, Bind, ReadCursor, WriteCursor, Emit, Push,
     Undo, Fail, Crash, Expire, ToggleFriendship

LEMMA StorePreserved ==
  ASSUME TypeOK, StoreInv, [Next]_vars
  PROVE  StoreInv'
<1> USE DEF StoreInv, SequencesContiguous, OneRowPerKey
<1>1. CASE UNCHANGED <<messages, latestSequence>>
  BY <1>1
<1>2. ASSUME NEW r \in Requests, Commit(r)
      PROVE  StoreInv'
  <2> DEFINE new == [key |-> key[r], seq |-> latestSequence + 1, status |-> mode[r]]
  <2>1. latestSequence \in Nat /\ \A m \in messages : m.seq \in 1..latestSequence
    BY DEF TypeOK
  <2>2. /\ messages' = messages \cup {new}
        /\ latestSequence' = latestSequence + 1
        /\ \A m \in messages : m.key # new.key
    BY <1>2 DEF Commit, RowsOf
  <2>3. {m.seq : m \in messages'} = {m.seq : m \in messages} \cup {latestSequence + 1}
    <3> HIDE DEF new
    <3>1. new.seq = latestSequence + 1
      BY DEF new
    <3>2. QED
      BY <2>2, <3>1
  <2>4. 1..(latestSequence + 1) = 1..latestSequence \cup {latestSequence + 1}
    BY <2>1
  <2>5. \A m \in messages : m.seq # new.seq
    BY <2>1
  <2>6. \A m, n \in messages' : m.seq = n.seq \/ m.key = n.key => m = n
    BY <2>2, <2>5
  <2>7. QED
    BY <2>2, <2>3, <2>4, <2>6
<1>3. QED
  BY <1>1, <1>2, StoreStep

\* Rows are never removed or changed, and latestSequence never falls.
LEMMA StoreGrows ==
  ASSUME TypeOK, [Next]_vars
  PROVE  messages \subseteq messages' /\ latestSequence <= latestSequence'
BY StoreStep DEF Commit, TypeOK

\* A request keeps the row it works with.
LEMMA TargetPreserved ==
  ASSUME TypeOK, ModeInv, TargetInv, BindingIsOwn, [Next]_vars
  PROVE  TargetInv'
<1> USE StoreGrows DEF TypeOK, ModeInv, StoringSteps, TargetInv, BindingIsOwn, HasRow, RowsOf, Statuses, Ended, Goto, store, locals
<1>1. ASSUME NEW r \in Requests, Receive(r)
      PROVE  TargetInv'
  BY <1>1 DEF Receive
<1>2. ASSUME NEW r \in Requests, NEW n \in Positions, ReportRead(r, n)
      PROVE  TargetInv'
  BY <1>2 DEF ReportRead
<1>3. ASSUME NEW r \in Requests, Resolve(r)
      PROVE  TargetInv'
  BY <1>3 DEF Resolve, Reuse
<1>4. ASSUME NEW r \in Requests, Unbind(r)
      PROVE  TargetInv'
  BY <1>4 DEF Unbind
<1>5. ASSUME NEW r \in Requests, Lookup(r)
      PROVE  TargetInv'
  BY <1>5 DEF Lookup, Reuse, RowsOf
<1>6. ASSUME NEW r \in Requests, Reserve(r)
      PROVE  TargetInv'
  BY <1>6 DEF Reserve
<1>7. ASSUME NEW r \in Requests, BeginInsert(r)
      PROVE  TargetInv'
  BY <1>7 DEF BeginInsert
<1>8. ASSUME NEW r \in Requests, Insert(r)
      PROVE  TargetInv'
  <2>1. ASSUME Commit(r), target' = [target EXCEPT ![r] = latestSequence + 1]
        PROVE  HasRow(r)'
    <3> DEFINE new == [key |-> key[r], seq |-> latestSequence + 1, status |-> mode[r]]
    <3>1. new \in messages' /\ new.key = key'[r]
      BY <1>8, <2>1 DEF Insert, Commit
    <3>2. new.seq = target'[r]
      BY <2>1
    <3>3. QED
      BY <3>1, <3>2
  <2>2. \A q \in Requests : HasRow(q) /\ target'[q] = target[q] => HasRow(q)'
    BY <1>8 DEF Insert
  <2>3. ASSUME NEW q \in Requests, q # r
        PROVE  pc'[q] = pc[q] /\ mode'[q] = mode[q] /\ target'[q] = target[q]
    BY <1>8, <2>3 DEF Insert
  <2>4. pc'[r] # "recheck" => HasRow(r)'
    BY <1>8, <2>1 DEF Insert
  <2>5. QED
    BY <1>8, <2>2, <2>3, <2>4 DEF Insert, Stored
<1>9. ASSUME NEW r \in Requests, Recheck(r)
      PROVE  TargetInv'
  BY <1>9 DEF Recheck, RowsOf, Stored, Abandon, HoldsReservation
<1>10. ASSUME NEW r \in Requests, Bind(r)
      PROVE  TargetInv'
  BY <1>10 DEF Bind
<1>11. ASSUME NEW r \in Requests, ReadCursor(r)
      PROVE  TargetInv'
  BY <1>11 DEF ReadCursor
<1>12. ASSUME NEW r \in Requests, WriteCursor(r)
      PROVE  TargetInv'
  BY <1>12 DEF WriteCursor
<1>13. ASSUME NEW r \in Requests, Emit(r)
      PROVE  TargetInv'
  BY <1>13 DEF Emit
<1>14. ASSUME NEW r \in Requests, Push(r)
      PROVE  TargetInv'
  BY <1>14 DEF Push
<1>15. ASSUME NEW r \in Requests, Undo(r)
      PROVE  TargetInv'
  BY <1>15 DEF Undo
<1>16. ASSUME NEW r \in Requests, Fail(r)
      PROVE  TargetInv'
  BY <1>16 DEF Fail, Abandon, HoldsReservation, ReleaseRow, InFlight
<1>17. ASSUME NEW r \in Requests, Crash(r)
      PROVE  TargetInv'
  BY <1>17 DEF Crash, ReleaseRow, InFlight
<1>18. ASSUME NEW k \in Keys, Expire(k)
      PROVE  TargetInv'
  BY <1>18 DEF Expire
<1>19. CASE ToggleFriendship
  BY <1>19 DEF ToggleFriendship
<1>20. CASE UNCHANGED vars
  BY <1>20 DEF vars
<1>21. QED
  BY <1>1, <1>2, <1>3, <1>4, <1>5, <1>6, <1>7, <1>8, <1>9, <1>10, <1>11, <1>12, <1>13, <1>14, <1>15, <1>16, <1>17, <1>18, <1>19, <1>20 DEF Next, Handle

\* Only the id of the row just stored or found is bound.
LEMMA BindingPreserved ==
  ASSUME TypeOK, TargetInv, BindingIsOwn, [Next]_vars
  PROVE  BindingIsOwn'
<1> USE StoreGrows, SentinelAssumption DEF TypeOK, TargetInv, BindingIsOwn, HasRow, RowsOf, Goto, store, locals
<1>1. ASSUME NEW r \in Requests, Receive(r)
      PROVE  BindingIsOwn'
  BY <1>1 DEF Receive
<1>2. ASSUME NEW r \in Requests, NEW n \in Positions, ReportRead(r, n)
      PROVE  BindingIsOwn'
  BY <1>2 DEF ReportRead
<1>3. ASSUME NEW r \in Requests, Resolve(r)
      PROVE  BindingIsOwn'
  BY <1>3 DEF Resolve, Reuse
<1>4. ASSUME NEW r \in Requests, Unbind(r)
      PROVE  BindingIsOwn'
  BY <1>4 DEF Unbind
<1>5. ASSUME NEW r \in Requests, Lookup(r)
      PROVE  BindingIsOwn'
  BY <1>5 DEF Lookup, Reuse, RowsOf
<1>6. ASSUME NEW r \in Requests, Reserve(r)
      PROVE  BindingIsOwn'
  BY <1>6 DEF Reserve
<1>7. ASSUME NEW r \in Requests, BeginInsert(r)
      PROVE  BindingIsOwn'
  BY <1>7 DEF BeginInsert
<1>8. ASSUME NEW r \in Requests, Insert(r)
      PROVE  BindingIsOwn'
  BY <1>8 DEF Insert, Commit, Stored
<1>9. ASSUME NEW r \in Requests, Recheck(r)
      PROVE  BindingIsOwn'
  BY <1>9 DEF Recheck, RowsOf, Stored, Abandon, HoldsReservation
<1>10. ASSUME NEW r \in Requests, Bind(r)
      PROVE  BindingIsOwn'
  BY <1>10 DEF Bind
<1>11. ASSUME NEW r \in Requests, ReadCursor(r)
      PROVE  BindingIsOwn'
  BY <1>11 DEF ReadCursor
<1>12. ASSUME NEW r \in Requests, WriteCursor(r)
      PROVE  BindingIsOwn'
  BY <1>12 DEF WriteCursor
<1>13. ASSUME NEW r \in Requests, Emit(r)
      PROVE  BindingIsOwn'
  BY <1>13 DEF Emit
<1>14. ASSUME NEW r \in Requests, Push(r)
      PROVE  BindingIsOwn'
  BY <1>14 DEF Push
<1>15. ASSUME NEW r \in Requests, Undo(r)
      PROVE  BindingIsOwn'
  BY <1>15 DEF Undo
<1>16. ASSUME NEW r \in Requests, Fail(r)
      PROVE  BindingIsOwn'
  BY <1>16 DEF Fail, Abandon, HoldsReservation, ReleaseRow, InFlight
<1>17. ASSUME NEW r \in Requests, Crash(r)
      PROVE  BindingIsOwn'
  BY <1>17 DEF Crash, ReleaseRow, InFlight
<1>18. ASSUME NEW k \in Keys, Expire(k)
      PROVE  BindingIsOwn'
  BY <1>18 DEF Expire
<1>19. CASE ToggleFriendship
  BY <1>19 DEF ToggleFriendship
<1>20. CASE UNCHANGED vars
  BY <1>20 DEF vars
<1>21. QED
  BY <1>1, <1>2, <1>3, <1>4, <1>5, <1>6, <1>7, <1>8, <1>9, <1>10, <1>11, <1>12, <1>13, <1>14, <1>15, <1>16, <1>17, <1>18, <1>19, <1>20 DEF Next, Handle

\* Positions stay within the log, which only grows.
LEMMA BoundPreserved ==
  ASSUME TypeOK, StoreInv, BoundInv, BindingIsOwn, [Next]_vars
  PROVE  BoundInv'
<1> USE StoreGrows, PositionsAssumption DEF TypeOK, StoreInv, SequencesContiguous, BoundInv, CursorWithinLog, RowsOf, SenderOf, Keys, Row, Goto, store, locals
<1>1. ASSUME NEW r \in Requests, Receive(r)
      PROVE  BoundInv'
  BY <1>1 DEF Receive
<1>2. ASSUME NEW r \in Requests, NEW n \in Positions, ReportRead(r, n)
      PROVE  BoundInv'
  BY <1>2 DEF ReportRead
<1>3. ASSUME NEW r \in Requests, Resolve(r)
      PROVE  BoundInv'
  BY <1>3 DEF Resolve, Reuse
<1>4. ASSUME NEW r \in Requests, Unbind(r)
      PROVE  BoundInv'
  BY <1>4 DEF Unbind
<1>5. ASSUME NEW r \in Requests, Lookup(r)
      PROVE  BoundInv'
  BY <1>5 DEF Lookup, Reuse, RowsOf
<1>6. ASSUME NEW r \in Requests, Reserve(r)
      PROVE  BoundInv'
  BY <1>6 DEF Reserve
<1>7. ASSUME NEW r \in Requests, BeginInsert(r)
      PROVE  BoundInv'
  BY <1>7 DEF BeginInsert
<1>8. ASSUME NEW r \in Requests, Insert(r)
      PROVE  BoundInv'
  <2>1. \/ UNCHANGED target
        \/ target' = [target EXCEPT ![r] = latestSequence + 1] /\ latestSequence' = latestSequence + 1
    BY <1>8 DEF Insert, Commit
  <2>2. UNCHANGED <<seen, cursor>> /\ latestSequence' \in Nat
    BY <1>8 DEF Insert, Commit
  <2>3. ASSUME NEW q \in Requests
        PROVE  target'[q] <= latestSequence'
    <3>1. latestSequence <= latestSequence' /\ latestSequence \in Nat
      OBVIOUS
    <3>2. target[q] <= latestSequence /\ target[q] \in Nat
      OBVIOUS
    <3>3. target'[q] = target[q] \/ target'[q] = latestSequence'
      BY <2>1
    <3>4. QED
      BY <3>1, <3>2, <3>3, <2>2
  <2>4. \A q \in Requests : seen'[q] <= latestSequence'
    BY <2>2
  <2>5. \A u \in Members : cursor'[u] <= latestSequence'
    BY <2>2
  <2>6. QED
    BY <2>3, <2>4, <2>5
<1>9. ASSUME NEW r \in Requests, Recheck(r)
      PROVE  BoundInv'
  <2>1. \A m \in messages : m.seq <= latestSequence /\ m.seq \in Nat
    OBVIOUS
  <2>2. UNCHANGED <<seen, cursor, latestSequence>>
    BY <1>9 DEF Recheck
  <2>3. \/ UNCHANGED target
        \/ \E m \in messages : target' = [target EXCEPT ![r] = m.seq]
    BY <1>9 DEF Recheck
  <2>4. QED
    BY <2>1, <2>2, <2>3
<1>10. ASSUME NEW r \in Requests, Bind(r)
      PROVE  BoundInv'
  BY <1>10 DEF Bind
<1>11. ASSUME NEW r \in Requests, ReadCursor(r)
      PROVE  BoundInv'
  BY <1>11 DEF ReadCursor
<1>12. ASSUME NEW r \in Requests, WriteCursor(r)
      PROVE  BoundInv'
  BY <1>12 DEF WriteCursor
<1>13. ASSUME NEW r \in Requests, Emit(r)
      PROVE  BoundInv'
  BY <1>13 DEF Emit
<1>14. ASSUME NEW r \in Requests, Push(r)
      PROVE  BoundInv'
  BY <1>14 DEF Push
<1>15. ASSUME NEW r \in Requests, Undo(r)
      PROVE  BoundInv'
  BY <1>15 DEF Undo
<1>16. ASSUME NEW r \in Requests, Fail(r)
      PROVE  BoundInv'
  BY <1>16 DEF Fail, Abandon, HoldsReservation, ReleaseRow, InFlight
<1>17. ASSUME NEW r \in Requests, Crash(r)
      PROVE  BoundInv'
  BY <1>17 DEF Crash, ReleaseRow, InFlight
<1>18. ASSUME NEW k \in Keys, Expire(k)
      PROVE  BoundInv'
  BY <1>18 DEF Expire
<1>19. CASE ToggleFriendship
  BY <1>19 DEF ToggleFriendship
<1>20. CASE UNCHANGED vars
  BY <1>20 DEF vars
<1>21. QED
  BY <1>1, <1>2, <1>3, <1>4, <1>5, <1>6, <1>7, <1>8, <1>9, <1>10, <1>11, <1>12, <1>13, <1>14, <1>15, <1>16, <1>17, <1>18, <1>19, <1>20 DEF Next, Handle

\* A late retry never comes near the announcement.
LEMMA LatePreserved ==
  ASSUME TypeOK, ModeInv, LateInv, [Next]_vars
  PROVE  LateInv'
<1> USE StoreGrows DEF TypeOK, ModeInv, StoringSteps, LateInv, RowsOf, Statuses, Ended, Goto, store, locals
<1>1. ASSUME NEW r \in Requests, Receive(r)
      PROVE  LateInv'
  BY <1>1 DEF Receive
<1>2. ASSUME NEW r \in Requests, NEW n \in Positions, ReportRead(r, n)
      PROVE  LateInv'
  BY <1>2 DEF ReportRead
<1>3. ASSUME NEW r \in Requests, Resolve(r)
      PROVE  LateInv'
  BY <1>3 DEF Resolve, Reuse
<1>4. ASSUME NEW r \in Requests, Unbind(r)
      PROVE  LateInv'
  BY <1>4 DEF Unbind
<1>5. ASSUME NEW r \in Requests, Lookup(r)
      PROVE  LateInv'
  BY <1>5 DEF Lookup, Reuse, RowsOf
<1>6. ASSUME NEW r \in Requests, Reserve(r)
      PROVE  LateInv'
  BY <1>6 DEF Reserve
<1>7. ASSUME NEW r \in Requests, BeginInsert(r)
      PROVE  LateInv'
  BY <1>7 DEF BeginInsert
<1>8. ASSUME NEW r \in Requests, Insert(r)
      PROVE  LateInv'
  BY <1>8 DEF Insert, Commit, Stored
<1>9. ASSUME NEW r \in Requests, Recheck(r)
      PROVE  LateInv'
  BY <1>9 DEF Recheck, RowsOf, Stored, Abandon, HoldsReservation
<1>10. ASSUME NEW r \in Requests, Bind(r)
      PROVE  LateInv'
  BY <1>10 DEF Bind
<1>11. ASSUME NEW r \in Requests, ReadCursor(r)
      PROVE  LateInv'
  BY <1>11 DEF ReadCursor
<1>12. ASSUME NEW r \in Requests, WriteCursor(r)
      PROVE  LateInv'
  BY <1>12 DEF WriteCursor
<1>13. ASSUME NEW r \in Requests, Emit(r)
      PROVE  LateInv'
  BY <1>13 DEF Emit
<1>14. ASSUME NEW r \in Requests, Push(r)
      PROVE  LateInv'
  BY <1>14 DEF Push
<1>15. ASSUME NEW r \in Requests, Undo(r)
      PROVE  LateInv'
  BY <1>15 DEF Undo
<1>16. ASSUME NEW r \in Requests, Fail(r)
      PROVE  LateInv'
  BY <1>16 DEF Fail, Abandon, HoldsReservation, ReleaseRow, InFlight
<1>17. ASSUME NEW r \in Requests, Crash(r)
      PROVE  LateInv'
  BY <1>17 DEF Crash, ReleaseRow, InFlight
<1>18. ASSUME NEW k \in Keys, Expire(k)
      PROVE  LateInv'
  BY <1>18 DEF Expire
<1>19. CASE ToggleFriendship
  BY <1>19 DEF ToggleFriendship
<1>20. CASE UNCHANGED vars
  BY <1>20 DEF vars
<1>21. QED
  BY <1>1, <1>2, <1>3, <1>4, <1>5, <1>6, <1>7, <1>8, <1>9, <1>10, <1>11, <1>12, <1>13, <1>14, <1>15, <1>16, <1>17, <1>18, <1>19, <1>20 DEF Next, Handle

\* Announcements are of stored rows, by requests that are not late.
LEMMA EmittedPreserved ==
  ASSUME TypeOK, TargetInv, LateInv, EmittedInv, [Next]_vars
  PROVE  EmittedInv'
<1> USE StoreGrows DEF TypeOK, TargetInv, LateInv, EmittedInv, HasRow, RowsOf, Event, Ended, Goto, store, locals
<1>1. ASSUME NEW r \in Requests, Receive(r)
      PROVE  EmittedInv'
  BY <1>1 DEF Receive
<1>2. ASSUME NEW r \in Requests, NEW n \in Positions, ReportRead(r, n)
      PROVE  EmittedInv'
  BY <1>2 DEF ReportRead
<1>3. ASSUME NEW r \in Requests, Resolve(r)
      PROVE  EmittedInv'
  BY <1>3 DEF Resolve, Reuse
<1>4. ASSUME NEW r \in Requests, Unbind(r)
      PROVE  EmittedInv'
  BY <1>4 DEF Unbind
<1>5. ASSUME NEW r \in Requests, Lookup(r)
      PROVE  EmittedInv'
  BY <1>5 DEF Lookup, Reuse, RowsOf
<1>6. ASSUME NEW r \in Requests, Reserve(r)
      PROVE  EmittedInv'
  BY <1>6 DEF Reserve
<1>7. ASSUME NEW r \in Requests, BeginInsert(r)
      PROVE  EmittedInv'
  BY <1>7 DEF BeginInsert
<1>8. ASSUME NEW r \in Requests, Insert(r)
      PROVE  EmittedInv'
  BY <1>8 DEF Insert, Commit, Stored
<1>9. ASSUME NEW r \in Requests, Recheck(r)
      PROVE  EmittedInv'
  BY <1>9 DEF Recheck, RowsOf, Stored, Abandon, HoldsReservation
<1>10. ASSUME NEW r \in Requests, Bind(r)
      PROVE  EmittedInv'
  BY <1>10 DEF Bind
<1>11. ASSUME NEW r \in Requests, ReadCursor(r)
      PROVE  EmittedInv'
  BY <1>11 DEF ReadCursor
<1>12. ASSUME NEW r \in Requests, WriteCursor(r)
      PROVE  EmittedInv'
  BY <1>12 DEF WriteCursor
<1>13. ASSUME NEW r \in Requests, Emit(r)
      PROVE  EmittedInv'
  BY <1>13 DEF Emit
<1>14. ASSUME NEW r \in Requests, Push(r)
      PROVE  EmittedInv'
  BY <1>14 DEF Push
<1>15. ASSUME NEW r \in Requests, Undo(r)
      PROVE  EmittedInv'
  BY <1>15 DEF Undo
<1>16. ASSUME NEW r \in Requests, Fail(r)
      PROVE  EmittedInv'
  BY <1>16 DEF Fail, Abandon, HoldsReservation, ReleaseRow, InFlight
<1>17. ASSUME NEW r \in Requests, Crash(r)
      PROVE  EmittedInv'
  BY <1>17 DEF Crash, ReleaseRow, InFlight
<1>18. ASSUME NEW k \in Keys, Expire(k)
      PROVE  EmittedInv'
  BY <1>18 DEF Expire
<1>19. CASE ToggleFriendship
  BY <1>19 DEF ToggleFriendship
<1>20. CASE UNCHANGED vars
  BY <1>20 DEF vars
<1>21. QED
  BY <1>1, <1>2, <1>3, <1>4, <1>5, <1>6, <1>7, <1>8, <1>9, <1>10, <1>11, <1>12, <1>13, <1>14, <1>15, <1>16, <1>17, <1>18, <1>19, <1>20 DEF Next, Handle

-----------------------------------------------------------------------------
LEMMA StepInductive == Inductive /\ [Next]_vars => Inductive'
BY TypePreserved, StorePreserved, TargetPreserved, BindingPreserved, BoundPreserved,
   LatePreserved, EmittedPreserved DEF Inductive

LEMMA AlwaysInductive == Spec => []Inductive
BY InitInductive, StepInductive, PTL DEF Spec

\* Every variable keeps its type, for any number of requests and members.
THEOREM TypeCorrect == Spec => []TypeOK
<1>1. Inductive => TypeOK
  BY DEF Inductive
<1>2. QED
  BY <1>1, AlwaysInductive, PTL

\* Sequences are contiguous and unique whatever rolls back, fails or crashes.
THEOREM SequencesAreContiguous == Spec => []SequencesContiguous
<1>1. Inductive => SequencesContiguous
  BY DEF Inductive, StoreInv
<1>2. QED
  BY <1>1, AlwaysInductive, PTL

\* A client key is stored at most once, whatever becomes of its Redis key.
THEOREM KeysAreStoredOnce == Spec => []OneRowPerKey
<1>1. Inductive => OneRowPerKey
  BY DEF Inductive, StoreInv
<1>2. QED
  BY <1>1, AlwaysInductive, PTL

\* A bound idempotency key names the row of that key.
THEOREM BindingsAreOwn == Spec => []BindingIsOwn
<1>1. Inductive => BindingIsOwn
  BY DEF Inductive
<1>2. QED
  BY <1>1, AlwaysInductive, PTL

\* An accepted send is stored under its own key.
THEOREM AcceptedAreStored == Spec => []AcceptedIsStored
<1>1. Inductive => AcceptedIsStored
  BY DEF Inductive, TargetInv, HasRow, AcceptedIsStored
<1>2. QED
  BY <1>1, AlwaysInductive, PTL

\* A retry that starts after the message was stored never announces it.
THEOREM LateRetriesAreSilent == Spec => []LateRetryIsSilent
<1>1. Inductive => LateRetryIsSilent
  BY DEF Inductive, EmittedInv, LateRetryIsSilent
<1>2. QED
  BY <1>1, AlwaysInductive, PTL

\* No read cursor passes the end of the log.
THEOREM CursorsStayWithinLog == Spec => []CursorWithinLog
<1>1. Inductive => CursorWithinLog
  BY DEF Inductive, BoundInv
<1>2. QED
  BY <1>1, AlwaysInductive, PTL

-----------------------------------------------------------------------------
(* Messaging implements MessageLog.                                           *)

Answered(r) == pc[r] = "accepted" /\ mode[r] # "read"
AckedKeys == {key[r] : r \in {q \in Requests : Answered(q)}}
Announced == {e.seq : e \in emitted}

\* A stored row is the one RowAt finds, and StoredLog holds it.
LEMMA RowAtFinds ==
  ASSUME TypeOK, StoreInv, NEW m \in messages
  PROVE  RowAt(m.seq) = m /\ m.seq \in 1..latestSequence
BY DEF RowAt, StoreInv, SequencesContiguous

LEMMA LogHolds ==
  ASSUME TypeOK, StoreInv, NEW m \in messages
  PROVE  m.key \in Log!LoggedKeys /\ m.seq \in DOMAIN StoredLog
<1>1. m.seq \in DOMAIN StoredLog /\ StoredLog[m.seq].key = m.key
  BY RowAtFinds DEF StoredLog
<1>2. QED
  BY <1>1 DEF Log!LoggedKeys

LEMMA RowOfSequence ==
  ASSUME TypeOK, StoreInv, NEW n \in 1..latestSequence
  PROVE  RowAt(n) \in messages /\ RowAt(n).seq = n
<1>1. \E m \in messages : m.seq = n
  BY DEF StoreInv, SequencesContiguous
<1>2. QED
  BY <1>1 DEF RowAt

\* A commit appends one entry whose key was not logged before.
LEMMA CommitAppends ==
  ASSUME TypeOK, StoreInv, TypeOK', StoreInv', NEW r \in Requests, Commit(r),
         mode[r] \in Statuses
  PROVE  LET e == [key |-> key[r], status |-> mode[r]] IN
         /\ e \in Log!Entries
         /\ e.key \notin Log!LoggedKeys
         /\ StoredLog' = Append(StoredLog, e)
<1> DEFINE e == [key |-> key[r], status |-> mode[r]]
           new == [key |-> key[r], seq |-> latestSequence + 1, status |-> mode[r]]
<1>1. /\ messages' = messages \cup {new} /\ latestSequence' = latestSequence + 1
      /\ latestSequence \in Nat
  BY DEF Commit, TypeOK
<1>2. e \in Log!Entries
  BY DEF Log!Entries, TypeOK
<1>3. e.key \notin Log!LoggedKeys
  <2>1. ASSUME NEW n \in DOMAIN StoredLog
        PROVE  StoredLog[n].key # e.key
    <3>1. n \in 1..latestSequence /\ StoredLog[n].key = RowAt(n).key
      BY DEF StoredLog
    <3>2. RowAt(n) \in messages
      BY <3>1, RowOfSequence
    <3>3. QED
      BY <3>1, <3>2 DEF Commit, RowsOf
  <2>2. QED
    BY <2>1 DEF Log!LoggedKeys
<1>4. ASSUME NEW n \in 1..latestSequence
      PROVE  RowAt(n)' = RowAt(n)
  <2>1. RowAt(n) \in messages /\ RowAt(n).seq = n
    BY RowOfSequence
  <2>2. \A m \in messages' : m.seq = n => m = RowAt(n)
    BY <2>1, <1>1 DEF StoreInv, SequencesContiguous
  <2>3. QED
    BY <2>1, <2>2, <1>1 DEF RowAt
<1>5. ASSUME NEW n, n = latestSequence + 1
      PROVE  RowAt(n)' = new
  <2>1. new \in messages' /\ new.seq = n
    BY <1>1, <1>5
  <2>2. \A m \in messages' : m.seq = n => m = new
    BY <2>1 DEF StoreInv, SequencesContiguous
  <2>3. QED
    BY <2>1, <2>2 DEF RowAt
<1>6. StoredLog' = Append(StoredLog, e)
  <2>1. DOMAIN StoredLog = 1..latestSequence /\ Len(StoredLog) = latestSequence
    BY <1>1 DEF StoredLog
  <2>2. StoredLog \in Seq(Log!Entries)
    <3>1. \A n \in 1..latestSequence : StoredLog[n] \in Log!Entries
      BY RowOfSequence DEF StoredLog, TypeOK, Row, Log!Entries
    <3>2. QED
      BY <3>1, <2>1, <1>1 DEF StoredLog
  <2>3. DOMAIN (StoredLog') = 1..(latestSequence + 1)
    BY <1>1 DEF StoredLog
  <2>4. ASSUME NEW n \in 1..(latestSequence + 1)
        PROVE  StoredLog'[n] = Append(StoredLog, e)[n]
    <3>1. StoredLog'[n] = [key |-> RowAt(n)'.key, status |-> RowAt(n)'.status]
      BY <1>1 DEF StoredLog
    <3>2. CASE n = latestSequence + 1
      BY <3>1, <3>2, <1>5, <2>1, <2>2, <1>2
    <3>3. CASE n \in 1..latestSequence
      <4>1. StoredLog'[n] = StoredLog[n]
        BY <3>1, <3>3, <1>4 DEF StoredLog
      <4>2. QED
        BY <4>1, <3>3, <2>1, <2>2, <1>2
    <3>4. n = latestSequence + 1 \/ n \in 1..latestSequence
      BY <1>1
    <3>5. QED
      BY <3>2, <3>3, <3>4
  <2>5. DOMAIN Append(StoredLog, e) = 1..(latestSequence + 1)
    BY <2>1, <2>2, <1>2
  <2>6. StoredLog' = [n \in 1..(latestSequence + 1) |-> StoredLog'[n]]
    BY <2>3, <1>1 DEF StoredLog
  <2>7. Append(StoredLog, e) = [n \in 1..(latestSequence + 1) |-> Append(StoredLog, e)[n]]
    BY <2>1, <2>2, <1>2
  <2>8. QED
    BY <2>4, <2>6, <2>7
<1>7. QED
  BY <1>2, <1>3, <1>6

\* A step of one request that leaves the store and the events alone is an
\* acknowledgement or changes nothing that a user can see.
LEMMA OtherStep ==
  ASSUME Inductive, Inductive', NEW r \in Requests,
         UNCHANGED <<messages, latestSequence, emitted, key>>,
         \A q \in Requests \ {r} : pc'[q] = pc[q] /\ mode'[q] = mode[q],
         pc[r] # "accepted"
  PROVE  [Log!LogNext]_(Log!logVars)
<1>1. UNCHANGED <<StoredLog, Announced>>
  BY DEF StoredLog, RowAt, Announced
<1>2. \A q \in Requests \ {r} : Answered(q)' = Answered(q)
  BY DEF Answered
<1>3. ~Answered(r)
  BY DEF Answered
<1>4. CASE ~Answered(r)'
  <2>1. AckedKeys' = AckedKeys
    BY <1>2, <1>3, <1>4 DEF AckedKeys
  <2>2. QED
    BY <1>1, <2>1 DEF Log!logVars, AckedKeys, Announced, Answered
<1>5. CASE Answered(r)'
  <2>1. AckedKeys' = AckedKeys \cup {key[r]}
    BY <1>2, <1>3, <1>5 DEF AckedKeys
  <2>2. \E m \in messages : m.key = key[r]
    BY <1>5 DEF Inductive, TargetInv, HasRow, RowsOf, Answered
  <2>3. key[r] \in Log!LoggedKeys
    BY <2>2, LogHolds DEF Inductive
  <2>4. key[r] \in Keys
    BY DEF Inductive, TypeOK
  <2>5. \E k \in Keys : Log!Ack(k)
    BY <1>1, <2>1, <2>3, <2>4 DEF Log!Ack, AckedKeys, Announced, Answered
  <2>6. QED
    BY <2>5 DEF Log!LogNext
<1>6. QED
  BY <1>4, <1>5

LEMMA StepImplementsLog ==
  ASSUME Inductive, Inductive', [Next]_vars
  PROVE  [Log!LogNext]_(Log!logVars)
<1> USE DEF Goto, store, locals
<1>1. ASSUME NEW r \in Requests, Insert(r)
      PROVE  [Log!LogNext]_(Log!logVars)
  <2>1. CASE UNCHANGED <<messages, latestSequence>>
    BY <1>1, <2>1, OtherStep DEF Insert, Stored, Inductive, TypeOK
  <2>2. CASE Commit(r)
    <3>1. UNCHANGED <<emitted, key, mode>>
      BY <1>1 DEF Insert
    <3>2. \A q \in Requests : pc'[q] = "accepted" <=> pc[q] = "accepted"
      BY <1>1 DEF Insert, Stored, Inductive, TypeOK
    <3>3. AckedKeys' = AckedKeys
      BY <3>1, <3>2 DEF AckedKeys, Answered
    <3>4. mode[r] \in Statuses
      BY <1>1 DEF Insert, Inductive, ModeInv, StoringSteps
    <3>5. PICK e \in Log!Entries : e.key \notin Log!LoggedKeys /\ StoredLog' = Append(StoredLog, e)
      BY <2>2, <3>4, CommitAppends DEF Inductive
    <3>6. Log!AppendEntry(e)
      BY <3>1, <3>3, <3>5 DEF Log!AppendEntry, AckedKeys, Answered
    <3>7. QED
      BY <3>6 DEF Log!LogNext
  <2>3. QED
    BY <1>1, <2>1, <2>2 DEF Insert
<1>2. ASSUME NEW r \in Requests, Emit(r)
      PROVE  [Log!LogNext]_(Log!logVars)
  <2>1. UNCHANGED <<messages, latestSequence, key, mode>>
    BY <1>2 DEF Emit
  <2>2. \A q \in Requests : pc'[q] = "accepted" <=> pc[q] = "accepted"
    BY <1>2 DEF Emit, Inductive, TypeOK
  <2>3. UNCHANGED <<StoredLog, AckedKeys>>
    BY <2>1, <2>2 DEF StoredLog, RowAt, AckedKeys, Answered
  <2>4. Announced' = Announced \cup {target[r]}
    <3> DEFINE new == [by |-> r, seq |-> target[r]]
    <3>1. emitted' = emitted \cup {new} /\ new.seq = target[r]
      BY <1>2 DEF Emit
    <3> HIDE DEF new
    <3>2. QED
      BY <3>1 DEF Announced
  <2>5. target[r] \in DOMAIN StoredLog
    <3>1. \E m \in messages : m.seq = target[r]
      BY <1>2 DEF Emit, Inductive, TargetInv, HasRow, RowsOf
    <3>2. QED
      BY <3>1, LogHolds DEF Inductive
  <2>6. \E n \in DOMAIN StoredLog : Log!Publish(n)
    BY <2>3, <2>4, <2>5 DEF Log!Publish, AckedKeys, Announced, Answered
  <2>7. QED
    BY <2>6 DEF Log!LogNext
<1>3. ASSUME NEW r \in Requests, Receive(r) \/ Resolve(r) \/ Lookup(r)
      PROVE  [Log!LogNext]_(Log!logVars)
  BY <1>3, OtherStep DEF Receive, Resolve, Lookup, Reuse, Inductive, TypeOK
<1>4. ASSUME NEW r \in Requests,
             \/ \E n \in Positions : ReportRead(r, n)
             \/ Unbind(r) \/ Reserve(r) \/ BeginInsert(r) \/ Recheck(r) \/ Bind(r)
             \/ ReadCursor(r) \/ WriteCursor(r) \/ Push(r) \/ Undo(r)
      PROVE  [Log!LogNext]_(Log!logVars)
  BY <1>4, OtherStep DEF ReportRead, Unbind, Reserve, BeginInsert, Recheck, Bind,
     ReadCursor, WriteCursor, Push, Undo, Stored, Abandon, Inductive, TypeOK
<1>5. ASSUME NEW r \in Requests, Fail(r) \/ Crash(r)
      PROVE  [Log!LogNext]_(Log!logVars)
  BY <1>5, OtherStep DEF Fail, Crash, ReleaseRow, Abandon, InFlight, Ended, Inductive, TypeOK
<1>6. ASSUME UNCHANGED <<messages, latestSequence, emitted, key, pc, mode>>
      PROVE  [Log!LogNext]_(Log!logVars)
  BY <1>6 DEF Log!logVars, StoredLog, RowAt
<1>7. QED
  <2>1. ASSUME \/ \E k \in Keys : Expire(k)
               \/ ToggleFriendship
               \/ UNCHANGED vars
        PROVE  UNCHANGED <<messages, latestSequence, emitted, key, pc, mode>>
    BY <2>1 DEF Expire, ToggleFriendship, vars
  <2>2. QED
    BY <1>1, <1>2, <1>3, <1>4, <1>5, <1>6, <2>1 DEF Next, Handle

\* The pipeline implements the append-only log, with its acknowledgements and
\* its announcements.
THEOREM PipelineImplementsLog == Spec => ImplementsLog
<1>1. Init => Log!LogInit
  <2> SUFFICES ASSUME Init PROVE Log!LogInit
    OBVIOUS
  <2>1. StoredLog = <<>>
    BY DEF Init, StoredLog
  <2>2. QED
    BY <2>1 DEF Init, Log!LogInit
<1>2. Inductive /\ Inductive' /\ [Next]_vars => [Log!LogNext]_(Log!logVars)
  BY StepImplementsLog
<1>3. QED
  BY <1>1, <1>2, AlwaysInductive, PTL DEF Spec, ImplementsLog, Log!LogSpec
=============================================================================
