--------------------------- MODULE RealtimeProofs ----------------------------
(* Machine-checked proofs about Realtime and its parts, for any number of     *)
(* messages, reloads, sockets, gateways, calls, reports and faults.  The      *)
(* names of a part that is an instance have its prefix: P! of Presence, T! of *)
(* Typing, R! of Reports.                                                     *)
EXTENDS Realtime, FiniteSetTheorems, TLAPS

-----------------------------------------------------------------------------
(* Inbox: the inductive invariant.                                            *)
-----------------------------------------------------------------------------

\* The requests that go on are told apart and work with messages that are stored;
\* only the member's own move his cursor, and to no position that does not exist.
SendInv ==
    /\ Len(rows) <= MaxMessages
    /\ cursor <= Len(rows)
    /\ count[MarkRead].at = "save" => count[MarkRead].from <= Len(rows)
    /\ IsFiniteSet(sending)
    /\ \A x \in sending :
          /\ x.seq \in DOMAIN rows /\ x.nth <= upsets
          /\ x.at # "emit" => rows[x.seq].by = "me"
          /\ x.at = "save" => x.seq <= x.to /\ x.to <= Len(rows)
    /\ \A x, y \in sending : x.seq = y.seq /\ x.nth = y.nth => x = y

\* A message counts at most one, and only the count of the event that moves the
\* cursor is on its way, once.
NetInv ==
    /\ \A k \in DOMAIN net : net[k].kind = "message" => net[k].unread \in {0, 1}
    /\ \A k \in DOMAIN net : net[k].kind = "cursor" => count[MarkRead].at = "net"
    /\ \A j, k \in DOMAIN net : net[j].kind = "cursor" /\ net[k].kind = "cursor" => j = k

\* Only a list that is loaded and on the screen is right; the reloads under way
\* while there is none were started by the list before.
ShownInv ==
    /\ right => list # NotLoaded
    /\ ~shown => ~right /\ UnderWay \cap Loads \subseteq old

\* A count that nothing crosses is alone, and what it has found stays true.
CountInv ==
    \A s \in UnderWay \ crossed :
        /\ sending = {} /\ UnderWay = {s}
        /\ count[s].at = "rows" => count[s].from = cursor
        /\ count[s].at = "answer" => count[s].unread = Unread(cursor)
        /\ \A k \in DOMAIN net : net[k].kind # "ready" =>
              /\ net[k].kind = "cursor" /\ net[k].unread = Unread(cursor)
              /\ s = MarkRead /\ count[s].at = "net"

\* Another count is under way to the list, or will be once the device is connected.
Owed ==
    \/ link # "up"
    \/ UnderWay # {}
    \/ \E k \in DOMAIN net : net[k].kind = "ready"

\* What the device has been told of and not counted, and what it will be told of.
Told == {k \in DOMAIN net : net[k].unread = 1}
Coming ==
    {x \in sending : IF x.at = "emit" THEN rows[x.seq].by = "other" ELSE x.seq > cursor}
Agree ==
    /\ agreed
    /\ list \in Nat /\ list + Cardinality(Told) + Cardinality(Coming) = Unread(cursor)
RightInv == right => Owed \/ Agree

InboxInv == TypeOK /\ SendInv /\ NetInv /\ ShownInv /\ CountInv /\ RightInv

\* The messages Unread counts.
Behind(after) == {k \in DOMAIN rows : k > after /\ (~rows[k].failed \/ rows[k].by = "me")}

Places == {"idle", "save", "start", "rows", "answer", "net"}
Work == [at : Places, from : 0 .. MaxMessages, unread : 0 .. MaxMessages]

LEMMA UnreadIsBounded ==
  ASSUME TypeOK, SendInv, NEW a \in Nat
  PROVE  /\ IsFiniteSet(Behind(a))
         /\ Unread(a) = Cardinality(Behind(a))
         /\ Unread(a) \in 0 .. Len(rows)
         /\ Unread(a) \in 0 .. MaxMessages
<1>1. Len(rows) \in Nat /\ DOMAIN rows = 1 .. Len(rows)
  BY DEF TypeOK
<1>2. IsFiniteSet(1 .. Len(rows)) /\ Cardinality(1 .. Len(rows)) = Len(rows)
  <2>1. 1 \in Int /\ Len(rows) \in Int
    BY <1>1
  <2>2. Cardinality(1 .. Len(rows)) = IF 1 > Len(rows) THEN 0 ELSE Len(rows) - 1 + 1
    BY <2>1, FS_Interval, Zenon
  <2>3. IsFiniteSet(1 .. Len(rows))
    BY <2>1, FS_Interval, Zenon
  <2>4. QED
    BY <1>1, <2>2, <2>3
<1>3. Behind(a) \subseteq 1 .. Len(rows)
  BY <1>1 DEF Behind
<1>4. IsFiniteSet(Behind(a)) /\ Cardinality(Behind(a)) <= Len(rows)
  BY <1>2, <1>3, FS_Subset
<1>5. Cardinality(Behind(a)) \in Nat
  BY <1>4, FS_CardinalityType
<1>6. Unread(a) = Cardinality(Behind(a))
  BY DEF Unread, Behind
<1>7. QED
  BY <1>1, <1>4, <1>5, <1>6, InboxBounds DEF SendInv

LEMMA InboxInitInductive == Init => InboxInv
<1> SUFFICES ASSUME Init PROVE InboxInv
  OBVIOUS
<1>1. TypeOK
  <2>1. rows \in Seq(Message) /\ net \in Seq(Event)
    BY DEF Init
  <2>2. count \in [Counters -> [at : Places, from : 0 .. MaxMessages, unread : 0 .. MaxMessages]]
    BY InboxBounds DEF Init, Idle, Places
  <2>3. cursor \in 0 .. MaxMessages /\ upsets \in 0 .. MaxUpsets
    BY InboxBounds DEF Init
  <2>4. QED
    BY <2>1, <2>2, <2>3 DEF Init, TypeOK, Places
<1>2. SendInv
  BY InboxBounds, FS_EmptySet DEF Init, SendInv, Idle, Counters
<1>3. NetInv /\ ShownInv /\ RightInv
  BY DEF Init, NetInv, ShownInv, RightInv
<1>4. CountInv
  BY DEF Init, CountInv, UnderWay, Idle
<1>5. QED
  BY <1>1, <1>2, <1>3, <1>4 DEF InboxInv

\* What a count that starts leaves under way.
LEMMA StartMoves ==
  ASSUME NEW c \in [Counters -> Work], NEW s \in Counters, Start(c, s),
         crossed \subseteq Counters,
         \A t \in Counters \ {Sync, s} : c[t] = count[t],
         s # Sync => count[s].at \in {"idle", "save"}
  PROVE  /\ count' \in [Counters -> Work]
         /\ crossed' \subseteq Counters
         /\ \A t \in Counters : t # s => count'[t] = c[t]
         /\ count'[s].at = "start"
         /\ s # Sync => UnderWay' = UnderWay \cup {s} /\ s \notin UnderWay
<1>1. count' = [c EXCEPT ![s].at = "start"] /\ c[s].at = "idle"
  BY DEF Start
<1>2. count' \in [Counters -> Work]
  BY <1>1 DEF Work, Places
<1>3. (\A t \in Counters : t # s => count'[t] = c[t]) /\ count'[s].at = "start"
  BY <1>1 DEF Work
<1>4. crossed' \subseteq Counters
  BY DEF Start, UnderWay
<1>5. ASSUME s # Sync PROVE UnderWay' = UnderWay \cup {s} /\ s \notin UnderWay
  BY <1>1, <1>3, <1>5 DEF UnderWay
<1>6. QED
  BY <1>2, <1>3, <1>4, <1>5

LEMMA LoadMoves ==
  ASSUME TypeOK, Load
  PROVE  \E l \in Loads :
            /\ Start(count, l)
            /\ l \in Counters \ {Sync, MarkRead}
            /\ count' \in [Counters -> Work]
            /\ crossed' \subseteq Counters
            /\ \A t \in Counters : t # l => count'[t] = count[t]
            /\ count'[l].at = "start"
            /\ UnderWay' = UnderWay \cup {l} /\ l \notin UnderWay
<1>1. PICK l \in Loads : Start(count, l)
  BY DEF Load
<1>2. l \in Counters \ {Sync, MarkRead}
  BY RequestAssumption DEF Counters
<1>3. count \in [Counters -> Work] /\ crossed \subseteq Counters /\ count[l].at = "idle"
  BY <1>1 DEF TypeOK, Work, Places, Start
<1>4. QED
  BY <1>1, <1>2, <1>3, StartMoves

\* A list that is on the screen is loaded after c, which differs from the counts at
\* Sync only.
LEMMA LoadAfterMoves ==
  ASSUME TypeOK, NEW c \in [Counters -> Work], LoadAfter(c),
         \A t \in Counters \ {Sync} : c[t] = count[t]
  PROVE  \/ /\ ~shown /\ count' = c /\ crossed' = crossed
            /\ UnderWay' = UnderWay
         \/ \E l \in Loads :
              /\ shown /\ Start(c, l)
              /\ l \in Counters \ {Sync, MarkRead}
              /\ count' \in [Counters -> Work]
              /\ crossed' \subseteq Counters
              /\ \A t \in Counters : t # l => count'[t] = c[t]
              /\ count'[l].at = "start"
              /\ UnderWay' = UnderWay \cup {l} /\ l \notin UnderWay
<1>1. CASE ~shown
  BY <1>1 DEF LoadAfter, UnderWay
<1>2. CASE shown
  <2>1. PICK l \in Loads : Start(c, l)
    BY <1>2 DEF LoadAfter
  <2>2. l \in Counters \ {Sync, MarkRead}
    BY RequestAssumption DEF Counters
  <2>3. crossed \subseteq Counters /\ count[l].at = "idle"
    BY <2>1, <2>2 DEF TypeOK, Start
  <2>4. QED
    BY <1>2, <2>1, <2>2, <2>3, StartMoves
<1>3. QED
  BY <1>1, <1>2 DEF TypeOK

\* A cursor that is saved is the start of a count; until then nothing is under way.
LEMMA SaveMoves ==
  ASSUME TypeOK, SaveReadCursor
  PROVE  /\ count' \in [Counters -> Work]
         /\ crossed' \subseteq Counters
         /\ \A t \in Counters \ {MarkRead} : count'[t] = count[t]
         /\ count'[MarkRead].at = "start"
         /\ UnderWay' = UnderWay \cup {MarkRead} /\ MarkRead \notin UnderWay
<1> DEFINE c == [count EXCEPT ![MarkRead] = Idle]
<1>1. /\ MarkRead \in Counters \ {Sync} /\ count \in [Counters -> Work]
      /\ Idle \in Work /\ crossed \subseteq Counters
  BY RequestAssumption, InboxBounds DEF TypeOK, Work, Places, Counters, Idle
<1>2. c \in [Counters -> Work] /\ \A t \in Counters \ {MarkRead} : c[t] = count[t]
  BY <1>1
<1>3. Start(c, MarkRead) /\ count[MarkRead].at = "save"
  BY DEF SaveReadCursor
<1> HIDE DEF c
<1>4. QED
  BY <1>1, <1>2, <1>3, StartMoves

LEMMA FindOwnMoves ==
  ASSUME TypeOK, SendInv, NEW n \in 1 .. MaxMessages, UpdateReadCursor(n)
  PROVE  /\ count' \in [Counters -> Work]
         /\ \A t \in Counters \ {MarkRead} : count'[t] = count[t]
         /\ count[MarkRead].at = "idle" /\ count'[MarkRead].at = "save"
         /\ count'[MarkRead].from <= Len(rows)
         /\ UnderWay' = UnderWay
<1> DEFINE w == [at |-> "save", from |-> Later(cursor, n), unread |-> 0]
<1>1. /\ MarkRead \in Counters \ {Sync} /\ count \in [Counters -> Work]
      /\ count[MarkRead] = Idle /\ n <= Len(rows)
      /\ count' = [count EXCEPT ![MarkRead] = w]
  BY RequestAssumption DEF TypeOK, Work, Places, Counters, UpdateReadCursor
<1>2. Later(cursor, n) \in 0 .. MaxMessages /\ Later(cursor, n) <= Len(rows)
  BY <1>1, InboxBounds DEF TypeOK, SendInv, Later
<1>3. w \in Work /\ w.at = "save" /\ w.from = Later(cursor, n)
  BY <1>2, InboxBounds DEF Work, Places
<1> HIDE DEF w
<1>4. /\ count' \in [Counters -> Work] /\ count'[MarkRead] = w
      /\ \A t \in Counters \ {MarkRead} : count'[t] = count[t]
  BY <1>1, <1>3
<1>5. count[MarkRead].at = "idle"
  BY <1>1 DEF Idle
<1>6. UnderWay' = UnderWay
  BY <1>1, <1>3, <1>4, <1>5 DEF UnderWay
<1>7. QED
  BY <1>2, <1>3, <1>4, <1>5, <1>6

-----------------------------------------------------------------------------
(* Every step preserves the types.                                            *)

\* The counts keep their types.
LEMMA CountTypePreserved ==
  ASSUME TypeOK, SendInv, [Next]_vars
  PROVE  count' \in [Counters -> Work] /\ crossed' \subseteq Counters
<1>0. /\ count \in [Counters -> Work] /\ crossed \subseteq Counters
      /\ MarkRead \in Counters /\ Sync \in Counters /\ Loads \subseteq Counters
      /\ Idle \in Work
      /\ UnderWay \subseteq Counters
  BY InboxBounds DEF TypeOK, Work, Places, Counters, Idle, UnderWay
<1>1. ASSUME NEW m \in Message, SendMessage(m) PROVE count' \in [Counters -> Work] /\ crossed' \subseteq Counters
  BY <1>0, <1>1 DEF SendMessage, Cross
<1>2. ASSUME NEW x \in sending, SendFinds(x) \/ SendReads(x) \/ EmitMessageCreated(x) \/ FailSend(x)
      PROVE  count' \in [Counters -> Work] /\ crossed' \subseteq Counters
  BY <1>0, <1>2 DEF SendFinds, SendReads, EmitMessageCreated, FailSend, Cross
<1>3. ASSUME NEW k \in DOMAIN rows, NEW tells \in BOOLEAN, SendAgain(k, tells)
       PROVE  count' \in [Counters -> Work] /\ crossed' \subseteq Counters
  BY <1>0, <1>3 DEF SendAgain, Cross
<1>4. ASSUME NEW n \in 1 .. MaxMessages, UpdateReadCursor(n)
      PROVE  count' \in [Counters -> Work] /\ crossed' \subseteq Counters
  BY <1>0, <1>4, FindOwnMoves DEF UpdateReadCursor
<1>5. CASE SaveReadCursor
  BY <1>5, SaveMoves
<1>6. ASSUME NEW s \in Counters, FindCursor(s)
      PROVE  count' \in [Counters -> Work] /\ crossed' \subseteq Counters
  <2>1. count' = [count EXCEPT ![s].at = "rows", ![s].from = cursor] /\ crossed' = crossed
    BY <1>6 DEF FindCursor
  <2>2. cursor \in 0 .. MaxMessages
    BY DEF TypeOK
  <2>3. [count[s] EXCEPT !.at = "rows", !.from = cursor] \in Work
    BY <1>0, <2>2 DEF Work, Places
  <2>4. count' = [count EXCEPT ![s] = [count[s] EXCEPT !.at = "rows", !.from = cursor]]
    BY <1>0, <2>1 DEF Work
  <2>5. QED
    BY <1>0, <2>1, <2>3, <2>4
<1>7. ASSUME NEW s \in Counters, CountRows(s)
      PROVE  count' \in [Counters -> Work] /\ crossed' \subseteq Counters
  <2>1. count' = [count EXCEPT ![s].at = "answer", ![s].from = 0,
                               ![s].unread = Unread(count[s].from)] /\ crossed' = crossed
    BY <1>7 DEF CountRows
  <2>2. count[s].from \in Nat
    BY <1>0 DEF Work
  <2>3. Unread(count[s].from) \in 0 .. MaxMessages
    BY <2>2, UnreadIsBounded
  <2> DEFINE w == [count[s] EXCEPT !.at = "answer", !.from = 0, !.unread = Unread(count[s].from)]
  <2>4. w \in Work
    <3>1. \A r \in Work : [r EXCEPT !.at = "answer"] \in Work
      BY DEF Work, Places
    <3>2. \A r \in Work, n \in 0 .. MaxMessages :
             [r EXCEPT !.from = n] \in Work /\ [r EXCEPT !.unread = n] \in Work
      BY DEF Work
    <3>3. 0 \in 0 .. MaxMessages
      BY InboxBounds
    <3>4. QED
      BY <1>0, <2>3, <3>1, <3>2, <3>3, Zenon
  <2>5. count' = [count EXCEPT ![s] = w]
    BY <1>0, <2>1 DEF Work
  <2>6. QED
    BY <1>0, <2>1, <2>4, <2>5
<1>8. ASSUME NEW s \in Counters, FailCount(s)
      PROVE  count' \in [Counters -> Work] /\ crossed' \subseteq Counters
  BY <1>0, <1>8 DEF FailCount
<1>9. CASE EmitReadCursorUpdated
  <2>1. [Idle EXCEPT !.at = "net"] \in Work
    BY InboxBounds DEF Idle, Work, Places
  <2>2. QED
    BY <1>0, <1>9, <2>1 DEF EmitReadCursorUpdated
<1>10. CASE Connect \/ JoinRooms \/ EmitReady \/ Drop
  BY <1>0, <1>10 DEF Connect, JoinRooms, EmitReady, Drop
<1>11. CASE Reload \/ HandleReady
  BY <1>11, LoadMoves DEF Reload, HandleReady
<1>12. CASE ApplyMessageCreated
  BY <1>0, <1>12, LoadMoves DEF ApplyMessageCreated, Cross
<1>13. CASE ApplyReadCursorUpdated \/ Ignore
  BY <1>0, <1>13 DEF ApplyReadCursorUpdated, Ignore
<1>14. ASSUME NEW l \in Loads, ApplyLoad(l)
       PROVE  count' \in [Counters -> Work] /\ crossed' \subseteq Counters
  BY <1>0, <1>14 DEF ApplyLoad
<1>15. ASSUME HandlePush
       PROVE  count' \in [Counters -> Work] /\ crossed' \subseteq Counters
  <2> DEFINE c == [count EXCEPT ![Sync].at = "start"]
  <2>1. c \in [Counters -> Work] /\ \A t \in Counters \ {Sync} : c[t] = count[t]
    BY <1>0 DEF Work, Places
  <2>2. LoadAfter(c)
    BY <1>15 DEF HandlePush
  <2> HIDE DEF c
  <2>3. QED
    BY <1>0, <2>1, <2>2, LoadAfterMoves
<1>16. ASSUME ApplySync
       PROVE  count' \in [Counters -> Work] /\ crossed' \subseteq Counters
  <2> DEFINE c == [count EXCEPT ![Sync] = Idle]
  <2>1. c \in [Counters -> Work] /\ \A t \in Counters \ {Sync} : c[t] = count[t]
    BY <1>0
  <2>2. LoadAfter(c)
    BY <1>16 DEF ApplySync
  <2> HIDE DEF c
  <2>3. QED
    BY <1>0, <2>1, <2>2, LoadAfterMoves
<1>17. CASE Open
  BY <1>0, <1>17 DEF Open
<1>18. CASE Close
  BY <1>18, LoadMoves DEF Close
<1>19. CASE UNCHANGED vars
  BY <1>0, <1>19 DEF vars
<1>20. QED
  BY <1>1, <1>2, <1>4, <1>6, <1>7, <1>8, <1>9, <1>10, <1>11, <1>12, <1>13, <1>14, <1>15,
     <1>16, <1>17, <1>18, <1>19, <1>3, <1>5 DEF Next

Requests ==
    [seq : 1 .. MaxMessages, nth : 0 .. MaxUpsets, at : {"cursor", "save", "emit"},
     to : 0 .. MaxMessages, tell : BOOLEAN]

\* A request, as it begins and as it goes on.
LEMMA RequestIsTyped ==
  ASSUME NEW k \in 1 .. MaxMessages, NEW by, NEW n \in 0 .. MaxUpsets, NEW tells \in BOOLEAN
  PROVE  /\ Request(k, by, n, tells) \in Requests
         /\ Request(k, by, n, tells).seq = k /\ Request(k, by, n, tells).nth = n
         /\ Request(k, by, n, tells).at = IF by = "me" THEN "cursor" ELSE "emit"
  BY InboxBounds DEF Request, Requests

LEMMA RequestGoesOn ==
  ASSUME NEW x \in Requests, NEW to \in 0 .. MaxMessages, NEW at \in {"save", "emit"}
  PROVE  /\ Further(x, at, to) \in Requests
         /\ Further(x, at, to).seq = x.seq
         /\ Further(x, at, to).nth = x.nth
         /\ Further(x, at, to).at = at
         /\ Further(x, at, to).to = to
  BY DEF Requests, Further

\* One request is replaced by its next step, or is over.
LEMMA RequestReplaced ==
  ASSUME SendInv, NEW x \in sending, NEW y, y.seq = x.seq, y.nth = x.nth,
         sending' \subseteq (sending \ {x}) \cup {y}, UNCHANGED <<rows, upsets>>,
         IsFiniteSet(sending'), y.at # "emit" => rows[y.seq].by = "me",
         y.at = "save" => y.seq <= y.to /\ y.to <= Len(rows)
  PROVE  /\ \A z \in sending' :
               /\ z.seq \in DOMAIN rows' /\ z.nth <= upsets'
               /\ z.at # "emit" => rows'[z.seq].by = "me"
               /\ z.at = "save" => z.seq <= z.to /\ z.to <= Len(rows')
         /\ \A z, w \in sending' : z.seq = w.seq /\ z.nth = w.nth => z = w
<1>1. \A z \in sending' : z \in sending \/ z = y
  OBVIOUS
<1>2. \A z \in sending' : z # y => z \in sending /\ z # x
  OBVIOUS
<1>3. ASSUME NEW z \in sending', NEW w \in sending', z.seq = w.seq, z.nth = w.nth
      PROVE  z = w
  <2>1. CASE z # y /\ w # y
    BY <1>2, <1>3, <2>1 DEF SendInv
  <2>2. CASE z = y /\ w # y
    BY <1>2, <1>3, <2>2 DEF SendInv
  <2>3. CASE z # y /\ w = y
    BY <1>2, <1>3, <2>3 DEF SendInv
  <2>4. QED
    BY <2>1, <2>2, <2>3
<1>4. ASSUME NEW z \in sending'
      PROVE  /\ z.seq \in DOMAIN rows' /\ z.nth <= upsets'
             /\ z.at # "emit" => rows'[z.seq].by = "me"
             /\ z.at = "save" => z.seq <= z.to /\ z.to <= Len(rows')
  BY <1>1, <1>4 DEF SendInv
<1>5. QED
  BY <1>3, <1>4

\* A count that ends is not under way any more.
LEMMA EndMoves ==
  ASSUME TypeOK, NEW s \in Counters, count' = [count EXCEPT ![s] = Idle]
  PROVE  UnderWay' = UnderWay \ {s} /\ \A t \in Counters \ {s} : count'[t] = count[t]
BY DEF TypeOK, UnderWay, Idle

LEMMA PushMoves ==
  ASSUME TypeOK, HandlePush \/ ApplySync
  PROVE  \E c \in [Counters -> Work] :
            LoadAfter(c) /\ \A t \in Counters \ {Sync} : c[t] = count[t]
<1>0. count \in [Counters -> Work] /\ Sync \in Counters /\ Idle \in Work
      /\ \A w \in Work : [w EXCEPT !.at = "start"] \in Work
  BY InboxBounds DEF TypeOK, Work, Places, Counters, Idle
<1>1. CASE HandlePush
  <2>1. [count EXCEPT ![Sync].at = "start"] \in [Counters -> Work]
    BY <1>0 DEF Work, Places
  <2>2. \A t \in Counters \ {Sync} : [count EXCEPT ![Sync].at = "start"][t] = count[t]
    BY <1>0
  <2>3. QED
    BY <1>1, <2>1, <2>2 DEF HandlePush
<1>2. CASE ApplySync
  <2>1. [count EXCEPT ![Sync] = Idle] \in [Counters -> Work]
    BY <1>0
  <2>2. \A t \in Counters \ {Sync} : [count EXCEPT ![Sync] = Idle][t] = count[t]
    BY <1>0
  <2>3. QED
    BY <1>2, <2>1, <2>2 DEF ApplySync
<1>3. QED
  BY <1>1, <1>2

\* The messages and the requests that send them keep their types.
LEMMA SendPreserved ==
  ASSUME TypeOK, SendInv, [Next]_vars
  PROVE  /\ rows' \in Seq(Message)
         /\ sending' \subseteq Requests
         /\ cursor' \in 0 .. MaxMessages
         /\ SendInv'
<1>0. /\ rows \in Seq(Message) /\ sending \subseteq Requests /\ cursor \in 0 .. MaxMessages
      /\ Len(rows) \in Nat /\ DOMAIN rows = 1 .. Len(rows)
      /\ IsFiniteSet(sending) /\ upsets \in 0 .. MaxUpsets
      /\ MarkRead \in Counters
  BY DEF TypeOK, Requests, SendInv, Counters
<1> DEFINE Goal == /\ rows' \in Seq(Message) /\ sending' \subseteq Requests
                   /\ cursor' \in 0 .. MaxMessages /\ SendInv'
\* A request joins the others.
<1>1. ASSUME NEW x \in Requests, sending' \in {sending, sending \cup {x}},
             UNCHANGED <<cursor, count>>, upsets' \in Nat, upsets <= upsets', x.nth <= upsets',
             rows' \in Seq(Message), Len(rows) <= Len(rows'), Len(rows') <= MaxMessages,
             \A k \in 1 .. Len(rows) : rows'[k] = rows[k],
             x.seq \in 1 .. Len(rows'), x.at # "emit" => rows'[x.seq].by = "me", x.at # "save",
             \A y \in sending : y.seq # x.seq \/ y.nth # x.nth
      PROVE  Goal
  <2>1. IsFiniteSet(sending')
    BY <1>0, <1>1, FS_AddElement
  <2>2. \A y \in sending' : y \in sending \/ y = x
    BY <1>1
  <2>3. ASSUME NEW y \in sending'
        PROVE  /\ y.seq \in DOMAIN rows' /\ y.nth <= upsets'
               /\ y.at # "emit" => rows'[y.seq].by = "me"
               /\ y.at = "save" => y.seq <= y.to /\ y.to <= Len(rows')
    <3>1. CASE y = x
      BY <1>1, <3>1
    <3>2. CASE y \in sending
      <4>1. y \in Requests /\ y.seq \in 1 .. Len(rows) /\ y.nth <= upsets
            /\ (y.at # "emit" => rows[y.seq].by = "me")
            /\ (y.at = "save" => y.seq <= y.to /\ y.to <= Len(rows))
        BY <1>0, <3>2 DEF SendInv
      <4>2. Len(rows') \in Nat /\ DOMAIN rows' = 1 .. Len(rows') /\ rows'[y.seq] = rows[y.seq]
        BY <1>1, <4>1
      <4>3. y.nth \in Nat /\ y.to \in Nat /\ y.seq \in Nat
        BY <4>1 DEF Requests
      <4>4. QED
        BY <1>0, <1>1, <4>1, <4>2, <4>3
    <3>3. QED
      BY <2>2, <2>3, <3>1, <3>2
  <2>4. \A y, z \in sending' : y.seq = z.seq /\ y.nth = z.nth => y = z
    BY <1>1, <2>2 DEF SendInv
  <2>5. cursor' <= Len(rows')
    BY <1>0, <1>1 DEF SendInv
  <2>6. count'[MarkRead].at = "save" => count'[MarkRead].from <= Len(rows')
    <3>1. count[MarkRead].from \in Nat
      BY <1>0 DEF TypeOK
    <3>2. QED
      BY <1>0, <1>1, <3>1 DEF SendInv
  <2>7. sending' \subseteq Requests
    BY <1>0, <1>1
  <2>8. QED
    BY <1>0, <1>1, <2>1, <2>3, <2>4, <2>5, <2>6, <2>7 DEF SendInv
<1>2. ASSUME NEW m \in Message, SendMessage(m) PROVE Goal
  <2> DEFINE n == Len(rows) + 1
             x == Request(n, m.by, 0, ~m.failed)
  <2>1. /\ rows' = Append(rows, m) /\ Len(rows) < MaxMessages
        /\ rows' \in Seq(Message) /\ Len(rows') = n /\ rows'[n] = m
        /\ \A k \in 1 .. Len(rows) : rows'[k] = rows[k]
        /\ UNCHANGED <<cursor, count, upsets>>
    BY <1>0, <1>2 DEF SendMessage
  <2>2. n \in 1 .. MaxMessages /\ 0 \in 0 .. MaxUpsets
    BY <1>0, <2>1, InboxBounds
  <2>3. x \in Requests /\ x.seq = n /\ x.nth = 0 /\ x.at = IF m.by = "me" THEN "cursor" ELSE "emit"
    <3>1. (~m.failed) \in BOOLEAN
      BY Zenon
    <3>2. \A j \in 1 .. MaxMessages, t \in BOOLEAN :
             LET r == Request(j, m.by, 0, t)
             IN  r \in Requests /\ r.seq = j /\ r.nth = 0
                 /\ r.at = IF m.by = "me" THEN "cursor" ELSE "emit"
      BY <2>2, RequestIsTyped
    <3> HIDE DEF n
    <3>3. QED
      BY <2>2, <3>1, <3>2, Zenon
  <2>4. sending' \in {sending, sending \cup {x}}
    BY <1>2, Zenon DEF SendMessage
  <2>5. \A y \in sending : y.seq # n
    BY <1>0 DEF SendInv
  <2> HIDE DEF x
  <2>6. n \in 1 .. Len(rows') /\ (x.at # "emit" => rows'[x.seq].by = "me") /\ x.at # "save"
    BY <2>1, <2>2, <2>3
  <2> HIDE DEF n
  <2>7. Len(rows) <= Len(rows') /\ Len(rows') <= MaxMessages
    BY <1>0, <2>1, <2>2 DEF n
  <2>8. QED
    BY <1>0, <1>1, <2>1, <2>3, <2>4, <2>5, <2>6, <2>7
<1>3. ASSUME NEW k \in DOMAIN rows, NEW tells \in BOOLEAN, SendAgain(k, tells) PROVE Goal
  <2> DEFINE x == Request(k, rows[k].by, upsets + 1, tells)
  <2>1. /\ upsets' = upsets + 1 /\ upsets < MaxUpsets /\ sending' = sending \cup {x}
        /\ UNCHANGED <<rows, cursor, count>>
    BY <1>3 DEF SendAgain
  <2>2. upsets + 1 \in 0 .. MaxUpsets /\ k \in 1 .. MaxMessages
    BY <1>0, <2>1, InboxBounds DEF SendInv
  <2>3. x \in Requests /\ x.seq = k /\ x.nth = upsets + 1
        /\ x.at = IF rows[k].by = "me" THEN "cursor" ELSE "emit"
    BY <2>2, RequestIsTyped
  <2> HIDE DEF x
  <2>4. \A y \in sending : y.nth # upsets + 1
    <3>1. \A y \in sending : y.nth \in Nat /\ y.nth <= upsets
      BY <1>0 DEF SendInv, Requests
    <3>2. QED
      BY <1>0, <3>1
  <2>5. Len(rows) <= MaxMessages
    BY DEF SendInv
  <2>6. QED
    BY <1>0, <1>1, <2>1, <2>2, <2>3, <2>4, <2>5
<1>4. ASSUME NEW x \in sending, SendFinds(x) PROVE Goal
  <2> DEFINE y == Further(x, "save", Later(cursor, x.seq))
  <2>1. /\ x \in Requests /\ x.seq \in 1 .. Len(rows) /\ x.seq \in 0 .. MaxMessages
        /\ x.at = "cursor" /\ rows[x.seq].by = "me"
    BY <1>0, <1>4 DEF SendFinds, SendInv, Requests
  <2>2. Later(cursor, x.seq) \in 0 .. MaxMessages
        /\ x.seq <= Later(cursor, x.seq) /\ Later(cursor, x.seq) <= Len(rows)
    BY <1>0, <2>1, InboxBounds DEF Later, SendInv
  <2>3. y \in Requests /\ y.seq = x.seq /\ y.nth = x.nth /\ y.at = "save" /\ y.to = Later(cursor, x.seq)
    BY <2>1, <2>2, RequestGoesOn
  <2>4. sending' = (sending \ {x}) \cup {y} /\ UNCHANGED <<rows, cursor, count, upsets>>
    BY <1>4 DEF SendFinds
  <2> HIDE DEF y
  <2>5 IsFiniteSet(sending')
    <3>1. IsFiniteSet(sending \ {x})
      BY <1>0, FS_RemoveElement
    <3>2. QED
      BY <2>4, <3>1, FS_AddElement
  <2>6. QED
    BY <1>0, <2>1, <2>2, <2>3, <2>4, <2>5, RequestReplaced DEF SendInv
<1>5. ASSUME NEW x \in sending, SendReads(x) PROVE Goal
  <2> DEFINE y == Further(x, "emit", 0)
  <2>1. x \in Requests /\ x.at = "save" /\ x.to <= Len(rows) /\ x.to \in 0 .. MaxMessages
    BY <1>0, <1>5 DEF SendReads, SendInv, Requests
  <2>2. y \in Requests /\ y.seq = x.seq /\ y.nth = x.nth /\ y.at = "emit"
    BY <2>1, InboxBounds, RequestGoesOn
  <2>3. /\ sending' \in {sending \ {x}, (sending \ {x}) \cup {y}}
        /\ cursor' = x.to /\ UNCHANGED <<rows, count, upsets>>
    BY <1>5, Zenon DEF SendReads
  <2> HIDE DEF y
  <2>4 IsFiniteSet(sending')
    <3>1. IsFiniteSet(sending \ {x})
      BY <1>0, FS_RemoveElement
    <3>2. QED
      BY <2>3, <3>1, FS_AddElement
  <2>5. sending' \subseteq (sending \ {x}) \cup {y}
    BY <2>3
  <2>6. sending' \subseteq Requests
    BY <1>0, <2>2, <2>5
  <2>7. QED
    BY <1>0, <2>1, <2>2, <2>3, <2>4, <2>5, <2>6, RequestReplaced DEF SendInv
<1>6. ASSUME NEW x \in sending, EmitMessageCreated(x) \/ FailSend(x) PROVE Goal
  <2>1. UNCHANGED <<rows, cursor, count, upsets>> /\ sending' = sending \ {x}
    BY <1>6 DEF EmitMessageCreated, FailSend
  <2>2. IsFiniteSet(sending')
    BY <1>0, <2>1, FS_RemoveElement
  <2>3. QED
    BY <1>0, <2>1, <2>2 DEF SendInv
<1>7. ASSUME NEW n \in 1 .. MaxMessages, UpdateReadCursor(n) PROVE Goal
  <2>1. UNCHANGED <<server, upsets>>
    BY <1>7 DEF UpdateReadCursor
  <2>2. QED
    BY <1>0, <1>7, <2>1, FindOwnMoves DEF server, SendInv
<1>8. CASE SaveReadCursor
  <2>1. UNCHANGED <<rows, sending, upsets>> /\ cursor' = count[MarkRead].from
        /\ count[MarkRead].at = "save"
    BY <1>8 DEF SaveReadCursor
  <2>2. cursor' \in 0 .. MaxMessages /\ cursor' <= Len(rows)
    BY <1>0, <2>1 DEF SendInv, TypeOK
  <2>3. count'[MarkRead].at = "start"
    BY <1>8, SaveMoves
  <2>4. QED
    BY <1>0, <2>1, <2>2, <2>3 DEF SendInv
\* Nothing happens to the requests, and no cursor is to be saved that was not before.
<1>9. ASSUME UNCHANGED server, upsets' \in Nat, upsets <= upsets',
             count'[MarkRead].at = "save" => count'[MarkRead] = count[MarkRead]
      PROVE  Goal
  <2>1. \A x \in sending : x.nth <= upsets'
    <3>1. \A x \in sending : x.nth \in Nat /\ x.nth <= upsets
      BY <1>0 DEF SendInv, Requests
    <3>2. QED
      BY <1>0, <1>9, <3>1
  <2>2. QED
    BY <1>0, <1>9, <2>1 DEF server, SendInv
<1>10. ASSUME NEW s \in Counters, FindCursor(s) \/ CountRows(s) \/ FailCount(s) PROVE Goal
  <2>1. UNCHANGED <<server, upsets>>
    BY <1>10 DEF FindCursor, CountRows, FailCount
  <2>2. count'[MarkRead].at = "save" => count'[MarkRead] = count[MarkRead]
    <3>1. CASE FailCount(s)
      BY <1>0, <3>1, EndMoves DEF FailCount, Idle, TypeOK
    <3>2. CASE FindCursor(s) \/ CountRows(s)
      <4>1. count' = [count EXCEPT ![s] = count'[s]] /\ count'[s].at \in {"rows", "answer"}
        BY <1>0, <3>2 DEF FindCursor, CountRows, TypeOK
      <4>2. QED
        BY <1>0, <4>1 DEF TypeOK
    <3>3. QED
      BY <1>10, <3>1, <3>2
  <2>3. QED
    BY <1>0, <1>9, <2>1, <2>2
<1>11. CASE EmitReadCursorUpdated \/ Drop \/ ApplyReadCursorUpdated \/ Ignore
  <2>1. UNCHANGED server /\ upsets' \in Nat /\ upsets <= upsets'
    BY <1>0, <1>11 DEF EmitReadCursorUpdated, Drop, ApplyReadCursorUpdated, Ignore
  <2>2. count' \in {count, [count EXCEPT ![MarkRead] = Idle],
                    [count EXCEPT ![MarkRead] = [Idle EXCEPT !.at = "net"]]}
    BY <1>11, Zenon DEF EmitReadCursorUpdated, Drop, ApplyReadCursorUpdated, Ignore
  <2>3. count'[MarkRead].at = "save" => count'[MarkRead] = count[MarkRead]
    BY <1>0, <2>2 DEF Idle, TypeOK
  <2>4. QED
    BY <1>9, <2>1, <2>3
<1>12. CASE Connect \/ JoinRooms \/ EmitReady \/ Open \/ UNCHANGED vars
  BY <1>0, <1>9, <1>12 DEF Connect, JoinRooms, EmitReady, Open, vars
<1>13. CASE Reload \/ HandleReady \/ Close \/ ApplyMessageCreated
  <2>1. UNCHANGED <<server, upsets>> /\ (Load \/ count' = count)
    BY <1>13 DEF Reload, HandleReady, Close, ApplyMessageCreated
  <2>2. count'[MarkRead] = count[MarkRead]
    BY <1>0, <2>1, LoadMoves
  <2>3. QED
    BY <1>0, <1>9, <2>1, <2>2
<1>14. ASSUME NEW l \in Loads, ApplyLoad(l) PROVE Goal
  <2>1. UNCHANGED <<server, upsets>> /\ count' = [count EXCEPT ![l] = Idle]
    BY <1>14 DEF ApplyLoad
  <2>2. count'[MarkRead] = count[MarkRead]
    BY <2>1, RequestAssumption DEF TypeOK
  <2>3. QED
    BY <1>0, <1>9, <2>1, <2>2
<1>15. CASE HandlePush \/ ApplySync
  <2>1. UNCHANGED <<server, upsets>>
    BY <1>15 DEF HandlePush, ApplySync
  <2>2. count'[MarkRead] = count[MarkRead]
    <3>1. PICK c \in [Counters -> Work] : LoadAfter(c) /\ \A t \in Counters \ {Sync} : c[t] = count[t]
      BY <1>15, PushMoves
    <3>2. c[MarkRead] = count[MarkRead]
      BY <1>0, <3>1, RequestAssumption
    <3>3. QED
      BY <1>0, <3>1, <3>2, LoadAfterMoves
  <2>3. QED
    BY <1>0, <1>9, <2>1, <2>2
<1>16. QED
  BY <1>2, <1>3, <1>4, <1>5, <1>6, <1>7, <1>8, <1>10, <1>11, <1>12, <1>13, <1>14, <1>15 DEF Next

LEMMA TailOfNet ==
  ASSUME TypeOK, net # <<>>
  PROVE  /\ Tail(net) \in Seq(Event) /\ Head(net) = net[1] /\ Head(net) \in Event
         /\ 1 \in DOMAIN net
         /\ DOMAIN Tail(net) = {k \in Nat \ {0} : k + 1 \in DOMAIN net}
         /\ \A k \in DOMAIN Tail(net) : k + 1 \in DOMAIN net /\ Tail(net)[k] = net[k + 1]
<1>1. net \in Seq(Event) /\ Len(net) \in Nat \ {0} /\ DOMAIN net = 1 .. Len(net)
  BY DEF TypeOK
<1>2. Tail(net) \in Seq(Event) /\ Len(Tail(net)) = Len(net) - 1
      /\ \A k \in 1 .. Len(net) - 1 : Tail(net)[k] = net[k + 1]
  BY <1>1
<1>3. Head(net) = net[1] /\ net[1] \in Event
  BY <1>1
<1>4. DOMAIN Tail(net) = 1 .. Len(net) - 1
  BY <1>2, <1>1
<1>5. 1 .. Len(net) - 1 = {k \in Nat \ {0} : k + 1 \in DOMAIN net}
  BY <1>1
<1>6. QED
  BY <1>1, <1>2, <1>3, <1>4, <1>5

LEMMA AppendToNet ==
  ASSUME TypeOK, NEW e \in Event
  PROVE  /\ Append(net, e) \in Seq(Event) /\ Append(net, e) # net
         /\ DOMAIN net = 1 .. Len(net) /\ Len(net) \in Nat
         /\ DOMAIN Append(net, e) = DOMAIN net \cup {Len(net) + 1}
         /\ Append(net, e)[Len(net) + 1] = e
         /\ \A k \in DOMAIN net : Append(net, e)[k] = net[k]
<1>1. net \in Seq(Event) /\ Len(net) \in Nat /\ DOMAIN net = 1 .. Len(net)
  BY DEF TypeOK
<1>2. Append(net, e) \in Seq(Event) /\ Len(Append(net, e)) = Len(net) + 1
  BY <1>1
<1>3. Append(net, e)[Len(net) + 1] = e /\ \A k \in 1 .. Len(net) : Append(net, e)[k] = net[k]
  BY <1>1
<1>4. DOMAIN Append(net, e) = 1 .. Len(net) + 1
  BY <1>2, <1>1
<1>5. Append(net, e) # net
  <2>1. \A n \in Nat : n + 1 # n
    OBVIOUS
  <2>2. QED
    BY <1>1, <1>2, <2>1, Zenon
<1>6. DOMAIN Append(net, e) = DOMAIN net \cup {Len(net) + 1}
  BY <1>1, <1>4
<1>7. QED
  BY <1>1, <1>2, <1>3, <1>5, <1>6

\* The count for an event goes on until the event is gone.
LEMMA MarkReadStays ==
  ASSUME TypeOK, [Next]_vars, ~Drop, net' = net, count[MarkRead].at = "net"
  PROVE  count'[MarkRead].at = "net"
<1>0. MarkRead \in Counters /\ Sync \in Counters /\ MarkRead # Sync /\ count \in [Counters -> Work]
  BY RequestAssumption DEF Counters, TypeOK, Work, Places
<1>1. CASE count' = count
  BY <1>1
<1>2. CASE Load
  BY <1>0, <1>2, LoadMoves
<1>3. ASSUME NEW n \in 1 .. MaxMessages, UpdateReadCursor(n) PROVE FALSE
  BY <1>3 DEF UpdateReadCursor, Idle
<1>4. CASE SaveReadCursor
  BY <1>4 DEF SaveReadCursor
<1>5. ASSUME NEW k \in DOMAIN rows, NEW tells \in BOOLEAN, SendAgain(k, tells) PROVE count' = count
  BY <1>5 DEF SendAgain
<1>6. ASSUME NEW s \in Counters, FindCursor(s) \/ CountRows(s) \/ FailCount(s)
      PROVE  count'[MarkRead].at = "net"
  <2>1. s # MarkRead
    BY <1>6 DEF FindCursor, CountRows, FailCount
  <2>2. count'[MarkRead] = count[MarkRead]
    BY <1>0, <1>6, <2>1 DEF FindCursor, CountRows, FailCount
  <2>3. QED
    BY <2>2
<1>7. CASE EmitReadCursorUpdated
  BY <1>7 DEF EmitReadCursorUpdated
<1>8. Drop => FALSE
  OBVIOUS
<1>9. ASSUME NEW l \in Loads, ApplyLoad(l) PROVE count'[MarkRead].at = "net"
  BY <1>0, <1>9, RequestAssumption DEF ApplyLoad
<1>10. ASSUME HandlePush
      PROVE  count'[MarkRead].at = "net"
  <2> DEFINE c == [count EXCEPT ![Sync].at = "start"]
  <2>1. c \in [Counters -> Work] /\ \A t \in Counters \ {Sync} : c[t] = count[t]
    BY <1>0 DEF Work, Places
  <2>2. LoadAfter(c)
    BY <1>10 DEF HandlePush
  <2> HIDE DEF c
  <2>3. QED
    BY <1>0, <2>1, <2>2, LoadAfterMoves
<1>11. ASSUME ApplySync
      PROVE  count'[MarkRead].at = "net"
  <2> DEFINE c == [count EXCEPT ![Sync] = Idle]
  <2>1. c \in [Counters -> Work] /\ \A t \in Counters \ {Sync} : c[t] = count[t]
    BY <1>0, InboxBounds DEF Work, Places, Idle
  <2>2. LoadAfter(c)
    BY <1>11 DEF ApplySync
  <2> HIDE DEF c
  <2>3. QED
    BY <1>0, <2>1, <2>2, LoadAfterMoves
<1>12. CASE HandleReady \/ ApplyMessageCreated \/ ApplyReadCursorUpdated \/ Ignore
  <2>1. net # <<>> /\ net' = Tail(net)
    BY <1>12 DEF HandleReady, ApplyMessageCreated, ApplyReadCursorUpdated, Ignore, Take
  <2>2. net \in Seq(Event)
    BY DEF TypeOK
  <2>3. QED
    BY <2>1, <2>2
<1>13. ASSUME NEW m \in Message, SendMessage(m) PROVE count' = count
  BY <1>13 DEF SendMessage
<1>14. ASSUME NEW x \in sending, SendFinds(x) \/ SendReads(x) \/ EmitMessageCreated(x) \/ FailSend(x) PROVE count' = count
  BY <1>14 DEF SendFinds, SendReads, EmitMessageCreated, FailSend
<1>15. CASE Connect \/ JoinRooms \/ EmitReady \/ Open \/ UNCHANGED vars
  BY <1>1, <1>15 DEF Connect, JoinRooms, EmitReady, Open, vars
<1>16. CASE Reload \/ Close
  BY <1>2, <1>16 DEF Reload, Close
<1>17. QED
  BY <1>1, <1>3, <1>6, <1>7, <1>8, <1>9, <1>10, <1>11, <1>12, <1>13, <1>14, <1>15, <1>16, <1>4, <1>5 DEF Next

\* The events keep their type, and the one that moves the cursor is on its way once.
LEMMA NetPreserved ==
  ASSUME TypeOK, SendInv, NetInv, [Next]_vars
  PROVE  net' \in Seq(Event) /\ NetInv'
<1> DEFINE Goal == net' \in Seq(Event) /\ NetInv'
           Kept == count[MarkRead].at = "net" => count'[MarkRead].at = "net"
<1>0. net \in Seq(Event) /\ MarkRead \in Counters /\ count \in [Counters -> Work]
  BY DEF TypeOK, Counters, Work, Places
<1>1. ASSUME net' = net, ~Drop PROVE Goal
  BY <1>0, <1>1, MarkReadStays DEF NetInv
\* An event that does not move the cursor is sent.
<1>2. ASSUME NEW e \in Event, net' = Append(net, e), Kept, e.kind # "cursor",
             e.kind = "message" => e.unread \in {0, 1}
      PROVE  Goal
  <2>1. net' \in Seq(Event)
    BY <1>2, AppendToNet
  <2>2. \A k \in DOMAIN net' : (k \in DOMAIN net /\ net'[k] = net[k]) \/ net'[k] = e
    BY <1>2, AppendToNet
  <2>3. QED
    BY <1>2, <2>1, <2>2 DEF NetInv
\* The first event is taken, and it does not move the cursor.
<1>3. ASSUME net # <<>>, net' = Tail(net), Kept PROVE Goal
  <2>1. net' \in Seq(Event) /\ \A k \in DOMAIN net' : k \in Nat /\ k + 1 \in DOMAIN net /\ net'[k] = net[k + 1]
    BY <1>3, TailOfNet
  <2>2. \A j, k \in DOMAIN net' :
           net'[j].kind = "cursor" /\ net'[k].kind = "cursor" => j = k
    <3>1. SUFFICES ASSUME NEW j \in DOMAIN net', NEW k \in DOMAIN net',
                          net'[j].kind = "cursor", net'[k].kind = "cursor"
                   PROVE  j = k
      OBVIOUS
    <3>2. j + 1 = k + 1
      BY <2>1, <3>1 DEF NetInv
    <3>3. QED
      BY <2>1, <3>1, <3>2
  <2>3. QED
    BY <1>3, <2>1, <2>2 DEF NetInv
\* It moves the cursor: no other does.
<1>4. ASSUME net # <<>>, net' = Tail(net), Head(net).kind = "cursor" PROVE Goal
  <2>1. net' \in Seq(Event)
        /\ \A k \in DOMAIN net' : k \in Nat \ {0} /\ k + 1 \in DOMAIN net /\ net'[k] = net[k + 1]
    BY <1>4, TailOfNet
  <2>2. ASSUME NEW k \in DOMAIN net' PROVE net'[k].kind # "cursor"
    <3>1. 1 \in DOMAIN net /\ net[1].kind = "cursor" /\ k + 1 # 1
      BY <1>4, <2>1, <2>2, TailOfNet
    <3>2. QED
      BY <2>1, <2>2, <3>1 DEF NetInv
  <2>3. QED
    BY <2>1, <2>2 DEF NetInv
<1>5. ASSUME NEW x \in sending, EmitMessageCreated(x) PROVE Goal
  <2> DEFINE e == [kind |-> "message", unread |-> IF rows[x.seq].by = "me" THEN 0 ELSE 1]
  <2>1. e \in Event /\ e.kind = "message" /\ e.unread \in {0, 1}
    <3>1. 1 <= MaxMessages
      BY InboxBounds DEF SendInv, TypeOK
    <3>2. QED
      BY <3>1, InboxBounds DEF Event
  <2>2. count' = count /\ net' \in {net, Append(net, e)}
    BY <1>5, Zenon DEF EmitMessageCreated, Deliver
  <2>3. ~Drop
    BY <1>5 DEF EmitMessageCreated, Drop, device, TypeOK
  <2> HIDE DEF e
  <2>4. QED
    BY <1>1, <1>2, <2>1, <2>2, <2>3
<1>6. CASE EmitReady
  <2> DEFINE e == [kind |-> "ready", unread |-> 0]
  <2>1. e \in Event /\ e.kind = "ready"
    BY InboxBounds DEF Event
  <2>2. count' = count /\ net' = Append(net, e)
    BY <1>6 DEF EmitReady
  <2> HIDE DEF e
  <2>3. QED
    BY <1>2, <2>1, <2>2
<1>7. CASE EmitReadCursorUpdated
  <2> DEFINE e == [kind |-> "cursor", unread |-> count[MarkRead].unread]
  <2>1. e \in Event /\ e.kind = "cursor"
    BY <1>0 DEF Event, Work
  <2>2. net' \in {net, Append(net, e)} /\ link' = link
    BY <1>7, Zenon DEF EmitReadCursorUpdated, Deliver
  <2>3. \A k \in DOMAIN net : net[k].kind # "cursor"
    BY <1>7 DEF EmitReadCursorUpdated, NetInv
  <2>4. CASE net' = net
    BY <1>0, <2>3, <2>4 DEF NetInv
  <2>5. CASE net' # net
    <3>1. net' = Append(net, e) /\ count' = [count EXCEPT ![MarkRead] = [Idle EXCEPT !.at = "net"]]
      BY <1>7, <2>2, <2>5 DEF EmitReadCursorUpdated
    <3>2. count'[MarkRead].at = "net"
      BY <1>0, <3>1 DEF Idle
    <3> HIDE DEF e
    <3>3. /\ net' \in Seq(Event)
          /\ \A k \in DOMAIN net' :
                \/ k \in DOMAIN net /\ net'[k] = net[k]
                \/ k = Len(net) + 1 /\ net'[k] = e
      BY <2>1, <3>1, AppendToNet
    <3>4. QED
      BY <2>1, <2>3, <3>2, <3>3 DEF NetInv
  <2>6. QED
    BY <2>4, <2>5
<1>8. CASE Drop
  BY <1>8 DEF Drop, NetInv
<1>9. CASE HandleReady \/ ApplyMessageCreated
  <2>1. net # <<>> /\ net' = Tail(net)
    BY <1>9 DEF HandleReady, ApplyMessageCreated, Take
  <2>2. count' = count \/ Load
    BY <1>9 DEF HandleReady, ApplyMessageCreated
  <2>3. Kept
    BY <1>0, <2>2, LoadMoves
  <2>4. QED
    BY <1>3, <2>1, <2>3
<1>10. CASE ApplyReadCursorUpdated
  BY <1>4, <1>10 DEF ApplyReadCursorUpdated, Take
<1>11. CASE Ignore
  BY <1>3, <1>4, <1>11 DEF Ignore
<1>12. ASSUME NEW m \in Message, SendMessage(m) PROVE net' = net /\ ~Drop
  BY <1>12 DEF SendMessage, Drop, TypeOK
<1>13. ASSUME NEW x \in sending, SendFinds(x) \/ SendReads(x) \/ FailSend(x) PROVE net' = net /\ ~Drop
  BY <1>13 DEF SendFinds, SendReads, FailSend, Drop, TypeOK
<1>14. ASSUME NEW k \in DOMAIN rows, NEW tells \in BOOLEAN, SendAgain(k, tells)
       PROVE  net' = net /\ ~Drop
  BY <1>14 DEF SendAgain, Drop
<1>15. ASSUME NEW n \in 1 .. MaxMessages, UpdateReadCursor(n) PROVE net' = net /\ ~Drop
  BY <1>15 DEF UpdateReadCursor, Drop, TypeOK
<1>16. SaveReadCursor => net' = net /\ ~Drop
  BY DEF SaveReadCursor, Drop, TypeOK
<1>17. ASSUME NEW s \in Counters, FindCursor(s) \/ CountRows(s) \/ FailCount(s) PROVE net' = net /\ ~Drop
  BY <1>17 DEF FindCursor, CountRows, FailCount, Drop, TypeOK
<1>18. ASSUME NEW l \in Loads, ApplyLoad(l) PROVE net' = net /\ ~Drop
  BY <1>18 DEF ApplyLoad, Drop, TypeOK
<1>19. ASSUME HandlePush \/ ApplySync PROVE net' = net /\ ~Drop
  BY <1>19 DEF HandlePush, ApplySync, Drop, TypeOK
<1>20. CASE Connect \/ JoinRooms \/ Reload \/ Open \/ Close \/ UNCHANGED vars
  <2>1. net' = net /\ upsets' = upsets
    BY <1>20 DEF Connect, JoinRooms, Reload, Open, Close, vars
  <2>2. ~Drop
    BY <2>1 DEF Drop, TypeOK
  <2>3. QED
    BY <1>1, <2>1, <2>2
<1>21. QED
  BY <1>1, <1>5, <1>6, <1>7, <1>8, <1>9, <1>10, <1>11, <1>12, <1>13, <1>15, <1>17, <1>18,
     <1>19, <1>20, <1>14, <1>16 DEF Next

\* What is left of the types: the connection, the device and the history.
LinkType == link \in {"down", "joining", "joined", "up"} /\ upsets \in 0 .. MaxUpsets
DeviceType ==
    /\ list \in Nat \cup {NotLoaded}
    /\ shown \in BOOLEAN
    /\ agreed \in BOOLEAN
    /\ old \subseteq Loads

LEMMA LinkTypePreserved ==
  ASSUME LinkType, [Next]_vars
  PROVE  LinkType'
<1>1. CASE UNCHANGED <<link, upsets>>
  BY <1>1 DEF LinkType
<1>2. ASSUME NEW m \in Message, SendMessage(m) PROVE UNCHANGED <<link, upsets>>
  BY <1>2 DEF SendMessage
<1>3. ASSUME NEW x \in sending, SendFinds(x) \/ SendReads(x) \/ EmitMessageCreated(x) \/ FailSend(x)
      PROVE  UNCHANGED <<link, upsets>>
  BY <1>3 DEF SendFinds, SendReads, EmitMessageCreated, FailSend
<1>4. ASSUME NEW n \in 1 .. MaxMessages, UpdateReadCursor(n) PROVE UNCHANGED <<link, upsets>>
  BY <1>4 DEF UpdateReadCursor
<1>5. CASE SaveReadCursor
  BY <1>1, <1>5 DEF SaveReadCursor
<1>6. ASSUME NEW k \in DOMAIN rows, NEW tells \in BOOLEAN, SendAgain(k, tells) PROVE LinkType'
  BY <1>6, InboxBounds DEF SendAgain, LinkType
<1>7. ASSUME NEW s \in Counters, FindCursor(s) \/ CountRows(s) \/ FailCount(s)
      PROVE  UNCHANGED <<link, upsets>>
  BY <1>7 DEF FindCursor, CountRows, FailCount
<1>8. CASE Connect \/ JoinRooms \/ EmitReady
  BY <1>8 DEF Connect, JoinRooms, EmitReady, LinkType
<1>9. CASE Drop
  BY <1>9, InboxBounds DEF Drop, LinkType
<1>10. CASE EmitReadCursorUpdated \/ Reload \/ HandleReady \/ ApplyMessageCreated
  BY <1>1, <1>10 DEF EmitReadCursorUpdated, Reload, HandleReady, ApplyMessageCreated
<1>11. CASE ApplyReadCursorUpdated \/ Ignore \/ Open \/ Close \/ UNCHANGED vars
  BY <1>1, <1>11 DEF ApplyReadCursorUpdated, Ignore, Open, Close, vars
<1>12. ASSUME NEW l \in Loads, ApplyLoad(l) PROVE UNCHANGED <<link, upsets>>
  BY <1>12 DEF ApplyLoad
<1>13. ASSUME HandlePush \/ ApplySync PROVE UNCHANGED <<link, upsets>>
  BY <1>13 DEF HandlePush, ApplySync
<1>14. QED
  BY <1>1, <1>2, <1>3, <1>4, <1>7, <1>8, <1>9, <1>10, <1>11, <1>12, <1>13, <1>6, <1>5 DEF Next

LEMMA DeviceTypePreserved ==
  ASSUME TypeOK, SendInv, NetInv, [Next]_vars
  PROVE  DeviceType'
<1>0. DeviceType
  BY DEF TypeOK, DeviceType
<1>1. CASE UNCHANGED device
  BY <1>0, <1>1 DEF device, DeviceType
<1>2. ASSUME NEW m \in Message, SendMessage(m) PROVE UNCHANGED device
  BY <1>2 DEF SendMessage
<1>3. ASSUME NEW x \in sending, SendFinds(x) \/ SendReads(x) \/ EmitMessageCreated(x) \/ FailSend(x)
      PROVE  UNCHANGED device
  BY <1>3 DEF SendFinds, SendReads, EmitMessageCreated, FailSend
<1>4. ASSUME NEW n \in 1 .. MaxMessages, UpdateReadCursor(n) PROVE UNCHANGED device
  BY <1>4 DEF UpdateReadCursor
<1>5. CASE SaveReadCursor
  BY <1>1, <1>5 DEF SaveReadCursor
<1>6. ASSUME NEW k \in DOMAIN rows, NEW tells \in BOOLEAN, SendAgain(k, tells) PROVE UNCHANGED device
  BY <1>6 DEF SendAgain
<1>7. ASSUME NEW s \in Counters, FindCursor(s) \/ CountRows(s)
      PROVE  UNCHANGED device
  BY <1>7 DEF FindCursor, CountRows
<1>8. ASSUME NEW s \in Counters, FailCount(s) PROVE DeviceType'
  BY <1>0, <1>8 DEF FailCount, DeviceType
<1>9. CASE EmitReadCursorUpdated \/ Connect \/ JoinRooms \/ EmitReady \/ Drop \/ Reload \/ HandleReady
  BY <1>1, <1>9 DEF EmitReadCursorUpdated, Connect, JoinRooms, EmitReady, Drop, Reload, HandleReady
<1>10. CASE ApplyMessageCreated
  <2>1. net # <<>>
    BY <1>10 DEF ApplyMessageCreated, Take
  <2>2. Head(net).unread \in Nat
    BY <2>1, TailOfNet, InboxBounds DEF Event
  <2>3. CASE list = NotLoaded
    BY <1>0, <1>10, <2>3 DEF ApplyMessageCreated, DeviceType
  <2>4. CASE list # NotLoaded
    <3>1. list' = list + Head(net).unread /\ agreed' = TRUE /\ UNCHANGED <<shown, old>>
      BY <1>10, <2>4 DEF ApplyMessageCreated, Publish
    <3>2. list' \in Nat
      BY <1>0, <2>2, <2>4, <3>1 DEF DeviceType
    <3>3. QED
      BY <1>0, <3>1, <3>2 DEF DeviceType
  <2>5. QED
    BY <2>3, <2>4
<1>11. CASE ApplyReadCursorUpdated
  <2>1. net # <<>>
    BY <1>11 DEF ApplyReadCursorUpdated, Take
  <2>2. Head(net).unread \in Nat
    BY <2>1, TailOfNet, InboxBounds DEF Event
  <2>3. QED
    BY <1>0, <1>11, <2>2 DEF ApplyReadCursorUpdated, Publish, DeviceType
<1>12. CASE Ignore
  BY <1>1, <1>12 DEF Ignore
<1>13. ASSUME NEW l \in Loads, ApplyLoad(l) PROVE DeviceType'
  <2>1. count[l].unread \in Nat
    <3>1. count[l] \in Work
      BY DEF TypeOK, Work, Places, Counters
    <3>2. QED
      BY <3>1, InboxBounds DEF Work
  <2>2. agreed' \in BOOLEAN
    BY <1>13, Zenon DEF ApplyLoad
  <2>3. QED
    BY <1>0, <1>13, <2>1, <2>2 DEF ApplyLoad, DeviceType
<1>14. ASSUME HandlePush \/ ApplySync PROVE DeviceType'
  BY <1>0, <1>14, InboxBounds DEF HandlePush, ApplySync, DeviceType
<1>15. CASE Open
  BY <1>15 DEF Open, DeviceType
<1>16. CASE Close \/ UNCHANGED vars
  BY <1>0, <1>16 DEF Close, DeviceType, vars, device
<1>17. QED
  BY <1>1, <1>2, <1>3, <1>4, <1>7, <1>8, <1>9, <1>10, <1>11, <1>12, <1>13, <1>14, <1>15, <1>16,
     <1>6, <1>5 DEF Next

\* The list is called right where it is, or was and is not taken away.
LEMMA RightMoves ==
  ASSUME TypeOK, [Next]_vars
  PROVE  /\ right' \in BOOLEAN
         /\ right' => \/ right
                      \/ ApplyReadCursorUpdated /\ list # NotLoaded /\ MarkRead \notin crossed
                      \/ \E l \in Loads : ApplyLoad(l) /\ l \notin crossed \cup old
<1>0. right \in BOOLEAN
  BY DEF TypeOK
<1>1. CASE right' = right
  BY <1>0, <1>1
<1>2. ASSUME NEW m \in Message, SendMessage(m) PROVE right' = right
  BY <1>2 DEF SendMessage
<1>3. ASSUME NEW x \in sending, SendReads(x) PROVE right' \in BOOLEAN /\ (right' => right)
  BY <1>3, Zenon DEF SendReads
<1>4. ASSUME NEW x \in sending, EmitMessageCreated(x) PROVE right' = right
  BY <1>4 DEF EmitMessageCreated
<1>5. ASSUME NEW x \in sending, FailSend(x) PROVE right' = FALSE
  BY <1>5 DEF FailSend
<1>6. ASSUME NEW x \in sending, SendFinds(x) PROVE right' = right
  BY <1>6 DEF SendFinds
<1>7. ASSUME NEW k \in DOMAIN rows, NEW tells \in BOOLEAN, SendAgain(k, tells) PROVE right' = FALSE
  BY <1>7 DEF SendAgain
<1>8. ASSUME NEW n \in 1 .. MaxMessages, UpdateReadCursor(n) PROVE right' = right
  BY <1>8 DEF UpdateReadCursor
<1>9. CASE SaveReadCursor
  BY <1>1, <1>9 DEF SaveReadCursor
<1>10. ASSUME NEW s \in Counters, FindCursor(s) \/ CountRows(s) PROVE right' = right
  BY <1>10 DEF FindCursor, CountRows
<1>11. ASSUME NEW s \in Counters, FailCount(s) PROVE right' = FALSE
  BY <1>11 DEF FailCount
<1>12. CASE EmitReadCursorUpdated \/ Connect \/ JoinRooms \/ EmitReady \/ Drop \/ Reload \/ HandleReady
  BY <1>1, <1>12 DEF EmitReadCursorUpdated, Connect, JoinRooms, EmitReady, Drop, Reload, HandleReady
<1>13. CASE ApplyMessageCreated \/ Ignore \/ Close \/ UNCHANGED vars
  BY <1>1, <1>13 DEF ApplyMessageCreated, Ignore, Close, vars
<1>14. CASE ApplyReadCursorUpdated
  <2>1. CASE list = NotLoaded
    BY <1>1, <1>14, <2>1 DEF ApplyReadCursorUpdated
  <2>2. CASE list # NotLoaded
    <3>1. right' = (MarkRead \notin crossed)
      BY <1>14, <2>2 DEF ApplyReadCursorUpdated
    <3>2. QED
      BY <1>14, <2>2, <3>1, Zenon
  <2>3. QED
    BY <2>1, <2>2
<1>15. ASSUME NEW l \in Loads, ApplyLoad(l)
       PROVE  right' \in BOOLEAN /\ (right' => l \notin crossed \cup old)
  BY <1>15, Zenon DEF ApplyLoad
<1>16. ASSUME HandlePush \/ ApplySync PROVE right' = FALSE
  BY <1>16 DEF HandlePush, ApplySync
<1>17. CASE Open
  BY <1>17 DEF Open
<1>18. [Next]_vars
  OBVIOUS
<1>19. QED
  BY <1>1, <1>2, <1>3, <1>4, <1>5, <1>8, <1>10, <1>11, <1>12, <1>13, <1>14, <1>15, <1>16, <1>17, <1>18,
     <1>6, <1>7, <1>9, Zenon DEF Next

LEMMA InboxTypePreserved ==
  ASSUME TypeOK, SendInv, NetInv, [Next]_vars
  PROVE  TypeOK'
<1>1. LinkType /\ right' \in BOOLEAN
  BY RightMoves DEF TypeOK, LinkType
<1>2. LinkType' /\ DeviceType'
  BY <1>1, LinkTypePreserved, DeviceTypePreserved
<1>3. count' \in [Counters -> Work] /\ crossed' \subseteq Counters
  BY CountTypePreserved
<1>4. rows' \in Seq(Message) /\ sending' \subseteq Requests /\ cursor' \in 0 .. MaxMessages
  BY SendPreserved
<1>5. net' \in Seq(Event)
  BY NetPreserved
<1>6. QED
  BY <1>1, <1>2, <1>3, <1>4, <1>5 DEF TypeOK, LinkType, DeviceType, Work, Places, Requests

-----------------------------------------------------------------------------
(* The counts under way.                                                      *)

\* What is under way after a step of one count, and who is crossed.
LEMMA FindMoves ==
  ASSUME TypeOK, NEW s \in Counters, FindCursor(s) \/ CountRows(s)
  PROVE  /\ UnderWay' = UnderWay
         /\ \A t \in Counters \ {s} : count'[t] = count[t]
<1>0. count \in [Counters -> Work] /\ \A t \in Counters : count[t] \in Work
  BY DEF TypeOK, Work, Places
<1>1. CASE FindCursor(s)
  <2>1. count' = [count EXCEPT ![s].at = "rows", ![s].from = cursor] /\ s # Sync /\ count[s].at = "start"
    BY <1>1 DEF FindCursor
  <2>2. count'[s].at = "rows" /\ \A t \in Counters \ {s} : count'[t] = count[t]
    BY <1>0, <2>1 DEF Work
  <2>3. QED
    BY <2>1, <2>2 DEF UnderWay
<1>2. CASE CountRows(s)
  <2>1. /\ count' = [count EXCEPT ![s].at = "answer", ![s].from = 0, ![s].unread = Unread(count[s].from)]
        /\ count[s].at = "rows"
    BY <1>2 DEF CountRows
  <2>2. count'[s].at = "answer" /\ \A t \in Counters \ {s} : count'[t] = count[t]
    BY <1>0, <2>1 DEF Work
  <2>3. QED
    BY <2>1, <2>2 DEF UnderWay
<1>3. QED
  BY <1>1, <1>2

LEMMA ShownPreserved ==
  ASSUME TypeOK, SendInv, NetInv, ShownInv, [Next]_vars, TypeOK'
  PROVE  ShownInv'
<1>0. /\ MarkRead \in Counters /\ MarkRead # Sync /\ MarkRead \notin Loads
      /\ Loads \subseteq Counters \ {Sync}
      /\ crossed \subseteq Counters /\ count \in [Counters -> Work]
  BY RequestAssumption DEF Counters, TypeOK, Work, Places
\* The device stays as it is, and no reload starts, unless the list is on the screen.
<1>1. ASSUME UNCHANGED device, right' => right, shown \/ UnderWay' \cap Loads \subseteq UnderWay
      PROVE  ShownInv'
  BY <1>1 DEF ShownInv, device
<1>2. ASSUME NEW m \in Message, SendMessage(m) PROVE ShownInv'
  BY <1>1, <1>2 DEF SendMessage, UnderWay
<1>3. ASSUME NEW x \in sending, SendFinds(x) \/ SendReads(x) \/ EmitMessageCreated(x) \/ FailSend(x)
      PROVE  ShownInv'
  <2>1. UNCHANGED <<count, device>>
    BY <1>3 DEF SendFinds, SendReads, EmitMessageCreated, FailSend
  <2>2. right' => right
    BY <1>3, Zenon DEF SendFinds, SendReads, EmitMessageCreated, FailSend
  <2>3. UnderWay' = UnderWay
    BY <2>1 DEF UnderWay
  <2>4. QED
    BY <1>1, <2>1, <2>2, <2>3
<1>4. ASSUME NEW k \in DOMAIN rows, NEW tells \in BOOLEAN, SendAgain(k, tells) PROVE ShownInv'
  BY <1>1, <1>4 DEF SendAgain, UnderWay
<1>5. ASSUME NEW n \in 1 .. MaxMessages, UpdateReadCursor(n) PROVE ShownInv'
  <2>1. UnderWay' = UnderWay
    BY <1>5, FindOwnMoves
  <2>2. QED
    BY <1>1, <1>5, <2>1 DEF UpdateReadCursor
<1>6. CASE SaveReadCursor
  <2>1. UnderWay' = UnderWay \cup {MarkRead}
    BY <1>6, SaveMoves
  <2>2. QED
    BY <1>0, <1>1, <1>6, <2>1 DEF SaveReadCursor
<1>7. ASSUME NEW s \in Counters, FindCursor(s) \/ CountRows(s) PROVE ShownInv'
  <2>1. UNCHANGED <<device, right>>
    BY <1>7 DEF FindCursor, CountRows
  <2>2. QED
    BY <1>1, <1>7, <2>1, FindMoves
<1>8. ASSUME NEW s \in Counters, FailCount(s) PROVE ShownInv'
  <2>1. UnderWay' = UnderWay \ {s} /\ right' = FALSE /\ old' = old \ {s} /\ shown' = shown
    BY <1>8, EndMoves DEF FailCount
  <2>2. QED
    BY <2>1 DEF ShownInv
<1>9. CASE EmitReadCursorUpdated
  <2>1. UnderWay' \cap Loads \subseteq UnderWay
    BY <1>0, <1>9 DEF EmitReadCursorUpdated, UnderWay
  <2>2. QED
    BY <1>1, <1>9, <2>1 DEF EmitReadCursorUpdated
<1>10. CASE Connect \/ JoinRooms \/ EmitReady
  BY <1>1, <1>10 DEF Connect, JoinRooms, EmitReady, UnderWay
<1>11. CASE Drop
  <2>1. UnderWay' \subseteq UnderWay
    BY <1>0, <1>11, EndMoves DEF Drop, UnderWay
  <2>2. QED
    BY <1>1, <1>11, <2>1 DEF Drop
<1>12. CASE Reload \/ HandleReady
  BY <1>1, <1>12 DEF Reload, HandleReady
<1>13. CASE ApplyMessageCreated \/ ApplyReadCursorUpdated
  <2>1. shown' = shown /\ shown
    BY <1>13 DEF ApplyMessageCreated, ApplyReadCursorUpdated
  <2>2. CASE list = NotLoaded
    <3>1. ~right /\ right' = right
      BY <1>13, <2>2 DEF ApplyMessageCreated, ApplyReadCursorUpdated, ShownInv
    <3>2. QED
      BY <2>1, <3>1 DEF ShownInv
  <2>3. CASE list # NotLoaded
    <3>1. net # <<>>
      BY <1>13 DEF ApplyMessageCreated, ApplyReadCursorUpdated, Take
    <3>2. Head(net).unread \in Nat
      BY <3>1, TailOfNet, InboxBounds DEF Event
    <3>3. list' \in {list + Head(net).unread, Head(net).unread}
      BY <1>13, <2>3 DEF ApplyMessageCreated, ApplyReadCursorUpdated, Publish
    <3>4. list' \in Nat
      BY <2>3, <3>2, <3>3 DEF TypeOK
    <3>5. QED
      BY <2>1, <3>4, NotLoadedAssumption DEF ShownInv
  <2>4. QED
    BY <2>2, <2>3
<1>14. CASE Ignore
  <2>1. UnderWay' \subseteq UnderWay
    BY <1>0, <1>14, EndMoves DEF Ignore, UnderWay
  <2>2. QED
    BY <1>1, <1>14, <2>1 DEF Ignore
<1>15. ASSUME NEW l \in Loads, ApplyLoad(l) PROVE ShownInv'
  <2>1. l \in UnderWay
    BY <1>0, <1>15 DEF ApplyLoad, UnderWay
  <2>2. UnderWay' = UnderWay \ {l} /\ old' = old \ {l} /\ shown' = shown
    BY <1>0, <1>15, EndMoves DEF ApplyLoad
  <2>3. right' => l \notin old
    BY <1>15, Zenon DEF ApplyLoad
  <2>4. right' => list' \in Nat
    <3>1. count[l] \in Work
      BY <1>0
    <3>2. count[l].unread \in Nat
      BY <1>0, <3>1, InboxBounds DEF Work
    <3>3. QED
      BY <1>15, <2>3, <3>2 DEF ApplyLoad
  <2>5. QED
    BY <2>1, <2>2, <2>3, <2>4, NotLoadedAssumption DEF ShownInv
<1>16. ASSUME HandlePush \/ ApplySync PROVE ShownInv'
  <2>1. UNCHANGED <<shown, list, old>> /\ right' = FALSE
    BY <1>16 DEF HandlePush, ApplySync
  <2>2. shown \/ UnderWay' = UnderWay
    BY <1>16, PushMoves, LoadAfterMoves
  <2>3. QED
    BY <2>1, <2>2 DEF ShownInv
<1>17. CASE Open
  BY <1>17 DEF Open, ShownInv, UnderWay
<1>18. CASE Close
  BY <1>18 DEF Close, ShownInv
<1>19. CASE UNCHANGED vars
  BY <1>1, <1>19 DEF vars, UnderWay
<1>20. QED
  BY <1>2, <1>3, <1>5, <1>7, <1>8, <1>9, <1>10, <1>11, <1>12, <1>13, <1>14, <1>15,
     <1>16, <1>17, <1>18, <1>19, <1>4, <1>6 DEF Next

\* A count that starts alone and hears of nothing is not crossed; one that hears
\* of something is.
LEMMA StartIsClear ==
  ASSUME TypeOK, CountInv, NEW c \in [Counters -> Work], NEW s \in Counters \ {Sync}, Start(c, s),
         \A t \in Counters \ {Sync, s} : c[t] = count[t], count[s].at \in {"idle", "save"},
         sending' = sending,
         \A k \in DOMAIN net' : \E j \in DOMAIN net : net'[k] = net[j]
  PROVE  CountInv'
<1>1. /\ UnderWay' = UnderWay \cup {s} /\ s \notin UnderWay
      /\ count'[s].at = "start"
  BY StartMoves DEF TypeOK
<1>2. CASE sending # {} \/ UnderWay # {} \/ \E k \in DOMAIN net : net[k].kind # "ready"
  <2>1. crossed' = crossed \cup UnderWay \cup {s}
    BY <1>2 DEF Start
  <2>2. UnderWay' \ crossed' = {}
    BY <1>1, <2>1
  <2>3. QED
    BY <2>2 DEF CountInv
<1>3. CASE ~(sending # {} \/ UnderWay # {} \/ \E k \in DOMAIN net : net[k].kind # "ready")
  <2>1. UnderWay' = {s} /\ sending' = {}
    BY <1>1, <1>3
  <2>2. \A k \in DOMAIN net' : net'[k].kind = "ready"
    BY <1>3
  <2>3. QED
    BY <1>1, <2>1, <2>2 DEF CountInv
<1>4. QED
  BY <1>2, <1>3

LEMMA LoadIsClear ==
  ASSUME TypeOK, CountInv, Load, sending' = sending,
         \A k \in DOMAIN net' : \E j \in DOMAIN net : net'[k] = net[j]
  PROVE  CountInv'
<1>1. PICK l \in Loads : Start(count, l) /\ l \in Counters \ {Sync, MarkRead}
  BY LoadMoves
<1>2. count \in [Counters -> Work] /\ count[l].at = "idle"
  BY <1>1 DEF TypeOK, Work, Places, Start
<1>3. QED
  BY <1>1, <1>2, StartIsClear

\* A step that crosses what is under way, and starts nothing.
LEMMA CrossingIsClear ==
  ASSUME UnderWay' \subseteq crossed'
  PROVE  CountInv'
BY DEF CountInv

\* A step that ends one of the counts: what is not crossed is alone, so it has ended.
LEMMA EndIsClear ==
  ASSUME TypeOK, CountInv, NEW s \in UnderWay, crossed' = crossed \ {s},
         UnderWay' = UnderWay \ {s}
  PROVE  CountInv'
<1>1. UnderWay' \ crossed' = {}
  BY DEF CountInv
<1>2. QED
  BY <1>1 DEF CountInv

\* A step that changes neither the counts nor what they are about.
LEMMA NothingIsClear ==
  ASSUME TypeOK, CountInv, UNCHANGED server, UnderWay' = UnderWay, crossed' = crossed,
         \A t \in UnderWay : count'[t] = count[t],
         \A k \in DOMAIN net' : net'[k].kind = "ready" \/ \E j \in DOMAIN net : net'[k] = net[j]
  PROVE  CountInv'
<1>1. Unread(cursor)' = Unread(cursor)
  BY DEF Unread, server
<1>2. SUFFICES ASSUME NEW s \in UnderWay \ crossed
               PROVE  /\ sending' = {} /\ UnderWay' = {s}
                      /\ count'[s].at = "rows" => count'[s].from = cursor'
                      /\ count'[s].at = "answer" => count'[s].unread = Unread(cursor)'
                      /\ \A k \in DOMAIN net' : net'[k].kind # "ready" =>
                            /\ net'[k].kind = "cursor" /\ net'[k].unread = Unread(cursor)'
                            /\ s = MarkRead /\ count'[s].at = "net"
  BY DEF CountInv
<1>3. s \in Counters \ {Sync} /\ count'[s] = count[s]
  BY DEF UnderWay
<1>4. sending' = {} /\ UnderWay' = {s}
  BY DEF CountInv, server
<1>5. /\ count'[s].at = "rows" => count'[s].from = cursor'
      /\ count'[s].at = "answer" => count'[s].unread = Unread(cursor)'
  BY <1>1, <1>3 DEF CountInv, server
<1>6. ASSUME NEW k \in DOMAIN net', net'[k].kind # "ready"
      PROVE  /\ net'[k].kind = "cursor" /\ net'[k].unread = Unread(cursor)'
             /\ s = MarkRead /\ count'[s].at = "net"
  <2>1. PICK j \in DOMAIN net : net'[k] = net[j]
    BY <1>6
  <2>2. net[j].kind = "cursor" /\ net[j].unread = Unread(cursor) /\ s = MarkRead /\ count[s].at = "net"
    BY <1>6, <2>1 DEF CountInv
  <2>3. QED
    BY <1>1, <1>3, <2>1, <2>2
<1>7. QED
  BY <1>4, <1>5, <1>6

\* A step of a count itself: it finds what is true, and no other is alone.
LEMMA FindIsClear ==
  ASSUME TypeOK, SendInv, CountInv, NEW s \in Counters, FindCursor(s) \/ CountRows(s)
  PROVE  CountInv'
<1>0. /\ UNCHANGED <<server, net, crossed>>
      /\ UnderWay' = UnderWay
      /\ \A t \in Counters \ {s} : count'[t] = count[t]
      /\ \A t \in Counters : count[t] \in Work
      /\ count \in [Counters -> Work]
  BY FindMoves DEF FindCursor, CountRows, TypeOK, Work, Places
<1>1. CASE s \notin UnderWay \ crossed
  <2>1. ASSUME NEW t \in UnderWay \ crossed PROVE t \in Counters \ {s} /\ count'[t] = count[t]
    BY <1>0, <1>1 DEF UnderWay
  <2>2. Unread(cursor)' = Unread(cursor)
    BY <1>0 DEF Unread, server
  <2>3. QED
    BY <1>0, <2>1, <2>2 DEF CountInv, server
<1>2. CASE s \in UnderWay \ crossed
  <2>1. UnderWay' = {s} /\ sending' = {} /\ s \notin crossed'
    BY <1>0, <1>2 DEF CountInv, server
  <2>2. \A k \in DOMAIN net' : net'[k].kind = "ready"
    <3>1. count[s].at # "net"
      BY DEF FindCursor, CountRows
    <3>2. QED
      BY <1>0, <1>2, <3>1 DEF CountInv
  <2>3. count'[s].at = "rows" => count'[s].from = cursor'
    <3>1. CASE FindCursor(s)
      <4>1. count' = [count EXCEPT ![s].at = "rows", ![s].from = cursor]
        BY <3>1 DEF FindCursor
      <4>2. count'[s].from = cursor
        BY <1>0, <4>1 DEF Work
      <4>3. QED
        BY <1>0, <4>2 DEF server
    <3>2. CASE CountRows(s)
      <4>1. count'[s].at = "answer"
        BY <1>0, <3>2 DEF CountRows, Work
      <4>2. QED
        BY <4>1
    <3>3. QED
      BY <3>1, <3>2
  <2>4. count'[s].at = "answer" => count'[s].unread = Unread(cursor)'
    <3>1. CASE FindCursor(s)
      <4>1. count' = [count EXCEPT ![s].at = "rows", ![s].from = cursor]
        BY <3>1 DEF FindCursor
      <4>2. count'[s].at = "rows"
        BY <1>0, <4>1 DEF Work
      <4>3. QED
        BY <4>2
    <3>2. CASE CountRows(s)
      <4>1. count[s].from = cursor
        BY <1>2, <3>2 DEF CountRows, CountInv
      <4>2. count'[s].unread = Unread(cursor)
        BY <1>0, <3>2, <4>1 DEF CountRows, Work
      <4>3. Unread(cursor)' = Unread(cursor)
        BY <1>0 DEF Unread, server
      <4>4. QED
        BY <4>2, <4>3
    <3>3. QED
      BY <3>1, <3>2
  <2>5. QED
    BY <2>1, <2>2, <2>3, <2>4 DEF CountInv
<1>3. QED
  BY <1>1, <1>2

\* The event of a count that nothing crossed says what is true.
LEMMA EmitIsClear ==
  ASSUME TypeOK, CountInv, EmitReadCursorUpdated
  PROVE  CountInv'
<1> DEFINE e == [kind |-> "cursor", unread |-> count[MarkRead].unread]
<1>0. /\ MarkRead \in UnderWay /\ MarkRead \in Counters
      /\ count \in [Counters -> Work] /\ count[MarkRead] \in Work
      /\ UNCHANGED server
      /\ net' \in {net, Append(net, e)}
  <2>1. MarkRead \in Counters /\ MarkRead # Sync
    BY RequestAssumption DEF Counters
  <2>2. net' \in {net, Append(net, e)}
    BY Zenon DEF EmitReadCursorUpdated, Deliver
  <2>3. QED
    BY <2>1, <2>2 DEF EmitReadCursorUpdated, UnderWay, TypeOK, Work, Places
<1>1. CASE net' = net
  BY <1>0, <1>1, EndMoves, EndIsClear DEF EmitReadCursorUpdated
<1>2. CASE net' # net
  <2>1. /\ crossed' = crossed /\ net' = Append(net, e)
        /\ count' = [count EXCEPT ![MarkRead] = [Idle EXCEPT !.at = "net"]]
    BY <1>0, <1>2 DEF EmitReadCursorUpdated
  <2>2. count'[MarkRead].at = "net" /\ \A t \in Counters \ {MarkRead} : count'[t] = count[t]
    BY <1>0, <2>1 DEF Idle
  <2>3. UnderWay' = UnderWay
    BY <1>0, <2>2 DEF UnderWay
  <2>4. CASE MarkRead \in crossed
    <3>1. UnderWay \ crossed = {}
      BY <1>0, <2>4 DEF CountInv
    <3>2. QED
      BY <2>1, <2>3, <3>1 DEF CountInv
  <2>5. CASE MarkRead \notin crossed
    <3>1. /\ UnderWay = {MarkRead} /\ sending = {}
          /\ count[MarkRead].unread = Unread(cursor)
          /\ \A k \in DOMAIN net : net[k].kind = "ready"
      BY <1>0, <2>5 DEF CountInv, EmitReadCursorUpdated
    <3>2. Unread(cursor)' = Unread(cursor) /\ sending' = {}
      BY <1>0, <3>1 DEF Unread, server
    <3>3. e \in Event /\ e.kind = "cursor" /\ e.unread = Unread(cursor)
      BY <1>0, <3>1 DEF Event, Work
    <3> HIDE DEF e
    <3>4. \A k \in DOMAIN net' : (k \in DOMAIN net /\ net'[k] = net[k]) \/ net'[k] = e
      BY <2>1, <3>3, AppendToNet
    <3>5. \A k \in DOMAIN net' : net'[k].kind # "ready" =>
             net'[k].kind = "cursor" /\ net'[k].unread = Unread(cursor)'
      BY <3>1, <3>2, <3>3, <3>4
    <3>6. QED
      BY <2>1, <2>2, <2>3, <3>1, <3>2, <3>5 DEF CountInv
  <2>6. QED
    BY <2>4, <2>5
<1>3. QED
  BY <1>1, <1>2

LEMMA CountPreserved ==
  ASSUME TypeOK, SendInv, NetInv, CountInv, [Next]_vars
  PROVE  CountInv'
<1>0. /\ MarkRead \in Counters /\ MarkRead # Sync /\ MarkRead \notin Loads
      /\ Loads \subseteq Counters \ {Sync}
      /\ crossed \subseteq Counters /\ count \in [Counters -> Work]
  BY RequestAssumption DEF Counters, TypeOK, Work, Places
<1>1. ASSUME NEW m \in Message, SendMessage(m) PROVE CountInv'
  BY <1>1, CrossingIsClear DEF SendMessage, Cross, UnderWay
<1>2. ASSUME NEW x \in sending, SendFinds(x) PROVE CountInv'
  <2>1. UNCHANGED <<count, crossed>> /\ sending # {}
    BY <1>2 DEF SendFinds
  <2>2. UnderWay' \subseteq crossed'
    BY <2>1 DEF CountInv, UnderWay
  <2>3. QED
    BY <2>2, CrossingIsClear
<1>3. ASSUME NEW x \in sending, SendReads(x) \/ EmitMessageCreated(x) \/ FailSend(x)
      PROVE  CountInv'
  <2>1. count' = count /\ crossed' = crossed \cup UnderWay
    BY <1>3 DEF SendReads, EmitMessageCreated, FailSend, Cross
  <2>2. UnderWay' \subseteq crossed'
    BY <2>1 DEF UnderWay
  <2>3. QED
    BY <2>2, CrossingIsClear
<1>4. ASSUME NEW k \in DOMAIN rows, NEW tells \in BOOLEAN, SendAgain(k, tells) PROVE CountInv'
  BY <1>4, CrossingIsClear DEF SendAgain, Cross, UnderWay
<1>5. ASSUME NEW n \in 1 .. MaxMessages, UpdateReadCursor(n) PROVE CountInv'
  <2>1. UNCHANGED <<server, net, crossed>>
    BY <1>5 DEF UpdateReadCursor
  <2>2. UnderWay' = UnderWay /\ \A t \in UnderWay : count'[t] = count[t]
    BY <1>5, FindOwnMoves DEF UnderWay
  <2>3. QED
    BY <2>1, <2>2, NothingIsClear
<1>6. CASE SaveReadCursor
  <2> DEFINE c == [count EXCEPT ![MarkRead] = Idle]
  <2>1. /\ sending' = sending /\ net' = net /\ Start(c, MarkRead)
        /\ count[MarkRead].at \in {"idle", "save"}
    BY <1>6 DEF SaveReadCursor
  <2>2. c \in [Counters -> Work] /\ \A t \in Counters \ {Sync, MarkRead} : c[t] = count[t]
    BY <1>0, InboxBounds DEF Idle, Work, Places
  <2> HIDE DEF c
  <2>3. QED
    BY <1>0, <2>1, <2>2, StartIsClear
<1>7. ASSUME NEW s \in Counters, FindCursor(s) \/ CountRows(s) PROVE CountInv'
  BY <1>7, FindIsClear
<1>8. ASSUME NEW s \in Counters, FailCount(s) PROVE CountInv'
  <2>1. /\ count' = [count EXCEPT ![s] = Idle] /\ crossed' = crossed \ {s}
        /\ UNCHANGED <<server, net>> /\ count[s].at # "idle"
    BY <1>8 DEF FailCount
  <2>2. UnderWay' = UnderWay \ {s} /\ \A t \in Counters \ {s} : count'[t] = count[t]
    BY <2>1, EndMoves
  <2>3. CASE s \in UnderWay
    BY <2>1, <2>2, <2>3, EndIsClear
  <2>4. CASE s \notin UnderWay
    <3>1. UnderWay' = UnderWay
      BY <2>2, <2>4
    <3>2. Unread(cursor)' = Unread(cursor)
      BY <2>1 DEF Unread, server
    <3>3. ASSUME NEW t \in UnderWay' \ crossed' PROVE t \in UnderWay \ crossed /\ count'[t] = count[t]
      <4>1. t \in UnderWay /\ t # s /\ t \in Counters
        BY <2>4, <3>1, <3>3 DEF UnderWay
      <4>2. QED
        BY <2>1, <2>2, <3>3, <4>1
    <3>4. QED
      BY <2>1, <3>1, <3>2, <3>3 DEF CountInv, server
  <2>5. QED
    BY <2>3, <2>4
<1>9. CASE EmitReadCursorUpdated
  BY <1>9, EmitIsClear
<1>10. CASE Connect \/ JoinRooms \/ EmitReady
  <2>1. UNCHANGED <<server, count, crossed>>
    BY <1>10 DEF Connect, JoinRooms, EmitReady
  <2>2. \A k \in DOMAIN net' : net'[k].kind = "ready" \/ \E j \in DOMAIN net : net'[k] = net[j]
    <3> DEFINE e == [kind |-> "ready", unread |-> 0]
    <3>1. e \in Event /\ e.kind = "ready"
      BY InboxBounds DEF Event
    <3>2. net' = net \/ net' = Append(net, e)
      BY <1>10 DEF Connect, JoinRooms, EmitReady
    <3> HIDE DEF e
    <3>3. QED
      BY <3>1, <3>2, AppendToNet
  <2>3. QED
    BY <2>1, <2>2, NothingIsClear DEF UnderWay
<1>11. CASE Drop
  <2>1. net' = <<>> /\ UNCHANGED server
    BY <1>11 DEF Drop
  <2>2. CASE count[MarkRead].at = "net"
    <3>1. MarkRead \in UnderWay /\ UnderWay' = UnderWay \ {MarkRead} /\ crossed' = crossed \ {MarkRead}
      BY <1>0, <1>11, <2>2, EndMoves DEF Drop, UnderWay
    <3>2. QED
      BY <3>1, EndIsClear
  <2>3. CASE count[MarkRead].at # "net"
    <3>1. UNCHANGED <<count, crossed>>
      BY <1>11, <2>3 DEF Drop
    <3>2. \A k \in DOMAIN net' : FALSE
      BY <2>1
    <3>3. QED
      BY <2>1, <3>1, <3>2, NothingIsClear DEF UnderWay
  <2>4. QED
    BY <2>2, <2>3
<1>12. CASE Reload \/ HandleReady
  <2>1. Load /\ UNCHANGED server /\ (net' = net \/ (net # <<>> /\ net' = Tail(net)))
    BY <1>12 DEF Reload, HandleReady, Take
  <2>2. \A k \in DOMAIN net' : \E j \in DOMAIN net : net'[k] = net[j]
    BY <2>1, TailOfNet
  <2>3. QED
    BY <2>1, <2>2, LoadIsClear DEF server
<1>13. CASE ApplyMessageCreated
  <2>1. UNCHANGED server /\ net # <<>> /\ net' = Tail(net)
    BY <1>13 DEF ApplyMessageCreated, Take
  <2>2. CASE list = NotLoaded
    <3>1. Load
      BY <1>13, <2>2 DEF ApplyMessageCreated
    <3>2. \A k \in DOMAIN net' : \E j \in DOMAIN net : net'[k] = net[j]
      BY <2>1, TailOfNet
    <3>3. QED
      BY <2>1, <3>1, <3>2, LoadIsClear DEF server
  <2>3. CASE list # NotLoaded
    BY <1>13, <2>3, CrossingIsClear DEF ApplyMessageCreated, Cross, UnderWay
  <2>4. QED
    BY <2>2, <2>3
<1>14. CASE ApplyReadCursorUpdated
  <2>1. UnderWay' = UnderWay \ {MarkRead} /\ crossed' = (crossed \cup UnderWay) \ {MarkRead}
    BY <1>0, <1>14, EndMoves DEF ApplyReadCursorUpdated
  <2>2. QED
    BY <2>1, CrossingIsClear
<1>15. CASE Ignore
  <2>1. UNCHANGED server /\ net # <<>> /\ net' = Tail(net)
    BY <1>15 DEF Ignore
  <2>2. CASE Head(net).kind = "cursor"
    <3>1. MarkRead \in UnderWay
      BY <1>0, <2>1, <2>2, TailOfNet DEF NetInv, UnderWay
    <3>2. UnderWay' = UnderWay \ {MarkRead} /\ crossed' = crossed \ {MarkRead}
      BY <1>0, <1>15, <2>2, EndMoves DEF Ignore
    <3>3. QED
      BY <3>1, <3>2, EndIsClear
  <2>3. CASE Head(net).kind # "cursor"
    <3>1. UNCHANGED <<count, crossed>>
      BY <1>15, <2>3 DEF Ignore
    <3>2. \A k \in DOMAIN net' : \E j \in DOMAIN net : net'[k] = net[j]
      BY <2>1, TailOfNet
    <3>3. QED
      BY <2>1, <3>1, <3>2, NothingIsClear DEF UnderWay
  <2>4. QED
    BY <2>2, <2>3
<1>16. ASSUME NEW l \in Loads, ApplyLoad(l) PROVE CountInv'
  <2>1. UnderWay' = UnderWay \ {l} /\ crossed' = (crossed \cup UnderWay) \ {l}
    BY <1>0, <1>16, EndMoves DEF ApplyLoad
  <2>2. QED
    BY <2>1, CrossingIsClear
<1>17. ASSUME HandlePush \/ ApplySync PROVE CountInv'
  <2>1. PICK c \in [Counters -> Work] : LoadAfter(c) /\ \A t \in Counters \ {Sync} : c[t] = count[t]
    BY <1>17, PushMoves
  <2>2. UNCHANGED <<server, net>>
    BY <1>17 DEF HandlePush, ApplySync
  <2>3. CASE shown
    <3>1. PICK l \in Loads : Start(c, l) /\ l \in Counters \ {Sync}
      BY <2>1, <2>3, LoadAfterMoves
    <3>2. count[l].at = "idle"
      BY <2>1, <3>1 DEF Start
    <3>3. QED
      BY <2>1, <2>2, <3>1, <3>2, StartIsClear DEF server
  <2>4. CASE ~shown
    <3>1. count' = c /\ crossed' = crossed /\ UnderWay' = UnderWay
      BY <2>1, <2>4, LoadAfterMoves
    <3>2. QED
      BY <2>1, <2>2, <3>1, NothingIsClear DEF UnderWay
  <2>5. QED
    BY <2>3, <2>4
<1>18. CASE Open \/ UNCHANGED vars
  <2>1. UNCHANGED <<server, count, crossed, net>>
    BY <1>18 DEF Open, vars
  <2>2. QED
    BY <2>1, NothingIsClear DEF UnderWay
<1>19. CASE Close
  <2>1. Load /\ UNCHANGED <<server, net>>
    BY <1>19 DEF Close
  <2>2. QED
    BY <2>1, LoadIsClear DEF server
<1>20. QED
  BY <1>1, <1>3, <1>5, <1>7, <1>8, <1>9, <1>10, <1>11, <1>12, <1>13, <1>14, <1>15, <1>16,
     <1>17, <1>18, <1>19, <1>4, <1>6, <1>2 DEF Next

-----------------------------------------------------------------------------
(* What the device is told of.                                                *)

LEMMA SumIsFinite ==
  ASSUME TypeOK, SendInv
  PROVE  /\ IsFiniteSet(Told) /\ Cardinality(Told) \in Nat
         /\ IsFiniteSet(Coming) /\ Cardinality(Coming) \in Nat
         /\ IsFiniteSet(Behind(cursor)) /\ Unread(cursor) = Cardinality(Behind(cursor))
         /\ Unread(cursor) \in Nat
<1>1. DOMAIN net = 1 .. Len(net) /\ Len(net) \in Int /\ 1 \in Int
  BY DEF TypeOK
<1>2. IsFiniteSet(1 .. Len(net))
  BY <1>1, FS_Interval, Zenon
<1>3. Told \subseteq 1 .. Len(net)
  BY <1>1 DEF Told
<1>4. IsFiniteSet(Told)
  BY <1>2, <1>3, FS_Subset
<1>5. IsFiniteSet(Coming)
  <2>1. Coming \subseteq sending
    BY DEF Coming
  <2>2. QED
    BY <2>1, FS_Subset DEF SendInv
<1>6. cursor \in Nat
  BY InboxBounds DEF TypeOK
<1>7. QED
  BY <1>4, <1>5, <1>6, FS_CardinalityType, UnreadIsBounded

\* The first event is taken: the others come one place nearer.
LEMMA ToldOfTail ==
  ASSUME TypeOK, SendInv, net # <<>>, net' = Tail(net), TypeOK', SendInv'
  PROVE  Cardinality(Told) = Cardinality(Told') + IF Head(net).unread = 1 THEN 1 ELSE 0
<1> DEFINE D == {k \in DOMAIN net \ {1} : net[k].unread = 1}
           f == [k \in Told' |-> k + 1]
<1>1. /\ Head(net) = net[1] /\ 1 \in DOMAIN net
      /\ DOMAIN net' = {k \in Nat \ {0} : k + 1 \in DOMAIN net}
      /\ \A k \in DOMAIN net' : net'[k] = net[k + 1]
      /\ DOMAIN net \subseteq Nat \ {0}
  BY TailOfNet DEF TypeOK
<1>2. Told' = {k \in Nat \ {0} : k + 1 \in D}
  BY <1>1 DEF Told
<1>3. D \subseteq Nat \ {0, 1}
  BY <1>1
<1>4. f \in [Told' -> D] /\ \A k \in Told' : f[k] = k + 1
  BY <1>2
<1>5. \A j, k \in Told' : f[j] = f[k] => j = k
  BY <1>2, <1>4
<1>6. \A d \in D : \E k \in Told' : f[k] = d
  <2>1. ASSUME NEW d \in D PROVE d - 1 \in Told' /\ f[d - 1] = d
    BY <1>2, <1>3, <1>4
  <2>2. QED
    BY <2>1
<1> HIDE DEF D, f
<1>7. ExistsBijection(Told', D)
  BY <1>4, <1>5, <1>6 DEF ExistsBijection, Bijection, Injection, Surjection, IsInjective
<1>8. IsFiniteSet(Told') /\ Cardinality(Told') \in Nat
  <2>1. (IsFiniteSet(Told) /\ Cardinality(Told) \in Nat)'
    BY SumIsFinite, PTL
  <2>2. QED
    BY <2>1
<1>9. IsFiniteSet(D) /\ Cardinality(D) = Cardinality(Told')
  BY <1>7, <1>8, FS_Bijection
<1>10. Told = IF Head(net).unread = 1 THEN D \cup {1} ELSE D
  BY <1>1 DEF Told, D
<1>11. 1 \notin D
  BY DEF D
<1>12. Cardinality(D \cup {1}) = Cardinality(D) + 1
  BY <1>9, <1>11, FS_AddElement
<1>13. QED
  BY <1>8, <1>9, <1>10, <1>12

LEMMA ToldOfAppend ==
  ASSUME TypeOK, SendInv, NEW e \in Event, net' = Append(net, e)
  PROVE  Cardinality(Told') = Cardinality(Told) + IF e.unread = 1 THEN 1 ELSE 0
<1>1. /\ DOMAIN net' = DOMAIN net \cup {Len(net) + 1} /\ net'[Len(net) + 1] = e
      /\ \A k \in DOMAIN net : net'[k] = net[k]
      /\ Len(net) + 1 \notin DOMAIN net
  BY AppendToNet
<1>2. Told' = IF e.unread = 1 THEN Told \cup {Len(net) + 1} ELSE Told
  BY <1>1 DEF Told
<1>3. Len(net) + 1 \notin Told
  BY <1>1 DEF Told
<1>4. Cardinality(Told \cup {Len(net) + 1}) = Cardinality(Told) + 1
  BY <1>3, SumIsFinite, FS_AddElement
<1>5. QED
  BY <1>2, <1>4, SumIsFinite

-----------------------------------------------------------------------------
(* A list that is right stays right.                                          *)

\* A message is stored: it is unread, and the device will be told.
LEMMA SendAgrees ==
  ASSUME TypeOK, SendInv, NEW m \in Message, SendMessage(m), Agree
  PROVE  Agree'
<1> DEFINE n == Len(rows) + 1
           x == Request(n, m.by, 0, ~m.failed)
           seen == m.by = "me" \/ ~m.failed
<1>0. /\ Len(rows) \in Nat /\ DOMAIN rows = 1 .. Len(rows) /\ cursor \in Nat /\ cursor < n
      /\ \A y \in sending : y.seq \in DOMAIN rows /\ y.seq # n
      /\ m.by \in {"me", "other"}
  BY InboxBounds DEF TypeOK, SendInv, Message
<1>1. /\ DOMAIN rows' = DOMAIN rows \cup {n} /\ rows'[n] = m
      /\ \A k \in DOMAIN rows : rows'[k] = rows[k]
      /\ UNCHANGED <<cursor, net, list, agreed>>
  <2>1. rows' = Append(rows, m) /\ rows \in Seq(Message) /\ UNCHANGED <<cursor, net, list, agreed>>
    BY DEF SendMessage, TypeOK, device
  <2>2. Len(rows') = n /\ rows' \in Seq(Message) /\ rows'[n] = m
        /\ \A k \in 1 .. Len(rows) : rows'[k] = rows[k]
    BY <2>1
  <2>3. DOMAIN rows' = 1 .. n
    BY <2>2
  <2>4. QED
    BY <1>0, <2>1, <2>2, <2>3
<1>2. sending' = IF seen THEN sending \cup {x} ELSE sending
  <2>1. sending' = sending \cup IF m.by = "other" /\ m.failed THEN {} ELSE {x}
    BY DEF SendMessage
  <2> HIDE DEF x
  <2>2. QED
    BY <1>0, <2>1
<1>3. Told' = Told
  BY <1>1 DEF Told
<1>4. /\ x.seq = n /\ x \notin sending
      /\ x.at = IF m.by = "me" THEN "cursor" ELSE "emit"
  BY <1>0 DEF Request
<1> HIDE DEF x
<1>5. Coming' = IF seen THEN Coming \cup {x} ELSE Coming
  <2>1. \A y \in sending : y \in Coming' <=> y \in Coming
    BY <1>0, <1>1, <1>2 DEF Coming
  <2>2. seen => x \in Coming'
    BY <1>0, <1>1, <1>2, <1>4 DEF Coming
  <2>3. QED
    BY <1>2, <2>1, <2>2 DEF Coming
<1>6. x \notin Coming
  BY <1>4 DEF Coming
<1>7. Behind(cursor)' = IF seen THEN Behind(cursor) \cup {n} ELSE Behind(cursor)
  BY <1>0, <1>1 DEF Behind
<1>8. n \notin Behind(cursor)
  BY <1>0 DEF Behind
<1>9. /\ Cardinality(Coming \cup {x}) = Cardinality(Coming) + 1
      /\ Cardinality(Behind(cursor) \cup {n}) = Cardinality(Behind(cursor)) + 1
  BY <1>6, <1>8, SumIsFinite, FS_AddElement
<1>10. Unread(cursor)' = Cardinality(Behind(cursor)')
  BY DEF Unread, Behind
<1>11. Cardinality(Coming') - Cardinality(Coming) = Unread(cursor)' - Unread(cursor)
  BY <1>5, <1>7, <1>9, <1>10, SumIsFinite
<1>12. list \in Nat /\ Unread(cursor)' \in Nat /\ Cardinality(Coming') \in Nat
  <2>1. list \in Nat
    BY DEF Agree
  <2>2. QED
    BY <2>1, <1>5, <1>7, <1>9, <1>10, SumIsFinite
<1>13. QED
  BY <1>1, <1>3, <1>11, <1>12, SumIsFinite DEF Agree

\* A request has found the cursor: what it will do is still to come.
LEMMA FindsAgrees ==
  ASSUME TypeOK, SendInv, NEW x \in sending, SendFinds(x), Agree
  PROVE  Agree'
<1> DEFINE y == Further(x, "save", Later(cursor, x.seq))
<1>0. /\ sending' = (sending \ {x}) \cup {y} /\ x.at = "cursor"
      /\ UNCHANGED <<rows, cursor, net, list, agreed>>
      /\ x \in Requests /\ cursor \in 0 .. MaxMessages
  BY DEF SendFinds, TypeOK, Requests, device
<1>1. Later(cursor, x.seq) \in 0 .. MaxMessages
  BY <1>0, InboxBounds DEF Later, Requests
<1>2. y.seq = x.seq /\ y.nth = x.nth /\ y.at = "save"
  BY <1>0, <1>1, RequestGoesOn
<1> HIDE DEF y
<1>3. y \notin sending \ {x}
  BY <1>2 DEF SendInv
<1>4. y \in Coming' <=> x \in Coming
  BY <1>0, <1>2 DEF Coming
<1>5. Coming' = IF x \in Coming THEN (Coming \ {x}) \cup {y} ELSE Coming \ {x}
  BY <1>0, <1>2, <1>4 DEF Coming
<1>6. y \notin Coming \ {x}
  BY <1>3 DEF Coming
<1>7. /\ IsFiniteSet(Coming \ {x})
      /\ Cardinality(Coming \ {x}) = IF x \in Coming THEN Cardinality(Coming) - 1 ELSE Cardinality(Coming)
  BY SumIsFinite, FS_RemoveElement
<1>8. Cardinality((Coming \ {x}) \cup {y}) = Cardinality(Coming \ {x}) + 1
  BY <1>6, <1>7, FS_AddElement
<1>9. Cardinality(Coming') = Cardinality(Coming)
  BY <1>5, <1>7, <1>8, SumIsFinite
<1>10. Told' = Told /\ Unread(cursor)' = Unread(cursor)
  BY <1>0 DEF Told, Unread
<1>11. QED
  BY <1>0, <1>9, <1>10 DEF Agree

\* Sending reads all that came before.  The list shows nothing unread and nothing is
\* on its way: at most the message itself is behind the cursor.
LEMMA SendReadsAgrees ==
  ASSUME TypeOK, SendInv, NEW x \in sending, SendReads(x), Agree,
         list = 0, sending = {x}, net = <<>>, cursor <= x.to
  PROVE  Agree'
<1>0. /\ x.at = "save" /\ x.seq \in DOMAIN rows /\ rows[x.seq].by = "me"
      /\ x.seq <= x.to /\ x.to \in Nat /\ x \in Requests
      /\ cursor \in Nat /\ DOMAIN rows \subseteq Nat
      /\ UNCHANGED <<rows, net, list, agreed>>
      /\ cursor' = x.to
  BY InboxBounds DEF SendReads, SendInv, TypeOK, Requests, device
<1>1. Told' = {} /\ Told = {}
  BY <1>0 DEF Told
<1>2. Coming' = {}
  <2> DEFINE y == Further(x, "emit", 0)
  <2>1. y.at = "emit" /\ y.seq = x.seq
    BY <1>0, InboxBounds, RequestGoesOn
  <2>2. \A z \in sending' : z = y
    BY DEF SendReads
  <2> HIDE DEF y
  <2>3. QED
    BY <1>0, <2>1, <2>2 DEF Coming
<1>3. Cardinality({}) = 0
  BY FS_EmptySet
\* The later of the cursor and the message is behind nothing.
<1>4. \A k \in Behind(cursor) : k = x.seq
  <2>1. CASE x.seq <= cursor
    <3>1. Coming = {}
      BY <1>0, <2>1 DEF Coming
    <3>2. Cardinality(Behind(cursor)) = 0
      BY <1>1, <1>3, <3>1, SumIsFinite DEF Agree
    <3>3. QED
      BY <3>2, SumIsFinite, FS_EmptySet
  <2>2. CASE x.seq > cursor
    <3>1. Coming = {x} /\ Cardinality(Coming) = 1
      BY <1>0, <2>2, FS_Singleton DEF Coming
    <3>2. Cardinality(Behind(cursor)) = 1
      BY <1>1, <1>3, <3>1, SumIsFinite DEF Agree
    <3>3. PICK k : Behind(cursor) = {k}
      BY <3>2, SumIsFinite, FS_Singleton
    <3>4. x.seq \in Behind(cursor)
      BY <1>0, <2>2 DEF Behind
    <3>5. QED
      BY <3>3, <3>4
  <2>3. QED
    BY <1>0, <2>1, <2>2
<1>5. Behind(cursor)' = {}
  <2>1. Behind(cursor)' \subseteq Behind(cursor)
    BY <1>0 DEF Behind
  <2>2. x.seq \notin Behind(cursor)'
    BY <1>0 DEF Behind
  <2>3. QED
    BY <1>4, <2>1, <2>2
<1>6. Unread(cursor)' = 0
  BY <1>3, <1>5 DEF Unread, Behind
<1>7. QED
  BY <1>0, <1>1, <1>2, <1>3, <1>6 DEF Agree

\* The device is told: what was coming is on its way.
LEMMA EmitAgrees ==
  ASSUME TypeOK, SendInv, NEW x \in sending, EmitMessageCreated(x), link = "up", Agree
  PROVE  Agree'
<1> DEFINE e == [kind |-> "message", unread |-> IF rows[x.seq].by = "me" THEN 0 ELSE 1]
<1>0. /\ x.at = "emit" /\ sending' = sending \ {x}
      /\ UNCHANGED <<rows, cursor, list, agreed>>
      /\ net' = Append(net, e)
      /\ rows[x.seq].by \in {"me", "other"}
  <2>1. net' = Append(net, e)
    BY DEF EmitMessageCreated, Deliver
  <2>2. rows[x.seq] \in Message
    BY DEF TypeOK, SendInv
  <2>3. QED
    BY <2>1, <2>2 DEF EmitMessageCreated, device, Message
<1>1. e \in Event /\ e.unread = IF rows[x.seq].by = "other" THEN 1 ELSE 0
  <2>1. 1 <= MaxMessages
    BY InboxBounds DEF SendInv, TypeOK
  <2>2. QED
    BY <1>0, <2>1, InboxBounds DEF Event
<1> HIDE DEF e
<1>2. Cardinality(Told') = Cardinality(Told) + IF rows[x.seq].by = "other" THEN 1 ELSE 0
  BY <1>0, <1>1, ToldOfAppend
<1>3. Coming' = Coming \ {x}
  BY <1>0 DEF Coming
<1>4. x \in Coming <=> rows[x.seq].by = "other"
  BY <1>0 DEF Coming
<1>5. Cardinality(Coming \ {x}) = IF x \in Coming THEN Cardinality(Coming) - 1 ELSE Cardinality(Coming)
  BY SumIsFinite, FS_RemoveElement
<1>6. Unread(cursor)' = Unread(cursor)
  BY <1>0 DEF Unread
<1>7. list \in Nat
  BY DEF Agree
<1>8. Cardinality(Told') + Cardinality(Coming') = Cardinality(Told) + Cardinality(Coming)
      /\ Cardinality(Told') \in Nat /\ Cardinality(Coming') \in Int
  BY <1>2, <1>3, <1>4, <1>5, SumIsFinite
<1>9. /\ Cardinality(Told) \in Nat /\ Cardinality(Coming) \in Nat
      /\ list + Cardinality(Told) + Cardinality(Coming) = Unread(cursor)
  BY SumIsFinite DEF Agree
<1>10. list + Cardinality(Told') + Cardinality(Coming') = Unread(cursor)
  BY <1>7, <1>8, <1>9
<1>11. QED
  BY <1>0, <1>6, <1>10 DEF Agree

\* The list counts on with what the device was told.
LEMMA MessageAgrees ==
  ASSUME TypeOK, SendInv, NetInv, ApplyMessageCreated, list # NotLoaded, Agree, TypeOK', SendInv'
  PROVE  Agree'
<1>0. /\ net # <<>> /\ net' = Tail(net) /\ Head(net).kind = "message"
      /\ list' = list + Head(net).unread /\ agreed' = TRUE
      /\ UNCHANGED <<rows, sending, cursor>>
  BY DEF ApplyMessageCreated, Take, Publish, server
<1>1. Head(net).unread \in {0, 1}
  BY <1>0, TailOfNet DEF NetInv
<1>2. Cardinality(Told) = Cardinality(Told') + Head(net).unread
  BY <1>0, <1>1, ToldOfTail, Zenon
<1>3. Coming' = Coming /\ Unread(cursor)' = Unread(cursor)
  BY <1>0 DEF Coming, Unread
<1>4. list \in Nat
  BY DEF Agree
<1>5. Cardinality(Told') \in Nat
  <2>1. (Cardinality(Told) \in Nat)'
    BY SumIsFinite, PTL
  <2>2. QED
    BY <2>1
<1>6. /\ Cardinality(Told) \in Nat /\ Cardinality(Coming) \in Nat
      /\ list + Cardinality(Told) + Cardinality(Coming) = Unread(cursor)
  BY SumIsFinite DEF Agree
<1>7. list' \in Nat /\ list' + Cardinality(Told') + Cardinality(Coming) = Unread(cursor)
  BY <1>0, <1>1, <1>2, <1>4, <1>5, <1>6
<1>8. QED
  BY <1>0, <1>3, <1>7 DEF Agree

\* A list that takes over a true number agrees when nothing else is on its way.
LEMMA TakingAgrees ==
  ASSUME TypeOK, UNCHANGED server, sending = {}, net' = <<>>,
         list' = Unread(cursor), agreed' = TRUE, Unread(cursor) \in Nat
  PROVE  Agree'
<1>1. Told' = {} /\ Coming' = {}
  BY DEF Told, Coming, server
<1>2. Unread(cursor)' = Unread(cursor)
  BY DEF Unread, server
<1>3. Cardinality({}) = 0
  BY FS_EmptySet
<1>4. QED
  BY <1>1, <1>2, <1>3 DEF Agree

LEMMA EmptyNet ==
  ASSUME NEW q \in Seq(Event), DOMAIN q = {}
  PROVE  q = <<>>
<1>1. Len(q) \in Nat /\ DOMAIN q = 1 .. Len(q)
  OBVIOUS
<1>2. Len(q) = 0
  BY <1>1
<1>3. QED
  BY <1>2

\* The event of a count that nothing crossed is the last that the device was sent.
LEMMA CursorAgrees ==
  ASSUME TypeOK, SendInv, NetInv, CountInv, ApplyReadCursorUpdated, list # NotLoaded,
         MarkRead \notin crossed, \A k \in DOMAIN net' : net'[k].kind # "ready"
  PROVE  Agree'
<1>0. /\ net # <<>> /\ net' = Tail(net) /\ Head(net).kind = "cursor"
      /\ list' = Head(net).unread /\ agreed' = TRUE /\ UNCHANGED server
  BY DEF ApplyReadCursorUpdated, Take, Publish
<1>1. /\ net' \in Seq(Event)
      /\ Head(net) = net[1] /\ 1 \in DOMAIN net
      /\ \A k \in DOMAIN net' : k \in Nat \ {0} /\ k + 1 \in DOMAIN net /\ net'[k] = net[k + 1]
  BY <1>0, TailOfNet
<1>2. MarkRead \in UnderWay
  BY <1>0, <1>1, RequestAssumption DEF NetInv, UnderWay, Counters
<1>3. /\ sending = {}
      /\ \A k \in DOMAIN net : net[k].kind # "ready" =>
            net[k].kind = "cursor" /\ net[k].unread = Unread(cursor)
  BY <1>2 DEF CountInv
<1>4. list' = Unread(cursor)
  BY <1>0, <1>1, <1>3
<1>5. DOMAIN net' = {}
  <2>1. ASSUME NEW k \in DOMAIN net' PROVE FALSE
    <3>1. net[k + 1].kind = "cursor" /\ net[1].kind = "cursor" /\ k + 1 # 1
      BY <1>0, <1>1, <1>3
    <3>2. QED
      BY <1>1, <3>1 DEF NetInv
  <2>2. QED
    BY <2>1
<1>6. QED
  BY <1>0, <1>1, <1>3, <1>4, <1>5, EmptyNet, SumIsFinite, TakingAgrees

\* The answer of a reload that nothing crossed comes when nothing is on its way.
LEMMA LoadAgrees ==
  ASSUME TypeOK, SendInv, CountInv, NEW l \in Loads, ApplyLoad(l), l \notin crossed \cup old,
         \A k \in DOMAIN net' : net'[k].kind # "ready"
  PROVE  Agree'
<1>0. /\ count[l].at = "answer" /\ net' = net /\ UNCHANGED server
      /\ list' = count[l].unread /\ agreed' = TRUE
  BY DEF ApplyLoad
<1>1. l \in UnderWay \ crossed /\ l # MarkRead
  BY <1>0, RequestAssumption DEF UnderWay, Counters
<1>2. sending = {} /\ count[l].unread = Unread(cursor)
  BY <1>0, <1>1 DEF CountInv
<1>3. \A k \in DOMAIN net : net[k].kind = "ready"
  BY <1>1 DEF CountInv
<1>4. DOMAIN net' = {}
  BY <1>0, <1>3
<1>5. net' = <<>>
  BY <1>0, <1>4, EmptyNet DEF TypeOK
<1>6. QED
  BY <1>0, <1>2, <1>5, SumIsFinite, TakingAgrees

LEMMA RightPreserved ==
  ASSUME TypeOK, SendInv, NetInv, ShownInv, CountInv, RightInv, [Next]_vars, TypeOK', SendInv'
  PROVE  RightInv'
<1> SUFFICES ASSUME right', ~Owed' PROVE Agree'
  BY DEF RightInv, Agree
<1>0. /\ link' = "up" /\ UnderWay' = {}
      /\ \A k \in DOMAIN net' : net'[k].kind # "ready"
      /\ right \in BOOLEAN /\ count \in [Counters -> Work]
  BY DEF Owed, TypeOK, Work, Places
\* Nothing starts a count.
<1>1. ASSUME Load PROVE FALSE
  BY <1>0, <1>1, LoadMoves
<1>2. CASE SaveReadCursor
  BY <1>0, <1>2, SaveMoves
\* What was owed is owed still, where the counts and the connection stay.
<1>3. ASSUME right, link' = link, UnderWay' = UnderWay,
             \A k \in DOMAIN net : net[k].kind = "ready" => \E j \in DOMAIN net' : net'[j] = net[k]
      PROVE  Agree
  <2>1. ~Owed
    BY <1>0, <1>3 DEF Owed
  <2>2. QED
    BY <1>3, <2>1 DEF RightInv, Agree
<1>4. ASSUME UNCHANGED <<server, net, list, agreed, link>>, right, UnderWay' = UnderWay PROVE Agree'
  <2>1. Agree
    BY <1>3, <1>4
  <2>2. Told' = Told /\ Coming' = Coming /\ Unread(cursor)' = Unread(cursor)
    BY <1>4 DEF Told, Coming, Unread, server
  <2>3. QED
    BY <1>4, <2>1, <2>2 DEF Agree
<1>5. ASSUME NEW m \in Message, SendMessage(m) PROVE Agree'
  <2>1. UNCHANGED <<link, net, count, right>>
    BY <1>5 DEF SendMessage
  <2>2. Agree
    BY <1>3, <2>1 DEF UnderWay
  <2>3. QED
    BY <1>5, <2>2, SendAgrees
<1>6. ASSUME NEW x \in sending, SendReads(x) PROVE Agree'
  <2>1. right /\ list = 0 /\ sending = {x} /\ net = <<>> /\ cursor <= x.to
    BY <1>6, Zenon DEF SendReads
  <2>2. UNCHANGED <<link, net, count>>
    BY <1>6 DEF SendReads
  <2>3. Agree
    BY <1>3, <2>1, <2>2 DEF UnderWay
  <2>4. QED
    BY <1>6, <2>1, <2>3, SendReadsAgrees
<1>7. ASSUME NEW x \in sending, EmitMessageCreated(x) PROVE Agree'
  <2> DEFINE e == [kind |-> "message", unread |-> IF rows[x.seq].by = "me" THEN 0 ELSE 1]
  <2>1. UNCHANGED <<link, count, right>> /\ net' = Append(net, e)
    BY <1>0, <1>7 DEF EmitMessageCreated, Deliver
  <2>2. e \in Event
    <3>1. 1 <= MaxMessages
      BY InboxBounds DEF SendInv, TypeOK
    <3>2. QED
      BY <3>1, InboxBounds DEF Event
  <2> HIDE DEF e
  <2>3. \A k \in DOMAIN net : k \in DOMAIN net' /\ net'[k] = net[k]
    BY <2>1, <2>2, AppendToNet
  <2>4. Agree
    BY <1>3, <2>1, <2>3 DEF UnderWay
  <2>5. QED
    BY <1>0, <1>7, <2>1, <2>4, EmitAgrees
<1>8. ASSUME NEW x \in sending, FailSend(x) PROVE FALSE
  BY <1>8 DEF FailSend
<1>9. ASSUME NEW x \in sending, SendFinds(x) PROVE Agree'
  <2>1. UNCHANGED <<link, net, count, right>>
    BY <1>9 DEF SendFinds
  <2>2. Agree
    BY <1>3, <2>1 DEF UnderWay
  <2>3. QED
    BY <1>9, <2>2, FindsAgrees
<1>10. ASSUME NEW k \in DOMAIN rows, NEW tells \in BOOLEAN, SendAgain(k, tells) PROVE FALSE
  BY <1>10 DEF SendAgain
<1>11. ASSUME NEW n \in 1 .. MaxMessages, UpdateReadCursor(n) PROVE Agree'
  <2>1. UNCHANGED <<server, net, list, agreed, link, right>>
    BY <1>11 DEF UpdateReadCursor, device
  <2>2. QED
    BY <1>4, <1>11, <2>1, FindOwnMoves
<1>12. ASSUME NEW s \in Counters, FindCursor(s) \/ CountRows(s) PROVE Agree'
  <2>1. UNCHANGED <<server, net, list, agreed, link, right>>
    BY <1>12 DEF FindCursor, CountRows, device
  <2>2. QED
    BY <1>4, <1>12, <2>1, FindMoves
<1>13. ASSUME NEW s \in Counters, FailCount(s) PROVE FALSE
  BY <1>13 DEF FailCount
\* The event of a count is on its way to a device that is connected.
<1>14. CASE EmitReadCursorUpdated
  <2> DEFINE e == [kind |-> "cursor", unread |-> count[MarkRead].unread]
  <2>1. MarkRead \in Counters /\ MarkRead # Sync
    BY RequestAssumption DEF Counters
  <2>2. e \in Event
    BY <1>0, <2>1 DEF Event, Work
  <2>3. net' = Append(net, e)
    BY <1>0, <1>14 DEF EmitReadCursorUpdated, Deliver
  <2> HIDE DEF e
  <2>4. net' # net
    BY <2>2, <2>3, AppendToNet
  <2>5. count' = [count EXCEPT ![MarkRead] = [Idle EXCEPT !.at = "net"]]
    BY <1>14, <2>4 DEF EmitReadCursorUpdated
  <2>6. MarkRead \in UnderWay'
    BY <1>0, <2>1, <2>5 DEF UnderWay, Idle
  <2>7. QED
    BY <1>0, <2>6
<1>15. CASE Connect \/ JoinRooms \/ Drop
  BY <1>0, <1>15 DEF Connect, JoinRooms, Drop
<1>16. CASE EmitReady
  <2> DEFINE e == [kind |-> "ready", unread |-> 0]
  <2>1. e \in Event /\ net' = Append(net, e) /\ e.kind = "ready"
    BY <1>16, InboxBounds DEF EmitReady, Event
  <2> HIDE DEF e
  <2>2. Len(net) + 1 \in DOMAIN net' /\ net'[Len(net) + 1] = e
    BY <2>1, AppendToNet
  <2>3. QED
    BY <1>0, <2>1, <2>2
<1>17. CASE Reload \/ HandleReady \/ Close
  BY <1>1, <1>17 DEF Reload, HandleReady, Close
<1>18. CASE ApplyMessageCreated
  <2>1. list # NotLoaded
    BY <1>1, <1>18 DEF ApplyMessageCreated
  <2>2. UNCHANGED <<link, count, right>> /\ net # <<>> /\ net' = Tail(net)
        /\ Head(net).kind = "message"
    BY <1>18, <2>1 DEF ApplyMessageCreated, Take
  <2>3. \A k \in DOMAIN net : net[k].kind = "ready" => \E j \in DOMAIN net' : net'[j] = net[k]
    <3>1. SUFFICES ASSUME NEW k \in DOMAIN net, net[k].kind = "ready"
                   PROVE  k - 1 \in DOMAIN net' /\ net'[k - 1] = net[k]
      OBVIOUS
    <3>2. k # 1 /\ k \in Nat \ {0}
      BY <2>2, <3>1, TailOfNet DEF TypeOK
    <3>3. QED
      BY <2>2, <3>2, TailOfNet
  <2>4. Agree
    BY <1>3, <2>2, <2>3 DEF UnderWay
  <2>5. QED
    BY <1>18, <2>1, <2>4, MessageAgrees
<1>19. CASE ApplyReadCursorUpdated
  <2>1. CASE list = NotLoaded
    BY <1>19, <2>1 DEF ApplyReadCursorUpdated, ShownInv
  <2>2. CASE list # NotLoaded
    <3>1. right' = (MarkRead \notin crossed)
      BY <1>19, <2>2 DEF ApplyReadCursorUpdated
    <3>2. MarkRead \notin crossed
      BY <3>1, Zenon
    <3>3. QED
      BY <1>0, <1>19, <2>2, <3>2, CursorAgrees
  <2>3. QED
    BY <2>1, <2>2
\* A list that is gone is not right.
<1>20. CASE Ignore
  BY <1>20 DEF Ignore, ShownInv
<1>21. ASSUME NEW l \in Loads, ApplyLoad(l) PROVE Agree'
  <2>1. l \notin crossed \cup old
    BY <1>21, Zenon DEF ApplyLoad
  <2>2. QED
    BY <1>0, <1>21, <2>1, LoadAgrees
<1>22. ASSUME HandlePush \/ ApplySync PROVE FALSE
  BY <1>22 DEF HandlePush, ApplySync
<1>23. CASE Open
  BY <1>23 DEF Open
<1>24. CASE UNCHANGED vars
  BY <1>4, <1>24 DEF vars, device, UnderWay
<1>25. QED
  BY <1>2, <1>5, <1>6, <1>7, <1>8, <1>12, <1>13, <1>14, <1>15, <1>16, <1>17, <1>18, <1>19,
     <1>20, <1>21, <1>22, <1>23, <1>24, <1>9, <1>10, <1>11 DEF Next

LEMMA InboxStepInductive == InboxInv /\ [Next]_vars => InboxInv'
<1> SUFFICES ASSUME InboxInv, [Next]_vars PROVE InboxInv'
  OBVIOUS
<1> USE DEF InboxInv
<1>1. TypeOK' /\ SendInv' /\ NetInv'
  BY InboxTypePreserved, SendPreserved, NetPreserved
<1>2. ShownInv' /\ CountInv' /\ RightInv'
  BY <1>1, ShownPreserved, CountPreserved, RightPreserved
<1>3. QED
  BY <1>1, <1>2

LEMMA InboxAlways == Spec => []InboxInv
<1>1. Init => InboxInv
  BY InboxInitInductive
<1>2. InboxInv /\ [Next]_vars => InboxInv'
  BY InboxStepInductive
<1>3. QED
  BY <1>1, <1>2, PTL DEF Spec

-----------------------------------------------------------------------------
(* Presence: the inductive invariant.                                         *)
-----------------------------------------------------------------------------

\* The conjuncts of TypeOK the steps need one by one.
ConnPlaces == {"idle", "hset", "sadd", "start", "done"} \cup P!ReadSteps
DiscPlaces == {"idle", "hgetall", "del", "delOnly", "srem", "scard", "delSet", "done"} \cup P!ReadSteps

HandlerTypes ==
    /\ socket \in [Sockets -> {"new", "up", "gone"}]
    /\ conn \in [Sockets -> ConnPlaces]
    /\ disc \in [Sockets -> DiscPlaces]
    /\ got \in [P!Broadcasts -> SUBSET Sockets]
    /\ saw \in [P!Broadcasts -> BOOLEAN]

StoreTypes ==
    /\ touch \subseteq Sockets
    /\ beat \subseteq Sockets
    /\ hash \in [Sockets -> {"none", "partial", "full"}]
    /\ members \subseteq Sockets

HistoryTypes ==
    /\ faults \in 0 .. MaxFaults
    /\ hasty \subseteq Sockets
    /\ starved \subseteq Sockets
    /\ wiped \subseteq Sockets
    /\ missed \subseteq Sockets

Flags == announced \in BOOLEAN /\ told \in BOOLEAN /\ overtaken \subseteq P!Broadcasts

\* Only a broadcast that is under way holds socket ids.
ReadersHold == \A r \in P!Broadcasts : got[r] # {} => P!At(r) \in P!ReadSteps

\* A connection has a handler from when it is accepted on; only one that has ended
\* is unregistered.
LinkInv ==
    \A s \in Sockets :
       /\ socket[s] = "new" => conn[s] = "idle"
       /\ socket[s] = "up" => conn[s] # "idle"
       /\ disc[s] # "idle" => socket[s] = "gone"

\* Before registerConnection writes it, a socket has no key and nobody refreshes
\* it.
UnwrittenInv ==
    \A s \in Sockets : conn[s] \in {"idle", "hset"} => hash[s] = "none" /\ s \notin touch

\* A partial key never becomes a full one: it is met after registerConnection.
PartialInv ==
    \A s \in Sockets :
       disc[s] = "delOnly" => conn[s] \notin {"idle", "hset"} /\ hash[s] # "full"

\* Nobody reads a socket in the user set before registerConnection has put it there.
AddedInv ==
    \A s \in Sockets :
       conn[s] \in {"idle", "hset", "sadd"} =>
          s \notin members /\ \A r \in P!Broadcasts : s \notin got[r]

\* A connected socket has the key it has written unless it is starved or a command
\* failed,
KeyInv ==
    \A s \in Sockets :
       socket[s] = "up" /\ conn[s] \notin {"idle", "hset"} =>
          hash[s] = "full" \/ s \in starved \cup missed

\* and its place in the user set unless that is taken from it,
MemberInv ==
    \A s \in Sockets :
       socket[s] = "up" /\ conn[s] \notin {"idle", "hset", "sadd"} =>
          s \in members \cup starved \cup wiped \cup missed

\* for what a reader removes as stale is gone, starved, or missed by a command.
StaleInv ==
    \A r \in P!Broadcasts :
       P!At(r) = "stale" => \A s \in got[r] : socket[s] = "gone" \/ s \in starved \cup missed

\* While nothing fails, a socket that has gone after it was registered has a key no
\* longer than its handleDisconnect needs.
GhostInv ==
    faults = 0 =>
       /\ starved \cup missed = {}
       /\ \A s \in Sockets \ hasty : socket[s] = "gone" =>
             /\ conn[s] \notin {"hset", "sadd", "start"}
             /\ hash[s] = "full" => disc[s] \in {"hgetall", "del"}

\* The handlers that may change what Redis knows, and have yet to tell the rooms.
Owing == {"hset", "sadd", "start", "del", "srem", "scard", "delSet"} \cup P!ReadSteps
Owes(r) == P!At(r) \in Owing
Other(r) == \E q \in P!Broadcasts \ {r} : Owes(q)

\* What a broadcast has read is what Redis knows.
Right(r) ==
    /\ P!At(r) = "payloads" => P!Active = got[r] \ P!Stale(got[r])
    /\ P!At(r) = "stale" => saw[r] = (P!Active \ got[r] # {})
    /\ P!At(r) = "emit" => saw[r] = P!Online

\* If the rooms were told something else somebody owes them an update, and so does
\* somebody else if a broadcast that none has overtaken has read something else.
ToldInv == told => announced = P!Online \/ \E r \in P!Broadcasts : Owes(r)
ReadInv == \A r \in P!Reading \ overtaken : Right(r) \/ Other(r)

PresenceInv ==
    /\ P!TypeOK
    /\ LinkInv /\ UnwrittenInv /\ PartialInv /\ AddedInv
    /\ KeyInv /\ MemberInv /\ StaleInv /\ GhostInv
    /\ ToldInv /\ ReadInv

LEMMA TypesSplit == P!TypeOK <=> HandlerTypes /\ StoreTypes /\ HistoryTypes /\ Flags /\ ReadersHold
<1> USE DEF HandlerTypes, StoreTypes, HistoryTypes, ReadersHold, ConnPlaces, DiscPlaces, Flags
<1>1. P!TypeOK => HandlerTypes /\ StoreTypes /\ HistoryTypes /\ Flags /\ ReadersHold
  BY DEF P!TypeOK
<1>2. HandlerTypes /\ StoreTypes /\ HistoryTypes /\ Flags /\ ReadersHold => P!TypeOK
  BY DEF P!TypeOK
<1>3. QED
  BY <1>1, <1>2

\* A broadcast belongs to one of the two handlers of a socket.
LEMMA OfHandler ==
  ASSUME NEW r \in P!Broadcasts
  PROVE  /\ r[2] \in Sockets
         /\ r[1] \in {"conn", "disc"}
         /\ r = <<r[1], r[2]>>
BY DEF P!Broadcasts

LEMMA PresenceInitInductive == P!Init => PresenceInv
<1> SUFFICES ASSUME P!Init PROVE PresenceInv
  OBVIOUS
<1>1. HandlerTypes /\ StoreTypes
  BY ResidentAssumption DEF P!Init, HandlerTypes, StoreTypes, ConnPlaces, DiscPlaces
<1>2. HistoryTypes /\ Flags
  BY FaultAssumption DEF P!Init, HistoryTypes, Flags
<1>3. ReadersHold /\ StaleInv
  BY DEF P!Init, ReadersHold, StaleInv
<1>4. LinkInv /\ UnwrittenInv /\ PartialInv
  BY ResidentAssumption DEF P!Init, LinkInv, UnwrittenInv, PartialInv
<1>5. AddedInv /\ KeyInv /\ MemberInv
  BY ResidentAssumption DEF P!Init, AddedInv, KeyInv, MemberInv
<1>6. ToldInv /\ ReadInv
  <2>1. P!Active = Residents
    BY ResidentAssumption DEF P!Init, P!Active, P!Stale
  <2>2. P!Reading = {}
    BY OfHandler DEF P!Init, P!Reading, P!At
  <2>3. QED
    BY <2>1, <2>2 DEF P!Init, ToldInv, ReadInv, P!Online
<1>7. GhostInv
  BY DEF P!Init, GhostInv
<1>8. QED
  BY <1>1, <1>2, <1>3, <1>4, <1>5, <1>6, <1>7, TypesSplit DEF PresenceInv

-----------------------------------------------------------------------------
(* What a step does to the handlers.                                          *)

\* A broadcast moves one handler, among its reading places.
LEMMA GoMoves ==
  ASSUME HandlerTypes, NEW r \in P!Broadcasts, NEW l \in P!ReadSteps \cup {"done"},
         P!At(r) \in P!ReadSteps, P!Go(r, l)
  PROVE  /\ conn' \in [Sockets -> ConnPlaces]
         /\ disc' \in [Sockets -> DiscPlaces]
         /\ P!At(r)' = l
         /\ \A q \in P!Broadcasts : q # r => P!At(q)' = P!At(q)
         /\ \A s \in Sockets :
               /\ conn'[s] # conn[s] => {conn[s], conn'[s]} \subseteq P!ReadSteps \cup {"done"}
               /\ disc'[s] # disc[s] => {disc[s], disc'[s]} \subseteq P!ReadSteps \cup {"done"}
<1>1. CASE r[1] = "conn"
  <2>1. conn' = [conn EXCEPT ![r[2]] = l] /\ disc' = disc /\ conn[r[2]] \in P!ReadSteps
    BY <1>1 DEF P!Go, P!At
  <2>2. \A q \in P!Broadcasts : q # r => P!At(q)' = P!At(q)
    BY <1>1, <2>1, OfHandler DEF P!At, HandlerTypes
  <2>3. QED
    BY <1>1, <2>1, <2>2, OfHandler DEF P!At, HandlerTypes, ConnPlaces
<1>2. CASE r[1] = "disc"
  <2>1. disc' = [disc EXCEPT ![r[2]] = l] /\ conn' = conn /\ disc[r[2]] \in P!ReadSteps
    BY <1>2 DEF P!Go, P!At
  <2>2. \A q \in P!Broadcasts : q # r => P!At(q)' = P!At(q)
    BY <1>2, <2>1, OfHandler DEF P!At, HandlerTypes
  <2>3. QED
    BY <1>2, <2>1, <2>2, OfHandler DEF P!At, HandlerTypes, DiscPlaces
<1>3. QED
  BY <1>1, <1>2, OfHandler

\* unregisterConnection goes by the key it finds.
LEMMA LookUpMoves ==
  ASSUME StoreTypes, NEW s \in Sockets, P!LookUp(s)
  PROVE  \/ hash[s] = "full" /\ P!DiscAt(s, "hgetall", "del")
         \/ hash[s] = "partial" /\ P!DiscAt(s, "hgetall", "delOnly")
         \/ hash[s] = "none" /\ P!DiscAt(s, "hgetall", "done")
<1>1. hash[s] \in {"none", "partial", "full"}
  BY DEF StoreTypes
<1>2. CASE hash[s] = "full"
  BY <1>2 DEF P!LookUp, P!DiscAt
<1>3. CASE hash[s] = "partial"
  BY <1>3 DEF P!LookUp, P!DiscAt
<1>4. CASE hash[s] = "none"
  BY <1>4 DEF P!LookUp, P!DiscAt
<1>5. QED
  BY <1>1, <1>2, <1>3, <1>4

\* Whatever holds of the place of every broadcast holds of both handlers.
LEMMA AtPlaces ==
  \A s \in Sockets :
     /\ <<"conn", s>> \in P!Broadcasts /\ P!At(<<"conn", s>>) = conn[s]
     /\ <<"disc", s>> \in P!Broadcasts /\ P!At(<<"disc", s>>) = disc[s]
BY DEF P!Broadcasts, P!At

-----------------------------------------------------------------------------
(* Every step preserves the types.                                            *)

LEMMA HandlerTypesPreserved ==
  ASSUME HandlerTypes, StoreTypes, [P!Next]_P!vars
  PROVE  HandlerTypes'
<1> USE DEF HandlerTypes
<1>1. ASSUME NEW s \in Sockets, P!Connect(s) \/ P!RegisterKey(s) \/ P!RegisterMember(s) \/ P!StartHeartbeat(s)
      PROVE  HandlerTypes'
  BY <1>1 DEF P!Connect, P!RegisterKey, P!RegisterMember, P!StartHeartbeat, P!ConnAt, ConnPlaces, P!ReadSteps
<1>2. ASSUME NEW s \in Sockets, P!FailCommand(s) PROVE HandlerTypes'
  BY <1>2 DEF P!FailCommand, P!ConnAt, P!DiscAt, ConnPlaces, DiscPlaces
<1>3. ASSUME NEW out \in SUBSET members, P!ReadElsewhere(out) PROVE HandlerTypes'
  BY <1>3 DEF P!ReadElsewhere, P!handlers
<1>4. ASSUME NEW s \in Sockets, P!LookUp(s) PROVE HandlerTypes'
  BY <1>4, LookUpMoves DEF P!LookUp, P!DiscAt, DiscPlaces
<1>5. ASSUME NEW s \in Sockets,
             P!Disconnect(s) \/ P!DeleteKey(s) \/ P!RemoveMember(s) \/ P!Count(s) \/ P!DeleteSet(s)
      PROVE  HandlerTypes'
  BY <1>5 DEF P!Disconnect, P!DeleteKey, P!RemoveMember, P!Count, P!DeleteSet, P!DiscAt, DiscPlaces, P!ReadSteps
<1>6. ASSUME NEW s \in Sockets, P!FailConnection(s) \/ P!FailDisconnection(s) \/ P!Crash(s)
      PROVE  HandlerTypes'
  <2>1. \A Q : P!Drop(Q) => got' \in [P!Broadcasts -> SUBSET Sockets] /\ saw' \in [P!Broadcasts -> BOOLEAN]
    BY DEF P!Drop
  <2>2. QED
    BY <1>6, <2>1 DEF P!FailConnection, P!FailDisconnection, P!Crash, ConnPlaces, DiscPlaces
<1>7. ASSUME NEW s \in Sockets, P!Refresh(s) \/ P!Touch(s) \/ P!Expire(s) \/ P!Starve(s)
      PROVE  HandlerTypes'
  BY <1>7 DEF P!Refresh, P!Touch, P!Expire, P!Starve, P!Lapse, P!handlers
<1>8. ASSUME NEW r \in P!Broadcasts, P!Read(r) PROVE HandlerTypes'
  <2>1. conn' \in [Sockets -> ConnPlaces] /\ disc' \in [Sockets -> DiscPlaces]
    BY <1>8, GoMoves DEF P!Read, P!ReadMembers, P!FetchPayloads, P!FailPayloads, P!Found, P!RemoveStale, P!Emit,
       P!ReadSteps
  <2>2. got' \in [P!Broadcasts -> SUBSET Sockets]
    <3>1. \A S : S \subseteq Sockets => P!Stale(S) \subseteq Sockets
      BY DEF P!Stale
    <3>2. got[r] \subseteq Sockets
      OBVIOUS
    <3>3. CASE P!FetchPayloads(r)
      BY <3>1, <3>2, <3>3 DEF P!FetchPayloads, P!Found
    <3>4. CASE P!FailPayloads(r)
      BY <3>1, <3>2, <3>4 DEF P!FailPayloads, P!Found
    <3>5. CASE P!ReadMembers(r) \/ P!RemoveStale(r) \/ P!Emit(r)
      BY <3>5 DEF P!ReadMembers, P!RemoveStale, P!Emit, P!Drop, StoreTypes
    <3>6. QED
      BY <1>8, <3>3, <3>4, <3>5 DEF P!Read
  <2>3. saw' \in [P!Broadcasts -> BOOLEAN]
    BY <1>8 DEF P!Read, P!ReadMembers, P!FetchPayloads, P!FailPayloads, P!Found, P!RemoveStale, P!Emit, P!Drop
  <2>4. socket' = socket
    BY <1>8 DEF P!Read, P!ReadMembers, P!FetchPayloads, P!FailPayloads, P!Found, P!RemoveStale, P!Emit
  <2>5. QED
    BY <2>1, <2>2, <2>3, <2>4
<1>9. CASE UNCHANGED P!vars
  BY <1>9 DEF P!vars, P!handlers
<1>10. QED
  BY <1>1, <1>4, <1>5, <1>6, <1>7, <1>8, <1>9, <1>2, <1>3 DEF P!Next, P!Run

LEMMA StoreTypesPreserved ==
  ASSUME HandlerTypes, StoreTypes, [P!Next]_P!vars
  PROVE  StoreTypes'
<1> USE DEF StoreTypes
<1>1. ASSUME NEW s \in Sockets, P!Connect(s) \/ P!RegisterKey(s) \/ P!RegisterMember(s) \/ P!StartHeartbeat(s)
      PROVE  StoreTypes'
  BY <1>1 DEF P!Connect, P!RegisterKey, P!RegisterMember, P!StartHeartbeat, P!redis
<1>2. ASSUME NEW s \in Sockets,
             P!Disconnect(s) \/ P!LookUp(s) \/ P!DeleteKey(s) \/ P!RemoveMember(s) \/ P!Count(s) \/ P!DeleteSet(s)
      PROVE  StoreTypes'
  BY <1>2 DEF P!Disconnect, P!LookUp, P!DeleteKey, P!RemoveMember, P!Count, P!DeleteSet, P!redis
<1>3. ASSUME NEW s \in Sockets,
             P!FailCommand(s) \/ P!FailConnection(s) \/ P!FailDisconnection(s) \/ P!Crash(s)
      PROVE  StoreTypes'
  BY <1>3 DEF P!FailCommand, P!FailConnection, P!FailDisconnection, P!Crash, P!redis
<1>4. ASSUME NEW out \in SUBSET members, P!ReadElsewhere(out) PROVE StoreTypes'
  BY <1>4 DEF P!ReadElsewhere
<1>5. ASSUME NEW s \in Sockets, P!Refresh(s) \/ P!Touch(s)
      PROVE  StoreTypes'
  BY <1>5 DEF P!Refresh, P!Touch, P!redis
<1>6. ASSUME NEW s \in Sockets, P!Expire(s) \/ P!Starve(s)
      PROVE  StoreTypes'
  BY <1>6 DEF P!Expire, P!Starve, P!Lapse, P!redis
<1>7. ASSUME NEW r \in P!Broadcasts, P!Read(r) PROVE StoreTypes'
  BY <1>7 DEF P!Read, P!ReadMembers, P!FetchPayloads, P!FailPayloads, P!Found, P!RemoveStale, P!Emit, HandlerTypes,
     P!redis
<1>8. CASE UNCHANGED P!vars
  BY <1>8 DEF P!vars, P!redis
<1>9. QED
  BY <1>1, <1>2, <1>3, <1>5, <1>6, <1>7, <1>8, <1>4 DEF P!Next, P!Run

LEMMA HistoryTypesPreserved ==
  ASSUME HandlerTypes, StoreTypes, HistoryTypes, [P!Next]_P!vars
  PROVE  HistoryTypes'
<1> USE FaultAssumption DEF HistoryTypes
<1>1. P!Fault => faults' \in 0 .. MaxFaults
  BY DEF P!Fault
<1>2. ASSUME NEW s \in Sockets, P!Connect(s) \/ P!RegisterKey(s) \/ P!RegisterMember(s) \/ P!StartHeartbeat(s)
      PROVE  HistoryTypes'
  BY <1>2 DEF P!Connect, P!RegisterKey, P!RegisterMember, P!StartHeartbeat, P!history
<1>3. ASSUME NEW s \in Sockets, P!LookUp(s) \/ P!DeleteKey(s) \/ P!RemoveMember(s) \/ P!Count(s)
      PROVE  HistoryTypes'
  BY <1>3 DEF P!LookUp, P!DeleteKey, P!RemoveMember, P!Count, P!history
<1>4. ASSUME NEW s \in Sockets, P!Disconnect(s) PROVE HistoryTypes'
  BY <1>4 DEF P!Disconnect
<1>5. ASSUME NEW s \in Sockets, P!DeleteSet(s) PROVE HistoryTypes'
  BY <1>5 DEF P!DeleteSet, StoreTypes
<1>6. ASSUME NEW s \in Sockets,
             P!FailCommand(s) \/ P!FailConnection(s) \/ P!FailDisconnection(s) \/ P!Crash(s)
      PROVE  HistoryTypes'
  BY <1>1, <1>6 DEF P!FailCommand, P!FailConnection, P!FailDisconnection, P!Crash
<1>7. ASSUME NEW out \in SUBSET members, P!ReadElsewhere(out) PROVE HistoryTypes'
  BY <1>1, <1>7 DEF P!ReadElsewhere, P!history, StoreTypes
<1>8. ASSUME NEW s \in Sockets, P!Refresh(s) \/ P!Touch(s)
      PROVE  HistoryTypes'
  BY <1>8 DEF P!Refresh, P!Touch, P!history
<1>9. ASSUME NEW s \in Sockets, P!Expire(s) \/ P!Starve(s)
      PROVE  HistoryTypes'
  BY <1>1, <1>9 DEF P!Expire, P!Starve, P!Lapse
<1>10. ASSUME NEW r \in P!Broadcasts, P!Read(r) PROVE HistoryTypes'
  <2>1. CASE P!FailPayloads(r)
    BY <1>1, <2>1 DEF P!FailPayloads, HandlerTypes
  <2>2. CASE ~ P!FailPayloads(r)
    BY <1>10, <2>2 DEF P!Read, P!ReadMembers, P!FetchPayloads, P!RemoveStale, P!Emit, P!history
  <2>3. QED
    BY <2>1, <2>2
<1>11. CASE UNCHANGED P!vars
  BY <1>11 DEF P!vars, P!history
<1>12. QED
  BY <1>2, <1>3, <1>4, <1>5, <1>6, <1>8, <1>9, <1>10, <1>11, <1>7 DEF P!Next, P!Run

LEMMA FlagsPreserved ==
  ASSUME HandlerTypes, Flags, [P!Next]_P!vars
  PROVE  Flags'
<1>1. ASSUME NEW r \in P!Broadcasts, P!Emit(r) PROVE Flags'
  <2>1. told' \in BOOLEAN
    BY <1>1, Zenon DEF P!Emit
  <2>2. announced' \in BOOLEAN
    BY <1>1 DEF P!Emit, HandlerTypes
  <2>3. overtaken' \subseteq P!Broadcasts
    BY <1>1 DEF P!Emit, P!Reading
  <2>4. QED
    BY <2>1, <2>2, <2>3, Zenon DEF Flags
<1>2. ASSUME NEW ends, P!Spoil(ends), announced' = announced PROVE Flags'
  BY <1>2 DEF P!Spoil, P!Reading, Flags
<1>3. ASSUME UNCHANGED <<announced, told, overtaken>> PROVE Flags'
  BY <1>3 DEF Flags
<1>4. ASSUME NEW s \in Sockets, P!FailConnection(s) \/ P!FailDisconnection(s) \/ P!Crash(s) PROVE Flags'
  <2>1. announced' = announced /\ \E ends : P!Spoil(ends)
    BY <1>4, Zenon DEF P!FailConnection, P!FailDisconnection, P!Crash
  <2>2. QED
    BY <1>2, <2>1
<1>5. ASSUME NEW s \in Sockets, P!Expire(s) \/ P!Starve(s) PROVE Flags'
  <2>1. announced' = announced /\ (P!Spoil({}) \/ UNCHANGED <<told, overtaken>>)
    BY <1>5, Zenon DEF P!Expire, P!Starve, P!Lapse
  <2>2. QED
    BY <1>2, <1>3, <2>1
<1>6. ASSUME NEW out \in SUBSET members, P!ReadElsewhere(out) PROVE Flags'
  <2>1. announced' = announced /\ (P!Spoil({}) \/ UNCHANGED <<told, overtaken>>)
    BY <1>6, Zenon DEF P!ReadElsewhere, P!history
  <2>2. QED
    BY <1>2, <1>3, <2>1
<1>7. ASSUME NEW s \in Sockets,
             \/ P!Connect(s) \/ P!Disconnect(s) \/ P!Run(s) \/ P!FailCommand(s)
             \/ P!Refresh(s) \/ P!Touch(s)
      PROVE  UNCHANGED <<announced, told, overtaken>>
  BY <1>7, Zenon DEF P!Connect, P!Disconnect, P!Run, P!RegisterKey, P!RegisterMember, P!StartHeartbeat, P!LookUp,
     P!DeleteKey, P!RemoveMember, P!Count, P!DeleteSet, P!FailCommand, P!Refresh, P!Touch, P!history
<1>8. ASSUME NEW r \in P!Broadcasts,
             P!ReadMembers(r) \/ P!FetchPayloads(r) \/ P!FailPayloads(r) \/ P!RemoveStale(r)
      PROVE  UNCHANGED <<announced, told, overtaken>>
  BY <1>8, Zenon DEF P!ReadMembers, P!FetchPayloads, P!FailPayloads, P!Found, P!RemoveStale, P!history
<1>9. CASE UNCHANGED P!vars
  BY <1>3, <1>9 DEF P!vars, P!history
<1>10. QED
  BY <1>1, <1>3, <1>4, <1>5, <1>6, <1>7, <1>8, <1>9 DEF P!Next, P!Read

-----------------------------------------------------------------------------
(* What steps leave alone.                                                    *)

\* A step of a socket neither moves a broadcast that holds ids nor gives it any.
LEMMA ReadersKept ==
  ASSUME HandlerTypes, StoreTypes, ReadersHold, LinkInv, NEW s \in Sockets,
         \/ P!Connect(s) \/ P!Disconnect(s) \/ P!Run(s)
         \/ P!FailCommand(s) \/ P!FailConnection(s) \/ P!FailDisconnection(s)
         \/ P!Refresh(s) \/ P!Touch(s) \/ P!Expire(s) \/ P!Starve(s) \/ P!Crash(s)
  PROVE  \A r \in P!Broadcasts : got'[r] # {} => P!At(r)' = P!At(r) /\ got'[r] \subseteq got[r]
<1> DEFINE Kept(r) == got'[r] # {} => P!At(r)' = P!At(r) /\ got'[r] \subseteq got[r]
<1>1. ASSUME NEW r \in P!Broadcasts,
             P!Connect(s) \/ P!RegisterKey(s) \/ P!RegisterMember(s) \/ P!StartHeartbeat(s)
      PROVE  Kept(r)
  <2>1. got' = got /\ disc' = disc /\ conn[s] \notin P!ReadSteps
    BY <1>1 DEF P!Connect, P!RegisterKey, P!RegisterMember, P!StartHeartbeat, P!ConnAt, P!ReadSteps
  <2>2. \A t \in Sockets : t # s => conn'[t] = conn[t]
    BY <1>1 DEF P!Connect, P!RegisterKey, P!RegisterMember, P!StartHeartbeat, P!ConnAt, HandlerTypes
  <2>3. QED
    BY <2>1, <2>2, OfHandler DEF ReadersHold, P!At
<1>2. ASSUME NEW r \in P!Broadcasts,
             \/ P!Disconnect(s) \/ P!LookUp(s) \/ P!DeleteKey(s)
             \/ P!RemoveMember(s) \/ P!Count(s) \/ P!DeleteSet(s)
      PROVE  Kept(r)
  <2>1. got' = got /\ conn' = conn /\ disc[s] \notin P!ReadSteps
    BY <1>2 DEF P!Disconnect, P!LookUp, P!DeleteKey, P!RemoveMember, P!Count, P!DeleteSet, P!DiscAt, P!ReadSteps
  <2>2. \A t \in Sockets : t # s => disc'[t] = disc[t]
    BY <1>2 DEF P!Disconnect, P!LookUp, P!DeleteKey, P!RemoveMember, P!Count, P!DeleteSet, P!DiscAt, HandlerTypes
  <2>3. QED
    BY <2>1, <2>2, OfHandler DEF ReadersHold, P!At
<1>3. ASSUME NEW r \in P!Broadcasts, P!FailConnection(s) PROVE Kept(r)
  <2>1. CASE r = <<"conn", s>>
    BY <1>3, <2>1 DEF P!FailConnection, P!Drop
  <2>2. CASE r = <<"disc", s>>
    <3>1. got'[r] = got[r] /\ P!At(r) = disc[s] /\ P!At(r)' = disc'[s]
      BY <1>3, <2>2 DEF P!FailConnection, P!Drop, P!At
    <3>2. disc'[s] = disc[s] \/ disc[s] = "idle"
      BY <1>3 DEF P!FailConnection, LinkInv, HandlerTypes
    <3>3. QED
      BY <3>1, <3>2 DEF ReadersHold, P!ReadSteps
  <2>3. CASE r[2] # s
    BY <1>3, <2>3, OfHandler DEF P!FailConnection, P!Drop, P!At, HandlerTypes
  <2>4. QED
    BY <2>1, <2>2, <2>3, OfHandler
<1>4. ASSUME NEW r \in P!Broadcasts, P!FailDisconnection(s) PROVE Kept(r)
  <2>1. CASE r = <<"disc", s>>
    BY <1>4, <2>1 DEF P!FailDisconnection, P!Drop
  <2>2. CASE r # <<"disc", s>>
    BY <1>4, <2>2, OfHandler DEF P!FailDisconnection, P!Drop, P!At, HandlerTypes
  <2>3. QED
    BY <2>1, <2>2
<1>5. ASSUME NEW r \in P!Broadcasts, P!Crash(s) PROVE Kept(r)
  <2>1. CASE r[2] = s
    BY <1>5, <2>1, OfHandler DEF P!Crash, P!Drop
  <2>2. CASE r[2] # s
    BY <1>5, <2>2, OfHandler DEF P!Crash, P!Drop, P!At, HandlerTypes
  <2>3. QED
    BY <2>1, <2>2
<1>6. ASSUME NEW r \in P!Broadcasts, P!FailCommand(s) PROVE Kept(r)
  <2>1. got' = got /\ (disc' = disc \/ disc[s] \notin P!ReadSteps) /\ (conn' = conn \/ conn[s] \notin P!ReadSteps)
    BY <1>6 DEF P!FailCommand, P!ConnAt, P!DiscAt, P!ReadSteps
  <2>2. \A t \in Sockets : t # s => conn'[t] = conn[t] /\ disc'[t] = disc[t]
    BY <1>6 DEF P!FailCommand, P!ConnAt, P!DiscAt, HandlerTypes
  <2>3. QED
    BY <2>1, <2>2, OfHandler DEF ReadersHold, P!At
<1>7. ASSUME NEW r \in P!Broadcasts, P!Refresh(s) \/ P!Touch(s) \/ P!Expire(s) \/ P!Starve(s) PROVE Kept(r)
  <2>1. UNCHANGED <<conn, disc, got>>
    BY <1>7 DEF P!Refresh, P!Touch, P!Expire, P!Starve, P!Lapse, P!handlers
  <2>2. QED
    BY <2>1 DEF P!At
<1>8. QED
  BY <1>1, <1>2, <1>3, <1>4, <1>5, <1>7, <1>6 DEF P!Run

\* A broadcast takes ids from the user set, and only removes what it found stale or
\* a command missed.
LEMMA ReadMoves ==
  ASSUME HandlerTypes, NEW r \in P!Broadcasts, P!Read(r)
  PROVE  /\ UNCHANGED <<socket, touch, beat, hash, starved, wiped>> /\ missed \subseteq missed'
         /\ P!At(r) \in P!ReadSteps
         /\ \E l \in P!ReadSteps \cup {"done"} : P!Go(r, l)
         /\ members' = IF P!At(r) = "stale" THEN members \ got[r] ELSE members
         /\ \A q \in P!Broadcasts : q # r => got'[q] = got[q]
         /\ got'[r] \subseteq got[r] \cup members
         /\ P!At(r)' \notin P!ReadSteps => got'[r] = {}
         /\ P!At(r)' = "stale" => \A s \in got'[r] : s \in got[r] /\ (hash[s] # "full" \/ s \in missed')
<1>1. CASE P!ReadMembers(r)
  <2>1. P!At(r)' = "payloads"
    BY <1>1, GoMoves DEF P!ReadMembers, P!ReadSteps
  <2>2. QED
    BY <1>1, <2>1 DEF P!ReadMembers, P!ReadSteps, P!redis, P!history, HandlerTypes
<1>2. CASE P!FetchPayloads(r)
  <2>1. P!At(r)' \in {"emit", "stale"}
    BY <1>2, GoMoves DEF P!FetchPayloads, P!Found, P!ReadSteps
  <2>2. QED
    BY <1>2, <2>1 DEF P!FetchPayloads, P!Found, P!Stale, P!ReadSteps, P!redis, P!history, HandlerTypes
<1>3. CASE P!FailPayloads(r)
  <2>1. P!At(r)' = "stale"
    BY <1>3, GoMoves DEF P!FailPayloads, P!Found, P!ReadSteps
  <2>2. QED
    BY <1>3, <2>1 DEF P!FailPayloads, P!Found, P!Stale, P!ReadSteps, P!redis, HandlerTypes
<1>4. CASE P!RemoveStale(r)
  <2>1. P!At(r)' = "emit"
    BY <1>4, GoMoves DEF P!RemoveStale, P!ReadSteps
  <2>2. QED
    BY <1>4, <2>1 DEF P!RemoveStale, P!ReadSteps, P!history, HandlerTypes
<1>5. CASE P!Emit(r)
  <2>1. P!At(r)' = "done"
    BY <1>5, GoMoves DEF P!Emit, P!ReadSteps
  <2>2. QED
    BY <1>5, <2>1 DEF P!Emit, P!ReadSteps, P!redis, P!Drop, HandlerTypes
<1>6. QED
  BY <1>1, <1>2, <1>4, <1>5, <1>3 DEF P!Read

LEMMA ReadersHoldPreserved ==
  ASSUME HandlerTypes, StoreTypes, ReadersHold, LinkInv, [P!Next]_P!vars
  PROVE  ReadersHold'
<1>1. ASSUME NEW s \in Sockets,
             \/ P!Connect(s) \/ P!Disconnect(s) \/ P!Run(s)
             \/ P!FailCommand(s) \/ P!FailConnection(s) \/ P!FailDisconnection(s)
             \/ P!Refresh(s) \/ P!Touch(s) \/ P!Expire(s) \/ P!Starve(s) \/ P!Crash(s)
      PROVE  ReadersHold'
  BY <1>1, ReadersKept DEF ReadersHold
<1>2. ASSUME NEW r \in P!Broadcasts, P!Read(r) PROVE ReadersHold'
  <2>1. PICK l \in P!ReadSteps \cup {"done"} : P!Go(r, l)
    BY <1>2, ReadMoves
  <2>2. \A q \in P!Broadcasts : q # r => P!At(q)' = P!At(q) /\ got'[q] = got[q]
    BY <1>2, <2>1, ReadMoves, GoMoves
  <2>3. P!At(r)' \notin P!ReadSteps => got'[r] = {}
    BY <1>2, ReadMoves
  <2>4. QED
    BY <2>2, <2>3 DEF ReadersHold
<1>3. ASSUME UNCHANGED P!handlers PROVE ReadersHold'
  BY <1>3 DEF P!handlers, ReadersHold, P!At
<1>4. QED
  BY <1>1, <1>2, <1>3 DEF P!Next, P!ReadElsewhere, P!vars

-----------------------------------------------------------------------------
(* Connections, keys and the user set.                                        *)

LEMMA LinkPreserved ==
  ASSUME HandlerTypes, StoreTypes, LinkInv, [P!Next]_P!vars
  PROVE  LinkInv'
<1> USE DEF LinkInv
<1>1. ASSUME NEW s \in Sockets, P!Connect(s) \/ P!RegisterKey(s) \/ P!RegisterMember(s) \/ P!StartHeartbeat(s)
      PROVE  LinkInv'
  BY <1>1 DEF P!Connect, P!RegisterKey, P!RegisterMember, P!StartHeartbeat, P!ConnAt, HandlerTypes
<1>2. ASSUME NEW s \in Sockets, P!LookUp(s) PROVE LinkInv'
  BY <1>2, LookUpMoves DEF P!LookUp, P!DiscAt, HandlerTypes
<1>3. ASSUME NEW s \in Sockets,
             P!Disconnect(s) \/ P!DeleteKey(s) \/ P!RemoveMember(s) \/ P!Count(s) \/ P!DeleteSet(s)
      PROVE  LinkInv'
  BY <1>3 DEF P!Disconnect, P!DeleteKey, P!RemoveMember, P!Count, P!DeleteSet, P!DiscAt, HandlerTypes
<1>4. ASSUME NEW s \in Sockets, P!FailCommand(s) PROVE LinkInv'
  BY <1>4 DEF P!FailCommand, P!ConnAt, P!DiscAt, HandlerTypes
<1>5. ASSUME NEW out \in SUBSET members, P!ReadElsewhere(out) PROVE LinkInv'
  BY <1>5 DEF P!ReadElsewhere, P!handlers
<1>6. ASSUME NEW s \in Sockets, P!FailConnection(s) \/ P!FailDisconnection(s) \/ P!Crash(s)
      PROVE  LinkInv'
  BY <1>6 DEF P!FailConnection, P!FailDisconnection, P!Crash, HandlerTypes
<1>7. ASSUME NEW s \in Sockets, P!Refresh(s) \/ P!Touch(s) \/ P!Expire(s) \/ P!Starve(s)
      PROVE  LinkInv'
  BY <1>7 DEF P!Refresh, P!Touch, P!Expire, P!Starve, P!Lapse, P!handlers
<1>8. ASSUME NEW r \in P!Broadcasts, P!Read(r) PROVE LinkInv'
  <2>1. PICK l \in P!ReadSteps \cup {"done"} : P!Go(r, l)
    BY <1>8, ReadMoves
  <2>2. \A s \in Sockets :
           /\ conn'[s] # conn[s] => {conn[s], conn'[s]} \subseteq P!ReadSteps \cup {"done"}
           /\ disc'[s] # disc[s] => {disc[s], disc'[s]} \subseteq P!ReadSteps \cup {"done"}
    BY <1>8, <2>1, ReadMoves, GoMoves
  <2>3. QED
    BY <1>8, <2>2, ReadMoves DEF P!ReadSteps
<1>9. CASE UNCHANGED P!vars
  BY <1>9 DEF P!vars, P!handlers
<1>10. QED
  BY <1>1, <1>2, <1>3, <1>6, <1>7, <1>8, <1>9, <1>4, <1>5 DEF P!Next, P!Run

\* What a step of a broadcast means for the other parts: places move among the
\* reading ones only.
LEMMA ReadPlaces ==
  ASSUME HandlerTypes, NEW r \in P!Broadcasts, P!Read(r), NEW s \in Sockets
  PROVE  /\ conn'[s] # conn[s] => {conn[s], conn'[s]} \subseteq P!ReadSteps \cup {"done"}
         /\ disc'[s] # disc[s] => {disc[s], disc'[s]} \subseteq P!ReadSteps \cup {"done"}
<1>1. PICK l \in P!ReadSteps \cup {"done"} : P!Go(r, l)
  BY ReadMoves
<1>2. QED
  BY <1>1, ReadMoves, GoMoves

LEMMA UnwrittenPreserved ==
  ASSUME HandlerTypes, StoreTypes, LinkInv, UnwrittenInv, [P!Next]_P!vars
  PROVE  UnwrittenInv'
<1> USE DEF UnwrittenInv
<1>1. ASSUME NEW s \in Sockets, P!Connect(s) \/ P!RegisterKey(s) \/ P!RegisterMember(s) \/ P!StartHeartbeat(s)
      PROVE  UnwrittenInv'
  BY <1>1 DEF P!Connect, P!RegisterKey, P!RegisterMember, P!StartHeartbeat, P!ConnAt, HandlerTypes, StoreTypes, P!redis
<1>2. ASSUME NEW s \in Sockets,
             P!Disconnect(s) \/ P!LookUp(s) \/ P!DeleteKey(s) \/ P!RemoveMember(s) \/ P!Count(s) \/ P!DeleteSet(s)
      PROVE  UnwrittenInv'
  BY <1>2 DEF P!Disconnect, P!LookUp, P!DeleteKey, P!RemoveMember, P!Count, P!DeleteSet, StoreTypes, P!redis
<1>3. ASSUME NEW s \in Sockets, P!FailCommand(s) PROVE UnwrittenInv'
  BY <1>3 DEF P!FailCommand, P!ConnAt, HandlerTypes, P!redis
<1>4. ASSUME NEW out \in SUBSET members, P!ReadElsewhere(out) PROVE UnwrittenInv'
  BY <1>4 DEF P!ReadElsewhere, P!handlers
<1>5. ASSUME NEW s \in Sockets, P!FailConnection(s) \/ P!FailDisconnection(s) \/ P!Crash(s)
      PROVE  UnwrittenInv'
  BY <1>5 DEF P!FailConnection, P!FailDisconnection, P!Crash, HandlerTypes, P!redis
<1>6. ASSUME NEW s \in Sockets, P!Refresh(s) \/ P!Touch(s) PROVE UnwrittenInv'
  BY <1>6 DEF P!Refresh, P!Touch, P!handlers, P!redis, StoreTypes
<1>7. ASSUME NEW s \in Sockets, P!Expire(s) \/ P!Starve(s) PROVE UnwrittenInv'
  BY <1>7 DEF P!Expire, P!Starve, P!Lapse, P!handlers, StoreTypes
<1>8. ASSUME NEW r \in P!Broadcasts, P!Read(r) PROVE UnwrittenInv'
  BY <1>8, ReadMoves, ReadPlaces DEF P!ReadSteps
<1>9. CASE UNCHANGED P!vars
  BY <1>9 DEF P!vars, P!handlers, P!redis
<1>10. QED
  BY <1>1, <1>2, <1>5, <1>6, <1>7, <1>8, <1>9, <1>3, <1>4 DEF P!Next, P!Run

LEMMA PartialPreserved ==
  ASSUME HandlerTypes, StoreTypes, LinkInv, UnwrittenInv, PartialInv, [P!Next]_P!vars
  PROVE  PartialInv'
<1> USE DEF PartialInv
<1>1. ASSUME NEW s \in Sockets, P!Connect(s) \/ P!RegisterKey(s) \/ P!RegisterMember(s) \/ P!StartHeartbeat(s)
      PROVE  PartialInv'
  BY <1>1 DEF P!Connect, P!RegisterKey, P!RegisterMember, P!StartHeartbeat, P!ConnAt, HandlerTypes, StoreTypes, P!redis
<1>2. ASSUME NEW s \in Sockets, P!LookUp(s) PROVE PartialInv'
  BY <1>2, LookUpMoves DEF P!LookUp, P!DiscAt, HandlerTypes, UnwrittenInv, P!redis
<1>3. ASSUME NEW s \in Sockets,
             P!Disconnect(s) \/ P!DeleteKey(s) \/ P!RemoveMember(s) \/ P!Count(s) \/ P!DeleteSet(s)
      PROVE  PartialInv'
  BY <1>3 DEF P!Disconnect, P!DeleteKey, P!RemoveMember, P!Count, P!DeleteSet, P!DiscAt, HandlerTypes, StoreTypes, P!redis
<1>4. ASSUME NEW s \in Sockets, P!FailCommand(s) PROVE PartialInv'
  BY <1>4 DEF P!FailCommand, P!ConnAt, P!DiscAt, HandlerTypes, P!redis
<1>5. ASSUME NEW out \in SUBSET members, P!ReadElsewhere(out) PROVE PartialInv'
  BY <1>5 DEF P!ReadElsewhere, P!handlers
<1>6. ASSUME NEW s \in Sockets, P!FailConnection(s) \/ P!FailDisconnection(s) \/ P!Crash(s)
      PROVE  PartialInv'
  BY <1>6 DEF P!FailConnection, P!FailDisconnection, P!Crash, HandlerTypes, P!redis
<1>7. ASSUME NEW s \in Sockets, P!Refresh(s) \/ P!Touch(s) PROVE PartialInv'
  BY <1>7 DEF P!Refresh, P!Touch, P!handlers, P!redis, StoreTypes
<1>8. ASSUME NEW s \in Sockets, P!Expire(s) \/ P!Starve(s) PROVE PartialInv'
  BY <1>8 DEF P!Expire, P!Starve, P!Lapse, P!handlers, StoreTypes
<1>9. ASSUME NEW r \in P!Broadcasts, P!Read(r) PROVE PartialInv'
  BY <1>9, ReadMoves, ReadPlaces DEF P!ReadSteps
<1>10. CASE UNCHANGED P!vars
  BY <1>10 DEF P!vars, P!handlers, P!redis
<1>11. QED
  BY <1>1, <1>2, <1>3, <1>6, <1>7, <1>8, <1>9, <1>10, <1>4, <1>5 DEF P!Next, P!Run

LEMMA AddedPreserved ==
  ASSUME HandlerTypes, StoreTypes, ReadersHold, LinkInv, AddedInv, [P!Next]_P!vars
  PROVE  AddedInv'
<1> DEFINE Out(s) == conn'[s] \in {"idle", "hset", "sadd"} => s \notin members'
           Unseen(s) == conn'[s] \in {"idle", "hset", "sadd"} => \A r \in P!Broadcasts : s \notin got'[r]
<1>1. ASSUME NEW s \in Sockets, NEW t \in Sockets,
             \/ P!Connect(s) \/ P!Disconnect(s) \/ P!Run(s)
             \/ P!FailCommand(s) \/ P!FailConnection(s) \/ P!FailDisconnection(s)
             \/ P!Refresh(s) \/ P!Touch(s) \/ P!Expire(s) \/ P!Starve(s) \/ P!Crash(s)
      PROVE  Out(t) /\ Unseen(t)
  <2>1. conn'[t] \in {"idle", "hset", "sadd"} => conn[t] \in {"idle", "hset", "sadd"}
    <3>1. CASE P!Connect(s) \/ P!RegisterKey(s) \/ P!RegisterMember(s) \/ P!StartHeartbeat(s)
      BY <3>1 DEF P!Connect, P!RegisterKey, P!RegisterMember, P!StartHeartbeat, P!ConnAt, HandlerTypes
    <3>2. CASE P!FailCommand(s) \/ P!FailConnection(s) \/ P!Crash(s)
      BY <3>2 DEF P!FailCommand, P!ConnAt, P!FailConnection, P!Crash, HandlerTypes
    <3>3. CASE conn' = conn
      BY <3>3
    <3>4. QED
      BY <1>1, <3>1, <3>2, <3>3 DEF P!Run, P!Disconnect, P!LookUp, P!DeleteKey, P!RemoveMember, P!Count, P!DeleteSet,
         P!FailDisconnection, P!Refresh, P!Touch, P!Expire, P!Starve, P!Lapse, P!handlers
  <2>2. Out(t)
    <3>1. CASE P!RegisterMember(s)
      BY <2>1, <3>1 DEF P!RegisterMember, P!ConnAt, HandlerTypes, AddedInv
    <3>2. CASE members' \subseteq members
      BY <2>1, <3>2 DEF AddedInv
    <3>3. QED
      BY <1>1, <3>1, <3>2 DEF P!Run, P!Connect, P!RegisterKey, P!StartHeartbeat, P!Disconnect, P!LookUp, P!DeleteKey,
         P!RemoveMember, P!Count, P!DeleteSet, P!FailCommand, P!FailConnection, P!FailDisconnection, P!Refresh,
         P!Touch, P!Expire, P!Starve, P!Lapse, P!Crash, P!redis
  <2>3. \A r \in P!Broadcasts : got'[r] \subseteq got[r]
    BY <1>1, ReadersKept
  <2>4. QED
    BY <2>1, <2>2, <2>3 DEF AddedInv
<1>2. ASSUME NEW q \in P!Broadcasts, P!Read(q), NEW t \in Sockets PROVE Out(t) /\ Unseen(t)
  <2>1. conn'[t] \in {"idle", "hset", "sadd"} => conn[t] \in {"idle", "hset", "sadd"}
    BY <1>2, ReadPlaces DEF P!ReadSteps
  <2>2. members' \subseteq members
    BY <1>2, ReadMoves
  <2>3. \A r \in P!Broadcasts : got'[r] \subseteq got[r] \cup members
    BY <1>2, ReadMoves
  <2>4. QED
    BY <2>1, <2>2, <2>3 DEF AddedInv
<1>3. ASSUME NEW out \in SUBSET members, P!ReadElsewhere(out) PROVE AddedInv'
  BY <1>3 DEF P!ReadElsewhere, P!handlers, AddedInv
<1>4. CASE UNCHANGED P!vars
  BY <1>4 DEF P!vars, P!handlers, P!redis, AddedInv
<1>5. QED
  BY <1>1, <1>2, <1>4, <1>3 DEF P!Next, AddedInv

LEMMA KeyPreserved ==
  ASSUME HandlerTypes, StoreTypes, LinkInv, KeyInv, [P!Next]_P!vars
  PROVE  KeyInv'
<1> USE DEF KeyInv
<1>1. ASSUME NEW s \in Sockets, P!Connect(s) \/ P!RegisterKey(s) \/ P!RegisterMember(s) \/ P!StartHeartbeat(s)
      PROVE  KeyInv'
  BY <1>1 DEF P!Connect, P!RegisterKey, P!RegisterMember, P!StartHeartbeat, P!ConnAt, HandlerTypes, StoreTypes,
     P!redis, P!history
<1>2. ASSUME NEW s \in Sockets, P!LookUp(s) \/ P!RemoveMember(s) \/ P!Count(s) \/ P!DeleteSet(s)
      PROVE  KeyInv'
  BY <1>2 DEF P!LookUp, P!RemoveMember, P!Count, P!DeleteSet, P!redis, P!history
\* Its own unregisterConnection comes after the end of the connection.
<1>3. ASSUME NEW s \in Sockets, P!Disconnect(s) \/ P!DeleteKey(s) PROVE KeyInv'
  BY <1>3 DEF P!Disconnect, P!DeleteKey, P!DiscAt, LinkInv, HandlerTypes, StoreTypes, P!redis, P!history
<1>4. ASSUME NEW s \in Sockets, P!FailCommand(s) PROVE KeyInv'
  BY <1>4 DEF P!FailCommand, P!ConnAt, P!DiscAt, HandlerTypes, P!redis
<1>5. ASSUME NEW out \in SUBSET members, P!ReadElsewhere(out) PROVE KeyInv'
  BY <1>5 DEF P!ReadElsewhere, P!handlers, P!history
<1>6. ASSUME NEW s \in Sockets, P!FailConnection(s) \/ P!FailDisconnection(s) \/ P!Crash(s)
      PROVE  KeyInv'
  BY <1>6 DEF P!FailConnection, P!FailDisconnection, P!Crash, HandlerTypes, LinkInv, P!redis
<1>7. ASSUME NEW s \in Sockets, P!Refresh(s) \/ P!Touch(s) PROVE KeyInv'
  BY <1>7 DEF P!Refresh, P!Touch, P!handlers, P!redis, P!history, StoreTypes
<1>8. ASSUME NEW s \in Sockets, P!Expire(s) \/ P!Starve(s) PROVE KeyInv'
  BY <1>8 DEF P!Expire, P!Starve, P!Lapse, P!handlers, StoreTypes
<1>9. ASSUME NEW r \in P!Broadcasts, P!Read(r) PROVE KeyInv'
  BY <1>9, ReadMoves, ReadPlaces DEF P!ReadSteps
<1>10. CASE UNCHANGED P!vars
  BY <1>10 DEF P!vars, P!handlers, P!redis, P!history
<1>11. QED
  BY <1>1, <1>2, <1>3, <1>6, <1>7, <1>8, <1>9, <1>10, <1>4, <1>5 DEF P!Next, P!Run

LEMMA MemberPreserved ==
  ASSUME HandlerTypes, StoreTypes, LinkInv, KeyInv, StaleInv, MemberInv, [P!Next]_P!vars
  PROVE  MemberInv'
<1> USE DEF MemberInv
<1>1. ASSUME NEW s \in Sockets, P!Connect(s) \/ P!RegisterKey(s) \/ P!RegisterMember(s) \/ P!StartHeartbeat(s)
      PROVE  MemberInv'
  BY <1>1 DEF P!Connect, P!RegisterKey, P!RegisterMember, P!StartHeartbeat, P!ConnAt, HandlerTypes, P!redis, P!history
<1>2. ASSUME NEW s \in Sockets, P!LookUp(s) \/ P!DeleteKey(s) \/ P!Count(s) PROVE MemberInv'
  BY <1>2 DEF P!LookUp, P!DeleteKey, P!Count, P!redis, P!history
<1>3. ASSUME NEW s \in Sockets, P!Disconnect(s) \/ P!RemoveMember(s) PROVE MemberInv'
  BY <1>3 DEF P!Disconnect, P!RemoveMember, P!DiscAt, LinkInv, HandlerTypes, P!redis, P!history
<1>4. ASSUME NEW s \in Sockets, P!DeleteSet(s) PROVE MemberInv'
  BY <1>4 DEF P!DeleteSet
<1>5. ASSUME NEW s \in Sockets, P!FailCommand(s) PROVE MemberInv'
  BY <1>5 DEF P!FailCommand, P!ConnAt, P!DiscAt, HandlerTypes, P!redis
<1>6. ASSUME NEW out \in SUBSET members, P!ReadElsewhere(out) PROVE MemberInv'
  <2>1. CASE out = P!Stale(out)
    BY <1>6, <2>1 DEF P!ReadElsewhere, P!Stale, P!handlers, P!history, KeyInv
  <2>2. CASE out # P!Stale(out)
    BY <1>6, <2>2 DEF P!ReadElsewhere, P!Stale, P!handlers, KeyInv
  <2>3. QED
    BY <2>1, <2>2
<1>7. ASSUME NEW s \in Sockets, P!FailConnection(s) \/ P!FailDisconnection(s) \/ P!Crash(s)
      PROVE  MemberInv'
  BY <1>7 DEF P!FailConnection, P!FailDisconnection, P!Crash, HandlerTypes, LinkInv, P!redis
<1>8. ASSUME NEW s \in Sockets, P!Refresh(s) \/ P!Touch(s) \/ P!Expire(s) \/ P!Starve(s) PROVE MemberInv'
  BY <1>8 DEF P!Refresh, P!Touch, P!Expire, P!Starve, P!Lapse, P!handlers, P!redis, P!history
\* What a reader removes is gone, starved or missed.
<1>9. ASSUME NEW r \in P!Broadcasts, P!Read(r) PROVE MemberInv'
  <2>1. ASSUME NEW s \in Sockets, s \in members, s \notin members'
        PROVE  socket[s] = "gone" \/ s \in starved \cup missed
    BY <1>9, <2>1, ReadMoves DEF StaleInv
  <2>2. QED
    BY <1>9, <2>1, ReadMoves, ReadPlaces DEF P!ReadSteps
<1>10. CASE UNCHANGED P!vars
  BY <1>10 DEF P!vars, P!handlers, P!redis, P!history
<1>11. QED
  BY <1>1, <1>2, <1>3, <1>4, <1>7, <1>8, <1>9, <1>10, <1>5, <1>6 DEF P!Next, P!Run

\* A connection that has ended, and a key that was starved or missed, stay so.
LEMMA EndsStay ==
  ASSUME HandlerTypes, [P!Next]_P!vars, NEW t \in Sockets,
         socket[t] = "gone" \/ t \in starved \cup missed
  PROVE  socket'[t] = "gone" \/ t \in starved' \cup missed'
<1>1. ASSUME NEW s \in Sockets, P!Run(s) \/ P!Refresh(s) \/ P!Touch(s) \/ P!FailDisconnection(s)
      PROVE  socket' = socket /\ starved' = starved /\ missed' = missed
  BY <1>1, Zenon DEF P!Run, P!RegisterKey, P!RegisterMember, P!StartHeartbeat, P!LookUp, P!DeleteKey, P!RemoveMember,
     P!Count, P!DeleteSet, P!Refresh, P!Touch, P!FailDisconnection, P!history
<1>2. ASSUME NEW s \in Sockets,
             \/ P!Connect(s) \/ P!Disconnect(s) \/ P!FailCommand(s) \/ P!FailConnection(s) \/ P!Crash(s)
             \/ P!Expire(s) \/ P!Starve(s)
      PROVE  socket'[t] = "gone" \/ t \in starved' \cup missed'
  BY <1>2 DEF P!Connect, P!Disconnect, P!FailCommand, P!FailConnection, P!Crash, P!Expire, P!Starve, P!Lapse,
     HandlerTypes, P!history
<1>3. ASSUME NEW r \in P!Broadcasts, P!Read(r)
      PROVE  socket' = socket /\ starved' = starved /\ missed \subseteq missed'
  BY <1>3, ReadMoves
<1>4. ASSUME NEW out \in SUBSET members, P!ReadElsewhere(out)
      PROVE  socket' = socket /\ starved' = starved /\ missed \subseteq missed'
  BY <1>4 DEF P!ReadElsewhere, P!history
<1>5. CASE UNCHANGED P!vars
  BY <1>5 DEF P!vars, P!history
<1>6. QED
  BY <1>1, <1>2, <1>3, <1>4, <1>5 DEF P!Next

LEMMA StalePreserved ==
  ASSUME HandlerTypes, StoreTypes, ReadersHold, LinkInv, AddedInv, KeyInv, StaleInv, [P!Next]_P!vars
  PROVE  StaleInv'
<1>1. ASSUME NEW s \in Sockets,
             \/ P!Connect(s) \/ P!Disconnect(s) \/ P!Run(s)
             \/ P!FailCommand(s) \/ P!FailConnection(s) \/ P!FailDisconnection(s)
             \/ P!Refresh(s) \/ P!Touch(s) \/ P!Expire(s) \/ P!Starve(s) \/ P!Crash(s)
      PROVE  StaleInv'
  <2>1. ASSUME NEW r \in P!Broadcasts, NEW t \in got'[r], P!At(r)' = "stale"
        PROVE  t \in Sockets /\ (socket'[t] = "gone" \/ t \in starved' \cup missed')
    <3>1. P!At(r) = "stale" /\ t \in got[r]
      BY <1>1, <2>1, ReadersKept
    <3>2. QED
      BY <3>1, EndsStay DEF StaleInv, HandlerTypes
  <2>2. QED
    BY <2>1 DEF StaleInv
<1>2. ASSUME NEW q \in P!Broadcasts, P!Read(q) PROVE StaleInv'
  <2>1. PICK l \in P!ReadSteps \cup {"done"} : P!Go(q, l)
    BY <1>2, ReadMoves
  <2>2. ASSUME NEW t \in got'[q], P!At(q)' = "stale" PROVE socket'[t] = "gone" \/ t \in starved' \cup missed'
    <3>1. t \in got[q] /\ t \in Sockets /\ (hash[t] # "full" \/ t \in missed')
      BY <1>2, <2>2, ReadMoves DEF HandlerTypes
    <3>2. conn[t] \notin {"idle", "hset", "sadd"}
      BY <3>1 DEF AddedInv
    <3>3. socket[t] \in {"new", "up", "gone"} /\ socket[t] # "new"
      BY <3>1, <3>2 DEF LinkInv, HandlerTypes
    <3>4. QED
      BY <1>2, <3>1, <3>2, <3>3, ReadMoves DEF KeyInv
  <2>3. ASSUME NEW r \in P!Broadcasts, r # q, NEW t \in got'[r], P!At(r)' = "stale"
        PROVE  socket'[t] = "gone" \/ t \in starved' \cup missed'
    <3>1. P!At(r) = "stale" /\ t \in got[r]
      BY <1>2, <2>1, <2>3, ReadMoves, GoMoves
    <3>2. QED
      BY <3>1, <1>2, ReadMoves DEF StaleInv
  <2>4. QED
    BY <2>2, <2>3 DEF StaleInv
<1>3. ASSUME UNCHANGED <<socket, starved, P!handlers>>, missed \subseteq missed' PROVE StaleInv'
  BY <1>3 DEF P!handlers, StaleInv, P!At
<1>4. ASSUME NEW out \in SUBSET members, P!ReadElsewhere(out) PROVE StaleInv'
  BY <1>3, <1>4 DEF P!ReadElsewhere, P!history
<1>5. QED
  BY <1>1, <1>2, <1>3, <1>4 DEF P!Next, P!vars, P!history

LEMMA GhostPreserved ==
  ASSUME HandlerTypes, StoreTypes, HistoryTypes, LinkInv, GhostInv, [P!Next]_P!vars
  PROVE  GhostInv'
<1> USE DEF GhostInv
<1>1. ASSUME P!Fault PROVE GhostInv'
  <2>1. faults' # 0
    BY <1>1, FaultAssumption DEF P!Fault, HistoryTypes
  <2>2. QED
    BY <2>1
<1>2. ASSUME NEW s \in Sockets, P!Connect(s) \/ P!RegisterKey(s) \/ P!RegisterMember(s) \/ P!StartHeartbeat(s)
      PROVE  GhostInv'
  BY <1>2 DEF P!Connect, P!RegisterKey, P!RegisterMember, P!StartHeartbeat, P!ConnAt, HandlerTypes, StoreTypes,
     P!redis, P!history
<1>3. ASSUME NEW s \in Sockets, P!Disconnect(s) PROVE GhostInv'
  BY <1>3 DEF P!Disconnect, P!DiscAt, HandlerTypes, P!redis
<1>4. ASSUME NEW s \in Sockets, P!LookUp(s) PROVE GhostInv'
  BY <1>4, LookUpMoves DEF P!LookUp, P!DiscAt, HandlerTypes, P!redis, P!history
<1>5. ASSUME NEW s \in Sockets, P!DeleteKey(s) PROVE GhostInv'
  BY <1>5 DEF P!DeleteKey, P!DiscAt, HandlerTypes, StoreTypes, P!history
<1>6. ASSUME NEW s \in Sockets, P!RemoveMember(s) \/ P!Count(s) \/ P!DeleteSet(s) PROVE GhostInv'
  BY <1>6 DEF P!RemoveMember, P!Count, P!DeleteSet, P!DiscAt, HandlerTypes, P!redis, P!history
<1>7. ASSUME NEW s \in Sockets, P!Refresh(s) \/ P!Touch(s) PROVE GhostInv'
  BY <1>7 DEF P!Refresh, P!Touch, P!handlers, P!redis, P!history, StoreTypes
<1>8. ASSUME NEW s \in Sockets, P!Expire(s) PROVE GhostInv'
  BY <1>8 DEF P!Expire, P!Lapse, P!handlers, StoreTypes
<1>9. ASSUME NEW r \in P!Broadcasts, P!Read(r) PROVE GhostInv'
  <2>1. CASE P!FailPayloads(r)
    BY <1>1, <2>1 DEF P!FailPayloads
  <2>2. CASE ~ P!FailPayloads(r)
    <3>1. UNCHANGED <<faults, missed, hasty>>
      BY <1>9, <2>2 DEF P!Read, P!ReadMembers, P!FetchPayloads, P!RemoveStale, P!Emit, P!history
    <3>2. QED
      BY <1>9, <3>1, ReadMoves, ReadPlaces DEF P!ReadSteps
  <2>3. QED
    BY <2>1, <2>2
<1>10. ASSUME NEW s \in Sockets, \/ P!FailCommand(s) \/ P!FailConnection(s) \/ P!FailDisconnection(s)
                                  \/ P!Starve(s) \/ P!Crash(s)
       PROVE  GhostInv'
  BY <1>1, <1>10 DEF P!FailCommand, P!FailConnection, P!FailDisconnection, P!Starve, P!Crash
<1>11. ASSUME NEW out \in SUBSET members, P!ReadElsewhere(out) PROVE GhostInv'
  <2>1. CASE out = P!Stale(out)
    BY <1>11, <2>1 DEF P!ReadElsewhere, P!handlers, P!history
  <2>2. CASE out # P!Stale(out)
    BY <1>1, <1>11, <2>2 DEF P!ReadElsewhere
  <2>3. QED
    BY <2>1, <2>2
<1>12. CASE UNCHANGED P!vars
  BY <1>12 DEF P!vars, P!handlers, P!redis, P!history
<1>13. QED
  BY <1>2, <1>3, <1>4, <1>5, <1>6, <1>7, <1>8, <1>9, <1>10, <1>11, <1>12 DEF P!Next, P!Run

-----------------------------------------------------------------------------
(* What the rooms were told, and what the broadcasts have read.               *)

\* A handler that owes an update vouches for what all the others have read, and for
\* what the rooms were told.
LEMMA OwingVouches ==
  ASSUME NEW q \in P!Broadcasts, Owes(q)',
         q \in P!Reading' \ overtaken' => Right(q)' \/ Other(q)'
  PROVE  ToldInv' /\ ReadInv'
<1>1. ToldInv'
  BY DEF ToldInv
<1>2. ASSUME NEW r \in P!Reading' \ overtaken', r # q PROVE Other(r)'
  BY <1>2 DEF Other
<1>3. QED
  BY <1>1, <1>2 DEF ReadInv

\* The handler of a socket that is at a place after the step.
LEMMA SocketVouches ==
  ASSUME NEW s \in Sockets,
         \/ conn'[s] \in Owing \ {"payloads", "stale", "emit"}
         \/ disc'[s] \in Owing \ {"payloads", "stale", "emit"}
  PROVE  ToldInv' /\ ReadInv'
<1>1. PICK q \in P!Broadcasts : P!At(q)' \in Owing \ {"payloads", "stale", "emit"}
  <2>1. <<"conn", s>> \in P!Broadcasts /\ <<"disc", s>> \in P!Broadcasts
    BY AtPlaces
  <2>2. P!At(<<"conn", s>>)' = conn'[s] /\ P!At(<<"disc", s>>)' = disc'[s]
    BY DEF P!At
  <2>3. QED
    BY <2>1, <2>2
<1>2. Owes(q)' /\ q \notin P!Reading'
  BY <1>1 DEF Owes, P!Reading
<1>3. QED
  BY <1>2, OwingVouches

\* Something nobody tells of spoils what all have read.
LEMMA SpoilingExcuses ==
  ASSUME NEW ends, P!Spoil(ends), \A r \in P!Broadcasts : r \in P!Reading' => r \in P!Reading \ ends
  PROVE  ToldInv' /\ ReadInv'
<1>1. P!Reading' \ overtaken' = {}
  BY DEF P!Spoil, P!Reading
<1>2. QED
  BY <1>1 DEF P!Spoil, ToldInv, ReadInv

\* A step that leaves the sockets that count, what was read and who owes an update.
LEMMA QuietKeeps ==
  ASSUME HandlerTypes, StoreTypes, ToldInv, ReadInv,
         UNCHANGED <<announced, told, overtaken, got, saw>>, P!Active' = P!Active,
         \A s \in Sockets : hash'[s] = "full" => hash[s] = "full",
         \A s \in Sockets : hash[s] = "full" /\ hash'[s] # "full" => s \notin members,
         \A r \in P!Broadcasts : {P!At(r), P!At(r)'} \cap Owing # {} => P!At(r)' = P!At(r)
  PROVE  ToldInv' /\ ReadInv'
<1>1. \A r \in P!Broadcasts : Owes(r)' = Owes(r)
  BY DEF Owes
<1>2. P!Online' = P!Online
  BY DEF P!Online
<1>3. ToldInv'
  BY <1>1, <1>2 DEF ToldInv
<1>4. ASSUME NEW r \in P!Reading' \ overtaken' PROVE Right(r)' \/ Other(r)'
  <2>1. r \in P!Broadcasts /\ P!At(r)' = P!At(r) /\ r \in P!Reading \ overtaken
    BY <1>4 DEF P!Reading, Owing, P!ReadSteps
  <2>2. CASE Other(r)
    BY <1>1, <2>2 DEF Other
  <2>3. CASE Right(r)
    <3>1. P!At(r) = "payloads" => P!Active = got[r] \ P!Stale(got[r])'
      <4>1. SUFFICES ASSUME P!Active = got[r] \ P!Stale(got[r]), got[r] \subseteq Sockets
                     PROVE  P!Active = got[r] \ P!Stale(got[r])'
        BY <2>1, <2>3 DEF Right, HandlerTypes
      <4>2. \A t \in got[r] : hash[t] = "full" => t \in members
        BY <4>1 DEF P!Active, P!Stale
      <4>3. \A t \in got[r] : (hash'[t] = "full") <=> (hash[t] = "full")
        BY <4>1, <4>2
      <4>4. QED
        BY <4>1, <4>3 DEF P!Stale
    <3>2. QED
      BY <1>2, <2>1, <2>3, <3>1 DEF Right
  <2>4. QED
    BY <2>1, <2>2, <2>3 DEF ReadInv
<1>5. QED
  BY <1>3, <1>4 DEF ReadInv

LEMMA ToldPreserved ==
  ASSUME HandlerTypes, StoreTypes, ReadersHold, LinkInv, PartialInv, AddedInv, ToldInv, ReadInv,
         [P!Next]_P!vars
  PROVE  ToldInv' /\ ReadInv'
<1>1. ASSUME NEW s \in Sockets, P!Connect(s) \/ P!RegisterKey(s) \/ P!RegisterMember(s) \/ P!StartHeartbeat(s)
      PROVE  ToldInv' /\ ReadInv'
  <2>1. conn'[s] \in {"hset", "sadd", "start", "smembers"}
    BY <1>1 DEF P!Connect, P!RegisterKey, P!RegisterMember, P!StartHeartbeat, P!ConnAt, HandlerTypes
  <2>2. QED
    BY <2>1, SocketVouches DEF Owing, P!ReadSteps
\* Whether handleDisconnect has a key to delete is seen when it has looked.
<1>2. ASSUME NEW s \in Sockets, P!Disconnect(s) PROVE ToldInv' /\ ReadInv'
  <2>1. UNCHANGED <<hash, members, announced, told, overtaken, got, saw, conn>>
    BY <1>2, Zenon DEF P!Disconnect, P!redis
  <2>2. \A r \in P!Broadcasts : {P!At(r), P!At(r)'} \cap Owing # {} => P!At(r)' = P!At(r)
    BY <1>2, OfHandler DEF P!Disconnect, P!DiscAt, P!At, HandlerTypes, Owing, P!ReadSteps
  <2>3. QED
    BY <2>1, <2>2, QuietKeeps DEF P!Active, P!Stale
<1>3. ASSUME NEW s \in Sockets, P!LookUp(s) PROVE ToldInv' /\ ReadInv'
  <2>1. CASE hash[s] = "full"
    <3>1. disc'[s] = "del"
      BY <1>3, <2>1, LookUpMoves DEF P!DiscAt, HandlerTypes
    <3>2. QED
      BY <3>1, SocketVouches DEF Owing, P!ReadSteps
  <2>2. CASE hash[s] # "full"
    <3>1. UNCHANGED <<hash, members, announced, told, overtaken, got, saw, conn>>
      BY <1>3, Zenon DEF P!LookUp, P!redis, P!history
    <3>2. \A r \in P!Broadcasts : {P!At(r), P!At(r)'} \cap Owing # {} => P!At(r)' = P!At(r)
      BY <1>3, <2>2, <3>1, LookUpMoves, OfHandler DEF P!DiscAt, P!At, HandlerTypes, Owing, P!ReadSteps
    <3>3. QED
      BY <3>1, <3>2, QuietKeeps DEF P!Active, P!Stale
  <2>3. QED
    BY <2>1, <2>2
\* A key is deleted with a broadcast to come, or it was a partial one.
<1>4. ASSUME NEW s \in Sockets, P!DeleteKey(s) PROVE ToldInv' /\ ReadInv'
  <2>1. CASE disc[s] = "del"
    <3>1. disc'[s] = "srem"
      BY <1>4, <2>1 DEF P!DeleteKey, P!DiscAt, HandlerTypes
    <3>2. QED
      BY <3>1, SocketVouches DEF Owing, P!ReadSteps
  <2>2. CASE disc[s] = "delOnly"
    <3>1. UNCHANGED <<members, announced, told, overtaken, got, saw, conn>> /\ hash[s] # "full"
      BY <1>4, <2>2 DEF P!DeleteKey, P!history, PartialInv
    <3>2. \A t \in Sockets : hash'[t] = "full" <=> hash[t] = "full"
      BY <1>4, <3>1 DEF P!DeleteKey, StoreTypes
    <3>3. P!Active' = P!Active
      BY <3>1, <3>2 DEF P!Active, P!Stale, StoreTypes
    <3>4. \A r \in P!Broadcasts : {P!At(r), P!At(r)'} \cap Owing # {} => P!At(r)' = P!At(r)
      BY <1>4, <2>2, OfHandler DEF P!DeleteKey, P!DiscAt, P!At, HandlerTypes, Owing, P!ReadSteps
    <3>5. QED
      BY <3>1, <3>2, <3>3, <3>4, QuietKeeps
  <2>3. QED
    BY <1>4, <2>1, <2>2 DEF P!DeleteKey, P!DiscAt
<1>5. ASSUME NEW s \in Sockets, P!RemoveMember(s) \/ P!Count(s) \/ P!DeleteSet(s) PROVE ToldInv' /\ ReadInv'
  <2>1. disc'[s] \in {"scard", "delSet", "smembers"}
    BY <1>5 DEF P!RemoveMember, P!Count, P!DeleteSet, P!DiscAt, HandlerTypes
  <2>2. QED
    BY <2>1, SocketVouches DEF Owing, P!ReadSteps
<1>6. ASSUME NEW s \in Sockets, P!FailCommand(s) PROVE ToldInv' /\ ReadInv'
  <2>1. CASE P!ConnAt(s, "hset", "sadd") \/ P!ConnAt(s, "sadd", "start")
    <3>1. conn'[s] \in {"sadd", "start"}
      BY <2>1 DEF P!ConnAt, HandlerTypes
    <3>2. QED
      BY <3>1, SocketVouches DEF Owing, P!ReadSteps
  <2>2. CASE P!DiscAt(s, "del", "srem") \/ P!DiscAt(s, "srem", "scard")
    <3>1. disc'[s] \in {"srem", "scard"}
      BY <2>2 DEF P!DiscAt, HandlerTypes
    <3>2. QED
      BY <3>1, SocketVouches DEF Owing, P!ReadSteps
  <2>3. CASE P!DiscAt(s, "delOnly", "done") /\ conn' = conn
    <3>1. UNCHANGED <<hash, members, announced, told, overtaken, got, saw>>
      BY <1>6, Zenon DEF P!FailCommand, P!redis
    <3>2. \A r \in P!Broadcasts : {P!At(r), P!At(r)'} \cap Owing # {} => P!At(r)' = P!At(r)
      BY <2>3, OfHandler DEF P!DiscAt, P!At, HandlerTypes, Owing, P!ReadSteps
    <3>3. QED
      BY <3>1, <3>2, QuietKeeps DEF P!Active, P!Stale
  <2>4. QED
    BY <1>6, <2>1, <2>2, <2>3 DEF P!FailCommand
<1>7. ASSUME NEW s \in Sockets, P!FailConnection(s) \/ P!FailDisconnection(s) \/ P!Crash(s)
      PROVE  ToldInv' /\ ReadInv'
  <2>1. CASE P!FailConnection(s)
    <3>1. \A r \in P!Broadcasts : r \in P!Reading' => r \in P!Reading \ {<<"conn", s>>}
      BY <2>1, OfHandler DEF P!FailConnection, P!Reading, P!At, HandlerTypes
    <3>2. QED
      BY <2>1, <3>1, SpoilingExcuses DEF P!FailConnection
  <2>2. CASE P!FailDisconnection(s)
    <3>1. \A r \in P!Broadcasts : r \in P!Reading' => r \in P!Reading \ {<<"disc", s>>}
      BY <2>2, OfHandler DEF P!FailDisconnection, P!Reading, P!At, HandlerTypes
    <3>2. QED
      BY <2>2, <3>1, SpoilingExcuses DEF P!FailDisconnection
  <2>3. CASE P!Crash(s)
    <3>1. \A r \in P!Broadcasts : r \in P!Reading' => r \in P!Reading \ {<<"conn", s>>, <<"disc", s>>}
      BY <2>3, OfHandler DEF P!Crash, P!Reading, P!At, HandlerTypes
    <3>2. QED
      BY <2>3, <3>1, SpoilingExcuses DEF P!Crash
  <2>4. QED
    BY <1>7, <2>1, <2>2, <2>3
<1>8. ASSUME NEW s \in Sockets, P!Refresh(s) \/ P!Touch(s) PROVE ToldInv' /\ ReadInv'
  <2>1. UNCHANGED <<conn, disc, got, saw, members, announced, told, overtaken>>
    BY <1>8, Zenon DEF P!Refresh, P!Touch, P!handlers, P!redis, P!history
  <2>2. \A t \in Sockets : hash'[t] = "full" <=> hash[t] = "full"
    BY <1>8 DEF P!Refresh, P!Touch, P!redis, StoreTypes
  <2>3. P!Active' = P!Active
    BY <2>1, <2>2 DEF P!Active, P!Stale, StoreTypes
  <2>4. \A r \in P!Broadcasts : P!At(r)' = P!At(r)
    BY <2>1 DEF P!At
  <2>5. QED
    BY <2>1, <2>2, <2>3, <2>4, QuietKeeps
\* A key that expires spoils what was read, if its socket counted.
<1>9. ASSUME NEW s \in Sockets, P!Expire(s) \/ P!Starve(s) PROVE ToldInv' /\ ReadInv'
  <2>1. UNCHANGED <<conn, disc, got, saw, members, announced>> /\ hash' = [hash EXCEPT ![s] = "none"]
    BY <1>9, Zenon DEF P!Expire, P!Starve, P!Lapse, P!handlers
  <2>2. \A r \in P!Broadcasts : P!At(r)' = P!At(r)
    BY <2>1 DEF P!At
  <2>3. CASE s \in P!Active
    <3>1. P!Spoil({})
      BY <1>9, <2>3 DEF P!Expire, P!Starve, P!Lapse
    <3>2. \A r \in P!Broadcasts : r \in P!Reading' => r \in P!Reading \ {}
      BY <2>2 DEF P!Reading
    <3>3. QED
      BY <3>1, <3>2, SpoilingExcuses
  <2>4. CASE s \notin P!Active
    <3>1. UNCHANGED <<told, overtaken>>
      BY <1>9, <2>4 DEF P!Expire, P!Starve, P!Lapse
    <3>2. \A t \in Sockets : (hash'[t] = "full" => hash[t] = "full")
                             /\ (hash[t] = "full" /\ hash'[t] # "full" => t \notin members)
      BY <2>1, <2>4 DEF P!Active, P!Stale, StoreTypes
    <3>3. P!Active' = P!Active
      BY <2>1, <3>2 DEF P!Active, P!Stale, StoreTypes
    <3>4. QED
      BY <2>1, <2>2, <3>1, <3>2, <3>3, QuietKeeps
  <2>5. QED
    BY <2>3, <2>4
\* A broadcast owes its update until it sends it.
<1>10. ASSUME NEW r \in P!Broadcasts,
              P!ReadMembers(r) \/ P!FetchPayloads(r) \/ P!FailPayloads(r) \/ P!RemoveStale(r)
       PROVE  ToldInv' /\ ReadInv'
  <2>1. PICK l \in P!ReadSteps : P!Go(r, l) /\ P!At(r) \in P!ReadSteps
    BY <1>10 DEF P!ReadMembers, P!FetchPayloads, P!FailPayloads, P!Found, P!RemoveStale, P!ReadSteps
  <2>2. P!At(r)' = l /\ \A q \in P!Broadcasts : q # r => P!At(q)' = P!At(q)
    BY <2>1, GoMoves
  <2>3. Owes(r)'
    BY <2>2 DEF Owes, Owing
  <2>4. Other(r) => Other(r)'
    BY <2>2 DEF Other, Owes
  <2>5. UNCHANGED <<hash, overtaken>>
    BY <1>10, Zenon DEF P!ReadMembers, P!FetchPayloads, P!FailPayloads, P!Found, P!RemoveStale, P!redis, P!history
  <2>6. P!At(r) # "smembers" /\ r \notin overtaken => Right(r) \/ Other(r)
    BY <2>1 DEF ReadInv, P!Reading, P!ReadSteps
  <2>7. CASE P!ReadMembers(r)
    <3>1. got'[r] = members /\ members' = members /\ P!At(r)' = "payloads"
      BY <2>2, <2>7, GoMoves DEF P!ReadMembers, P!redis, HandlerTypes, P!ReadSteps
    <3>2. Right(r)'
      BY <2>5, <3>1 DEF Right, P!Active, P!Stale
    <3>3. QED
      BY <2>3, <3>2, OwingVouches
  <2>8. CASE P!FetchPayloads(r)
    <3>1. /\ got'[r] = P!Stale(got[r]) /\ saw'[r] = (P!Stale(got[r]) # got[r]) /\ members' = members
          /\ P!At(r) = "payloads"
      BY <2>8 DEF P!FetchPayloads, P!Found, P!redis, HandlerTypes
    <3>2. P!At(r)' = IF P!Stale(got[r]) = {} THEN "emit" ELSE "stale"
      BY <2>8, GoMoves DEF P!FetchPayloads, P!Found, P!ReadSteps
    <3>3. P!Active' = P!Active
      BY <2>5, <3>1 DEF P!Active, P!Stale
    <3>4. P!Stale(got[r]) \subseteq got[r] /\ P!Active \cap P!Stale(got[r]) = {}
      BY DEF P!Active, P!Stale
    <3>5. CASE P!Active = got[r] \ P!Stale(got[r])
      <4>1. (P!Stale(got[r]) # got[r]) = (P!Active # {})
        BY <3>4, <3>5
      <4>2. (P!Active \ P!Stale(got[r]) # {}) = (P!Active # {})
        BY <3>4
      <4>3. Right(r)'
        BY <3>1, <3>2, <3>3, <4>1, <4>2 DEF Right, P!Online
      <4>4. QED
        BY <2>3, <4>3, OwingVouches
    <3>6. CASE r \in overtaken \/ Other(r)
      BY <2>3, <2>4, <2>5, <3>6, OwingVouches
    <3>7. QED
      BY <2>6, <3>1, <3>5, <3>6 DEF Right
  <2>9. CASE P!FailPayloads(r)
    <3>1. PICK lost \in SUBSET got[r] :
             /\ got'[r] = P!Stale(got[r]) \cup lost /\ saw'[r] = (got'[r] # got[r])
             /\ members' = members /\ P!At(r) = "payloads"
      BY <2>9 DEF P!FailPayloads, P!Found, P!redis, HandlerTypes
    <3>2. P!At(r)' = "stale"
      BY <2>9, GoMoves DEF P!FailPayloads, P!Found, P!ReadSteps
    <3>3. P!Active' = P!Active
      BY <2>5, <3>1 DEF P!Active, P!Stale
    <3>4. CASE P!Active = got[r] \ P!Stale(got[r])
      <4>1. (got'[r] # got[r]) = (P!Active \ got'[r] # {})
        BY <3>1, <3>4 DEF P!Stale
      <4>2. Right(r)'
        BY <3>1, <3>2, <3>3, <4>1 DEF Right
      <4>3. QED
        BY <2>3, <4>2, OwingVouches
    <3>5. CASE r \in overtaken \/ Other(r)
      BY <2>3, <2>4, <2>5, <3>5, OwingVouches
    <3>6. QED
      BY <2>6, <3>1, <3>4, <3>5 DEF Right
  <2>10. CASE P!RemoveStale(r)
    <3>1. members' = members \ got[r] /\ saw' = saw /\ P!At(r) = "stale"
      BY <2>10 DEF P!RemoveStale
    <3>2. P!At(r)' = "emit"
      BY <2>10, GoMoves DEF P!RemoveStale, P!ReadSteps
    <3>3. P!Active' = P!Active \ got[r]
      BY <2>5, <3>1 DEF P!Active, P!Stale
    <3>4. CASE Right(r)
      <4>1. saw[r] = (P!Active \ got[r] # {})
        BY <3>1, <3>4 DEF Right
      <4>2. Right(r)'
        BY <3>1, <3>2, <3>3, <4>1 DEF Right, P!Online
      <4>3. QED
        BY <2>3, <4>2, OwingVouches
    <3>5. CASE r \in overtaken \/ Other(r)
      BY <2>3, <2>4, <2>5, <3>5, OwingVouches
    <3>6. QED
      BY <2>6, <3>1, <3>4, <3>5
  <2>11. QED
    BY <1>10, <2>7, <2>8, <2>9, <2>10
\* What is told is what was read: it is right unless somebody else owes an update, or
\* the broadcast was overtaken.
<1>11. ASSUME NEW r \in P!Broadcasts, P!Emit(r) PROVE ToldInv' /\ ReadInv'
  <2>1. /\ announced' = saw[r] /\ told' = (r \notin overtaken) /\ UNCHANGED <<hash, members>>
        /\ P!At(r) = "emit" /\ P!Go(r, "done") /\ overtaken' = P!Reading \ {r}
    BY <1>11, Zenon DEF P!Emit, P!redis
  <2>2. P!At(r)' = "done" /\ \A q \in P!Broadcasts : q # r => P!At(q)' = P!At(q)
    BY <2>1, GoMoves DEF P!ReadSteps
  <2>3. P!Reading' \ overtaken' = {}
    BY <2>1, <2>2 DEF P!Reading
  <2>4. P!Online' = P!Online
    BY <2>1 DEF P!Online, P!Active, P!Stale
  <2>5. r \notin overtaken => saw[r] = P!Online \/ Other(r)
    BY <2>1 DEF ReadInv, P!Reading, Right
  <2>6. Other(r) => \E q \in P!Broadcasts : Owes(q)'
    BY <2>2 DEF Other, Owes
  <2>7. told' => announced' = P!Online' \/ \E q \in P!Broadcasts : Owes(q)'
    BY <2>1, <2>4, <2>5, <2>6
  <2>8. QED
    BY <2>3, <2>7 DEF ToldInv, ReadInv
<1>12. ASSUME NEW out \in SUBSET members, P!ReadElsewhere(out) PROVE ToldInv' /\ ReadInv'
  <2>1. UNCHANGED <<conn, disc, got, saw, hash, announced>> /\ members' = members \ out
    BY <1>12 DEF P!ReadElsewhere, P!handlers
  <2>2. \A r \in P!Broadcasts : P!At(r)' = P!At(r)
    BY <2>1 DEF P!At
  <2>3. CASE out = P!Stale(out)
    <3>1. UNCHANGED <<told, overtaken>>
      BY <1>12, <2>3 DEF P!ReadElsewhere, P!history
    <3>2. P!Active' = P!Active
      BY <2>1, <2>3 DEF P!Active, P!Stale
    <3>3. QED
      BY <2>1, <2>2, <3>1, <3>2, QuietKeeps
  <2>4. CASE out # P!Stale(out)
    <3>1. P!Spoil({})
      BY <1>12, <2>4 DEF P!ReadElsewhere
    <3>2. \A r \in P!Broadcasts : r \in P!Reading' => r \in P!Reading \ {}
      BY <2>2 DEF P!Reading
    <3>3. QED
      BY <3>1, <3>2, SpoilingExcuses
  <2>5. QED
    BY <2>3, <2>4
<1>13. CASE UNCHANGED P!vars
  <2>1. UNCHANGED <<conn, disc, got, saw, hash, members, announced, told, overtaken>>
    BY <1>13, Zenon DEF P!vars, P!handlers, P!redis, P!history
  <2>2. \A r \in P!Broadcasts : P!At(r)' = P!At(r)
    BY <2>1 DEF P!At
  <2>3. QED
    BY <2>1, <2>2, QuietKeeps DEF P!Active, P!Stale
<1>14. QED
  BY <1>1, <1>2, <1>3, <1>4, <1>5, <1>6, <1>7, <1>8, <1>9, <1>10, <1>11, <1>12, <1>13
     DEF P!Next, P!Run, P!Read

-----------------------------------------------------------------------------
(* The theorems.                                                              *)

LEMMA PresenceStepInductive ==
  ASSUME PresenceInv, [P!Next]_P!vars
  PROVE  PresenceInv'
<1>1. HandlerTypes /\ StoreTypes /\ HistoryTypes /\ Flags /\ ReadersHold
  BY TypesSplit DEF PresenceInv
<1>2. /\ LinkInv /\ UnwrittenInv /\ PartialInv /\ AddedInv /\ KeyInv /\ MemberInv /\ StaleInv
      /\ GhostInv /\ ToldInv /\ ReadInv
  BY DEF PresenceInv
<1>3. P!TypeOK'
  <2>1. HandlerTypes' /\ StoreTypes' /\ HistoryTypes' /\ Flags' /\ ReadersHold'
    BY <1>1, <1>2, HandlerTypesPreserved, StoreTypesPreserved, HistoryTypesPreserved,
       FlagsPreserved, ReadersHoldPreserved
  <2>2. QED
    BY <2>1, TypesSplit, PTL
<1>4. LinkInv' /\ UnwrittenInv' /\ PartialInv' /\ AddedInv'
  BY <1>1, <1>2, LinkPreserved, UnwrittenPreserved, PartialPreserved, AddedPreserved
<1>5. KeyInv' /\ MemberInv' /\ StaleInv' /\ GhostInv'
  BY <1>1, <1>2, KeyPreserved, MemberPreserved, StalePreserved, GhostPreserved
<1>6. ToldInv' /\ ReadInv'
  BY <1>1, <1>2, ToldPreserved
<1>7. QED
  BY <1>3, <1>4, <1>5, <1>6 DEF PresenceInv

LEMMA PresenceAlways == P!Spec => []PresenceInv
<1>1. P!Init => PresenceInv
  BY PresenceInitInductive
<1>2. PresenceInv /\ [P!Next]_P!vars => PresenceInv'
  BY PresenceStepInductive
<1>3. QED
  BY <1>1, <1>2, PTL DEF P!Spec

-----------------------------------------------------------------------------
(* Typing: TypeOK and VisibleEnds are inductive.                              *)
-----------------------------------------------------------------------------

LEMMA TypingInitInductive == T!Init => T!TypeOK /\ T!VisibleEnds
BY DEF T!Init, T!TypeOK, T!VisibleEnds

-----------------------------------------------------------------------------
(* Every step preserves the types.                                            *)

LEMMA TypingTypePreserved ==
  ASSUME T!TypeOK, [T!Next]_T!vars
  PROVE  T!TypeOK'
<1>1. ASSUME NEW c \in Calls, T!Start(c) \/ T!Stop(c) PROVE T!TypeOK'
  BY <1>1 DEF T!Start, T!Stop, T!Begin, T!CallAt, T!ClearTimer, T!TypeOK
<1>2. ASSUME NEW c \in Calls, T!Set(c) \/ T!Del(c) PROVE T!TypeOK'
  <2>1. call' \in [Calls -> {"new", "set", "del", "show", "hide", "over"}]
    BY <1>2 DEF T!Set, T!Del, T!CallAt, T!TypeOK
  <2>2. CASE T!Set(c)
    BY <2>1, <2>2 DEF T!Set, T!TypeOK
  <2>3. CASE T!Del(c)
    BY <2>1, <2>3 DEF T!Del, T!TypeOK
  <2>4. QED
    BY <1>2, <2>2, <2>3
<1>3. ASSUME NEW c \in Calls, T!Tell(c) PROVE T!TypeOK'
  <2>1. visible' \in BOOLEAN /\ late' \in BOOLEAN
    BY <1>3, Zenon DEF T!Tell
  <2>2. QED
    BY <1>3, <2>1 DEF T!Tell, T!CallAt, T!TypeOK
<1>4. ASSUME NEW c \in Calls, T!Fail(c) PROVE T!TypeOK'
  <2>1. key' \in BOOLEAN
    BY <1>4, Zenon DEF T!Fail, T!TypeOK
  <2>2. QED
    BY <1>4, <2>1 DEF T!Fail, T!TypeOK
<1>5. ASSUME NEW c \in Calls, T!Fire(c) \/ T!FireTell(c) \/ T!FireFail(c) PROVE T!TypeOK'
  BY <1>5 DEF T!Fire, T!FireTell, T!FireFail, T!TypeOK
<1>6. ASSUME NEW c \in Calls, T!FireDel(c) PROVE T!TypeOK'
  BY <1>6 DEF T!FireDel, T!TypeOK
<1>7. ASSUME NEW g \in Gateways, T!Crash(g) PROVE T!TypeOK'
  BY <1>7 DEF T!Crash, T!TypeOK
<1>8. CASE T!KeyExpires
  BY <1>8 DEF T!KeyExpires, T!TypeOK
<1>9. CASE UNCHANGED T!vars
  BY <1>9 DEF T!vars, T!TypeOK
<1>10. QED
  BY <1>1, <1>2, <1>3, <1>4, <1>5, <1>7, <1>8, <1>9, <1>6 DEF T!Next

-----------------------------------------------------------------------------
(* Every step leaves somebody who will end what is visible.                   *)

LEMMA VisiblePreserved ==
  ASSUME T!TypeOK, T!VisibleEnds, [T!Next]_T!vars
  PROVE  T!VisibleEnds'
\* A call that clears the timer is on its way to set one or to tell.
<1>1. ASSUME NEW c \in Calls, T!Start(c) \/ T!Stop(c) PROVE T!VisibleEnds'
  <2>1. call'[c] \in {"set", "del"}
    BY <1>1 DEF T!Start, T!Stop, T!Begin, T!CallAt, T!TypeOK
  <2>2. QED
    BY <2>1 DEF T!VisibleEnds
\* The timer takes over from the call that sets it.
<1>2. ASSUME NEW c \in Calls, T!Set(c) PROVE T!VisibleEnds'
  BY <1>2 DEF T!Set, T!VisibleEnds
<1>3. ASSUME NEW c \in Calls, T!Del(c) PROVE T!VisibleEnds'
  <2>1. call'[c] = "hide"
    BY <1>3 DEF T!Del, T!CallAt, T!TypeOK
  <2>2. QED
    BY <2>1 DEF T!VisibleEnds
\* What is told is seen only while the timer of its call runs, or else it is late.
<1>4. ASSUME NEW c \in Calls, T!Tell(c) PROVE T!VisibleEnds'
  BY <1>4 DEF T!Tell, T!VisibleEnds
<1>5. ASSUME NEW c \in Calls, T!Fail(c) \/ T!FireFail(c) PROVE T!VisibleEnds'
  BY <1>5 DEF T!Fail, T!FireFail, T!VisibleEnds
\* A timer that fires is on its way to tell.
<1>6. ASSUME NEW c \in Calls, T!Fire(c) \/ T!FireDel(c) PROVE T!VisibleEnds'
  <2>1. firing'[c] # "no"
    BY <1>6 DEF T!Fire, T!FireDel, T!TypeOK
  <2>2. QED
    BY <2>1 DEF T!VisibleEnds
<1>7. ASSUME NEW c \in Calls, T!FireTell(c) PROVE T!VisibleEnds'
  BY <1>7 DEF T!FireTell, T!VisibleEnds
<1>8. ASSUME NEW g \in Gateways, T!Crash(g) PROVE T!VisibleEnds'
  BY <1>8 DEF T!Crash, T!VisibleEnds
<1>9. CASE T!KeyExpires
  BY <1>9 DEF T!KeyExpires, T!VisibleEnds
<1>10. CASE UNCHANGED T!vars
  BY <1>10 DEF T!vars, T!VisibleEnds
<1>11. QED
  BY <1>1, <1>2, <1>3, <1>4, <1>5, <1>6, <1>7, <1>8, <1>9, <1>10 DEF T!Next

LEMMA TypingAlways == T!Spec => [](T!TypeOK /\ T!VisibleEnds)
<1>1. (T!TypeOK /\ T!VisibleEnds) /\ [T!Next]_T!vars => (T!TypeOK /\ T!VisibleEnds)'
  BY TypingTypePreserved, VisiblePreserved
<1>2. QED
  BY <1>1, TypingInitInductive, PTL DEF T!Spec

-----------------------------------------------------------------------------
(* Reports: the inductive invariant.                                          *)
-----------------------------------------------------------------------------

\* A request that goes on works with a report that exists, and reports stay.
ReportsWorkInv ==
    \A d \in Admins : pc[d] # "idle" =>
        /\ held[d] \in [id : Ids, status : R!Decision]
        /\ R!Filed(held[d].id)

ReportsInv == R!TypeOK /\ ReportsWorkInv /\ R!DecisionIsLogged

LEMMA ReportsDiffer == R!NoReport \notin R!Report /\ \A r \in R!Report : r.status # "none"
BY DEF R!NoReport, R!Report, R!Decision

LEMMA ReportsInitInductive == R!Init => ReportsInv
<1> SUFFICES ASSUME R!Init PROVE ReportsInv
  OBVIOUS
<1>1. R!TypeOK
  BY DEF R!Init, R!TypeOK, R!Entry
<1>2. ReportsWorkInv
  BY DEF R!Init, ReportsWorkInv
<1>3. R!DecisionIsLogged
  BY DEF R!Init, R!DecisionIsLogged, R!NoReport, R!Decision
<1>4. QED
  BY <1>1, <1>2, <1>3 DEF ReportsInv

\* What a decision writes over a report is a report with that decision.
LEMMA SavedReport ==
  ASSUME R!TypeOK, ReportsWorkInv, NEW d \in Admins, R!SaveReport(d)
  PROVE  /\ held[d].id \in Ids
         /\ report' = [report EXCEPT ![held[d].id] =
                          [@ EXCEPT !.status = held[d].status, !.handledBy = d]]
         /\ report'[held[d].id] \in R!Report
         /\ report'[held[d].id].status = held[d].status
         /\ report'[held[d].id].handledBy = d
<1> DEFINE i == held[d].id
<1>1. held[d] \in [id : Ids, status : R!Decision] /\ report[i] \in R!Report
  BY ReportsDiffer DEF R!TypeOK, ReportsWorkInv, R!SaveReport, R!Filed, R!NoReport
<1>2. report' = [report EXCEPT ![i] = [@ EXCEPT !.status = held[d].status, !.handledBy = d]]
  BY DEF R!SaveReport
<1>3. report'[i] = [report[i] EXCEPT !.status = held[d].status, !.handledBy = d]
  BY <1>1, <1>2 DEF R!TypeOK
<1>4. report'[i] \in R!Report
  <2>1. PICK r \in R!Report : r = report[i]
    BY <1>1
  <2>2. [r EXCEPT !.status = held[d].status, !.handledBy = d] \in R!Report
    BY <1>1 DEF R!Report
  <2>3. QED
    BY <1>3, <2>1, <2>2
<1>5. report'[i].status = held[d].status /\ report'[i].handledBy = d
  BY <1>1, <1>3 DEF R!Report
<1>6. QED
  BY <1>1, <1>2, <1>4, <1>5

-----------------------------------------------------------------------------
(* Every step preserves the types.                                            *)

LEMMA ReportsTypePreserved ==
  ASSUME R!TypeOK, ReportsWorkInv, [R!Next]_R!vars
  PROVE  R!TypeOK'
<1>1. ASSUME NEW p \in R!People, R!Ban(p) PROVE R!TypeOK'
  BY <1>1 DEF R!Ban, R!TypeOK, R!handlers
<1>2. ASSUME NEW u \in Users, R!StartReport(u) PROVE R!TypeOK'
  BY <1>2 DEF R!StartReport, R!TypeOK
<1>3. ASSUME NEW u \in Users, R!CreateReport(u) PROVE R!TypeOK'
  <2>1. filing[u] \in R!Target
    BY <1>3 DEF R!CreateReport, R!TypeOK
  <2>2. R!ReportedUser(filing[u]) \in Users \cup {Nobody}
    BY <2>1, AuthorAssumption DEF R!ReportedUser, R!Target
  <2>3. [status |-> "pending_review", on |-> filing[u], reported |-> R!ReportedUser(filing[u]),
         reporter |-> u, handledBy |-> Nobody] \in R!Report
    BY <2>1, <2>2 DEF R!Report
  <2>4. QED
    BY <1>3, <2>3 DEF R!CreateReport, R!TypeOK
<1>4. ASSUME NEW u \in Users, R!FailReport(u) PROVE R!TypeOK'
  BY <1>4 DEF R!FailReport, R!TypeOK
<1>5. ASSUME NEW d \in Admins, NEW i \in Ids, NEW s \in R!Decision, R!ReadReport(d, i, s)
      PROVE  R!TypeOK'
  BY <1>5 DEF R!ReadReport, R!TypeOK
<1>6. ASSUME NEW d \in Admins, R!SaveReport(d) PROVE R!TypeOK'
  <2>1. report' \in [Ids -> R!Report \cup {R!NoReport}]
    BY <1>6, SavedReport DEF R!TypeOK
  <2>2. QED
    BY <1>6, <2>1 DEF R!SaveReport, R!TypeOK
<1>7. ASSUME NEW d \in Admins, R!CreateLog(d) \/ R!FailProcess(d) PROVE R!TypeOK'
  <2>1. pc[d] = "log" => R!EntryOf(d) \in R!Entry
    BY DEF ReportsWorkInv, R!EntryOf, R!Entry
  <2>2. QED
    BY <1>7, <2>1 DEF R!CreateLog, R!FailProcess, R!Over, R!TypeOK
<1>8. CASE UNCHANGED R!vars
  BY <1>8 DEF R!vars, R!handlers, R!TypeOK
<1>9. QED
  BY <1>1, <1>2, <1>3, <1>4, <1>5, <1>6, <1>7, <1>8 DEF R!Next

-----------------------------------------------------------------------------
(* Every step keeps a request with its report.                                *)

LEMMA ReportsWorkPreserved ==
  ASSUME R!TypeOK, ReportsWorkInv, [R!Next]_R!vars
  PROVE  ReportsWorkInv'
<1>1. ASSUME NEW p \in R!People, R!Ban(p) PROVE ReportsWorkInv'
  BY <1>1 DEF R!Ban, ReportsWorkInv, R!Filed, R!handlers
<1>2. ASSUME NEW u \in Users, R!StartReport(u) \/ R!FailReport(u) PROVE ReportsWorkInv'
  BY <1>2 DEF R!StartReport, R!FailReport, ReportsWorkInv, R!Filed
<1>3. ASSUME NEW u \in Users, R!CreateReport(u) PROVE ReportsWorkInv'
  <2>1. \A i \in Ids : R!Filed(i) => R!Filed(i)'
    BY <1>3 DEF R!CreateReport, R!TypeOK, R!Filed
  <2>2. QED
    BY <1>3, <2>1 DEF R!CreateReport, ReportsWorkInv
<1>4. ASSUME NEW d \in Admins, NEW i \in Ids, NEW s \in R!Decision, R!ReadReport(d, i, s)
      PROVE  ReportsWorkInv'
  BY <1>4 DEF R!ReadReport, R!TypeOK, ReportsWorkInv, R!Filed
<1>5. ASSUME NEW d \in Admins, R!SaveReport(d) PROVE ReportsWorkInv'
  <2>1. \A i \in Ids : R!Filed(i) => R!Filed(i)'
    BY <1>5, SavedReport, ReportsDiffer DEF R!TypeOK, R!Filed
  <2>2. QED
    BY <1>5, <2>1 DEF R!SaveReport, ReportsWorkInv, R!TypeOK
<1>6. ASSUME NEW d \in Admins, R!CreateLog(d) \/ R!FailProcess(d) PROVE ReportsWorkInv'
  BY <1>6 DEF R!CreateLog, R!FailProcess, R!Over, R!TypeOK, ReportsWorkInv, R!Filed
<1>7. CASE UNCHANGED R!vars
  BY <1>7 DEF R!vars, R!handlers, ReportsWorkInv, R!Filed
<1>8. QED
  BY <1>1, <1>2, <1>3, <1>4, <1>5, <1>6, <1>7 DEF R!Next

-----------------------------------------------------------------------------
(* Every step keeps the decisions in the log.                                 *)

LEMMA LoggedPreserved ==
  ASSUME R!TypeOK, ReportsWorkInv, R!DecisionIsLogged, [R!Next]_R!vars
  PROVE  R!DecisionIsLogged'
<1> DEFINE Logged(i) ==
      LET d == report[i].handledBy
          e == [actor |-> d, id |-> i, status |-> report[i].status]
      IN  \/ e \in log \cup unlogged
          \/ d \in Admins /\ pc[d] = "log" /\ R!EntryOf(d) = e
<1>0. /\ \A i \in Ids : report[i].status \in R!Decision => Logged(i)
      /\ (\A i \in Ids : report'[i].status \in R!Decision => Logged(i)') => R!DecisionIsLogged'
  BY Zenon DEF R!DecisionIsLogged
<1>1. ASSUME NEW p \in R!People, R!Ban(p) PROVE R!DecisionIsLogged'
  BY <1>0, <1>1 DEF R!Ban, R!EntryOf, R!handlers
<1>2. ASSUME NEW u \in Users, R!StartReport(u) \/ R!FailReport(u) PROVE R!DecisionIsLogged'
  BY <1>0, <1>2 DEF R!StartReport, R!FailReport, R!EntryOf
<1>3. ASSUME NEW u \in Users, R!CreateReport(u) PROVE R!DecisionIsLogged'
  <2>1. ASSUME NEW i \in Ids, report'[i].status \in R!Decision PROVE report'[i] = report[i]
    BY <1>3, <2>1 DEF R!CreateReport, R!TypeOK, R!Decision
  <2>2. QED
    BY <1>0, <1>3, <2>1 DEF R!CreateReport, R!EntryOf
<1>4. ASSUME NEW d \in Admins, NEW i \in Ids, NEW s \in R!Decision, R!ReadReport(d, i, s)
      PROVE  R!DecisionIsLogged'
  BY <1>0, <1>4 DEF R!ReadReport, R!TypeOK, R!EntryOf
<1>5. ASSUME NEW d \in Admins, R!SaveReport(d) PROVE R!DecisionIsLogged'
  <2>1. ASSUME NEW i \in Ids, i # held[d].id, report'[i].status \in R!Decision PROVE Logged(i)'
    <3>1. report'[i] = report[i]
      BY <2>1, <1>5, SavedReport DEF R!TypeOK
    <3>2. QED
      BY <1>0, <1>5, <2>1, <3>1 DEF R!SaveReport, R!TypeOK, R!EntryOf
  <2>2. Logged(held[d].id)'
    <3>1. held' = held /\ pc'[d] = "log"
      BY <1>5 DEF R!SaveReport, R!TypeOK
    <3>2. report'[held[d].id].status = held[d].status /\ report'[held[d].id].handledBy = d
      BY <1>5, SavedReport
    <3>3. QED
      BY <3>1, <3>2 DEF R!EntryOf
  <2>3. held' = held
    BY <1>5 DEF R!SaveReport
  <2>4. QED
    <3> HIDE DEF Logged
    <3>1. QED
      BY <1>0, <2>1, <2>2, <2>3
<1>6. ASSUME NEW d \in Admins, R!CreateLog(d) \/ R!FailProcess(d) PROVE R!DecisionIsLogged'
  <2>1. /\ report' = report
        /\ log \cup unlogged \subseteq log' \cup unlogged'
        /\ pc[d] = "log" => R!EntryOf(d) \in log' \cup unlogged'
        /\ \A b \in Admins \ {d} : pc'[b] = pc[b] /\ R!EntryOf(b)' = R!EntryOf(b)
    BY <1>6 DEF R!CreateLog, R!FailProcess, R!Over, R!TypeOK, R!EntryOf
  <2>2. QED
    BY <1>0, <2>1
<1>7. CASE UNCHANGED R!vars
  BY <1>0, <1>7 DEF R!vars, R!handlers, R!EntryOf
<1>8. QED
  BY <1>1, <1>2, <1>3, <1>4, <1>5, <1>6, <1>7 DEF R!Next

LEMMA ReportsAlways == R!Spec => []ReportsInv
<1>1. ReportsInv /\ [R!Next]_R!vars => ReportsInv'
  BY ReportsTypePreserved, ReportsWorkPreserved, LoggedPreserved DEF ReportsInv
<1>2. QED
  BY <1>1, ReportsInitInductive, PTL DEF R!Spec

-----------------------------------------------------------------------------
(* The whole is each of its parts.                                            *)

\* A step of the whole is a step of a part or leaves it alone.
LEMMA PartsAreImplemented == RealtimeSpec => Spec /\ P!Spec /\ T!Spec /\ R!Spec
<1>1. RealtimeInit => Init /\ P!Init /\ T!Init /\ R!Init
  BY DEF RealtimeInit
<1>2. UNCHANGED presence => UNCHANGED P!vars
  BY DEF presence, P!vars, P!handlers, P!redis, P!history
<1>3. UNCHANGED typing => UNCHANGED T!vars
  BY DEF typing, T!vars
<1>4. UNCHANGED reports => UNCHANGED R!vars
  BY DEF reports, R!vars, R!handlers
<1>5. [RealtimeNext]_realtime => [Next]_vars /\ [P!Next]_P!vars /\ [T!Next]_T!vars /\ [R!Next]_R!vars
  <2> SUFFICES ASSUME [RealtimeNext]_realtime
               PROVE  [Next]_vars /\ [P!Next]_P!vars /\ [T!Next]_T!vars /\ [R!Next]_R!vars
    OBVIOUS
  <2>1. CASE InboxStep
    BY <1>2, <1>3, <1>4, <2>1, Zenon DEF InboxStep
  <2>2. CASE PresenceStep
    BY <1>3, <1>4, <2>2, Zenon DEF PresenceStep
  <2>3. CASE TypingStep
    BY <1>2, <1>4, <2>3, Zenon DEF TypingStep
  <2>4. CASE ReportsStep
    BY <1>2, <1>3, <2>4, Zenon DEF ReportsStep
  <2>5. CASE UNCHANGED realtime
    BY <1>2, <1>3, <1>4, <2>5, Zenon DEF realtime
  <2>6. QED
    BY <2>1, <2>2, <2>3, <2>4, <2>5, Zenon DEF RealtimeNext
<1>6. QED
  BY <1>1, <1>5, PTL DEF RealtimeSpec, Spec, P!Spec, T!Spec, R!Spec

-----------------------------------------------------------------------------
(* The theorems.                                                              *)

\* Every variable of every part keeps its type.
THEOREM TypeCorrect == RealtimeSpec => [](TypeOK /\ P!TypeOK /\ T!TypeOK /\ R!TypeOK)
<1>1. InboxInv => TypeOK
  BY DEF InboxInv
<1>2. PresenceInv => P!TypeOK
  BY DEF PresenceInv
<1>3. ReportsInv => R!TypeOK
  BY DEF ReportsInv
<1>4. QED
  BY <1>1, <1>2, <1>3, PartsAreImplemented, InboxAlways, PresenceAlways, TypingAlways, ReportsAlways, PTL

\* Whatever the connection missed, and whatever pushes and reloads of a list that is
\* gone came in between, a list that waits for nothing shows what the server counts,
\* if nothing crossed the last count it was given: the rooms are joined before the
\* connection is ready (chat.gateway.ts:84-103), so a message after the count is
\* announced to the device, which counts on, and never one before it.
THEOREM UnreadAgrees == RealtimeSpec => []UnreadIsRight
<1>1. InboxInv => UnreadIsRight
  <2> SUFFICES ASSUME InboxInv, Quiet, right PROVE list = Unread(cursor) /\ agreed
    BY DEF UnreadIsRight
  <2>1. ~Owed
    BY DEF Quiet, Owed, UnderWay, Idle
  <2>2. Agree
    BY <2>1 DEF InboxInv, RightInv, Agree
  <2>3. Told = {} /\ Coming = {} /\ Cardinality({}) = 0
    BY FS_EmptySet DEF Quiet, Told, Coming
  <2>4. list \in Nat
    BY <2>2 DEF Agree
  <2>5. QED
    BY <2>2, <2>3, <2>4 DEF Agree
<1>2. QED
  BY <1>1, PartsAreImplemented, InboxAlways, PTL

\* However many sockets and handlers overlap, a connected socket keeps its user
\* online unless its key was starved, a command for it failed, or a late DEL took the
\* whole set.
THEOREM ConnectedCount == RealtimeSpec => []ConnectedIsActive
<1>1. PresenceInv => ConnectedIsActive
  <2> SUFFICES ASSUME PresenceInv, NEW s \in P!Registered, s \notin starved \cup wiped \cup missed
               PROVE  s \in P!Active
    BY DEF ConnectedIsActive, P!ConnectedIsActive
  <2>1. s \in Sockets /\ socket[s] = "up" /\ conn[s] \notin {"idle", "hset", "sadd"}
    BY DEF P!Registered, P!ReadSteps
  <2>2. hash[s] = "full" /\ s \in members
    BY <2>1 DEF PresenceInv, KeyInv, MemberInv
  <2>3. QED
    BY <2>2 DEF P!Active, P!Stale
<1>2. QED
  BY <1>1, PartsAreImplemented, PresenceAlways, PTL

\* However many broadcasts overlap, when no handler runs the rooms know what Redis
\* knows, if none overtook the last broadcast and nothing failed since its read; and
\* while nothing fails Redis knows whether the user is connected, but for sockets
\* that left before they were registered and for a late DEL (lines 26-38 of
\* realtime-broadcast.service.ts, 61-101 and 201-222 of
\* redis-realtime-presence.store.ts).
THEOREM QuietKnows == RealtimeSpec => []QuietIsTold
<1>1. ASSUME PresenceInv, P!Quiet, told PROVE announced = P!Online
  BY <1>1 DEF PresenceInv, ToldInv, P!Quiet, Owes, Owing, P!ReadSteps
<1>2. ASSUME PresenceInv, P!Quiet, faults = 0, hasty \cup wiped = {}
      PROVE  P!Online = (\E s \in Sockets : socket[s] = "up")
  <2>0. \A s \in Sockets : conn[s] \in {"idle", "done"} /\ disc[s] \in {"idle", "done"}
    BY <1>2, AtPlaces DEF P!Quiet
  <2>1. ASSUME NEW s \in Sockets, socket[s] = "up" PROVE s \in P!Active
    BY <1>2, <2>0, <2>1 DEF PresenceInv, GhostInv, LinkInv, KeyInv, MemberInv, P!Active, P!Stale
  <2>2. ASSUME NEW s \in P!Active PROVE s \in Sockets /\ socket[s] = "up"
    <3>1. s \in Sockets /\ hash[s] = "full" /\ socket[s] \in {"new", "up", "gone"}
      BY <1>2, <2>2 DEF PresenceInv, P!TypeOK, P!Active, P!Stale
    <3>2. QED
      BY <1>2, <2>0, <3>1 DEF PresenceInv, GhostInv, LinkInv, UnwrittenInv
  <2>3. QED
    BY <2>1, <2>2 DEF P!Online
<1>3. PresenceInv => QuietIsTold
  BY <1>1, <1>2 DEF QuietIsTold, P!QuietIsTold
<1>4. QED
  BY <1>3, PartsAreImplemented, PresenceAlways, PTL

\* However many gateways and calls overlap, an indicator that the members see is
\* ended by a timer or a handler, unless a call or the notice of a timer failed, a
\* gateway died or a start was told late (lines 30, 37-50 and 75 of
\* realtime-typing.service.ts, 166-171 of chat.gateway.ts).
THEOREM IndicatorsEnd == RealtimeSpec => []VisibleEnds
<1>1. T!VisibleEnds => VisibleEnds
  BY DEF VisibleEnds
<1>2. QED
  BY <1>1, PartsAreImplemented, TypingAlways, PTL

\* However many administrators process a report at once, and whatever fails, what
\* its row says was decided is in the audit log, or about to be, or its request
\* failed between the save and the log (lines 180-181 of admin.service.ts).
THEOREM DecisionsAreLogged == RealtimeSpec => []DecisionIsLogged
<1>1. ReportsInv => DecisionIsLogged
  BY DEF ReportsInv, DecisionIsLogged
<1>2. QED
  BY <1>1, PartsAreImplemented, ReportsAlways, PTL
=============================================================================
