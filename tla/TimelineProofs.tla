--------------------------- MODULE TimelineProofs ---------------------------
(* Theorems about Timeline, for any number of conversations, calls, rows,     *)
(* connections and events, and any sizes of the pages.                        *)
EXTENDS Timeline, FiniteSetTheorems, WellFoundedInduction, TLAPS

(* Greatest and least elements.                                               *)

LEMMA LeastExists ==
  ASSUME NEW T \in SUBSET Nat, T # {}
  PROVE  \E x \in T : \A y \in T : x <= y
<1> DEFINE Less == {p \in Nat \X Nat : p[1] < p[2]}
<1>1. IsWellFoundedOn(Less, Nat)
  BY NatLessThanWellFounded DEF OpToRel
<1>2. PICK x \in T : \A y \in T : ~ (<<y, x>> \in Less)
  <2> HIDE DEF Less
  <2>1. QED
    BY <1>1, WFMin
<1>3. ASSUME NEW y \in T PROVE x <= y
  <2>1. x \in Nat /\ y \in Nat
    OBVIOUS
  <2>2. ~ (y < x)
    BY <1>2, <2>1
  <2>3. QED
    BY <2>1, <2>2
<1>4. QED
  BY <1>3

LEMMA GreatestExists ==
  ASSUME NEW T \in SUBSET Nat, T # {}, NEW n \in Nat, \A t \in T : t <= n
  PROVE  \E x \in T : \A y \in T : x >= y
<1> DEFINE U == {n - t : t \in T}
<1>1. U \in SUBSET Nat /\ U # {}
  <2>1. ASSUME NEW t \in T PROVE n - t \in Nat
    <3>1. t \in Nat /\ t <= n
      OBVIOUS
    <3>2. QED
      BY <3>1
  <2>2. QED
    BY <2>1
<1>2. PICK u \in U : \A v \in U : u <= v
  BY <1>1, LeastExists
<1>3. PICK x \in T : u = n - x
  BY <1>2
<1>4. ASSUME NEW y \in T PROVE x >= y
  <2>1. n - x <= n - y
    BY <1>2, <1>3
  <2>2. x \in Nat /\ y \in Nat
    OBVIOUS
  <2>3. QED
    BY <2>1, <2>2
<1>5. QED
  BY <1>4

LEMMA MinIs ==
  ASSUME NEW T \in SUBSET Nat, T # {}
  PROVE  Min(T) \in T /\ \A y \in T : Min(T) <= y
BY LeastExists DEF Min

LEMMA MaxIs ==
  ASSUME NEW T \in SUBSET Nat, T # {}, NEW n \in Nat, \A t \in T : t <= n
  PROVE  Max(T) \in T /\ \A y \in T : Max(T) >= y
BY GreatestExists DEF Max

LEMMA MaxOfTwo ==
  ASSUME NEW a \in Nat, NEW b \in Nat
  PROVE  /\ Max({a, b}) \in {a, b}
         /\ Max({a, b}) >= a
         /\ Max({a, b}) >= b
<1>1. \E x \in {a, b} : \A y \in {a, b} : x >= y
  OBVIOUS
<1>2. QED
  BY <1>1 DEF Max

(* The two ends of a set of rows.                                             *)

LEMMA LastIsTop ==
  ASSUME NEW S \in SUBSET Nat, NEW at \in Nat, \A n \in S : n <= at, NEW k \in Nat \ {0}
  PROVE  /\ Last(S, k) \subseteq S
         /\ \A n \in Last(S, k), m \in S : n <= m => m \in Last(S, k)
         /\ S # {} => Last(S, k) # {}
<1> DEFINE Above(n) == {m \in S : m > n}
<1>1. IsFiniteSet(S)
  BY FS_BoundedSetOfNaturals
<1>2. ASSUME NEW n \in Last(S, k), NEW m \in S, n <= m PROVE m \in Last(S, k)
  <2>1. n \in S /\ Cardinality(Above(n)) < k
    BY DEF Last
  <2>2. IsFiniteSet(Above(n))
    BY <1>1, FS_Subset
  <2>3. Above(m) \in SUBSET Above(n)
    <3>1. ASSUME NEW y \in Above(m) PROVE y \in Above(n)
      <4>1. {y, m, n} \subseteq Nat /\ y > m
        BY <2>1
      <4>2. y > n
        BY <4>1, <1>2
      <4>3. QED
        BY <4>2
    <3>2. QED
      BY <3>1
  <2>4. Cardinality(Above(m)) <= Cardinality(Above(n)) /\ IsFiniteSet(Above(m))
    BY <2>2, <2>3, FS_Subset
  <2>5. Cardinality(Above(m)) \in Nat /\ Cardinality(Above(n)) \in Nat
    BY <2>2, <2>4, FS_CardinalityType
  <2>6. Cardinality(Above(m)) < k
    BY <2>1, <2>4, <2>5
  <2>7. QED
    BY <2>6 DEF Last
<1>3. ASSUME S # {} PROVE Last(S, k) # {}
  <2>1. PICK x \in S : \A y \in S : x >= y
    BY <1>3, GreatestExists
  <2>2. Above(x) = {}
    <3>1. ASSUME NEW y \in Above(x) PROVE FALSE
      <4>1. x \in Nat /\ y \in Nat /\ y > x /\ x >= y
        BY <2>1
      <4>2. QED
        BY <4>1
    <3>2. QED
      BY <3>1
  <2>3. Cardinality(Above(x)) < k
    BY <2>2, FS_EmptySet
  <2>4. QED
    BY <2>3 DEF Last
<1>4. Last(S, k) \subseteq S
  BY DEF Last
<1>5. QED
  BY <1>2, <1>3, <1>4

LEMMA FirstIsBottom ==
  ASSUME NEW S \in SUBSET Nat, NEW at \in Nat, \A n \in S : n <= at, NEW k \in Nat \ {0}
  PROVE  /\ First(S, k) \subseteq S
         /\ \A n \in First(S, k), m \in S : m <= n => m \in First(S, k)
<1> DEFINE Below(n) == {m \in S : m < n}
<1>1. IsFiniteSet(S)
  BY FS_BoundedSetOfNaturals
<1>2. ASSUME NEW n \in First(S, k), NEW m \in S, m <= n PROVE m \in First(S, k)
  <2>1. n \in S /\ Cardinality(Below(n)) < k
    BY DEF First
  <2>2. IsFiniteSet(Below(n))
    BY <1>1, FS_Subset
  <2>3. Below(m) \in SUBSET Below(n)
    <3>1. ASSUME NEW y \in Below(m) PROVE y \in Below(n)
      <4>1. {y, m, n} \subseteq Nat /\ y < m
        BY <2>1
      <4>2. y < n
        BY <4>1, <1>2
      <4>3. QED
        BY <4>2
    <3>2. QED
      BY <3>1
  <2>4. Cardinality(Below(m)) <= Cardinality(Below(n)) /\ IsFiniteSet(Below(m))
    BY <2>2, <2>3, FS_Subset
  <2>5. Cardinality(Below(m)) \in Nat /\ Cardinality(Below(n)) \in Nat
    BY <2>2, <2>4, FS_CardinalityType
  <2>6. Cardinality(Below(m)) < k
    BY <2>1, <2>4, <2>5
  <2>7. QED
    BY <2>6 DEF First
<1>3. First(S, k) \subseteq S
  BY DEF First
<1>4. QED
  BY <1>2, <1>3

-----------------------------------------------------------------------------
(* The pages of the server.                                                   *)

LEMMA VisibleIs ==
  ASSUME NEW c, NEW at \in Nat
  PROVE  /\ Visible(c, at) \in SUBSET Nat
         /\ \A n \in Visible(c, at) : 1 <= n /\ n <= at
BY DEF Visible

LEMMA LatestIs ==
  ASSUME NEW c, NEW at \in Nat
  PROVE  /\ LatestVisible(c, at) \in Nat
         /\ LatestVisible(c, at) <= at
         /\ \A n \in Visible(c, at) : n <= LatestVisible(c, at)
<1> DEFINE S == Visible(c, at) \cup {0}
<1>1. S \in SUBSET Nat /\ S # {} /\ \A n \in S : n <= at
  BY VisibleIs
<1>2. Max(S) \in S /\ \A n \in S : Max(S) >= n
  <2> HIDE DEF S
  <2>1. QED
    BY <1>1, MaxIs
<1>3. Max(S) \in Nat /\ Max(S) <= at
  BY <1>1, <1>2
<1>4. \A n \in Visible(c, at) : n \in Nat /\ n <= Max(S)
  BY <1>1, <1>2, <1>3
<1>5. QED
  BY <1>3, <1>4 DEF LatestVisible

\* A page of the history holds every visible row from the cursor it returns to
\* the cursor it was asked with.
LEMMA HistoryPageIs ==
  ASSUME NEW c, NEW upTo \in Nat, NEW at \in Nat
  PROVE  LET page == HistoryPage(c, upTo, at) IN
         /\ page.items \subseteq Visible(c, at)
         /\ page.latest = LatestVisible(c, at)
         /\ page.next \in Nat
         /\ \A n \in Visible(c, at) :
               page.next <= n /\ (upTo = 0 \/ n < upTo) => n \in page.items
<1> DEFINE latest == LatestVisible(c, at)
           eligible == {n \in Visible(c, at) : n <= IF upTo = 0 THEN latest ELSE upTo - 1}
           items == Last(eligible, HistorySize)
           page == HistoryPage(c, upTo, at)
<1>1. eligible \in SUBSET Nat /\ \A n \in eligible : n <= at
  BY VisibleIs
<1>2. /\ items \subseteq eligible
      /\ \A n \in items, m \in eligible : n <= m => m \in items
      /\ eligible # {} => items # {}
  <2> HIDE DEF eligible
  <2>1. QED
    BY <1>1, LastIsTop, SizeAssumption
<1>3. /\ page.items = items
      /\ page.latest = latest
      /\ page.next = IF items = eligible THEN 0 ELSE Min(items)
  BY DEF HistoryPage
<1>4. ASSUME NEW n \in Visible(c, at), upTo = 0 \/ n < upTo PROVE n \in eligible
  <2>1. n \in Nat /\ n <= latest /\ latest \in Nat
    BY VisibleIs, LatestIs
  <2>2. QED
    BY <1>4, <2>1
<1>5. CASE items = eligible
  BY <1>2, <1>3, <1>4, <1>5
<1>6. CASE items # eligible
  <2>1. items # {} /\ items \in SUBSET Nat
    BY <1>1, <1>2, <1>6
  <2>2. Min(items) \in items
    <3> HIDE DEF items
    <3>1. QED
      BY <2>1, MinIs
  <2>3. page.next = Min(items)
    BY <1>3, <1>6
  <2>4. ASSUME NEW n \in Visible(c, at), page.next <= n, upTo = 0 \/ n < upTo PROVE n \in items
    <3> HIDE DEF items, eligible, page
    <3>1. QED
      BY <1>2, <1>4, <2>2, <2>3, <2>4
  <2>5. items \subseteq Visible(c, at) /\ page.next \in Nat
    BY <1>2, <2>1, <2>2, <2>3
  <2>6. QED
    BY <1>3, <2>4, <2>5
<1>7. QED
  BY <1>5, <1>6

\* A page of a sync holds every visible row from the one it was asked after to
\* the one it returns.
LEMMA SyncPageIs ==
  ASSUME NEW c, NEW after \in Nat, NEW at \in Nat
  PROVE  LET page == SyncPage(c, after, at) IN
         /\ page.items \subseteq Visible(c, at)
         /\ page.latest = LatestVisible(c, at)
         /\ page.next \in Nat /\ (page.next = after \/ page.next <= at)
         /\ \A n \in Nat :
               after < n /\ n <= page.next => n <= at /\ (n \in Visible(c, at) => n \in page.items)
<1> DEFINE missing == {n \in Visible(c, at) : n > after}
           items == First(missing, SyncSize)
           all == items \cup {after}
           page == SyncPage(c, after, at)
<1>1. missing \in SUBSET Nat /\ \A n \in missing : n <= at
  BY VisibleIs
<1>2. /\ items \subseteq missing
      /\ \A n \in items, m \in missing : m <= n => m \in items
  <2> HIDE DEF missing
  <2>1. QED
    BY <1>1, FirstIsBottom, SizeAssumption
<1>3. all \in SUBSET Nat /\ all # {} /\ \A n \in all : n <= at + after
  <2>1. ASSUME NEW n \in items PROVE n \in Nat /\ n <= at + after
    <3>1. n \in Nat /\ n <= at
      BY <1>1, <1>2
    <3>2. QED
      BY <3>1
  <2>2. QED
    BY <2>1
<1>4. Max(all) \in all /\ \A n \in all : Max(all) >= n
  <2> HIDE DEF all
  <2>1. at + after \in Nat
    OBVIOUS
  <2>2. QED
    BY <1>3, <2>1, MaxIs
<1>5. /\ page.items = items
      /\ page.latest = LatestVisible(c, at)
      /\ page.next = Max(all)
  BY DEF SyncPage
<1>6. Max(all) \in Nat /\ (Max(all) = after \/ (Max(all) \in items /\ Max(all) <= at))
  <2> HIDE DEF items
  <2>1. QED
    BY <1>1, <1>2, <1>3, <1>4
<1>7. ASSUME NEW n \in Nat, after < n, n <= Max(all)
      PROVE  n <= at /\ (n \in Visible(c, at) => n \in items)
  <2>1. Max(all) \in items /\ Max(all) <= at
    BY <1>6, <1>7
  <2>2. n <= at
    BY <1>6, <1>7, <2>1
  <2>3. ASSUME n \in Visible(c, at) PROVE n \in items
    <3>1. n \in missing
      BY <1>7, <2>3
    <3>2. QED
      BY <1>2, <1>7, <2>1, <3>1
  <2>4. QED
    BY <2>2, <2>3
<1>8. items \subseteq Visible(c, at)
  BY <1>2
<1>9. QED
  <2> HIDE DEF items, all
  <2>1. QED
    BY <1>5, <1>6, <1>7, <1>8

-----------------------------------------------------------------------------
(* The inductive invariant.                                                   *)

ServerTypes ==
    /\ log \in [Conversations -> Seq(BOOLEAN)]
    /\ announced \subseteq Rows
    /\ socket \in {"off", "joined", "built", "on"}
    /\ ready \in [Conversations -> Nat]
    /\ connections \in Nat

WireTypes == wire \in Seq(Event)

ListTypes ==
    /\ active \in Conversations \cup {Nothing}
    /\ shown \subseteq Rows
    /\ bubbles \subseteq Sends
    /\ watermark \in Nat
    /\ before \in Nat
    /\ base \in Nat

CallTypes == call \in [Slots -> Call]
ReportTypes == reported \in [Conversations -> Nat]
FlagTypes == error \in BOOLEAN /\ calm \in BOOLEAN

\* An event names a row of the log.
WireInv ==
    \A i \in 1 .. Len(wire) : wire[i].kind = "created" => wire[i].seq <= Len(log[wire[i].of])

\* A call is of a conversation, and is answered from the log it was served with;
\* an openConversation asks for the newest page.
CallInv ==
    \A s \in Slots :
       /\ call[s].phase \in InFlight \cup {"failed"} =>
             call[s].of \in Conversations /\ active # Nothing
       /\ call[s].phase = "served" =>
             /\ call[s].at <= Len(log[call[s].of])
             /\ s \in Sends => call[s].at > 0
       /\ s \in Opens /\ call[s].phase \in InFlight => call[s].arg = 0

\* Before the first openConversation there is no page to go on from.
ActiveInv == active = Nothing => before = 0

\* A message in the list was written in the open conversation.
BubbleInv ==
    \A s \in Sends :
       s \in bubbles /\ call[s].phase \in InFlight \cup {"failed"} => call[s].of = active

\* As long as no conversation is opened while a call is in flight, what is in
\* flight is of the open conversation,
OwnInv ==
    calm => \A s \in Slots : call[s].phase \in InFlight => call[s].of = active

\* what the controller knows of the log is no more than the log,
BoundInv ==
    calm /\ active # Nothing =>
       /\ watermark <= Len(log[active])
       /\ base <= Len(log[active])
       /\ refreshing => call["sync"].arg <= Len(log[active])

\* and the page of an openConversation comes before all older ones.
PageInv ==
    calm =>
       /\ \A s, t \in Opens :
             call[s].phase \in InFlight /\ call[t].phase \in InFlight => s = t
       /\ \A s \in Opens : call[s].phase \in InFlight => before = 0 /\ ~loadingOlder
       /\ loadingOlder => call["older"].arg = before
       /\ call["older"].phase = "served" => base <= call["older"].at

Inductive ==
    /\ TypeOK
    /\ WireInv /\ CallInv /\ ActiveInv /\ BubbleInv
    /\ OwnInv /\ BoundInv /\ PageInv
    /\ PagingLeavesNoHole /\ SyncLeavesNoHole /\ ReportsOwnPositions

USE DEF server, link, list, vars

-----------------------------------------------------------------------------
(* Facts about the parts.                                                     *)

LEMMA TypeParts == TypeOK <=> ServerTypes /\ WireTypes /\ ListTypes /\ CallTypes /\ ReportTypes /\ FlagTypes
BY DEF TypeOK, ServerTypes, WireTypes, ListTypes, CallTypes, ReportTypes, FlagTypes

\* The fields of a call.
LEMMA CallFields ==
  ASSUME CallTypes, NEW s \in Slots
  PROVE  /\ call[s] = [phase |-> call[s].phase, of |-> call[s].of, from |-> call[s].from,
                       arg |-> call[s].arg, at |-> call[s].at]
         /\ call[s].phase \in Phases
         /\ call[s].of \in Conversations \cup {Nothing}
         /\ call[s].from \in Nat /\ call[s].arg \in Nat /\ call[s].at \in Nat
<1>1. call[s] \in Call
  BY DEF CallTypes
<1>2. QED
  BY <1>1 DEF Call

LEMMA SlotFacts ==
  /\ "older" \in Slots /\ "sync" \in Slots
  /\ "older" \notin Opens \cup Sends /\ "sync" \notin Opens \cup Sends
  /\ Opens \subseteq Slots /\ Sends \subseteq Slots
  /\ \A s \in Slots : s \in Opens => s \notin Sends
BY SlotAssumption DEF Slots

LEMMA NoCallIsCall == NoCall \in Call /\ NoCall.phase = "idle" /\ NoCall.at = 0
BY DEF NoCall, Call, Phases

LEMMA AskedIsCall ==
  ASSUME NEW c \in Conversations \cup {Nothing}, NEW n \in Nat
  PROVE  /\ Asked(c, n) \in Call
         /\ Asked(c, n) = [phase |-> "asked", of |-> c, from |-> n, arg |-> n, at |-> 0]
         /\ [Asked(c, n) EXCEPT !.from = 0] \in Call
         /\ [Asked(c, n) EXCEPT !.from = 0]
              = [phase |-> "asked", of |-> c, from |-> 0, arg |-> n, at |-> 0]
BY DEF Asked, Call, Phases, InFlight

\* The events on the wire.
LEMMA HeadOfWire ==
  ASSUME WireTypes, wire # <<>>
  PROVE  /\ Head(wire) \in Event /\ Tail(wire) \in Seq(Event)
         /\ Len(Tail(wire)) = Len(wire) - 1 /\ Head(wire) = wire[1] /\ 1 \in 1 .. Len(wire)
         /\ \A i \in 1 .. Len(Tail(wire)) : Tail(wire)[i] = wire[i + 1] /\ i + 1 \in 1 .. Len(wire)
BY DEF WireTypes

LEMMA CreatedIs ==
  ASSUME NEW e \in Event, e.kind = "created"
  PROVE  e.of \in Conversations /\ e.seq \in Nat \ {0}
BY DEF Event

LEMMA ReadyIs ==
  ASSUME NEW e \in Event, e.kind = "ready"
  PROVE  e.latest \in [Conversations -> Nat]
BY DEF Event

-----------------------------------------------------------------------------
(* What every step does to the log.                                           *)

\* A row that is appended to a conversation changes no other row.
LEMMA AppendIs ==
  ASSUME ServerTypes, NEW c \in Conversations, NEW v \in BOOLEAN,
         log' = [log EXCEPT ![c] = Append(@, v)]
  PROVE  /\ log' \in [Conversations -> Seq(BOOLEAN)]
         /\ \A d \in Conversations :
               /\ Len(log[d]) <= Len(log'[d])
               /\ \A n \in 1 .. Len(log[d]) : log'[d][n] = log[d][n]
         /\ Len(log'[c]) = Len(log[c]) + 1
<1>1. log \in [Conversations -> Seq(BOOLEAN)]
  BY DEF ServerTypes
<1>2. Append(log[c], v) \in Seq(BOOLEAN) /\ Len(Append(log[c], v)) = Len(log[c]) + 1
      /\ \A n \in 1 .. Len(log[c]) : Append(log[c], v)[n] = log[c][n]
  BY <1>1
<1>3. \A d \in Conversations : log'[d] = IF d = c THEN Append(log[c], v) ELSE log[d]
  BY <1>1
<1>4. ASSUME NEW d \in Conversations
      PROVE  Len(log[d]) <= Len(log'[d]) /\ \A n \in 1 .. Len(log[d]) : log'[d][n] = log[d][n]
  <2>1. Len(log[d]) \in Nat
    BY <1>1
  <2>2. CASE d = c
    BY <1>2, <1>3, <2>1, <2>2
  <2>3. CASE d # c
    BY <1>3, <2>1, <2>3
  <2>4. QED
    BY <2>2, <2>3
<1>5. log' \in [Conversations -> Seq(BOOLEAN)]
  BY <1>1, <1>2
<1>6. QED
  BY <1>2, <1>3, <1>4, <1>5

Grows ==
    \A d \in Conversations :
       /\ Len(log[d]) \in Nat /\ Len(log'[d]) \in Nat
       /\ Len(log[d]) <= Len(log'[d])
       /\ \A n \in 1 .. Len(log[d]) : log'[d][n] = log[d][n]

\* The rows of a conversation stay what they are.
LEMMA LogGrows ==
  ASSUME TypeOK, CallInv, [Next]_vars
  PROVE  Grows /\ log' \in [Conversations -> Seq(BOOLEAN)]
<1>1. ServerTypes /\ CallTypes
  BY TypeParts
<1>2. CASE UNCHANGED log
  <2>1. \A d \in Conversations : Len(log[d]) \in Nat
    BY <1>1 DEF ServerTypes
  <2>2. QED
    BY <1>1, <1>2, <2>1 DEF Grows, ServerTypes
<1>3. ASSUME NEW c \in Conversations, NEW v \in BOOLEAN, log' = [log EXCEPT ![c] = Append(@, v)]
      PROVE  Grows /\ log' \in [Conversations -> Seq(BOOLEAN)]
  <2>1. /\ log' \in [Conversations -> Seq(BOOLEAN)]
        /\ \A d \in Conversations :
               /\ Len(log[d]) <= Len(log'[d])
               /\ \A n \in 1 .. Len(log[d]) : log'[d][n] = log[d][n]
    BY <1>1, <1>3, AppendIs
  <2>2. \A d \in Conversations : Len(log[d]) \in Nat /\ Len(log'[d]) \in Nat
    BY <1>1, <2>1 DEF ServerTypes
  <2>3. QED
    BY <2>1, <2>2 DEF Grows
<1>4. ASSUME NEW c \in Conversations, NEW v \in BOOLEAN, Store(c, v)
      PROVE  Grows /\ log' \in [Conversations -> Seq(BOOLEAN)]
  BY <1>3, <1>4 DEF Store
<1>5. ASSUME NEW s \in Slots, Serve(s)
      PROVE  Grows /\ log' \in [Conversations -> Seq(BOOLEAN)]
  <2>1. CASE s \in Sends
    <3>1. call[s].of \in Conversations
      BY <1>5 DEF Serve, CallInv, InFlight
    <3>2. log' = [log EXCEPT ![call[s].of] = Append(@, TRUE)]
      BY <1>5, <2>1 DEF Serve
    <3>3. QED
      BY <1>3, <3>1, <3>2
  <2>2. CASE s \notin Sends
    <3>1. UNCHANGED log
      BY <1>5, <2>2 DEF Serve
    <3>2. QED
      BY <1>2, <3>1
  <2>3. QED
    BY <2>1, <2>2
<1>6. CASE \E c \in Conversations : \E n \in 1..MaxLog[c] : Announce(c, n)
  BY <1>2, <1>6 DEF Announce
<1>7. CASE Connect \/ BuildReady \/ SendReady \/ Drop
  BY <1>2, <1>7 DEF Connect, BuildReady, SendReady, Drop
<1>8. CASE \E s \in Opens, c \in Conversations : Open(s, c)
  BY <1>2, <1>8 DEF Open
<1>9. CASE LoadOlder \/ Refresh
  BY <1>2, <1>9 DEF LoadOlder, Refresh
<1>10. CASE \E s \in Sends : SendText(s) \/ RetryMessage(s)
  BY <1>2, <1>10 DEF SendText, RetryMessage
<1>11. CASE \E s \in Slots : FailCall(s) \/ ApplyHistory(s) \/ Confirm(s)
  BY <1>2, <1>11 DEF FailCall, ApplyHistory, Confirm
<1>12. CASE ApplySync \/ EndSync
  BY <1>2, <1>12 DEF ApplySync, EndSync
<1>13. CASE HandleCreated \/ HandleReady
  BY <1>2, <1>13 DEF HandleCreated, HandleReady
<1>14. CASE UNCHANGED vars
  BY <1>2, <1>14
<1>15. QED
  BY <1>4, <1>5, <1>6, <1>7, <1>8, <1>9, <1>10, <1>11, <1>12, <1>13, <1>14 DEF Next, Answer, Take

LEMMA ServerTypesNext ==
  ASSUME TypeOK, CallInv, [Next]_vars
  PROVE  ServerTypes'
<1>1. ServerTypes
  BY TypeParts
<1>2. log' \in [Conversations -> Seq(BOOLEAN)]
  BY LogGrows
<1>3. CASE UNCHANGED <<announced, socket, ready, connections>>
  BY <1>1, <1>2, <1>3 DEF ServerTypes
<1>4. ASSUME NEW c \in Conversations, NEW n \in 1..MaxLog[c], Announce(c, n) PROVE ServerTypes'
  <2>1. <<c, n>> \in Rows
    BY BoundAssumption DEF Rows
  <2>2. announced' \subseteq Rows
    BY <1>1, <1>4, <2>1 DEF ServerTypes, Announce
  <2>3. QED
    BY <1>1, <1>2, <1>4, <2>2 DEF ServerTypes, Announce
<1>5. CASE Connect
  BY <1>1, <1>2, <1>5 DEF ServerTypes, Connect
<1>6. CASE BuildReady
  <2>1. ready' \in [Conversations -> Nat]
    BY <1>1, <1>6 DEF ServerTypes, BuildReady
  <2>2. QED
    BY <1>1, <1>2, <1>6, <2>1 DEF ServerTypes, BuildReady
<1>7. CASE SendReady \/ Drop
  <2>1. ready' = [c \in Conversations |-> 0]
    BY <1>7, Zenon DEF SendReady, Drop
  <2>2. socket' \in {"on", "off"} /\ UNCHANGED <<announced, connections>>
    <3>1. CASE SendReady
      BY <3>1 DEF SendReady
    <3>2. CASE Drop
      BY <3>2 DEF Drop
    <3>3. QED
      BY <1>7, <3>1, <3>2
  <2>3. QED
    BY <1>1, <1>2, <2>1, <2>2 DEF ServerTypes
<1>8. CASE \E c \in Conversations, v \in BOOLEAN : Store(c, v)
  BY <1>3, <1>8 DEF Store
<1>9. CASE \E s \in Opens, c \in Conversations : Open(s, c)
  BY <1>3, <1>9 DEF Open
<1>10. CASE LoadOlder \/ Refresh
  BY <1>3, <1>10 DEF LoadOlder, Refresh
<1>11. CASE \E s \in Sends : SendText(s) \/ RetryMessage(s)
  BY <1>3, <1>11 DEF SendText, RetryMessage
<1>12. CASE \E s \in Slots : Serve(s) \/ FailCall(s) \/ ApplyHistory(s) \/ Confirm(s)
  BY <1>3, <1>12 DEF Serve, FailCall, ApplyHistory, Confirm
<1>13. CASE ApplySync \/ EndSync
  BY <1>3, <1>13 DEF ApplySync, EndSync
<1>14. CASE HandleCreated \/ HandleReady
  BY <1>3, <1>14 DEF HandleCreated, HandleReady
<1>15. CASE UNCHANGED vars
  BY <1>3, <1>15
<1>16. QED
  BY <1>4, <1>5, <1>6, <1>7, <1>8, <1>9, <1>10, <1>11, <1>12, <1>13, <1>14, <1>15 DEF Next, Answer, Take

\* The wire holds events, and an event names a row of the log.
LEMMA WireNext ==
  ASSUME TypeOK, CallInv, WireInv, [Next]_vars
  PROVE  WireTypes' /\ WireInv'
<1>1. ServerTypes /\ WireTypes
  BY TypeParts
<1>2. Grows
  BY LogGrows
<1>3. \A i \in 1 .. Len(wire) : wire[i] \in Event
  BY <1>1 DEF WireTypes
<1>4. ASSUME NEW e \in Event, e.kind = "created", e.seq <= Len(log[e.of])
      PROVE  e.seq <= Len(log'[e.of])
  <2>1. e.of \in Conversations /\ e.seq \in Nat
    BY <1>4, CreatedIs
  <2>2. QED
    BY <1>2, <1>4, <2>1 DEF Grows
<1>5. CASE UNCHANGED wire
  BY <1>1, <1>3, <1>4, <1>5 DEF WireTypes, WireInv
<1>6. CASE wire' = <<>>
  BY <1>6 DEF WireTypes, WireInv
<1>7. CASE wire # <<>> /\ wire' = Tail(wire)
  <2>1. WireTypes'
    BY <1>1, <1>7, HeadOfWire DEF WireTypes
  <2>2. ASSUME NEW i \in 1 .. Len(wire'), wire'[i].kind = "created"
        PROVE  wire'[i].seq <= Len(log'[wire'[i].of])
    <3>1. wire'[i] = wire[i + 1] /\ i + 1 \in 1 .. Len(wire)
      BY <1>1, <1>7, HeadOfWire
    <3>2. PICK e \in Event : e = wire[i + 1]
      BY <1>3, <3>1
    <3>3. e.kind = "created" /\ e.seq <= Len(log[e.of])
      BY <2>2, <3>1, <3>2 DEF WireInv
    <3>4. QED
      BY <1>4, <3>1, <3>2, <3>3
  <2>3. QED
    BY <2>1, <2>2 DEF WireInv
<1>8. ASSUME NEW e \in Event, e.kind = "created" => e.seq <= Len(log[e.of]), wire' = Append(wire, e)
      PROVE  WireTypes' /\ WireInv'
  <2>1. wire' \in Seq(Event) /\ Len(wire') = Len(wire) + 1 /\ Len(wire) \in Nat
        /\ (\A i \in 1 .. Len(wire) : wire'[i] = wire[i]) /\ wire'[Len(wire) + 1] = e
    BY <1>1, <1>8 DEF WireTypes
  <2>2. ASSUME NEW i \in 1 .. Len(wire'), wire'[i].kind = "created"
        PROVE  wire'[i].seq <= Len(log'[wire'[i].of])
    <3>1. CASE i = Len(wire) + 1
      BY <1>4, <1>8, <2>1, <2>2, <3>1
    <3>2. CASE i \in 1 .. Len(wire)
      <4>1. PICK f \in Event : f = wire[i]
        BY <1>3, <3>2
      <4>2. f.kind = "created" /\ f.seq <= Len(log[f.of])
        BY <2>1, <2>2, <3>2, <4>1 DEF WireInv
      <4>3. QED
        BY <1>4, <2>1, <3>2, <4>1, <4>2
    <3>3. QED
      BY <2>1, <3>1, <3>2
  <2>3. QED
    BY <2>1, <2>2 DEF WireTypes, WireInv
<1>9. ASSUME NEW c \in Conversations, NEW n \in 1..MaxLog[c], Announce(c, n)
      PROVE  WireTypes' /\ WireInv'
  <2>1. PICK e : e = Created(c, n)
    OBVIOUS
  <2>2. e \in Event /\ e.kind = "created" /\ e.seq = n /\ e.of = c
    BY <2>1, BoundAssumption DEF Created, Event
  <2>3. n <= Len(log[c]) /\ (UNCHANGED wire \/ wire' = Append(wire, e))
    BY <1>9, <2>1 DEF Announce
  <2>4. QED
    BY <1>5, <1>8, <2>2, <2>3
<1>10. CASE SendReady
  <2>1. PICK e : e = Ready(ready)
    OBVIOUS
  <2>2. e \in Event /\ e.kind = "ready"
    BY <1>1, <2>1 DEF Ready, Event, ServerTypes
  <2>3. wire' = Append(wire, e)
    BY <1>10, <2>1 DEF SendReady
  <2>4. QED
    BY <1>8, <2>2, <2>3
<1>11. CASE Drop
  BY <1>6, <1>11 DEF Drop
<1>12. CASE HandleCreated \/ HandleReady
  BY <1>7, <1>12 DEF HandleCreated, HandleReady
<1>13. CASE Connect \/ BuildReady
  BY <1>5, <1>13 DEF Connect, BuildReady
<1>14. CASE \E c \in Conversations, v \in BOOLEAN : Store(c, v)
  BY <1>5, <1>14 DEF Store
<1>15. CASE \E s \in Opens, c \in Conversations : Open(s, c)
  BY <1>5, <1>15 DEF Open
<1>16. CASE LoadOlder \/ Refresh
  BY <1>5, <1>16 DEF LoadOlder, Refresh
<1>17. CASE \E s \in Sends : SendText(s) \/ RetryMessage(s)
  BY <1>5, <1>17 DEF SendText, RetryMessage
<1>18. CASE \E s \in Slots : Serve(s) \/ FailCall(s) \/ ApplyHistory(s) \/ Confirm(s)
  BY <1>5, <1>18 DEF Serve, FailCall, ApplyHistory, Confirm
<1>19. CASE ApplySync \/ EndSync
  BY <1>5, <1>19 DEF ApplySync, EndSync
<1>20. CASE UNCHANGED vars
  BY <1>5, <1>20
<1>21. QED
  BY <1>9, <1>10, <1>11, <1>12, <1>13, <1>14, <1>15, <1>16, <1>17, <1>18, <1>19, <1>20
     DEF Next, Answer, Take

-----------------------------------------------------------------------------
(* What a step of a kind keeps.                                               *)

\* One call changes, and its new value is of the open conversation.
LEMMA OneCall ==
  ASSUME CallTypes, CallInv, BubbleInv, OwnInv, Grows, UNCHANGED <<active, calm>>,
         NEW s \in Slots, NEW r \in Call, call' = [call EXCEPT ![s] = r],
         bubbles' \subseteq bubbles \cup {s},
         r.phase \in InFlight \cup {"failed"} => r.of \in Conversations /\ active # Nothing,
         r.phase = "served" => r.at <= Len(log'[r.of]) /\ (s \in Sends => r.at > 0),
         s \in Opens /\ r.phase \in InFlight => r.arg = 0,
         calm /\ r.phase \in InFlight => r.of = active,
         s \in bubbles' /\ s \in Sends /\ r.phase \in InFlight \cup {"failed"} => r.of = active
  PROVE  /\ CallTypes' /\ CallInv' /\ BubbleInv' /\ OwnInv'
         /\ call'[s] = r
         /\ \A t \in Slots : t # s => call'[t] = call[t]
<1>1. CallTypes' /\ call'[s] = r /\ \A t \in Slots : t # s => call'[t] = call[t]
  BY DEF CallTypes
<1>2. ASSUME NEW t \in Slots, t # s, call[t].phase = "served"
      PROVE  call[t].at <= Len(log'[call[t].of])
  <2>1. call[t].of \in Conversations /\ call[t].at <= Len(log[call[t].of]) /\ call[t].at \in Nat
    BY <1>2, CallFields DEF CallInv, InFlight
  <2>2. QED
    BY <2>1 DEF Grows
<1>3. CallInv'
  <2>1. ASSUME NEW t \in Slots
        PROVE  /\ call'[t].phase \in InFlight \cup {"failed"} =>
                     call'[t].of \in Conversations /\ active' # Nothing
               /\ call'[t].phase = "served" =>
                     call'[t].at <= Len(log'[call'[t].of]) /\ (t \in Sends => call'[t].at > 0)
               /\ t \in Opens /\ call'[t].phase \in InFlight => call'[t].arg = 0
    <3>1. CASE t = s
      BY <1>1, <3>1
    <3>2. CASE t # s
      BY <1>1, <1>2, <3>2 DEF CallInv
    <3>3. QED
      BY <3>1, <3>2
  <2>2. QED
    BY <2>1 DEF CallInv
<1>4. BubbleInv'
  <2>1. ASSUME NEW t \in Sends, t \in bubbles', call'[t].phase \in InFlight \cup {"failed"}
        PROVE  call'[t].of = active'
    <3>1. t \in Slots
      BY SlotFacts
    <3>2. CASE t = s
      BY <1>1, <2>1, <3>2
    <3>3. CASE t # s
      BY <1>1, <2>1, <3>1, <3>3 DEF BubbleInv
    <3>4. QED
      BY <3>2, <3>3
  <2>2. QED
    BY <2>1 DEF BubbleInv
<1>5. OwnInv'
  <2>1. ASSUME calm', NEW t \in Slots, call'[t].phase \in InFlight PROVE call'[t].of = active'
    <3>1. calm
      BY <2>1, Zenon
    <3>2. CASE t = s
      BY <1>1, <2>1, <3>1, <3>2
    <3>3. CASE t # s
      BY <1>1, <2>1, <3>1, <3>3 DEF OwnInv
    <3>4. QED
      BY <3>2, <3>3
  <2>2. QED
    BY <2>1 DEF OwnInv
<1>6. QED
  BY <1>1, <1>3, <1>4, <1>5

\* The visible rows that were there stay the visible rows that were there.
LEMMA VisibleKeeps ==
  ASSUME Grows, NEW c \in Conversations, NEW n \in Nat, n <= Len(log[c]),
         n \in Visible(c, Len(log[c]))'
  PROVE  \A at \in Nat : n <= at => n \in Visible(c, at)
<1>1. n \in 1 .. Len(log'[c]) /\ log'[c][n]
  BY DEF Visible
<1>2. n \in 1 .. Len(log[c])
  BY <1>1 DEF Grows
<1>3. log'[c][n] = log[c][n]
  BY <1>2 DEF Grows
<1>4. log[c][n]
  BY <1>1, <1>3, Zenon
<1>5. ASSUME NEW at \in Nat, n <= at PROVE n \in 1 .. at
  BY <1>2, <1>5
<1>6. QED
  BY <1>4, <1>5 DEF Visible

\* Rows that are complete stay complete.
LEMMA CompleteKeeps ==
  ASSUME Grows, active \in Conversations, UNCHANGED active, shown \subseteq shown',
         NEW low \in Nat, NEW high \in Nat, high <= Len(log[active]), Complete(low, high),
         NEW n \in Visible(active, Len(log[active]))', low <= n, n <= high
  PROVE  <<active', n>> \in shown'
<1>1. PICK c \in Conversations : c = active /\ c = active'
  OBVIOUS
<1>2. n \in Visible(c, Len(log[c]))'
  BY <1>1 DEF Visible
<1>3. n \in Nat
  BY <1>2 DEF Visible
<1>4. n <= Len(log[c]) /\ Len(log[c]) \in Nat
  BY <1>1, <1>3 DEF Grows
<1>5. n \in Visible(c, Len(log[c]))
  BY <1>2, <1>3, <1>4, VisibleKeeps
<1>6. QED
  BY <1>1, <1>5 DEF Complete

LEMMA PagingKeeps ==
  ASSUME Grows, ListTypes, BoundInv, PagingLeavesNoHole,
         UNCHANGED <<active, before, base, calm>>, shown \subseteq shown'
  PROVE  PagingLeavesNoHole'
<1>1. SUFFICES ASSUME calm', active' # Nothing,
                      NEW n \in Visible(active, Len(log[active]))', before' <= n, n <= base'
               PROVE  <<active', n>> \in shown'
  BY DEF PagingLeavesNoHole, Complete
<1>2. calm
  BY <1>1, Zenon
<1>3. active \in Conversations /\ before \in Nat /\ base \in Nat
  BY <1>1 DEF ListTypes
<1>4. base <= Len(log[active]) /\ Complete(before, base)
  BY <1>1, <1>2 DEF BoundInv, PagingLeavesNoHole
<1>5. QED
  BY <1>1, <1>3, <1>4, CompleteKeeps

LEMMA SyncKeeps ==
  ASSUME Grows, ListTypes, CallTypes, CallInv, BoundInv, SyncLeavesNoHole,
         UNCHANGED <<active, calm>>, shown \subseteq shown',
         call'["sync"].phase \in InFlight =>
            /\ call["sync"].phase \in InFlight
            /\ call'["sync"].from = call["sync"].from
            /\ call'["sync"].arg = call["sync"].arg
  PROVE  SyncLeavesNoHole'
<1>1. SUFFICES ASSUME calm', call'["sync"].phase \in InFlight,
                      NEW n \in Visible(active, Len(log[active]))',
                      call'["sync"].from + 1 <= n, n <= call'["sync"].arg
               PROVE  <<active', n>> \in shown'
  BY DEF SyncLeavesNoHole, Complete, refreshing
<1>2. calm
  BY <1>1, Zenon
<1>3. "sync" \in Slots
  BY SlotFacts
<1>4. active # Nothing /\ active \in Conversations
  BY <1>1, <1>3 DEF CallInv, ListTypes
<1>5. PICK low \in Nat, high \in Nat : low = call["sync"].from + 1 /\ high = call["sync"].arg
  <2>1. call["sync"].from \in Nat /\ call["sync"].arg \in Nat
    BY <1>3, CallFields
  <2>2. call["sync"].from + 1 \in Nat
    BY <2>1
  <2>3. QED
    BY <2>1, <2>2
<1>6. high <= Len(log[active]) /\ Complete(low, high)
  BY <1>1, <1>2, <1>4, <1>5 DEF BoundInv, SyncLeavesNoHole, refreshing
<1>7. QED
  BY <1>1, <1>4, <1>5, <1>6, CompleteKeeps

\* A refresh that starts at the watermark has no row to account for yet.
LEMMA SyncStarts ==
  ASSUME NEW n0 \in Nat, call'["sync"].from = n0, call'["sync"].arg = n0
  PROVE  SyncLeavesNoHole'
<1>1. SUFFICES ASSUME NEW n \in Visible(active, Len(log[active]))',
                      call'["sync"].from + 1 <= n, n <= call'["sync"].arg
               PROVE  FALSE
  BY DEF SyncLeavesNoHole, Complete
<1>2. n \in Nat
  BY DEF Visible
<1>3. QED
  BY <1>1, <1>2

LEMMA ReportsKeep ==
  ASSUME Grows, ReportTypes, ReportsOwnPositions, UNCHANGED calm,
         ReportTypes', \A c \in Conversations :
            reported'[c] = reported[c] \/ (calm => reported'[c] <= Len(log'[c]))
  PROVE  ReportsOwnPositions'
<1>1. SUFFICES ASSUME calm', NEW c \in Conversations PROVE reported'[c] <= Len(log'[c])
  BY DEF ReportsOwnPositions
<1>2. calm
  BY <1>1, Zenon
<1>3. CASE reported'[c] = reported[c]
  <2>1. reported[c] \in Nat /\ reported[c] <= Len(log[c])
    BY <1>2 DEF ReportTypes, ReportsOwnPositions
  <2>2. QED
    BY <1>3, <2>1 DEF Grows
<1>4. QED
  BY <1>2, <1>3

\* A read report moves the position of one conversation.
LEMMA MarkReadIs ==
  ASSUME ReportTypes, NEW c \in Conversations \cup {Nothing}, NEW n \in Nat, MarkRead(c, n)
  PROVE  /\ ReportTypes'
         /\ \A d \in Conversations : reported'[d] = reported[d] \/ (d = c /\ reported'[d] = n)
<1>1. CASE UNCHANGED reported
  BY <1>1 DEF ReportTypes
<1>2. CASE c # Nothing /\ reported' = [reported EXCEPT ![c] = Max({@, n})]
  <2>1. c \in Conversations /\ reported[c] \in Nat
    BY <1>2 DEF ReportTypes
  <2>2. PICK m \in Nat : m = Max({reported[c], n}) /\ m \in {reported[c], n}
    BY <2>1, MaxOfTwo
  <2>3. reported' = [reported EXCEPT ![c] = m]
    BY <1>2, <2>2
  <2>4. QED
    BY <2>1, <2>2, <2>3 DEF ReportTypes
<1>3. QED
  BY <1>1, <1>2 DEF MarkRead

-----------------------------------------------------------------------------
(* The steps of the controller.                                               *)

Knowledge ==
    /\ ListTypes /\ CallTypes /\ ReportTypes /\ FlagTypes
    /\ CallInv /\ ActiveInv /\ BubbleInv /\ OwnInv /\ BoundInv /\ PageInv
    /\ PagingLeavesNoHole /\ SyncLeavesNoHole /\ ReportsOwnPositions

\* The bounds grow with the log.
LEMMA BoundKeeps ==
  ASSUME Grows, ListTypes, CallTypes, BoundInv, UNCHANGED <<active, base, calm>>,
         ListTypes', CallTypes',
         watermark' = watermark
            \/ (calm /\ active # Nothing => watermark' <= Len(log'[active])),
         call'["sync"].phase \in InFlight =>
            \/ call["sync"].phase \in InFlight /\ call'["sync"].arg = call["sync"].arg
            \/ calm /\ active # Nothing => call'["sync"].arg <= Len(log'[active])
  PROVE  BoundInv'
<1>1. SUFFICES ASSUME calm', active' # Nothing
               PROVE  /\ watermark' <= Len(log'[active])
                      /\ base' <= Len(log'[active])
                      /\ call'["sync"].phase \in InFlight => call'["sync"].arg <= Len(log'[active])
  BY DEF BoundInv, refreshing
<1>2. calm
  BY <1>1, Zenon
<1>3. active \in Conversations /\ active # Nothing
  BY <1>1 DEF ListTypes
<1>4. Len(log[active]) \in Nat /\ Len(log'[active]) \in Nat /\ Len(log[active]) <= Len(log'[active])
  BY <1>3 DEF Grows
<1>5. /\ watermark <= Len(log[active])
      /\ base <= Len(log[active])
      /\ call["sync"].phase \in InFlight => call["sync"].arg <= Len(log[active])
  BY <1>2, <1>3 DEF BoundInv, refreshing
<1>6. watermark \in Nat /\ base \in Nat /\ call["sync"].arg \in Nat
  BY SlotFacts, CallFields DEF ListTypes
<1>7. watermark' <= Len(log'[active])
  BY <1>2, <1>3, <1>4, <1>5, <1>6
<1>8. base' <= Len(log'[active])
  BY <1>4, <1>5, <1>6
<1>9. ASSUME call'["sync"].phase \in InFlight PROVE call'["sync"].arg <= Len(log'[active])
  BY <1>2, <1>3, <1>4, <1>5, <1>6, <1>9
<1>10. QED
  BY <1>7, <1>8, <1>9

\* A step of the server, of the connection, or of an event that is ignored.
LEMMA NothingMoves ==
  ASSUME Knowledge, Grows, UNCHANGED <<list, call, reported, base, calm>>, error' \in BOOLEAN
  PROVE  Knowledge'
<1>1. ListTypes' /\ CallTypes' /\ ReportTypes' /\ ActiveInv' /\ BubbleInv'
  BY DEF Knowledge, ListTypes, CallTypes, ReportTypes, ActiveInv, BubbleInv
<1>2. calm' \in BOOLEAN
  BY DEF Knowledge, FlagTypes
<1>3. FlagTypes'
  BY <1>2 DEF FlagTypes
<1>4. OwnInv'
  BY Zenon DEF Knowledge, OwnInv
<1>5. PageInv'
  BY Zenon DEF Knowledge, PageInv, loadingOlder
<1>6. CallInv'
  <2>1. ASSUME NEW t \in Slots, call[t].phase = "served"
        PROVE  call[t].at <= Len(log'[call[t].of])
    <3>1. call[t].of \in Conversations /\ call[t].at <= Len(log[call[t].of]) /\ call[t].at \in Nat
      BY <2>1, CallFields DEF Knowledge, CallInv, InFlight
    <3>2. QED
      BY <3>1 DEF Grows
  <2>2. QED
    BY <2>1 DEF Knowledge, CallInv
<1>7. BoundInv'
  BY <1>1, BoundKeeps DEF Knowledge
<1>8. PagingLeavesNoHole'
  BY PagingKeeps DEF Knowledge
<1>9. SyncLeavesNoHole'
  BY SyncKeeps DEF Knowledge
<1>10. ReportsOwnPositions'
  BY <1>1, ReportsKeep DEF Knowledge
<1>11. QED
  BY <1>1, <1>3, <1>4, <1>5, <1>6, <1>7, <1>8, <1>9, <1>10 DEF Knowledge

\* openConversation starts over, and what it leaves in flight ends the calm.
LEMMA OpenStep ==
  ASSUME Knowledge, Grows, UNCHANGED log, NEW s \in Opens, NEW c \in Conversations, Open(s, c)
  PROVE  Knowledge'
<1>1. /\ active' = c /\ c # Nothing /\ shown' = {} /\ bubbles' = {}
      /\ watermark' = 0 /\ before' = 0 /\ base' = 0 /\ error' = FALSE
      /\ call' = [call EXCEPT ![s] = Asked(c, 0)]
      /\ UNCHANGED reported
  BY ConversationAssumption DEF Open
<1>2. s \in Slots /\ s # "older" /\ s # "sync" /\ s \notin Sends
  BY SlotFacts
<1>3. Asked(c, 0) \in Call
      /\ Asked(c, 0) = [phase |-> "asked", of |-> c, from |-> 0, arg |-> 0, at |-> 0]
  BY AskedIsCall
<1>4. CallTypes' /\ call'[s] = Asked(c, 0) /\ \A t \in Slots : t # s => call'[t] = call[t]
  BY <1>1, <1>2, <1>3 DEF Knowledge, CallTypes
<1>5. calm' => calm /\ \A t \in Slots : call[t].phase \notin InFlight
  BY Zenon DEF Open, Busy
<1>6. calm' \in BOOLEAN
  BY Zenon DEF Open, Knowledge, FlagTypes
<1>7. ListTypes' /\ ReportTypes' /\ FlagTypes' /\ ActiveInv' /\ BubbleInv'
  BY <1>1, <1>6 DEF Knowledge, ListTypes, ReportTypes, FlagTypes, ActiveInv, BubbleInv, Rows
<1>8. CallInv'
  <2>1. ASSUME NEW t \in Slots
        PROVE  /\ call'[t].phase \in InFlight \cup {"failed"} =>
                     call'[t].of \in Conversations /\ active' # Nothing
               /\ call'[t].phase = "served" =>
                     call'[t].at <= Len(log'[call'[t].of]) /\ (t \in Sends => call'[t].at > 0)
               /\ t \in Opens /\ call'[t].phase \in InFlight => call'[t].arg = 0
    <3>1. CASE t = s
      BY <1>1, <1>3, <1>4, <3>1
    <3>2. CASE t # s
      BY <1>1, <1>4, <3>2 DEF Knowledge, CallInv
    <3>3. QED
      BY <3>1, <3>2
  <2>2. QED
    BY <2>1 DEF CallInv
<1>9. ASSUME calm', NEW t \in Slots, call'[t].phase \in InFlight PROVE t = s
  BY <1>4, <1>5, <1>9
<1>10. OwnInv'
  BY <1>1, <1>3, <1>4, <1>9 DEF OwnInv
<1>11. Len(log'[c]) \in Nat
  BY DEF Grows
<1>12. BoundInv'
  BY <1>1, <1>2, <1>9, <1>11, SlotFacts DEF BoundInv, refreshing
<1>13. PageInv'
  <2>1. ASSUME calm' PROVE call'["older"].phase \notin InFlight
    BY <1>2, <1>9, <2>1, SlotFacts
  <2>2. QED
    BY <1>1, <1>9, <2>1, SlotFacts DEF PageInv, loadingOlder, InFlight
<1>14. PagingLeavesNoHole'
  <2>1. SUFFICES ASSUME NEW n \in Visible(active, Len(log[active]))', n <= base' PROVE FALSE
    BY DEF PagingLeavesNoHole, Complete
  <2>2. n \in 1 .. Len(log'[c])
    BY <1>1 DEF Visible
  <2>3. QED
    BY <1>1, <1>11, <2>1, <2>2
<1>15. SyncLeavesNoHole'
  BY <1>2, <1>9, SlotFacts DEF SyncLeavesNoHole, refreshing
<1>16. ReportsOwnPositions'
  BY <1>1, <1>5, Zenon DEF Knowledge, ReportsOwnPositions
<1>17. QED
  BY <1>4, <1>7, <1>8, <1>10, <1>12, <1>13, <1>14, <1>15, <1>16 DEF Knowledge

\* loadOlder asks for the page below the cursor.
LEMMA LoadOlderStep ==
  ASSUME Knowledge, Grows, LoadOlder
  PROVE  Knowledge'
<1> DEFINE r == [Asked(active, before) EXCEPT !.from = 0]
<1>1. /\ call' = [call EXCEPT !["older"] = r] /\ before # 0 /\ call["older"].phase \notin InFlight
      /\ UNCHANGED <<active, shown, bubbles, watermark, before, error, reported, base, calm>>
  BY DEF LoadOlder, loadingOlder
<1>2. active \in Conversations /\ before \in Nat /\ active # Nothing
  BY <1>1, ConversationAssumption DEF Knowledge, ListTypes, ActiveInv
<1>3. r \in Call /\ r = [phase |-> "asked", of |-> active, from |-> 0, arg |-> before, at |-> 0]
  BY <1>2, AskedIsCall
<1>4. /\ CallTypes' /\ CallInv' /\ BubbleInv' /\ OwnInv'
      /\ call'["older"] = r
      /\ \A t \in Slots : t # "older" => call'[t] = call[t]
  <2> HIDE DEF r
  <2>1. QED
    BY <1>1, <1>2, <1>3, SlotFacts, OneCall DEF Knowledge
<1>5. ListTypes' /\ ReportTypes' /\ ActiveInv'
  BY <1>1 DEF Knowledge, ListTypes, ReportTypes, ActiveInv
<1>6. FlagTypes'
  BY <1>1, Zenon DEF Knowledge, FlagTypes
<1>7. call'["sync"] = call["sync"]
  BY <1>4, SlotFacts
<1>8. BoundInv'
  BY <1>1, <1>4, <1>5, <1>7, BoundKeeps DEF Knowledge
<1>9. PagingLeavesNoHole' /\ SyncLeavesNoHole'
  BY <1>1, <1>7, PagingKeeps, SyncKeeps DEF Knowledge
<1>10. ReportsOwnPositions'
  BY <1>1, <1>5, ReportsKeep DEF Knowledge
<1>11. PageInv'
  <2>1. SUFFICES ASSUME calm'
                 PROVE  /\ \A s, t \in Opens :
                             call'[s].phase \in InFlight /\ call'[t].phase \in InFlight => s = t
                        /\ \A s \in Opens : call'[s].phase \in InFlight =>
                             before' = 0 /\ call'["older"].phase \notin InFlight
                        /\ call'["older"].phase \in InFlight => call'["older"].arg = before'
                        /\ call'["older"].phase = "served" => base' <= call'["older"].at
    BY DEF PageInv, loadingOlder
  <2>2. calm
    BY <1>1, <2>1, Zenon
  <2>3. \A s \in Opens : call'[s].phase \notin InFlight
    BY <1>1, <1>4, <2>2, SlotFacts DEF Knowledge, PageInv
  <2>4. QED
    BY <1>1, <1>3, <1>4, <2>3
<1>12. QED
  BY <1>4, <1>5, <1>6, <1>8, <1>9, <1>10, <1>11 DEF Knowledge

\* Nothing is asked about the pages of the history.
LEMMA PageKeeps ==
  ASSUME PageInv, UNCHANGED <<before, base, calm>>,
         \A s \in Opens : call'[s].phase \in InFlight => call[s].phase \in InFlight,
         call'["older"].phase \in InFlight =>
            call["older"].phase \in InFlight /\ call'["older"].arg = call["older"].arg,
         call'["older"].phase = "served" => (calm => base <= call'["older"].at)
  PROVE  PageInv'
<1>1. SUFFICES ASSUME calm'
               PROVE  /\ \A s, t \in Opens :
                           call'[s].phase \in InFlight /\ call'[t].phase \in InFlight => s = t
                      /\ \A s \in Opens : call'[s].phase \in InFlight =>
                           before' = 0 /\ call'["older"].phase \notin InFlight
                      /\ call'["older"].phase \in InFlight => call'["older"].arg = before'
                      /\ call'["older"].phase = "served" => base' <= call'["older"].at
  BY DEF PageInv, loadingOlder
<1>2. calm
  BY <1>1, Zenon
<1>3. QED
  BY <1>2 DEF PageInv, loadingOlder

\* A refresh starts at the watermark: refreshGapSync, or a connection.ready.
LEMMA RefreshStep ==
  ASSUME Knowledge, Grows, active # Nothing, call["sync"].phase \notin InFlight,
         call' = [call EXCEPT !["sync"] = Asked(active, watermark)],
         UNCHANGED <<list, error, reported, base, calm>>
  PROVE  Knowledge'
<1> DEFINE r == Asked(active, watermark)
<1>1. active \in Conversations /\ watermark \in Nat
  BY DEF Knowledge, ListTypes
<1>2. /\ r \in Call
      /\ r = [phase |-> "asked", of |-> active, from |-> watermark, arg |-> watermark, at |-> 0]
  BY <1>1, AskedIsCall
<1>3. /\ CallTypes' /\ CallInv' /\ BubbleInv' /\ OwnInv'
      /\ call'["sync"] = r
      /\ \A t \in Slots : t # "sync" => call'[t] = call[t]
  <2> HIDE DEF r
  <2>1. call' = [call EXCEPT !["sync"] = r]
    BY DEF r
  <2>2. QED
    BY <1>1, <1>2, <2>1, SlotFacts, OneCall DEF Knowledge
<1>4. ListTypes' /\ ReportTypes' /\ ActiveInv'
  BY DEF Knowledge, ListTypes, ReportTypes, ActiveInv
<1>5. FlagTypes'
  BY Zenon DEF Knowledge, FlagTypes
<1>6. ASSUME calm PROVE watermark <= Len(log'[active])
  <2>1. watermark <= Len(log[active])
    BY <1>6 DEF Knowledge, BoundInv
  <2>2. QED
    BY <1>1, <2>1 DEF Grows
<1>7. BoundInv'
  BY <1>2, <1>3, <1>4, <1>6, BoundKeeps DEF Knowledge
<1>8. PagingLeavesNoHole'
  BY PagingKeeps DEF Knowledge
<1>9. SyncLeavesNoHole'
  BY <1>1, <1>2, <1>3, SyncStarts
<1>10. ReportsOwnPositions'
  BY <1>4, ReportsKeep DEF Knowledge
<1>11. PageInv'
  <2>1. /\ call'["older"] = call["older"]
        /\ \A s \in Opens : call'[s] = call[s]
    BY <1>3, SlotFacts
  <2>2. calm /\ call["older"].phase = "served" => base <= call["older"].at
    BY DEF Knowledge, PageInv
  <2>3. PageInv
    BY DEF Knowledge
  <2>4. QED
    BY <2>1, <2>2, <2>3, PageKeeps
<1>12. QED
  BY <1>3, <1>4, <1>5, <1>7, <1>8, <1>9, <1>10, <1>11 DEF Knowledge

\* A step of one send that changes neither what is known nor what is read.
LEMMA SendStep ==
  ASSUME Knowledge, Grows, NEW s \in Sends,
         NEW r \in Call, call' = [call EXCEPT ![s] = r],
         r.phase \in {"asked", "failed"}, r.of \in Conversations, active # Nothing,
         r.phase = "asked" => r.of = active,
         bubbles' \subseteq bubbles \cup {s}, s \in bubbles' => r.of = active,
         UNCHANGED <<active, shown, watermark, before, reported, base, calm>>, error' \in BOOLEAN
  PROVE  Knowledge'
<1>1. s \in Slots /\ s # "older" /\ s # "sync" /\ s \notin Opens
  BY SlotFacts
<1>2. /\ CallTypes' /\ CallInv' /\ BubbleInv' /\ OwnInv'
      /\ call'[s] = r
      /\ \A t \in Slots : t # s => call'[t] = call[t]
  <2>1. r.phase \in InFlight => r.phase = "asked"
    BY DEF InFlight
  <2>2. QED
    BY <1>1, <2>1, OneCall DEF Knowledge
<1>3. ListTypes' /\ ReportTypes' /\ ActiveInv'
  BY DEF Knowledge, ListTypes, ReportTypes, ActiveInv
<1>4. calm' \in BOOLEAN
  BY DEF Knowledge, FlagTypes
<1>5. call'["sync"] = call["sync"] /\ call'["older"] = call["older"]
      /\ \A t \in Opens : call'[t] = call[t]
  BY <1>1, <1>2, SlotFacts
<1>6. BoundInv'
  BY <1>2, <1>3, <1>5, BoundKeeps DEF Knowledge
<1>7. PagingLeavesNoHole' /\ SyncLeavesNoHole'
  BY <1>5, PagingKeeps, SyncKeeps DEF Knowledge
<1>8. ReportsOwnPositions'
  BY <1>3, ReportsKeep DEF Knowledge
<1>9. PageInv'
  <2>1. calm /\ call["older"].phase = "served" => base <= call["older"].at
    BY DEF Knowledge, PageInv
  <2>2. PageInv
    BY DEF Knowledge
  <2>3. QED
    BY <1>5, <2>1, <2>2, PageKeeps
<1>10. QED
  BY <1>2, <1>3, <1>4, <1>6, <1>7, <1>8, <1>9 DEF Knowledge, FlagTypes

LEMMA SendTextStep ==
  ASSUME Knowledge, Grows, NEW s \in Sends, SendText(s)
  PROVE  Knowledge'
<1>1. active \in Conversations /\ active # Nothing
  BY DEF SendText, Knowledge, ListTypes
<1>2. PICK r \in Call : r = Asked(active, 0) /\ r.phase = "asked" /\ r.of = active
  <2>1. /\ Asked(active, 0) \in Call
        /\ Asked(active, 0) = [phase |-> "asked", of |-> active, from |-> 0, arg |-> 0, at |-> 0]
    BY <1>1, AskedIsCall
  <2>2. QED
    BY <2>1
<1>3. /\ call' = [call EXCEPT ![s] = r]
      /\ bubbles' = bubbles \cup {s} /\ error' = FALSE
      /\ UNCHANGED <<active, shown, watermark, before, reported, base, calm>>
  BY <1>2 DEF SendText
<1>4. QED
  BY <1>1, <1>2, <1>3, SendStep

LEMMA RetryStep ==
  ASSUME Knowledge, Grows, NEW s \in Sends, RetryMessage(s)
  PROVE  Knowledge'
<1>1. s \in Slots /\ call[s].phase = "failed" /\ s \in bubbles
  BY SlotFacts DEF RetryMessage
<1>2. call[s].of = active /\ active \in Conversations /\ active # Nothing
  BY <1>1 DEF Knowledge, BubbleInv, CallInv
<1>3. PICK r \in Call : r = Asked(active, 0) /\ r.phase = "asked" /\ r.of = active
  <2>1. /\ Asked(active, 0) \in Call
        /\ Asked(active, 0) = [phase |-> "asked", of |-> active, from |-> 0, arg |-> 0, at |-> 0]
    BY <1>2, AskedIsCall
  <2>2. QED
    BY <2>1
<1>4. /\ call' = [call EXCEPT ![s] = r]
      /\ UNCHANGED <<bubbles, error, active, shown, watermark, before, reported, base, calm>>
  BY <1>2, <1>3 DEF RetryMessage
<1>5. error' \in BOOLEAN
  BY <1>4 DEF Knowledge, FlagTypes
<1>6. QED
  BY <1>1, <1>2, <1>3, <1>4, <1>5, SendStep

LEMMA ServedIs ==
  ASSUME NEW q \in Call, NEW n \in Nat
  PROVE  [q EXCEPT !.phase = "served", !.at = n]
           = [phase |-> "served", of |-> q.of, from |-> q.from, arg |-> q.arg, at |-> n]
<1>1. PICK z : z = [q EXCEPT !.phase = "served", !.at = n]
  OBVIOUS
<1>2. z \in Call
  BY <1>1 DEF Call, Phases, InFlight
<1>3. /\ z.phase = "served" /\ z.of = q.of /\ z.from = q.from
      /\ z.arg = q.arg /\ z.at = n
  BY <1>1 DEF Call
<1>4. z = [phase |-> z.phase, of |-> z.of, from |-> z.from, arg |-> z.arg, at |-> z.at]
  BY <1>2 DEF Call
<1>5. QED
  BY <1>1, <1>3, <1>4

\* The answer of the server: the call is served from the log as it is after it.
LEMMA ServeIs ==
  ASSUME Knowledge, ServerTypes, Grows, NEW s \in Slots, Serve(s)
  PROVE  \E r \in Call :
            /\ call' = [call EXCEPT ![s] = r]
            /\ r.phase = "served" /\ r.of = call[s].of /\ r.from = call[s].from
            /\ r.arg = call[s].arg
            /\ r.of \in Conversations
            /\ Len(log[r.of]) <= r.at /\ r.at <= Len(log'[r.of])
            /\ s \in Sends => r.at > 0
            /\ shown \subseteq shown' /\ shown' \subseteq Rows
<1>1. call[s].phase = "asked" /\ call[s].of \in Conversations
  BY DEF Serve, Knowledge, CallInv, InFlight
<1>2. PICK c \in Conversations, k \in Nat : c = call[s].of /\ k = Len(log[c]) /\ k <= Len(log'[c])
  BY <1>1 DEF Grows
<1>3. ASSUME NEW n \in Nat, call' = [call EXCEPT ![s].phase = "served", ![s].at = n],
             Len(log[c]) <= n, n <= Len(log'[c]), s \in Sends => n > 0,
             shown \subseteq shown', shown' \subseteq Rows
      PROVE  \E r \in Call :
            /\ call' = [call EXCEPT ![s] = r]
            /\ r.phase = "served" /\ r.of = call[s].of /\ r.from = call[s].from
            /\ r.arg = call[s].arg
            /\ r.of \in Conversations
            /\ Len(log[r.of]) <= r.at /\ r.at <= Len(log'[r.of])
            /\ s \in Sends => r.at > 0
            /\ shown \subseteq shown' /\ shown' \subseteq Rows
  <2> DEFINE r == [phase |-> "served", of |-> c, from |-> call[s].from,
                   arg |-> call[s].arg, at |-> n]
  <2>1. r \in Call
    BY <1>3, CallFields DEF Knowledge, Call, Phases, InFlight
  <2>2. call' = [call EXCEPT ![s] = r]
    <3>1. call \in [Slots -> Call]
      BY DEF Knowledge, CallTypes
    <3>2. call[s] = [phase |-> call[s].phase, of |-> c, from |-> call[s].from,
                     arg |-> call[s].arg, at |-> call[s].at]
      BY <1>2, CallFields DEF Knowledge
    <3>3. [call[s] EXCEPT !.phase = "served", !.at = n] = r
      <4>1. call[s] \in Call
        BY <3>1
      <4>2. QED
        BY <1>2, <4>1, ServedIs
    <3>4. call' = [call EXCEPT ![s] = [call[s] EXCEPT !.phase = "served", !.at = n]]
      BY <1>3, <3>1
    <3>5. QED
      BY <3>3, <3>4
  <2>3. WITNESS r \in Call
  <2>4. QED
    BY <1>2, <1>3, <2>2
<1>4. CASE s \in Sends
  <2>1. /\ log' = [log EXCEPT ![c] = Append(@, TRUE)]
        /\ shown' = shown \cup {<<c, k + 1>> : b \in bubbles \cap {s}}
        /\ call' = [call EXCEPT ![s].phase = "served", ![s].at = k + 1]
    BY <1>2, <1>4 DEF Serve
  <2>2. Len(log'[c]) = k + 1
    BY <1>2, <2>1, AppendIs
  <2>3. shown' \subseteq Rows
    <3>1. <<c, k + 1>> \in Rows
      BY <1>2 DEF Rows
    <3>2. QED
      BY <2>1, <3>1 DEF Knowledge, ListTypes
  <2>4. k + 1 \in Nat /\ k <= k + 1 /\ k + 1 <= k + 1 /\ k + 1 > 0
    BY <1>2
  <2>5. QED
    BY <1>2, <1>3, <2>1, <2>2, <2>3, <2>4
<1>5. CASE s \notin Sends
  <2>1. /\ call' = [call EXCEPT ![s].phase = "served", ![s].at = k]
        /\ UNCHANGED shown
    BY <1>2, <1>5 DEF Serve
  <2>2. k <= k
    BY <1>2
  <2>3. QED
    BY <1>2, <1>3, <1>5, <2>1, <2>2 DEF Knowledge, ListTypes
<1>6. QED
  BY <1>4, <1>5

LEMMA ServeStep ==
  ASSUME Knowledge, ServerTypes, Grows, NEW s \in Slots, Serve(s)
  PROVE  Knowledge'
<1>1. PICK r \in Call :
            /\ call' = [call EXCEPT ![s] = r]
            /\ r.phase = "served" /\ r.of = call[s].of /\ r.from = call[s].from
            /\ r.arg = call[s].arg
            /\ r.of \in Conversations
            /\ Len(log[r.of]) <= r.at /\ r.at <= Len(log'[r.of])
            /\ s \in Sends => r.at > 0
            /\ shown \subseteq shown' /\ shown' \subseteq Rows
  BY ServeIs
<1>2. call[s].phase = "asked"
      /\ UNCHANGED <<active, bubbles, watermark, before, error, reported, base, calm>>
  BY DEF Serve
<1>3. call[s].phase \in InFlight /\ r.phase \in InFlight
  BY <1>1, <1>2 DEF InFlight
<1>4. active # Nothing /\ (calm => r.of = active) /\ (s \in Opens => r.arg = 0)
  BY <1>1, <1>3 DEF Knowledge, CallInv, OwnInv
<1>5. s \in bubbles' /\ s \in Sends => r.of = active
  BY <1>1, <1>2, <1>3 DEF Knowledge, BubbleInv
<1>6. /\ CallTypes' /\ CallInv' /\ BubbleInv' /\ OwnInv'
      /\ call'[s] = r
      /\ \A t \in Slots : t # s => call'[t] = call[t]
  BY <1>1, <1>2, <1>4, <1>5, OneCall DEF Knowledge
<1>7. ListTypes' /\ ReportTypes' /\ ActiveInv'
  BY <1>1, <1>2 DEF Knowledge, ListTypes, ReportTypes, ActiveInv
<1>8. FlagTypes'
  BY <1>2, Zenon DEF Knowledge, FlagTypes
<1>9. \A t \in Slots : /\ call'[t].phase \in InFlight => call[t].phase \in InFlight
                       /\ call'[t].from = call[t].from /\ call'[t].arg = call[t].arg
  BY <1>1, <1>3, <1>6
<1>10. BoundInv'
  BY <1>2, <1>6, <1>7, <1>9, SlotFacts, BoundKeeps DEF Knowledge
<1>11. PagingLeavesNoHole'
  BY <1>1, <1>2, PagingKeeps DEF Knowledge
<1>12. SyncLeavesNoHole'
  BY <1>1, <1>2, <1>9, SlotFacts, SyncKeeps DEF Knowledge
<1>13. ReportsOwnPositions'
  BY <1>2, <1>7, ReportsKeep DEF Knowledge
<1>14. ASSUME calm, call'["older"].phase = "served" PROVE base <= call'["older"].at
  <2>1. CASE s = "older"
    <3>1. active \in Conversations /\ r.of = active
      BY <1>4, <1>14 DEF Knowledge, ListTypes
    <3>2. base <= Len(log[active]) /\ base \in Nat /\ Len(log[active]) \in Nat
      BY <1>4, <1>14, <3>1 DEF Knowledge, BoundInv, ListTypes, Grows
    <3>3. r.at \in Nat
      BY DEF Call
    <3>4. QED
      BY <1>1, <1>6, <2>1, <3>1, <3>2, <3>3
  <2>2. CASE s # "older"
    BY <1>6, <1>14, <2>2, SlotFacts DEF Knowledge, PageInv
  <2>3. QED
    BY <2>1, <2>2
<1>15. PageInv'
  BY <1>2, <1>9, <1>14, SlotFacts, PageKeeps DEF Knowledge
<1>16. QED
  BY <1>6, <1>7, <1>8, <1>10, <1>11, <1>12, <1>13, <1>15 DEF Knowledge

\* Rows that are merged join the list, and the watermark is one of two.
LEMMA MergeIs ==
  ASSUME ListTypes, NEW c \in Conversations, NEW items \in SUBSET (Nat \ {0}), NEW latest \in Nat,
         Merge(c, items, latest)
  PROVE  /\ shown \subseteq shown' /\ shown' \subseteq Rows
         /\ \A n \in items : <<c, n>> \in shown'
         /\ watermark' \in Nat /\ watermark' \in {watermark, latest}
<1>1. watermark' \in {watermark, latest} /\ watermark \in Nat
  BY MaxOfTwo DEF Merge, ListTypes
<1>2. \A n \in items : <<c, n>> \in Rows
  BY DEF Rows
<1>3. shown' = shown \cup {<<c, n>> : n \in items} /\ shown \subseteq Rows
  BY DEF Merge, ListTypes
<1>4. QED
  BY <1>1, <1>2, <1>3

\* What is reported is a position of the open conversation.
LEMMA OwnReport ==
  ASSUME Knowledge, Grows, UNCHANGED <<active, calm>>, NEW m \in Nat,
         calm /\ active # Nothing => watermark <= Len(log'[active]) /\ m <= Len(log'[active]),
         MarkRead(active, Max({watermark, m})) \/ UNCHANGED reported
  PROVE  ReportTypes' /\ ReportsOwnPositions'
<1>1. PICK k \in Nat : k = Max({watermark, m}) /\ k \in {watermark, m}
  <2>1. watermark \in Nat
    BY DEF Knowledge, ListTypes
  <2>2. Max({watermark, m}) \in {watermark, m}
    BY <2>1, MaxOfTwo
  <2>3. QED
    BY <2>1, <2>2
<1>2. active \in Conversations \cup {Nothing}
  BY DEF Knowledge, ListTypes
<1>3. ReportTypes' /\ \A d \in Conversations :
         reported'[d] = reported[d] \/ (d = active /\ reported'[d] = k)
  <2>1. CASE MarkRead(active, k)
    BY <1>2, <2>1, MarkReadIs DEF Knowledge
  <2>2. CASE UNCHANGED reported
    BY <2>2 DEF Knowledge, ReportTypes
  <2>3. QED
    BY <1>1, <2>1, <2>2
<1>4. ASSUME NEW d \in Conversations
      PROVE  reported'[d] = reported[d] \/ (calm => reported'[d] <= Len(log'[d]))
  <2>1. CASE d = active /\ reported'[d] = k
    BY <1>1, <2>1, ConversationAssumption
  <2>2. QED
    BY <1>3, <2>1
<1>5. ReportsOwnPositions'
  BY <1>3, <1>4, ReportsKeep DEF Knowledge
<1>6. QED
  BY <1>3, <1>5

\* The watermark after a merge is a position of the open conversation.
LEMMA WatermarkBound ==
  ASSUME Knowledge, Grows, NEW m \in Nat,
         calm /\ active # Nothing => m <= Len(log'[active])
  PROVE  calm /\ active # Nothing => watermark <= Len(log'[active]) /\ m <= Len(log'[active])
<1>1. SUFFICES ASSUME calm, active # Nothing PROVE watermark <= Len(log'[active])
  OBVIOUS
<1>2. active \in Conversations /\ watermark \in Nat /\ watermark <= Len(log[active])
  BY <1>1 DEF Knowledge, ListTypes, BoundInv
<1>3. QED
  BY <1>2 DEF Grows

\* A call that ends.
LEMMA CallEnds ==
  ASSUME Knowledge, Grows, UNCHANGED <<active, calm, bubbles>>, NEW s \in Slots,
         NEW p \in {"idle", "done"}, call' = [call EXCEPT ![s] = [NoCall EXCEPT !.phase = p]]
  PROVE  /\ CallTypes' /\ CallInv' /\ BubbleInv' /\ OwnInv'
         /\ call'[s].phase \notin InFlight
         /\ \A t \in Slots : t # s => call'[t] = call[t]
<1>1. PICK r : r = [NoCall EXCEPT !.phase = p]
  OBVIOUS
<1>2. r \in Call /\ r.phase = p
  BY <1>1 DEF NoCall, Call, Phases
<1>3. r.phase \notin InFlight \cup {"failed"}
  BY <1>2 DEF InFlight
<1>4. call' = [call EXCEPT ![s] = r]
  BY <1>1
<1>5. r.phase # "served"
  BY <1>2
<1>6. QED
  BY <1>2, <1>3, <1>4, <1>5, OneCall DEF Knowledge

LEMMA FlagsKeep ==
  ASSUME Knowledge, UNCHANGED <<error, calm>>
  PROVE  FlagTypes'
BY Zenon DEF Knowledge, FlagTypes

\* A page that is answered: the rows it holds are rows of the open conversation.
LEMMA ServedIsOwn ==
  ASSUME Knowledge, Grows, NEW s \in Slots, call[s].phase = "served"
  PROVE  /\ call[s].phase \in InFlight
         /\ call[s].of \in Conversations /\ active \in Conversations /\ active # Nothing
         /\ call[s].at \in Nat /\ call[s].arg \in Nat /\ call[s].from \in Nat
         /\ calm => call[s].of = active /\ call[s].at <= Len(log[active])
         /\ Len(log[active]) \in Nat /\ Len(log'[active]) \in Nat
         /\ Len(log[active]) <= Len(log'[active])
<1>1. call[s].phase \in InFlight
  BY DEF InFlight
<1>2. call[s].of \in Conversations /\ active \in Conversations /\ active # Nothing
  BY <1>1 DEF Knowledge, CallInv, ListTypes
<1>3. call[s].at \in Nat /\ call[s].arg \in Nat /\ call[s].from \in Nat
  BY CallFields DEF Knowledge
<1>4. calm => call[s].of = active /\ call[s].at <= Len(log[active])
  BY <1>1 DEF Knowledge, OwnInv, CallInv
<1>5. QED
  BY <1>1, <1>2, <1>3, <1>4 DEF Grows

EndsCall(s, p) ==
    /\ call' = [call EXCEPT ![s] = [NoCall EXCEPT !.phase = p]]
    /\ UNCHANGED <<list, reported, base, calm>>

\* A call that ends with nothing to show.
LEMMA EndStep ==
  ASSUME Knowledge, Grows, NEW s \in Slots, NEW p \in {"idle", "done"}, EndsCall(s, p),
         error' \in BOOLEAN
  PROVE  Knowledge'
<1>1. /\ call' = [call EXCEPT ![s] = [NoCall EXCEPT !.phase = p]]
      /\ UNCHANGED <<list, reported, base, calm>>
  BY DEF EndsCall
<1>2. /\ CallTypes' /\ CallInv' /\ BubbleInv' /\ OwnInv'
      /\ call'[s].phase \notin InFlight
      /\ \A t \in Slots : t # s => call'[t] = call[t]
  BY <1>1, CallEnds DEF Knowledge
<1>3. ListTypes' /\ ReportTypes' /\ ActiveInv'
  BY <1>1 DEF Knowledge, ListTypes, ReportTypes, ActiveInv
<1>4. calm' \in BOOLEAN
  BY <1>1 DEF Knowledge, FlagTypes
<1>5. \A t \in Slots : call'[t].phase \in InFlight =>
         call[t].phase \in InFlight /\ call'[t] = call[t]
  BY <1>2
<1>6. BoundInv'
  BY <1>1, <1>2, <1>3, <1>5, SlotFacts, BoundKeeps DEF Knowledge
<1>7. PagingLeavesNoHole'
  BY <1>1, PagingKeeps DEF Knowledge
<1>8. SyncLeavesNoHole'
  BY <1>1, <1>5, SlotFacts, SyncKeeps DEF Knowledge
<1>9. ReportsOwnPositions'
  BY <1>1, <1>3, ReportsKeep DEF Knowledge
<1>10. PageInv'
  <2>1. ASSUME calm, call'["older"].phase = "served" PROVE base <= call'["older"].at
    <3>1. call'["older"] = call["older"]
      BY <1>5, <2>1, SlotFacts DEF InFlight
    <3>2. QED
      BY <2>1, <3>1 DEF Knowledge, PageInv
  <2>2. PageInv
    BY DEF Knowledge
  <2>3. QED
    BY <1>1, <1>5, <2>1, <2>2, SlotFacts, PageKeeps
<1>11. QED
  BY <1>2, <1>3, <1>4, <1>6, <1>7, <1>8, <1>9, <1>10 DEF Knowledge, FlagTypes

LEMMA FailedIs ==
  ASSUME NEW q \in Call
  PROVE  /\ [q EXCEPT !.phase = "failed", !.at = 0] \in Call
         /\ [q EXCEPT !.phase = "failed", !.at = 0].phase = "failed"
         /\ [q EXCEPT !.phase = "failed", !.at = 0].of = q.of
BY DEF Call, Phases

LEMMA FailStep ==
  ASSUME Knowledge, Grows, NEW s \in Slots, FailCall(s)
  PROVE  Knowledge'
<1>1. /\ call[s].phase \in InFlight /\ error' = TRUE
      /\ UNCHANGED <<list, reported, base, calm>>
  BY DEF FailCall, InFlight
<1>2. CASE s \in Sends
  <2>1. call[s] \in Call
    BY DEF Knowledge, CallTypes
  <2>2. PICK r \in Call : /\ r = [call[s] EXCEPT !.phase = "failed", !.at = 0]
                          /\ r.phase = "failed" /\ r.of = call[s].of
    BY <2>1, FailedIs
  <2>3. call' = [call EXCEPT ![s] = r]
    BY <1>2, <2>2 DEF FailCall
  <2>4. r.of \in Conversations /\ active # Nothing /\ (s \in bubbles' => r.of = active)
    BY <1>1, <1>2, <2>2 DEF Knowledge, CallInv, BubbleInv
  <2>5. QED
    BY <1>1, <1>2, <2>2, <2>3, <2>4, SendStep
<1>3. CASE s \notin Sends
  <2>1. PICK p \in {"idle", "done"} : p = IF s \in Opens THEN "done" ELSE "idle"
    OBVIOUS
  <2>2. call' = [call EXCEPT ![s] = [NoCall EXCEPT !.phase = p]]
    BY <1>3, <2>1 DEF FailCall
  <2>3. EndsCall(s, p)
    BY <1>1, <2>2 DEF EndsCall
  <2>4. QED
    BY <1>1, <2>3, EndStep
<1>4. QED
  BY <1>2, <1>3

LEMMA EndSyncStep ==
  ASSUME Knowledge, Grows, EndSync
  PROVE  Knowledge'
<1>1. NoCall = [NoCall EXCEPT !.phase = "idle"]
  BY DEF NoCall
<1>2. call' = [call EXCEPT !["sync"] = [NoCall EXCEPT !.phase = "idle"]]
  BY <1>1 DEF EndSync
<1>3. EndsCall("sync", "idle") /\ error' = error
  BY <1>2 DEF EndSync, EndsCall
<1>4. error' \in BOOLEAN
  BY <1>3 DEF Knowledge, FlagTypes
<1>5. QED
  BY <1>3, <1>4, SlotFacts, EndStep

\* Rows of the open conversation that join the list with an event or a send.
LEMMA RowsJoin ==
  ASSUME Knowledge, Grows, NEW c \in Conversations, NEW n \in Nat \ {0}, Merge(c, {n}, n),
         active # Nothing, calm => c = active /\ n <= Len(log'[active]),
         MarkRead(active, Max({watermark, n})) \/ UNCHANGED reported,
         UNCHANGED <<active, bubbles, before, error, base, calm>>,
         CallTypes', CallInv', BubbleInv', OwnInv',
         \A t \in Slots : call'[t].phase \in InFlight => call'[t] = call[t]
  PROVE  Knowledge'
<1>1. n \in Nat /\ {n} \in SUBSET (Nat \ {0})
  OBVIOUS
<1>2. /\ shown \subseteq shown' /\ shown' \subseteq Rows
      /\ watermark' \in Nat /\ watermark' \in {watermark, n}
  BY <1>1, MergeIs DEF Knowledge
<1>3. calm /\ active # Nothing => watermark <= Len(log'[active]) /\ n <= Len(log'[active])
  BY <1>1, WatermarkBound
<1>4. ReportTypes' /\ ReportsOwnPositions'
  BY <1>1, <1>3, OwnReport
<1>5. ListTypes' /\ ActiveInv'
  BY <1>2 DEF Knowledge, ListTypes, ActiveInv
<1>6. FlagTypes'
  BY FlagsKeep
<1>7. BoundInv'
  BY <1>2, <1>3, <1>5, SlotFacts, BoundKeeps DEF Knowledge
<1>8. PagingLeavesNoHole'
  BY <1>2, PagingKeeps DEF Knowledge
<1>9. SyncLeavesNoHole'
  BY <1>2, SlotFacts, SyncKeeps DEF Knowledge
<1>10. PageInv'
  <2>1. ASSUME calm, call'["older"].phase = "served" PROVE base <= call'["older"].at
    <3>1. call'["older"] = call["older"]
      BY <2>1, SlotFacts DEF InFlight
    <3>2. QED
      BY <2>1, <3>1 DEF Knowledge, PageInv
  <2>2. PageInv
    BY DEF Knowledge
  <2>3. QED
    BY <2>1, <2>2, SlotFacts, PageKeeps
<1>11. QED
  BY <1>4, <1>5, <1>6, <1>7, <1>8, <1>9, <1>10 DEF Knowledge

LEMMA ConfirmStep ==
  ASSUME Knowledge, Grows, NEW s \in Slots, Confirm(s)
  PROVE  Knowledge'
<1>1. s \in Sends /\ call[s].phase = "served"
  BY DEF Confirm
<1>2. /\ call[s].of \in Conversations /\ active # Nothing
      /\ call[s].at \in Nat
      /\ calm => call[s].of = active /\ call[s].at <= Len(log[active])
      /\ Len(log[active]) \in Nat /\ Len(log'[active]) \in Nat
      /\ Len(log[active]) <= Len(log'[active])
  BY <1>1, ServedIsOwn
<1>3. call[s].at > 0
  BY <1>1 DEF Knowledge, CallInv
<1>4. PICK c \in Conversations, n \in Nat \ {0} : c = call[s].of /\ n = call[s].at
  BY <1>2, <1>3
<1>5. /\ Merge(c, {n}, n) /\ MarkRead(active, Max({watermark, n}))
      /\ call' = [call EXCEPT ![s] = [NoCall EXCEPT !.phase = "done"]]
      /\ UNCHANGED <<active, bubbles, before, error, base, calm>>
  BY <1>4 DEF Confirm
<1>6. calm => c = active /\ n <= Len(log'[active])
  BY <1>2, <1>4
<1>7. /\ CallTypes' /\ CallInv' /\ BubbleInv' /\ OwnInv'
      /\ call'[s].phase \notin InFlight
      /\ \A t \in Slots : t # s => call'[t] = call[t]
  BY <1>5, CallEnds
<1>8. QED
  BY <1>2, <1>5, <1>6, <1>7, RowsJoin

LEMMA HandleCreatedStep ==
  ASSUME Knowledge, Grows, WireTypes, WireInv, HandleCreated
  PROVE  Knowledge'
<1>1. wire # <<>> /\ Head(wire).kind = "created"
      /\ UNCHANGED <<active, bubbles, before, error, call, base, calm>>
  BY DEF HandleCreated
<1>2. PICK e \in Event : e = Head(wire) /\ e = wire[1] /\ 1 \in 1 .. Len(wire)
  BY <1>1, HeadOfWire
<1>3. e.of \in Conversations /\ e.seq \in Nat \ {0} /\ e.seq <= Len(log[e.of])
  BY <1>1, <1>2, CreatedIs DEF WireInv
<1>4. e.seq <= Len(log'[e.of])
  BY <1>3 DEF Grows
<1>5. PICK c \in Conversations, n \in Nat \ {0} : c = e.of /\ n = e.seq
  BY <1>3
<1>6. CASE c = active
  <2>1. Merge(c, {n}, n) /\ (MarkRead(active, Max({watermark, n})) \/ UNCHANGED reported)
    BY <1>2, <1>5, <1>6 DEF HandleCreated
  <2>2. active # Nothing /\ (calm => c = active /\ n <= Len(log'[active]))
    BY <1>4, <1>5, <1>6, ConversationAssumption
  <2>3. CallTypes' /\ BubbleInv'
    BY <1>1 DEF Knowledge, CallTypes, BubbleInv
  <2>4. OwnInv'
    BY <1>1, Zenon DEF Knowledge, OwnInv
  <2>5. CallInv'
    <3>1. ASSUME NEW t \in Slots, call[t].phase = "served"
          PROVE  call[t].at <= Len(log'[call[t].of])
      <4>1. call[t].of \in Conversations /\ call[t].at <= Len(log[call[t].of]) /\ call[t].at \in Nat
        BY <3>1, CallFields DEF Knowledge, CallInv, InFlight
      <4>2. QED
        BY <4>1 DEF Grows
    <3>2. QED
      BY <1>1, <3>1 DEF Knowledge, CallInv
  <2>6. QED
    BY <1>1, <2>1, <2>2, <2>3, <2>4, <2>5, RowsJoin
<1>7. CASE c # active
  <2>1. UNCHANGED <<shown, watermark, reported>>
    BY <1>2, <1>5, <1>7 DEF HandleCreated
  <2>2. error' \in BOOLEAN
    BY <1>1 DEF Knowledge, FlagTypes
  <2>3. QED
    BY <1>1, <2>1, <2>2, NothingMoves
<1>8. QED
  BY <1>6, <1>7

LEMMA HandleReadyStep ==
  ASSUME Knowledge, Grows, HandleReady
  PROVE  Knowledge'
<1>1. UNCHANGED <<list, error, reported, base, calm>>
  BY DEF HandleReady
<1>2. error' \in BOOLEAN
  BY <1>1 DEF Knowledge, FlagTypes
<1>3. CASE UNCHANGED call
  BY <1>1, <1>2, <1>3, NothingMoves
<1>4. CASE /\ active # Nothing /\ ~refreshing
           /\ call' = [call EXCEPT !["sync"] = Asked(active, watermark)]
  BY <1>1, <1>4, RefreshStep DEF refreshing
<1>5. QED
  BY <1>3, <1>4 DEF HandleReady

LEMMA RefreshIs ==
  ASSUME Knowledge, Grows, Refresh
  PROVE  Knowledge'
<1>1. /\ active # Nothing /\ call["sync"].phase \notin InFlight
      /\ call' = [call EXCEPT !["sync"] = Asked(active, watermark)]
      /\ UNCHANGED <<list, error, reported, base, calm>>
  BY DEF Refresh, refreshing
<1>2. QED
  BY <1>1, RefreshStep

\* A page of the history is merged: from the new cursor to the rows the server
\* had when the conversation was opened, nothing is missing.
LEMMA ApplyHistoryStep ==
  ASSUME Knowledge, Grows, UNCHANGED log, NEW s \in Slots, ApplyHistory(s)
  PROVE  Knowledge'
<1> DEFINE page == HistoryPage(call[s].of, call[s].arg, call[s].at)
<1>1. /\ s \in Opens \cup {"older"} /\ s # "sync" /\ s \notin Sends
      /\ call[s].phase = "served"
      /\ UNCHANGED <<active, bubbles, error, calm>>
  BY SlotAssumption DEF ApplyHistory
<1>2. /\ call[s].phase \in InFlight
      /\ call[s].of \in Conversations /\ active \in Conversations /\ active # Nothing
      /\ call[s].at \in Nat /\ call[s].arg \in Nat
      /\ calm => call[s].of = active /\ call[s].at <= Len(log[active])
      /\ Len(log[active]) \in Nat
  BY <1>1, ServedIsOwn
<1>3. PICK c \in Conversations, upTo \in Nat, at \in Nat :
         c = call[s].of /\ upTo = call[s].arg /\ at = call[s].at
  BY <1>2
<1>4. PICK items \in SUBSET (Nat \ {0}), latest \in Nat, next \in Nat :
         /\ items = page.items /\ latest = page.latest /\ next = page.next
         /\ latest <= at
         /\ \A n \in Visible(c, at) : next <= n /\ (upTo = 0 \/ n < upTo) => n \in items
  <2>1. /\ page.items \subseteq Visible(c, at)
        /\ page.latest = LatestVisible(c, at)
        /\ page.next \in Nat
        /\ \A n \in Visible(c, at) :
              page.next <= n /\ (upTo = 0 \/ n < upTo) => n \in page.items
    BY <1>3, HistoryPageIs
  <2>2. page.items \in SUBSET (Nat \ {0})
    BY <2>1 DEF Visible
  <2>3. page.latest \in Nat /\ page.latest <= at
    BY <2>1, LatestIs
  <2> HIDE DEF page
  <2>4. QED
    BY <2>1, <2>2, <2>3
<1>5. PICK p \in {"idle", "done"} : p = IF s \in Opens THEN "done" ELSE "idle"
  OBVIOUS
<1>6. /\ Merge(c, items, latest) /\ before' = next
      /\ base' = IF s \in Opens THEN at ELSE base
      /\ MarkRead(active, Max({watermark, latest})) \/ UNCHANGED reported
      /\ call' = [call EXCEPT ![s] = [NoCall EXCEPT !.phase = p]]
  BY <1>3, <1>4, <1>5 DEF ApplyHistory
<1>7. /\ shown \subseteq shown' /\ shown' \subseteq Rows
      /\ \A n \in items : <<c, n>> \in shown'
      /\ watermark' \in Nat /\ watermark' \in {watermark, latest}
  BY <1>6, MergeIs DEF Knowledge
<1>8. /\ CallTypes' /\ CallInv' /\ BubbleInv' /\ OwnInv'
      /\ call'[s].phase \notin InFlight
      /\ \A t \in Slots : t # s => call'[t] = call[t]
  BY <1>1, <1>6, CallEnds
<1>9. calm => c = active /\ at <= Len(log[active]) /\ latest <= Len(log'[active])
  BY <1>2, <1>3, <1>4
<1>10. calm /\ active # Nothing => watermark <= Len(log'[active]) /\ latest <= Len(log'[active])
  BY <1>9, WatermarkBound
<1>11. ReportTypes' /\ ReportsOwnPositions'
  BY <1>1, <1>6, <1>10, OwnReport
<1>12. base' \in Nat
  BY <1>6 DEF Knowledge, ListTypes
<1>13. ListTypes' /\ ActiveInv'
  BY <1>1, <1>2, <1>6, <1>7, <1>12 DEF Knowledge, ListTypes, ActiveInv
<1>14. FlagTypes'
  BY <1>1, FlagsKeep
<1>15. call'["sync"] = call["sync"]
  BY <1>1, <1>8, SlotFacts
<1>16. calm => /\ base <= Len(log[active])
               /\ s \in Opens => upTo = 0 /\ call["older"].phase \notin InFlight
               /\ s = "older" => upTo = before /\ base <= at
               /\ \A t \in Opens : call[t].phase \in InFlight => s = t
  BY <1>1, <1>2, <1>3, SlotFacts DEF Knowledge, BoundInv, PageInv, CallInv, loadingOlder
<1>17. BoundInv'
  <2>1. SUFFICES ASSUME calm', active' # Nothing
                 PROVE  /\ watermark' <= Len(log'[active])
                        /\ base' <= Len(log'[active])
                        /\ call'["sync"].phase \in InFlight => call'["sync"].arg <= Len(log'[active])
    BY <1>1 DEF BoundInv, refreshing
  <2>2. calm
    BY <1>1, <2>1, Zenon
  <2>3. call["sync"].phase \in InFlight => call["sync"].arg <= Len(log[active])
    BY <1>2, <2>2 DEF Knowledge, BoundInv, refreshing
  <2>4. QED
    BY <1>2, <1>6, <1>7, <1>9, <1>10, <1>15, <1>16, <2>2, <2>3
<1>18. PagingLeavesNoHole'
  <2>1. SUFFICES ASSUME calm', NEW n \in Visible(active, Len(log[active]))', before' <= n, n <= base'
                 PROVE  <<active', n>> \in shown'
    BY DEF PagingLeavesNoHole, Complete
  <2>2. calm
    BY <1>1, <2>1, Zenon
  <2>3. n \in Nat
    BY DEF Visible
  <2>4. PICK d \in Conversations : d = active /\ d = active' /\ d = c
    BY <1>1, <1>2, <1>9, <2>2
  <2>5. n \in Visible(d, Len(log[d]))'
    BY <2>4 DEF Visible
  <2>6. ASSUME n <= at PROVE n \in Visible(c, at)
    <3>1. n <= Len(log[d])
      BY <1>2, <1>9, <2>2, <2>3, <2>4, <2>6
    <3>2. QED
      BY <2>3, <2>4, <2>5, <2>6, <3>1, VisibleKeeps
  <2>7. CASE s \in Opens
    BY <1>4, <1>6, <1>7, <1>16, <2>1, <2>2, <2>3, <2>4, <2>6, <2>7
  <2>8. CASE s = "older"
    <3>1. base' = base /\ base \in Nat /\ base <= at /\ upTo = before
      BY <1>6, <1>16, <2>2, <2>8, SlotFacts DEF Knowledge, ListTypes
    <3>2. n <= at /\ n \in Visible(c, at)
      BY <2>1, <2>3, <2>6, <3>1
    <3>3. CASE upTo = 0 \/ n < upTo
      BY <1>4, <1>6, <1>7, <2>1, <2>4, <3>2, <3>3
    <3>4. CASE before <= n
      <4>1. Complete(before, base)
        BY <1>2, <2>2 DEF Knowledge, PagingLeavesNoHole
      <4>2. n <= Len(log[d])
        BY <1>2, <1>9, <2>2, <2>3, <2>4, <3>2
      <4>3. n \in Visible(d, Len(log[d]))
        BY <2>3, <2>5, <4>2, VisibleKeeps, <1>2, <2>4
      <4>4. <<active, n>> \in shown
        BY <2>1, <2>4, <3>1, <3>4, <4>1, <4>3 DEF Complete
      <4>5. QED
        BY <1>7, <2>4, <4>4
    <3>5. QED
      BY <2>3, <3>1, <3>3, <3>4
  <2>9. QED
    BY <1>1, <2>7, <2>8
<1>19. SyncLeavesNoHole'
  BY <1>1, <1>7, <1>15, SyncKeeps DEF Knowledge
<1>20. PageInv'
  <2>1. SUFFICES ASSUME calm'
                 PROVE  /\ \A t \in Opens : call'[t].phase \notin InFlight
                        /\ call'["older"].phase \notin InFlight
    BY DEF PageInv, loadingOlder, InFlight
  <2>2. calm
    BY <1>1, <2>1, Zenon
  <2>3. ASSUME NEW t \in Opens, call'[t].phase \in InFlight PROVE FALSE
    <3>1. call'[t] = call[t] /\ t # s
      BY <1>8, <2>3, SlotFacts
    <3>2. QED
      BY <1>16, <2>2, <2>3, <3>1
  <2>4. call'["older"].phase \notin InFlight
    BY <1>1, <1>8, <1>16, <2>2, SlotFacts
  <2>5. QED
    BY <2>3, <2>4
<1>21. QED
  BY <1>8, <1>11, <1>13, <1>14, <1>17, <1>18, <1>19, <1>20 DEF Knowledge

\* A page of a sync is merged: from the watermark the refresh started at to the
\* row it has reached, nothing is missing.
LEMMA ApplySyncStep ==
  ASSUME Knowledge, Grows, UNCHANGED log, ApplySync
  PROVE  Knowledge'
<1> DEFINE page == SyncPage(call["sync"].of, call["sync"].arg, call["sync"].at)
<1>1. /\ "sync" \in Slots /\ "sync" \notin Opens /\ "sync" \notin Sends
      /\ call["sync"].phase = "served"
      /\ UNCHANGED <<active, bubbles, before, error, base, calm>>
  BY SlotFacts DEF ApplySync
<1>2. /\ call["sync"].phase \in InFlight
      /\ call["sync"].of \in Conversations /\ active \in Conversations /\ active # Nothing
      /\ call["sync"].at \in Nat /\ call["sync"].arg \in Nat /\ call["sync"].from \in Nat
      /\ calm => call["sync"].of = active /\ call["sync"].at <= Len(log[active])
      /\ Len(log[active]) \in Nat
  BY <1>1, ServedIsOwn
<1>3. PICK c \in Conversations, after \in Nat, at \in Nat :
         c = call["sync"].of /\ after = call["sync"].arg /\ at = call["sync"].at
  BY <1>2
<1>4. PICK items \in SUBSET (Nat \ {0}), latest \in Nat, next \in Nat :
         /\ items = page.items /\ latest = page.latest /\ next = page.next
         /\ latest <= at /\ (next = after \/ next <= at)
         /\ \A n \in Nat : after < n /\ n <= next =>
               n <= at /\ (n \in Visible(c, at) => n \in items)
  <2>1. /\ page.items \subseteq Visible(c, at)
        /\ page.latest = LatestVisible(c, at)
        /\ page.next \in Nat /\ (page.next = after \/ page.next <= at)
        /\ \A n \in Nat : after < n /\ n <= page.next =>
              n <= at /\ (n \in Visible(c, at) => n \in page.items)
    BY <1>3, SyncPageIs
  <2>2. page.items \in SUBSET (Nat \ {0})
    BY <2>1 DEF Visible
  <2>3. page.latest \in Nat /\ page.latest <= at
    BY <2>1, LatestIs
  <2> HIDE DEF page
  <2>4. QED
    BY <2>1, <2>2, <2>3
<1>5. PICK p \in {"asked", "marking"} : p = IF page.hasMore THEN "asked" ELSE "marking"
  OBVIOUS
<1>6. /\ Merge(c, items, latest)
      /\ MarkRead(active, Max({watermark, latest})) \/ UNCHANGED reported
      /\ call' = [call EXCEPT !["sync"] = [@ EXCEPT !.phase = p, !.arg = next, !.at = 0]]
  BY <1>3, <1>4, <1>5 DEF ApplySync
<1>7. /\ shown \subseteq shown' /\ shown' \subseteq Rows
      /\ \A n \in items : <<c, n>> \in shown'
      /\ watermark' \in Nat /\ watermark' \in {watermark, latest}
  BY <1>6, MergeIs DEF Knowledge
<1>8. PICK r \in Call :
         /\ r = [call["sync"] EXCEPT !.phase = p, !.arg = next, !.at = 0]
         /\ r.phase = p /\ r.of = c /\ r.from = call["sync"].from /\ r.arg = next
  <2>1. call["sync"] \in Call /\ p \in Phases
    BY <1>1 DEF Knowledge, CallTypes, Phases, InFlight
  <2>2. PICK q \in Call : q = call["sync"]
    BY <2>1
  <2>3. PICK r : r = [q EXCEPT !.phase = p, !.arg = next, !.at = 0]
    OBVIOUS
  <2>4. r \in Call /\ r.phase = p /\ r.of = q.of /\ r.from = q.from /\ r.arg = next
    BY <2>1, <2>3 DEF Call
  <2>5. QED
    BY <1>3, <2>2, <2>3, <2>4
<1>9. /\ CallTypes' /\ CallInv' /\ BubbleInv' /\ OwnInv'
      /\ call'["sync"] = r
      /\ \A t \in Slots : t # "sync" => call'[t] = call[t]
  <2>1. call' = [call EXCEPT !["sync"] = r]
    BY <1>6, <1>8
  <2>2. r.phase # "served" /\ (calm => r.of = active)
    BY <1>2, <1>3, <1>8
  <2>3. bubbles' \subseteq bubbles \cup {"sync"}
    BY <1>1
  <2>4. QED
    BY <1>1, <1>2, <1>8, <2>1, <2>2, <2>3, OneCall DEF Knowledge
<1>10. calm => c = active /\ at <= Len(log[active]) /\ latest <= Len(log'[active])
               /\ after <= Len(log[active]) /\ next <= Len(log'[active])
  <2>1. calm => c = active /\ at <= Len(log[active]) /\ after <= Len(log[active])
    BY <1>2, <1>3 DEF Knowledge, BoundInv, refreshing
  <2>2. QED
    BY <1>2, <1>4, <2>1
<1>11. calm /\ active # Nothing => watermark <= Len(log'[active]) /\ latest <= Len(log'[active])
  BY <1>10, WatermarkBound
<1>12. ReportTypes' /\ ReportsOwnPositions'
  BY <1>1, <1>6, <1>11, OwnReport
<1>13. ListTypes' /\ ActiveInv'
  BY <1>1, <1>2, <1>7 DEF Knowledge, ListTypes, ActiveInv
<1>14. FlagTypes'
  BY <1>1, FlagsKeep
<1>15. BoundInv'
  BY <1>1, <1>7, <1>8, <1>9, <1>10, <1>11, <1>13, BoundKeeps DEF Knowledge
<1>16. PagingLeavesNoHole'
  BY <1>1, <1>7, PagingKeeps DEF Knowledge
<1>17. SyncLeavesNoHole'
  <2>1. SUFFICES ASSUME calm', NEW n \in Visible(active, Len(log[active]))',
                        call'["sync"].from + 1 <= n, n <= call'["sync"].arg
                 PROVE  <<active', n>> \in shown'
    BY DEF SyncLeavesNoHole, Complete
  <2>2. calm
    BY <1>1, <2>1, Zenon
  <2>3. n \in Nat /\ call["sync"].from + 1 <= n /\ n <= next
    BY <1>8, <1>9, <2>1 DEF Visible
  <2>4. PICK d \in Conversations : d = active /\ d = active' /\ d = c
    BY <1>1, <1>2, <1>10, <2>2
  <2>5. n \in Visible(d, Len(log[d]))'
    BY <2>4 DEF Visible
  <2>6. CASE n <= after
    <3>1. Complete(call["sync"].from + 1, call["sync"].arg)
      BY <1>2, <2>2 DEF Knowledge, SyncLeavesNoHole, refreshing
    <3>2. n <= Len(log[d]) /\ Len(log[d]) \in Nat
      BY <1>2, <1>10, <2>2, <2>3, <2>4, <2>6
    <3>3. n \in Visible(d, Len(log[d]))
      BY <2>3, <2>5, <3>2, VisibleKeeps
    <3>4. <<active, n>> \in shown
      BY <1>3, <2>3, <2>4, <2>6, <3>1, <3>3 DEF Complete
    <3>5. QED
      BY <1>7, <2>4, <3>4
  <2>7. CASE after < n
    <3>1. n <= at
      BY <1>4, <2>3, <2>7
    <3>2. n <= Len(log[d])
      BY <1>2, <1>10, <2>2, <2>3, <2>4, <3>1
    <3>3. n \in Visible(c, at)
      BY <2>3, <2>4, <2>5, <3>1, <3>2, VisibleKeeps
    <3>4. n \in items
      BY <1>4, <2>3, <2>7, <3>3
    <3>5. QED
      BY <1>7, <2>4, <3>4
  <2>8. QED
    BY <2>3, <2>6, <2>7
<1>18. PageInv'
  <2>1. /\ call'["older"] = call["older"]
        /\ \A t \in Opens : call'[t] = call[t]
    BY <1>1, <1>9, SlotFacts
  <2>2. calm /\ call["older"].phase = "served" => base <= call["older"].at
    BY DEF Knowledge, PageInv
  <2>3. PageInv
    BY DEF Knowledge
  <2>4. QED
    BY <1>1, <2>1, <2>2, <2>3, PageKeeps
<1>19. QED
  BY <1>9, <1>12, <1>13, <1>14, <1>15, <1>16, <1>17, <1>18 DEF Knowledge

-----------------------------------------------------------------------------
(* The theorems.                                                              *)

LEMMA InitInductive == Init => Inductive
<1> SUFFICES ASSUME Init PROVE Inductive
  OBVIOUS
<1>2. \A s \in Slots : call[s] = NoCall
  BY DEF Init
<1>3. \A s \in Slots : call[s].phase = "idle"
  BY <1>2, NoCallIsCall
<1>4. CallTypes
  BY NoCallIsCall DEF Init, CallTypes
<1>5. ServerTypes /\ WireTypes /\ ListTypes /\ ReportTypes /\ FlagTypes
  <2>1. ServerTypes
    BY DEF Init, ServerTypes
  <2>2. WireTypes /\ ListTypes
    BY DEF Init, WireTypes, ListTypes
  <2>3. ReportTypes /\ FlagTypes
    BY DEF Init, ReportTypes, FlagTypes
  <2>4. QED
    BY <2>1, <2>2, <2>3
<1>6. WireInv
  BY DEF Init, WireInv
<1>7. CallInv /\ ActiveInv /\ OwnInv
  BY <1>3 DEF Init, CallInv, ActiveInv, OwnInv, InFlight
<1>8. BubbleInv /\ BoundInv /\ PagingLeavesNoHole
  BY DEF Init, BubbleInv, BoundInv, PagingLeavesNoHole
<1>9. PageInv /\ SyncLeavesNoHole
  BY <1>3, SlotFacts DEF PageInv, SyncLeavesNoHole, refreshing, loadingOlder, InFlight
<1>10. ReportsOwnPositions
  BY DEF Init, ReportsOwnPositions
<1>11. QED
  BY <1>4, <1>5, <1>6, <1>7, <1>8, <1>9, <1>10, TypeParts DEF Inductive

LEMMA KnowledgeNext ==
  ASSUME Inductive, [Next]_vars
  PROVE  Knowledge'
<1>1. ServerTypes /\ WireTypes /\ WireInv /\ Knowledge
  BY TypeParts DEF Inductive, Knowledge
<1>2. Grows
  BY LogGrows DEF Inductive
<1>3. error \in BOOLEAN
  BY <1>1 DEF Knowledge, FlagTypes
<1>4. ASSUME UNCHANGED <<list, error, call, reported, base, calm>> PROVE Knowledge'
  BY <1>1, <1>2, <1>3, <1>4, NothingMoves
<1>5. CASE \E c \in Conversations, v \in BOOLEAN : Store(c, v)
  BY <1>4, <1>5 DEF Store
<1>6. CASE \E c \in Conversations : \E n \in 1..MaxLog[c] : Announce(c, n)
  BY <1>4, <1>6 DEF Announce
<1>7. CASE Connect \/ BuildReady \/ SendReady
  BY <1>4, <1>7 DEF Connect, BuildReady, SendReady
<1>8. CASE Drop
  <2>1. error' \in BOOLEAN
    BY <1>3, <1>8 DEF Drop
  <2>2. UNCHANGED <<list, call, reported, base, calm>>
    BY <1>8 DEF Drop
  <2>3. QED
    BY <1>1, <1>2, <2>1, <2>2, NothingMoves
<1>9. ASSUME NEW s \in Opens, NEW c \in Conversations, Open(s, c) PROVE Knowledge'
  <2>1. UNCHANGED log
    BY <1>9 DEF Open
  <2>2. QED
    BY <1>1, <1>2, <1>9, <2>1, OpenStep
<1>10. CASE LoadOlder
  BY <1>1, <1>2, <1>10, LoadOlderStep
<1>11. CASE Refresh
  BY <1>1, <1>2, <1>11, RefreshIs
<1>12. ASSUME NEW s \in Sends, SendText(s) PROVE Knowledge'
  BY <1>1, <1>2, <1>12, SendTextStep
<1>13. ASSUME NEW s \in Sends, RetryMessage(s) PROVE Knowledge'
  BY <1>1, <1>2, <1>13, RetryStep
<1>14. ASSUME NEW s \in Slots, Serve(s) PROVE Knowledge'
  BY <1>1, <1>2, <1>14, ServeStep
<1>15. ASSUME NEW s \in Slots, FailCall(s) PROVE Knowledge'
  BY <1>1, <1>2, <1>15, FailStep
<1>16. ASSUME NEW s \in Slots, ApplyHistory(s) PROVE Knowledge'
  <2>1. UNCHANGED log
    BY <1>16 DEF ApplyHistory
  <2>2. QED
    BY <1>1, <1>2, <1>16, <2>1, ApplyHistoryStep
<1>17. ASSUME NEW s \in Slots, Confirm(s) PROVE Knowledge'
  BY <1>1, <1>2, <1>17, ConfirmStep
<1>18. CASE ApplySync
  <2>1. UNCHANGED log
    BY <1>18 DEF ApplySync
  <2>2. QED
    BY <1>1, <1>2, <1>18, <2>1, ApplySyncStep
<1>19. CASE EndSync
  BY <1>1, <1>2, <1>19, EndSyncStep
<1>20. CASE HandleCreated
  BY <1>1, <1>2, <1>20, HandleCreatedStep
<1>21. CASE HandleReady
  BY <1>1, <1>2, <1>21, HandleReadyStep
<1>22. CASE UNCHANGED vars
  BY <1>4, <1>22
<1>23. QED
  BY <1>5, <1>6, <1>7, <1>8, <1>9, <1>10, <1>11, <1>12, <1>13, <1>14, <1>15, <1>16, <1>17,
     <1>18, <1>19, <1>20, <1>21, <1>22 DEF Next, Answer, Take

LEMMA InductiveNext == Inductive /\ [Next]_vars => Inductive'
<1> SUFFICES ASSUME Inductive, [Next]_vars PROVE Inductive'
  OBVIOUS
<1>2. ServerTypes'
  BY ServerTypesNext DEF Inductive
<1>3. WireTypes' /\ WireInv'
  BY WireNext DEF Inductive
<1>4. Knowledge'
  BY KnowledgeNext
<1>5. TypeOK'
  BY <1>2, <1>3, <1>4, Zenon DEF Knowledge, TypeOK, ServerTypes, WireTypes, ListTypes, CallTypes,
     ReportTypes, FlagTypes
<1>6. QED
  BY <1>3, <1>4, <1>5 DEF Inductive, Knowledge

LEMMA InductiveAlways == Spec => []Inductive
BY InitInductive, InductiveNext, PTL DEF Spec

\* The controller, the connection and the server stay within their types: no
\* page, event or answer puts anything into the list that is not a row.
THEOREM TypeCorrect == Spec => []TypeOK
<1>1. Inductive => TypeOK
  BY DEF Inductive
<1>2. QED
  BY <1>1, InductiveAlways, PTL

\* Paging back leaves no hole, whatever events, syncs and sends race with the
\* pages of openConversation and loadOlder.
THEOREM PagingIsComplete == Spec => []PagingLeavesNoHole
<1>1. Inductive => PagingLeavesNoHole
  BY DEF Inductive
<1>2. QED
  BY <1>1, InductiveAlways, PTL

\* refreshGapSync leaves no hole between the watermark it started at and the
\* row it has reached.
THEOREM SyncIsComplete == Spec => []SyncLeavesNoHole
<1>1. Inductive => SyncLeavesNoHole
  BY DEF Inductive
<1>2. QED
  BY <1>1, InductiveAlways, PTL

\* _markConversationAsRead reports positions the conversation has.
THEOREM ReportsAreOwn == Spec => []ReportsOwnPositions
<1>1. Inductive => ReportsOwnPositions
  BY DEF Inductive
<1>2. QED
  BY <1>1, InductiveAlways, PTL
=============================================================================
