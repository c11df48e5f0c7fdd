# Verification of the production chat app

TLA+ models of the server (`src/server`, NestJS with PostgreSQL, Redis, S3 and
Socket.IO) and of the parts of the Flutter client (`src/mobile`) that keep state
of their own: the message list, the conversation list and the shell around
them. TLC checks small instances; TLAPS proves most of what it checks for every
value of the constants. `PROJECT.json` names, for each definition, the lines of
the source it stands for.

To check a run: `tlc -workers 2 -config MCMessaging.cfg MCMessaging`.
To check the proofs: `tlapm MessagingProofs.tla`, and likewise
`FriendshipsProofs`, `TimelineProofs`, `AccountsProofs`, `MediaProofs`,
`CodesProofs`, `DeliveryProofs` and `RealtimeProofs`.

## 1. Inventory

The server is one modular monolith that may run in several processes; they
share PostgreSQL and Redis, and Socket.IO rooms span them through the Redis
adapter. A handler is a chain of `await`s: between two of them any other handler
of any process may run. Only `createMessage` uses a transaction of several
statements; everything else reads rows, decides, and writes rows.

| Component | State | Operations | Talks to |
|---|---|---|---|
| Message pipeline (`messages`) | `messages` rows, `conversation.latestSequence`, Redis `idempotency` keys | `sendMessage`, failed-message path | friendships (gate), read cursors, realtime (emit), notifications (push) |
| Read cursors (`conversations`) | one row per member and conversation | `updateReadCursor`, also called by every send | realtime (emit) |
| History and sync (`messages`) | none | `listHistory`, `syncMessages` | mobile controller |
| Realtime (`realtime`) | sockets, rooms, presence keys with a time to live, heartbeat timers, typing keys and timers | connect, `connection.ready`, emit, heartbeat, typing, disconnect | sessions, conversations |
| Accounts and sessions (`auth`, `admin`) | user row, session rows with a refresh nonce | register, login, refresh, reset, logout, revoke, ban; the guard of every call | realtime (disconnect) |
| Friendships (`friendships`) | request rows, one friendship row per pair | request, accept, reject, ignore, delete record, remove | users, rate limits |
| Direct conversations (`conversations`) | conversation rows with a unique `directKey`, members | create | friendships (gate), realtime |
| Group conversations (`conversations`, `groups`) | conversation rows, members | create | realtime, notifications |
| Verification codes and rate limits (`auth`, `abuse`) | one code row per identifier and purpose, Redis counters | request a code, consume a code, count | mail, accounts |
| Media (`media`, `queue`) | attachment rows, a Redis queue, objects in S3 | presign, confirm, process with retries, fail | messages |
| Notifications (`notifications`) | push registrations | register, revoke, dispatch, sync state | presence, sessions, cursors |
| Moderation and admin | reports, audit log | report, process, ban, revoke | accounts |
| Mobile chat controller | message list, watermark, paging cursor, calls in flight | open, page, sync, send, retry, events | history, sync, realtime |
| Mobile conversation list | summaries with unread counts | load, apply events | realtime |
| Mobile sign-in and shell | tokens, the total of unread messages | open and close a conversation, pushes, notification sync | conversation list, notifications |

What is hard about them, and what makes them right:

* **Message pipeline.** Requests with the same client key overlap, retry after a
  lost answer, and lose their Redis key when it expires. Right means: sequences
  without hole or duplicate, one row per key, an answer that names the sender's
  own row, no second announcement.
* **Read cursors.** Read, maximum, upsert without a lock. Right means: never
  past the log, never backwards.
* **Mobile chat controller.** Pages, gap syncs, events and sends complete in any
  order, also after another conversation was opened. Right means: no hole in
  what the user sees, nothing of another conversation, every refresh ends.
* **Accounts.** Every guarded call writes the whole session row back; a profile
  update writes the whole user row back. Right means: a revoked session stays
  over, a ban and a reset end what they should, a device that missed no answer
  can refresh.
* **Friendships.** Pairs of users act on the same rows. Right means: one open
  request, final answers, an accept that makes friends, a direct conversation
  only between friends and only one.
* **Realtime presence and typing.** Keys that expire, timers in several
  processes, a connect and a disconnect of one socket that run side by side.
  Right means: who is connected counts as online, the rooms are told the truth
  in the end, and an indicator that is shown will end.
* **Media.** Two-step writes without a transaction, jobs taken off the queue
  before they are done, retries. Right means: every confirmed attachment becomes
  ready or failed and stays so, nothing is shared that was not looked at.
* **Codes and limits.** A code row read, verified and saved whole; a counter
  whose lifetime is set in a second call. Right means: a code is good once, the
  mailed one works, an accepted one buys an account, a refused user is let in
  again some day.
* **Delivery.** The event in the room, the state sent with `connection.ready`
  and the push complement each other. Right means: no reachable member is missed
  by all three, and a session has one push registration.
* **Conversation list and shell.** Counts come from answers, events, pushes and
  local counting. Right means: when all is quiet, the number on the screen is
  the server's.
* **Moderation.** A decision and its log entry are two writes. Right means: no
  decision that was answered is missing from the audit log.

`PROJECT.json` lists each hazard at its line, with the properties that are about
it or the reason why there is none.

## 2. Modules

| Module | Models | Extends |
|---|---|---|
| `MessageLog` | what the pipeline promises: an append-only log of keys, acknowledgements and announcements of logged entries only | |
| `Messaging` | the pipeline and the read cursors of one conversation | instance of `MessageLog` |
| `Timeline` | the mobile list of one device, the two paging services and the socket | |
| `Accounts` | one account with its sessions and sockets | |
| `Friendships` | two users, their requests, friendship and direct conversation | |
| `Media` | attachments, their objects, the queue and the workers | |
| `Presence` | the sockets of one user, the presence keys, heartbeats, and what the rooms are told | |
| `Typing` | the indicator of one user in one conversation, with the timers of several gateways | |
| `Inbox` | the unread count of one conversation on the server, in the list and in the shell | |
| `Codes` | verification codes, their counters, and registration | |
| `Delivery` | a new group, a message in it, and how its members learn of it; push registrations | |
| `Reports` | reports, decisions and the audit log | |
| `Realtime` | the conversation list, presence, typing and reports beside each other, every interleaving of their steps | `Inbox`, instances of `Presence`, `Typing`, `Reports` |
| `MessagingProofs`, `FriendshipsProofs`, `TimelineProofs`, `AccountsProofs`, `MediaProofs`, `CodesProofs`, `DeliveryProofs`, `RealtimeProofs` | theorems about the module they are named after | that module, `TLAPS` |
| `MCMessaging`, `MCTimeline`, `MCAccounts`, `MCFriendships`, `MCMedia`, `MCCodes`, `MCDelivery`, `MCInbox` | instances for TLC, their bounds and symmetries | their module |
| `MCRealtime` | one instance of the four parts, of which each behaviour moves one | `Realtime` |

Definitions whose comment starts with *Faulty variant* are not part of any
specification: they are the bugs `PROJECT.json` lists under "mutants", against
which each property has been tried.

In every module a handler is a process whose `pc` (or a variable of that kind)
names the call it awaits next: what it has read before may be old when it is
used. *History* variables record what a property needs to speak about the past;
no guard of the code reads them.

### Messaging

`sendMessage` is the path
`Receive` (friendship and membership; a missing friendship makes it the path of
a failed message), `Resolve`/`Unbind`/`Lookup` (the Redis binding, then the
row), `Reserve` (SET NX, whose result does not stop the send), `BeginInsert` and
`Insert` (the transaction: the increment locks the conversation row, the insert
may hit the unique index, the answer to the commit may be lost), `Recheck` (the
second lookup after a database error), `Bind`, `ReadCursor`/`WriteCursor` (the
sender's own cursor), `Emit`, `Push`. `Fail` is an exception at any await, with
the catch block's `Undo`; `Crash` ends a request without it; `Expire` drops a
Redis key; `ToggleFriendship` is the rest of the system. Rows never change once
stored, so an entity in the hands of a request is represented by its sequence.
The text of a message, its view and its validation are data and left out.

### Timeline

The list is a set of (conversation, sequence) pairs; a row is shown when the
list has a message with the row's `clientMessageId`, whatever its delivery
state. `call` holds the HTTP calls in flight: each open and each send has a slot
of its own, since the code lets them overlap; `_isLoadingOlder` and
`_isRefreshing` leave one slot each. A call is asked, served (the server reads
the log), and applied, three separate steps. The socket joins its rooms, reads
the latest sequences, and sends `connection.ready` in three steps, with events
between them. Members' failed rows are rows the user cannot see.
`base` and `calm` are history: what the server had when the open conversation
was loaded, and whether a conversation was opened while a call was in flight.
The properties assume `calm`, because without it the list does show rows of
another conversation (section 5).

### Accounts

`saveUser` and `saveSession` write whole rows, so a request keeps the copies it
has read (`copy`, `held`) and writes them back with its change. The session of
a device is revoked by reading its row and writing it back with `revokedAt`;
then the gateway empties the session's room. A password is a number that a reset
raises, a nonce a number that is never issued twice. `ended`, `resetTo`,
`banned`, `born` and `lost` are history, set when a request is *answered*: the
properties are about what the caller was told. Four more are history of what
overlapped, and name the places of the code where an overlap does harm:

* `crossed`: sessions revoked while another call of theirs held a copy of the row
  or was about to join the room (`access-token.guard.ts:24-34`,
  `realtime-connection.service.ts:33-60`);
* `raced`: sessions refreshed while another call of theirs held a copy of the row;
* `slipped`: sessions opened with a user row that has changed since the login
  read it, or after a ban has listed the sessions (`admin.service.ts:208`);
* `undone`: whether a user row was saved that had changed since it was read
  (`auth-identity.service.ts:28-63`).

Token signatures and digests are external: a token is the session it names.

### Friendships

The whole-row saves of answers, the upsert and the second update of
`createFriendship`, the conditional updates of ignore and remove, and
`createDirectConversation` with its unique insert and its second lookup. A
failure at any await ends a handler. Refusals by rate limit, unknown handles and
discovery modes are such failures. `hide` of a friendship that is hidden already
is refused by the code (404) and changes nothing in the model.

### Media

`RequestUploadToken` creates the row. `Upload` is the client's signed PUT: it
puts an object of any quality, also after the confirmation. `confirmUpload` is
`ReadToConfirm`, `Inspect` (type and size), `ReadBytes` (the first bytes),
`SaveProcessing`, `EnqueueAttachment`, with `Fail` at each of them. `Send` and
`Access` share the attachment. A worker takes a batch of jobs from the sorted set
in one script (`Dequeue`), and for each reads the row (`Get`), inspects the object
again (`WorkerInspect`, `WorkerRead`) and saves (`SaveReady`); `Throw` is an
exception in between, `SaveReadyUnanswered` a save that takes effect and whose
answer is lost, `Catch` schedules a retry or gives up (`FindToFail`,
`SaveFailed`, whatever the row says by then). `Crash` is the death of a process with its batch. When a job is
due is left to the choice of `Dequeue`: the property must hold for any backoff.
History: what an object was seen to be (`seen`), attachments with overlapping
confirmations (`overlap`), what was shared (`shared`), what lost its job
(`lost`), and those in whose last attempt the database failed the worker, at the
read or at the save (`doubted`).

### Presence

One user with several sockets. `handleConnection` (`RegisterKey`,
`RegisterMember`, `StartHeartbeat`, the broadcast) and `handleDisconnect`
(`LookUp`, `DeleteKey`, `RemoveMember`, `Count`, `DeleteSet`, the broadcast) run
for a socket without waiting for each other; each Redis command is a step. A
pipeline is no transaction, and its `exec()` resolves with the errors of single
commands among the results: `FailCommand` is a command of `registerConnection` or
`unregisterConnection` that fails and is not noticed, `FailPayloads` a failed
HGETALL, which makes a live socket stale to the reader. `ReadElsewhere` is a reader
that tells no room (`buildConnectionReadyEvent`, the push dispatcher) and removes
what it takes for stale. A
socket key is full, partial (a heartbeat wrote to a key that had expired: there is
no user in it) or absent. A broadcast reads the user set and the keys, removes
what is stale, and tells the rooms what it read. `Refresh` and `Touch` are the two
commands of a heartbeat; `Expire` ends a key without one, `Starve` a key whose
process stalls, `Crash` is the death of a process. `MaxFaults` bounds starvation,
failures and deaths. History: `overtaken` (broadcasts that have read before another
one was sent, or before something changed that nobody tells of), `told` (the last
update was not overtaken, and nothing of that kind came after it), `starved`
(sockets whose key expired while they were connected), `wiped` (lost by a late DEL of
the user set), `missed` (kept out of Redis by a failed command, or made stale to a
reader by one) and `hasty` (gone before they were registered). None of them stands
for what Redis holds: `QuietIsTold` compares the rooms with the set and the keys,
and, in histories without faults, those with the sockets.

### Typing

`timeoutByKey` of a gateway is one `entry`; a timer runs (`ticking`) whether its
entry points at it or not. A start clears the timer, writes the key, sets a new
timer, then tells the members; a stop clears, deletes and tells. A timer that
fires deletes its entry whoever has it, deletes the key (or fails to) and tells, by a
voided call that lists the members first: in `FireFail` that list fails, and nobody
is told. History: `broken` (a handler or such a notice failed, or a gateway died)
and `late` (a start was told after its timer had been cleared or had fired).

### Inbox

One member with one device and one conversation. The server keeps rows and the
cursor and counts in two reads; reloads, read reports and the sync of
notifications are counts in flight. `sending` holds the requests that work with a
stored row. There may be several for one row: the one that stored it, and
others with the same client key (`SendAgain`), which announce it once more when
they had looked before it was stored, and otherwise move the cursor of the
sender and tell nobody. A cursor is found, and the later of two positions saved, in two
steps (`SendFinds` and `SendReads`, `UpdateReadCursor` and `SaveReadCursor`), so it may
move back. Events travel in order on one connection and
are lost with it. The list replaces its number with an answer or an event, and
adds one for each message event; the shell takes over the list's number, a
push's, or the sync's. A list that is closed leaves reloads behind (`old`) that
still reach the shell; `agreed` says that the shell shows what this list gave it
last. History: `crossed` names the counts that something happened during, `right`
says that the list's number comes from a count nothing crossed. A repeated or failed
send, a failed count and a cursor that moves silently while the list shows unread
messages end `right` until the next count.

### Codes

`requestCode` is `IssueCode` (the upsert), `ResetAttempts`, `Deliver`; `register`
is `FindUser`, the counter (`Incr`, `Pexpire`, `Check`), `FindCode`,
`SaveConsumed` (the whole row), `FindHandle` for one suffix after the other, and
`CreateUser` with its unique indexes. A number stands for a code, the last mail
is what the user types or he mistypes it. History: how often a code was accepted
(`bought`), what two handlers read unused at once (`twice`), what a stale save
overwrote (`undone`), the code that was issued last (`newest`, whether its mail
arrived or not), who paid with a code in vain (`wasted`), and whose counter
lost its handler before its lifetime was set (`stuck`).

### Delivery

The creation of a group, the handshake of each member's socket (the list of its
conversations, the registration with presence, the rooms), `registerPushToken`
(the row of a token moves with the session; other tokens of the session are
revoked), and `sendMessage` from the event on: the loop over the members that
skips who is online, reads the registrations and pushes. Presence goes by `keys`,
not by sockets: a key is there before the socket is in the rooms, and a socket that
goes leaves the rooms at once and its key behind, until `Unregister` (the end of
`handleDisconnect`, or the expiry 45 s after a crash or a stall). A provider that
throws ends the loop. History: `told`, `unsettled` (members that went, signed out or
registered meanwhile, and those the loop was `Misled` about: it took them for online by
the keys of sockets that were gone) and `crossed` (sessions with overlapping or
failed registrations).

### Realtime

`Realtime` extends `Inbox` and instantiates `Presence` (as `P`), `Typing` (`T`) and
`Reports` (`R`) with variables of their own. A step is one step of one part; the
parts share no state, since what each keeps of a connection is a different
abstraction of it. It is what the theorems about the four are stated of.

### Reports

`createReport` with what may be reported by whom, `processReport` with the save of
the row and the entry of the log as two steps, and bans as far as the guard of the
call sees them. Several administrators may hold one report. History: decisions
that failed before their entry (`unlogged`).

## 3. Runs

| Run | Bounds | Shows |
|---|---|---|
| `messaging` | 3 requests, 2 members, 1 client id each, positions 1 and 3 | types, contiguous sequences, one row per key, own bindings, stored acceptances, silent late retries, bounded cursors, refinement of `MessageLog` |
| `messaging_live` | 2 requests, fair handlers | every request ends |
| `timeline` | 1 conversation, 1 open, no sends, 3 rows, pages of 1 row, 1 connection, 1 event on the wire | paging and syncing leave no hole |
| `timeline_switching` | 2 conversations, 2 opens, 1 send, 2 rows in one of them and none in the other, pages of 1, no socket, fair syncs | types, read positions stay within their conversation, refreshes end |
| `accounts` | 1 reset, and either 2 overlapping handlers, 1 session and 2 nonces, or 1 handler at a time, 2 sessions and 3 nonces | revocations, resets and bans are final, devices keep a usable nonce |
| `accounts_overlap` | 2 handlers, 1 session, 2 nonces | violation: a stale save revives a revoked session |
| `friendships` | 2 overlapping handlers, 2 users, 2 requests | unique open request and final answers without overlap; friendship, gate and unique conversation with it |
| `media` | 1 attachment, 2 requests, 2 workers, 3 attempts, batches of 2, fair handlers and polls | what is processed is in somebody's hands, final statuses stay, what is shared was checked, processing ends |
| `codes` | 2 handlers, 2 identifiers, limit 1, 2 codes, 1 suffix | counters end, a code is accepted once, the mailed code works, an accepted code buys its account |
| `delivery` | 2 members with a session each, 2 tokens, 2 registrations | every reachable member learns, a session has one token |
| `realtime` | `Presence`: 2 sockets, one of them connected, 1 fault; `Typing`: 2 gateways, 3 calls; `Inbox`: 1 reload at a time, 2 messages, 1 broken connection or repeated send, 3 requests, counts and events under way together; `Reports`: 2 users, 2 administrators, 1 report, 2 decisions | connected sockets count, the rooms know the truth, indicators end, the unread count is right, decisions are logged |
| `inbox_twice` | 2 reloads, 2 messages, 1 broken connection or repeated send | violation: a message is counted twice |

`realtime` explores four components that share no state: its variable `part` picks
one, which moves from its own initial states while the others stay where they
are. The state space is the sum of the four, and each property speaks of its own
component. Nothing is lost by it, since the parts share no variable: what one does in
any interleaving it can do alone (the lemma `PartsAreImplemented`).

Why the bounds are enough:

* Three requests are the least that give a collision of two sends of one key,
  and a third that takes the sequence or the Redis key between them; the proofs
  take the same invariants to any number of requests. Two members give two
  keys and cursors that compete. Position 3 is beyond the
  log when it is reported, position 1 is not.
* Three rows and pages of one row make a history of three pages and a sync of
  several; a longer log adds pages of the same kind. One event on the wire at a
  time is enough for a page and an event to race. The proofs lift the page
  sizes, rows, conversations and calls.
* Two conversations and two opens are the least that switch. A switch back to
  the first one, and a call of it that is answered late, need no third. Two rows
  and sync pages of one make `hasMore` true, so that `refreshGapSync` goes round its loop
  a second time, with a switch or a send between its pages.
* In `accounts` the variable `overlapping` picks one of two kinds of behaviours.
  Two handlers are the least that overlap, and two nonces a login and a refresh; a
  second session would share only the user row with the first. `OverlapCalls` leaves
  out two calls there that are parts of others: a touch is a guarded call that
  ends with its save, a kick a revocation without the guard. One handler at a time on
  two sessions gives a ban and a reset several to revoke, with a failure between
  them; three nonces are two logins and a refresh. The theorems take the four
  properties to any number of handlers, sessions and nonces.
* Two requests are the least that can wait side by side; two handlers the least
  that overlap. `serial` records whether handlers of *requests* overlapped:
  `OneRequestWaits` and `AnswersAreFinal` hold for histories without such an
  overlap, with failures, removals and conversations still interleaved.
* Attachments share nothing but the queue, and a batch of two can hold both jobs
  of one. Two confirmations are the least that overlap; two workers can hold the
  two jobs that result; three attempts are the code's own number.
* Two handlers and two codes give a stale save over a newer code; two identifiers
  with one base handle compete for it; a limit of one makes a second attempt a
  refused one.
* One member that is skipped and one that is pushed to are what the loop of the
  dispatch can confuse. Two tokens and two registrations are the least that
  cross, for one session or for two. Each member's socket comes and goes once, which
  leaves a key behind for the loop to find.
* One socket that is connected while another comes and goes is what the shared
  user set is about; with the two pipelines of each, four handlers run. Two
  gateways and three typing calls give a timer that survives the stop that
  another gateway handles. Two messages give one that is counted and one that is
  not when a reload is served; one repeated send is the least that announces a row
  twice. Three requests, counts and events together (`MCRealtime!MaxUnderWay`) are a
  message, a count that reads around it, and an event of another one; the proof of
  `UnreadIsRight` has no such bound. Two administrators suffice to overlap.

`CHECK_DEADLOCK FALSE` stands where the bounds (rows, nonces, opens, requests,
codes, sockets, calls, messages, decisions) end the behaviours; `messaging` and
`messaging_live` keep the check, since the friendship may always change.

### Fairness

`Messaging!FairSpec` assumes weak fairness of each request's `Handle`: once the
awaited call is answered, Node's event loop runs the continuation. Nothing is
assumed of clients, failures, crashes or expiry. Weak fairness is enough for the row
lock, since its owner commits, rolls back or dies. `Timeline!FairSpec` assumes
that the call of a sync is answered or fails (the client has a timeout) and that its
continuations run (`ApplySync`, `EndSync`); nothing of the other calls, nor that rows,
events or connections come. `Media!LiveSpec`
assumes that a handler that runs goes on, and that the timer every process starts
in `onModuleInit` polls for ever (`media-processing-worker.service.ts:39-45`); it
assumes neither that uploads come nor that checks pass, and lets workers die.

## 4. Proofs

Eight modules hold the proofs. No invariant below is inductive by itself; each
module states an `Inductive` that says what a handler *knows* between two awaits,
and one lemma per part that every step preserves it, with one step per action.

### The message pipeline

`MessagingProofs` proves, for any number of requests, members, client ids and
positions, every safety property that the run `messaging` checks:

| Theorem | Property |
|---|---|
| `TypeCorrect` | `TypeOK` |
| `SequencesAreContiguous` | `SequencesContiguous` |
| `KeysAreStoredOnce` | `OneRowPerKey` |
| `BindingsAreOwn` | `BindingIsOwn` |
| `AcceptedAreStored` | `AcceptedIsStored` |
| `LateRetriesAreSilent` | `LateRetryIsSilent` |
| `CursorsStayWithinLog` | `CursorWithinLog` |
| `PipelineImplementsLog` | `ImplementsLog` |

Assumptions: the sentinels of Redis and of the row lock are no sequences and no
requests (`SentinelAssumption`), positions are naturals (`PositionsAssumption`).
`AcceptedIsStored`, for one, needs to know that a request at `bind`, `cursor` or
`push` already works with a stored row of its own key:

* `ModeInv`: a request that stores has a status to store, one that has not begun has none;
* `StoreInv`: the two facts about the table, which need each other: a commit
  appends `latestSequence + 1` and only when the key has no row;
* `TargetInv`: from `bind`, `cursor`, `emit` and `push` on, the row a request
  works with is stored under its key;
* `BindingIsOwn`: what `Resolve` relies on when it takes a bound id for its own;
* `BoundInv`: every position held by a request or a cursor is within the log;
* `LateInv`: a request that came after its key was stored only visits the steps
  of a reuse;
* `EmittedInv`: an announcement is of a stored row by a request that has begun.

The refinement rests on `CommitAppends` (a commit appends to the mapped log and
moves nothing before it) and `OtherStep` (all other actions leave it alone); each
step then maps to an append, an acknowledgement, a publication or a stutter.

### Friendships

`FriendshipsProofs` proves, for any number of handlers and of requests, every
property that the run `friendships` checks:

| Theorem | Property | Overlapping handlers |
|---|---|---|
| `TypeCorrect` | `TypeOK` | yes |
| `RequestsAreUnique` | `OneRequestWaits` | removals and conversations only |
| `AnswersStay` | `AnswersAreFinal` | removals and conversations only |
| `AcceptedAreFriends` | `AcceptMakesFriends` | yes |
| `ConversationsAreGated` | `ConversationNeedsFriendship` | yes |
| `ConversationsAreUnique` | `OneConversation` | yes |

Assumption: there are two users (`UsersAssumption`).

* `AnswerInv`: a handler that answers has the row of a stored request, and only
  an accept goes on to the friendship;
* `FriendInv`: an accept that was answered left the friendship visible; the second
  update of `createFriendship` always finds the row the upsert has made;
* `ConversationInv`: a handler past the gate has seen a visible friendship, so
  the conversation it opens, maybe after a removal, is still one of two who
  have been friends;
* `SerialInv`: without overlap a handler of requests is alone, so nothing waits
  when it inserts, and the row it writes back is the row as it is. With overlap
  this is false (section 5).

### The message list

`TimelineProofs` proves the four safety properties of the runs `timeline` and
`timeline_switching`, for any number of conversations, opens, sends, rows,
connections and events, and any sizes of the pages:

| Theorem | Property |
|---|---|
| `TypeCorrect` | `TypeOK` |
| `PagingIsComplete` | `PagingLeavesNoHole` |
| `SyncIsComplete` | `SyncLeavesNoHole` |
| `ReportsAreOwn` | `ReportsOwnPositions` |

Assumptions: pages have at least one row and bounds are naturals, the slots of
opens, sends, paging and syncing are different, and `Nothing` is no conversation.

* `WireInv`: an event names a row of the log;
* `CallInv`: a call is of a conversation, the log it was served from is a beginning
  of the log as it is now, and an `openConversation` asks for the newest page;
* `ActiveInv`, `BubbleInv`: where nothing is open there is no page to go on from, and a
  message in the list was written in the open conversation;
* `OwnInv`: while `calm` holds, all that is in flight is of the open conversation;
* `BoundInv`: the watermark, the cursor and the positions held by calls are
  within the open conversation's log;
* `PageInv`: one first page is in flight at most and no older page beside it, and
  an older page was asked at the cursor.

The argument is about *ranges*: `HistoryPageIs` and `SyncPageIs` say that a page
holds every visible row between where it was asked and what it returns, `LogGrows`
that rows which are appended afterwards do not change which rows below them are
visible, and `Grows` that a list which only gains rows keeps its complete ranges.
A page that is merged then joins two complete ranges at the cursor. There is one
lemma per step of the controller.

### Accounts

`AccountsProofs` proves what the run `accounts` checks, for any number of overlapping
handlers, sessions, passwords and nonces:

| Theorem | Property |
|---|---|
| `TypeCorrect` | `TypeOK` |
| `RevocationsLast` | `RevokedIsOver` |
| `ResetsEndSessions` | `ResetEndsOldSessions` |
| `BansLast` | `BanIsFinal` |
| `DevicesCanRefresh` | `DeviceCanRefresh` |

The only assumptions are that `NoSession` is no session and that the bounds are
naturals. That handlers do not overlap is not assumed: the history
variables of section 2 say which sessions an overlap has touched, and each
property is about all the others. `accounts_overlap` shows that the exclusion is
needed. TLC has checked the inductive invariant with two handlers on one session
and on two before it was proved. Its parts:

* `AboutInv`, `OpenedInv`: what a request is about at each step, and that the session
  it works on has been opened;
* `SessionCopyInv`: the session row a request holds a copy of is still active, and
  the copy has its nonce, unless a revocation or a refresh crossed it;
* `VictimInv`: what was listed for revocation is revoked and off its socket, or
  still to be;
* `UserCopyInv`: a login presents the password of the row it has read, and a reset
  has not been overtaken by an older password;
* `BanInv`: a ban that has listed the sessions misses none (`Bound`: the active
  sessions that neither slipped in nor were crossed), and one that revokes has disabled the
  account, so that no login which is not stale opens another;
* `ResetInv`: what a reset did not list was opened with its password;
* `IssuedInv`, `AnswerInv`: no nonce is held that was not issued; an answer on its way is
  the only one of its session, carries the nonce of the row, and whoever refreshes
  meanwhile holds an older nonce, which `ReadSession` refuses.

`BoundStep` and `CleanStays` carry the argument: a session joins those that
the properties are about only when it is opened with the user row as it is, and a
step changes the row of such a session only by the session's own refresh.

### Media

`MediaProofs`, for any number of attachments, confirmations, workers and attempts:
`TypeCorrect`, `ProcessingIsMinded` (`SomebodyProcesses`), `SharedAreChecked`
(`SharedWasChecked`) and `FinalStays` (`FinalIsFinal`). `WorkInv` ties a request to
its attachment and a worker to its batch; `SeenInv` says that every status, step
and job stands for what was seen of its object; `SingleInv` that an attachment
without overlap has one confirmation or one job in one place, and that its status
says which; `SparedInv` that a worker which gives up does not hold an attachment
that is ready, unless the database failed its last attempt (`doubted`). An attempt
before the last whose save took effect without an answer leaves a job for a row that is
ready, and `Get` ends it. From these follows that nothing is saved over a final status.

### Verification codes

`CodesProofs` proves, for any number of handlers, identifiers, codes and
suffixes and any limit, every property that the run `codes` checks:

| Theorem | Property |
|---|---|
| `TypeCorrect` | `TypeOK` |
| `CountersEnd` | `CounterEnds` |
| `CodesAreAcceptedOnce` | `CodeIsAcceptedOnce` |
| `MailedCodesWork` | `MailedCodeWorks` |
| `AcceptedBuyAccounts` | `AcceptedBuysAccount` |

Assumptions: `NoOne` is no identifier, the limit is positive, the bounds are
naturals. `CounterEnds` and `AcceptedBuysAccount` are inductive with the types and
`WorkInv` (what a registering handler holds). The other two need to know *where a
code can be*: `Home(i, c)` says that identifier `i` has `c` in its row or in a
copy that a handler is about to save, `HomeInv` that no code has two homes and
none is younger than the counter of codes. `OnceInv` says that, unless two
handlers had found a code unused, one of them saves it, and that nobody finds an
accepted one unused. `NewestInv` says that the newest code is in its row.

The proof changed the property `MailedCodeWorks`. It used to speak of the code
that was *mailed* last, and was no invariant: of two overlapping requests the
second to issue a code may be the first to mail it, and then the code of the last
mail is not the one in the row (three handlers and three codes show it, two do
not). The property now speaks of a mailed code that is also the newest one.

### Delivery

`DeliveryProofs`, for any number of members, sessions, tokens and registrations:

| Theorem | Property |
|---|---|
| `TypeCorrect` | `TypeOK` |
| `EveryMemberIsServed` | `EveryMemberLearns` |
| `TokensAreUnique` | `OneTokenPerSession` |

Assumptions: a session has one owner, and `Nobody` is no member, session or token.
`LoopInv` is the invariant of the dispatch loop: `Served(u)` holds of every member
the loop has passed, `Pending(u)` of the one it is at, whose registrations it has
read. It rests on `RoomInv` (who is in the room has learned of the message, from
the event on), on `KeyInv` (a key is of a socket that has come as far as its registration,
or is gone) and on `unsettled`, which a member enters when what the loop has
read of him stops being true, or was not true when it was read. `OneInv` says that
the active registrations of an uncrossed session are of one token, the one its
running handler is making.

### The conversation list

`RealtimeProofs` proves `UnreadIsRight` of `Inbox` as `UnreadAgrees`, for any number
of messages, broken connections and reloads. The property speaks of a quiet
state; what a step preserves is a balance. While `right` holds, either another
count is *owed* to the list (`Owed`: one is under way, or the device is not
connected and will be told to reload), or

    list + |Told| + |Coming| = Unread(cursor)

(`RightInv`, `Agree`): what the list shows, the events on the wire that it will add
(`Told`) and the stored messages that will be announced to it (`Coming`) are the
server's count. `CountInv` says that a count that nothing crosses is alone under
way and that what it has read is still true, `NetInv` that an event counts one
message at most and that one cursor event is on the wire at most, `SendInv` that
requests work with stored messages, are told apart by row and number, and save cursors
within the log, `ShownInv` that a closed list is never right.
Each kind of step is then shown to move something from one term of the sum to
another. Assumptions: the bounds are naturals and `NotLoaded` is no count.

### Presence, typing and reports

| Theorem | Property |
|---|---|
| `TypeCorrect` | the `TypeOK` of the four parts |
| `ConnectedCount` | `ConnectedIsActive` |
| `QuietKnows` | `QuietIsTold` |
| `IndicatorsEnd` | `VisibleEnds` |
| `DecisionsAreLogged` | `DecisionIsLogged` |

The lemma `PartsAreImplemented` says that `RealtimeSpec` implements the
specification of each part, which holds by the shape of `RealtimeNext`; with it an
invariant of a part, proved of its steps alone, holds of every interleaving. All
theorems of `RealtimeProofs` are stated of `RealtimeSpec`, as the run `realtime`
states its properties.

Presence, for any number of sockets, residents and faults (residents are sockets,
the bound on faults is a natural number): `LinkInv`, `UnwrittenInv`, `PartialInv`
and `AddedInv` say which keys and members a socket can have at each step of its
two pipelines; `KeyInv` and `MemberInv` that a connected socket keeps them unless
it is starved, wiped or missed; `StaleInv` that what a reader removes as stale is gone,
starved or missed. `GhostInv` says that without faults a socket that has gone after it was
registered keeps its key no longer than its `handleDisconnect` needs, from which
the second half of `QuietIsTold` follows. The first half is `ToldInv` and `ReadInv`:
what the rooms were told is what Redis knows, or somebody *owes* them an update
(a handler that may have changed the set or a key and has yet to tell); and what a
broadcast that was not overtaken has read is what Redis knows, or somebody else owes
an update. With no handler running nobody owes anything.

Typing, for any number of gateways and calls: `VisibleEnds` is inductive with the
types. Reports, for any users, administrators and reports: `ReportsWorkInv` (a
request that goes on works with a report that exists), under the assumption that
the author of the message is a user (`AuthorAssumption`).

### Only model-checked

Liveness (`EveryRequestEnds`, `RefreshEnds`, `ProcessingEnds`), which the prover
cannot do, and the two violations. Every invariant that a passing run checks is
stated by a theorem.

## 5. Findings

Two runs end in a violation of a sentence in the documents or comments of the
repository (quoted in `PROJECT.json`):

1. `accounts_overlap`: a session whose revocation was answered is active again,
   because a guarded call that had read its row saves it whole.
2. `inbox_twice`: a message that was stored when a reload counted it, and
   announced after the reload was applied, is counted twice in the list.

Other disagreements that the models show, and no run is spent on. The first five
are definitions of their modules, so that a cfg with a bound of two or three shows
each within seconds:

* a message accepted on a retry that no request has announced
  (`Messaging!AcceptedIsAnnounced`);
* a read cursor that moves back (`Messaging!CursorNeverMovesBack`);
* a gap that stays open after a reconnection, hidden by an event ahead of
  `connection.ready` (`Timeline!NoSilentHole`);
* a list that shows rows of the conversation opened before
  (`Timeline!TimelineBelongsToActive`);
* a request marked rejected whose friendship was made
  (`Friendships!RejectedMakesNoFriends`);
* two handlers at once also undo a ban or a new password through a profile
  update (`undone`), let a login slip between the listing and the disabling of a
  ban (`slipped`), leave a device with a nonce that is refused (`raced`), and
  store two open requests of one pair;
* the user set of presence is deleted after it was counted as empty
  (`redis-realtime-presence.store.ts:83-98`): a socket that registers in between is
  connected and counts as offline, against the comment at
  `realtime-presence.service.ts:12`;
* a key of presence that outlives its socket, between the disconnect and
  the end of `handleDisconnect` or for 45 s after a crash: the member is not in the room
  any more and counts as online, so that neither event nor push reaches him
  (`notification-push-dispatcher.service.ts:47-54`; he loads the message when he
  connects again);
* `pipeline.exec()` does not throw when a command fails
  (`redis-realtime-presence.store.ts:24-38`, `247-259`): a socket stays connected without being
  registered, and a failed HGETALL makes a reader remove a live socket from the set;
* an expiry notice of the typing indicator whose list of members fails
  (`chat.gateway.ts:166-168`): the timer is gone, nobody is told, the indicator
  stays;
* a final save of an attachment that takes effect at the last attempt while its answer is
  lost: `markFailed` then turns `ready` into `failed`
  (`media-processing-pipeline.service.ts:77-88`);
* two overlapping sends of one client key both announce the row
  (`messages.service.ts:122-155`), and the conversation list counts both
  (`conversation_list_controller.dart:111-114`);
* `connection.ready` counts failed rows of other members, so that a client syncs
  at each reconnection for nothing, and so does the number on a push.

Where a property excludes such a case it names it (`unless ...`), and a history
variable says exactly which histories are excluded: `lost`, `overlap` and `doubted` in
`Media`, `starved`, `wiped`, `missed`, `hasty`, `told` and `faults` in `Presence`, `late`
and `broken` in `Typing`,
`lost`, `crossed`, `raced`, `slipped` and `undone` in `Accounts`, `twice`, `undone`,
`wasted` and `stuck` in `Codes`, `unsettled` and `crossed` in
`Delivery`, `crossed` and `right` in `Inbox`, `unlogged` in `Reports`, `serial` in
`Friendships`, `calm` in `Timeline`.

## 6. Plan

1. `Outbox`: the delivery state of a bubble next to the pipeline (composes
   `Timeline` and `MessageLog`): retries under a new client id, failed rows.
2. Abstract specifications besides `MessageLog`: a session as a one-way state
   machine that `Accounts` implements but for `crossed` sessions; a
   friendship as a relation that `Friendships` implements; an attachment whose
   status only moves forward, for `Media` without overlap.
3. The administrator's retry of a ban that failed half-way, in `Accounts`.

## 7. Not modelled

* Layout, formatting, wording, DTOs and validation, configuration, logging and
  metrics: no state that a property is about.
* Token signatures, password digests, mail, S3 and the push providers are
  external: a token is the session it names, an object is what it is checked
  against, a provider delivers or throws. Their caches of access tokens are left
  out, and a provider is assumed to be configured.
* Several accounts in `Accounts` and several attachments in one message share no
  rows; several conversations in `Inbox` share only the shell's sum.
* The gaps that `syncState` answers: the mobile client does not read them.
* The delivery state inside a bubble, the display of typing and of peers' read
  positions, and privacy mode.
* Lists, filters and profiles are reads; `markRequestsViewed` touches only the
  user's own time stamp (through the whole-row save that `Accounts` has).
* Sign-in screens, secure storage and routing of the mobile client.
