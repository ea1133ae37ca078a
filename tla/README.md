# SUN Messenger: a verification project in TLA+

SUN Messenger is a Flask and Socket.IO server (`app/`) on PostgreSQL and Redis,
run as several worker processes, with a JavaScript client (`static/`), a
mediasoup media server (`server-mediasoup/`) and an iOS client (`ios/`). This
directory models the parts of it where the difficulty is in the order of
events: the numbered event log of a chat and the browsers that follow it, the
sending of a message with its retries, its edits and its deletion, calls from the
server's rows down to the devices a tab opens, presence, group membership, the
moderation queue, refresh tokens and the pool of database connections.

Paths below are relative to the repository's root.

## 1. Inventory

| Component | State | Operations | What must hold | Module |
|---|---|---|---|---|
| Event log of a chat (`app/services/event_envelope.py`) | `chat_event_state.last_pts`, rows of `chat_update_events`, the emit cache | number an event, store it, emit it to rooms; read state and differences | dense, append-only; a number that was sent is in the log, unless its transaction was undone | `EventEnvelope` |
| Browser's event intake (`static/modules/chat-socket-client.js`) | known number of each chat, seen event ids, the sync queue | decide for each arriving event: run, ignore or wait for a recovery | each listener once, in order, nothing skipped | `ChatSync` |
| Browser's recovery (`static/modules/chat-updates-sync.js`, `static/chat/realtime-orchestrator.js`) | requests under way | fetch the state, walk the log page by page | the number never passes what was fetched | `ChatSync` |
| Updates API and chat rooms (`app/routes/chat_history_routes.py`, `app/sockets/room_handlers.py`) | room membership | state, difference, join | | `ChatSync` |
| Calls (`app/services/calls.py`, `app/sockets/call_handlers.py`, `scheduler_runtime.py`) | `call_sessions`, `call_participants`, the call's card (a message), advisory locks | initiate, accept, reject, cancel, end, clean up after a disconnect, time out | one live call per chat, one line per user, a true card, no call for ever | `Calls` |
| Sending (`app/sockets/message_handlers.py`, `idempotency.py`) | rows of `messages` with a unique `(sender_id, request_id)`, reservations in Redis | look up, reserve, insert, complete, announce, acknowledge | one row, no false confirmation, no second announcement | `SendMessage` |
| Outbox and composer (`chat-outbox.js`, `chat-composer-send-runtime.js`, `chat-text-send.js`, `chat-file-send.js`, `chat-storage-runtime.js`) | entries in IndexedDB, pending timeouts, bubbles | compose, emit or enqueue, drain, expire, time out, retry | what is queued is kept, what is confirmed stays so | `SendMessage` |
| Connections and presence (`connection_handlers.py`, `presence_handlers.py`, `presence.py`) | connected and visible tabs of a user in Redis | connect, report activity, disconnect, grace period, expiry | the limit of tabs holds and visible is connected, but for what a prune deletes late; the last tab ends the calls | `Presence` |
| Edits and deletions (`message_handlers.py`, `chat-message-status-events.js`) | one row, the lists of all browsers | edit, delete for all or for me, show | what is deleted stays deleted; "for me" is for me | `MessageChanges` |
| Call client (`static/modules/call-manager.js`) | state, call id, timers, remembered session of a tab | start, accept, end, time out, reconnect, reload | talks only in accepted calls; every wait is timed | `CallClient` |
| Call media (`call-media.js`, `call-manager.js`) | microphone, camera, screen and their operations | open, mute, switch, share, release | no device captures for a call that is over | `CallMedia` |
| Call negotiation (`call-webrtc.js`) | signalling state, flags, offers on their way | offer, answer, roll back, restart | both sides settle on the same offer | `Negotiation` |
| Message lists in the browser (`chat-history-runtime.js`, `chat-contact-selection-runtime.js`, `chat-incoming-message-events.js`) | open chat, its list, caches, loads under way | open, close, load, page, receive | an open chat loads; messages are in their own chat | `ChatView` |
| Groups and invites (`chat_group_*_routes.py`, `group_invite_*.py`) | roles, bans, invite requests, links with a limit of uses | join, leave, add, remove, change roles | a use pays for one entry; a group has an owner | `Groups` |
| Moderation (`moderation.py`, `moderation_worker_runtime.py`) | reports, jobs with locks, cases | report, enqueue, claim, triage, fail, decide | a report that the queue handles becomes one case | `Moderation` |
| Refresh tokens (`refresh_tokens.py`) | the rows of one login | rotate, revoke, expire, clean up | at most one can still be exchanged | `RefreshTokens` |
| Connection pool (`app/db/connection.py`) | idle connections, a counter, sleeping threads | acquire, release, dial, dispose | no slot leaks, no wake-up is lost | `ConnectionPool` |
| Receipts (`delivery.py`, `read_receipt_handlers.py`, `group_receipts.py`) | delivered and read marks | mark, announce | marks only advance | planned |
| Reactions, pins, favourites, typing | toggles on one row | update, announce | | planned |
| Rate limits, slow mode | sliding windows in Redis | check and count | never over the limit | planned |
| One-time codes, prekeys, key transfer | rows that are used once | claim, hand over | given once | planned |
| Dialog requests and blocking | requests between two users | ask, accept, decline, block | | planned |
| Disappearing messages, maintenance | expiry times | sweep | | planned |
| Media server (`server-mediasoup/`) | rooms, peers, transports | join, leave, close | nothing left behind | planned |
| iOS client | its own copy of the log | a second reader | | planned |
| Interface, media files, push, cryptography, deployment | | | | not modelled: rendering, I/O, computation |

`PROJECT.json` has the list with its files, states and reasons.

How they interact. A browser sends Socket.IO messages (`send_message`,
`call_*`, `join`); a worker handles each in a greenlet of its own, with a
database connection of its own, so handlers interleave at every statement, and
across workers. What the handlers emit goes through
`emit_enveloped_socket_event`, which numbers and stores an event of a chat in a
transaction that follows the one of the operation, and then emits it to the
chat's room or to personal rooms. A browser that finds a number missing asks
`/api/updates/difference`; after a reconnect it does so in any case. The
outbox is drained on the same `connect` event that starts the recovery. The
scheduler of `scheduler_runtime.py` ends overdue calls beside the handlers.

What is hard here. Handlers that read, decide and write in separate
statements; announcements that are made after the commit and can overtake each
other; the same event arriving twice and by two ways; JavaScript callbacks that
read a number, await a request and decide with what has changed meanwhile;
answers lost with a connection and requests sent again; workers that die
between two transactions; Redis keys that expire under a running handler;
locks of several users taken together. The list, line by line, is under
"hazards" in `PROJECT.json`.

## 2. Plan

Done, in this order:

1. `EventEnvelope`, `ChatSync` (which extends it) and the abstract `ChatFeed`.
2. `Calls` and the abstract `Exchange`.
3. `SendMessage`.
4. `Presence`, `ConnectionPool`, `RefreshTokens`, `Moderation`, `Groups`: state on the
   server that several handlers read, check and write.
5. `CallClient`, `CallMedia`, `Negotiation`: a tab in a call, from its state machine
   to its devices and its peer connection.
6. `MessageChanges` and `ChatView`: what the lists on the screens show.
7. Proofs of every safety property the runs check, and of the refinements: of
   `ChatFeed` by the log with its browsers, of `Exchange` by the calls and by what the
   call client hears, of `Delivery` by sending.
8. Types of every component, and `ServicesProofs`, which carries the components'
   theorems over to their composition.

Next:

9. Receipts, the dialog request protocol, one-time prekeys.
10. The media server's rooms; the iOS reader as a second client of `ChatFeed`.

## 3. The modules

Every module states the lines it models in `PROJECT.json` under "map". One
action is one step of the code between two points where something else can
happen: for the server a statement or transaction, for the browser a callback
up to its next `await`. Operators whose comment begins with "Broken:" are
plausible mistakes kept beside the definition they would replace; no
specification uses them. Each shows that some property would notice.

### EventEnvelope: the log

`stage[e]` is where the handler of event `e` stands: its operation stored
(`Store`), its number allocated in an open transaction (`Allocate`, which holds
the row lock of `chat_event_state`), committed or failed (`CommitEvent`,
`RollbackEvent`), then emitted room by room (`EmitToRoom`; the number of the
first room is reused for the others, which is the 5-second emit cache of the
code). `EmitUnpersisted` is a type that is never stored, such as typing;
`PersistUnavailable` the path without a database connection. A worker may die
anywhere (`Crash`).

One chat is modelled; chats share no state here. The cache is taken not to
expire during the emission of one event.

### ChatSync: browsers that follow the log

`view[c]` has the known number, the seen events and, as a counter of runs, what
each listener has done. `inbox[c]` is the socket's queue; a broken connection
empties it. `Receive` is the wrapped listener: `ReceiveRepeat`, `ReceiveStale`,
`ReceiveAhead` (suspend on the chat's sync queue), `ReceiveNow`. `gaps[c]` is that
queue: the first element asks for pages (`AnswerGap` is the server's read,
`TakeGap` the browser's use of it) and then `Resume`s. `prime` is the request of
`joinChatRoom`, `sync` those of `syncOnReconnect`. HTTP requests may fail for
good (`FailGap`, `FailPrime`, `FailSync`).

`floor` and `missed` are history variables. Left out: the limit of 2000 seen ids.

`ChatFeed` is what this promises: a log that grows, and readers who move
forward over it, handle what they move over, once and in order, or adopt a
later position the server gave them. `ImplementsFeed` maps the rows to the feed,
the known number to the cursor and the runs of listeners to what was handled.

### Calls: placing and ending calls

`dial` is the progress of a `call_initiate`: its checks, the advisory locks of
chat and participants taken in order (`DialLock`, with `want` what is left), the
sweep of overdue calls inside the transaction (`DialReap`; `doomed` are rows its
transaction has updated and still locks) and the insert (`DialInsert`). The other
requests are checked (`AcceptCheck` and so on), put a command into `pending`, and
execute it later as one conditional UPDATE (`Accept`, `Reject`, `Cancel`, `End`),
which in turn leaves a `card` command: the card is written in a transaction of
its own. `Die` drops a command. A user's last tab closes (`Disconnect`), the grace
period ends and `Cleanup` ends his calls, by the status that was read. `MarkMissed`
and `ReapStale` are the scheduler.

Abstractions: commands under way form a set, so two identical requests in
flight are one; the global sweep is one step, so its order of row locks and a
deadlock that PostgreSQL would break by an abort are not seen; the `ORDER BY`
of `get_user_active_call` is dropped; what privacy settings leave of the callees is a
choice of the callee. Events to clients, media and signalling are left out.

`Exchange` is a telephone exchange: each user has one line, and calls that
occupy it go from ringing to talking to over. `ImplementsExchange` maps the
rows to it. The line is that of the caller and the callee: accepting takes no
lock on the user, so someone who joins the group while it rings answers without
occupying his line, and the abstract specification does not say he is free.

### SendMessage: one request, many copies

`wire` has the copies of a request under way to the server, each started by
`Begin` in a free handler, whose steps are the lookup (`FindExisting`), the
reservation in Redis (`Reserve`: SET NX), the transaction of the insert
(`Insert`, `InsertFails`), what is read after the commit and inside the same try
block (`ReadFails`), the completed mark (`Complete`), the announcement (`Tell`)
and the acknowledgement (`Ack`). `FailSave` is the error path, which deletes the
reservation whoever holds it. `ExpireKey` lets a reservation end at any time, also
under a running handler; `Delete` removes the row for everybody.

The browser's side: `Compose` shows the bubble and begins to encrypt or upload;
`SendNow` emits and starts the pending timeout; `SendLater` and `Saved` put it into
the outbox; `Drain` prunes and emits what is there, at any time (connect, online,
background sync, click); an entry leaves only on `message_sent` (`TakeSent`) or by
age. `running` counts the timeouts of a request, `tracked` says whether the last is
still known to `pendingTimeouts`: replacing a timeout does not stop it, as in the
code. `Close` loses everything but the outbox.

`TakeRead` is the listener of `messages_read`: when the receiver reads the chat, every message of
one's own loses its pending mark, those without an answer too, but keeps its client id. Such a bubble
is "read", which is not yet "sent": `message_sent` still confirms it, and a timeout or a refusal still
makes it "failed" (`Unconfirmed`). `messages_delivered` would do the same with an empty list of
ids, which the server never sends; with ids it passes over what has none. A reply to a repeated
request that is being saved (`duplicate_request`) changes nothing in the browser and is not kept.

Abstractions: insert and commit are one step, because the unique index makes a
second insert wait for the first transaction; two copies of one request on the
wire at once are one; an outage of Redis is a refusal at the reservation and an
unchanged key later (the fallback to memory, which production refuses, is left
out); time is not modelled, so timeouts and expiries come at any moment, which
includes the moments they really come at; the removal of an entry that a closing
page interrupts is an answer that was lost; retrying while an upload runs and
the clearing of the outbox on logout are left out.

`Delivery` is what this promises the sender, without copies, handlers, reservations or sockets: a
chat that holds a message once, announcements of what was delivered, confirmations that are true
and last as long as the page, and messages that wait until they were delivered or their time is
over. `ImplementsDelivery` maps the rows to the chat, the outbox to what waits and the confirmed
bubbles to what the page has confirmed.

### Presence: the tabs of a user

`connected` and `active` are the two sets in Redis. What adds an entry or takes a
tab's own away is one script (`add_connected`) or one MULTI/EXEC pipeline. What counts is neither:
`_prune_redis_set` sends SMEMBERS, EXISTS for each member, SREM for those without a key, SCARD and, when
that was 0, DELETE, and other commands run between any two of them. The model keeps what a prune has
found and not yet acted upon: `emptying` has the sets whose DELETE is still to come (`PruneEmpty`,
`PruneDeletes`), `strays` the entries whose SREM is still to come (`KeyGone`, `PruneRemoves`). Prunes are
not bound to a handler of this user: whoever sends him a message counts his tabs
(`message_handlers.py:701` and `:761`), so several are under way at once, and a command may come twice.
`swept` is a history variable: tabs that a late command took out of `connected`.

`Connect` counts and adds in one script. An activity report is two steps (`BeginReport`, `StoreReport`), a
disconnect four: the socket closes, `remove_connected` (`DropConnected`), `remove_active` (`DropActive`,
which adds the tab to `connected` again, as the code does), and the count (`CountTabs`), whose own DELETE
(`DeleteEmpty`) comes before the grace period. After it the count is repeated (`GraceEnds`,
`DeleteEmpty`), and `Terminate` ends the calls. `WorkerDies` closes a tab without its
handler; `ExpireEntry` is the lifetime of keys. Left out: `users.is_online`, what contacts are told, and
the sets in memory of an installation without Redis, which a lock guards.

### MessageChanges: edits and deletions

A row, the requests that were checked and are still to write (`CheckEdit`,
`StoreEdit`; `CheckDeletion`, `DeleteRow`, `DeletionFails`) and to announce, and for
each member the list on the screen (`shown`), events on their way (`mail`) and edits
that are being decrypted (`decrypting`, with the index that was looked up before).
A write may meet a row that has changed since the check. Slot-wise writes are
kept, so an edit that lands at an index the list no longer has leaves a `Hole`.

### CallClient, CallMedia, Negotiation: a tab in a call

`CallClient` is `CallManager`'s state machine: `phase`, `callId`, the timers
that are armed, and the call remembered over a reload. Requests (`StartCall`,
`AcceptCall`, `EndCall`, the sync of a reconnect) go to the server, which the module
reduces to the status of each session; events come back in order. Timers expire
whenever they are armed, so a late answer can meet any state. The server's own rules
are in `Calls`; here it may do all that `Calls` permits to one user, so the module
over-approximates it.

`CallMedia` has what the call holds (`held`), what captures (`capturing`), the
starts of calls that wait for devices (`starts`) and operations on devices under
way (`operations`): both carry `current`, which is what comparing
`_callLifecycleSeq` after an await finds out. Every await is a step of its own, and
the call may end, and another begin, between any two.

`Negotiation` is the perfect negotiation of `CallWebRTC` on both sides. The
browser's part (operations chain, signalling state, when `negotiationneeded` fires)
follows the WebRTC specification and is marked external. Each handler awaits the
digest of the verification code before it sends (`waiting`). `LoseSignals` is a
socket that reconnects. Digests are computed outside the thread of the page, and no
document promises that two of one side end in the order in which they were begun:
`DigestsInOrder` says whether they do. The run and the theorems take it to be true (two
digests of some dozens of bytes are begun a round trip apart); section 4 says what
happens otherwise.

### ConnectionPool, RefreshTokens, Groups, Moderation: shared rows and slots

`ConnectionPool`: a step is what a thread does under `_condition`; dialing and use
are between steps. `Proceed(t, s, n)` moves the thread and wakes `n` sleepers.
`DialFails` gives the slot back; `Release` also drops connections that are broken or
come back to a disposed pool.

`RefreshTokens`: the tokens of one login. `Present` is the read of a row,
`MarkRevoked` the conditional UPDATE (its row lock is held until the commit),
`CommitRotation` the insert of the successor. A token that was used already leads to the
revocation of what was found (`BeginRevoke`, `EndRevoke`): the UPDATE waits for the locks of the rows it
saw and does not see the row that a rotation inserts meanwhile.

`Groups`: a request of the HTTP API is a check (`CheckLeave`, `CheckJoin` and so on)
and what its transaction then writes, at READ COMMITTED: the writes see rows
that changed since the check, exactly as far as their WHERE clauses look.
`Join` is the exception: the conditional UPDATE of the use counter and the membership
are one transaction.

`Moderation`: report, job, case. `ClaimJob` locks a job and its triage is the same
transaction (`ReadCase`, `CommitTriage`, `TriageFails`); the failure is written by another
one (`MarkFailed`), which may come late. With `MODERATION_REPORT_ASYNC_ENABLED` turned off, which a
restart can do while jobs wait, a request triages its report itself: `SubmitAtOnce` commits the report,
`ReadAtOnce` looks its case up and `CommitAtOnce` opens one, without the lock of a job. `atOnce` is a history
variable, the reports to which this happened.

### ChatView: what a tab lists

`current` is the open chat; `fetches` are the loads of a first page with where they
stand: cache read, cache decoded, rendered, answered, bars restored, decoded. Each is an
await, and each continuation asks, as the code does, whether the load is still
the latest of the chat that is shown (`Latest`, `Shown`); those of older pages and of
live messages ask less. Each may also throw (`FetchFails`): what follows is the `finally` block, once the
request has been begun, and a message to the user by the `catch` block or that of the caller
(`chat-contact-selection-runtime.js:280`). `listed` is the list of each chat in the tab's memory, `cached` what
IndexedDB has of it, and `inTable` the messages of the server's table.

## 4. The runs

| Run | Question | Bounds | Distinct states (about) |
|---|---|---|---|
| `services` | Do eleven components that share no state keep their properties? | see below | 990 thousand |
| `sync_drop` | Does a browser follow the log over a lost connection? | a message (to two rooms), an edit and an event nobody listens to, 1 browser, 1 drop, 1 failed request, pages of 1, 2 pages at most | 960 thousand |
| `sync_progress` | Is what was delivered handled in the end? | an event with two listeners and 3 nobody listens to, 1 transaction undone, pages of 1, 1 page at most, fair | 420 thousand |
| `sync_reconnect` | Is what was missed replayed? (no) | 2 events, 1 drop | |
| `sync_listeners` | Do all listeners hear? (no) | 3 events, no fault | |
| `calls` | Calls of one chat under every request | 2 calls, 2 users, 2 handlers at once, 2 grace periods | 430 thousand |
| `calls_lines` | One line per user over chats, and does every call and request end? | 2 calls in 2 chats, 3 users, one joins late, 1 handler, fair | 43 thousand |
| `send` | Sending with every retry | 1 request with a file, 2 handlers (symmetric), 2 commits, 2 pending timeouts | 840 thousand |
| `presence_last_tab` | Does the last tab end the calls? (no) | 2 tabs, no crash | |
| `delete_for_me` | Is "for me" for me? (no) | 2 members, 2 messages, 1 deletion | |
| `group_owner` | Has a group an owner? (no) | 3 people, 2 requests | |
| `chat_switch` | Is a message listed in its own chat? (no) | 2 chats, 2 messages | |

`services` is one run of eleven specifications. They share no variable, so their
interleavings would say nothing: `serving` is chosen in the initial state, that
component moves and the others keep one of their initial states (`Settled`).
The distinct states are therefore the sum of the eleven state spaces, and a property
of one component is checked in every state of that component:

| `serving` | Instance |
|---|---|
| `log` | 4 events (two to the room and a personal room, one personal, one unpersisted), one fault of each kind |
| `presence` | 2 tabs, 1 allowed at once, 2 late commands of prunes, 1 worker that dies |
| `changes` | 2 members, 2 messages, 2 edits and 1 deletion, 2 edits allowed |
| `tokens` | 3 tokens, 2 handlers |
| `negotiation` | 2 restarts or new tracks, 1 lost connection, digests of a side in order |
| `client` | one outgoing and one incoming call, 1 accept id, 1 event queued, 1 disconnect or reload |
| `media` | 3 tracks, 2 operations on devices at once |
| `pool` | 4 threads, 2 connections |
| `group` | 3 people (an owner and an admin), 2 links of one use, 3 requests |
| `view` | 2 chats, 2 messages, pages of 1, 3 openings or closings |
| `moderation` | 1 report, 3 workers or requests, 2 attempts |

Why the bounds are enough for the interesting cases. Three events are what a
page limit of 1 and two steps need to show a recovery that ends before, at and
after the gap. With one step and four events, as in `sync_progress`, a recovery also runs out of steps
before it has reached its event, and after it.
An event that arrives twice because it goes to two rooms is in `sync_drop`, one that arrives live and
replayed in both.
Two calls between the same two
users are the smallest conflict for chats, lines and locks; a third user is
there to join late. Two handlers and a request suffice for a race of copies; a
second commit needs a deletion in between, and `StoreLimit = 2` admits one. Two tabs
at a limit of one are the smallest that a prune can delete too much of, one tab and what it made room for;
two late commands are one for each set. Two requests that triage one report at once beside a worker, or
two workers and a request, are three at work. Two
handlers of one login are a race of a rotation with a rotation, a third token
lets one of them succeed twice. Four threads on two connections leave two asleep,
so that a wake-up can go to the wrong one or to nobody. Three requests of a group
are a check, a change that makes it stale, and the one that made room for both. Two operations on devices
over the end of a call meet the start of the next. Crash,
close and disconnect are not bounded in `SendMessage`. `TimerLimit = 2` is a
replaced timeout beside its successor. A file is the richer kind of message: a
text differs in having no retry, which removes steps and adds none.

Deadlock is not checked in runs where every event, call and fault is used up in
the end. `SendMessage` never stops (a page can always be closed or opened), and
`send` checks it.

Fairness. `sync_progress`: handlers that have begun, the processing of messages
that arrived, and the HTTP requests of a recovery go on; nobody has to send,
connect or reconnect, and a broken connection is never assumed to come back.
This is what the event loop and the workers do as long as they live.
`calls_lines`: time passes (`Older`), the scheduler's job runs again and again
(`scheduler_runtime.py:144`), and a `call_initiate` that has begun and whose next
lock is free takes it. Users and tabs owe nothing. Weak fairness is
enough: the scheduler's steps stay enabled while a call is overdue, and a lock
is released by the transaction that holds it, after finitely many steps of its own.

What the passing runs show, beside the type invariants (each property has a
mutant in `PROJECT.json`, a plausible mistake in the code that breaks it):

- `services`, `log`: the committed numbers are exactly `1 .. last_pts` (`LogGapFree`) and no
  step renumbers a row or lowers the counter (`LogAppendOnly`), with allocations that
  race, workers that die in an open transaction and transactions that fail. No more envelopes carry a
  number the log does not hold them under than transactions were undone after it was stamped
  (`StampedIsLogged`): the insert or the commit of `emit_enveloped_socket_event` fails, and the envelope
  goes out with its number (`event_envelope.py:339-351`).
- `services`, `presence`: but for the tabs that a prune's late command took out, a user never has more
  sockets open than the limit (`TabCap`), and a visible tab is a connected one (`VisibleIsConnected`),
  with reports that arrive after the disconnect and keys that expire. So a prune can let in at most as many
  tabs too many as it deleted, and nothing else can.
- `services`, `changes`: a row deleted for everybody is not brought back by an edit that
  was checked before (`DeletedStays`).
- `services`, `tokens`: of the tokens of a login at most one can still be exchanged
  (`OneLiveToken`), and a new one exists only in exchange for it (`Exchanged`). That a revocation ends
  the login is not said: it does not (`FamilyRevoked`, below).
- `services`, `negotiation`: whenever both sides are in the stable state, also while
  messages and digests are under way, they have settled on the same offer, answered by
  one and made by the other (`SameExchange`).
- `services`, `client`: a tab talks only in a call the server has made active, whatever
  late answers and events of an earlier call arrive (`TalksWhenAnswered`); it never rings
  or waits without a timer that will end it, also after a reload (`WaitIsTimed`).
- `services`, `media`: what captures is held by the call or by an operation that will stop
  it (`CaptureIsHeld`), although permission prompts outlive calls.
- `services`, `pool`: the counter of connections is exact (`PoolCount`), and no thread sleeps
  beside a free slot that nobody is awake to take (`PoolWakes`).
- `services`, `group`: as many people enter by a link as uses were paid for (`LinkPays`).
- `services`, `view`: an open chat is loaded, being loaded, or its failure was shown
  (`OpenDialogLoads`), however fast chats are changed.
- `services`, `moderation`: a report that only workers triage makes at most one case and, once decided,
  stays decided (`OneCase`), also when a worker's failure is written after another worker's success.
- `sync_drop`: no listener runs twice (`AtMostOnce`); below the browser's number
  nothing is missing but what it adopted without a replay
  (`NothingSkipped`, relative to the history variable `floor`); listeners run in the
  order of the numbers (`InOrder`); all of it is the abstract feed (`ImplementsFeed`). No transaction is
  undone in this run; section 5 says what these four need.
- `sync_progress`, with a transaction that is undone: the browser's number passes the server's by at most
  one, and then it is the number of an event whose transaction was undone (`KnownNotAhead`); the sync queue
  always empties (`GapsDrain`); what the socket delivers is handled, or lies below an adopted number, or
  shares its number with another event after a rollback (`DeliveredIsHandled`). This is said of events
  within `PageLimit * MaxSteps + 1` of the known number: the recovery for one further ahead runs out of steps,
  which the run does too, and drops it until the next event or reconnect.
- `calls`: one live call per chat, caller and callee both in it while it lives
  (`NobodyAlone`), a card for each finished call unless its handler died
  (`CardIsWritten`), and a card that is never contradicted (`CardTellsTruth`).
- `calls_lines`: the refinement of `Exchange`, so one live call per user over all chats;
  no call lives for ever (`LiveEnds`); requests never wait for one another in a circle
  (`NobodyDeadlocks`) and finish (`DialEnds`); taking the locks in one order is what
  the mutant of both drops.
- `send`: one row (`OneRow`), no confirmation without a commit (`SentIsStored`, where a confirmation is the
  answer or the echo that gives the message its id, and not the mark of a read receipt), as
  many announcements as commits at most (`ToldOnce`), and the refinement of `Delivery`
  (`ImplementsDelivery`): entries stay in the outbox until they are committed or expire,
  late timeouts, drains or receipts do not turn a confirmed message into a failed one, and only a page
  that goes forgets what was confirmed. `OutboxKeeps` and `SentStays` state two parts of it
  by themselves and are proved. A crash after the commit
  leaves a message that is stored and never announced to the receiver's room;
  `ToldOnce` is an upper bound for that reason.

### Disagreements between the code and what is said of it

With a run each, whose counterexample TLC prints:

- `sync_reconnect`: `primeChatState`, started with the recovery on a reconnect,
  adopts the server's number without replaying what was missed.
- `sync_listeners`: a recovery that ends just before an event with two listeners
  lets the first run and the second find the event already seen.
- `presence_last_tab`: the handler of a disconnect takes the tab out of
  `presence:conn` and, by `remove_active`, puts it back. The count is not zero, the
  cleanup of the user's calls is not started, and one that sleeps finds the entry.
- `delete_for_me`: `messages_deleted` goes to the room of the group also for a
  deletion "for me", and every browser removes the message from its list.
- `group_owner`: the owner sends two changes of one member's role at once. The one, to make him
  moderator, has been checked when the other makes him owner and the owner an admin; then it is written
  over the new owner's role. (A successor who leaves while he is picked leads to the same.)
- `chat_switch`: a message that is decrypted while the user opens another chat is
  listed in that chat.

Without a run of their own, as properties in the modules that TLC refutes on the same
instances when they are added to a configuration (the raw forms of `TabCap` and `VisibleIsConnected` are
written out here):

- `Cardinality(Open) <= MaxTabs` and `active \subseteq connected` (`Presence`): a prune counts an empty set, a
  tab connects, and the prune's DELETE takes it out (`presence.py:73-75`). It is open and not counted, so one
  more may connect; if its visibility was reported before the DELETE, it is visible and not connected. The next
  report of the tab adds it again.
- `FamilyRevoked` (`RefreshTokens`): "the entire family is revoked" (`refresh_tokens.py:5-7`). The UPDATE of a
  revocation waits for the row lock of a rotation under way and, when it goes on, does not see the
  successor which that rotation has inserted and committed: it stays valid.
- `AlwaysOneCase` (`Moderation`): with the queue turned off, two copies of a request find the report, which the
  first has committed, both find no case of it and both open one (`routes/moderation.py:135-148`,
  `moderation.py:749-773`).
- `ReadIsStored` (`SendMessage`): the receiver reads the chat while a message to it is being sent:
  `messages_read` paints it as read before it is stored, and a timeout may make it failed afterwards
  (`chat-message-status-events.js:273-282`).
- `AlwaysHandled` (`ChatSync`): an event further ahead than a recovery may walk (`MAX_DIFFERENCE_STEPS` pages) is
  not handled by its own recovery.
- `CleanupEndsCalls` (`Calls`): the cleanup cancels a call it read as ringing; when the
  callee has accepted meanwhile nothing happens and the call stays active.
- `StoredOnce` (`SendMessage`): the lookup of an earlier send sees rows only. A copy
  that comes after the message was deleted for everybody and the 180 seconds of the
  completed mark is stored and announced again.
- `ErrorFails` (`SendMessage`): every error with a request id is handed to the
  reactions, so a refused message stays pending until its timeout.
- `DeletedIsGone` (`MessageChanges`): an edit that was being decrypted when its message
  was deleted is written to the index looked up before, and shows again.
- `RestartsSettle` (`Negotiation`): an offer that is lost with a connection is not made
  again; one side stays in `have-local-offer`. With `DigestsInOrder = FALSE` an answer that
  overtakes an offer does the same.
- `SameExchange` (`Negotiation`), with `DigestsInOrder = FALSE` only: the callee rolls its offer
  back while the digest of that offer is under way; ending late, the digest sends whatever
  is the local description by then, so that a later offer goes out twice. The answer to the
  second copy is taken for the answer to the offer after it.
- `ListedStays` (`ChatView`): the first page, decoded after a live message arrived, takes
  its place in the list (`chat-history-runtime.js:655`).
- `AttemptsCounted` (`Moderation`): the rollback of a failed triage undoes the increment
  of `attempts` too (`moderation.py:886`), so `MODERATION_JOB_MAX_ATTEMPTS` never
  takes effect.

One more is in the properties themselves: when the insert or the commit of
`emit_enveloped_socket_event` fails, the handler rolls back and emits the envelope
with the number all the same (`event_envelope.py:339-351`), which the next event of
the chat is given again. In the model this is `RollbackEvent`. `StampedIsLogged`, `KnownNotAhead` and
`DeliveredIsHandled` say how much can go wrong by it, and `services` and `sync_progress` let it happen. Whoever
heard of the first event takes the second, under the same number, for old news: its listeners never run, so
`NothingSkipped`, `InOrder` and `ImplementsFeed` hold as long as no transaction is undone.

The hazard behind `DigestsInOrder` is at `call-webrtc.js:144` and `:191`, where a side awaits a
digest and sends its local description after it.

### Hazards without a property

`PROJECT.json` lists the hazards with their properties. These were met in the code and
are outside the modules; no property is about them yet:

- `message_handlers.py:503` (slow mode) and `:1623` (five edits) read a count or the last
  message and write later; two requests at once both pass.
- `chat-socket-client.js:100`: only 2000 event ids are remembered.
- `calls.py:190`: accepting takes no lock on the user, so someone who joins a group while a
  call rings there can answer beside a call of his own.
- `presence_handlers.py:31`: `users.is_online` is written by handlers that may commit in
  the opposite order of what they counted.
- `call-manager.js:210`: hanging up before `call_initiated` arrives leaves the call
  ringing without an owner until the server's timeout; `:1233` a second tab restores an outgoing call that is not its own;
  `:1522` a restart of ICE does not ask whether the call is still the same; `:805` changes of the
  microphone are not serialised; `:592` at most 128 early signals are kept.
- `chat_group_membership_routes.py:82` two transfers of ownership at once; `:193` a group
  is dissolved while someone joins; `chat_group_management_routes.py:296` the maximum of members
  is read and filled in two statements; `group_invite_links.py:110` a join that read "not
  banned"; `group_invite_requests.py:355` accept and decline at once.
- `moderation.py:1100` two appeals at once; `routes/moderation.py:92` a report is committed before
  its job, and the worker may stop between them.
- `chat-history-runtime.js:619`: the pinned bar is set after awaits that other chats
  can come between.
- `room-manager.js:165`: two joins create a room of the media server at once.

## 5. Proofs

All are checked by TLAPS for every value of the constants that satisfies the
assumption its module names (`RoomAssumption`, `FaultAssumption`, `SyncAssumption`, `CallAssumption`,
`SendAssumption`, `TabAssumption`, `TabsAreFinite`, `PoolAssumption`, `TokenAssumption`, `GroupAssumption`, `ChangeAssumption`,
`ModerationAssumption`, `ClientAssumption`, `MediaAssumption`, `ViewAssumption`, `NegotiationAssumption`): any
number of events, clients, users, tabs, calls, requests, handlers, threads, chats, messages
and faults. What they ask is that values meant to differ do (a user's number and a chat's, an edit and
a deletion), and that what is counted is finite (handlers, tabs, threads, tracks, messages). Two further conditions appear in the theorems that need them and nowhere else:

- `NeverRollsBack` (`FaultLimit["rollback"] = 0`): no transaction of the log fails after its
  allocation. Without it an envelope can carry a number that another event is given
  later (section 4), and a browser that heard of the first passes over the second. Only what says that nothing is
  skipped needs it: `NoEventIsSkipped`, `EventsComeInOrder`, `SyncImplementsFeed`. What is said of the numbers
  themselves counts such events instead.
- `DigestsInOrder`: the digests of one side of a call end in the order in which they were begun.
  This is an assumption about the browser. Without it TLC refutes `SameExchange`.

### The chat

- `EventEnvelopeProofs`: `LogInv`. That the log is dense needs to know that at most
  one transaction is past its allocation (`OneOpen`) and holds `last_pts + 1`
  (`OpenIsNext`), which is what the row lock is for, and that handlers before their
  allocation have no number. From it `ServerTypeCorrect`, `LogHasNoGap` and `LogNeverRewritten`.
  `NumbersCanBeTrusted` is a count: the set of stamped events the log does not hold (`Unlogged`) is finite and
  gains one event at most, in the step that counts a rollback; no other step, by whatever handler, adds one.
- `ChatSyncProofs`: `ListenersRunOnce` rests on `OnceInv`: whatever has run has been
  recorded as seen, which is what a listener asks, live, replayed or resumed. It
  needs nothing of the server. `NumberIsNotAhead` rests on `SyncInv`: pages and the server's answers are at
  most `last_pts`, and numbers on envelopes, known numbers and cursors at most `Mark`, which is one more as long as
  an event that was sent carries the number the log is still to give (`LogInv`, cited). It never sinks: that
  number is given next, if any is.
- The same module, second half: `FeedInv` adds to both, if no transaction is undone, what one browser's recoveries keep. A page is
  replayed some steps after it was read, and by then the number has moved: so a walk
  never starts above the known number and its page has no hole (`WalkFits`), a suspended
  listener waits for the number right below its own event's (`GapFits`), and nothing seen is
  above the known number (`ViewFits`). A page without a hole is where the dense log
  (`LogInv`) is used. From it, each step of a browser's view is one of three moves (`Moves`: along the
  log without a hole, to a first event, to a number the server gave), and the three theorems are
  about these moves: `NoEventIsSkipped`, `EventsComeInOrder`, and the refinement
  `SyncImplementsFeed`.
- `SendMessageProofs`: `SendInv`. `SentIsStored` needs that a handler past its insert has
  committed its request (`Committed`) and that every row was committed
  (`RowsStored`), because a retry is confirmed from the row. `ToldOnce` is not
  inductive: a handler past its commit is going to announce, so `Owed` counts
  the handlers that have still to do so with the announcements made, and
  `Handler` is assumed finite for the sum to make sense. `QueuedIsKept` is an action
  property that follows from `SentIsStored`: only a confirmation removes an entry
  before its time. The unique index alone carries `RowOnce`; the reservation
  appears nowhere in `SendInv`, so nothing depends on the lifetime of its key.
  `ConfirmedStays` needs types alone: every way to write a bubble passes over a confirmed one. A bubble that
  a receipt painted before its answer came is not a confirmed one, in the theorems as in the code: it has kept its
  client id, and what it may still become is `ReadIsStored` in section 4.
  `SendImplementsDelivery` sorts the steps by what they do to the five things `Delivery` speaks
  of. An announcement is allowed because it is owed, a confirmation because it is true, a saved
  entry because nothing is saved, sent or received without a page (`ClosedIsQuiet`).
- `ServerProofs`, `MessageChanges`: `DeletedStays` holds of each step; an edit writes where the
  row is still there, which is its WHERE clause. `ChangeTypeCorrect` is about the two operators
  on lists: what is left when a message is taken out, or replaced, is again a list of messages
  (`WithoutKeeps`, `PutAtKeeps`). `Without` is written as the k-th of the places that are kept,
  since the provers cannot look into `SelectSeq`.
- `BrowserProofs`, `ChatView`: `ViewInv`. That an open chat loads depends on a flag that forbids a
  second load. `LoadIsUnderWay` says that where the flag is up, the latest load of that chat is
  before its `finally` block; a load that is not the latest must not take the flag down, and the
  tokens that tell are never reused (`TokensCount`).

### Calls

- `CallsProofs`: `CallsInv`. `OneLivePerChat` rests on locks that exclude each other
  (`Exclusive`) and on `Reserved`: a request past its sweep has a chat without another
  live call, and nobody else can create one because of the lock. Rows a
  transaction will end are locked and live until it commits (`DoomedHere`).
  `CardTellsTruth` needs that a card is commanded only for a call that is over.
  `LineInv` adds that a request past its checks has
  reserved the lines of its participants across chats (`Promised`) and that a user
  is in one live call (`OneLine`). `CallsImplementExchange` then shows that each step is
  a step of the exchange (ends some calls, answers one, dials one) or a stutter.
  `NoCircleOfWaits` is about any finite set of requests. The locks a request holds come before
  those it has still to take (`Ordered`), so who waits for a lock waits for somebody whose next
  lock comes later, or who has all of them (`Ahead`); who waits for a row has all its
  advisory locks, and the other has ended rows already. Of a finite set somebody is furthest on
  (`SomeTop`), and waits for nobody in it.
- `BrowserProofs`, `CallClient`: `ClientInv`. A tab believes an event that was sent before it was
  received, so the invariant is about the events: what an acceptance or an active status names
  was answered and stays so (`TrueNotice`). All handlers are shown to do one of six things to
  the state of a call (`Reaction`), and `StateInv`, with the timer that each wait has, is
  proved for these once.
- `BrowserProofs`, `CallMedia`: `MediaInv`. `CaptureIsHeld` needs that what an operation still names
  will be stopped by it (`Covered`) and that starts and operations of an ended call are not
  taken for those of the current one (`SessionsApart`): the sequence number of the code.
- `BrowserProofs`, `BrowserHearsAnExchange`: the call client is modelled against a server that is
  a few guards on `session`. That this is no freer a server than the call service is shown by the same
  abstract specification: both implement `Exchange`, the client's side with one line.
- `NegotiationProofs`: `SameExchange` says nothing of an exchange that is under way, and says
  only what offer was settled, not where its answer was. The invariant follows the pending
  offer of either side from the digest before it is sent, through the mail, the operations chain
  and the other side, to the answer that comes back: it is in one of these places at most, and
  an answer under way answers the offer that is still pending where it goes (`OneCall`,
  `OneBid`). Offers of the callee that were rolled back stay in the mail of the caller, in front
  of what matters, and the caller that meets them ignores them (`OldMail`). It also lists what
  chains, digests and mail can hold at all (`CallerShape`, `CalleeShape`, `MailShape`); here digests in
  order are needed. There is one lemma for each operation and side, because the
  impolite caller ignores what the polite callee answers. `NegotiationTypeCorrect` needs none of
  that, nor digests in order: whatever names an offer names one that was created.

### Shared rows and slots

All in `ServerProofs`:

- `Presence`: `PresenceInv`. `TabCap` counts sockets, the script of `add_connected` counts entries of
  the store: `OpenIsConnected` says that the first are among the second but for those in `swept`, although
  handlers of closing tabs, expiry and the late commands of prunes remove entries. What a prune removes of an
  open tab is in `swept` by the same step, so the script's count bounds all the others. The set is finite because
  the tabs are.
- `RefreshTokens`: `TokenInv`. The conditional UPDATE of a rotation is a lock: a
  handler past it holds the live token alone until it commits (`MarkHolds`).
- `ConnectionPool`: `PoolInv`. `PoolWakes` is not inductive; with the exact counter it
  says that while somebody sleeps, `MaxSize` threads have a connection or are awake
  (`PoolBusy`), which each step keeps: who takes leaves the awake ones at most, who gives
  back wakes one.
- `Groups`: `LinkPays` is inductive with the types of both counters, as `Join` uses and
  enters in one transaction.
- `Moderation`: `CaseInv`. A job that failed late may be claimed again, so `OneCase` rests on the row
  lock: one worker holds a job (`LockIsAlone`), what it read of the report's cases is true
  until it commits (`NewHasNoCase`), and only a case closes a report (`ClosedHasCase`). A request that triages
  at once holds no job; its report is set apart when it is submitted (`AskedIsAtOnce`).

The types of these modules hold of themselves but for one bound. An attempt is counted when a triage ends, and is
still left then because nobody else can have used it up behind the row lock (`AttemptLeft`, for
`ModerationTypeCorrect`).

### Together

`ServicesProofs`: the composition changes one component in each step. `ServicesKeepToSpecs` shows that
each component then takes a step of its own specification or stutters; so what is
proved of a component holds in the composition: the types (`ServicesTypeCorrect`) and, under
`DigestsInOrder`, all the properties the run `services` checks (`ServicesAreCorrect`).

### Only model-checked

All liveness (`GapsDrain`, `DeliveredIsHandled`, `LiveEnds`, `DialEnds`), which is out of the prover's
reach. Every invariant, action property and refinement of a passing run is a theorem, some under one
of the two conditions above. Nothing in the proved modules is recursive.

## 6. Running it

    tlc -config send.cfg MCSendMessage      # a run; PROJECT.json names all twelve
    tlapm SendMessageProofs.tla             # a module's proofs

The modules whose names begin with `MC` give the constants their small values;
`MCServices` composes the eleven components of `services`.

## 7. Not modelled

Rendering, layout, translations, media files, link previews, push and TURN: work with
outside services or pure output. Cryptography: computation; the order in which its
results arrive is in `SendMessage`, `MessageChanges` and `ChatView`. The SQL text: its
locks, unique indexes and conditional updates are in the actions. Deployment and
scripts hold no state of the running system. The parts marked planned in section 1 have state and races
of their own and are left for a later version.
