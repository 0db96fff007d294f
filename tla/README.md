# CornerTasks: a verification project

TLA+ models of the CornerTasks sync system, the TLC configurations that check
them, and TLAPS proofs about the core. CornerTasks is a task list that lives in
each device's local database and, when cloud sync is on, uploads every change as
a sealed event and pulls the events of the other devices. All paths below are
relative to the repository (`src/` in PROJECT.json).

    tlc -workers 2 -config CursorSync.cfg MCCursorSync.tla     # any run: the cfg and its MC module
    tlapm CursorSyncProofs.tla                                 # the proofs

PROJECT.json lists the runs, the source lines every definition models, a mutant
for every property, the hazards and the theorems.

## 1. Inventory

### 1.1 Components

| Component | Source | State it keeps | Operations |
|---|---|---|---|
| SQLite event store | `backend/core/src/lib/sqlite-store.ts`, `db.ts` | per account: one row per task (the newest event, its `seq`), the seq counter; challenges | `putEvent`, `queryEventsAfter`, `putChallenge`, `consumeChallenge`, `pruneExpiredArchives` |
| DynamoDB event store | `backend/aws/src/lib/dynamo-store.ts` | the same, in three tables | the same calls, each one or more AWS requests |
| Push, pull, auth handlers | `backend/core/src/handlers/` | none of their own | `POST /v1/events`, `GET /v1/events`, `/v1/auth/challenge`, `/v1/auth/token` |
| HTTP server | `backend/server/src/{server,router,adapter}.ts` | none | route a request; after a REST push that wrote something, call the hub's fan-out |
| WebSocket hub | `backend/server/src/ws-server.ts` | a `Connection` per socket (state, cursor, pump flags, suppressed ids, generation), `byAccount` | accept, auth, subscribe, pump (drain and live), notifyAccount, push frames, close |
| Web store | `apps/web/src/storage/TaskStore.ts` | IndexedDB: tasks, sync queue, prefs; in memory: `lastEventIdByTask`, the event builder | local edits, enqueue, `applyRemote*`, queue and resync calls |
| Web sync engine | `apps/web/src/sync/SyncEngine.ts` | cursor, last sync and flags in `Prefs`; timers | `start`, `stop`, `flushPushes`, `pullSince`, `performFullResync`, visibility |
| Client auth session | `apps/web/src/sync/authSession.ts` | one cached bearer (nothing is shared while a refresh is under way) | `bearer`, `invalidate` |
| WebSocket transports | `apps/web/src/sync/{Negotiating,WebSocket}Transport.ts` | socket, phase, failure count, reconnect and give-up timers, event buffer | negotiate, connect, drain, push, pull, reconnect. The app wires `FetchTransport` today (`App.tsx:86`) |
| App shell | `apps/web/src/ui/App.tsx` | the engine it holds, the generation of `startIfEnabled` | start, stop and rebuild the engine as prefs and account change |
| Settings panel and enable sheet | `apps/web/src/ui/{SettingsPanel,EnableCloudSyncSheet}.tsx`, `models/Prefs.ts`, `sync/BackendPing.ts` | what they show, a debounce timer; in localStorage: enabled, URL, resync flag, interval | toggle, edit and test a URL, pick an interval, enable, forget, reveal |
| Account, reveal gate | `apps/web/src/crypto/{AccountManager,MnemonicStore,RevealGate}.ts` | the stored words, the derived identity, a passkey credential | load, generate, import, forget, `require()` |
| Identity, crypto | `apps/web/src/crypto/` | key material | derive, sign, seal, open |
| macOS client | `apps/macos/Sources/` | GRDB database, engine | mirrors the web client |
| Tooling | `design/`, `scripts/`, `backend/aws/scripts/` | none the system reads | build and diagnosis |

### 1.2 How they interact

A device edits its store; the store asks the engine's builder for a sealed event
and puts it in the queue. At the interval the user picked (a minute by default; and at start) the engine sends the
whole queue in one push; the push handler writes the events one by one, the
store giving each the account's next `seq`, refusing an event that is not newer
than the row (`updatedAt`, then `eventId`). At the same interval, at start, and
when the page becomes visible, the engine pulls what lies after its cursor,
applies each event with the same comparison, then persists the cursor the
answer carried. The hub offers the same log over a socket: a subscriber names a
cursor, the pump reads and sends until nothing is left, says `live`, and is
woken by every push that wrote something. The panel and the sheet change the stored words
and the preferences and fire two window events, on which `App` stops its engine and starts another, or
rearms its timers. An engine finds in the browser what the last one left: cursor, queue and resync flag.
An account is a DID; accounts never
share rows.

### 1.3 What is hard

* *Cursors over a log that moves.* A row has one place in the log and a rewrite
  moves it. A cursor is safe only if no write ever lands at or below it. SQLite
  gets this from being synchronous, DynamoDB does not.
* *Awaits.* Web and server are single threaded, but every `await` lets other
  handlers run: `pump` is re-entered while it reads, a queue row is inserted
  while a push is under way, an edit lands between the read and the write of
  `applyRemoteUpsert`, which are two IndexedDB transactions.
* *Lost answers, retries, page loads.* A push is at-least-once; a pull's cursor
  must not run ahead of what was applied; a page load drops `lastEventIdByTask`
  and leaves both clients' and server's half of a call behind.
* *Two clocks and several instances.* A challenge expires by the server's clock, a DID-JWT is
  dated by the client's, the cache trusts the client's; on AWS the token and the push
  are served by instances that read the signing key at different times.
* *Toggles.* Turning sync on asks for a full resync that discards the queue and
  the cursor and uploads what the server does not have. `stop()` leaves its calls running, so for a while
  several engines, of several accounts and backends, share one cursor, one queue and one flag.
* *Dialogs over awaits.* Key derivations, pings, passkeys and the clearing of the store answer while the user
  goes on clicking, and reach a panel that may show something else by now, or be gone.
* *Bounds.* 500 events a push, `MAX_PUMP_ROUNDS`, a connection cap, chunks of
  200 events.

PROJECT.json lists every hazard at its line, with the properties that watch it
or a note saying what the code leaves open.

### 1.4 What makes each part correct

* Store: a row is the newest event ever pushed for its task, whatever the
  order of arrival; a reader that applies its answers misses nothing.
* Push: every prefix that was written stays settled, an answer accounts for every
  event, and only the account of the bearer is written.
* Hub: no cursor a socket delivers covers a row the device was not given; no
  wake-up is lost; drains end; the registry is exact.
* Authentication: a challenge buys one token and only while it lasts; a retry carries a new
  token; a refusal has its reason in a clock, a delay or a new key.
* Client: an edit that reached the queue is either still queued, or the server
  has it or a newer one; the device ends up showing what the server has.
* App: one engine runs, the one that can be stopped; its cursor counts for its account and its backend,
  its queue holds no other account's events, and a resync that is due is done in the end.
* Panel and sheet: sync is enabled with what the sheet shows, tested and backed up; what the panel shows
  is stored; words are shown only if confirmed.

## 2. Modules

| Module | Models | Used by |
|---|---|---|
| `SyncEvents` | the order on events (`Supersedes`, `Covers`) | all |
| `LwwMap` | abstract: a last-writer-wins map | refined by `CursorSync`, `DynamoStore`, `PushHandler`, `WsHub` |
| `SqliteStore` | `putEvent`, `queryEventsAfter` as operators on `event`, `seq`, `counter` | `CursorSync`, `PushHandler` |
| `CursorSync` | the store with any number of devices following it by cursor | |
| `StoreProofs` | lemmas about the order, least and greatest elements, one `PutEvent` and one query | `CursorSyncProofs`, `WsHubProofs`, `SyncClientProofs` |
| `CursorSyncProofs` | theorems about `CursorSync` | |
| `DynamoStore` | the DynamoDB store, request by request, with overlapping writers and a paging reader | |
| `DynamoStoreProofs` | theorems about `DynamoStore` | |
| `PushHandler` | the push handler, one event at a time, several requests | `WsHub` |
| `WsHub` | the hub over the push handler and the SQLite store; runs check both | |
| `WsHubProofs` | theorems about `PushHandler` and `WsHub` | |
| `SyncClient` | store, queue and engine of a device, with the server and another device | |
| `SyncClientProofs` | theorems about `SyncClient` | |
| `WsClient` | the transport that prefers a socket to polling, with the pulls that read from it | |
| `WsClientProofs` | theorems about `WsClient` | |
| `Auth` | challenges, tokens, bearer checks, signing keys, `AuthSession` and the one retry | |
| `AuthProofs` | theorems about `Auth` | |
| `AccountPanel` | the settings panel, the enable sheet, the account, the reveal gate, pings, preferences | `AppLifecycle` |
| `AppLifecycle` | the effect of `App`, several engines, page loads, and what they share, over `AccountPanel` | |
| `AppLifecycleProofs` | theorems about the two | |
| `MC*` | the instances TLC runs | |

### 2.1 SyncEvents, LwwMap, SqliteStore, CursorSync

An event is `[task, updatedAt, eventId]`; the sealed payload is determined by
the `eventId`, and an operation (upsert or delete) is part of the payload, for
nothing on the server looks at it. `updatedAt` is a number: every client writes
ISO-8601 with milliseconds in UTC, where string order and time order agree.
Events of an instance have distinct ids.

`event[a][t]` and `seq[a][t]` are the row of task `t` (`NoEvent`, 0 if there is
none), `counter[a]` the seq counter. `PutEvent` allocates a seq *before* it
compares (`nextSeq` is called first), so a stale event uses one up and leaves
a gap, as in the code. `pruneExpiredArchives` deletes rows whose
`archivedCompletedAt` is set; nothing in the repository sets it, so it is a
no-op and has no action.

In `CursorSync` a write is one step because the SQLite store is synchronous:
between `nextSeqStmt` and the upsert no other handler can run. A pull is two
steps: the handler reads and answers (`Pull`), and the device applies all of the
answer and persists its cursor (`ReceivePull`) or loses it, in whole or after
some prefix was applied (`LosePull`: `pullSince`'s catch leaves the cursor
alone). Timer and visibility pulls overlap, so up to `MaxInFlight` answers may
arrive in any order and an older one may set the cursor back. `ResetCursor` is
the resync's.

### 2.2 DynamoStore

One action per AWS request: `NextSeq` (the atomic counter), `ConditionalPut` (the
guard is the code's `ConditionExpression`), and a query whose pages are read at
different times; what its pages held so far is a function from task to event, for a later page may replace
what an earlier one had. `late` is a history variable: rows whose put landed when a reader's
cursor, or the read it has under way, was already past their seq. `WriterDies`
is an invocation that ends between the two requests.

### 2.3 PushHandler

A request record carries the bearer's subject, the account, the batch, the position, `seen`,
`accepted`, `rejected`, and the status. Each event of the loop is a step, because the handler
awaits `putEvent`. With the SQLite store those awaits return within the same
microtask run, so the model allows more interleavings than that build shows; with
DynamoDB they are all real. A foreign event ends the request with 403 in the middle
of the batch, a store error with 500, a crash with nothing; what was written
stays. Signature and schema checks that refuse a request before it changes anything are
collapsed into their outcome (400, 401). The module has a specification of its own, `PushSpec`;
TLC checks its properties inside `WsHub`, whose requests are these, and the theorems state them of both.

### 2.4 WsHub

A connection is the record of `ws-server.ts:92-124`. `Pump` runs from its entry to
its await and starts a read; `ReadReturns` is the rest of an iteration, including
`Decide`, the point where the pump goes on, yields (`setImmediate`, `Immediate`),
goes live or stops. Token verification is a step of its own
(`AuthFrame`, `AuthVerified`): the socket may be gone when it returns.
`wire[c]` is the ordered stream of frames the device has not read; a closed
socket loses any suffix. A batch is a set of rows and a row's place the number of rows before it, so that a chunk is
the rows whose place lies in its range (`Place`, `Chunk`, `ChunkCount`). A device applies an `events` frame and persists
its cursor in one step, which is what the frame's own cursor is for. The push
requests are `PushHandler`'s, with `origin[q]` saying which socket (or REST) sent
them. `Scopes` chooses for a behaviour which sockets and requests take part, for which accounts and with
which batches, so that what a handler must refuse is checked without multiplying the sockets. `unannounced` is a history variable: rows written by a push that has not yet called `notifyAccount`, or
never will because it failed or its socket closed. `Restart` is a restart of the server process: sockets and requests
go, the store stays. Heartbeat and authentication timeouts are `Drop`, at any time.

### 2.5 SyncClient

`row[d]` is the tasks table, `lastId[d]` the in-memory `lastEventIdByTask`,
`queue[d]` the sync queue, and the engine's calls (`edits`, `push`, `pull`, `resync`) are records with a stage
per await: edits (`EditRow`, `ReadSnapshot`, `AddToQueue`: the three
transactions of an edit), pushes (`Flush`, `ServePush`, `PushAnswered`, ...), pulls
(`StartPull`, `Compare`, `Replace`, `PullEnds`), the full resync
(`ClearQueue`, `ResyncPull`, `TakeSnapshots`, `EnqueueSnapshot`, `ResyncEnds`). What is left of a push or of an
answer is a set: the server takes the oldest event left (`ServePush`), a pull the row with the lowest seq
(`Incoming`). The server is `SqliteStore` for one account, and `OtherDevice` pushes to it, so one
detailed device is enough to meet every concurrent write. `Enable`,
`Disable` and `Restart` (a page load) leave the calls of a stopped engine to run
on or to die, as in the code: `stop()` cancels timers only. The 60-day cutoff of `applyRemote` is
abstracted away: the events of an instance are recent.
`onScreen[d]` holds the tasks that are listed although their rows are deleted, until `Refresh` (`App.refresh`)
has read the lists again: `update` does not look at `deletedAt`, so a task deleted elsewhere can still be edited, and its
upsert brings it back on every other device. Here it stays deleted until its own event comes back with a pull, which
undoes the deletion unless the tie-break below keeps the row.
A history starts with nothing stored, or with one event of `Base` that the server and the device have.
Three history variables serve the properties. `rowEvent` is the event a row says, none while an edit of it has no event
yet. `unqueued` has the tasks with a change that no queue row stands for: it was given up without a builder, by a page
load or by a resync; a queue row built from the row as it is, or an event merged into it, takes the task out again. `mismerged` has the two ways in which the merge departs from the rule of the protocol:
an event overwrites a row that has become newer since it was compared; and a tie is decided with the eventId of the last
remote event although the user has edited the row since (`IdOutdated`), so that an event that
should win is dropped. A task leaves it when it is given what the server has. Any other departure is still an error.
`ClocksAgree` says that an edit is stamped later than the row it edits; without it
last-writer-wins drops the edit, by design.

### 2.6 WsClient

`NegotiatingTransport` over `WebSocketTransport`, with `pullSince` reading from
it. `phase`, `ws`, `url`, `disabled`, `failed`, `timers`, `buffer` and `bufCursor`
are the fields of the class; `metas` counts the `negotiate()` calls that await
`/v1/meta`. A socket is `token` (awaiting its bearer), `opening`, `open`, or
`refused` (it was sent `auth_err` and the server will close it). `this.ws` is one
name and the open sockets are several: `openSocket` overwrites the field without closing what it
held, so a signal during a connection attempt leaves a socket that still calls the
handlers. Each handler acts on the transport's fields whichever socket
called it, as the closures of `openSocket` do. An event is its place in the
account's log; the server is what `WsHub` promises a subscriber. `slips` is a
history variable naming the two ways an event may be skipped: `orphan`
(a connected socket lost its owner) and `dropped` (a pull failed with events it had
taken from the buffer). Pushes over the socket and `connectionState` are left out:
a push that is not acknowledged falls back to REST, which is `SyncClient`'s push.

### 2.7 Auth

`call[c]` is one `pushWithAuth` or `pullWithAuth` under way: where it is (`challenge`,
`challenged`, `token`, `granted`: the awaits of `refresh`; `sent`: the push or pull), which try
it is, its challenge and its token. The callers share one `cache`. `bearer()` looks at the cache
up to its first await, so `Call` and `Retry` are one step each; nothing makes a second caller
wait for a refresh under way, so each asks for a challenge of its own, and
whichever answer comes last is cached (`StoreToken`).

`iat[n]` keeps the DID-JWT of challenge `n` once it has been sent: the request may arrive at any time,
again, and at any instance, also when its caller has given up (`Throw`). `requests` are the arrivals past the
lifetime check. Over SQLite `consumeChallenge` runs without an await: read, delete, compare
(`Consume`, `RefuseChallenge`). Over DynamoDB the condition compares with the clock the handler
read before it sent the delete (`SendDelete`, then `ConditionalDelete` or `ConditionFails`), and
expired items are removed some time later (`Evict`). `Mint` is a step of its own, since between the two the
instance may end (`Restart`) and the challenge is gone.

`Settings` chooses runtime, clock and the number of key changes: the self-hosted process serves
all routes with one key; on AWS token Lambdas sign and sync Lambdas verify, each with
the key it read first (`keys`). Ticks are finer than seconds (`PerSecond`), because the stores and
the tokens disagree on the unit: SQLite and the client's cache compare milliseconds, DynamoDB and the tokens
whole seconds. `used` and `tokens` are history variables. Formats, signatures and audiences are taken
to be right: a refusal for one of them happens before anything changes.

### 2.8 AccountPanel

`prefs`, `stored` and `passkey` are what the browser keeps; `panel` and `sheet` what React keeps, including
what they were told to show; `calls` what they await. The code of a click is one step up to its first
await; the answer is another, possibly after the panel was closed, which drops the panel's state and not the
call. IndexedDB answers transactions in the order they are made, so `MnemonicStore`'s saves and clears count from
the click and only their answers come later: a load waits for a clear made before it (`calls.forget`), and so does a
derivation saved after it (`after`). The twelve words stand for the account, and a generated account is always a new
one. A ping is its outcome, since no state depends on why it fails.

`known` is a history variable, the words that were confirmed or came in through this panel. `slips` records
the orders of events against which the code does nothing: `overlap` (two calls of the account
side by side), `forget` (a panel opened, or a page loaded, before a forget is answered), `ping` (an answer
saved its URL over a later one), and those of the next section. A commit forgets all but `overlap`, because it sets words, URL and flag anew.

### 2.9 AppLifecycle

`runId`, `engine` and the effect's locals (`starts[i]`, one record per call of `startIfEnabled`) are `App`'s; `engines[i]` is the
`SyncEngine` run `i` made, until it is stopped and its calls are over (`Becomes`). What is inside an engine's calls is
`SyncClient`'s subject; here a pull is the cursor it was made with, a push is one step, and a resync is at one of its four awaits.
A cursor records the account and the backend whose log it counts, and whether something was skipped
(`gap`): a pull that continues a foreign cursor skips. A queue row is the account that
sealed it. `CommitStep`, `DisableStep`, `ForgetStep` and `IntervalStep` are the panel's handlers with the event
they fire and what `App` does up to its first await, which is synchronous. `PageLoad` drops everything in memory at any point.

`owed` is a history variable: the run that the last enable asked to resync. More slips: `url` (a URL saved
without a resync), `stale` (a stopped engine moved the cursor or emptied the queue when another was past its own reset), `cleared` (a
stopped engine's resync took down a newer flag), `sealed` (an edit landed after a switch).

## 3. Runs

| Run | Expect | Shows | Bounds |
|---|---|---|---|
| `CursorSync` | pass | type, no row below a cursor is missed, writes land above all cursors, every event reaches a device that keeps polling, refinement of `LwwMap` | 1 account, 2 tasks, 4 events (a tie and a newer one), 1 device, 2 answers under way, 5 seqs |
| `DynamoStore` | pass | the same map under interleaved writers; seqs stay distinct; a reader misses a row only if its put landed late | 2 writers, pages of 1 row, 4 seqs |
| `DynamoOverlap` | violation | `CursorComplete` fails: see 5 | 3 seqs |
| `WsHub` | pass | cursors of a socket skip nothing; no wake-up is lost; answers to pushes are honest and writes authorised | three scopes: one socket beside REST pushes (2 subscribes, chunks of 1, 2 pump rounds); two sockets; no socket and two requests of two accounts with conflicting, repeated, foreign, empty and oversized batches (batch limit 2); 3 seqs (1.5 million states, two minutes) |
| `WsHubSockets` | pass | the same across two sockets of a device; exact registry; a closed connection stays closed; drains end; what is announced arrives | 2 sockets, cap 1, 1 batch, 1 subscribe each |
| `SyncClient` | pass | a settled device shows what the server has (tasks with a change that never reached the queue, or mismerged as in `SyncClientMerge`, excepted), edits of tasks deleted elsewhere included; no queue row is dropped before the server has it | 2 edits after one event already synced or none, 1 failure, 1 page load, batch limit 2, ids of the later reading below that of the earlier (3.6 million states, two minutes) |
| `SyncClientLive` | pass | queue empty and views agreed in the end | 2 edits, 2 failures, batches fit |
| `WsClient` | pass | no event is skipped but by the two slips; `live` means live; a visible client is never left without a socket and a timer, a hidden one with either; it catches up and goes live | 2 sockets, 1 pull, 2 events, 2 negotiations, 1 signal (showing the tab is free), 2 faults, giving up after 2 failures |
| `Auth` | pass | a challenge buys one token; it is granted up to its expiry and never after, and lost early by less than a second; the retry carries a new token; a refusal has its reason | 2 calls, 2 challenges, 4 ticks of half a second, a clock that is right, slow or ahead; 1 key change self-hosted, 2 racing token Lambdas on AWS |
| `AppLifecycle` | pass | one engine; what it shares is its own; a resync is remembered and comes about; panel and sheet show what is stored, enabled, tested and confirmed | 2 accounts the user owns and 1 to generate, 2 backends and a mistyped URL, 5 runs per page load, nine stories |
| `SyncClientMerge` | violation | `MergesByRule` fails: see 5 | no failure or restart needed |
| `SyncClientResync` | violation | `ResyncUploads` fails: see 5 | 2 page loads |

*Why the bounds are enough.* Accounts and tasks never touch one another in the
store, so a second task is there only for the log order and a second account only
for authorisation. Three events of one task cover every comparison
(older, tie with a smaller or greater id, newer). Chunks of one event and two
pump rounds make the boundaries the code puts at 200 and 64 occur in almost every behaviour. Seqs are
capped by `MaxSeq`, which bounds the number of writes; liveness runs end with
no write left, so `EventDelivered`, `FanOutDelivered` and `EventuallyAgrees` are about
what happens once the writing stops, and `MaxSeq` leaves room for every retry.

In `WsClient` one pull at a time is enough: overlapping answers are `CursorSync`'s
subject. Giving up after two failures stands for three; with two faults both the
retry and the giving up occur. One signal is enough for an orphan socket (a network change while
connecting), for hiding and showing, and for `stop` in any phase.

In `Auth` two challenges are one for each call or one for each try, so callers race for the
cache or a retry replaces a token, not both at once. The lifetimes are one second each and the challenge's is
one second too: four ticks are enough for each to pass, before or between the steps of a call. A token of one
second is cached usefully only by a client whose clock is slow (the slack is one second), which is one of the settings. The key changes
only in the self-hosted settings: there every route signs and verifies with what the process
read at its start. Two sync Lambdas would differ only in their keys.

`AppLifecycle` would not be checked with every gesture possible in every order, so `Scenarios` gives each
behaviour a budget of gestures. Each of the nine is about one subject, with the gestures that could disturb it: a first enable, with a
mistyped URL; two enables in a row; edits across a switch of accounts; a switch after a forget, with a page load; a
forget cut short by page loads; a resync that page loads and a hidden tab interrupt; URLs edited and pinged in two
panels; the gate beside a forget and a new account; the interval beside a hidden tab and a disable. Within a story the
order is free, and everything that is not a gesture (answers, timers, closing, cancelling, ticking) is unbounded. Five runs per page
load leave room for all the gestures of a story that start one.

*Deadlock.* `CursorSync`, `DynamoStore` and `Auth` check it. `WsHub`,
`SyncClient`, `WsClient` and `AppLifecycle` stop for good when their bounds are used up and the device is idle, so it is off.

### 3.1 Fairness

* `CursorSync`: the pull timer (`SyncEngine.ts:445-453`) fires again and again, so a
  device keeps pulling, and an answer that is not lost is applied. That
  the network does not lose every answer for ever is an assumption
  (strong fairness of a received answer): without it nothing can be delivered.
* `WsHub`: weak fairness of a read that returns, of a `setImmediate`
  callback and of delivery on an open socket: Node runs ready callbacks, and a
  socket that never delivers is closed by the heartbeat. There is no fairness for
  new pushes, subscribes or accepts: clients may stop.
* `SyncClientLive`: the two timers fire, and a call under way ends. Failures are
  bounded by `MaxFailures`, restarts are 0 (a device that reloads for ever
  never syncs), and no full resync is due at the start (`ResyncDue`).
* `WsClient`: requests are answered, timers fire, an open socket delivers, a
  socket that was refused is closed, and the engine of a visible tab keeps
  pulling. Faults and signals are bounded; nothing obliges the server to write.
* `AppLifecycle`: the awaits of `startIfEnabled`, of a resync and of a forget are answered, for each run separately:
  promises settle, and `fetch` answers or fails. Nothing else is owed: users may stop at any point.

## 4. Proofs

Seven modules prove, for every set of accounts, tasks, events, devices, readers, writers, sockets, requests, batches, callers,
instances, words, URLs and stories and for any bounds: every safety property that the passing runs
check, action properties and refinements included. `StoreProofs` holds what those about the SQLite store
share: the order is total and transitive, a put
makes a row either stay or become the event under a fresh seq, rows only move up, and a query returns the rows
above a cursor.

| `CursorSyncProofs` | Property |
|---|---|
| `Invariance` | `IInv` |
| `TypeCorrect` | `TypeOK` |
| `NewestWins` | `RowIsNewest` |
| `CursorCompleteness` | `CursorComplete` |
| `WritesLandAbove` | `WritesLandAfterCursors` |
| `Refinement` | `ImplementsLwwMap` |

| `DynamoStoreProofs` | Property |
|---|---|
| `SpecInv` | `Inv`, which has `TypeOK` in it |
| `SpecRowIsNewest` | `RowIsNewest` |
| `SpecSeqsDistinct` | `SeqsDistinct` |
| `SpecOnlyLateMissed` | `OnlyLateMissed` |
| `Refinement` | `ImplementsLwwMap` |

| `WsHubProofs` | Property |
|---|---|
| `PushInvariance` | `PushInv` |
| `PushTypeCorrect` | `PushTypeOK` |
| `PrefixStaysSettled` | `PrefixSettled` |
| `AnswersAreComplete` | `AnswerComplete` |
| `AnswersAreHonest` | `AnswerHonest`, both of them |
| `WritesAreAuthorised` | `WritesAuthorised` |
| `PushNewestWins` | `RowIsNewest`, under `PushSpec` |
| `PushRefinement` | `ImplementsLwwMap`, under `PushSpec` |
| `SpecHubInv` | `HubInv` |
| `HubTypeOK` | `TypeOK` |
| `HubDeviceCursorComplete` | `DeviceCursorComplete` |
| `HubNoLostWakeup` | `NoLostWakeup` |
| `HubRegistryExact` | `RegistryExact` |
| `HubClosedForGood` | `ClosedForGood` |
| `HubAnswerHonest` | `AnswerHonest` |
| `HubWritesAuthorised` | `WritesAuthorised` |
| `HubRowIsNewest` | `RowIsNewest` |
| `HubRefinement` | `ImplementsLwwMap` |

| `SyncClientProofs` | Property |
|---|---|
| `TypesInvariant` | `TypeInv` |
| `TypeCorrect` | `TypeOK` |
| `ServedIsCovered` | `PushCovered` |
| `QueueIsKept` | `QueueKept` |
| `EventsAreBuilt` | `AllSaid` |
| `DataInvariant` | `DataInv`, if `ClocksAgree` |
| `DevicesConverge` | `Converged`, if `ClocksAgree` |

| `WsClientProofs` | Property |
|---|---|
| `SpecTypeOK` | `TypeOK` |
| `SpecInv` | `Inv` |
| `SpecOnlySlipsSkip` | `OnlySlipsSkip` |
| `SpecLiveIsLive` | `LiveIsLive` |
| `SpecNeverStranded` | `NeverStranded` |

| `AuthProofs` | Property |
|---|---|
| `AuthTypeCorrect` | `AuthTypeOK` |
| `OneTokenEach` | `SingleUse` |
| `RetryIsFresh` | `FreshRetry` |
| `WindowHeld` | `ChallengeWindow` |
| `RefusalsHaveReasons` | `RefusalsExplained` |

| `AppLifecycleProofs` | Property |
|---|---|
| `AppTypeCorrect` | `AppTypeOK` |
| `NoEngineLeaked` | `OneEngine` |
| `ResyncRemembered` | `ResyncOwed` |
| `EnabledIsAsShown` | `EnabledAsShown` |
| `PanelShowsStored` | `PanelShows` |
| `SharedStateKept` | `SharedStateIsOurs` |
| `IntervalRoundTrip` | any number and unit picked comes back from the seconds saved |

*Assumptions.* Only those `SyncEvents`, `SqliteStore`, `CursorSync`, `DynamoStore`, `PushHandler`, `WsHub`, `SyncClient`, `WsClient`,
`Auth`, `AccountPanel` and `AppLifecycle` name on their constants:
events are records with natural numbers, distinct events have distinct ids, and
bounds, lifetimes and ticks per second are natural numbers. Pages, chunks, pump rounds, failures before giving up,
negotiations at once, runs and ticks per second are not 0. `Tasks` is finite where rows are counted
(`DynamoStore`, `WsHub`). In `SyncClient` readings and ids start at 1: 0 is no row, and no last eventId.
`DataInvariant` and `DevicesConverge` have the hypothesis `ClocksAgree` as well: an edit is stamped later than the
version of the task it edits. The code does not see to it (`TaskStore.ts` stamps with `Date.now()`), and without it an edit is
older than the row it replaces, so the server refuses it while the device shows it; it holds if the user's clocks differ by
less than the time between an edit and the next one elsewhere. `TypeCorrect` and `QueueIsKept` do without it.

*The argument for cursors.* `CursorComplete` is not inductive. A step may deliver an answer
read long ago, so the invariant must speak of answers under way
(`AnswersComplete`): every row up to an answer's `nextCursor` is in the answer or
covered by what its reader has, and an answer has one event per task
(`AnswersKeyed`). And it must say that the counter bounds every seq (`RowsConsistent`) and
every cursor, kept or under way (`CursorsIssued`), so that a write lands above them all. A row
that is rewritten leaves the part of the log below the cursor; a row that
is not stays covered, since a device's view only grows in the order
of events. `IInv` is the conjunction of `TypeOK`, `RowIsNewest`,
`CursorComplete` and those facts; each action has a step and each conjunct it can
disturb a step under it. The refinement maps the row to the map's value: a write is the abstract
write or, if stale, a stutter.

*The argument for pushes.* That an answer is complete when a request is done says
nothing of the requests half way, so `PushInv` ties the loop together: in the loop the
subject is the account, the index is inside the batch and the partial answer names exactly
the events before the index (`RequestSound`). `PrefixOf` is `PrefixSettled` for one request. A put
by any request lets rows only move up, so it disturbs no other prefix; a duplicate is covered
because the event with its id, the same event, is in the prefix.

*The argument for the DynamoDB store.* `RowIsNewest` is inductive with the types: the condition of the put is the
order itself. `SeqsDistinct` says nothing of a seq that was allocated and not yet written, so `SeqInv` says of rows and
puts together that the counter bounds their seqs and no two are the same. A query's pages are reads of
different moments. `QueryCovers` says that what they held, with what its device has, covers every row up to
the key the query has reached, but for the late ones; so the cursor that the answer carries is as good as
one step's, and `OnlyLateMissed` holds after it. A put at or below that key is late by definition, and any other is
above everything read so far.

*The argument for the hub.* `DeviceCursorComplete` speaks of the cursor a device ends up with. `HubInv` says
the same of every place a cursor comes from: each frame under way (`WireSafe`), the connection (`CursorSafe`), and the read its
pump is waiting for (`ReadSafe`) - every row up to that cursor is with the device or in an earlier frame (`Told`).
A frame that leaves out the device's own event is right because the device has it (`OwnSafe`, `OriginSafe`).
Chunks of a batch share the rows between them in seq order, so the cursor of each covers what
was sent so far (`FollowSafe`). `NoLostWakeup` speaks of connections at rest. Its strengthening says of a pump with a read under way
that it will go on, or that what it will have read is everything announced (`CaughtUp`, `WillCatchUp`).
These are stated on values - a connection, its wire, the rows, the counter - and not on the variables, so that an iteration's
`Decide` can be followed from record to record inside one action. A push moves rows up to
places above every cursor (`RowsMove`), which keeps all of it. The connection cap counts a set that must be finite
(`RegistryFinite`). The requests are `PushHandler`'s, and `PushInv` carries over action by action.

*The argument for the client.* `QueueKept` needs to know why an answered batch may be marked: of a push under way, whatever is no longer
left is covered by what the server has (`PushCovered`), and puts let that only grow. `Converged` speaks of a
device at rest; `DataInv` says of every place a version of a task can be in what it owes the row it will meet. Two
parts are about the row alone: it says its event if it has one (`RowTold`), and the last remote event named by `lastId` is
not newer than the row (`IdKnown`). Downwards, what a pull has left is covered by the server (`PullCovered`);
a task whose seq a cursor has passed is in the row, or in something newer there (`CursorMerged`), and
for the cursor an answer carries it is there or still left in that answer (`PullMerged`), so that pulls may overlap, fail, and end in
any order. Upwards, a row has an edit on its way to the queue (`Editing`), or an event as new as itself that is queued or that the
server has had (`Vouched`, `Accounted`). At rest the row is then no older and no newer than the server's event, and the two ids are the
same, so it is that event and the row says it. The steps that matter are `Compare` (an event passed over is no newer
than the row, or counted, `PassedOver`) and `Replace`, which may meet a row that has become newer since `Compare`: either
that is counted in `mismerged`, or both say the same and the row keeps its event. That a pulled event says something at all is `AllSaid`.

*The argument for the WebSocket client.* Three invariants. `OwnInv`: unless an orphan was made, the
only socket in use is the one in `ws` (`OnlyOurs`), a hidden or stopped transport has neither socket nor timer (`Parked`), and
a live phase has an open socket (`LiveOwn`). `Armed`, whatever has slipped: a visible transport with a URL that has not given up has a socket, a timer or a
negotiation. And `SkipInv`: without a slip, every event up to the cursor is applied (`KeptTo`), and
the same of each place a later cursor comes from - the buffer (`BufferSafe`), an open
socket (`SocketsSafe`), a pull, asked or answered (`PullsSafe`).

*The argument for tokens.* `TypeInv` adds to the types that only an issued challenge has a
row. `Spent` says what happens to a challenge once consumed: it has no row (`Gone`), at most one request
holds it (`Alone`), and that request has not been answered (`Held`), so it has bought at most one token
(`Bought`). Consuming asks for a row, and a new challenge is numbered above all consumed ones, so neither store can
grant one again. `Renewed` follows a second try through its refresh: its challenge, once it has one, is later
than its first refusal, and its token is that challenge's. `WindowStep` needs that a handler's clock was read in the past
(`InTime`) and that rounding to seconds is monotone (`SecondsMonotone`): DynamoDB's strict comparison
of whole seconds never grants late, and takes less than a second.
`RefusalsExplained` looks back to when a request left, so `Dating` keeps what was true then: a DID-JWT bears the
client's time of that moment (no two calls share a challenge, `OwnChallenge`), a cached token had more than the slack left, a new
one lives from then or later. Each bound is that k whole seconds between two instants take k seconds (`SecondsApart`).

*The argument for engines.* `OneEngine` is not inductive: it does not say that a run which is still starting was
asked for. `StartsFit` adds that the last run is under way only while sync is enabled, and that what runs or is about to
has words. Then every action either begins a generation, which stops the one engine there can be (`StartInv`), or
leaves `running`, `timers` and `words` of every engine as they are (`Running`, `BecomesRunning`), or arms and disarms timers
together with the interval or the visibility they depend on. The panel's own steps matter only in what they leave alone (`Keeps`).
`ResyncOwed` goes with them: only the end of a resync takes the flag down, and one older than `owed` leaves its slip.

*The argument for the sheet.* `EnabledAsShown` compares storage with a screen, and what joins them is the call under way.
`SheetInv` says that without an overlap there is at most one, that it is for the stored words, and that the sheet has
confirmed nothing yet (no generated step, no tick); when it has answered, what the sheet has confirmed is stored. A
test vouches only for a URL where a backend answers, and any edit withdraws it. Only a commit closes the sheet and
begins a generation of starts in one step (`OnlyCommit`).

*The argument for the panel.* `PanelShows` is about a panel that awaits nothing, so `PanelInv` says what it will show
when an answer comes. `GateInv`: words on the screen passed the gate or came in through this panel, and a gate that is still open
is about the account shown, or that one is known already. `AccountInv`: the account shown is the stored one, or a derivation
or a forget under way will make it so, unless a forget or two overlapping calls slipped. `PrefsInv`: toggle, URL and interval are
those of the preferences, unless an interval waits for its debounce. The interval is what `IntervalRoundTrip` gives back.

*The argument for what engines share.* While sync is enabled the enable sheet is closed, so that only
a forget changes the stored words (`KeyInv`). `OursInv` then says, unless a listed slip happened: a start under way reads what is stored
(`Starting`); as long as no engine has been made and no resync is due nothing runs that could interfere, and cursor and queue are
those of the stored words and URL (`Fresh`, the state after a page load); and the engine that runs is of the stored words and URL, has the
flag before it until its reset, and past it cursor, queue and its own pull are of its account and backend
(`EngineFits`). A resync that is due is always the running generation's (`owed = runId`). Stopped engines go on, but one that moves
the cursor or empties the queue after another's reset has slipped (`stale`).

*On the method.* Each strengthened invariant was an invariant of a TLC run before it was proved. Greatest and least
elements of finite sets (the last seq of a chunk, the newest of some events) come from a least counterexample and the library's
well-foundedness of the naturals and of the subsets of a finite set; no theorem needs an induction over data.

*Only model-checked.* Liveness (`EventDelivered`, `DrainEnds`, `FanOutDelivered`, `EventuallyAgrees`, `CatchesUp`, `BecomesLive`,
`ResyncDone`), which is out of the prover's reach. The three violations are counterexamples of an instance.

## 5. Findings and observations

Three runs show a disagreement between code and documents:

1. `DynamoOverlap`: of two overlapping push invocations the one with the lower
   seq may write last, and a device that pulled in between never receives
   it (`dynamo-store.ts:47`; `docs/sync-protocol.md:95` and the comment at
   `dynamo-store.ts:25-27` say gaps never cause a missed event). `OnlyLateMissed`
   in run `DynamoStore` shows that nothing else can be missed.
2. `SyncClientMerge`: `applyRemoteUpsert` compares in one transaction and overwrites
   in another; an edit in between is replaced by an older event
   (`TaskStore.ts:401`, `docs/sync-protocol.md:86`). If the overwrite comes before `enqueue` has read its snapshot, the queue row is built
   from the older contents and the edit is gone everywhere; otherwise its own event comes back
   with a later pull. `Converged` and `EventuallyAgrees` therefore exempt the tasks in `mismerged`.
   The shortest behaviour is this one; the tie-break of the first observation below breaks the same rule.
3. `SyncClientResync`: the resync discards the queue, and then skips every task
   the pull returned, although the local row may be newer
   (`SyncEngine.ts:316`, against the comment at 306-307).

Met while modelling, kept out of the list because the wording of the documents or the use in
the code leaves room:

* `shouldReplace` takes `lastEventIdByTask` for the eventId of the row (`TaskStore.ts:452`), but an edit by the user leaves that map
  alone. When two devices edit a task in the same millisecond, the device whose event loses on the server also drops
  the winner if its eventId is below that of the last remote event before the edit, and keeps its own version for good, until
  the task changes again or a full resync after a reload. `Converged` finds this when `Compare` no longer adds such tasks
  to `mismerged`.
* An edit of a task that another device has just deleted, made before the list has been read again, brings the task back
  (`TaskStore.ts:499`).
* An event pushed again while it is the current row is answered `rejected`
  (`sqlite-store.ts:160`), though nothing superseded it (`docs/sync-protocol.md:131`).
  The client treats both answers alike.
* With two push frames pipelined on one socket, the fan-out of the first may read
  what the second has just written and send it to its originator
  (`docs/sync-protocol.md:617-618`). The client sends one at a time.
* An edit made before the engine has installed its builder, or cut off between its
  transactions, is never queued (`TaskStore.ts:458`; `README.md:52` says every local change is queued).
* A queue of more than 500 rows is sent whole and refused with 400 each time
  (`SyncEngine.ts:293`, `api.ts:22-25`), so `EventuallyAgrees` needs `MaxBatch` at
  least as large as the queue.
* Deletions made while sync is off are not uploaded by the resync: `liveSnapshots`
  holds live tasks only.
* A resync of a stopped engine clears the flag a newer enable has set (`SyncEngine.ts:200`). The new engine resyncs
  anyway, but if the page goes before it is done, the next one does not, although "the engine consumes (and clears)
  the flag on its next start" (`SettingsPanel.tsx:56-57`): the slip `cleared`.
* A URL saved in the panel (`SettingsPanel.tsx:160`, or by a ping, `SettingsPanel.tsx:125`) neither restarts the engine nor asks
  for a resync: from the next page load on the cursor of the old backend is used with the new one (`url`). A
  ping answered late saves its URL over one saved meanwhile (`ping`).
* Generate and Validate stay enabled while a derivation runs. Two calls side by side may end in either order, so that
  other words are enabled than were ticked as backed up; so are words under validation if Enable is clicked for those
  validated before (`EnableCloudSyncSheet.tsx:67-107`). These are the exemptions of `EnabledAsShown`. Words edited in the text area after a validation are
  not looked at again either, but neither are they enabled.
* Forgetting awaits the database before it turns sync off (`SettingsPanel.tsx:132-141`): a page load in between
  leaves sync enabled without words (`forget`). A forget clicked while a derivation runs is followed by the
  account's return to the screen, not to the storage (`overlap`).
* An edit sealed while the user switches accounts lands in the new account's queue and has every batch refused
  with 403 until the next resync discards it (`sealed`).
* `openSocket` gives `this.ws` a new socket without closing the one it held
  (`NegotiatingTransport.ts:354`). After a network change during a connection attempt two sockets feed
  one buffer; the buffer was cleared for the new one, so an events frame of the
  older socket carries the cursor past what the clearing discarded; its close
  handler nulls the live socket's field, and hiding the tab leaves it open. These are the
  `orphan` exemptions of `OnlySlipsSkip`, `LiveIsLive` and `NeverStranded`
  (`docs/sync-protocol.md` 12.4, 12.5). No shipped build wires this class yet.
* `pull()` empties the buffer before the engine applies its answer
  (`NegotiatingTransport.ts:193`); if that fails while the socket stays live, the next frame's
  cursor passes the lost events: the `dropped` exemption.
* After a failed `/v1/meta` no timer is set: the client polls until the next
  signal (`NegotiatingTransport.ts:256-259`), so `BecomesLive` exempts `~url`.
* A challenge that is never used stays in the SQLite table for good: only `consumeChallenge`
  deletes rows (`sqlite-store.ts:196-205`). DynamoDB removes its items by their ttl.
* SQLite grants a challenge through its `expiresAt`, DynamoDB until the whole second of it
  begins (`dynamo-store.ts:161`); `ChallengeWindow` is what both promise.
* `docs/sync-protocol.md` 8.2 lists the challenge before the lifetime; the handler checks the lifetime first
  (`token.ts:68`, `token.ts:75`), so a DID-JWT with a wrong date does not use its challenge up.
* After a rotation (`backend/aws/README.md:85`) warm Lambdas keep the old key until they end. A push
  may be refused twice, once with a token of either key; the next timer tries again.
* A client whose clock is ahead by more than the tolerance of 60 s never gets a token.
* A push frame that the hub refuses as a whole (400, 403) is acknowledged as if every event were rejected, and
  the engine takes rejected rows off its queue (`SyncEngine.ts:295`); over REST the same refusal throws and they stay.
  No engine pushes over a socket today (`App.tsx:86`).
* `updatedAt` is compared as a string by the server and as a `Date` by the client. Every client of the repository writes
  milliseconds, where the two orders agree.
* A full resync that starts while the socket is live pulls an empty answer
  (`NegotiatingTransport.ts:199-203`).

## 6. Plan

Done: A (`SyncEvents`, `LwwMap`, `SqliteStore`, `CursorSync` and its proofs,
`DynamoStore`), B (`PushHandler`), C (`WsHub`), D (`SyncClient`), E (`WsClient`), F (`Auth` and its proofs),
G (`AccountPanel`, `AppLifecycle` and their proofs), H (proofs about `DynamoStore`, `WsHub`, `WsClient` and the
rest of `AppLifecycle`), K (proofs about `SyncClient`).

| Step | Module | What | Runs | Proofs |
|---|---|---|---|---|
| I | `SyncClient` | pushes over the socket, `moveActive` | the existing ones | |
| J | pure algorithms | stored-task normalisation, due status | one | |

## 7. Not modelled

* Cryptography: keys, signatures and sealing are pure functions; an event's payload is a function of its id.
* HTTP routing, configuration, Lambda wiring, the design-token tooling: no
  state the system reads back.
* User interface: lists, drag and drop, archive and what is only drawn. Handlers of the settings panel and of the enable sheet are modelled.
* Several tabs of one browser: they share storage and queue without any lock, and nothing in the code
  coordinates them. Failing IndexedDB writes of the words, and the untick of a check box, which only undoes a tick.
* The macOS client: it follows the web client call by call over GRDB, with
  synchronous transactions; its differences come last.
* The WebSocket upgrade and ping frames (a silent socket is `Drop`).
