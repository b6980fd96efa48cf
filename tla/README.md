# logger_server: TLA+ models, checks and proofs

This directory holds a formal model of *logger_server*, the self-hosted log
collector of this repository: an HTTP server (axum on tokio) that takes log
records from devices, stores them in SQLite, tails them live over Server-Sent
Events and fires webhook alerts. Paths below are relative to the repository.

## 1. Inventory

| Component | Source | State it keeps | Operations |
|---|---|---|---|
| Ingest handlers | `src/handlers/ingest.rs` | none of their own; one task per request | `ingest_one` (202, or `?sync=true` 201), `ingest_batch`, `dispatch`, `to_record` |
| Write queue and id counter | `src/store/mod.rs` | `next_id` (atomic), bounded channel, `draining` flag | `next_id`, `enqueue`, `enqueue_sync`, `send`, `WriterHandle::shutdown`, `open` |
| Writer thread | `src/store/writer.rs` | the batch, the writer connection | `run` (main loop, retention, final drain), `commit_batch`, `flush_seen` |
| Retention | `src/store/retention.rs` | the `logs` table | `prune`: age cap, row cap |
| Hub | `src/hub.rs` | ring of the last frames (tokio broadcast) | `publish`, `subscribe` |
| Live tail | `src/handlers/stream.rs` | per connection: receiver, `high_water`, replay | connect, replay, deliver, evict, end on shutdown |
| Process | `src/main.rs`, `src/lib.rs` | the shutdown watch channel | start, signal, `server.await`, flush, exit |
| Reader | `src/store/reader.rs`, `src/handlers/query.rs` | connection pool, permits, export permits | `with_conn`, pages, `context`, `stats`, `count`, `since_id`, `export` |
| Schema | `src/store/schema.rs` | the database file | columns, search index and its backfill, `max_id` |
| Alert engine | `src/alerts/engine.rs` | compiled rules; per rule the hits and `last_fired_at` | `observe`, `tally`, `reload` |
| Alert rules | `src/store/alerts.rs`, `src/handlers/alerts.rs`, `src/state.rs` | `alert_rules` table | create, enable, delete, test, `reload_alerts` |
| Alert delivery | `src/alerts/delivery.rs`, `guard.rs` | one consumer of a bounded channel | `run`, `deliver` (attempts), `guard_url` |
| Devices | `src/store/devices.rs`, `src/handlers/devices.rs`, `src/auth/` | `devices` table, token cache, pending `last_seen` | create, revoke, authenticate, `note_seen`, flush, load |
| Sessions | `src/auth/session.rs`, `src/handlers/auth.rs` | session table with expiry | login, `is_valid`, logout, purge |
| Rate limiter | `src/middleware/ratelimit.rs` | key set | check, janitor |
| MCP | `src/mcp/` | none | JSON-RPC tools over the operations of the others |
| Dashboard | `static/*.js` | list of logs, search results | load, tail, search, clear |

How they interact. A handler allocates an id, publishes the record's frame to
the hub, shows it to the alert engine, and only then tries to queue it; the
writer thread takes items off the queue, commits them in one transaction, and
answers the `?sync=true` handlers through a oneshot channel. Live tails read the
hub's ring and, on a reconnect with `Last-Event-ID`, the table. All of them meet
the process: shutdown ends the tails, waits for the handlers, then lets the
writer drain.

What is hard here: ids are allocated, broadcast, queued and committed in four
different orders; a crash keeps the table and forgets counter, queue and ring;
a transaction fails for many clients at once; a queue fills in the middle of a
batch; shutdown races all of it; a replay is read while the same records arrive
live. Tokens live in a table and in a cache that a crash separates; queries
share few connections and see one table per statement while others commit and
prune; exports wait for clients on threads the queries need too. `PROJECT.json`
lists each hazard at its line.

What makes each component correct: *ingest*: each answer is true, each counter
counts once. *Writer*: an accepted record is committed, rolled back with its
batch, or lost with the process, exactly once; it is never stuck; a redeploy
loses nothing. *Ids*: no two records meet on one id while one of them is stored
or on its way there. *Live tail*: nothing twice, nothing missed, ends on
shutdown. *Alerts*: a rule fires when its threshold is met within its window
and not within its cooldown, and edits take effect. *Devices*: what was granted
works, what is revoked stops working and never works again, activity reaches its
row. *Sessions*: each lasts as long as it was given, and a login is refused only
when the table is full of valid ones. *Reader*: the pool does not grow, a query
always ends, and an answer made of several statements shows what was stored all
the while. *Schema*: what is stored can be found. *Dashboard*: the newest search
is the one that is shown.

## 2. Modules

| Module | What it is |
|---|---|
| `LogFeed` | Abstract specification of the write path: issue, broadcast, accept, persist, forget, halt, resume. |
| `Ingest` | The write path in detail: handlers, queue, writer thread, retention, process. Implements `LogFeed`. |
| `LiveTail` | Tail connections, over `LogFeed` (which it EXTENDS), so independent of how the write path works inside. |
| `Alerting` | Rules, engine and delivery task: the table and its administrators, matching, window, cooldown, queue, webhooks. |
| `Life` | The process and the clock, which the next two share. |
| `Devices` | The registry: table, token cache, pending activity, administrators, calls, the writer's flushes. Implements `Tokens`. |
| `Sessions` | The table of dashboard sessions. |
| `Tokens` | Abstract specification of the registry: tokens are granted, honoured, and dropped for good. |
| `Access` | Composes `Devices` and `Sessions` over one `Life`: who may administrate is what a session, or the admin token, says. |
| `Readers` | The read path: pool, queries statement by statement, exports, beside a writer. |
| `SearchIndex` | The statements of a start on an older file, and stops between them. |
| `Dashboard` | The search box of the page and answers that come late. |
| `MCIngest`, `MCLiveTail`, `MCAlerting`, `MCAccess`, `MCReaders`, `MCSearchIndex`, `MCDashboard` | Instances for TLC. |
| `IngestProofs`, `LiveTailProofs`, `AlertingProofs`, `AccessProofs`, `ReadersProofs` | Theorems about the modules of those names. |
| `AccountProofs`, `FeedProofs` | More theorems about `Ingest`, on top of `IngestProofs`: its answers and counters; that it implements `LogFeed`. |

### Ingest and the code

A record is `<<r, k>>`, the k-th of request `r`; of its content only one bit is
kept, whether `to_record` accepts it. `pc[r]` is the next operation of the
handler, one action per operation on shared state:

| Action | Code |
|---|---|
| `Receive`, `RejectEarly` | the handler starts; an empty batch and an MCP call without message end before an id is taken |
| `Allocate` | `next_id`, then `to_record`, whose refusal has used up its id |
| `Publish`, `Observe` | `hub.publish`, `alerts.observe`; `write_log` skips the second, as the code does |
| `CheckDraining`, `Enqueue`, `Shed` | `Store::send`: the flag, then `try_send`; with the counters and the way each entry point goes on |
| `Await`, `Abandon` | `wait.await`; the client goes away while waiting |
| `Recv`, `Expire`, `AfterExpire`, `Fill`, `FillDone` | the loop of `run` and its final drain; the flag is read after the timeout, in a step of its own |
| `Commit`, `CommitFails`, `Notify`, `NotifyDone` | `commit_batch`: one transaction for the batch, then the acks one by one |
| `KeepHouse` | retention at the end of a turn, when due; either DELETE may fail |
| `Boot`, `Signal`, `ServerDone`, `Exit`, `Crash` | `Store::open` (counter from `MAX(id)`), the signal, `server.await`, join, kill |

Two details a reader may miss. The signal stops the listener, but a connection
accepted before it may still deliver its request, so `Receive` stays possible
until the server is done. And only the order of steps in `main` protects the queue: the
draining branch of `send` is never taken (`CheckDraining` has no such branch)
because the flag is set when no handler is left.

History variables (`took`, `stored`, `failed`, `lost`) say what happened to each
record; no action reads them.

Not in the model: the `Internal` branch of `send` (the writer's receiver lives
until the process ends), `first_id`/`last_id` of a batch ack, `flush_seen` (part
of Devices), WAL checkpoints (no row changes), power loss under
`synchronous=NORMAL` (a kill loses no committed transaction). The text answers
of `write_log` are the statuses 202, 400 and 503.

### LiveTail and the code

A record is a number, in broadcast order over all restarts; `feed` is every
frame since the start, `pos[c]` where the receiver of client `c` is, and a
receiver lags when the frame it is at has left the last `HubCap`. `HubCap` is
the size of the ring, that is the configured capacity rounded up to a power of
two as tokio does. It is a field of `setting`, which is chosen once from the
constant `Settings`; the other, `use`, says under which circumstances the
service is used: "any" interleaving of handlers, writer and clients, records
"in turn", each committed before the next is issued, or "settled", where
clients in addition connect only while nothing waits for its commit and read
what they are sent. The code has no such modes; properties that need a
circumstance name it. `Open` is the shutdown check and the subscription, `Query`
the replay with `high_water`, `SendReplay`, `Deliver`, `Skip`, `Evict`,
`EndOnShutdown` the arms of the body's loop in their biased order. `Stall`: a
client that does not read keeps its body from being polled. Retention may delete
any rows at any moment (`Forget` of `LogFeed`). `due[c]` is history: the records
that were broadcast under an id above the `Last-Event-ID` of `c`, which is all that
a client can ask for.

### Alerting and the code

A rule is its id, 1, 2, ... as AUTOINCREMENT gives them out (never again after a
delete); whether a log matches it is a free choice per pair, and threshold,
window and cooldown are constants of the rule. `Create`, `SetEnabled` and
`Delete` are the statements; `List` (or `ListFails`) and `Install` are the two
halves of `reload_alerts`, which runs on the admin connection and then under the
write lock of the rules. `Observe`, `Mismatch`, `Tally`, `Send`, `Observed` are
`AlertEngine::observe`: it holds the read lock from the first rule to the last,
so `Install` waits for it, while two logs interleave rule by rule, each tally
under the lock of its rule. `Take`, `Post`, `Record` are the delivery task;
`Test` is the test endpoint, whose lookup and `try_send` are one step since an
event may meet a deleted rule in the queue anyway. `gen`, `fired`, `sent`,
`unrecorded` and `unlisted` are history.

Times are integers, and `ts` is any of `Times` for each log: clients may set it to
any i64, and handlers observe in another order than they read the clock. A
`last_fired_at` of 0 stands for "never", as in the code, so a rule that has not
fired is silent towards a `ts` below its cooldown; `Clock` holds such a time.
Sums and differences of times are taken not to leave 64 bits. Not in the
model: poisoned locks, a TLS client that cannot be built (which ends the task),
restarts (everything but the table starts over), payloads and signatures.
`Alerting` meets the write path only in `Observe`, which is the operation of the
same name in `Ingest`; neither waits for the other, so they are checked apart.

### Devices, Sessions, Access and the code

A device is the number of its row. Its token is random, so the number stands for
the token, for its digest and for the key of the cache. `admin[a]` is where a
request on the admin connection is; `with_admin` holds the lock of that
connection until its closure returns, and the change of the cache is inside:

| Action | Code |
|---|---|
| `Insert`, `CacheInsert` | `create`: the row, then `by_hash`; the 201 with the token follows |
| `SelectHash`, `Update`, `UpdateFails`, `Evict` | `revoke`: its SELECT, whose error `.ok()` turns into "no such row"; its UPDATE, which may fail or meet no active row; the eviction |
| `Authenticate`, `NoteSeen` | `require_device` and `note_seen`: the time is read first and stored after other calls may have noted theirs |
| `TakeSeen`, `TakeLast`, `FlushOne`, `FlushFails` | `flush_seen` in the loop of the writer and after its last drain: the map is emptied first, then each row is an UPDATE of its own |
| `Mint`, `Refuse`, `Revoke`, `PurgeExpired` | `Sessions::create` (the purge of a full table included), `revoke`, `purge_expired` |
| `Login`, `Logout`, `Janitor`, `Boot`, `ServerDone`, `Exit`, `Crash` | the handlers, the janitor of `main`, `Store::open` with `load`, and the ways a process ends |

An authorised request is one whose cookie names a valid session, or that carries
the admin token (`Scripts`). Authorisation and the wait for the admin lock are
one step; a session that ends during the wait makes no difference to any
property, since scripts are authorised at all times.
A kill may come between any two statements; `kept`
and `noted` are history, and no guard reads them. A poisoned lock is not in the
model, nor is a `create` that is refused for its name.

### Readers and the code

A row is its id; whether it is one of the `Hits` of the filters or within the
`Window` of the stats, and its `Device` and `Tag` (the `name` of a log), are
constants of the id, and all other columns are left out. A breakdown by device or
by name is the set of rows its groups count (`Top`): the groups in the order of
their size, of groups of equal size the one that SQLite takes first, and only
`TopNames` of them, the LIMIT 50 of the code. A statement sees one table (WAL), and no query opens a
transaction, so `Run` is one statement of the query, and the writer may `Commit`
or `Prune` between two. `with_conn`: `Ask`, `Acquire` (the semaphore), `Open` or
`OpenFails` (a pooled connection, or a new one), `Run`, `RunFails`, `Panic`, then
`Return`, whose two steps are the push to the pool and the drop of the permit.
`Cancel` is the timeout of the route, or a client that leaves, while the query
waits for its permit; later the closure owns the permit and runs on. A "walk" is
a client that asks for page after page with the last id it saw; each page is a
request of its own. Exports hold a permit of their own, open a connection of
their own and send chunks with `blocking_send`, so they hold a blocking thread
while their client does not read; `snap` is the table their cursor sees. Pages
and chunks are sets of rows: within one, the order is that of its SELECT.

Left out: what a `count` answers, the encodings. Assumed of the build: panics unwind and are caught
(`CatchPanicLayer`), as `Cargo.toml` and `routes.rs` have it. Webhook deliveries
resolve names on a blocking thread too; `main` gives the runtime four threads
beyond `reader_conns`, and the assumption of the module is that exports at their
limit leave the pool its threads.

### SearchIndex, Dashboard and the code

`SearchIndex` is `open_writer` statement by statement: the columns an older file
lacks, `build_fts` (does the index exist, create it, create its triggers,
backfill if it did not exist), then serving. `Stop` is a kill or a statement that
fails, which makes `open` return. `Dashboard` is the part of `app.js` that
searches: `runSearch` is cut at its two awaits, the response and its body, and
the callbacks `Input`, `Timeout`, `Filter`, `Clear` run in between. Each of the
two has one property, and the code violates it (section 5).

## 3. What the runs check

| Run | Instance | Shows |
|---|---|---|
| `ingest_any` | 2 requests with `?sync=true`, as batches of up to 2 or as `write_log`, 4 bodies, queue 1, MAX_BATCH 2, both prunings, 2 lives, 1 kill | `TypeOK`; `AnswersAreTrue`: every status and count is true of the queue and of the table; `MetricsAgree`: when no handler runs the counters are exact; `Accounted`; `IdsInv` (the inductive invariant), `StoredAsBroadcast`, `NeverOverwrites`, `RedeployLosesNothing`, `ImplementsLogFeed` |
| `ingest_live` | 2 requests, plain, `?sync=true` or as batches of which the second record may be invalid, a shutdown | `SyncIsAnswered`, `EveryRecordSettles`, `ShutdownEnds`; `AnswersAreTrue`, `MetricsAgree` for a batch that is refused in its middle |
| `ingest_reuse` | 2 lives, age cap | violation of `NoIdReuse` (below) |
| `tail_any` | 3 records, 2 connections, 2 lives; "any" use with a ring of 2, or "settled" use with a ring of 1 or 2 | `TypeOK`, `OncePerConnection`, in any order of broadcast and commit; `NoDuplicates`, `NothingMissed`, `SkippedWereReplayed` in settled use, over restarts, kills and pruning; `StreamsEnd` |
| `tail_gap` | 2 records, a reconnect at any moment | violation of `NothingMissed` (below) |
| `alerts_any` | 2 logs with any of 3 times, one of them below the cooldown, 2 rules, 1 administrator with 2 edits, a test event, queue 1 | `TypeOK`; `CooldownHolds`, `CountedOnce`: the bookkeeping of `tally` for any timestamps; `RulesTakeEffect`; `FiresAreCounted`: `fire_count` accounts for every alert; `QueueMovesOn` |
| `alerts_future` | 2 logs, 10 cooldowns apart | violation of `QuietOnlyInCooldown` (below) |
| `alerts_stale` | 2 administrators | violation of `RulesTakeEffect` (below) |
| `access` | a browser and a script, 2 devices, 2 calls, 2 lives, TTL 1, a session table of 1 | `TypeOK`; `RevokedIsOut`, `CreatedWorks`: tokens work and stop working as they were answered; `ActivityIsKept`; `SessionLasts`, `RefusedOnlyWhenFull`; `ImplementsTokens` |
| `reads` | a walk, context or stats query and a count on a pool of 1, one export, 3 ids of which the filters select 2, 2 devices, 2 tags, breakdowns of 1, 2 changes | `TypeOK`; `ConnectionsBounded`; `WalkShowsAll`, `ContextIsGapless`, `StatsAgree`, `ExportIsWhole`: what answers show of a table that changes under them; `QueriesEnd` |
| `search_killed` | a file with one row, 2 starts | violation of `SearchIsComplete` (below) |
| `search_late` | 2 searches | violation of `NewestWins` (below) |

Each property of a passing run has a mutant in `PROJECT.json`: a plausible slip
in one mapped definition (defined beside it and marked `mutant`) under which TLC
finds the property violated.

**Bounds.** Two requests are enough for every pair of handlers to interleave;
what a third would add is a second competitor for the same slot or id, and the
theorems of section 4 cover any number. A queue of one is full after
one record, so the boundary is met within a batch of two; `MaxBatch` 2 lets one
transaction hold records of two clients and also leaves a record for the next.
A plain request takes the steps of a batch of one, and a batch that is refused in
its middle behaves up to there as any other, so `ingest_any` leaves both to
`ingest_live`.
Two lives and one kill reach every restart with a surviving, pruned or lost
tail. A ring of one makes eviction happen with two records, a ring of two lets a
replay and the ring overlap; three records leave one before and one after the gap. `MaxBoots`, `MaxCrashes`, `MaxLen`,
`MaxFrames`, `MaxConns`, `MaxRestarts` are bounds of the model; `QueueCap`,
`MaxBatch`, `MaxRows`, `HubCap`, `MaxReplay` are parameters of the program.
In `Alerting` the rules have thresholds 2 and 1 and a window and a cooldown of
one time unit: two logs then fire one rule twice, or fill the window of the
other, and a queue of one is full with the second alert. The times are two
instants one unit apart and one from a clock that was never set. `MaxRules`, `MaxEdits`,
`MaxTests` are bounds.
In `Access` two administrators are enough to race for the lock, one of each kind
to have requests whose session has ended and others that have none; two devices
let a flush write one row and lose the other; with a TTL of one, two instants and
a table of one, a session expires unpurged, and a login meets a full table of
each sort. Two lives show a load after every kind of end. `MaxDevices`,
`MaxLogins`, `MaxNow`, `MaxBoots` are bounds, `TTL` and `MaxSessions` parameters.
In `Readers` a pool of one makes the second query wait, or find the pool empty
after a panic; an export with chunks of two rows and a channel of one blocks with
three rows stored; pages of one row make a walk of three requests, with a commit
or pruning between any two of them. Of three rows two are of one device and two of
one tag, other ones; a breakdown of one group then leaves one out, and a change
between two statements may turn their order round. `MaxChanges` is a bound.
The configurations of all but Ingest switch deadlock checking off since the
bounded supply of records, connections, logs, edits, calls or requests runs out;
Ingest ends in `Over` instead.

**Fairness.** A handler that can take a step takes it (the runtime polls every
woken task), and so does the writer thread (the OS schedules it, and
`recv_timeout` wakes it without an item). `ServerDone` and `Exit` are fair
because `main` is a single task that waits for exactly that; the first presumes
that tails end, which `StreamsEnd` shows for clients that read. Nothing obliges
a request, a signal or a client to come. For a tail, `Serve(c)` is strongly fair:
polling it is enabled again and again while the client reads, even if new frames
and drops intervene. A client that stops reading forever does hold the shutdown
(only under "any" use does a client stall); this is a property of the code, which
has no write timeout.
In `Alerting`, the delivery task is polled and each post ends (a 10 s timeout),
and a handler in the middle of an observe or a reload goes on.
In `Readers`, `Reader(q)` is weakly fair: the semaphore of tokio is first come,
first served, a blocking thread runs what is queued, and a statement ends.
Nothing is asked of exports, whose clients may stop reading forever: that queries
end all the same is what `QueriesEnd` says, and what the threads beyond
`reader_conns` are for. `Access` has no liveness property.

## 4. What is proved

`IngestProofs` proves, with TLAPS, for any finite or infinite set of requests,
any set of bodies, any queue and batch size, any number of restarts and kills:

* `TypeCorrect`: `Spec => []TypeOK`. In particular the queue never exceeds its
  bound, nor a batch `MAX_BATCH`.
* `IdsStayApart`: `Spec => []IdsInv`.
* `StoredAsBroadcastAlways`: a row is the record broadcast under its id.
* `RowsAreFinal`: `Spec => NeverOverwrites`. `INSERT OR REPLACE` never replaces.
* `Invariance`: `Spec => []Inv`, `Inv == TypeOK /\ IdsInv`, from which the others follow.

Assumptions: `KindsAssumption`, `BodiesAssumption`, `BoundsAssumption` of
`Ingest`, evaluated by TLC in every run that extends it.

The argument. `NeverOverwrites` is not inductive: that a commit meets no row of
the same id depends on every id on its way there. So the invariant follows an id
from the counter to the table. `IdsIssued`: rows, frames and ids in hand are at
most `nextId`, so a fresh one is new. `HandsApart`: an id a handler holds is no
other handler's, not pending and not a row. `PendingApart`: pending ids differ
from one another and from rows; this is what the commit uses (`UpsertApart`,
`BatchUpsert`). `BroadcastFirst`: what is past the broadcast is in the feed,
once, under its id, which makes `StoredAsBroadcast` survive the commit.
`OffWhenDown` and `BatchWhere` give the restart what it needs: while the process
is down nothing but rows is left, and `MAX(id)` bounds those, so the seed is safe
although it may lie below ids issued before. `InBody` ties the handler's place
to its body and makes items typed.

Each step has its lemma (`AllocateApart`, `PublishApart`, `EnqueueApart`,
`CommitApart`, `BootApart`, ...); steps that neither issue, broadcast nor write
are handled once by `StillApart`.

`AccountProofs` proves the rest of the invariants the runs of `Ingest` check, from
the same assumptions:

* `Accounts`: `Spec => []AccountInv`, from which the others follow.
* `AnswersHold`: `Spec => []AnswersAreTrue`; `AccountedFor`: `Spec => []Accounted`.
* `RedeployIsLossless`: `Spec => []RedeployLosesNothing`.
* `MetricsHold`: `Spec => []MetricsAgree`.

The argument. An answer is a claim about records, so the invariant says where
each of them is. `Accounted` places an accepted record in exactly one of the
queue or batch, the committed, the rolled back and the lost; `AcksSettled` says
that a `?sync=true` waiter is told only what has become of its item, and
`AllTruthful` ties how far a handler has come in its body to what it has queued,
dropped and counted. That a process ends with nothing pending needs `WriterPlace`: the writer
ends its loop only after the last handler has returned, with queue and batch
empty, since `main` sets the flag after the server is done, and the writer reads
it after an empty queue and drains once more. That is also all that
`RedeployLosesNothing` rests on. `Metrics` compares counters with cardinalities of
finite sets of records, those of the requests that have returned and those that
are under way.

`FeedProofs` proves `IngestImplementsLogFeed`: `Spec => ImplementsLogFeed`, so
what is shown of live tails over `LogFeed` holds over the write path as it is.
The mapping computes the ids in hand and the pending records from the places of
handlers, queue and batch (`HandsMove`); `Allocate`, `Publish`, `Enqueue`,
`Commit`, `CommitFails`, `KeepHouse` and the ends and starts of the process are
steps of the abstract log, and every other step is `Unseen`. It uses `WriterPlace`
too: a clean exit has to find nothing pending.

`LiveTailProofs` proves, for any clients, settings, records, connections and
kills:

* `TailInvariance`: `Spec => []TailInv`; `TailTypes`: `Spec => []TypeOK`.
* `SentOncePerConnection`: `Spec => []OncePerConnection`, in every use.
* `SentOnce`: `Spec => []NoDuplicates`, for records in turn.
* `SkipsAreSafe`: `Spec => SkippedWereReplayed`, for records in turn.
* `NothingIsMissed`: `Spec => [](Settled => NothingMissed)`, *if no replay is cut
  at `MAX_REPLAY`* (`MaxFrames <= MaxReplay`). Records in turn are not enough; the
  run `tail_gap` shows why.

Assumption: `TailAssumption`. The argument of the first three: a frame is skipped by its id, so ids have to stand for records. `LogInv`
is what the log gives for that, one frame and one row per record, under the id
it was broadcast with. `ConnInv` then splits what a connection has sent at the
high-water mark: lines of the replay, sent or in the outbox, are not above it,
live lines are, and they lie before the receiver in the feed. `SentOnce` is about
all connections of a client, and about ids that a kill makes the counter give
again. While records come in turn, at most one is on its way (`OneAtATime`) and
the feed ascends (`Ascending`); so everything a client got is at most its
`Last-Event-ID` under whatever id the log, the feed or the replay still has it
(`Behind`, `OrderInv`).

The last two follow what a client is owed: kept records it is due and has not
received. `InLine`: with records in turn, rows, buffer and the record in a handler's
hands are in the order of their ids, so what is not yet a row is above every row
and above a high-water mark that came from one. A frame within the mark is
therefore received, in the replay, or kept no more (`SkipInv`). `OwedInv` adds that
what is owed is above `Last-Event-ID`, so that the next connection can ask for it,
and that it is ahead of the receiver or in the replay while there is one. Sending a
line keeps that only because the line is the lowest of the replay, or the replay
is done and the feed ascends. `due` makes the exception of section 5: an id that is
given a second time is not above a `Last-Event-ID` that already passed it.

`AlertingProofs` proves, for any logs, timestamps, administrators, rules,
thresholds, windows, cooldowns and queue, every invariant of the run `alerts_any`,
for timestamps that are any integers:

* `CooldownIsKept`: `Spec => []CooldownHolds`. Two alerts of a rule between two
  reloads are a cooldown apart.
* `AlertsShareNoLog`: `Spec => []CountedOnce`. No log counts for two alerts.
* `EditsTakeEffect`: `Spec => []RulesTakeEffect`, *if there is one administrator*.
  With two it is false; the run `alerts_stale` shows how.
* `FireCountAddsUp`: `Spec => []FiresAreCounted`.
* `AlertingTypes`: `Spec => []TypeOK`.

Assumption: `AlertingAssumption`, evaluated by the runs of `Alerting`.

The argument. An alert is compared with `last_fired_at` alone, so the first
theorem needs that no event of the rule and generation is later:
`LastIsLatest`. Installing starts a generation without events; tipping a rule
moves `last_fired_at` forward, never back, since the test against it succeeded.
`LockHeld` is what the read lock is for: a log in the middle of its observe finds
the rules it began with, which is also why every tally works on an entry that
exists. `RuleIds` bounds the ids the administrators list. `EngineType` types the
part of the state the engine keeps, hits included, for which `RecentIsSeq` and
`CountedHits` say what popping the window leaves.

`CountInv` follows a log through a rule: before its tally it is in no hits and in no
alert, after it in one of the two, and the hits of an alert are gone from the
deque. `Reloaded` says that an administrator holding a list took it after the
last edit; a second one could make it false. `Tallied` is an
equation between `fire_count`, the events of a rule in the queue or in the
delivery task (`HeldFor`) and those that were dropped or could not be recorded;
it needs that an event is in one of these places only.

`AccessProofs` proves, for any administrators, scripts, devices, calls and
logins, any TTL and limit of sessions, and any number of lives, kills and failing
statements, every property of the run `access`:

* `Revocation`: `Spec => []RevokedIsOut`; `Creation`: `Spec => []CreatedWorks`.
* `ActivityKept`: `Spec => []ActivityIsKept`.
* `SessionsLast`: `Spec => []SessionLasts`; `RefusalIsRight`:
  `Spec => []RefusedOnlyWhenFull`.
* `TypeCorrect`: `Spec => []TypeOK`, the limit of the session table included.
* `RegistryImplementsTokens`: `Spec => ImplementsTokens`, the refinement.

Assumptions: `LifeAssumption`, `DevicesAssumption`, `SessionsAssumption`.

The argument. The invariant has three parts that meet only in the process and
its clock. `Registry` says what the lock of the admin connection is for:
`OneAtWork`, so that the device of a request that holds it is the only one on
which table and cache may differ, and `RowIsKnown`, that nobody else revoked the
row it has inserted or brought back the one it has revoked. With those, each
statement of an administrator is a lemma (`InsertStep`, `CacheInsertStep`,
`UpdateStep`, `EvictStep`, `UnchangedStep`). `KeepsPromise` is the step of
`Tokens`; a kill keeps it (`GoneStep`) because a token that was told to somebody
and is not revoked is in the cache (`CreatedWorks`), so what the next load will
honour was honoured before, or is granted just then. `Activity` needs that the
last flush comes after the last call: a call that was let in finds the process
serving, and after `last` nothing is pending. `Logins` ties each entry of the
session table to the time of its login, from which expiry, purge and refusal are
compared (`ValidSessions`); its bound on the table is a count of a finite set
(`TableIsFinite`).

`ReadersProofs` proves, for any queries, exports, ids, sizes and changes:

* `PoolIsBounded`: `Spec => []ConnectionsBounded`.
* `StatsCountWhatStays`: `Spec => []StatsAgree`.
* `WalksShowAll`: `Spec => []WalkShowsAll`.
* `ContextsAreGapless`: `Spec => []ContextIsGapless`.
* `ThreadsSuffice`: `Spec => []ThreadForEach`: a query or an export that was
  admitted finds a blocking thread. No run states it; `QueriesEnd` depends on it.
* `ExportsAreWhole`: `Spec => []ExportIsWhole`, for any size of chunk and channel.
* `ReaderTypes`: `Spec => []TypeOK`.

Assumption: `ReadersAssumption`; limits are at least 1 and the numbers of
neighbours at least 0, as `query.rs` clamps them (`:61`, `:92`, `:103`). The
argument of the first: the permits in the semaphore and the queries that own one
are always `Size` together, and connections are never more than permits given
out (`InStep`). A connection that is opened in place of a lost one finds the pool
empty, and its query still owns its permit; `OneMoves` does the counting. 
Of the second: a row that stayed only ever leaves the set of those that did, since
no id is stored twice, so what a part counted earlier still covers it
(`StillCounts`). For the breakdowns a row left out needs as many groups at least as
large as the LIMIT: `AheadIsOrder` says that what is ahead of a group has fewer
ahead of it, so all that is ahead of the first group left out is listed, and it is
left out for being behind at least LIMIT of them (`TopCounts`).

Pages and contexts are minima and maxima of finite sets: `NewestClosed` and
`OldestClosed` say that what a LIMIT leaves out lies beyond all it returns, and
`ShortIsAll` that a result shorter than its LIMIT leaves out nothing. They rest on
`LeastIs` and `GreatestIs`, which find the extreme element of a set of numbers
with the induction-free facts of the library. A walk has then read, of the rows
that stay, all down to its cursor and none below it (`PageReadsDown`), and a context
covers an interval around its row, upwards and downwards (`UpToRow`, `FromRow`);
`AskedInv` ties a query to the statements it has still to run. Threads: a streaming
export owns a slot and a busy query a permit, so that both together are at most
`MaxExports + Size` (`SlotInv`, `ThreadsTaken`). Exports: what was sent, read by
the client or still in the channel, is all of the snapshot up to `last`, each
chunk above the one before, and a chunk that closes the array was sent when
nothing was left (`Beginning`); a client has read a beginning of that. The
look-ups of names by webhook
deliveries run on the same threads and are not in the model; one delivery runs
at a time.

Every safety property and refinement that a passing run checks is thus a theorem.
Only model-checked is liveness (`SyncIsAnswered`, `EveryRecordSettles`,
`ShutdownEnds`, `StreamsEnd`, `QueueMovesOn`, `QueriesEnd`), which rests on
fairness and ENABLED. The six violations are runs on small instances.

## 5. Where code and documentation differ

Shown by a run:

* **Ids are reused** (`ingest_reuse`). `tests/store.rs:102` says that re-opening
  must never reuse an id. The counter resumes from `MAX(id)` of the rows left, so
  ids of pruned rows, and of queued records lost in a kill, are given again.
  Rows are never overwritten all the same (`RowsAreFinal`).
* **A reconnect may miss a record** (`tail_gap`). `handlers/stream.rs:9`, `:58`
  and `docs/api.md:204` promise that nothing is lost. A record is broadcast
  before it is committed; a client that subscribes and queries in between gets
  it from neither.
* **A log from the future silences a rule** (`alerts_future`). `docs/alerting.md:17`,
  `docs/api.md:313` and `schema.rs:39` say that a rule is silent for its cooldown
  after firing. `engine.rs:140` subtracts the `ts` of the last alert from that of the
  log, and clients may set both: after one `ts` years ahead, the rule is silent for
  years, or until the next edit of a rule.
* **An edit of the alert rules may be undone in memory** (`alerts_stale`).
  `state.rs:62` says that the rule set is rebuilt whenever a rule changes. Two
  edits at once may install their lists in the wrong order, and a disabled or
  deleted rule then stays active until the next edit.
* **A search may miss what is stored, for good** (`search_killed`).
  `docs/api.md:116` promises search "across everything stored". The index is
  created by one statement and backfilled by a later one, and only if it did not
  exist when this start looked; a start that is cut short in between is taken for
  a complete one by the next.
* **An older search may replace a newer one** (`search_late`). `app.js:294` says
  that it must not. The number of the search is compared before its body is
  awaited, and not after.

Met while reading, with no run of their own: a 202 record may never be stored
when its transaction fails (`docs/api.md:54`); a batch answered 400 leaves the
records before the refused one stored (`AnswersAreTrue` states which);
`write_log` is neither counted nor shown to the alert engine, whose doc says
"every ingested log"; a shed record was broadcast all the same; a replay stops
at `MAX_REPLAY` rows and then continues live; with concurrent handlers a frame
whose id is below the highest of the replay is skipped although no row held it when
the replay was read ("Already delivered by the replay above", `stream.rs:105`), and a
client may see a line again on its next connection; a client that stops reading
holds the shutdown; an edit of one alert rule resets the window *and the
cooldown* of all others, which may then fire again at once (`schema.rs:39`,
"then silent for `cooldown_secs`"); a rule that has never fired is silent towards a
`ts` below its cooldown, as of a device whose clock counts from its own start; with
timestamps out of order the hits of a rule are not "oldest first" (`engine.rs:20`), so
a match from any time may count, not only one "inside `window_secs`"
(`schema.rs:39`); an alert that met a full queue has used up its cooldown.

Of the parts modelled later: `revoke` swallows an error of its SELECT
(`devices.rs:180`), revokes the row and evicts nothing, and a second revocation is
answered 400 and evicts nothing either, so the token works until the next start,
while `devices.rs:172` and `docs/api.md:254` say "on the very next request"
(`RevokedIsOut` makes exactly this exception); `last_seen` may go back, as the time is read before it is noted; `write_log` never notes activity;
`logger_sessions_active` counts expired sessions that were not purged yet
(`docs/api.md:353`); a live tail goes on after the session that opened it has
ended; an NDJSON export that a failing row cuts short looks complete
(`reader.rs:485`), while an export that could not be opened breaks the body; the
older route `/logs/{name}` is under no timeout (`routes.rs:108`); a `limit` above
5000 is clamped, so a client that takes a page shorter than its own limit for the
last stops early; two export clients that stop reading keep every other export
waiting; the janitor of the rate limiter logs that it clears an oversized key set
but only releases its spare capacity (`ratelimit.rs:43`); the dashboard loads the
recent page and then opens its tail without a `Last-Event-ID` (`app.js:393`), so
lines in between appear in neither, and its *Clear* leaves a search that is under
way to show its hits afterwards (`app.js:342`). A restart that resumes the
counter below a client's `Last-Event-ID` (after a kill that lost queued records, or
after pruning) gives ids again that the client passed, and its tail drops the new
records of those ids, replayed and live, until the counter has caught up
(`stream.rs:106`); the same line skips a record that was shed or pruned between
subscription and replay, which "already delivered" does not describe.

## 6. Plan

Done: the write path, live tails, alerting, devices and sessions, the read path,
the search index, the search box, and the proofs of section 4. Left, in this
order:

1. Safety behind the liveness properties, as invariants that can be proved: who
   waits is never without somebody who can move (as `ThreadForEach` is for
   `QueriesEnd`), for the writer, the requests it owes an answer, and tails.
2. What a start of `SearchIndex` leaves behind when no stop cuts it short, and
   under which stops older rows are lost, for any rows.

Not modelled, and why: the rate limiter (its buckets and key set are state of the
`governor` crate; the code makes one call per request and two per minute); the
webhook address guard (a pure predicate over addresses behind a name resolution);
configuration, routes, assets, health text and error formatting (stateless or run
once); the JSON-RPC envelope and argument parsing of MCP; payloads and signatures
of webhooks; the list of live lines and the other pages of the dashboard, which
read and write through handlers that are modelled; timestamps as text; pragmas,
TLS, DNS and SQLite themselves.
