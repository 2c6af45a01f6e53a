# Verification of the Soroban Pulse backend

The backend polls a Stellar RPC node for contract events, stores them in Postgres, and hands them
on to subscribers: live over SSE, by webhook, e-mail, push and a dozen other channels. Several
replicas run against one database; one of them indexes, all of them serve and deliver.

This directory holds TLA+ modules for the parts whose correctness depends on order, concurrency or
failure, the TLC configurations that check them on small instances, and proofs that TLAPS checks
for every value of the constants. `PROJECT.json` maps every definition to the lines it translates.
Paths below are relative to the repository.

    tlc -workers 2 -config SseStream.cfg MCSseStream      # one run
    tlapm SseStreamProofs.tla                             # one module's proofs

## 1. The system

### Components, their state and operations

| component | code | state | operations |
|---|---|---|---|
| advisory lock | `src/advisory_lock.rs` | three atomics per instance (`held`, `epoch`, `acquiring`), the server's re-entrant lock per session | `acquire` (claim, validate, try-lock with time-out and retries), `release`, `is_current` |
| migrations | `src/db.rs`, `src/main.rs` | the schema, `_sqlx_migrations` | `run_migrations` under the lock; `main` drops its result |
| indexer | `src/indexer.rs`, `cursor_expiry_handler.rs`, `bloom_filter.rs` | ledger and cursor of the cycle, two bloom filters, the active RPC endpoint; in Postgres: events, checkpoint cursor, `indexer_state` | start-up, requests that go round the endpoints, cycle over pages, store of a page with checkpoint in one transaction, sends to the live channel, cursor-expiry fallback |
| leadership | `src/indexer.rs` (`run`), `db.rs` (`create_pool`) | the server's lock on one of the pool's sessions | poll for the lock, promote, unlock; the pool recycles connections |
| SSE | `src/handlers.rs` (`stream_events_internal`, `stream_events_multi`), `sse_ring_buffer.rs` | ring buffer, broadcast channel, connection counters, one receiver per stream | admission, replay after `Last-Event-ID`, live frames, lag, shutdown |
| delivery queue | `src/subscriptions.rs`, `push_notification.rs` | `subscriptions`, `delivery_queue`, daily e-mail counters | create with backlog, ack, cancel, channel settings; e-mail and push worker per replica |
| webhooks | `src/webhook.rs`, `retry_policy.rs`, `main.rs` | one task per event and URL; in Postgres: suppression list, the endpoint's window and back-off, failures, deferred deliveries | receive and filter, check suppression and rate limit, post with retries, record success or failure |
| e-mail digests | `src/email.rs` | the buffer, the time of the last digest | receive, send at once or buffer, tick (due? quiet?), flush on shutdown |
| Redis publisher | `src/queue_publisher.rs` | the buffer of events that could not be sent | receive, drain, publish with retries, buffer |
| other notifications | `src/notification_*.rs`, `sms.rs`, `slack.rs`, ... | batches and recent keys in memory | subscribe to the channel, call one service |
| request-side state | `src/idempotency.rs`, `rate_limiter.rs`, `query_cache.rs` | maps and counters | look up, run, record |
| jobs | `archiver.rs`, `pruner.rs`, `partition_manager.rs`, `event_replay.rs`, `reencrypt.rs`, `warehouse/` | rows moved or marked by background tasks | one loop each |

`PROJECT.json` lists all other parts (REST queries, analytics, observability, tools, deployment)
with the reason each is left out.

### How they interact

* `main` runs the migrations (under the advisory lock), starts the indexer's task, the webhook
  task, the notification tasks, the publishers and the two queue workers, and serves.
* The indexer that holds the lock writes events and checkpoint in one transaction. *Before* it
  commits it puts each new event into the SSE ring buffer and then sends it to a tokio broadcast
  channel, which every SSE stream, the webhook task, each notification channel and each publisher
  reads at its own pace; a slow reader is told that it lagged and loses events.
* The delivery queue is fed from the events table by `create_subscription` only, and drained by
  the workers of all replicas.
* Locks live in Postgres sessions. The pool (sqlx) opens, recycles and closes sessions without
  telling anybody.

### What is hard, and what must hold

| component | hard | correct means |
|---|---|---|
| advisory lock | a query that times out at the client is still executed by the server; sessions die; atomics are set around awaits | a granted caller has the server's lock while its session lives; levels of re-entrancy are accounted for; calls return |
| migrations | replicas start together, die half-way, lose the lock race | each migration once, in order; success means a complete schema |
| indexer | crash between sends, inserts and commit; failing statements; expiring cursors; truncated pages; stale bloom filters; endpoints that lag behind one another | the checkpoint never moves past an event that was not stored, or the reason is known; everything is stored in the end; no row that was not sent; nothing sent twice by one process |
| leadership | the lock is on a pooled connection | one indexer at a time; a standby is promoted; two at once, after a lapse, do no harm |
| SSE | subscribe after replay with an await in between; counters raised and lowered in many places; clients leave anywhere and come back with ids of two kinds | no event missed without a known cause, and the documented replay; frames in order; counters exact; limit overshot boundedly |
| delivery queue | workers of all replicas read the same rows without locking; mark after send; clients change everything meanwhile | nothing leaves the queue without a reason; repeats and late messages bounded; ledger order; everything told in the end |
| webhooks | deliveries of all events run side by side over one window and one back-off; a request that timed out may have been processed | no burst past the limit; nothing put off without cause; one fate for each event, and soon |
| e-mail digests | due and quiet hours together decide; sends take long; the buffer is in memory | one digest a period, besides flushes; nothing mailed twice; what is buffered goes out |
| Redis publisher | outages in mid-drain, lost answers, a full buffer | the stream keeps order; the newest are kept; what is received is published |

## 2. The modules

| module | models | composed with |
|---|---|---|
| `AdvisoryLock` | callers with a session each, the instances' atomics, the server | |
| `MigrationRun` | replicas from start to serving | EXTENDS `AdvisoryLock`; a replica is a caller |
| `IngestLog` | abstract: a set of settled events, a mark that only moves to places below which all is settled | |
| `Indexer` | processes with their run_loop, pages, transactions, filters, sends and RPC endpoints, over one chain and one database; faults | implements `IngestLog` |
| `IndexerLeader` | Indexer::run over pools of sessions | |
| `SseStream` | requests, ring buffer, channel, counters, clients that come back | |
| `SubscriptionQueue` | subscriptions, the queue's rows, two kinds of worker | |
| `DeliveryFates` | abstract: every event's delivery is pending until it meets one fate, and the endpoint hears of it only until then | |
| `WebhookDelivery` | the receiving task, the deliveries, the endpoint's row | implements `DeliveryFates` |
| `EmailDigest` | EmailNotifier's task and its clock | |
| `RedisPublisher` | the publisher's task and Redis | |
| `AdvisoryLockProofs`, `IndexerProofs`, `IndexerLeaderProofs`, `SseStreamProofs`, `SubscriptionQueueProofs`, `WebhookDeliveryProofs`, `EmailDigestProofs`, `RedisPublisherProofs` | theorems | extend the modules they are about |
| `MC*` | definitions of the constants for TLC | extend the modules they instantiate |

How they read:

* **AdvisoryLock.** `pc` follows `acquire` and `release` from one await to the next: *validate*,
  *try* (a try-lock is on its way), *wait* (for the answer), *granted* (`held` is set, `epoch` is
  not returned yet), *holding*, *unlock*. `TryTimesOut` leaves the query in `unread`; the server
  executes it later (`ServerTryUnread`). `lockCount` is the server's re-entrancy count of a
  session. A session's death frees its locks and is seen at the next query.
* **MigrationRun.** `phase` is where a replica is in `run_migrations` and `main`, `result` the answer;
  `main` serves whatever that is (`Serve`). The lock's steps are those of AdvisoryLock, conjoined with
  `phase`. A migration and its row are one transaction.
* **Indexer.** An event is its position in the chain, a cursor the position it is past. `pc` is
  *boot*, *poll*, *fetch*, *store*, *done*; `page` is what is left of the RPC answer, `tx` the rows of
  the open transaction, `aborted` Postgres's state of it. Each RPC call, statement and commit is a
  step with its failing variant. `Replicas` are the processes that index, one in the runs `indexer_...`
  and two in `pair`; each has its own ledger, cursor, page, transaction and filters, and its own
  endpoint. A process at *boot* is a standby, or down, and is promoted at any moment: IndexerLeader says
  when that happens beside a leader. An insert of a row that the open transaction of another holds
  waits (`Blocked`). `Faults` names the failures of an instance and `MaxFaults` bounds
  them. `height` is the ledger the active endpoint has reached; `Failover` makes another the active one,
  ahead or behind. Histories: `failed` (rows of transactions that were rolled back while the process
  went on), `truncated` (cut off an oversized page), `forgotten` (below a start at the tip with an
  unreadable state), `origin` (the ledger indexing began with).
* **IndexerLeader.** `owner` is the session with the lock; `pool` the sessions of a replica, which
  `Recycle` replaces; `ghosts` are sessions only the server still knows. Histories: `lapsed`.
* **SseStream.** `pc` follows the handler: *check*, *ipcheck*, *ipadd*, *count*, *validate*,
  *snapshot*, *query*, *subscribe*, *stream*, *closing*. Events are numbers in the order they are
  pushed; `pushed` and `sent` are the lengths of what the ring buffer and the channel have had, so an
  event between them is in one and not in the other. `EndPage` commits a page's rows, which share one
  `created`, or rolls them back. A client can send back the id of a live frame (`lastId`), which is the
  ring buffer's and no row's, or that of a row (`rowId`), from a frame replayed from the table or from
  the REST endpoints (`RestReaders`, `ArriveFromRow`); a frame replayed from the ring buffer leaves it
  with neither. `QueryDb` is the fallback's query over the rows there are, `QueryFails` its dropped error.
* **SubscriptionQueue.** `queue[row]` is a row's status; a worker polls (`Page`: the first `Batch`
  subscriptions by id that have a row, one row of each, lowest ledger first), sends, and marks in a step
  of its own. A message may be accepted and the answer lost (`SendAnswerLost`). Handlers with two
  statements are two steps, with a request that is lost between them. Histories count the messages
  of each row, those sent when none was due, those that marked nothing.
* **WebhookDelivery.** `task[e]` is where the delivery of an event is: *suppression*, *admission* (the
  upsert of the endpoint's window), *defer*, *post*, *success*, *acknowledge*, *failure*,
  *deadletter*, or the ending it met. Time is ticks; a sleep takes any number of them. Histories:
  `checkedAt` and `verdict` of the rate limiter, `failedAt`, `received` (what the endpoint processed).
* **EmailDigest.** The clock is the hour of the day, `age` the hours since the last digest up to a day,
  `ticked` whether the interval has fired in this hour; whether the ticks fall on the second
  that a cron schedule names is `onSecond`. `pc` is *select*, *batch*, *critical*, *final*, *stopped*.
  Histories: `mailed`, `missed`, `lost`, the `digests` of the running day or hour, flushes included, and
  the tasks that ended in it (`ends`).
* **RedisPublisher.** `pc` is *connect*, *recv*, *drain*, *publish*, *stopped*; `hand` the event
  received; `stream` what Redis has. Histories: `missed` (lagged), `dropped` (off a full buffer),
  `gone` (with a process), `lost` (answers).

Every `Bug...` operator is a variant of the definition after it, with a plausible mistake; each
checked property fails for one of them (`mutants` of `PROJECT.json`).

## 3. The runs

| run | instance | shows |
|---|---|---|
| `lock` | two tasks of one process, one instance, 2 tries, 3 epochs, 2 abandoned attempts | holders own the server's lock; two holders only after a session died; levels are accounted for; the in-flight flag is up only with a caller inside; a token is stale only after a loss |
| `migrations` | two replicas, two migrations, one restart | each migration once and in order, Ok means complete, every start gets an answer |
| `indexer_faults` | 5 events in 3 ledgers, answers of 3, pages of 2, any two failures | every loss has a named cause; the running ledger is past nothing else; a process sends nothing twice; implements `IngestLog`; every wanted event is stored in the end or its absence explained |
| `indexer_insert` | 4 events, one failing INSERT | *violated:* `CheckpointCovers` |
| `leader` | two replicas, pools of two, four sessions and two processes each | two index only after a session lapsed; a standby does not wait for ever |
| `pair` | two indexers, 3 events in 2 ledgers, one failed INSERT, failed COMMIT or crash | two at once send an event twice only after a rollback; neither moves the checkpoint or its ledger past what neither has dealt with; they never wait for one another |
| `sse` | two clients of one address, three requests, four events, two of which may have rows, small buffers | counters, overshoot, misses with a cause, order, one repeat, no stream stays behind |
| `sse_replay` | one client that comes back once, four events, a ring buffer of one, limits that are not reached | *violated:* `AllReplayed` |
| `deliveries` | an e-mail worker and a push worker on two replicas, two subscriptions read one at a time, two events, daily limit 1, two tokens, one fault, two client requests | rows leave for a reason; repeats, late messages and the day's e-mails are bounded; a valid token is kept; ledger order; every queued event is told |
| `webhooks` | four events of which three are wanted, a limit of one per window, two attempts, a clock, one fault | no burst of twice the limit in any window's length; nothing is deferred without cause; implements `DeliveryFates`; every event meets its fate |
| `redis` | six events, three outages, two lost answers, one restart, a buffer of two | the stream keeps order, copies side by side; the newest are kept; what is received is published, or waits for the next event |
| `email` | every kind of schedule with three kinds of quiet hours, days of four hours without end, four events, one restart | one digest a period besides flushes; nothing mailed twice; the buffer goes out in the end if some hour is due and not quiet |

Type invariants are not among the properties of the runs: each module's is proved (section 4).

### The violations

1. `indexer_insert`, `src/indexer.rs:916`. A failing INSERT aborts the page's transaction; the loop
   logs it and goes on, COMMIT quietly rolls back, and the *next* page's checkpoint is past events
   that are in no table. The bloom filters hide them from every retry of the process.
2. `sse_replay`, `src/handlers.rs:1633`. A live frame's id is the UUID of its slot in the ring buffer,
   which is stored with no row. When the slot is evicted, the fallback looks for the row with that id,
   finds none, and so nothing is replayed, though later rows are in the table.
   `docs/sse-reconnection.md:4` promises all that was missed, `:19` this fallback.

The passing runs name the causes of what is lost: `LossAccounted`, `MissedAccounted`,
`NewestKept` and `MailedOnce` say that there are no others. Section 5 lists the causes that a document
of the repository rules out.

### Bounds

Every bound is a constant of its module with "bound" in its comment, or a fault budget.

* *lock*: `MaxRetries = 2` is one retry after the first try, so that a second attempt can find the
  level of the first; with two abandoned attempts the server may execute a try before or after the
  retry, or both tries late. Three epochs are enough for a stale release after a newer grant.
* *migrations*: two migrations, so that a crash can leave one applied; two replicas, each refused
  or granted; a third replica only repeats the roles.
* *indexer*: a ledger with two events (so that a page may end within it), one event that no check lets
  through, an answer longer than the page limit, an expiry in mid-pagination with and without a
  retry left. A failover to an endpoint that is behind is one of the failures. Two failures meet in every
  order; the second hits the recovery from the first.
* *leader*: a session to lose, one to take its place, and a second process per replica.
* *pair*: a page of one event and one of two, so that the second process meets rows that are stored,
  rows that are held, and new ones, from a checkpoint at either; one failure, which each process may
  have at each point of the other's page. The failures of one process alone are `indexer_faults`.
* *sse*: a limit of 2 for 3 requests, so that leaked slots fill it; a ring buffer of 3, a replay of 1
  and a channel of 2 for 4 events, so that eviction, truncated replay and lag happen, alone and
  together; two pages may end, so that the table has rows behind the one a client starts from.
* *sse_replay*: a ring buffer of one, so that the second event evicts the first; a limit, a channel and
  a connection limit that are never reached, so that nothing else can be the cause.
* *deliveries*: a limit of one e-mail a day, so that a row is refused, comes back the next day, and
  can be counted before midnight and sent after; both workers race for each row; two events for the
  order. Two subscriptions with pages of one, so that the first holds the second up, one of them with
  one event: they share nothing but the page and the address's counter, and the bounds `RepeatsBounded`
  and `QuietAfterSettled` are per row. Two requests turn a channel on and cancel, acknowledge or
  change a token; all requests together are left to the proofs.
* *webhooks*: a limit of one and windows of a tick within a clock of two, so that a window is reused,
  outlived and begun anew; two attempts, so that a delivery fails after a retry; a channel of two for
  four events, so that the receiver lags.
* *redis*: a buffer of two for six events, so that it overflows, is half drained when Redis goes down
  again, and is drained in full; three attempts; two lost answers, one in a drain and one in a retry.
* *email*: four hours stand for a day: schedules early and late, before, in and after the quiet hours,
  which are none, within the day, or past midnight. The clock runs for ever, so liveness needs no
  bound of time.

### Fairness

* *migrations*: weak fairness of every caller's own steps and of the server's. The client
  waits with a time-out, so it never waits for ever; the server executes what it has read.
* *indexer*: weak fairness of "the loop's next step, or its failure": `run_loop` has no exit but
  shutdown. An endpoint that is behind catches up. Nothing is promised of a particular outcome; failures
  are finite because of `MaxFaults`, and `EventuallySettled` says what then follows.
* *leader*: the poll interval ticks, so a poll that could be granted is in the end; a process told
  to stop does; the server notices closed connections (TCP keep-alive). That connections are lost
  only finitely often (`MaxOpened`) is an assumption of `EventuallyLed`.
* *sse*: weak fairness of each request and stream: tokio polls both. Clients need not stay.
* *deliveries*: weak fairness of each worker's loop, an error being one of its outcomes, and days
  pass. Clients need do nothing.
* *webhooks*: weak fairness of the receiver and of each delivery: they are tasks of the runtime, and
  every wait of theirs has a time-out. No request need succeed.
* *redis*: weak fairness of the task's next step; Redis need not come back.
* *email*: time goes on, the interval fires, sends return, and `select!` takes a ready branch at
  random, hence each of them again and again.

*lock* and *pair* have no liveness property, so that fairness plays no part there.

CHECK_DEADLOCK is off where the instance does come to rest: all processes down (*leader*), all
migrations done (*migrations*), no event, request or fault left (*sse*, *sse_replay*, *deliveries*,
*webhooks*, *redis*).

## 4. The proofs

Each proof module proves an inductive invariant `IInv`, in the form `Init => IInv`,
`IInv /\ [Next]_vars => IInv'` with one step per action, and derives the properties from it. The
assumptions are the ASSUMEs of the modules: the finiteness of the sets of actors where cardinalities
are counted, the types of the constants, and in MigrationRun that no two replicas share an instance of
the lock, as `run_migrations` makes its own. The bounds are constants like others: the theorems
hold for every value of them.

* **AdvisoryLockProofs.** `TypeOK`, `HolderHasServerLock`, `OneLiveHolder`, `LevelsAccounted`,
  `TokensDistinct`, `AcquiringMeansOneInside`, and the action property `StaleOnlyAfterLoss`.
  `HolderHasServerLock` is not inductive: an answer "true" that is still to be read must already
  stand for a level (`ReplyMatches`), a level must not be given back twice (`LevelsAccounted` with
  `Claimed`), and the server has the lock for one session at most (`ServerExclusive`).
  `StaleOnlyAfterLoss` needs that a live holder's token is the newest (`HolderNewest`), which follows
  from exclusion on the server and the order in which tokens are issued. The second part is about
  MigrationRun: each of its steps is a step of the lock or a restart (`LockSimulated`), and a restart
  keeps the lock's invariant (`CrashKeepsLock`), because no two replicas share an instance; hence its
  types, `AppliedOnceInOrder`, `OkMeansMigrated`, and `OneLiveHolder` across restarts. A replica
  migrates only under a guard (`MigratesUnderLock`), and one whose session died in mid-migration can
  apply nothing more.
* **IndexerProofs.** `TypeOK`, `LossAccounted`, `BelowCurrentCovered`, `ResumeLedgerCovered`,
  `StoredWasSent`, `SentOncePerLife`, `NeitherSkips`, `TwiceOnlyAfterRollback`, and that `Indexer`
  implements `IngestLog`, for any number of processes at once. The strengthening
  follows one event through each process's cycle (`Own`): what the checkpoint says of the database, the
  cursor says of the process (`CursorCovered`), with the rows of the open transaction (`PageCovered`,
  `TxClosed`); what a cycle has passed is covered or still in the page (`CycleCovered`); an event a
  filter hides is stored, in the transaction, or explained (`FiltersCovered`). A step of one process
  leaves another's part alone (`OthersSame`) and settles more, never less (`CoveredGrows`), so that each
  keeps its own. What is in a transaction was sent, and is marked so that it is not sent again (`TxSent`,
  `SentMarked`); a second process that sends it found its row neither in the table nor held
  (`SecondSend`).
* **IndexerLeaderProofs.** `TypeOK`, `PollingOwnsNothing`, `OneIndexerUnlessLapsed`. The strengthening:
  the owner and the ghosts are sessions opened so far, hence never a new one (`OwnerOpened`); a session
  that left its pool is in none (`GhostsApart`); a leader that has not lapsed has the owner in its
  pool (`LeaderOwns`).
* **SseStreamProofs.** `TypeOK`, `MissedAccounted`, `FramesInOrder`, `OneRepeat`, `SlotsAccounted`,
  `OvershootBounded`, for any number of clients and addresses. `MissedAccounted` follows each client by
  `CoverInv`: what its last id covers (`IdCovers`), what the snapshot of the ring buffer or the query
  covers (`SnapshotCovers`), what the stream covers (`StreamCovers`), and that what is replayed lies
  behind the receiver (`ReplayBehind`). Of the table it needs that later events have later rows
  (`TableInv`) and that a client's row id is that of a row (`RowInv`): only then is what the query
  finds all there is behind that row. The order of rows is that of their transactions, hence the
  exception of `FramesInOrder`. `OneRepeat` needs in addition that the id a client sends back is that of
  the newest event it has (`IdNewest`, `RowNewest`), so that a replay is all new, and that the receiver starts no
  earlier than the newest of it (`RepeatAtStart`). The counters are cardinalities of sets of clients,
  changed one element at a time.
* **SubscriptionQueueProofs.** All safety properties of the module, `FirstInOrder` among them, for any
  number of replicas, subscriptions and events. What a worker holds was at the head of a queue when it
  was read, and stays so until the next poll, because rows are inserted only once per subscription
  (`BackfillFirst`, `HeldInOrder`); a worker holds one row of a subscription (`HeldApart`), so that those
  that will send a row and those that will mark it are different workers. `RepeatsBounded` then needs one
  account per state of the row (`RowCount`): while it is pending, its messages are those at *mark* and
  those lost, with the mark or with the answer; once it is settled, its remaining readers are part of the
  bound. `DailyLimitKept` counts the workers about to send (`DayCount`), and `ValidTokenKept` what they
  would send to (`TokenKnown`).
* **WebhookDeliveryProofs.** `TypeOK`, `BurstBounded`, `DeferredForAReason`, and that `WebhookDelivery`
  implements `DeliveryFates`, for any limit, window and number of events. The strengthening: a delivery
  goes through its stages once (`Progress`); the row's count is the number of deliveries counted since
  its window began, the first of them when it began (`RowCounts`); at most the limit of those passed,
  one fewer besides the first, and one fewer in the window's length before it (`RowLimits`); a back-off
  was caused by a failure at most `MaxBackoff` before its end (`BackoffCaused`).
* **RedisPublisherProofs.** `TypeOK`, `StreamInOrder`, `NewestKept`, `CopiesExplained` (no more copies
  than lost answers), for any buffer. Both orders follow from what is tried next, `Due`: the front of
  the buffer, or the event in hand: it is above everything published, or the last of it again
  (`Ordered`), and a copy of it is paid for by a lost answer (`CopiesCounted`).
* **EmailDigestProofs.** `TypeOK`, `OneDigestPerPeriod`, `MailedOnce`, for any length of the day and any
  set of schedules. Every digest of the period, flushes included, but one is paid for by a task that
  ended: a digest leaves a trace in `age` until its period is over (`Remembered`), also across a
  restart, which resets `age`; what is in the buffer or in hand was never mailed (`Fresh`),
  and is in one place (`Apart`).

Only model-checked: liveness (`RunReturns`, `EventuallySettled`, `EventuallyLed`,
`EventuallyReceived`, `EventuallyTold`, `EventuallyDecided`, `EventuallyPublished`, `EventuallyMailed`:
TLAPS has no ENABLED here), and that two indexers never wait for one another. The violations are TLC's.

## 5. What is left out, and what was seen on the way

Abstractions, module by module:

* AdvisoryLock: back-off delays, metrics; a caller that drops its future in mid-`acquire` (no caller
  does).
* Indexer: the bloom filters' false positives, persistence and rotation, and the ledger-hash rows;
  `INDEXER_IGNORE_CHECKPOINT` and the pause flag; which endpoint is active, beyond how far it has got.
  An event is what the code takes for one: events of one type that a transaction emits for one
  contract share the unique key and both filters' key. RPC answers are taken as parsed: the
  mock RPC of `tests/e2e_tests.rs:162` has ids that are no UUIDs while `models.rs:853` expects one.
  `pair` has indexers that start at the tip: what is wanted is what comes after the later start.
* IndexerLeader: what a leader does (that is Indexer), and levels of re-entrancy, which
  `PollingOwnsNothing` shows not to arise.
* SseStream: frame formats and filters (a client wants a set of events), keep-alives, the tenants; the
  clock (rows of later transactions have a later `created_at`).
* SubscriptionQueue: pause columns, batch settings and logs, which no worker reads.
* WebhookDelivery: one URL; templates, signatures and request logs; `deliver_with_failover` and the
  circuit breaker, which no delivery calls.
* EmailDigest: `send_batch_email`, which the file calls and does not define; A/B tests, recipients,
  templates; minutes and seconds, but for the second a cron schedule names.
* RedisPublisher: the length of the back-off, stream trimming.

Seen while reading, and not a run of their own:

* `src/indexer.rs:1267`: the filters are marked before COMMIT. If COMMIT fails, the page is fetched
  again, its events look like duplicates, and the checkpoint moves past them. `LossAccounted` counts
  them under `failed`.
* `src/indexer.rs:670`: `.ok()` on the read of `indexer_state` turns an error into a first start
  (`forgotten`).
* `src/advisory_lock.rs:212`: the level of an attempt that timed out is not freed by the one unlock of
  `release`; the lock stays on the pooled session until that closes (`src/db.rs:75` says it is
  always released). `LevelsAccounted` is the exact account.
* `src/subscriptions.rs:516`, `:534`, `:1145`: `enqueue_event`, `run_delivery_worker` and
  `run_auto_resume_worker` have no callers. A subscription is told of what was stored when it was
  created, and of nothing newer.
* `src/subscriptions.rs:997`: neither worker looks at `pause_until`; without a duration it is set to
  NULL, which reads as not paused.
* `src/indexer.rs:445`: the leader's lock is taken on whatever connection the pool hands out and goes
  back to the pool with it. When the pool recycles that connection the server frees the lock, and a
  standby indexes beside the first, while `docs/deployment.md:132` says that exactly one does.
  `OneIndexerUnlessLapsed` says when; *pair* says what follows.
* `src/main.rs:249`: `let _ = run_migrations(..)`: a replica that gave up on the lock, or whose
  migration failed, indexes and serves; `docs/deployment.md:146` says that none serves before the
  migrations are confirmed complete. `RunReturns` says that there is an answer, `OkMeansMigrated` what it
  is worth, and no property that anybody heeds it.
* `src/advisory_lock.rs:281`: `release` stores `held = false` after awaiting the unlock. Another task of
  the instance may have been granted the lock in between, and `is_current` tells it that it does not
  hold it. The repository's one user creates an instance per call.
* `docs/sse-reconnection.md:4` promises that a client that comes back receives all it missed, and only
  a limit on the replay. Besides eviction (`sse_replay`), `MissedAccounted` has these causes:
  - `src/handlers.rs:1680`: a frame replayed from the ring buffer has the id `<tx_hash>-<ledger>`, as the
    ring buffer's copy has no UUID (`src/indexer.rs:882`), though `:10` of the document says that every
    frame has one. A client that leaves right after its replay comes back without a usable id.
  - `src/handlers.rs:1670`: a stream reads the ring buffer, awaits a query, and only then subscribes. An
    event sent meanwhile is neither replayed nor live.
  - `src/handlers.rs:1639`: the query asks for a later `created_at`, which all rows of one transaction
    share: what the client's row has beside it is skipped.
  - `src/handlers.rs:1280`: the query of `stream_events_multi` leaves out `event_data_normalized`, which
    the row type (`src/models.rs:135`) requires: with any row it is an error, and that is dropped, as it
    is at 1659; the comment at 1262 promises the fallback.
* `src/webhook.rs:451`: a delivery that the rate limiter defers is inserted into `webhook_retry_queue`,
  the only statement on that table, so that it is never sent; `docs/disaster-recovery.md:23` says that
  what is in it is retried. `DeliveryFates` has it as a fate.
* `src/email.rs:442`: a task that ends mails its buffer as a digest, whatever the schedule: a day has a
  second one then, where `docs/email-notifications.md:136` says one per day. `OneDigestPerPeriod`
  counts it.
* `src/subscriptions.rs:834`: a poll reads the first 100 subscriptions by id that have a row. If 100 of
  them fail for ever, nobody behind them is told.
* `src/email.rs:408`: a daily digest whose hours from the schedule to midnight all lie in quiet hours
  that wrap past midnight is never sent, though `docs/email-notifications.md:155` says that it goes out
  when the window closes; `EventuallyMailed` is checked for the
  schedules that are `Deliverable`. A cron schedule
  names the second, but the ticks fall on one second of the minute, given by the start.
* `src/email.rs`: the buffer is cleared whatever came of the send.
* `src/queue_publisher.rs:159`: the buffer is drained when the next event arrives, and not before.

## 6. Plan

Done, in this order: lock, migrations, indexer, SSE, leadership, delivery queue; webhooks, Redis
publisher, e-mail digests; RPC failover (in Indexer); two indexers at once.

Next, in this order:

1. **BloomRotation**: the persisted filter, its rotation and reload; refines the exact set of Indexer up
   to a set of false positives.
2. **Idempotency** and **RateLimiter**: check-then-act over shared maps and counters.
3. **Archiver** and **pruner**: rows that are moved and deleted while streams replay them.
4. The lock's sessions of IndexerLeader under two processes of Indexer, in place of "promoted at any
   moment".

Not to be modelled here: the REST queries and analytics of `handlers.rs` and its neighbours, single
statements over the events table with nothing concurrent to get wrong; configuration, metrics and
encodings; clients and deployment files. They are most of the repository's lines.
