# FlowForge API: TLA+ specifications

Specifications of the FlowForge backend (a FastAPI application with PostgreSQL,
RabbitMQ and Redis), model-checked with TLC and, for its eight concurrent components, proved with
TLAPS. Paths such as `src/src/worker.py` are relative to the directory that holds this one.

## 1. The system

```
 client -> middleware (metrics, request context, rate limit -> Redis)
        -> API services, one transaction per request -> PostgreSQL
                                                             | outbox_events
                                                    outbox worker(s)
                                                             | publish with confirms
                         exchange flowforge.events -> queue webhooks.events <-+
                                                             |                | TTL
                                                    webhook worker(s) -> retry queues 10s 60s 300s
                                                             |    \-> dead-letter queue
                                              HTTP POST to subscribers, webhook_deliveries
```

| Component | State | Operations | Hard part | What makes it correct |
|---|---|---|---|---|
| Outbox worker (`worker.py`, `outbox/`, `messaging/publisher.py`) | rows of `outbox_events`: status, attempts, next_attempt_at | claim a batch, publish, mark processed, retry with backoff, give up | several workers on one table; publish and mark are not atomic; crashes, failing transactions, lost confirms | one owner per event, published before processed, bounded duplicates, every event settles |
| Webhook worker (`webhook_worker.py`, `messaging/`, `webhooks/delivery.py`) | RabbitMQ queues, `processed_messages`, `webhook_deliveries` | deduplicate, resolve subscribers, POST, record, ack, retry, dead-letter | concurrent copies of one event, rollback after requests were sent, crash between retry and ack, dead delivery tags | one record per subscription, repeats only after rollback, no message lost, everything ends |
| Authentication (`auth/`) | families of `refresh_sessions` | login, refresh (rotation), logout, logout everywhere, revoke one session | `SELECT FOR UPDATE` against plain UPDATEs under READ COMMITTED, deadlocks | one usable token per family, a closed family stays closed, revocations reach what they saw |
| Task service (`tasks/`) | `tasks.version`, status history, comments, outbox rows | create, optimistic update, delete, comment | read, then conditional write; history and events in the same transaction; two deletions | no lost update, an unbroken history, every change has its event |
| Organizations, webhook subscriptions (`organizations/`, `webhooks/service.py`) | memberships and roles, subscriptions | create, change role, remove, subscribe | roles are read without a lock and written later | the founder stays owner, unlocked reads hurt only requests in flight |
| Users, organizations, projects: unique keys | unique indexes | look, then insert | requests that pass the check together | the constraint decides; no twins in another spelling |
| Rate limiter (`infrastructure/rate_limit.py`), HTTP application (`main.py`) | a Redis counter per client and path; the order of the middleware | INCR, EXPIRE, admit, reject | two commands, a timeout that fails open, Redis restarts, which layer sees which exception | the limit holds, counters go away, answers and metrics agree |
| Schema and migrations (`alembic/`, `*/models.py`) | tables, enum types, `alembic_version` | six revisions up and down | concurrent, deadlocked and killed commands, data written between revisions | the schema is that of its revision, at the head that of the models |
| Demo data (`scripts/seed_demo_data.py`) | fourteen sets of rows | one transaction of INSERTs and upserts | order against foreign keys, names taken by others | fills a migrated database |
| Configuration, logging, tracing, containers | none that a property sees | | | not modelled |

The components interact only through the database, the broker and Redis: services write
`outbox_events` in the transaction of the change they report, the outbox worker turns
rows into messages, the webhook worker turns messages into requests and rows. A task
request reads memberships that organization requests change; `TaskService` lets them change
at any moment.

## 2. Modules

| Module | Kind | What it is |
|---|---|---|
| `AtLeastOnceOutbox` | abstract specification | what the outbox promises the API |
| `OutboxWorker`, `OutboxWorkerProofs` | component, proofs | any number of outbox workers over one table |
| `OrderlyOutbox` | component with a history variable | has every step been orderly so far; states `OrderKept` |
| `EventDelivery` | abstract specification | what the webhook worker promises the subscribers of an event |
| `WebhookConsumer`, `WebhookConsumerProofs` | component, proofs | handlers of webhook workers over the queues and the database |
| `ConnectedConsumer` | component with a history variable | have worker and connection held so far; states `RetriesConserve` |
| `Pipeline` | composition (proofs in `WebhookConsumerProofs`) | an event from its commit to the subscribers, with the promise of the outbox in front of the webhook workers |
| `EventPath` | composition (proofs in `OutboxWorkerProofs`) | the same with the outbox workers themselves; implements `Pipeline` |
| `TokenFamilies` | abstract specification | what refresh-token rotation promises |
| `AuthSessions`, `AuthSessionsProofs` | component, proofs | requests over `refresh_sessions` |
| `VersionedTask` | abstract specification | a task as an atomic object with a version |
| `TaskService`, `TaskServiceProofs` | component, proofs | requests over one task, its history, comments and events |
| `GuessedVersions` | component with a history variable | has a client named a version it was not told of; states `HistoryIsChain`, `CreatedAtFollowsVersions` |
| `Membership`, `MembershipProofs` | component, proofs | requests over the roles of one organization |
| `UniqueInsert`, `UniqueInsertProofs` | component, proofs | look, then insert, over one table with unique indexes |
| `HttpStack` | operators | the layers of the application and what becomes of an error |
| `RateLimiter`, `RateLimiterProofs` | component over `HttpStack`, proofs | the counter of one client and path, and the answer of a request |
| `Schema`, `Revisions` | data, operators | the tables of the models; the migration scripts as sequences of operations |
| `SchemaMigrations`, `SchemaMigrationsProofs` | component over them, proofs | alembic commands on one database |
| `DemoSeed` | component over `Schema` | the statements of the seed script |
| `MC*` | TLC | values for constants, symmetry |

Every request to the API is one READ COMMITTED transaction, and the modules share one way to
write that. A statement is an action that sees committed rows. A row lock is held until the
transaction ends; an action that needs it is guarded by its being free, which is how the
request waits. Nothing is written until the commit action, which is atomic. `Abort` is the
rollback of `get_db_session` after any failing statement.

### OutboxWorker

`status`, `attempts`, `due` are the columns of a row; `due` is "next_attempt_at is NULL
or has passed", so the length of a backoff (`min(300, 2**attempts)` s) is abstracted to
"later". `pc`, `batch`, `cur` are the locals of `process_outbox_once`. `accepted` counts
the copies the broker took; no program variable holds it.

| Code | Action |
|---|---|
| request commits a row | `Enqueue` (in any order against `created_at`, which is the start of the transaction) |
| `claim_pending`: SELECT FOR UPDATE SKIP LOCKED | `ClaimPending`, with `Locked` / `Claimable` / `OldestBatch` |
| commit or rollback of the claim | `CommitClaim`, `ClaimFails` |
| `for event in events` | `TakeNext`, `FinishBatch` |
| `publisher.publish` | `BrokerAccepts`, `Confirmed`, `PublishRaises` (before or after the broker took it) |
| `mark_processed` and its transaction | `MarkProcessed`, `MarkProcessedFails` (inside the `try`) |
| `except Exception`: `mark_failed_or_retry` | `MarkFailedOrRetry`, `HandlerFails` (leaves the rest of the batch) |
| start, SIGTERM, kill | `Start`, `Shutdown` (only between batches), `Crash` |

A transaction that fails has no effect; a commit whose answer is lost is not modelled
separately (for a claim it is the crash after the commit, with the rows stranded). After a
failed `mark_processed` the session has expired the row and the handler's access to
`event.id` may itself raise; the model lets the handler either settle the event or fail,
which includes both. `publish` means the exchange accepted the message; whether a queue is
bound to it is the business of `Pipeline` and `EventPath`. The batch is a set with the order of `created_at`; ties
come in any order, as in the query.

### WebhookConsumer

`ready`, `parked`, `dlq` count the copies of an event in `webhooks.events`, the retry queues
and the dead-letter queue; the three retry queues are one function of the retry count.
`processed`, `recorded` are the committed rows of `processed_messages` and
`webhook_deliveries`. `job[h]` is one running `process_message`: where it is, its message,
whether its delivery tag is still valid, and the rows its open transaction has added. `posts`,
`skipped`, `aborts`, `sent` are history and guard nothing but the bound on copies.

| Code | Action |
|---|---|
| body validation | `Receive` (a malformed body goes to `Reject`) |
| `try_mark_processed` | `TryMarkProcessed`: duplicate, or acquire, or wait for the uncommitted row of another handler |
| `resolve_task_organization_id`, `list_active_for_event` | `ResolveSubscribers` |
| delivery loop | `Post`, `Skip` (no secret, unsafe URL, failing DNS), `DecryptFails` |
| end of `session.begin()` | `Commit`, or `Abort` from `DatabaseFails`, `DecryptFails` |
| SQLAlchemyError / other exception | `DatabaseFails` to "retrying" / "rejecting" |
| `handle_retry` | `ScheduleRetry`, `RetriesExhausted`, `RetryFails` (the exception leaves the message unacked: "stuck") |
| `ack`, `reject(requeue=False)` | `Ack`, `Reject`; with a dead delivery tag they change nothing |
| TTL of a retry queue | `Expire` |
| killed, or stopped with handlers running | `Crash` |
| channel closed | `ConnectionLost`: messages return to the queue, handlers run on |

`RetryableWebhookError` and `NonRetryableWebhookError` are raised nowhere in the source, so
their branches are reached only through the other exceptions of the same clauses. In the
branch for SQLAlchemyError, `publish_retry` calls `get_exchange` on a *cast* of
`message.channel`; whether the library's object has that method is not visible in this
repository, so the outcome is nondeterministic (`ScheduleRetry` or `RetryFails`).
Subscriptions are a constant set: nothing in the code deletes or disables one, and one that
is created later is only a larger set.

`DeliversEvents` is the refinement of `EventDelivery`: `Publish` maps to `Offer`, `Post` to
`Tell`, `Skip` to `Pass`, `Commit` to `Settle` with the rows of the handler, `DeleteTask` to
`RemoveTask`; queues, handlers, retries, rollbacks and every fault are stutters.

### Pipeline, EventPath

`Pipeline` puts the workers behind one another. Of the outbox it has what `AtLeastOnceOutbox`
promises (`phase`, `copies`); of the webhook workers it has the whole of `WebhookConsumer`. The
publisher declares the exchange only, the webhook worker declares and binds the queues; `bound`
is that this has happened. Queue and binding are durable, so it happens once. `early`, the
events committed before that, is history.

| Code | Action |
|---|---|
| `update_task`, `delete_task` commit the change and its event | `CommitEvent`, with `ChangeTask` |
| `publish` with confirms, `mandatory=True` | `Transmit`: the exchange accepts a copy, and `Route` queues it or, without a queue, returns it to a publisher that does not look |
| `mark_processed`, the last `mark_failed_or_retry` | `SettleRow` |
| `declare_webhook_topology` | `DeclareTopology` |
| all of the webhook worker | `Consume` |

`EventPath` has the rows and workers of `OutboxWorker` in the place of the promise: `Enqueue`
goes with `ChangeTask`, `BrokerAccepts` with `Route`, and every other step of an outbox worker
(`WorkerStep`) touches nothing outside. It is the module that is run; `Pipeline` is the step
between it and the two abstract specifications.

### AuthSessions

A row is "absent", "live" (`revoked_at` is NULL) or "revoked"; `family` and `successor` are
`family_id` and `replaced_by_jti`; `expired` is the clock passing `expires_at`, which is also
the `exp` of the token. `kills` are the rows a transaction has set `revoked_at` of, hence has
locked; `todo` are the rows its UPDATE has still to visit.

| Code | Action |
|---|---|
| request accepted, token decoded | `Login`, `Refresh`, `Logout`, `LogoutAll`, `RevokeSession` |
| `get_by_jti_for_update` and the checks after it | `LockSession`, in the order revoked, expired, wrong hash |
| user read and checked, old row revoked | `CheckUser` |
| `revoke_family`, `revoke_all_for_user` | `BeginUpdate` (snapshot), `UpdateRow` (one row, its lock, the WHERE clause again), `EndUpdate` |
| the ORM's UPDATE of a row read without a lock | `FlushRow` |
| commit | `Commit`; `CommitIssue` also inserts the row of `_issue_token_pair` |
| rollback, PostgreSQL's deadlock detection | `Abort`, `DeadlockVictim` |
| `expires_at`, `User.is_active` | `Expire`, `SetActive` (no endpoint writes the flag: it stands for SQL and the seed) |

The hash of a presented token matches or not (`Altered`). `seen` (rows committed when an
UPDATE began) is history, for `RevocationCoversSnapshot`.

### TaskService

One task. `holder` is the request that has its row locked, `granted` the versions that
accepted updates named (history), `clock` the source of `now()`, fixed by the first statement
of a transaction.

| Code | Action |
|---|---|
| `create_task`, `update_task`, `delete_task`, `add_comment` called | `Create`, `Update`, `Delete`, `Comment` |
| `get_accessible_task` / `get_accessible_project` | `Read`, `NotFound` |
| project again, `_validate_assignee` | `Validate`, `Invalid` |
| `update_if_version_matches` | `UpdateRow`, `Conflict` (409) |
| `session.delete` and its flush | `DeleteRow`: a row that is gone is only a warning of SQLAlchemy, the request goes on and writes a second `task.deleted` |
| INSERT of a comment | `InsertComment`, `NoReference` (foreign key) |
| history, outbox rows, commit | `CommitCreate`, `CommitUpdate`, `CommitDelete`, `CommitComment` |
| rollback | `Abort` |
| memberships | `AddMember`, `RemoveMember` |

Title, description and the like are what an update changes when it names neither status nor
assignee. Reads (list, history) change nothing and are left out.

### Membership, UniqueInsert

`Membership`: `Check` and `Deny` are `_require_admin`, `ReadTarget` and `Reject` the read of
the other member and the protection of owners, `Commit` the write by key. An ORM UPDATE whose
row is gone fails the request, a DELETE whose row is gone only warns, and an unchanged role
sends no UPDATE: `Written`. No endpoint adds a member; `AddMember` stands for the seed and SQL.

`UniqueInsert` is one table: `users` (email, username), `organizations` (slug) or `projects`
(key). `Look` are the lookups of the service, `AlreadyExists` its error, `Enter` one unique
index taking the new row (it waits for an uncommitted equal entry), `Violation` the
IntegrityError. `Normalised` lowers what a validator lowers; a username stays as typed.

### HttpStack, RateLimiter

`Layers` is the order that `add_middleware` and the exception handlers make. `StatusOf` and
`CountedStatus` say what a client gets, and what `flowforge_http_requests_total` counts, for an
error raised in a layer. `RateLimiter`: `Incr`, `Expire`, `FailOpen` (timeout or error, with or
without effect), `Admit`, `Reject`, `Handle`; `WindowEnds` and `RedisRestart` (append-only file:
the commands of the last second may be lost) are Redis. `admitted` and `late` are history.
Health checks pass unlimited; `GET /metrics`, neither limited nor counted, is left out.

### Schema, Revisions, SchemaMigrations, DemoSeed

`Schema` has the fourteen tables of the models: key, columns by nullability, unique sets,
foreign keys with their ON DELETE, indexes. Types and lengths are left out; enum types are kept
as names, because `op.create_table` creates them and `op.drop_table` does not drop them.
`Revisions` has the six scripts as operations: `Succeeds` says when PostgreSQL accepts one,
`Named` and `Referred` what it locks before (what it makes, alters or drops, then the tables
that foreign keys refer to), `After` what it does.

`SchemaMigrations` runs them. `env.py` takes no lock of its own (lines 69-72): alembic SELECTs
the version, and its row is locked by the UPDATE behind the first script. So nothing but the locks of
the statements keeps two commands apart, and scripts that touch different tables overlap. `held`
is what a command has locked, `work` what its transaction has made of that, `Seen` and `Current`
what it sees (READ COMMITTED: its own work under its locks, what is committed elsewhere). `Begin`
reads the version, `Lock` takes a lock that the next statement wants, as soon as it is `Free`,
`RunStatement` executes the statement, `UpdateVersion` moves `alembic_version` when the script is
over, if the revision the command believes in is still there. `Fail`, `Kill` (between any two
steps), `Commit`. `WaitsFor` and `Circle` are deadlocks, and `DeadlockVictim` PostgreSQL giving
up one transaction of a circle. They do occur: from `463c1b611628` an upgrade holds
`outbox_events` and waits for the row of the version, while a downgrade has altered
`processed_messages`, moved the version and waits for `outbox_events`. `ReadTable`,
`WriteEvent` and `EndRequest` are a request of the API, which keeps what it has read locked
against commands until it ends, and may close a circle too.

`Promised(n)` are the tables that revision `n` stands for, defined from the models and not from
the scripts, but for two shapes of tables that a later revision alters, `FirstOutboxEvents` and
`FirstProcessedMessages`, which are those of `Revisions`.

Simplified are: the table `alembic_version` is there from the start (two first upgrades meet at
the type `user_role` instead of at the table); `user_role.create(checkfirst=True)` looks and
creates in one step; locks of commands and requests all conflict (in the code a request that only
reads `users` does not stop a CREATE TABLE that refers to it, so the model waits, and deadlocks,
at least as often); `Fail` may come before a lock the failing statement would have waited
for; `RequestTables` leaves out what a request uses between `users` and `tasks`.

`DemoSeed` executes the
statements of `main` against the keys and foreign keys of `Schema`, beside registrations.

## 3. What the runs check

| Run | Question | Properties | Distinct states |
|---|---|---|---|
| `outbox_safety` | two workers, three events (two with one `created_at`), batches of two, every fault | `SingleOwner`, `DuplicatesAreCounted`, `GivenUpWhenExhausted`, `OrderKept`, `StrandedForGood`, `StrandedByFaults`, `KeepsPromise`, `SettlesOrStrands` | 219 thousand |
| `outbox_reliable` (violation) | is the queue reliable across a crash | `EveryEventSettles` | |
| `consumer_safety` | two copies each of two events (one malformed), two workers, a good subscription, one whose secret does not decrypt and one with an unsafe URL, two faults of any kind | `DeliversEvents`, `RepeatsNeedRollback`, `NoMessageLost`, `ProcessedReachedSubscribers`, `RetriesConserve` | 994 thousand |
| `path_live` | from the commit of an event and of a `task.deleted` to the end of both: an outbox worker with every fault, the queue declared at any time, two handlers, one fault of the process, the database or the broker | `ProcessedIsAccounted`, `ToldIsCommitted`, `CommittedIsHandled` | 252 thousand |
| `auth_safety` | two requests of any kind, three sessions, altered and expiring tokens, failures, deactivation | `SingleLive`, `ChainRecorded`, `RevocationCoversSnapshot`, `SomeoneProceeds`, `RotationIsSafe` | 144 thousand |
| `task_safety` | two requests of any kind, two users who come and go, failures at any point | `NoLostUpdate`, `HistoryIsChain`, `EventsTellChanges`, `CreatedAtFollowsVersions`, `SomeoneProceeds`, `IsVersionedTask` | 1.0 million |
| `member_roles` | two requests among three users | `FounderStaysOwner`, `OwnershipLostOnlyInFlight`, `RemovedStaysOut` | 327 thousand |
| `unique_users` | three registrations, two unique columns, one normalised | `NoDuplicates`, `NoTwins`, `RefusedOnlyIfTaken` | 113 thousand |
| `limit_safety` | two requests of one client, Redis failing and restarting, processes killed | `WithinLimit`, `CountedAsAnswered`, `StuckByFaults`, `WindowsEnd` | 15 thousand |
| `limit_status` (violation) | is a client over the limit answered 429 | `RejectedWith429` | |
| `migrations` | two commands over six revisions, lock by lock, deadlocked or killed at any point, beside a request of the API | `SchemaServesRevision`, `FailsOnlyForCause`, `EventsSurvive` | 86 thousand |
| `seed_fresh` (violation) | does the seed script fill a migrated database | `FillsMigratedDatabase` | |

What the violations show:

* `outbox_reliable`. `claim_pending` commits PROCESSING before the publish and later selects
  PENDING rows only. A worker killed in between leaves the row PROCESSING for ever.
  `HandlerFails` does the same to the rest of a batch with no crash at all. `SettlesOrStrands`
  and `StrandedByFaults` show that this is the only way to lose an event, and `StrandedForGood`
  that nothing ever rescues such a row.
* `limit_status`. `RateLimitExceededError` is raised by a middleware, outside the layer that
  runs the handler of `AppError`. The outermost layer answers it: 500, not 429. `RejectionsAnswered500` proves that every rejection ends so.
* `seed_fresh`. The script inserts `webhook_deliveries` before the `webhook_subscriptions` they
  refer to. On a database that has only been migrated the foreign key fails and the whole
  transaction is rolled back.

### What the code does not promise

Some promises one might expect are false of this code and documented nowhere. The properties
are worded around them, and each wording marks the place.

* A refused POST is recorded and never retried: the retry ladder serves database errors.
  `ProcessedReachedSubscribers` therefore counts requests, not answers.
* `task.deleted` reaches nobody: the organization of an event is read through its task, which is
  gone. This is the premise `Subject[e] \in tasks`, and the last conjunct of `ToldIsCommitted`.
* An event published before the queue is first bound is gone, although its row is PROCESSED. The
  premise `e \notin early` of `ProcessedIsAccounted` excepts the events committed before that.
* A message whose `publish_retry` fails stays unacknowledged until the channel closes (`Stuck` in
  `CommittedIsHandled`).
* A revocation (reuse of a token, logout everywhere) misses a session that a concurrent request
  commits after the UPDATE took its snapshot: `RevocationCoversSnapshot` is about `seen`.
* A client that names a version it was not told of may be accepted although the status it
  changed was read before: the history then has a break, and events bear times out of order.
  The history variable `guessed` in `GuessedVersions` excludes that, and only that.
* Events of one task may be published out of the order of their commits, since the claim orders
  by `created_at`; `orderly` in `OrderlyOutbox` says when they are not. Deletions are excepted
  from `CreatedAtFollowsVersions`, as two of them may both report the task gone.
* An assignee may have left the organization by the time the task is committed. Nothing weaker
  is left to check, so no property covers it.
* A member promoted to owner while a request that read his old role is in flight loses the role
  to it (`OwnershipLostOnlyInFlight`); an actor demoted after `_require_admin` still acts.
* A fault between INCR and EXPIRE leaves a counter without an expiry: the client is turned away
  from then on (`StuckByFaults`, `WindowsEnd`).
* After a downgrade below `458a51aab222` the next upgrade fails: the enum types are still there
  (`FailsOnlyForCause`).

### Bounds

* Outbox: `MaxAttempts` is 2 (5 in the code): the smallest value with both a retry and an
  exhaustion. Batches of two against three events leave one over, so that two claims compete.
  Crashes are not bounded: a stranded event is never published again, so the state space is
  finite as it is.
* Webhook: `MaxRetries` is 1 (3 in the code) against two faults: two failures of the database take
  a message up the ladder and into the dead-letter queue. `MaxCopies` is 2: a duplicate.
  `MaxFaults` caps disturbances, without which a crash loop would multiply copies for ever. Two
  handlers compete for one event, in two workers: one crashes, the other goes on. The history
  variable `connected` of `ConnectedConsumer` restricts `RetriesConserve` to behaviours without a
  crash or lost connection, which do multiply copies.
* Path: `MaxAttempts` is 1 and `MaxFaults` 1, the most that two events leave room for: the row is
  given up at its first failure, with or without a copy in the queue, and duplicates come from lost
  connections. Outbox retries and second copies are in `outbox_safety` and `consumer_safety`. Both
  handlers run in one worker. The faults of the outbox worker are not bounded.
* Auth: one user (families of several users do not interact but for the scope of a logout-all,
  which the proofs cover), three sessions: a login and two rotations, or two families. `Spare`
  is the bound: a request that may issue a token begins only while an unused session is left.
* Task: `MaxStarts` is 3 transactions after their first read. That is a creation and two
  updates, or an update against a deletion; two are open at once.
* Membership: three users, of whom the founder is one. `MaxWebhooks` is 1. Requests are not
  bounded.
* Unique inserts: `MaxRows` is 2 committed rows before the last start; three requests, so that
  one can fail while two wait for it.
* Rate limit: `Limit` is 2; `Limit + 1` stands for every larger count. Windows and faults are not
  bounded.
* Migrations: one event, written by one request. Scripts treat all rows of the outbox alike, so
  all events are bare or none is, and a second one adds only mixtures of events with a correlation of
  their own and events that got their id as one; the proofs cover any number. Two commands make
  every pair of scripts meet; circles of three need the proof of `NoCircle`. Commands follow each
  other without bound.
* `CHECK_DEADLOCK FALSE` in `consumer_safety`, `path_live` and `unique_users`: with all copies handled, or all rows
  inserted, the model stops where the program waits for more work.
* Symmetry is used on requests, users, sessions, names, commands and events of runs without
  liveness, where `Init`, `Next` and the properties treat their members alike.

### Fairness, and waiting

* Outbox: `WF(Advance(w))`, a running process takes its next step and an awaited publish
  returns or raises; it assumes that no broker call hangs for ever, since the code sets no
  timeout on it. `SF(ClaimPending(w))`, because `run_outbox_loop` enters
  `process_outbox_once` before it reads `stop_event` again. `WF(BackoffElapses(e))` is time.
  Nothing is assumed of `Enqueue`, of faults or of `Shutdown`. `FaultsCease` is a premise of
  the properties, not of the specification, so that a counterexample cannot be an endless
  series of crashes.
* Webhook worker: `WF(Handle(h))` (requests have a timeout) and `WF(Expire)` (TTL). No fairness
  on reconnection: a stuck message may wait for ever. `path_live` assumes what both workers do;
  nothing is assumed of `DeclareTopology`, for no early event is promised anything.
* Rate limiter: `WF(WindowEnds)` is Redis deleting expired keys, `WF(Proceed(r))` a request
  served on (commands have a timeout).
* `SomeoneProceeds` in `AuthSessions` and `TaskService` is freedom from deadlock among requests:
  while one is open, some request can take a step that is neither a failure nor a new arrival
  (`Proceed`). `NobodyWaitsForAll` says so with the guards written out (`MayProceed`), and is
  proved; that `MayProceed(r)` is `ENABLED Proceed(r)` is the second conjunct, and left to TLC.
  In `AuthSessions` the circle of two UPDATEs does occur, and `DeadlockVictim` is PostgreSQL
  breaking it.

## 4. What is proved

Eight modules of proofs, for every value of the constants that their assumptions allow (named in
the component's module, evaluated by TLC in every run of it): any set of events, workers,
handlers, requests, users, sessions, commands, any limit and any bound. The data of
`SchemaMigrations`, the models and the six scripts, are those of the source.

Every invariant and every action property of a passing run has its theorem, but for the second
conjunct of the two `SomeoneProceeds`. The type invariants are proved and no longer run, and so are
`RecordedOnce`, which `DeliversEvents` contains, and `PublishedIsAccounted`, which
`ProcessedIsAccounted` takes from the row.

| Module | Theorem | Statement |
|---|---|---|
| `OutboxWorkerProofs` | `TypeCorrect` | `[]TypeOK`, with at most `MaxAttempts` copies of an event |
| | `EventsHaveOneOwner` | `[]SingleOwner` |
| | `PublishedBeforeProcessed` | `[](ProcessedWasAccepted /\ DuplicatesAreCounted)` |
| | `GivesUpExactlyWhenExhausted` | `[]GivenUpWhenExhausted` |
| | `StrandedRowsStay`, `OnlyFaultsStrand` | `StrandedForGood`, `StrandedByFaults` |
| | `OrderIsKept` | `OSpec => []OrderKept` |
| | `WorkersKeepPromise` | `KeepsPromise`, the refinement of `AtLeastOnceOutbox` |
| | `PathRunsOutbox`, `PathFollowsPipeline` | `ESpec => Spec`, `ESpec => FollowsPipeline`: the composition is a set of outbox workers, and implements `Pipeline` |
| | `ProcessedAccounted`, `PathTellsCommitted` | `ESpec => []ProcessedIsAccounted`, `ESpec => []ToldIsCommitted` |
| | `PathKeepsPromises` | `ESpec => KeepsPromise /\ Webhooks!DeliversEvents` |
| | `PathHoldsNothingBack` | whenever a worker publishes, the guards of the queue's side hold |
| `WebhookConsumerProofs` | `TypesHold` | `[]TypeOK`: no queue gives a copy it does not have |
| | `RecordedAtMostOnce` | `[]RecordedOnce` |
| | `RepeatsAreRollbacks` | `[]RepeatsNeedRollback` |
| | `MessagesKept` | `[]NoMessageLost` |
| | `SubscribersReached` | `[]ProcessedReachedSubscribers` |
| | `RetriesConserveMessages` | `CSpec => []RetriesConserve` |
| | `WorkersDeliverEvents` | `DeliversEvents`, the refinement of `EventDelivery` |
| | `PipelineConsumes` | `PSpec => Spec`: the composition is a webhook worker |
| | `PipelineKeepsPromises` | `PSpec => Outbox!ASpec /\ DeliversEvents` |
| | `PublishedAccounted`, `ToldCommitted` | `PSpec => []PublishedIsAccounted`, `PSpec => []ToldIsCommitted` |
| | `NothingHeldBack` | whenever the outbox may hand over a copy, the queue may take it |
| `AuthSessionsProofs` | `TypesHold` | `[]TypeOK` |
| | `FamilyHasOneToken` | `[]SingleLive` |
| | `ExchangesAreRecorded` | `[]ChainRecorded` |
| | `RevocationReaches` | `[]RevocationCoversSnapshot` |
| | `NoDeadlock` | `[]NobodyWaitsForAll` |
| | `SessionsImplementFamilies` | `RotationIsSafe`, the refinement of `TokenFamilies` |
| `TaskServiceProofs` | `TypesHold` | `[]TypeOK` |
| | `UpdatesAreNotLost` | `[]NoLostUpdate` |
| | `EventsAreTold` | `[]EventsTellChanges` |
| | `HistoryIsUnbroken`, `TimesFollowCommits` | `GSpec => []HistoryIsChain`, `GSpec => []CreatedAtFollowsVersions` |
| | `NoDeadlock` | `[]NobodyWaitsForAll` |
| | `TaskIsAtomic` | `IsVersionedTask`, the refinement of `VersionedTask` |
| `MembershipProofs` | `TypesHold` | `[]TypeOK` |
| | `OwnerRemains` | `[]FounderStaysOwner` |
| | `OwnersLoseInFlight`, `RemovedMembersStayOut` | `OwnershipLostOnlyInFlight`, `RemovedStaysOut` |
| `UniqueInsertProofs` | `TypesHold` | `[]TypeOK` |
| | `ValuesAreUnique`, `ValuesHaveNoTwins` | `[]NoDuplicates`, `[]NoTwins` |
| | `RefusalsHaveCause` | `RefusedOnlyIfTaken` |
| `RateLimiterProofs` | `TypesHold` | `[]TypeOK` |
| | `LimitIsKept` | `[]WithinLimit` |
| | `AnswersAreCounted`, `RejectionsAnswered500` | `[]CountedAsAnswered`; every answer to a rejected request is 500 |
| | `CountersStayByFaults` | `StuckByFaults` |
| `SchemaMigrationsProofs` | `SchemaAlwaysServes` | `[]SchemaServesRevision` |
| | `FailuresHaveCause` | `FailsOnlyForCause` |
| | `EventsAreKept` | `EventsSurvive` |

Next to none of the properties is inductive; each proof rests on what a request in the middle
knows.

* Outbox. A claim might take a row another worker holds unless such a row is locked or
  PROCESSING, and a bound on copies needs to know at which step of the loop a worker is.
  `WorkersAgreeWithRows` says both; `AbsentIsFresh` gives new rows a clean start. `Enqueue`,
  `BrokerAccepts`, `MarkProcessed` and the exhausting `MarkFailedOrRetry` map to `Submit`,
  `Transmit`, `Complete` and `Abandon`; every other step stutters. `OrderKept` needs the order of
  all rows, not only of the published ones: by `OrderedRows` no row is committed, claimed or
  processed before an older one, and by `OrderedBatch` there is one batch and the event in hand is
  the oldest that is left of it.
* Webhook. `OneTransaction` and `AcquiredIsNew`: of all handlers of an event one has its
  uncommitted row, and none once it is processed. `LoopState` is the delivery loop: subscriptions
  to do and done are apart, and every one it need not go to any more was posted to or skipped.
  `PostsAccounted` pays for every request with a rollback or with the open transaction.
  `Retained` is stronger than `NoMessageLost`: a handler that is about to acknowledge is not
  needed. Most steps are outside of every transaction (`OutsideSteps`), rollbacks of one handler
  or of a whole worker are one lemma (`RollbackDeliveries`). `RetriesConserve` counts: with the
  connection up every handler's tag is valid (`AllLive`), and each step of the ladder moves one
  copy between two of the counted sets (`HandlerConserves`), whose cardinalities change by one
  because the queues, written as sets of numbered copies, are finite (`QueuesFinite`).
* Delivery. A step of a handler is one of `EventDelivery` only if what the handler holds was offered
  (`Given`: nothing is in a queue or in hand that was not published, and no deletion before its
  task is gone) and its delivery is for all subscriptions or, for a task that is gone, for none
  (`Whole`). `Settle` needs one record each, so the simulation uses `IInv` as well.
* Pipeline. `PipelineConsumes` is a simulation, so whatever is proved of the webhook worker holds
  behind the outbox. What relates the two is `Forwarded`: copies accepted and copies queued are the
  same number, but for early events, whose copies may have been returned. `Told` carries the
  addressee of every request back to the publication of its event. `NothingHeldBack` shows that
  the conjunction of two specifications in `Transmit` disables neither: the guard of `Publish` is
  no restriction of the outbox.
* Path. `EnqueueSubmits`, `AcceptTransmits` and `WorkerStepSettles` say which step of the promise a
  step of a worker is; together they give `KeepsPromise`, and joined with `ChangeTask` and `Route`
  the steps of `Pipeline`. The theorems about `Pipeline` are then used as they are, through
  `Webhooks`, an instance of `WebhookConsumerProofs` whose assumptions are those of `EventPath`
  (`WebhookAssumption`). `SameConsume` and `SameStep` only say that two instances of one module
  mean the same.
* Auth. `LocksAreExclusive` (two transactions hold no row together), `Refreshes` and
  `ExchangedIsLive` (a refresh past its check holds a row that is still live until it commits),
  `FamilyIsIssued` (a family is that of a committed row), `Covers` (what an UPDATE has not
  revoked of its snapshot it still has to visit), `Chained` (a row that can still be exchanged
  names no successor). For `NobodyWaitsForAll`, were nobody to proceed, every open request would
  wait for a row whose holder waits too: all of them together are a circle, and `DeadlockVictim`
  goes on after all. `Room` pays for the other way to wait: requests that may issue a token are no
  more than the free tokens.
* Task. `UpdatesHold`: an update that has passed `Matches` holds the row, so its version is still
  the one it named at the commit. `DeletesHold`: a deletion that removes the row holds it. `Told`
  counts the events of each type against the versions and the history. `Informed` is what an
  update without a guess knows after its first read: the version it names is no later than the
  one it read, and while that one stands, so does the status it read, and the events there are
  were created before it began; `Past` keeps all times up to now. `NobodyWaitsForAll` follows since who holds the row waits for nothing.
* Membership. `FounderWasSeen`: whoever is about to write the founder's role read "owner", and
  `WasAllowed`: what is about to be written was allowed by the role that was read.
* Unique inserts. `EntriesAreNew` and `EntriesAreApart`: an entered index value is neither
  committed nor entered by another request; `TableNormalised`: rows are normalised before they
  are looked up. `FoundIsTaken`: what a look has found stays, since rows only join the table.
* Rate limit. `TicketsWithin`: requests that got a value within the limit and are not yet
  admitted hold a ticket; tickets and admitted requests together exceed neither the counter nor
  the limit.
* Migrations. `Places`: no two commands hold a lock, what a script has changed is locked
  (`Touched`), and who has moved the version holds it until it ends, so only one such command
  can be under way. `Sound` relates the open transaction to the script. `Sees`: before its first
  update of the version a command sees the committed tables, but for those its script has
  changed; afterwards exactly half of a migration, and nobody else can commit. `Abreast`: unless
  another command has committed since it read the version, it still finds it; `HalfServes` then gives
  the same half in the first case. `TypesAccounted` and `EventsKept` say the same of enum types and
  events. `CommitSpares`, what a command has locked no commit of another changes, carries all this
  over commits. That a statement of a half executed script then succeeds
  is a lemma about the data for each script, read statement by statement (`UpgradeStatements`,
  `DowngradeStatements`, on `References`, the foreign keys of the models), as is that a script
  whose statements are over has reached its revision (`UpgradeDone`, `DowngradeDone`) and that
  the tables the scripts make are those of the models (`ScriptsMakeModels`).
  `FailuresHaveCause` also needs that commands in their first scripts make no circle
  (`NoCircle`): `Reaches` says what each script locks first and at all (`Region`), `HoldsRightly`
  that it creates what is not there and the others hold what is. Two first upgrades meet at
  `users` in one order; of the other scripts at most one command each holds anything, and two
  scripts that overlap share only `users`, which would have to be held by both.

Model-checked only: liveness (`SettlesOrStrands`, `EveryEventSettles`, `CommittedIsHandled`,
`WindowsEnd`) and that `MayProceed` is ENABLED `Proceed`, both out of the prover's reach; and
`DemoSeed`, whose one run shows a violation.

## 5. Not modelled

* Payloads, signatures, SSRF checks beyond "usable or not", passwords and JWT encoding, request
  and response schemas, logging, tracing, settings validation, container files. No property
  tells their values apart; where one decides control, its outcome is a nondeterministic choice.
* Reads: lists, task history, health checks.
* `audit` and `idempotency`: tables that no code uses. Their declarations and migrations are in
  `Schema` and `Revisions`.
* A commit whose answer is lost, and statements that see different snapshots inside the small
  reads that one action stands for (`Login`, `Refresh` up to the row lock).

## 6. What is left

1. The promise of `TaskService` that a change has its events (`EventsTellChanges`) in front of
   `EventPath`, for one statement about what a subscriber is told of a task.
2. Two users in `AuthSessions` runs, three retries in the runs of `WebhookConsumer`.
