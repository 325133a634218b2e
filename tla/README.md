# Balotly backend: TLA+ models and proofs

Balotly is a paid-voting backend: a FastAPI application, PostgreSQL through
SQLAlchemy and Alembic, RabbitMQ through aio-pika, Redis, and background workers
that run inside the API process. At this commit the HTTP routes for checkout and
webhooks and the workers themselves are not written yet. The logic that exists is
the machinery they will stand on: the supervisor of the embedded workers, the
shared broker connection, the start and stop of the application and its health
check, the way a container finds and migrates its database, the connection pool,
the vault and the password checks, and a database schema that carries the payment
guarantees. That is what is modelled here.

## Inventory

| Component | Source | State | Operations |
|---|---|---|---|
| Embedded worker runtime | `workers/runtime.py` | `_started`, `_statuses`, `_tasks`, `_lifecycle_lock`, one task per worker | `start`, `stop`, `_supervise`, `status_snapshot` |
| Restart backoff | `workers/runtime.py` | `_max_backoff_exponent`, `restart_count` | the delay before a restart |
| Broker client | `api/core/mq.py` | `_connection`, channels | `connect`, `close`, `_publish`, `publish_webhook_event` |
| Lifespan, health | `main.py` | `worker_runtime`, `app.state.worker_runtime` | startup, shutdown, `/health` |
| Schema | `alembic/versions/07f7b6151968_initial_schema.py`, `api/v1/models` | ten tables | any SQL statement |
| Migration run | the same, `alembic/env.py`, `Dockerfile`, `compose.yaml` | committed objects, `alembic_version`, open transactions | `upgrade`, `downgrade`, restart of a container |
| Database URL | `api/db/url.py`, `alembic/env.py`, `api/db/database.py` | environment, `.env` | `build_async_url`, the two ways to find the URL |
| Engine, sessions | `api/db/database.py` | connection pool | `get_db` |
| Cryptography | `api/core/security.py` | two cached values; what callers stored | vault, hashes, password checks |
| Settings, Redis client, errors, responses, logging, routes | `api/utils`, `api/core`, `api/v1/routes` | none of their own | |

How they interact: `lifespan` connects the broker, builds and starts the runtime,
and on the way out stops the runtime before it closes broker, Redis and engine.
Workers and requests share the broker connection and the pool. Nearly everything
runs on one asyncio event loop, so code between two awaits is atomic and the
interleavings are those of the awaits; every await can also end in an exception or a
`CancelledError`. The exception is `GET /health`, a plain function that FastAPI runs
in a thread: it can be interrupted, and interrupt, between any two assignments.
The database is the only place where two processes meet: containers that migrate it
at the same time, and statements, of which the constraints and triggers decide.

What is hard: cancellation (of a task that has not run yet, of one inside a
runner, of the task that is itself waiting in `stop`), state tested before an
await and assigned after it (`_connection`), partial failure of startup and
shutdown, delays at the limits of float arithmetic, cascades that start four tables
above a payment, migrations that race or are killed half way, columns that copy what
may change later, and stored secrets that outlive the keys. `PROJECT.json` lists each hazard at its line with the
properties that would catch it.

## Modules

| Module | Models | |
|---|---|---|
| `Backoff` | exponent cap and delay | operators only |
| `EmbeddedWorkerRuntime` | the runtime, its lock, its callers and supervisors | extends `Backoff` |
| `WorkerSupervision` | what `main.py` may rely on from the runtime | abstract specification |
| `BrokerConnection` | `mq.py` and the tasks that use it | |
| `Lifespan` | `lifespan()` | composes `WorkerSupervision` and `BrokerConnection` |
| `ForeignKeys` | which table refers to which | operators only |
| `Schema` | the ten tables and every statement on them | extends `ForeignKeys` |
| `Checkout` | the columns a checkout copies into a transaction | extends `Schema` |
| `Health` | `GET /health` and the memory it reads | extends `EmbeddedWorkerRuntime` |
| `Migration` | containers and operators that run alembic | extends `ForeignKeys` |
| `SchemaVersion` | what a migration promises | abstract specification |
| `DatabaseUrl` | the URL from the environment to the engine | |
| `Security` | `security.py`, over restarts | |
| `SessionPool` | `get_db()` and the pool | |
| `EmbeddedWorkerRuntimeProofs` | theorems on `Backoff`, `EmbeddedWorkerRuntime` and `Health` | extends `Health` |
| `BrokerConnectionProofs`, `LifespanProofs`, `SchemaProofs`, `MigrationProofs`, `DatabaseUrlProofs`, `SecurityProofs`, `SessionPoolProofs` | theorems | each extends the module it is named after |
| `MC...` | the instances TLC checks | |

A definition whose comment begins with "Mutant" is a deliberately wrong variant of
the definition after it. No specification uses it; putting it in the other's place
must make TLC report the property that `PROJECT.json` pairs it with.

### EmbeddedWorkerRuntime

One action is the code between two suspension points. `Start` is the whole of
`start()`, which never suspends once it has the lock. `Stop` is `stop()` up to the
`gather`, with the lock kept; `FinishStop` the rest. `asyncio.Lock` is first in,
first out (`Queue`, `ticket`). `live` holds the supervisor tasks that are not done,
each with the await it is suspended in (`at`) and whether a `cancel()` is
undelivered. `RunRunner` is the head of the `while` loop, `RunnerEnds` the three
ways `await runner_factory()` ends with everything up to the next await, and
`DeliverCancel` what the event loop does with a cancellation: a task that never ran
is done without its `finally`, a sleeping one goes through it, a running one gets
the error inside its runner. `CancelCaller` and `AbandonStop` are the cancellation
of a task that is itself inside `start()` or `stop()`: `gather` cancels its children
again and raises only when they are done, past the end of `stop()`.

Runners are outside the repository. `RunnerExits` and `CancelExits` say how one may
end by itself and after a cancellation; the runs choose them.

`restart_count` is never reset after a healthy run, only by the next `start()`; the
model keeps that.

A supervisor that is cancelled before its first step never reports itself, so "stopping"
is reset by the end of `stop()` alone. If that `stop()` is itself cancelled in the gather,
the status stays "stopping", and `_tasks` keeps the finished task, until the next `start()`.
`HealthReportIsTrue` says exactly this: a worker that is "stopping" is one whose task is
still in `_tasks`, with every live supervisor of it cancelled, and by
`NoSupervisorOutlivesStop` there is none left once the lock is free.

### Backoff

Seconds are whole ticks. `math.ldexp` is exact; `OverflowError` is a value above
`MaxFloat`. `ceil(log2(max) - log2(base))` may be one too high (4.8 and 2.4 give 2, not 1)
and, for a maximum a few float roundings above `base * 2^n`, one too low; `LogRounding` is
1, 0 or -1 accordingly. In the last case the longest delay is `base * 2^n`, short of the
maximum by what the rounding hid, `Slack`. The proofs hold for all three values;
`RuntimeAnyRunner` takes the exponent as rounded up, `RuntimeSupervision` as rounded down.

### BrokerConnection

A connection is unused, open, closing or closed. `is_closed` may answer either way
while `close()` is awaited. Every await of `_publish` may fail, and what it was about may
have happened all the same: a failed publish may have reached the queue, a failed
`connection.channel()`, which is outside the `try`, may have opened the channel, a failed
`channel.close()` may have left it. `outcome` records the await that raised, so that
`NoChannelLeak` can say that those two are the only ways to leave a channel behind. A
confirmed message is in the queue if the queue exists.

### Lifespan

The steps of `lifespan()` are actions of the task `Main`. The worker runtime
appears by its abstract specification, which `RuntimeSupervision` shows it
implements; the broker by the actions of `BrokerConnection`, used by `Main`, by the
workers and by requests. Whether workers are disabled, none is registered (as at
this commit), or the constructor raises is a free choice in `StartWorkers`. Each
`finally` step goes on to the next whatever its outcome. uvicorn lets requests end
before it asks for the shutdown; that is assumed.

### Schema

Tables are functions from the ids in use to rows. A row keeps its foreign keys and
the columns that unique indexes and two-column checks read. `Save...` is an INSERT
or an UPDATE of one row: what it may write does not depend on which, except on
`votes`, where the trigger refuses the UPDATE. `Delete` follows the ON DELETE rules
of the migration: `Doomed...` is what CASCADE takes, `RestrictedBy...` what stops it,
`Forget...` what SET NULL clears. That no reference is left dangling is PostgreSQL's own
doing and not stated. `Truncate` empties any set of tables that includes all tables that
refer to one of them (`Truncatable`, from `ForeignKeys`), as TRUNCATE with or without
CASCADE does; it fires no row-level trigger, and `votes_no_truncate` refuses it whenever
`votes` is among them. That leaves `subaccounts` and `settlements`.
Statements are atomic, as PostgreSQL makes them; a transaction of several statements
is a sequence of them and no property here is about its atomicity. Updates of primary
keys, range checks on amounts, percentages and dates, and defaults are left out. The
`relationship(...)` cascades of the ORM add statements of their own but no rule: what
they delete or set to NULL goes through the same constraints.

### Checkout

`transaction.py` says that a checkout copies the contest of the candidate and its
`caps_votes_per_identity` into the transaction, because an index cannot reach into
another table. `StartCheckout` and `Settle` do exactly that; they are external, for the
handlers are not written yet. Everything else is a statement of `Schema`: contests,
categories and candidates are edited and moved, rows deleted.

### Health

`health_check` runs in a thread. A step of the event loop is atomic for other tasks
but not for that thread, so `LoopRuns` takes a step of `EmbeddedWorkerRuntime` and puts
its assignments, in the order of the code (`WriteOrder`), into `todo`; `Write` makes
them visible in `memory` one at a time, and the loop goes on when `todo` is empty. Each
step writes every field of every worker, in the order of the dict (`Names`); a field the
code leaves alone is written with the value it has, which no thread can see.
`ReadField` is one attribute read of `status_snapshot()`. CPython may switch threads
between any two of them. `lifespan()` is the only caller of the runtime: it starts and
stops it once and sets and clears `app.state.worker_runtime`, each an assignment of its own
after those of `start()` and `stop()`. What the thread finds there is what
`EmbeddedWhileWorking` is about: between the end of `stop()` and the assignment it may still
find the runtime, but no step of the loop comes between the two.

### Migration

The image runs `alembic upgrade head && exec uvicorn`, compose restarts what exits. A
process reads the version and picks its statements (`Begin`), runs them one by one
(`Execute`), and commits; a statement that is refused ends the process (`Refused`) and a
crash at any point rolls its transaction back. PostgreSQL is external: DDL is
transactional, a CREATE waits for another open transaction that creates the same name and
fails once that one has committed, a DROP waits for one that drops it. What an object needs
is the tables it refers to (`ForeignKeys`) and, for a trigger, its function; that and the
two orders are read off `upgrade()` and `downgrade()`. An index belongs to its table.

### DatabaseUrl

A URL is its scheme, the number of `%` in a row before its query, and its raw query
pairs. `BuildAsyncUrl` is `build_async_url`; its loop is the recursive function `Lists`,
whose body is `AddPair`. Keys and values are decoded; one that is not of the listed encoded
forms decodes to itself. The application takes `DB_URL` from the settings, where an
environment variable, even an empty one, hides `.env`. The settings do not look at case:
`db_url` stands for every other spelling of the name, and where a place holds both, the one
that comes last counts (`last`; either may). `env.py` first
imports `database.py`, which needs a valid `DB_URL` already, then calls `load_dotenv` and
reads `DB_URL` or `DATABASE_URL` for itself, and passes the URL through alembic's
configuration, where a single `%` is an error. Both are assumed to read the same `.env`.
With `DB_URL` in capitals the fallback to `DATABASE_URL` never takes effect: without a
usable `DB_URL` the import has failed before. With another spelling it does, see
"Disagreements".

### Security

A call is one step, for calls share only the two caches. `Restart` is a new process, with
the same keys or others, while blobs, hashes and digests stay. Settings decode to 32
bytes, to a length AES also takes, or not at all. The primitives are ideal: a cipher text
opens under its own key only, digests do not collide, bcrypt reads 72 bytes, random values
are fresh. Timing is not modelled.

### SessionPool

Mostly SQLAlchemy, which is external, under the options `database.py` passes and the way
`get_db()` uses it. A session takes a connection with its first statement and returns it on
commit and on close; the pool keeps `PoolSize`, opens `MaxOverflow` more, pings before it
hands out, replaces what is dead or too old (`pool_recycle`), and lets others wait until
`pool_timeout` raises in the handler (`TimesOut`). The settings accept a pool size of 0 and
a negative overflow, for which SQLAlchemy has no limit (`Room`). `Leave` is every way out of
the `async with`: a return, an exception, a cancellation inside a statement. The close it
starts is a step of its own (`Closed`), shielded, so that a request cancelled meanwhile goes
while its session closes (`Abandon`). That no two sessions hold one connection is the pool's
own doing and not stated.

## Runs

| Run | Checks | Result |
|---|---|---|
| `RuntimeAnyRunner` | types, one supervisor per worker, none outlives `stop()`, truthful statuses, delays; runners end in any way, two callers, cancellations | holds |
| `RuntimeSupervision` | supervision is never lost, `stop()` returns, failed workers run again, refinement of `WorkerSupervision` with its fairness; runners end as documented | holds |
| `RuntimeStopHangs` | `stop()` returns when a runner's clean-up may raise | violated |
| `HealthSnapshot` | a row that says "backoff" says why; `/health` finds the runtime exactly while its workers are at work | holds |
| `BrokerPublish` | a successful publish is in the queue; no channel is left open unless opening or closing it is what failed | holds |
| `LifespanShutdown` | no client is released under use, none is forgotten, the broker connection, startup and shutdown end | holds |
| `SchemaReferences` | one vote per matric number per capped contest, votes append-only, payments and settlements survive cascades, records survive the deletion of a login; DELETE and TRUNCATE on all ten tables | holds |
| `CheckoutEdited` | one vote per matric number in the contest as it is now | violated |
| `MigrationRace` | refinement of `SchemaVersion`, no server on a partial schema, no statement refused for its place, containers left alone all serve | holds |
| `UrlResolution` | the TLS policy and the other options survive exactly; with `DB_URL` in capitals alembic and the application use one database and a well-formed URL boots | holds |
| `SecurityStore` | blobs open to what was sealed or raise, sealed soundly; passwords and digests recognise exactly what they were made of | holds |
| `PoolShared` | nothing is leaked, however requests leave `get_db()` and wherever they are cancelled | holds |

### Disagreements

Where the code and what it says of itself differ. Two have a run:

* `stop()`: "wait for every runner to clean up". A cancelled runner that raises an
  ordinary exception, or returns, is taken for a failed one and restarted; its
  cancellation is used up and `stop()` never returns (`RuntimeStopHangs`).
* The flag `caps_votes_per_identity`: "Whether that matric number may vote only once in
  this contest". The index reads the copies taken at checkout. A checkout made before the
  flag was turned on, or before its category moved into the contest, does not count
  (`CheckoutEdited`). What does hold is `IdentityCap`, about the copies.

Four more have none:

* `/health`: "Each failed service is restarted independently by its own supervisor".
  A `CancelledError` from inside a runner ends its supervisor for good (add
  `SupervisedWhileStarted` to `RuntimeAnyRunner`). `RuntimeSupervision` and the theorem
  `AlwaysSupervised` therefore say that runners end by themselves in an exception or a
  return.
* `connect()`: "Establish (or reuse) the robust broker connection". Two tasks that
  connect at once open two connections, and one is forgotten. In `Lifespan` this cannot
  happen when the broker was up at startup, which is the precondition of
  `BrokerReleased`; after a startup without it, it can.
* The migration: "Refuse every statement that could make a count disagree with the
  payment log". It refuses changes to `votes`; it accepts a vote on a pending
  transaction, or for another candidate, and a later change of the transaction: nothing
  in `SaveVote` or `SaveTransaction` looks at the other table's status or candidate.
* `DB_URL` is spelt in capitals everywhere in the repository, and only then do both sides
  agree. With `db_url=A` and `DATABASE_URL=B` the application uses A and `env.py` migrates
  B; with `db_url` alone the application would start but `env.py` raises. Without
  `InCapitals`, TLC refutes both properties that have it.

### Bounds

* Runtime: two workers (so that one may fail while the other is stopped) and two
  callers; `MaxRequests` 4 or 5 calls and cancellations, enough for stop, start, stop
  with a cancellation in the queue and in the gather; `MaxRestarts` 4, beyond the
  exponent cap, with delays 3, 5, 5, 5 (3, 3, 3, 3 under a maximum of 4 where the exponent is
  rounded down, `Slack` 1) and an overflow at the fourth if uncapped.
* Broker: three tasks, three connections, four calls: one call per task and one
  after a close.
* Lifespan: two workers, one request, three connections, five calls; the last call is
  kept for the `close()` of the shutdown, so that the bound cannot stop it.
* Schema: one row per table and two contests for the references, which is enough for
  every edge of the foreign-key graph; two payments, two references and a matric number
  for the cap. The two meet in one run, whose CONSTRAINT keeps the second payment to states
  without logins, subaccounts, votes and settlements. The theorems remove these bounds.
* Checkout: two contests, two categories, two checkouts of one voter.
* Health: one worker, as rows are never compared, restarted up to three times; three
  calls and cancellations of `lifespan()`. The theorem is about any number of workers.
* Migration: two containers, two operators, three crashes: the winner and the loser of a
  race can both be killed, and one of them again after its restart.
* DatabaseUrl: every query of up to three pairs out of ten (repeated, blank, misspelt and
  encoded values, an encoded key), and two URLs, the empty string or nothing in each
  of the six places a URL can be set, three names in the environment and in `.env`. The theorems are about queries of any length.
* Security: two AES-256 keys, one of another length, one that does not decode, two secret
  keys; two things stored at a time, four random values.
* Pool: one connection, one overflow, three requests, two connections lost.

In the other runs, Schema, Checkout, Health, Security and Pool excepted, the bounded
counters run out, or the application has exited, so deadlock is not an error there; the
liveness properties cover the waits.

### Fairness

`EmbeddedWorkerRuntime!FairSpec`: the event loop runs what is ready and timers
expire (`LoopStep`); a waiter at the head of the lock gets it (`Granted`); a
finished gather resumes its caller; a cancelled runner finishes its clean-up
(`CleanupEnds`), the one assumption about code that is not here. Nobody is obliged
to call `start` or `stop`, and a runner may run for ever.

`Lifespan!FairSpec`: every await of `lifespan()` and of a publish ends in a result
or an exception; a cancelled worker ends once it is out of `mq.py`. Nobody is obliged
to shut down.

`Migration!Spec`: a container runs its next statement, waits excepted, and is restarted
(`restart: unless-stopped`). Crashes are bounded in number, as `AllServe` needs; operators
owe nothing, and `AllServe` speaks of behaviours in which none begins, since one who stops
half way keeps its locks.

All of it is weak fairness; the other specifications have none.

## Proofs

All proofs are checked by TLAPS with no step left open, for every value of the
constants under the named assumptions, which say:

* `BackoffAssumption`, `RoundingAssumption`: what `__init__` validates, a maximum at least
  four times below the largest float, the rounding; the exponent is one too low only where
  the one below it reaches the maximum up to `Slack`.
* `RuntimeAssumption`, `BrokerAssumption`, `LifespanAssumption`: workers exist, bounds are
  numbers (at least two calls in `Lifespan`, one of them for the shutdown), `None` is not
  an id, `Main`, workers and requests are different tasks.
* `SchemaAssumption`: ids of different tables differ, NULL is not a value.
* `MigrationAssumption`: nobody is container and operator at once.
* `HealthAssumption`: finitely many workers, `None` is not the name of one.
* `UrlAssumption`: each of the six places holds a URL with a finite query, the empty
  string or nothing, and the values that stand for nothing are not URLs, strings or pairs.
* `SecurityAssumption`: `None` is neither a setting nor a password.
* `PoolAssumption`: the two sizes are numbers, and there are finitely many connections.

The bounds of the models (`MaxRequests`, `MaxCrashes`, ...) are constants as well, so the
theorems hold for every one. Where an invariant is not inductive, `IInv` is the
strengthening. The ones of `MigrationProofs`, `LifespanProofs`, `SecurityProofs` and
`DatabaseUrlProofs`, and `HealthInv`, were also checked by TLC on the instances of the runs
before they were proved.

* `EmbeddedWorkerRuntimeProofs`, on `Backoff`: `NeverOverflows`,
  `CapKeepsDelays`, `DelayBounds`. Induction over the exponent is replaced by a least-counterexample argument
  (`LeastNat`); `Pow2` is first shown to be the function its recursion describes.
* The same, on `EmbeddedWorkerRuntime`: `TypeCorrect`, `OneSupervisor`, `NoneOutlivesStop`,
  `BackoffOnSchedule`, `HealthIsTrue`, `AlwaysSupervised`, `RuntimeRefinesSupervision`.
  That a worker has one supervisor is not inductive: `start()` creates tasks whenever
  `_started` is false, so it must be known that none is left then, which holds because
  `stop()` keeps the lock through the gather and gathers every task there is. `IInv` adds
  to the two properties `LockDiscipline` (the lock is held exactly by the caller in the
  gather, and then the runtime is not started) and `AllRegistered` (every live task is the
  one in `_tasks`). `HealthIsTrue` needs `Reported`, which goes from a task to its status
  as well as back, that a task is cancelled only once the runtime is not started, and that a
  worker that is "stopping" is still in `_tasks`.
  `AlwaysSupervised` needs in addition that runners end by themselves only in an
  exception or a return, and uses `NeverOverflows`: an `OverflowError` would end the
  supervisor. `BackoffOnSchedule` uses `CapKeepsDelays`. `RuntimeRefinesSupervision`, under
  the same condition on runners, is the refinement of `WorkerSupervision` without its
  fairness: each action is a step of it or a stutter.
* The same, on `Health`: `HealthExplainsBackoff`. A status exists three times, each copy
  behind the one before it: on the loop, in memory, and in the rows the thread has read so
  far. `LoopInv` says of the loop that a worker in "backoff" has a count above zero and an
  exit; `NeverOverflows` is needed, since an `OverflowError` would leave the status between
  the two. `MemoryInv` says that `todo` holds the rest of the current step in the order of
  the code (`Sound`), so that what memory is `Behind` of is only what is still to be
  written; since the code writes the count and the exit before the state, memory explains
  "backoff" at every one of its assignments. What memory has counted the loop has too
  (`Follows`), so no later step takes it back. `ReportInv` says that once the thread has read
  "backoff", memory has the count and the exit by the time it reads them (`Row`). Counts go
  down only in `start()`, which `lifespan()` calls once, when nothing was counted yet
  (`NothingCounted`). `HealthKnowsMode` has an invariant of its own, `ModeInv`: `app.state`
  in memory says whether the runtime is started or the lock held, or the one assignment that
  makes it say so is in `todo`, and until that is made no supervisor is past its creation.
* `BrokerConnectionProofs`: `PublishIsDurable`, `ChannelsAreClosed`, and `TypeCorrect` for
  them. `AtAwait` says what a task has done by each await: the queue is declared before the
  publish, the message in it before the `finally` of a publish that will succeed, the channel
  open inside the `try` and, past it, only after one of the two awaits named above.
* `LifespanProofs`: `ReleasedUnused`, `AllReleased`, `OneBrokerConnection`, and `TypeCorrect`
  for them. `IInv` says what holds at each point of `lifespan()`: whether
  the runtime is up, what was released, who may be inside `mq.py`. One connection is kept
  because, once `Main` has connected, nobody is on the way to another one while it is open.
* `SchemaProofs`: `LedgerIsAppendOnly`, `EvidenceIsKept`, `LoginsTakeNothing`, `CapHolds`,
  and `SchemaTypes` for them. The work is in `Delete`, where it must be shown of each kind of
  row which cascades reach it, and in `Truncate`: every table but `subaccounts` and
  `settlements` has `votes` somewhere below it (`AboveVotes`), so the trigger refuses every
  other TRUNCATE (`TruncateTakes`). The cap needs `ck_transactions_cap_needs_matric_number`
  in its invariant: the index alone is blind to NULL.
* `MigrationProofs`: `ServesWholeSchema`, `ImplementsVersion`, `RefusedByARace`, from
  `Invariance`. A transaction has one set of statements from its `Begin` to its end, all of
  `upgrade()`, all of `downgrade()` or none (`Transactions`), so a commit leaves the schema
  complete, empty or as it was, and the version row with it (`Whole`); `Committed` is then
  the version row, and `SchemaVersion` is implemented step by step. Neither the waits nor
  the refusals of PostgreSQL are needed for that, only its transactions. For the refusals
  `Ordered` says of every statement still to come that what it needs is among the ones
  before it; `UpgradeInOrder` and `DowngradeInOrder` establish it from the two orders, and
  it survives `Execute` because the next statement moves from one side to the other. A
  container that has nothing to run found the version at head, and without a downgrade it
  stays there (`ServersAtHead`).
* `DatabaseUrlProofs`: `ExactTlsPolicy`, `OptionsKept`, `OneDatabase`, `ValidUrlBoots`, for
  queries of any length. `Lists` is first shown to be the function its recursion describes,
  then, with `LeastNat` in the place of induction, to hold after n turns exactly the pairs
  among the first n that the loop selects, in their order (`AreListsOf`; the place of a
  pair is its `Rank`). From that `BuildAccepts` says which URLs `build_async_url` takes
  and `BuildIsExact` what it makes of them. `IInv` of the start-up says that past the
  import of `database.py` the configured URL is well-formed, and that whatever was migrated
  or is served is what `build_async_url` makes of the URL that side resolved; with `DB_URL`
  in capitals `env.py` finds the same URL as the settings, since it is then neither unset nor
  empty (`SameUrl`).
* `SecurityProofs`: `VaultIsSound`, `VaultOpensExactly`, `StoredRecognises`. The cached key
  is the setting of this process (`KeyIsSetting`), no nonce in the vault is above the ones
  drawn so far (`VaultOK`), a digest is the one its own process computed (`DigestsOK`).
* `SessionPoolProofs`: `PoolIsWhole`. Only a request that is inside `get_db()`, or whose
  session is still closing, holds a connection (`HoldersAreIn`), and the pool keeps no more
  than its size (`PoolBound`).

Every invariant and action property of the passing runs is a theorem. Only model-checked is
liveness, which the prover does not do: `StopReturns`, `WorkerRunsAgain`, the fairness of
`ImplementsSupervision`, `LifespanSettles`, `AllServe`.

## Plan

All modules and theorems above are done; nothing of the plan is left but the liveness
properties, which stay with TLC. The next thing to model is not in the repository yet: the
checkout and webhook handlers and the workers, over `Schema`, `BrokerConnection` and
`EmbeddedWorkerRuntime`.

## Not modelled

* The Redis client is one library object; its ping and close are steps of `Lifespan`.
* Errors, responses and logging format and keep no state.
* The router is empty; checkout, webhook and workers are not in the repository.
* Alembic's offline mode prints SQL and connects to nothing.
* Range checks on amounts, percentages and dates, defaults and timestamps of the schema
  look at one value of one row.
* The rest of the settings: values that are read once.
* The time a password check takes.
