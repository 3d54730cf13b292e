# Aries Stage 0: a verification project

TLA+ modules for the parts of Aries that keep state across failures and across
threads, TLC instances that check them, and TLAPS proofs for every value of the
constants. Source paths are relative to `src/`; `A/` stands for
`services/api/aries_api/`.

## The system

One Uvicorn process serves the API; its synchronous routes run in a thread pool,
an in-process APScheduler runs the polling jobs (`README.md:59` asks for exactly
one worker). State lives in PostgreSQL (rows), MinIO (objects of the buckets
`raw` and `results`) and a few dictionaries of the process.

| Component | State | Operations | What makes it hard | What makes it correct |
|---|---|---|---|---|
| Ingestion, `A/ingest.py`, `A/sentinel2_ingest.py` | `datasets` and `observations` rows, objects of `raw`, an advisory lock per identity | ingest one SatNOGS observation or Sentinel-2 crop | two stores without a common transaction; request and polling threads; uploads that time out and land later; commits whose answer is lost; crashes | rows are write-once and keep their object; an answer 200/201 is backed by a row; a cleanup deletes only what its own call uploaded while sessions and uploads end in time (finding 1 says what may have adopted it meanwhile); what is left over is logged |
| Benchmark pairs, `A/benchmarks.py` | catalog, pair and run rows, objects of `results` | run a pair, serialize it, find the latest | one long transaction that holds row locks while the targets run; two uploads; timeouts; cleanup of several objects | a pair is whole or leaves nothing; waits never form a circle; calls end |
| Readiness, `A/main.py` 58-72, 140-173, `A/db.py` 9-28 | a pool of two threads shared by all checks, the engine's pool of connections shared by all sessions | bounded checks of PostgreSQL and MinIO | the wait counts from the submission, so time in the queue counts too; a check that timed out keeps its thread; a queued check can be cancelled, a running one not | every request is answered; a dependency is called failing only for a cause, and never for the load alone while there is a thread for each request |
| Rate limit, `A/main.py` 103-121 | a deque of admitted times per client | admit or refuse | window boundary; many clients; restarts | no closed window admits more than the limit; a client is refused only for its own admissions |
| Read-only routes, `A/main.py`, `A/status.py`, `latest_completed_pair` | nothing of their own | status, listing, latest pair, workload matrix, dashboard, orbital IQ | several statements per page while other sessions commit between them; a failed statement breaks the session; panels that degrade and workloads that are skipped one by one | the parts of a page fit each other; of the pairs committed before the request none is left out but with a panel given up or a workload skipped as incomplete; the dashboard is served whatever the database does |
| TLE cache, `A/tle.py`, read by `A/predict.py`, `A/overhead.py` | one mutable record per satellite, one list per group, shared by all threads | get, refresh job | check-then-fetch-then-store without a lock; a failed fetch marks a shared record stale | an answer not marked stale is fresh; a record, once cached, is never lost |
| Scheduler, `A/scheduler.py` | `_scheduler`, due and running jobs | poll, refresh, start, stop | coalescing, failed jobs, a start that fails half-way, shutdown while jobs run | polling registers what upstream serves; an orderly end leaves no job behind |
| Metrics and dashboard data, `A/metrics.py`, `A/dashboard_data.py`, prices of `A/config.py` | the latest pair, the prices of the process | cost, break-even price, recommendation, cost breakdown | the same decision computed twice, in two forms | the two agree |
| Storage snapshot, `scripts/storage_snapshot.py` | backup directory with a manifest | backup, restore, verify | interrupted backups, reused destinations, two stores dumped apart | "integrity ok" means every dataset has its object |
| Storage client and sessions, `A/storage.py`, `A/db.py`, `A/models.py` | | put, stat, get, delete; transactions | every call may fail after having taken effect | part of the modules above |
| Not modelled | | `A/predict.py` and `A/overhead.py` (orbital mechanics in floating point), `A/workloads/*` (numeric functions), `A/normalize.py`, templates, migrations, smoke, demo and training scripts | | `PROJECT.json` gives each reason |

Calls: routes and the polling job call ingestion; ingestion and benchmarks call
the store and the database; benchmarks read what ingestion wrote (rows never
change, objects are checked against the row's checksum); dashboards read the
benchmark rows and the TLE cache; the snapshot script reads the dataset rows and
the raw objects while the application is stopped.

## The modules

| Module | Models | Extends or instantiates |
|---|---|---|
| `DatasetRegistry` | abstract: a write-once registry of datasets and the answers its callers get | |
| `Ingest` | `A/ingest.py`, `A/sentinel2_ingest.py` with `A/storage.py`, `A/db.py` | instantiates `DatasetRegistry` |
| `IngestProofs` | theorems about `Ingest`, its refinement of the registry | `Ingest` |
| `BenchmarkPair` | `A/benchmarks.py` | |
| `BenchmarkPairProofs` | theorems about `BenchmarkPair` | `BenchmarkPair` |
| `TLECache`, `TLECacheProofs` | `A/tle.py` and theorems about it | |
| `Readiness` | `A/main.py` 58-72, 140-173, the engine's pool and `check_database` of `A/db.py` | |
| `ReadinessProofs` | theorems about `Readiness` | `Readiness` |
| `RateLimit` | `A/main.py` 103-121 | |
| `Service` | lifespan of `A/main.py`, `A/scheduler.py`, requests | `RateLimit` |
| `ServiceProofs` | theorems about both; the process implements the limiter | `Service` |
| `Pages` | the routes of `A/main.py` that only read, `A/status.py`, `A/dashboard_data.py` 76-100, `A/benchmarks.py` 622-703 | |
| `PagesProofs` | theorems about `Pages` | `Pages` |
| `Snapshot`, `SnapshotProofs` | `scripts/storage_snapshot.py` and theorems about it | |
| `Economics` | `A/metrics.py`, pricing in `A/benchmarks.py` 515-574, `A/dashboard_data.py` 15-74, the price checks of `A/config.py` | |
| `EconomicsProofs` | theorems about `Economics` | `Economics` |
| `MCIngest`, `MCBenchmarkPair`, `MCEconomics`, `MCPages` | the requests, catalogs, failure budgets, prices, measurements and timestamps of the TLC instances | |

`PROJECT.json` maps every definition to its lines. A definition under a comment
"Variant" is a plausible bug, kept beside the operation it is a variant of, to
show that the properties can fail; nothing uses it.

### Ingest

A worker is one call of an ingest function; `pc` names the database or store call
it makes next, and every such call is one step, so calls interleave as the two
stores let them. `req` and `existing` are the locals of the function, `lock` the
transaction-scoped advisory lock per identity (`ingest.py:103`), `rows` the
committed rows (the observation is committed with its dataset), `objects` the
raw bucket. A request is a model value with an identity, a key, bytes and the
function that serves it; equal bytes stand for equal size and checksum.

The order of steps is that of the code: lock, look up the row, verify its
object; or look up the key, adopt what is there or upload; commit; on failure
roll back, which gives the lock up, and only then delete. Failures are actions
of their own, counted per kind in `faults` up to `MaxFaults`: a call that fails
before or after it took effect, an upload applied after its client gave up
(`inflight`), a session ended by the server (`connected`), and a crash of the
one process with all its workers, which may leave uploads under way that land later.
One worker may be the `Poller`, the scheduler's job: it asks for SatNOGS
observations only (`Asks`). The others are requests.

`DatasetRegistry` says what this is for: a request is registered once, its answer
is one of created, existing, or a refusal that changes nothing. The mapping takes
`rows` as the registry and the answers of calls that have ended (`Answers`,
`Asked`).

### BenchmarkPair

An attempt is one call of `run_benchmark_pair`. Its catalog loop selects, inserts
or updates the rows of the workload and the two targets; a row written and not
committed is in `writer`, and another attempt that needs it waits for the
transaction (`_seed_catalog`, from `benchmarks.py:287`). Then each target runs (`Execute`,
or `ExecuteTimeout` into `overdue`, where the executor's with-block waits), its
result is uploaded and recorded in `created_keys`, read back and compared; the
pair and its runs are committed together, and the route serializes the pair. On
an error the transaction ends and the recorded keys are deleted one by one.

### TLECache

One key of `_cache` or one group: the shared record has a time and a set of
members marked stale. The steps of a caller are read, fetch, store, or, after a
failed fetch, mark the record it had read before. Nothing locks. The clock of the
model goes forward only; the code compares readings of the wall clock (`tle.py:60`),
so a clock that is set back can make an old record pass for a fresh one, and nothing
here speaks of that.

### Readiness

`state` is the future of each check, `queue` the executor's queue, in which a
cancelled check stays until a thread drops it. A dependency that is not in `up`
refuses or hangs: a check that met it may raise or hold its thread for ever. A
check of PostgreSQL needs a connection besides (`linked`), which other sessions
may hold (`others`); without one it raises after the engine's `pool_timeout`, which
is the same setting as the request's patience.

Time is explicit: `clock` counts for each check the ticks it spent in the queue and
in its thread, and a request gives up when the two together reach `Patience`
(`Due`), as `future.result` counts from the submission. A tick passes only when
nothing is left to do at this moment: threads and connections that are free have been given
out, and a run that nothing hinders has ended after `Quick` ticks. A check
in trouble is `hurt`: it met its dependency down or no connection. A check that
spends a tick in the queue while such a check runs is `blocked`, and so is one that
waits while a blocked check runs: the delay is passed on.

### RateLimit and Service

`RateLimit` is the middleware alone. A decision has no await between reading the
clock and its append, so it is one step: `Admit` or `Refuse` drops the entries
that are more than a window old and looks at how many are left. `admitted` is
history: every admission of a client, of which the deque keeps the end.

`Service` extends it to the life of the process. `Boot`, `EnsureBuckets` and
`StartScheduler` are the first half of lifespan, each with the step in which it
fails; a scheduler started by a failing start is closed again before the process
exits. Then the process serves: requests pass the limiter and stay in a route, jobs fall due,
are taken by a thread of the scheduler and end. SIGTERM closes the socket, waits
for the requests, and the second half of lifespan shuts the scheduler down,
which waits for running jobs. A kill may come anywhere, and a new process starts
with empty deques. A running `poll_observations` is a call of `Ingest`
(`PollSpec`); there a crash may come between any two of its steps.

### Pages

A page is a sequence of reads of one session, in the order of the code. Every
statement runs on what is committed by then; commits of observations and pairs
are actions of others, with times from a wall clock that may be set back. There are
three ways in which a read goes wrong, and they end differently:

- `Fail`, a statement that fails: where `_dashboard_context` catches it, its panel is
  unavailable, the reads left of its try statement are not made (`PanelEnds`) and
  the session stays broken, so that the later statements fail as well; elsewhere
  the request is answered with an error. Orbital elements that cannot be had take
  the same way, without the session.
- `Incomplete`, a pair whose rows are not all there (`benchmarks.py:654-655`): the
  matrix skips the workload and goes on (`dashboard_data.py:95-96`), the dashboard
  gives up its panel, the route of that pair answers 503. The session is sound.
- `PassesRaise`, elements that the computation of the passes cannot use: this is no
  `HTTPException`, nothing catches it, and the request ends in an error
  (`main.py:181`, `main.py:358`).

`walk` is a client that
asks for page after page of `/api/observations`. Order among observations of one
timestamp is any, another one for every statement, as the ORDER BY leaves it
open (`A/main.py:226`).

### Snapshot

A row stands for its checksum: the content its object must have. The commands
`backup`, `restore` and `verify` handle one item per step, a file is empty
between its opening and its end, and `Interrupt` ends a command anywhere. The
operator's `pg_dump` and `pg_restore` are external steps that may be combined with any
backup; between the commands the application may run, objects may be damaged and
the MinIO volume lost. The manifest is opened, which empties it, and then written.
`epoch` and `base` are history: the one counts the times the application was started or
the database restored, the other is the epoch of the last `pg_restore`. `DumpFirst` says
that the dump is not younger than the manifest and that no `pg_restore` came between them;
until the next restore rows are only added, so the application may run between the two.

### Economics

`RunPair` prices a measured pair under the configuration of the process and
stores it with those assumptions; `Restart` starts the process with other prices
that pass the check of `config.py:209-222`. `Breakdown` is what a dashboard
computes from the stored pair, whenever it does, so it is an operator and not a
variable. The code computes in floating point; the model is exact, so it settles
whether the two formulas agree, not how they round. Divisions are removed by
cross-multiplication: the capital is given as charge times runs times days.

## What the runs show

| Run | Instance | Shows |
|---|---|---|
| `ingest_faults` | 2 workers, one observation with 2 payloads, each of 8 kinds of failure once, in every combination | types, mutual exclusion, rows backed, answers, cleanups, orphans, refinement of the registry |
| `ingest_liveness` | the polling job and a worker that serves requests, 1 observation, 1 crop that is only asked for by requests, 6 kinds of failure once | calls end; what is polled is registered in the end, orphans notwithstanding |
| `ingest_cleanup_race` | one failed commit | **violated**: a row loses its object to the cleanup of another worker |
| `bench_pair` | 2 attempts on 2 workloads that share some or all catalog rows, 8 kinds of failure once | pairs are whole or leave nothing, waits point one way, results are accounted for, a run that hangs with its row locks holds up no other call |
| `bench_timeout` | one run that does not return | **violated**: the timeout is not answered |
| `tle_cache` | 2 callers, a group of 2, time 0 to 4, time-to-live 1, 2 failed fetches | marks only on expired records, no old record returned as new, recovery |
| `readiness` | 1 readiness request and 1 panel that come again and again, 2 threads, 1 connection, a patience of 2 ticks and quick runs of 1, both dependencies going and coming without bound | every request is answered, an alarm has a cause, and with a thread for each request that cause is never the load alone |
| `snapshot` | 2 datasets, 2 contents, 1 result, 3 epochs | a passed verification is true, a recovery point stays one and restores completely |
| `snapshot_results` | 1 dataset, 1 result | **violated**: results are gone after a verified restore |
| `pages` | 3 observations, two of one timestamp, 2 workloads, 2 pairs, 2 readings of the clock, at most 3 rows, pages of one, a dashboard list of two | the numbers of a page fit each other, the newest pairs are shown or their workload was skipped, a walk misses nothing but ties, the dashboard is served whatever the database does |
| `service` | 2 clients, limit 2, window 1, time 0 to 3, 2 jobs, 2 requests at a time | the window bound across idle times and floods, refusals only for the client's own requests, an orderly end |
| `economics` | prices 0 to 3 in the environment, 36 valid configurations, 16 measurements with outputs on both sides of the input | the stored recommendation, the totals and the break-even utilization shown beside it decide alike, after restarts with other prices too |

Why the bounds are enough. Two workers are the least number that can race, and
the races here are pairwise (one lock, one key); a third worker only repeats
one of the two. One failure of each kind makes every single failure and every
combination of different ones happen; each failure handler is short and keeps no count, so a
second failure of the same kind finds the states the first one left. The
theorems have no such bounds. Two payloads are what it takes to
conflict. For the pool of threads, one readiness request and one panel already make
three checks that can run or wait at the same time, as a check goes on when its
request has given it up: two hold both threads and the third is queued. One
connection is the least that can be taken away. A patience of 2 with runs of 1 lets
a check be answered in time after no wait and be late after one tick of it; the
theorems hold for every patience. `ingest_liveness` leaves out lost acknowledgements and lost
connections to keep the graph small enough for the liveness check; both are in
`ingest_faults`. Two observations of one timestamp and one
of another are what a page boundary needs to fall between equals; two pairs that
overtake each other are what makes the latest one ambiguous. A window of 1 in a
time of 3 lets the oldest admission be inside, at the edge and outside while the deque is full.
For snapshots, three epochs are what it takes to ingest, dump, restore an
older dump and ingest other content under the same key. `MaxTime`, `MaxFailures`,
`MaxEpoch`, `MaxFaults`, `MaxRows` and `MaxActive` are the only artificial limits.
`TLECache` has `Records`, the objects a cache entry can be: one for the cache and
two for each caller are enough for a fetch always to find an unused one. The instances with
`CHECK_DEADLOCK FALSE` are attempts that are made once and then stop. Symmetry
(of the workers) is used in one run without liveness properties.

## Fairness

- `Ingest!LiveSpec`: every call returns, because the store client has a total
  timeout (`storage.py:28`) and the database a statement timeout (`db.py:15`):
  weak fairness of each worker's steps. `PollSpec` adds that the one `Poller` begins again
  and again (the interval job of `scheduler.py:37-42`, one instance at a time), strongly:
  upstream may refuse any number of fetches, but not all from some moment on. That
  is so where `SCHEDULER_ENABLED` is set, which `compose.yml` leaves off by default. Nothing
  is assumed of requests, which need never come, nor of late uploads, lost connections or crashes.
- `BenchmarkPair!LiveSpec`: the same for the steps of an attempt (`Work`), not for a run
  past its timeout, which may hang for ever, nor for any failure. Both liveness
  properties are checked under it: `HangIsLocal` holds, for who waits for the row locks
  of a hanging run is refused by the statement timeout (`db.py:15`); `TimeoutAnswered`
  does not (`bench_timeout`).
- `TLECache!LiveSpec`: fetches end (by their timeout), callers call again (of
  `get_tle` the refresh job does; of `get_group_tles` only who looks at the map, so for a
  group this is a premise of the property and not a promise of the code), the clock goes on
  to its bound. A fetch may fail only `MaxFailures` times: the property is about
  what happens once it succeeds.
- `Readiness!LiveSpec`: idle threads take queued checks, free connections are given
  out, a check that met no trouble returns, a request takes its result or gives up when
  its time is over, and time passes whenever it may again and again (strong fairness of
  `Tick`). Of a check in trouble nothing is assumed, nor of the sessions that hold
  connections.
- `Pages!LiveSpec`: a read returns or fails, because connection, pool and
  statement have timeouts (`db.py:9-18`): weak fairness of `Step`. Nothing is
  assumed of those who commit.
- `Service` has no liveness property: what a request or job does in the end is
  the matter of the other modules, and a kill may come at any time.
- `Snapshot` has no liveness property: an operator may stop anywhere.

## What is proved

`IngestProofs` proves, for any workers, requests and failure budgets, from `RequestAssumption` (a request has an identity, a key and
bytes), `KeyAssumption` (a key names one identity, as both key formats contain
the external id), `NullAssumption` and `FaultAssumption`:

- `TypeCorrect`, `LockExcludes`, `RowsStayBacked`, `AnswersAreCommitted`,
  `CleanupDeletesOwn`, `OrphansAreAccounted`: the invariants of `ingest_faults`;
- `RowsAreWriteOnce`: a committed row is never changed or removed;
- `Refinement`: `Spec` implements the registry.

The inductive invariant is `IInv`. None of the properties is inductive alone: a
row is written without looking at it again, so write-once needs that what the SELECT found
still stands at the commit (`SelectStands`), which needs the lock (`HoldsLock`); a row
is backed at its commit because the object was checked or uploaded under the same
lock and nobody else is about to delete it (`BackedInv`), which needs that no
transaction has been outlived by its worker; an answer is decided only at the end
of a call (`LocalsInv`). `CleanupIsOwn` and `OrphansAccounted` need `OwnerInv`
and `OrphanInv` beside it: at most one worker answers for an uploaded object. It is stated as `Inv` in `Ingest`. The proofs have one step per
action, lemmas for what several need (`RowsChange`: only a lock holder commits;
`KeyOfHolder`: two holders have different keys), and the refinement maps every
step to an answer of the registry or to a stutter.

`EconomicsProofs` proves `TypeCorrect`, `Agreement` and `Utilization`, the three
properties of `economics`, for any prices, rates and measurements, from
`ConfigAssumption` and `MeasurementAssumption` (all are natural numbers, byte
counts positive). The invariant `IInv` says that a stored pair was priced under a
configuration that passed the check. It is needed: with a downlink price of 0, which
`recommendation_for_price` itself accepts, a cheaper edge would be recommended
against (the mutant `NonNegative`). The rest is arithmetic, in lemmas
without state: `DecisionOfTotals` and `UtilizationOfHeadroom`.

`BenchmarkPairProofs` proves `TypeCorrect`, `PairsAreWhole`, `WaitsAreForward`,
`FailuresAreAtomic` and `ResultsAreAccounted`, the five invariants of
`bench_pair`, for any attempts, workloads, edge targets and failures, from
`SpecAssumption`, `NoneAssumption` and `FaultAssumption`. The invariant says of
each attempt what its locals hold at each place (`StageInv`), that the catalog rows behind
it are current or locked by it and that it locks no others (`LocksInv`), that
its pair has all of its runs or none (`PairInv`), and who accounts for its
results (`ResultInv`). A step touches the part of its own attempt; `OthersKeep`
proves that what it leaves of the others (`Frame`) keeps their parts, and
`AbortKeeps` and `CommittedKeeps` are the two ends of a transaction, used by every action that
reaches one. `WaitsForward` follows from `LocksInv` because a row has one place
in all chains (`ChainPlaces`), which is what the order of `_seed_catalog` is good for;
`WaitsHaveAnEnd` concludes that among any attempts one waits for none of the
others, so there is no deadlock of row locks however many run at once.

`TLECacheProofs` proves `TypeCorrect`, `MarksAreTrue` and `OldIsMarked` for any
callers and groups, from `BoundAssumption` and `RecordAssumption`. A mark is true
because whoever is about to mark found the record expired (`FoundOld`), a record's
time never changes while somebody can reach it, and time goes on; a fetched
record is no older than the call that fetched it (`FetchedSince`).

`SnapshotProofs` proves `TypeCorrect`, `VerdictsAreSound`, `BackupsRecover` and
`RestoresComplete` for any datasets and contents, from `SnapshotAssumption`. The
argument is the epoch (`EpochInv`): rows change only in one of their own, so a
manifest of the current epoch names the rows there are, and a dump that no `pg_restore` has
overtaken is part of them, whatever was committed since. So a manifest written after
the dump names each of its rows, and goes on to do so when the live stores are lost. The other parts say what
each loop has behind it; that of the restore does not ask where its files come from, for each
is checked before it is uploaded, so a restore from the directory of an interrupted
backup is complete too if it gets through.

`ServiceProofs` proves of the limiter alone `TypeCorrect`, `Bounded` and
`RefusalsJustified` for any limit and window, from `LimitAssumption` and `TimeAssumption`. The invariant:
the admissions of a client are in order of time, its deque is their end, and
those it has dropped are outside the window. Neither property needs a bound on
the clock. Of the process it proves that every step is a step of the limiter or a
stutter (`LimiterOfService`), from which both properties of the
limiter follow for the process (`ServiceBounded`, `ServiceRefusals`), and
`ServiceTypes` and `StopsInOrder` from an invariant that says what may be left in each phase.

`ReadinessProofs` proves `TypeCorrect`, `AlarmsHaveCause` and `NoFalseAlarmByLoad` for any
requests, panels, threads, connections and timeouts, from `PoolAssumption` (at least
one thread; panels are requests; a quick run is shorter than the patience). That the queue
and the futures fit needs that no check is queued twice (`QueueInv`) and that a
request has at most one check beside the one it waits for (`RequestInv`). A check that raised was
in trouble (`FutureInv`), so an alarm without trouble is a timeout; there the clock
of the check is the time since its submission (`ClockInv`: none is left from an earlier
request), and what is not a quick run of it was spent in the queue.
`NoFalseAlarmByLoad` needs finitely many requests and a thread for each. Its invariant
`BlockInv` says that whoever had to wait was blocked, and that whoever runs on for a request that
has given it up, without having met trouble, had to wait. It is kept by a count: if all running
checks are awaited, no two are of one request (`ThreadIsFree`), so a queued check
finds a thread, and time does not pass before it takes it.

`PagesProofs` proves `TypeCorrect`, `StatusFits`, `NewestIsShown` and
`WalkShowsAll`, the invariants of `pages`, for any observations, registry, clock,
page size and limits, from `PagesAssumption`, `RegistryAssumption` (no workload has the
name of another read) and `NoPairAssumption`. It also proves `DashboardDegrades`, the
safety half of `DashboardServed`: a dashboard is never answered with an error on account
of the database, only with one of passes that cannot be computed. The
invariant has one part for each question:

- how far a page is (`ProgressInv`): the reads behind it are shown or their panel
  is down, those before it are of panels that are up. That an incomplete pair drops
  its own read only is `SkipStep`, that a failure drops exactly
  the rest of its try statement is `CaughtStep`, which needs that the panels lie one
  after the other (`PanelFacts`);
- what its numbers say of the rows as they are now (`CountInv`, `FitInv`). Rows
  only come, so what is counted later is not less; the order of the reads
  (`ReadFacts`) says which is later, and the mutant that swaps them breaks it;
- what its pairs are worth (`PairInv`). A newest pair exists because rows came one by one
  (`NewestInv`, `NewestOfMore`), which is proved over the steps, induction over
  sets being out of reach;
- a walk (`WalkInv`, `ListingInv`): a row that it has not shown, and that is alone
  with its timestamp, has at least as many rows above it as the offset skips. New rows
  can only push it down. `SliceFacts` says what a page of any order that the
  ORDER BY admits shows of it, and when the offset has reached the number of rows
  there is no place left for it (`AboveFacts`).

Every safety property and action property that a passing run checks is thus proved.
Only model-checked are the liveness properties (`CallsEnd`,
`EventuallyRegistered`, `HangIsLocal`, `EventuallyGood`, `AllAnswered`,
`DashboardServed`): fairness and ENABLED are beyond the provers. What a violating run
shows is a counterexample and needs no proof.

## Findings

1. `ingest_cleanup_race`: `session.rollback()` frees the advisory lock before
   `store.delete` (`A/ingest.py:207-210`, `A/sentinel2_ingest.py:211-214`).
   A second worker adopts and commits the object in between; its row is left
   without object and answers 409 from then on. `RowsStayBacked` is what holds
   instead.
2. `bench_timeout`: leaving the executor's with-block waits for the overdue run
   (`A/benchmarks.py:418-431`); the request hangs with its row locks.
3. `snapshot_results`: only the bucket `raw` is backed up, restored and verified
   (`scripts/storage_snapshot.py:53-61`).

Three properties say how far a promise of the code goes, by naming what it does not cover.
`FailedAtomicallyIfKnown`: a result whose upload raised after it was stored is not in `created_keys`
(`A/benchmarks.py:510-511`), neither deleted nor logged.
`AlarmHasCause`: a healthy dependency is called failing when its check waited too long
for one of the two threads or got no connection, for the wait counts from the
submission (`A/main.py:66-72`) and the connections are shared (`A/db.py:12`); by
`NoAlarmByLoad` it takes a check in trouble, or more requests than threads, to get there. `WalkComplete`: an
observation that shares its timestamp with another can be missed by a walk through the
list, because the ORDER BY has no second key.

## Not modelled

Orbital mechanics, the workloads' numeric functions, normalization, templates
and scripts have no state that outlives a call, or compute on floating-point
data; `PROJECT.json` names each with its reason. Within the modelled parts:
the connection pool's limit for other statements than the health checks (a
session that gets no connection is a statement that fails, which the modules have), the
wall clock of the TLE cache being set back, the rounding of prices, the HTTP server's
thread limit, the text
of messages and logs (other than that an orphan is named), upstream's formats
(a fetch gives a payload or a refusal), two processes of the API (excluded by
`README.md:59`), and an upload of the snapshot script that lands after the script
has ended.

## Plan

Done: `Ingest` with its abstract registry, its proofs and refinement;
`BenchmarkPair`, `TLECache`, `Readiness` with the pools of threads and of connections,
`Pages`, `Snapshot`, `Economics` and `RateLimit` with their proofs; `Service` with its
refinement of the limiter. Left open, in the order of what they would be worth:

1. An abstract specification of the pairs (run once, shown whole or not at all)
   that `BenchmarkPair` implements, as `DatasetRegistry` is for `Ingest`.
2. The overhead map's use of the cache (`A/overhead.py` 172-208): what it shows
   of a group that is marked stale while it is read.
3. A wall clock that is set back in `TLECache`.
