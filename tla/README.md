# OpenPlan: a TLA+ model of its multi-step protocols

OpenPlan is a planning workspace: Next.js routes over a PostgreSQL database behind
PostgREST, a storage bucket, plus Python worker processes. Most of its routes read
rows, check them and write one row. Four parts have behaviour of their own,
because what they keep is written in several calls, by several parties, with no
lock or transaction over more than one call:

- **model runs**: a web request queues work in two tables, worker processes take it
  stage by stage, a push trigger wakes one of them, a cron sweep and a page load
  declare runs dead, and a planner may launch a failed run again meanwhile;
- **transit feeds**: an ingest stores an archive and its derived rows, promotes them
  to be the version in use, or is closed by itself or by a sweep;
- **aerial jobs**: imagery goes to a worker that reports by callbacks, repeated and
  out of order, and its artifacts are copied before their links expire;
- **the local measure fund**: the receipt of a period is divided to the cent, under
  caps that reach over the periods of a year.

Source paths below are relative to the repository root (`lib`, `api` and migrations
are under `openplan/src` and `openplan/supabase/migrations`); line numbers are those
of the modelled commit and are listed definition by definition in `PROJECT.json`.

## 1. Inventory

### Model runs

| Component | State it keeps | Operations | Where |
|---|---|---|---|
| Create route | rows `model_runs`, `model_run_stages` | insert run, insert stages, mark failed when the second insert fails, push | `api/models/[modelId]/runs/route.ts` |
| Launch route | the same rows, output rows (artifacts, KPIs, claim decisions, validation results) | read the status, count the failure, re-queue the run, insert or reset stages, delete outputs, push | `.../runs/[modelRunId]/launch/route.ts`, `lib/models/run-modes.ts` |
| AequilibraE worker | per thread: the stage in hand; per process: the execution lock | fetch queued stages, classify readiness, claim, execute, record success or failure, check completion | `workers/aequilibrae_worker/main.py` |
| ActivitySim worker | the same, one thread | the same, for its own stage name | `workers/activitysim_worker/supabase_poll.py` |
| Push trigger | bounded queue, in-flight set, idle event, drain thread | accept, refuse, drain a run, stop and drain | `workers/aequilibrae_worker/main.py` (`RunTriggerExecutor`, `_serve_until_drained`) |
| Dispatch | none | ring the worker once per launch, ten-second time-out | `lib/models/run-dispatch.ts` |
| Stale-run reaper | rows it loaded | classify against the clock, call `reap_model_run_if_stale` | `lib/models/run-reaper.ts`, `run-liveness.ts`, `run-reconcile.ts`, `api/cron/reap-model-runs`, migration `20260722000004` |

The routes, the workers and the reaper share database rows only, through single-row
or single-run updates. Two of these test what they overwrite: the claim
(`status=eq.queued`) and the first statement of the reap (status and timestamps).
All others are by id. The push is a doorbell: it transfers no ownership.

What makes it correct, and what is hard about it:

- a stage is executed by one worker at a time, and a process executes one stage
  at a time (claim, lock; races of replicas, poll loop and push drain);
- stages execute in order, and a run shown as succeeded is complete (stale reads,
  late patches of a reaped worker, ignored write failures, crashes);
- a relaunch leaves a run that can make progress (five writes, no transaction);
- a run ends: its stages are decided, and a dead worker's run is told (liveness,
  clocks, thresholds, a timestamp that passes through two precisions);
- a run that is alive is not reaped (stale snapshot of the reaper);
- an accepted push is carried through or named at shutdown (bounded queue, two
  structures changed without a common lock, keep-alive connections).

### Transit feeds (GTFS)

| Component | State it keeps | Operations | Where |
|---|---|---|---|
| Ingest | rows `gtfs_feeds`, `gtfs_feed_versions`, derived route and stop rows, an object in the bucket | register, mark the stages, store the object and record its path, insert rows in batches, finalize | `lib/gtfs/ingest.ts`, `lib/gtfs/persist.ts` |
| Promotion | `is_current`, `current_version_id`, `gtfs_feeds.status` | compare with the version in use, one procedure that moves all three | `persist.ts` (`promoteGtfsFeedVersion`), migration `20260805000008` |
| Closing | the same rows | delete rows, remove the object, mark the version, then the feed, failed | `persist.ts` (`failGtfsFeedVersion`) |
| Sweep | none | find versions whose ingest must be dead, close them | `persist.ts` (`reapAbandonedGtfsIngests`), `api/cron/reap-gtfs-ingests` |
| Removal | all of it | list the paths, remove the objects, delete the feed | `api/gtfs/feeds/[feedId]` `DELETE` |

Correct means: whoever reads the version in use finds a complete one; a refused
ingest leaves nothing half-written; the paths of the bucket and the rows agree; a
refetch that lost much of the feed is not adopted unseen; no ingest hangs on the
screen. Hard: any of a dozen calls may fail or be carried out with its answer
lost, the process may be killed between two of them (at `maxDuration` or in a
deploy), and a refresh, the sweep and a removal may come at any point.

### Aerial jobs

| Component | State it keeps | Operations | Where |
|---|---|---|---|
| Process route | row `aerial_processing_jobs` | check that the mission is free, insert, post to the worker, write its answer | `api/aerial/missions/[missionId]/process` |
| ODM worker | registry and queue in memory, one pipeline thread | accept or refuse, run, report with retries | `workers/odm_worker/main.py`, `callbacks.py` |
| Callback route | ledger `aerial_processing_callbacks`, the job's status | look up the job, record the callback, preserve a terminal status, update | `api/aerial/processing-callback` |
| Custody pass | rows `aerial_artifact_custody`, objects, the job's roll-up | skip what is held, fetch the others, upsert, sum up | `lib/aerial/artifact-custody-server.ts` |
| Evidence package | one row per job | look for it, insert it, raise its readiness on a retry | the callback route, `api/aerial/processing-callback/custody` |

Correct means: a report is applied once; a status says what happened; a late report
changes nothing; a job in the worker's queue ends; the package and the custody
state claim no more than is held; one package per job. Hard: the worker repeats a
report with the same `callbackId` after a time-out, while the first handler still
downloads; its reports may overtake the answer that accepted the job; ledger, job
and package are three writes; a member may retry custody at any time.

### The local measure fund

| Component | State it keeps | Operations | Where |
|---|---|---|---|
| Receipts | `measure_fund_periods.received_amount` | record, correct | `api/measures/[measureId]/periods` |
| Allocator | none | off the top with caps, reserves, categories, return to source, floors | `lib/measures/allocation.ts` |
| Allocate route | `measure_allocations`, `measure_off_the_top`, `measure_period_reserve` | read the period and the year's takes, compute, replace the period in one transaction | `.../periods/[periodId]/allocate`, migration `20260812000019`, `lib/measures/receipts.ts` |
| Claims and the rest | claims with a transition table, rules, recipients, maintenance of effort | single-row edits | `api/measures/...`, `lib/measures/claims.ts` |

Correct means: the books of a period close to the cent; nobody gets a negative
amount; a floor is met for everybody; the takes of a year stay within an annual
cap. Hard: half-up rounding gives too much as well as too little, what is clawed
back may exceed what one purpose has, and a cap depends on periods that other
requests are replacing.

### The rest of OpenPlan

Not modelled; section 6 and `PROJECT.json` give the reason for each: in-process
engines, run cap and queue depth, OCR and the knowledge base, county runs,
assistant approvals, workspaces and invitations, invoicing, funding awards, public
engagement, RTP cycles, workspace GIS layers, work notifications, the derivations
(analysis, scenarios, reports, safety, Title VI, network packages), scripts and the
QA harness. `PROJECT.json` also lists every hazard found, with its line and the
properties about it.

## 2. Modules

| Module | What it is |
|---|---|
| `ModelRuns` | one run: create, launch, worker threads, reaper; every database call is an action |
| `ModelRunsProofs` | theorems about `ModelRuns` for all values of its constants: types, executors |
| `ModelRunsOrderProofs` | the order of the stages, the completeness of a success, the work a relaunch leaves |
| `RunReaper` | the clocks: several runs, workers that log and die, cron sweeps and page loads |
| `RunReaperProofs` | theorems about `RunReaper`: what a reap spares, and that silence is told |
| `PushTrigger` | the executor of a push-only worker: handlers, drain, shutdown |
| `PushTriggerProofs` | theorems about `PushTrigger` |
| `GtfsFeed` | one feed: ingests, promotion, closing, sweeps, removals; every call is an action |
| `FeedInUse` | what a feed promises its readers; `GtfsFeed` implements it |
| `GtfsFeedProofs` | theorems about `GtfsFeed`, the refinement among them |
| `AerialDispatch` | the process route, the ODM worker, the callback route down to the job's status |
| `AerialDispatchProofs` | theorems about `AerialDispatch` |
| `AerialCustody` | the rest of the callback route, custody passes, retries, the evidence package |
| `AerialCustodyProofs` | theorems about `AerialCustody` |
| `MeasureAllocation` | the arithmetic of one allocation, as operators |
| `MeasureFund` | the periods of a year and concurrent requests to allocate them |
| `MeasureFundProofs` | theorems about `MeasureAllocation` and `MeasureFund` |
| `MC...` | one per checked module: values of constants, symmetry, the ordinances of the measure runs |

The three modules on model runs look at one subsystem from three sides and each
leaves to the others what they have: `ModelRuns` has every call and no time,
`RunReaper` has time and takes the calls of a worker at one point of a stage as one
step, `PushTrigger` has the threads of one process and takes a stage as one step.
`AerialDispatch` and `AerialCustody` meet at the write of `succeeded`: the first has
everything up to it, the second everything after the ledger entry of a success.

Each module keeps, next to a definition, a variant of it (marked "Variant"): the
mistake somebody could make there. Put in the place of the definition it breaks a
property of one of the runs; `PROJECT.json` pairs them under `mutants`. A property
that no variant breaks would say nothing about the code.

### ModelRuns

*State.* `run`, `failureCount`: the row in `model_runs`. `stage`: the status of every
row of `model_run_stages`, a row being named by the request that inserted it and
its `sort_order`, because the table has no unique key on (run, stage). `outputs`:
which stage of which attempt has rows in the four output tables. `thread`: what a
worker thread does next, on which row. `request`, `creator`: the same for web
requests. `snap`: whether a reaper has judged the run stale and whether a row moved
since, or whether it is between its two statements. `attempt` and the `attempt`
field of a thread are history: how often stages were queued, and which queueing a
thread's claim belongs to. `faults` bounds lost calls and crashes.

*Actions.* One per database call, named in `PROJECT.json` with its lines. A worker
thread goes `FetchQueued`, `ClassifyReadiness`, then `MarkStageSkipped`, or
`ClaimStage`/`LoseClaim`, `MarkRunRunning`, `FinishBody`/`RaiseInBody`,
`SucceedStage`, `CheckRunComplete`, `CompleteRun`, or `FailStage`, `FailRun`. The
execution lock is the set of program counters from the claim to the return
(`InBody`): it is taken before the claim and released on every way out. A launch
request goes `ReadRun`, (`ReadFailureCount`, `WriteFailureHistory`), `Requeue`,
`ReadStages`, `InsertStages` or `ResetStages`, `ClearOutputs`.

*Failures.* `WriteIgnored`: an update the server refused, which the patch helpers do
not look at. `CallRaises`: a call that raises, which ends in the poll loop's handler
or, inside the try block, fails the stage; the ActivitySim worker has its
completion check inside that block (`ChecksInTry`), the AequilibraE worker does
not. `ClaimAnswerLost`, `Crash`, `CreateStagesFails`, `HistoryLost`,
`RequestFails`: as named.

*Abstractions.* One run: runs share no rows, other runs only delay a thread, and any
step may be delayed. The poll query returns up to 25 rows; here a thread takes any
queued row it owns and then classifies it, which covers every position in that
list. The numerical body of a stage is `FinishBody` or `RaiseInBody`, with
heartbeats. Statuses `cancelled` and the worker's "unknown stage" branch are left
out: nothing in the code writes the first for a worker-backed run, and the poll
query asks for known names only.

### RunReaper

*State.* The database clock `now`; status and `updated_at` of every run and stage
row, with the later of `started_at`/`completed_at` in `at` (these carry the worker's
clock, `Skew` ticks ahead); the `job` of each worker; what each reaper holds; and, as
history, the runs written to since a reaper loaded its rows (`moved`).

*Time.* `TicksPerMs` ticks of the database clock make one millisecond of JavaScript.
`JsTime` is `new Date(t)` and `toISOString`: it cuts a timestamp down. `Timely`
states what is assumed of the environment: an executing stage writes at least every
`Beat` ticks (the assumption `run-liveness.ts` states for `RUN_STALE_THRESHOLD_MS`),
a sweep starts every `Period` and ends before the next (`vercel.json`).

*Actions.* `Sweep` is the cron's load and classification, `LoadPage` and `ProbeAlive`
the two reads of the page, `Reap`/`ReapRefused` one call of the procedure.

### PushTrigger

*State.* `queue`, `inflight`, `idle` are the fields of `RunTriggerExecutor`; `handler`,
`drain`, `main` the threads; `connected` the keep-alive connections; `due` the
pushes under way, `accepted` what the app was last told; `decided`, `broken` which
stages of a run are over and whether one failed.

*Actions.* `submit` is `AddInflight` or `AlreadyQueued` (under its lock), then `Put`
or `PutFull` (after it), then `RefuseFull` (under it again). The drain thread goes
`DrainGet`, `DrainFetch`, `DrainAct`, ..., `DrainRelease`. The main thread goes from
`serving` through `draining` and `report` to its printed outcome and its exit.

### GtfsFeed and FeedInUse

*State.* `feed`, `pointer`: the feed's row (`status`, `current_version_id`). `status`,
`flagged`, `paths`: the version rows; a version is named by the ingest that wrote it.
`rows`: none, some or all of a version in each of the two derived tables. `objects`:
the bucket. `pc`, `task`, `todo`: what each ingest, sweep and removal does next and
what it knows, `task.path` being the path a caller hands to the closing. History:
`base`, the version an ingest was compared with; `uncleared`, versions whose deletes
were refused.

*Actions.* An ingest goes `BeginFeed` or `BeginRefresh`, `InsertVersion`,
`MarkFetching`, `Store`, `RecordObject`, `MarkParsing`, `InsertRoutes`, `InsertStops`,
`Finalize`, then `ReadIncoming`, `Compare`, `Promote`. `RefuseFeed` is the refusal of
an archive before it is stored or after its parse. Closing, by the ingest or by a
sweep, is `ClearRoutes`, `ClearStops`, `RemoveObject`, `MarkFailed`, `ReadPointer`,
`MarkFeed`. A sweep goes `Scan`, then `ReapNext` and a closing for each version, then
`SweepDone`. A removal is `ListObjects`, `RemoveObjects`, `DeleteFeed`; rows go with
their feed (cascading keys), so later writes by id match nothing.

*Failures.* Every call has a disjunct with `Fails`, which passes over it, or carries it
out and loses the answer where that matters. `Kill` ends any process between two
calls. `MaxFaults` bounds both, `MaxFailures` the failed calls.

*Abstractions.* The two derived tables stand for all; a batch insert that fails leaves
none, some or all of a table. The archive is its number of routes. `Abandoned` says
that the ingest of the version has ended: the sweep's cut-off of 15 minutes is three
times `maxDuration` (300 s), and the platform is assumed to enforce the latter.

`FeedInUse` has two variables: which version readers get and which rows they find
for it. It changes in one step to a complete version, or to nothing.

### AerialDispatch

*State.* `job`: the job's status per request. `ledger`: callbacks recorded. `route`:
each run of the process route. `fate`: what became of a request at the worker.
`queue`, `work`: the worker's queue, and its pipeline thread with what it reports and
how often it tried. `handler`, `seen`: each run of the callback route, named by its
callback and delivery, and the status it read. `applied` is history.

*Actions and failures.* Route: `ReadActive`, `InsertJob`, `PostRequest`, `HearWorker`
(an answer, or the time-out with the request possibly taken), `WriteAnswer`,
`KillRoute`. Worker: `CheckQueue` and `Enqueue` apart, as in the code, `TakeJob`,
`Finish`, `Send`, `Delivered`, `GiveUp`, `RestartWorker` (everything in memory is
gone). Handler: `Lookup`, `Record`, `Update`; a delivery that timed out leaves its
handler at work while the next is sent. `MaxFaults` bounds failed calls, time-outs of
deliveries, kills and restarts together.

*Abstractions.* One progress report stands for all, `failed` for `canceled`. The
NodeODM pipeline is a choice of outcome.

### AerialCustody

*State.* `recorded`: the success is in the ledger. `rows`, `objects`, `rollUp`: custody
per artifact, the bucket, the job's `artifact_custody_state`. `packages`,
`readiness`: the evidence packages. `pc`, `todo`, `got`, `claim`: each pass, made by a
delivery or a retry. History: `began`, what was held when a pass read the record;
`overtaken`, artifacts whose held record another pass wrote over.

*Actions.* `Record`, `WriteStatus` (a delivery) or `Retry`, `ReadSource` (a member), then
`ReadPrior`, `Fetch`, `WriteRows`, `Reread`, `WriteRollUp`, then `FindPackage`,
`InsertPackage` or `UpdatePackage`. `Fetch` stores any subset: an expired link, a
failed download, a wrong hash and a spent budget are all ways not to hold an
artifact. Any call may fail, any handler be killed.

### MeasureAllocation and MeasureFund

`MeasureAllocation` is a translation of the allocator in whole cents. `Takes`,
`PoolReserves`, `CategoryReserves` grant what the clauses ask for in declaration order,
each out of what is left (`InTurn`). `CategoryAmounts` rounds half up and places the difference, the
residual category first and, for a clawback it cannot absorb, the others in id order
(`Place`, carried out by `InOrder`, one step per id in ascending order). `FormulaShares` weighs the recipients' figures over one common denominator
and gives the difference to the last by id. `Contributions` raises those below a
floor at the cost of those above it. A percentage is a number of parts of `Whole`;
the code counts ten-thousandths of a percent, and the runs use eighths, in which all
rounding cases occur with small numbers. `IsOrdinance` says what of the parser's checks
the arithmetic rests on, `IsTable` what a table of figures is. A capped clause whose window cannot be
evaluated does not reach the allocator from this route.

`MeasureFund` has `rule` and `figures` (the ordinance and figures in force), `receipt`,
`booked` (the three tables, per period), and each `request`: `ReadPeriod`, `ReadTakes`,
`Replace` (one transaction; the CHECKs on amounts are `Accepted`), or `ReadFails`,
`ReplaceFails`, or `ReplaceByHand`. `RecordReceipt` may come at any time and leaves the
allocation as it is. `raced` is history: some request wrote on takes that were no
longer the year's.

## 3. Runs

### Runs that pass

| Run | Question | Bounds |
|---|---|---|
| `model_runs_relaunch` | Does one queueing of a stage have one executor, and does a relaunch leave something to do? | 2 replicas, 3 stages, 1 relaunch, 1 fault; one of the threads checks completion in its try block |
| `model_runs_first_attempt` | One stage per process, in order, success complete, without relaunch? | 3 threads in 2 processes, 3 stages, 1 reaper, 2 faults |
| `model_runs_settles` | Is every stage decided in the end? | 3 threads, 3 stages split as for behavioral demand, no fault, fairness |
| `run_reaper_spares` | Does a reap spare what moved or is executed, and get what is dead? | 2 runs, 1 worker, cron and page, 2 ticks per ms, skew 1, 10 ticks |
| `push_trigger` | Do the executor's structures agree, is the drain thread freed, and is one push enough? | 2 runs, 3 stages of which the last is the other worker's, 2 handlers, queue of 1, 2 rounds per trigger, one run relaunched without end and with failing reads, shutdown |
| `gtfs_feed` | Do readers ever see less than a complete version, and does every ingest end, empty or whole? | a first ingest by upload, a refetch a third smaller, 1 sweep that comes again, 1 removal, 2 faults of which 1 a failed call |
| `aerial_dispatch` | Is a report applied once, and does the job's status say what happened? | 2 requests for one mission, queue of 1, 2 deliveries per report, 1 fault |
| `aerial_custody` | Do package and roll-up claim no more than is held, and is held kept? | 2 artifacts, 2 deliveries, 1 member retrying without end, 2 faults |
| `measure_fund` | Do the books close, with floors and annual caps kept? | 2 periods, 3 requests, 6 recipients, receipts of 2 to 16 cents, 2 reports of receipts, 8 ordinances with figures |

Why these bounds are enough for the question:

- *Model runs.* A race is between a request and a thread, two threads, or a reaper and
  a thread, so two or three actors meet; two stages give "an earlier one", three give
  a middle stage that can be skipped and a last one that completes the run; one
  fault at each point of a stage, or two in a row, cover the failure paths and what
  recovery finds; a queue of one is full with one run while the drain has another. The
  clock bound lets a queueing, a full threshold and two sweeps happen.
- *Feeds.* Two ingests give a version in use and one that challenges it; a sweep runs
  again after a kill, so that a closing can be cut off and taken up; the second fault is
  what happens to whoever cleans up after the first.
- *Aerial.* Two deliveries are one that is still at work and one that overtakes it; two
  requests fill the queue of one behind the pipeline and meet in the check for an active
  job. Two artifacts distinguish held, missing and a mixture.
- *Measures.* The eight settings have a residual that is positive and one that is
  negative and exceeds its category, an annual and a per-period cap, the three kinds of
  reserve, a formula of two bases, a figure that is missing, a divisor of zero, floors
  that bind, that cannot be met and whose leftover exceeds the first donor's room.
  Three requests are two overlapping ones and a later correction.

That the safety properties of the passing runs do not depend on these numbers is proved
(section 5).

The clean properties have limits worth knowing. `StagesInOrder` and
`SucceededRunIsComplete` are stated without relaunches, `QueuedRunHasWork` with at
most one relaunch, no reap and no fault, because the code does not keep them
otherwise; `model_runs_relaunch` therefore has no reaper, and that a reap and a
relaunch together do not give a stage a second executor is the theorem
`ExecutorIsUnique`. `ToldUnlessTruncated` is about runs whose newest timestamp
survives the trip through JavaScript. `ClosedIngestIsEmpty` exempts versions whose
deletes were refused, `PathHasObject` holds until a removal begins, `ClaimIsBacked`
exempts records a pass at the same time wrote over, `AnnualCapHolds` requests that
computed on takes another was replacing, `RequestedIsAnswered` and
`SuccessGetsItsPackage` say nothing once a call failed. Each exemption is a behaviour
listed below.

Deadlock is not checked in any run: a run that is over, a request that returned and
a process that exited stop for good.

### Runs that find a difference between the code and what it says of itself

Each of these checks one statement of a comment or a test. The counterexample is a
short interleaving of code as it stands; `PROJECT.json` quotes the lines.

| Run | Statement, and what happens |
|---|---|
| `run_reaper_truncated` | a stuck run is turned into a failed one: the truncated timestamp makes the reap miss its own row, at every sweep |
| `gtfs_mirror` | a feed's status mirrors the version in use: an ingest that is being closed reads that there is none, a refresh is promoted, and `failed` is written over `ready` |
| `measure_negative_share` | the allocator invents no negative allocation: rounding up the equal shares of a small pool leaves the last recipient less than nothing, and the database refuses the whole period |

### More of what the models show

The modules have more such interleavings, which are behaviours of `Next` and the
reason why the properties above are stated as they are. They are recorded here for a
reader of the code and are not kept as runs.

Model runs:

- *Relaunch, run row.* The status is tested at the read (`launch/route.ts:144`) and
  the update is by id (443): a run that a worker took or completed in between is
  queued again. `run-modes.ts:43` says it cannot be.
- *Relaunch, double processing.* In that interleaving the reset (530-535) queues a
  stage that is being executed, and a second replica claims it while the first goes
  on. The claim's comment (`main.py:424-425`) is true of one queueing only.
- *Relaunch, outputs.* Stages are queued (530) before the outputs are deleted (563): a
  polling worker's first rows of the new attempt can be among them (588 speaks of a
  pushed worker only).
- *Relaunch, counters.* Two overlapping requests add two to `failure_count` for one
  failed attempt (405, 421).
- *Relaunch, rows.* Two overlapping requests of a run without stages both insert a
  full set (494, 516); the comment at 482-493 explains why that is corrupt.
- *Success taken back.* The ActivitySim worker's completion check is inside the try
  block of `process_stage` (`supabase_poll.py:749-767`): a connection error in it makes
  the except branch record the finished stage, and the run, as failed.
- *Skip.* A worker classifies a stage as blocked, a relaunch queues everything again,
  and the worker then marks the queued stage skipped (`main.py:5882`).
- *Reaper, gap.* The second statement of the procedure (migration `20260722000004`, 51)
  has a snapshot of its own: a claim committed after the first is failed by it, which
  `run-reaper.ts:8-11` excludes.
- *Reaper, between stages.* `hasRunningStage` is true while the run row says running
  (`run-liveness.ts:58`): a run whose next stage waits longer than the threshold for
  a busy worker is reaped as `stale_running`.
- *Reaper, queue.* A sweep that falls between two stages of a busy worker sees no live
  worker and reaps the queued runs behind them (`run-liveness.ts:123`).
- *Push, hand-over.* A run whose prior stage is the other worker's is left with
  "whoever finishes it continues" (`main.py:6035`); the ActivitySim worker rings nobody,
  so behind a push-only worker the stages after its own stay queued.
- *Push, duplicate.* `already_queued` is answered while the first push of that run is
  about to be refused (`main.py:6117-6128`), or after the drain thread has looked at
  the run for the last time (6041, 6167): the app is told that somebody has it.
- *Shutdown.* A push on a keep-alive connection is accepted after the process reported
  a clean drain (6378-6388).

Feeds:

- *Collapse.* The comparison (`persist.ts:792`) and the promotion (817) are two calls: a
  larger version promoted in between is replaced by a collapsed one.
- *Feed left pending.* A kill between the version's `failed` (1014) and the feed's (1045)
  leaves the feed `pending`: the sweep looks for versions in a stage, and there is none.
- *Orphaned objects.* A kill between the upload (`ingest.ts:514`) and
  `recordUploadedObject` (367) leaves an object nothing names, although 353-360 calls
  the reaper's clean-up "complete rather than best-effort". So does a removal of the
  feed while an ingest stores.
- *Rows left behind.* The answer of `deleteVersionRows` is not looked at
  (`persist.ts:997`): a version may say failed and keep its rows.
- *Ready without rows.* When the answer of the finalize is lost the ingest clears its
  rows; killed then, it leaves a version that says ready and is empty. It is never
  current.
- *Removal cut short.* Objects go first: if the delete of the feed then fails, the
  version in use names bytes that are gone.

Aerial:

- *Transition lost.* The ledger entry precedes the job's update: when the update fails,
  every retry is answered as a duplicate (`processing-callback/route.ts:125`, 163). The
  job stays `running`, and its mission busy, for ever.
- *Accepted over succeeded.* A quick worker's terminal report is written before the
  process route writes `accepted` by id (`process/route.ts:633`).
- *Running over succeeded.* A slow handler of an earlier report has read the status
  before the terminal one was written (`processing-callback/route.ts:154`).
- *Failed dispatch that works.* A dispatch that timed out is marked `dispatch_failed`
  while the worker has the job; its reports then move a terminal job no more.
- *Two jobs of one mission.* Two posts pass the check for an active job
  (`process/route.ts:335`) before either inserts.
- *Restart.* Jobs in the worker's memory are gone, and nothing sweeps their rows.
- *Queue bound.* It is measured before the put (`odm_worker/main.py:528`, 543): concurrent
  posts overshoot it.
- *Held record lost.* A pass that read the record before another one stored an artifact
  writes `missing` over `held` (`artifact-custody-server.ts:587`, 626), which the comment
  at 585 rules out.
- *No package.* When the insert of the package fails, the retry is a duplicate and there
  is never one; a custody retry that finishes before the insert updates nothing, and the
  package keeps `pending` (`custody/route.ts:245-248` says it will not).

Measures:

- *Clamp.* The comment at `allocation.ts:1452-1461` argues that the first donor always
  has room for the rounding leftover. With figures 0, 3, 3, 3, 3, 3, a pool of 15 cents
  and a floor of 2 it has not; the clamp below it, which the comment calls a cheap price,
  is what keeps the floor (variant `GiveAll`).
- *Annual cap.* Two requests for two periods of a year that overlap both compute on the
  takes before either, and exceed the cap (`allocate/route.ts:336`, 529).
- *Stale takes.* A receipt corrected after its period was allocated leaves the takes of
  the old one in the year's window until somebody allocates it again.

## 4. Fairness

Safety runs use `Spec`, or `FairSpec` where the same run checks liveness.

- `ModelRuns`: weak fairness of the create request, of each relaunch request and of
  each thread that has begun (a process that is not killed runs on; faults are
  excluded in that run). Strong fairness of `FetchQueued` per row: the poll loop
  starts again at the head of its list every few seconds and waits for nothing, so a
  row that is queued again and again is looked at; it would not hold with more
  than 25 older rows in the way (a hazard listed at `fetch_queued_stages`).
  Raising in a stage is a choice of the body, never forced.
- `PushTrigger`: weak fairness of the drain thread, of each handler, of an arriving
  push, of the polling worker, and of shutdown once it began. No fairness on
  `StopSignal`, `GraceExpires`, `Relaunch`, `PushFails` or `DrainRaises`: nothing
  makes them happen.
- `GtfsFeed`: weak fairness of each ingest that has begun, and of the sweep, which
  cron starts again whatever became of the last one. None on beginning, removing or
  killing.
- `AerialDispatch`: weak fairness of the process route's steps after its insert, of
  the handlers' and of the pipeline thread. These are fairness of all routes and of all
  handlers together, which is enough because each has finitely many steps. None on
  `CheckQueue` and `Enqueue`, on new requests or on restarts.
- `AerialCustody`: weak fairness of each handler that has begun. Nobody has to retry.
- `MeasureFund`: none; its properties are safety.

## 5. Proofs

The eight proof modules prove, for every value of the constants that satisfies the
assumptions in the modules:

| Theorem | Statement |
|---|---|
| `ModelRunsProofs!TypeCorrect` | `Spec => []TypeOK` |
| `ModelRunsProofs!ExecutorIsUnique` | `Spec => []OneExecutorPerAttempt` |
| `ModelRunsProofs!ProcessIsSerial` | `Spec => []OneStagePerProcess` |
| `ModelRunsOrderProofs!OrderIsKept` | `Spec => []StagesInOrder`, without relaunches (1) |
| `ModelRunsOrderProofs!SuccessIsComplete` | `Spec => []SucceededRunIsComplete`, without relaunches (1) |
| `ModelRunsOrderProofs!RelaunchLeavesWork` | `Spec => []QueuedRunHasWork`, with at most one relaunch and no reaper |
| `RunReaperProofs!TypeCorrect` | `Spec => []TypeOK` |
| `RunReaperProofs!MovedIsSpared` | `Spec => ReapSparesMoved` |
| `RunReaperProofs!ExecutedIsSpared` | `Spec => ExecutedRunIsSpared`, if workers log inside the threshold (2) |
| `RunReaperProofs!SilenceIsTold` | `Spec => []ToldUnlessTruncated` |
| `PushTriggerProofs!TypeCorrect` | `Spec => []TypeOK` |
| `PushTriggerProofs!EntriesAreAccounted` | `Spec => []InflightIsAccounted` |
| `PushTriggerProofs!IdleEventAgrees` | `Spec => []IdleEventIsExact` |
| `GtfsFeedProofs!TypeCorrect` | `Spec => []TypeOK` |
| `GtfsFeedProofs!CurrentVersionIsComplete` | `Spec => []CurrentIsComplete` |
| `GtfsFeedProofs!ClosedIngestsAreEmpty` | `Spec => []ClosedIngestIsEmpty` |
| `GtfsFeedProofs!PathsHaveObjects` | `Spec => []PathHasObject` |
| `GtfsFeedProofs!CollapsesAreWithheld` | `Spec => CollapseIsWithheld` |
| `GtfsFeedProofs!Refinement` | `Spec => ImplementsFeedInUse` |
| `AerialDispatchProofs!TypeCorrect` | `Spec => []TypeOK` |
| `AerialDispatchProofs!StatusIsCaused` | `Spec => []StatusHasItsCause` |
| `AerialDispatchProofs!AppliedOnce` | `Spec => []ReportAppliesOnce` |
| `AerialDispatchProofs!LateReportsChangeNothing` | `Spec => LateReportIsIgnored` |
| `AerialCustodyProofs!TypeCorrect` | `Spec => []TypeOK` |
| `AerialCustodyProofs!PackageIsUnique` | `Spec => []OnePackage` |
| `AerialCustodyProofs!ClaimsAreTrue` | `Spec => []ClaimIsBacked` |
| `AerialCustodyProofs!NoneForgotten` | `Spec => []NoArtifactForgotten` |
| `AerialCustodyProofs!HeldIsKept` | `Spec => HeldIsKeptByLaterPasses` |
| `MeasureFundProofs!FundTypeCorrect` | `Spec => []TypeOK` |
| `MeasureFundProofs!BooksAlwaysClose` | `Spec => []BooksClose` |
| `MeasureFundProofs!CapAlwaysHolds` | `Spec => []AnnualCapHolds` |
| `MeasureFundProofs!NothingBelowZero` | `Spec => []NoCategoryBelowZero` |
| `MeasureFundProofs!FloorsAlwaysMet` | `Spec => []FloorsAreMet` |
| `MeasureFundProofs!SharesGiveThePool` | the shares of a category that is distributed are its pool, and meet its floor |
| `MeasureFundProofs!CategoriesShareAll` | the categories are the allocable amount, none negative |
| `MeasureFundProofs!AllocationIsSound` | both, and the caps, for every ordinance that parses |

(1) and `ChecksInTry = {}` or `MaxFaults = 0`; (2) `BeatsInsideWindow`. Both are
explained below. Every inductive invariant was checked by TLC on small instances
before it was proved.

### Model runs

For any number of stages, threads, processes, relaunch requests and reapers, and any
bound on faults. `TypeOK` is inductive. `OneStagePerProcess` is inductive relative to
it: the only steps that start executing are guarded by `LockFree`.

`OneExecutorPerAttempt` is not inductive: it does not rule out a state in which a
stage is queued in the attempt in which a thread already executes it. The
strengthening is `AttemptInv`: no executing thread carries an attempt later than the
current one, and a stage that is `queued` has no executor of the current attempt.
The argument: only a queueing writes
`queued`, and it raises `attempt`, so that every claim made before belongs to an
older attempt; only `ClaimStage` creates an executor, it needs a queued row and
leaves it running. The proof first sorts every step into one of a few kinds (a
queueing, a claim, a step that adds no executor and no queued row; lemma
`NextKind`) and then shows that each kind keeps `AttemptInv`.

### Model runs: order, completeness, and what a relaunch leaves

`StagesInOrder` and `SucceededRunIsComplete` hold while the run is in its first
attempt. A worker classifies a stage in one call and claims it in another, so the
order rests on what cannot change between the two. `FirstInv` says it:

| Part | What it says |
|---|---|
| `FirstClaims` | every claim is of the first queueing |
| `DecidersWork` | a stage whose outcome is still to be written says running, unless a reaper failed it, and with it all that were queued |
| `ClaimersReady` | a thread about to claim found the earlier stages succeeded, and they still are |
| `SkippersBlocked` | a thread about to skip has a stage behind one that failed or was skipped for good |
| `CompletersRight` | a run that says succeeded, or is about to, has succeeded stages only |
| `OutputsThere` | a stage that says succeeded, or is about to, has registered its outputs |

and `StagesInOrder` itself. All rest on `RowsAndAttempts`, which says that rows appear
with the first queueing and that a relaunch that has queued stages is visible in
`attempt` or in the rows it inserted. The steps are sorted into those that write no
stage, and those that take, settle, skip, reap or create one; what all but the last
have in common is `Advances`: no stage goes back to `queued`, and one that succeeded
stays so.

The last is where the hypothesis comes from. The ActivitySim worker's completion
check sits in the `try` block of its stage: a call lost in it writes `failed` over a
stage that succeeded, while the next may already be executing. TLC shows that one
lost call breaks `StagesInOrder` for a thread in `ChecksInTry`. The theorems therefore
say: no such worker, or no lost call. Reaps and crashes are not restricted.

`QueuedRunHasWork` is about the second attempt: the route queues a run whose first
attempt it believes over, while threads of that attempt may still write into the
rows it resets. `CalmInv` says what is left to do, separately for a run of which no
row was reset, because the request has not come that far or inserted rows of its own
(`FreshHasWork`), and for one whose rows were reset (`ResetHasWork`). In the second case the witness is among the first two stages: the
first waits, and what a late thread of the first attempt can write to it is either
nothing or one outcome, with the second still untouched; or it has succeeded and
the second waits; or somebody is about to move the run row (for a run of one stage,
or to check whether it is complete). A late thread cannot spoil both rows, because
the second is neither claimed nor skipped before the first is decided.
`OneExecutorPerAttempt` is used in this. With two relaunches,
a reaper or a lost call the property does not hold (section 3).

### Reaper

For any runs, stages, workers, sweeps and page loads, any thresholds, periods and
skew, any number of ticks to the millisecond and any length of time. The constants
are assumed to be what the module says of them; `PartsAssumption` says that
the cron route is called by something (`vercel.json`).

- `ClockInv`: no timestamp lies ahead of the clock by more than the skew; a call of a
  reaper carries a timestamp from before its reading; so what was written to since
  the reading has a newer one (`MovedIsNewer`). `ReapSparesMoved` follows,
  because cutting a timestamp down only makes it older.
- `ExecInv`: a stage in execution is patched at least every `Beat` ticks, so what a
  reaper takes for stale is not executed. This needs `BeatsInsideWindow`, `Beat +
  TicksPerMs <= RunStale + 1`: `run-liveness.ts` states that the worker's log patches come
  "well inside this window", and a timestamp can lose up to a millisecond in
  JavaScript. The instance of `run_reaper_spares` meets it with nothing to spare.
- `SweepInv`: a run that was silent when a sweep began is on its list until reaped,
  and when a sweep began no run had been silent for longer than the period before
  it allows. `ToldUnlessTruncated` follows.

That the largest of a set of timestamps exists and is one of them (`MaxOfBounded`) is
proved from the well-foundedness of the naturals.

### Push trigger

For any number of runs, request handlers and stages, any bound on the queue and any
number of rounds of a trigger. `InflightIsAccounted` and `IdleEventIsExact` become
inductive with `TypeOK` and `ThreadsHaveRuns`: a thread at work has a run, and the
drain thread has none while it waits for the queue. The argument follows one entry of
`_inflight`: `AddInflight` creates it with a handler that had none, `Put` moves it to
the end of a queue that does not hold it, `DrainGet` from the front to the drain
thread, and `RefuseFull` or `DrainRelease` take it out of `_inflight` when it is
nowhere else. Two lemmas on sequences (`AppendFacts`, `TailFacts`) say what the two
ends do to the elements and that they keep them distinct; `DiscardIdle` says that
whoever removes an entry sets the event when it was the last. Steps that leave the
executor and its threads alone are dealt with at once by `OutsideInv`.

### Feeds

For any number of ingests, sweeps and removals, any sizes and any bounds on faults.
The properties of `GtfsFeed` are not inductive: that the version in use is complete
depends on who may still delete rows, and of which version. `IInv` says it, as
a conjunction of `TypeOK`, the properties, and

| Part | What it says |
|---|---|
| `OwnTask` | an ingest works on its own version, and knows no other path than its own |
| `SweepsTheAbandoned` | a version that a sweep is closing, or has still to close, belongs to an ingest that ended before it was ready, and the sweep names no other object |
| `WrittenSoFar` | how far an ingest has come says which of its rows are complete |
| `InUseIsKept` | the ingest of the version in use has ended |
| `ClearedSoFar` | how far a closing has come says which rows are gone |
| `FailedHasEnded` | the ingest of a version that says failed is over, or closing it |
| `PathSoFar` | a path known to an ingest, or written to its row, has its object until the closing removes it |
| `ComparedSoFar` | an ingest about to promote was compared with the version it remembers, and passed |

The proof has one lemma per group of actions (beginning and marking, storing,
inserting, finalizing, promoting, closing, sweeping, removing, killing), each with one
step per part that the group can disturb. The key facts are that only the promotion
sets the pointer, that it needs a version that says ready whose ingest stands at that
step, and that no sweep holds such a version, because a version that is not terminal
when its ingest has ended will never be ready.

`Refinement` maps `inUse` to the pointer and `shown` to the rows behind it. A step
that leaves both alone is a stutter, a removal is `Remove`, and every other change is
`Adopt` of a complete version, which is `CurrentIsComplete` in the next state.

### Aerial dispatch

For any requests and missions, any length of the worker's queue, any number of
attempts to deliver and of faults. That a report is applied once is not inductive: it
needs `OneUpdater`, by which a handler between its ledger entry and its update is the
only one of its callback, and nothing was applied yet. The unique key of the ledger
makes the second handler stop, whenever it arrives. `StatusHasItsCause` needs that what
the worker has queued or at work it has taken (`WorkIsTaken`), that an answer on its
way to the row was given (`AnswerWasGiven`) and that a request that is not posted is
unknown to it. `UpdaterMay` says that a handler that goes on to the update read a
status that lets it. A step is one of the route, of the worker or of a handler; each
leaves the other two's part of the state alone.

### Aerial custody

For any artifacts and retries, any finite set of deliveries (the worker stops after a fixed number of attempts;
`TypeOK` bounds the number of packages by theirs) and any
number of faults. One package: `OneHandler` says that at most one delivery is past the
ledger entry, and that while one is there is no package. Claims: `ObjectsKept` says
that a record that says held has its object, and so has what a pass has stored and
not yet recorded; nothing ever removes an object. `ClaimsBacked` says that every claim,
also one still in the hands of a pass, was true when made, and that the only way to
lose a held record since is to be written over by a pass that looked before
(`overtaken`). `TodoComplete` and `HeldLeftAlone` say what a pass works on: all
artifacts or all have records, and never on one it found held.

### Measures

For any ordinances, tables of figures, periods, requests, receipts and stated amounts,
and any bound on corrections. Of an ordinance it is assumed that it parses
(`SettingsAssumption`): `parseMeasureAllocationRule` lets no negative number and no
unknown residual category through. That percentages or weights add up to a hundred is
checked by the parser and not needed here. Where more than the receipt is promised,
each clause gets what is left, and a residual of any size is placed.

*Induction.* What a fold computes is shown by induction over the set it runs through.
The library's induction theorems take the claim as an operator, which no installed
prover can instantiate; here the claim is a set, the parts of a finite set for which it
holds (`CountingDown`), and `Recursion` says that a recursion over the parts exists.
Both come from the well-foundedness of the naturals. On them rest the laws of finite sums (`SumSplit`, `SumAdd`, ...) and
`OrderedSteps`: taking the largest member last, `InOrder` takes the steps in ascending
order.

*Arithmetic.* The lemmas follow the sections of the allocator.

- `InTurnFits`: grants are no more than what was asked for, and together no more than
  the pot. So takes and reserves never exceed what they come out of.
- `PlacedInFull`: the residual of the category rounding is placed in one pass. If it is
  positive the residual category takes it. If it is negative, then what is still to
  be clawed back never exceeds what the categories not yet visited have, because the
  sum of amounts and remainder is the allocable amount at every step and that is not
  negative. `CategoriesShareAll` follows.
- `FloorsFit`: whenever the floors can be met, those above can pay for those below
  (the comment `NO ITERATION`, `allocation.ts:1420`).
- `HalfUpWithin`, `GatheredInFull`: rounded pro rata, no donor is asked for more than
  its headroom, and one pass over the donors places the whole leftover.
- `SharesGiveThePool`: so the shares of a category are its pool, and the check at the
  end of a category (`allocation.ts:1497-1515`) never throws; no share is below the
  floor. The comment at 1452 says of the clamp that coverage is not proven: with the
  clamp it is, by the step before, and without it the floor fails (section 3).

That shares are not negative is not among this, because without a floor they may be
(run `measure_negative_share`). `AllocationIsSound` puts the parts together.

*The fund.* The inductive invariant is `FundInv`: `TypeOK`, `BooksClose`,
`AnnualCapHolds` and `PeriodsAreRead`, by which a request past its first read has a
period of the year; without it a write could fall outside the year's window and prove
nothing about it. `TypeOK` says of a period that it holds money, which a `Replace` keeps
because the CHECKs let no negative share in, and of a request that it carries naturals,
which is what `AllocationIsSound` asks for. For the annual cap, the sum over the year
with one period replaced is the new take and the takes of the others
(`YearWithOneReplaced`), and unless the request was raced those are the ones it
computed with. `NoCategoryBelowZero` and `FloorsAreMet` are about what a request is
about to write and follow from `TypeOK` alone.

### Only model-checked

- Everything under fairness: the prover has no rule for `ENABLED`. These are
  `EveryRunSettles`, `InflightRunIsReleased`, `PushedRunSettles`, `EveryIngestResolves`,
  `QueuedJobEnds`, `RequestedIsAnswered` and `SuccessGetsItsPackage`, the only
  properties of the passing runs without a theorem.
- Nothing is said of `StagesInOrder` and `SucceededRunIsComplete` for a run that is
  relaunched, or with a lost call next to a worker that checks completion in its `try`
  block: they do not hold there.

## 6. Not modelled

- *Inside a step*: the numerical bodies of the stages, the parse of a transit feed,
  the NodeODM pipeline, the download and hashing of an artifact. Each is a choice
  over its outcomes.
- *Around the modelled parts*: request parsing, authentication, row-level security,
  audit logs, display names and wording; the artifact server of the ODM worker;
  missions, flight plans, imagery uploads; the transit catalogue search; effective
  dates of ordinances and figures, narrative clauses and the printed statement of
  a measure.
- *Two transactions on one period*: `MeasureFund` takes a replacement as one step. Two
  replacements of the same period at the same time under READ COMMITTED could leave
  rows of both where their keys differ; the model does not split the procedure.
- *Measure claims*: single rows with a transition table, read and then updated by id.
  The hazard that two officers overtake each other is listed.
- *OCR and county runs*: the callback protocol of the aerial lane again, with fewer
  actors; a second copy would repeat its questions.
- *Approvals, workspaces, notifications*: what could race is decided in one statement of
  the database (a conditional update, a trigger that locks the workspace, a unique
  key).
- *Workspace GIS layers*: the promotion pattern of feeds, with the browser as the only
  writer of an ingest.
- *Queue depth and run cap*: a count followed by an insert; listed as a hazard.
- *Invoicing, awards, engagement, RTP cycles, in-process engines, analysis, scenarios,
  reports, safety, Title VI, network packages, scripts, QA harness*: derivations and
  single-row edits, whose difficulty is data rather than behaviour.
