# Verification of quant-ashare

This directory holds TLA+ models of quant-ashare, the TLC configurations that
check them, and TLAPS proofs about eighteen of them. quant-ashare is an A-share
data warehouse on BigQuery, filled by ingestion jobs and refreshed by Google
Workflows (or, for rollback, Composer DAGs), and a runner for the "strategy 1"
experiments: Cloud Run jobs that orchestrator processes start and watch, which
train, backtest, judge and promote models. Nearly all that can go wrong
unnoticed there goes wrong between actors: a lock object in GCS, a workflow that
has given up on a call, a job that goes on, a status row with two writers,
tables rewritten one after the other by a program that may stop in between.

Paths are those of the repository (`orchestration/...`, `scripts/...`,
`src/quant_ashare/...`).

## 1. Inventory

| Component | State | Operations | Talks to |
|---|---|---|---|
| pipeline-control service, lock routes (`scripts/pipeline_control/{service,state}.py`) | one GCS object per lock: owner, expiry, generation | acquire, heartbeat, release; reclaim inside acquire | GCS; called by both warehouse workflows |
| pipeline-control service, task and status routes (same files) | `pipeline_run`, `pipeline_task_status` rows | run / submit / poll SQL, status MERGE | BigQuery; called by all workflows |
| window refresh (`orchestration/workflows/ashare_warehouse_window_refresh.yaml`) | position, `current_task_id` | lock, ~17 SQL tasks with heartbeats, weak chain, QA, release, error branch | service; child of the daily workflow |
| full rebuild (`..._full_rebuild.yaml`) | position, `lock_acquired`, `bigquery_poll_count` | confirm, lock, ~30 submit-and-poll tasks, release, error branch | service; same lock as the window refresh |
| daily ingestion workflow (`ashare_ods_ingestion_daily.yaml`) | position, flags | trading-day gate, ingestion job, readiness, child workflow | service, Cloud Run job |
| Composer DAGs (`orchestration/composer/dags`) | task states, Variables | the same refresh as Airflow tasks, branches and gates | service tables, ingestion job |
| ingestion jobs (`scripts/ingestion`) | parquet partitions, run and partition status | page, read, merge, publish, write status | Tushare API, GCS, BigQuery |
| ODS repair (`scripts/ods_repair`) | staging, backup, manifest | read, cast, stage, validate, back up, publish, record | GCS, BigQuery |
| alert checker, alert set-up (`scripts/alerting`) | log entries, heartbeat; policies, metrics | read rows, log, beat; list, migrate, create | BigQuery, Cloud Logging, Cloud Monitoring |
| experiment orchestrator (`src/quant_ashare/strategy1/pipeline_control.py`, `state.py`) | GCS lock per step, `experiment_run_status` row, two threads, a pool of chains | `run_chain`, `run_locked_step`, heartbeat loop, wait loop, fan-out batches | GCS, BigQuery, Cloud Run through gcloud |
| annual scheduler (`annual_pipeline_scheduler.py`, `annual_rolling_plan.py`) | scheduler lock, state object with a record per unit; windows and run ids of the plan | plan, dry-run waves, recover, admit, submit, confirm, record | GCS, BigQuery, Cloud Run |
| native search, selection (`orchestrate_sklearn_native_search.py`, `search.py`, `select_register_predict.py`) | aliases, registry rows, predictions, report | train, register, predict, backtest, compare | GCS, BigQuery |
| acceptance gate (`replay_acceptance_gate_v3.py` and what it uses) | verdicts in the registry | metrics, gates, replay, live judgement | BigQuery |
| ledger (`ledger.py`) | positions, cash, pending orders | the daily loop, resume from a stored day | BigQuery |
| overlay comparison, report jobs (`tail_risk_overlay_ab.py`, `analyze_tail_risk.py`) | tables of one backtest | start jobs, wait, compare, guard hashes | BigQuery, Cloud Run |
| continuous synthesis, promotion (`synthetic_continuous.py`, `promotion.py`) | research and published tables | refit, merge, backtest, promote | BigQuery |
| matrix, training, rendering of reports | files | numerical work | GCS, BigQuery |
| SQL, Dataform, deployment scripts | tables | set-based SQL, shell | BigQuery |

What is hard in it:

* *interleaving*: requests of the lock routes over one object, whose reload,
  download, upload and delete are separate calls; the heartbeat and the main
  thread of an orchestrator over one `_generation` and one row; two repairs
  with one run id; two ingestions over one staging object;
* *time*: leases against task timeouts, poll periods and heartbeats that are
  placed by hand between tasks; a checker that looks back over a window;
* *lost and late*: a caller that gives up while the request or the job goes on,
  retried requests, lost answers, an error branch that writes rows another
  writer still writes;
* *crashes*: a killed scheduler between a submit and the record of it, a merge
  between two years, a backtest between two tables, and the same program
  started again, with or without its resume or force flag;
* *stale reads*: a resumed search over models of an earlier matrix, a
  comparison or a promotion that copies tables while they are rewritten;
* *boundaries*: windows of training and prediction cut from calendars, fees
  and lots against the last of the cash, ratios without a denominator.

What makes the components correct is the list of properties in section 3.

## 2. Modules

| Module | Models | of |
|---|---|---|
| `LeaseLock` | abstract: the steps of a lease lock | `ControlLock`, `WarehouseRefresh` |
| `LeaseClaims` | abstract, EXTENDS `LeaseLock`: what a lock service promises its callers | implemented by `ControlLock` |
| `ControlLock` | the lock routes, one GCS call per step, and their callers | `service.py`, `state.py` |
| `WarehouseRefresh` | executions of both warehouse workflows over the lock | the two YAML files |
| `PipelineStatus` | the daily workflow (or a rebuild cut down to one polled task), its rows, its requests in flight, the hourly checker | `ashare_ods_ingestion_daily.yaml`, `state.py`, the status views |
| `ComposerDags` | the four DAGs, task by task, with trigger rules, branches, Variables and status rows; which table each script builds and reads | `orchestration/composer/dags` |
| `AlertChecker` | the checker's queries, entries and heartbeat against rows that come and go | `check_alerts.py`, views |
| `AlertPolicies` | list, match, migrate and create of policies and metrics | `setup_alerts.py` |
| `Ingestion` | one job over endpoints and days: pages, merge, publish, status | `scripts/ingestion` |
| `OdsRepair` | workers on one file, with the manifest and its validation | `repair_parquet_schema.py`, `validate_repair.py` |
| `LockedStep` | `run_locked_step`, both threads, over `GcsLeaseLock` and the status row | `pipeline_control.py`, `state.py` |
| `ExperimentPool` | the pool of chains above it: submit, collect, resume, batches | `pipeline_control.py` |
| `AnnualLive` | `execute_candidate_only_live_smoke` over its state object | `annual_pipeline_scheduler.py` |
| `AnnualWaves` | the dry-run schedule: tasks, dependencies, admission, waves | the same file |
| `RollingPlan` | windows, panels, run ids and the yearly commands of the annual plan | `annual_rolling_plan.py` and the jobs it names |
| `CandidateSearch` | the native search: train, register, predict, backtest, compare | search scripts, `select_register_predict.py` |
| `AcceptanceGate` | metrics, gates and verdicts, live and in replay | the gate scripts |
| `Ledger` | the daily loop of the backtest and its resume | `ledger.py` |
| `BacktestReport` | the jobs that write and read one backtest, and the overlay comparison | `tail_risk_overlay_ab.py`, `analyze_tail_risk.py`, report job |
| `Promotion` | refit, merge, backtest and promote, statement by statement | `synthetic_continuous.py`, `promotion.py`, the deletes of `ledger.py` |
| `...Proofs` | the proofs of section 5 | |
| `MC...` | the instances TLC checks | |

The composition is by abstraction. `ControlLock` takes the lock routes apart
into GCS calls and is shown to implement `LeaseClaims`, in which the steps of
`LeaseLock` are tied to what each client was told; `WarehouseRefresh` uses the
steps of `LeaseLock` as its lock calls and has the workflows' tasks instead;
`PipelineStatus` has the whole window refresh as its child, which ends one way
or the other. In `ExperimentPool` an execution holds its step's lock while it
runs, which is what `LockedStep` is about. `Promotion` has a backtest as the
statements that clear and write its tables, `Ledger` the arithmetic inside it,
`BacktestReport` the jobs around it.

Some MC modules hold several programs that share no state (a behaviour is of one
of them, chosen in the initial state; the variables of the others stay where they
began): `MCGuardedObjects` (`ControlLock`,
`OdsRepair`), `MCOrchestrator` (`LockedStep`, `ExperimentPool`),
`MCAnnualScheduler` (`AnnualLive`, `AnnualWaves`), `MCBacktest` (`Ledger`,
`BacktestReport`), `MCNativeSearch` (`CandidateSearch`,
`AcceptanceGate`), `MCDataPipeline` (`PipelineStatus`, `ComposerDags`,
`AlertChecker`, `AlertPolicies`). The modules of proofs are shared in the same way,
by programs that belong together only loosely; section 5 has which proves what.

### 2.1 ControlLock

`gen`, `owner`, `left` are the object's generation, `lock_owner` and
`lease_expires_at`; generation 0 is "no object", as in `if_generation_match=0`.
Expiries are countdowns in ticks, -1 when passed, so the code's
`utc_now() > lease_expires_at` is `left < 0`. Each client (a workflow execution)
has at most one acquire, one heartbeat and two release handlers in the service:
the regular release and the one of the error branch. A handler record keeps what
the Python frame keeps between two GCS calls: the generation seen and the expiry
computed. `GiveUpCall` lets the caller fail (HTTP timeout, cancelled execution)
while its handler stays; `Answer` then goes nowhere. Which answers are
nondeterministic: the `reload()` after a write (the GCS client may raise or read
a newer object if its own was replaced), and the write whose answer is lost, is
retried by the client library and meets its own object (`AcqCreate`).

`HolderOwnsObject` is the point of the lock: a client that counts down the
expiry of the last answer it accepted, and has not run out, owns the object, and
for at least as long. It is about the client's knowledge (`held`) against the
object, over everything late handlers of any client may still do.

### 2.2 WarehouseRefresh

One tick is 900 s. `Plan` lists the tasks of each mode in the order of the YAML:
who writes tables and who is followed by a heartbeat. `pc` is the workflow's
position; a task call takes between 0 and `TaskLimit` ticks, after which the HTTP
timeout (1800 s, window refresh) or the next poll (full rebuild) is due.

* Window refresh: lease 4500 s = 5 ticks, task timeout 1800 s = 2 ticks.
* Full rebuild: lease 21600 s = 24 ticks. A submit and the first poll are up to 6
  attempts of 300 s each and their backoffs, as is any later poll: 5 ticks
  between two calls that reach the lock are above what the retries allow.

`stray` says that a BigQuery job which writes goes on although no call waits for
it: after a timeout, a cancelled execution, a retried submit. Nothing is assumed
about when it ends. `late` is an acquire request the workflow has given up that
the service still executes. `Tick` waits for whatever is not a task (`Patient`):
lock calls and status writes are short against 900 s. That is the one timing
assumption. It matters: with a lock call as slow as a lease, `AttachedWritersExclusive`
would have to be stated for clients that look at their expiry, and the workflows
do not; they rely on where heartbeats are placed.

Left out: the status writes as rows (only that a call may fail), dates, the
query parameters. A second execution of one workflow id never starts: an execution
is one member of `Client`, its id is the lock owner.

### 2.3 PipelineStatus

`opt` are the arguments, `pc` and `phase` are `current_task_id` and what of the
task comes next. `run` and `rows` are the execution's rows in the two status
tables; a call to the service may fail with or without its effect (`since` bounds
how long the caller waits). A request is in a slot of its own from its submit
until the service is done with it, whoever still waits for it, and writes its
task row before and after the query; the ingestion job and the child workflow
also go on when the connector has given up. The error branch writes the failed
task and the failed run. The hourly checker logs what the alert views return.
The window refresh is one outcome here, as is the job.

### 2.4 ComposerDags, AlertChecker, AlertPolicies

`ComposerDags` has the DAGs as edges between tasks, with the groups of
`ashare_common.py` as sets of edges that are joined as `>>` joins them; per task
its Airflow state, its branch or gate as an action of its own, and Airflow's trigger
rules as the external part. `_pipeline_dry_run` and the other settings are
read anew by each task, from the run's conf and from Variables that may be set in
between (`SetVariable`). The scheduler marks every task it can before the next
one runs. Abstracted: backends other than `bq_sql`, task rows other than
"skipped" ones, the row's `warehouse_mode`. `GraphsInOrder` says of the edges what the
proofs need of them (section 5.11).

`AlertChecker` has rows that are overwritten by a retry under the same id, several
checkers (the scheduled one and one by hand) with their arguments, and each
step of a check: query, entries one by one, heartbeat. `AlertPolicies` has the
list that is read first and the calls that follow it, any of which may fail, and
edits in the console; `alone` names a set-up that no edit or second operator met.

### 2.5 Ingestion, OdsRepair

`Ingestion` goes through its plan item by item (`FirstOf`, `Following`: by endpoint,
then by date): pages with a limit, retries, a server that ignores the offset;
report-period partitions are read, merged and published over one staging object that
all executions share; then the run row and the partition status. `raised` is the except
branch of `main`, which writes off every item. What is assumed of the manifest
(`ManifestAssumption`: an endpoint is in a group once, the endpoints of a group that
look back do so equally far, those of a report period do not look back) is how
`configs/ingestion/ods_current_scope_v0.yml` is written.

`OdsRepair` follows one file through any number of workers, each with a run id that
may be shared: read and cast, stage, validate, look for a backup, copy it with
`if_generation_match=0`, publish, tidy up, write the manifest row; a worker may
fail or be killed at each call and be started again, and the ingestion may publish
the file anew. `late` and `overtaken` are histories that name what the code cannot
promise: the file was republished between a worker's read and its publish, and
two run ids were at work at once, so the backup of the second may be of the file the
first has repaired.

### 2.6 LockedStep, ExperimentPool

Each orchestrator runs the same step once. `pc` is the main thread, `hb` the
heartbeat thread; `my` is `_generation`, which both threads read at the moment of
a call and assign after a `reload`. `got` and the fields of `hb` are the locals.
Every GCS call may fail, with or without effect (`fault` remembers it); the BigQuery
MERGE likewise; `gcloud execute` may start the execution and fail or print no id;
a describe may fail five times (`StopWaiting`); the process may be killed at any
point. The row is its status and who wrote it last. Ticks are unconstrained:
no property relies on a lease being longer than something. `Lease = 0` means that
a lease is over with the next tick, which makes expiry possible at every point
with the fewest states.

`ExperimentPool` has a thread per experiment and the collector of
`run_chain`, batches of units, executions that hold their step's lock, a kill and
a start with other arguments. `ReportIsTrue`: what an orchestrator that ended says of
an experiment is so, where a success means (`Stands`) that its backtest is there, the
predictions it read, and the training of whichever mode these came from. Batches are named by number, so after
`--candidate-parallelism` was changed `--resume` may take a batch of the old
division for one of the new; `load_candidates` finds that out, unless
`--allow-partial-candidates` is given, and the model has that check.

### 2.7 AnnualLive, AnnualWaves, RollingPlan

The scheduler lease is never reclaimed by code (the class says so); when a
scheduler dies an operator removes the object (`RemoveLock`), which the model
allows only for a run that is over. So one run is at work at a time, and reads and
conditional writes of the state object are single steps. Each run has its own
selection of units, as `--smoke-years` does. Executions are records that end when
they like; `WriteArtifacts` is the last artifact of a unit. `saw` is `last_state`
of the poll loop, of which only "succeeded" matters after the last attempt.

`AnnualWaves` is `build_pipeline_tasks`, `ready_tasks`, `select_admissible_tasks`,
`submission_groups_for_wave` and `simulate_dry_run_schedule` over a grid of
candidates and every setting of the limits. The command line checks none of them, so
they may be zero or negative, and `WithinLimits` is said of what a wave has selected.
A wave is one `Consider` per ready task and one `EndWave`; only the number of tasks
bounds the waves, as `range` does in the code.

`RollingPlan` has years of `DaysPerYear` days and plans emitted at an as-of date,
each with arms; every command of a plan may run whenever its inputs are there and may
run again. Panels are ranges of days. A prediction records the last day whose close it
rests on. Divergences of names that matter (`final_refit_backtest_id` always ends in
`__refit01`, `continuous_backtest_id_for` has no arm suffix) are in the model. An empty
suffix is taken for the default one (`final_refit_run_id`), so an arm has one;
"none" in the run id of a selection stands for no suffix. `Rivals` of an arm are
those whose refits have its run ids; `parse_args` refuses only one such pair, so
`ArmsKeepApart` and `EveryDayOnce` say of which arms they speak.

### 2.8 CandidateSearch, AcceptanceGate

`CandidateSearch` has the orchestrator of the native search with its jobs, which are
killed and started again with or without `--resume`, and over another matrix.
Per candidate: alias, registry row, predictions, backtest, and whose they are.
Matrices are numbers in the order they were prepared; an output has the number of the
one it was computed from.
`AcceptanceGate` enumerates NAVs of one to four days, two indexes and registry rows
and has the metrics as quotients (with the code's results for a missing
or zero part) and the verdict of the live job and of the replay. A return is
compounded to the whole part of `AnnualFactor` over the number of periods, where the code
has the fraction. `CasesAreSound` says what its proofs ask of the cases
(section 5.16); TLC evaluates it for the cases of the run.

### 2.9 Ledger, BacktestReport, Promotion

`Ledger` is in integers: prices, lots, fees in basis points rounded down; its days have
halts, splits, dividends, floors and signals from small sets, and the walk may be
resumed from any stored day. `MarketAssumption` has of the market that what can be bought
at the open has a close that day (`can_buy_open` is false where `is_suspended`, which is
true where the close is missing: `sql/dwd/01_dwd_stock_eod_price.sql`). The float path,
metrics and trade rows are left out.

`BacktestReport` has the jobs that write one backtest's tables (backtest, report,
tail-risk analysis with its guards before and after), started by hand or by the
overlay comparison, which waits, compares and may be killed and started again,
while predictions may be rewritten.

`Promotion` has the tables as sets of rows and every program as the statements it
sends: refits that register and predict a year, the merge that deletes and inserts
year by year, a backtest that clears and writes table by table, the promotion that
copies per role. A program may stop between any two. Histories: `raced`, a source year
was rewritten while it was merged; `stacked`, a backtest was written over another
one's tables (unforced, or with a summary whose ledger is gone).

## 3. Runs

All runs use two workers and finish in under four minutes.

| Run | Instance | Shows |
|---|---|---|
| `guarded_objects` | lock: a window client (lease 1) and a rebuild client (lease 2), 4 generations; repair: 3 workers of 2 run ids, 3 starts, 1 failure, 2 versions | `HolderOwnsObject`, `KeepsLeasePromise`; `OriginalIsKept`, `NewestStays` |
| `window_and_rebuild` | a window refresh and a full rebuild, leases 5 and 24, limits 2 and 5 ticks, `MaxPolls = 1`, 2 dimension, 3 QA, 1 rebuild script, fairness | `AttachedWritersExclusive`, `SuccessIsExclusive`, `LeakHasCause`, `EveryRunEnds`, `LockComesBack` |
| `locked_step` | two orchestrators with `--resume`, `MaxGen = 3`, symmetry | `ProtectedKeepsLock`, `LastRowStays` |
| `orchestrator` | one step's orchestrator; a pool of 2 experiments, the second on the first one's predictions, 3 units, 2 starts with any of 3 command lines (batches of 2; resumed with batches of 1; resumed from `train_predict`); fairness | `EveryProgramEnds`, `ReportIsTrue` |
| `annual_scheduler` | dry run: 2 years, a grid of 3, 486 settings of the limits and 3 of the batch size; live: 2 runs over 2 units in opposite orders, `Fanout = 1`, `MaxPolls = 1`, fairness | `WithinLimits`, `EndsWell`; `RecordsAreTrue`, `RecordedIsNotResubmitted`, `EveryRunEnds` |
| `data_pipeline` | the daily workflow with each kind of arguments, calls that fail once, 4 ticks; the DAGs with each kind of run, 1 failing task, 1 flip of a Variable; 2 checkers; 2 policies | `RecordsAreTrue`, `SuccessIsComplete`; `BuiltBeforeRead`, `WholeSuccess`; `HeartbeatVouches`; `SetupConverges` |
| `exempt_runs` | the workflow alone | the finding of section 6 |
| `ingestion` | two executions, two endpoints, 3 days, 5 settings | `NoRowLost`, `SuccessIsConfirmed` |
| `native_search` | 3 candidates, the best 2, two starts, two matrices; NAVs of 1 to 4 days, 2 indexes | `WrittenOnce`, `ComparedAreCurrent`; `AcceptedBeatsAnIndex` |
| `backtest` | 2 securities, 4 days; two arms of a comparison | `CashNeverNegative`, `LeftoverIsRetried`, `ResumeExact`; `ComparesItsOwn`, `NothingRunsOn`, `AnalysedIsCurrent` |
| `promotion` | 3 days, 2 years, 4 starts of programs, 2 promotions | `SyntheticDaysOnce`, `PublishedIsOneBacktest` |
| `rolling_plan` | 2 arms, 2 backtest years of 4 days, 3 plans | `NoLookAhead`, `EveryDayOnce`, `ArmsKeepApart` |

Each property is stated, with what it says of the code, above its definition.

Bounds, and why they are enough:

* `MaxGen` of `ControlLock`: four generations are enough for a lock that is created,
  extended, reclaimed, created by the other client and extended again, while
  handlers that remember any of the earlier generations are still around. The
  proofs hold for every value.
* `MaxGen` of `LockedStep` only stops heartbeats from starting, so an orchestrator
  always comes through its own three writes.
* Two clients, runners, runs, arms: every property is about one actor against "the
  others", and no step involves three. The repair has three workers because two of
  one run id and one of another matter at once.
* `MaxPolls = 1`, `MaxRetries = 1`, one failure: at the limit and below it both occur,
  and a second failure meets a program that is already on its error path.
* `Dims`, `Qas`, `Rebuilds`: one of each kind of task is enough for each kind of
  neighbour; the proofs have any number.
* `MaxNow = 4`: a call at its limit, the error branch, a late request and two runs of
  the checker. The DAGs have one of the four finance chains, which do not touch each other.
* `Promotion` has four starts: two refits, a merge and a backtest, or any of
  them twice. One case is beyond it (section 6, `stacked`); the proof found it.
* `RollingPlan`, `Ledger`: years and days are as short as keeps a horizon, a resume and a
  first and last day apart.

`CHECK_DEADLOCK FALSE` is set where actors finish and nothing is left to do, or
where a bound stops them. The warehouse run checks for deadlock: time goes
on after both executions have ended.

The type invariants of the modules with proofs are theorems and not repeated in
the runs; so is `LeavesNoLock` of `LockedStep`.

## 4. Fairness

* `WarehouseRefresh`: Workflows drives a started execution (`WF(Workflow(w))`), a
  call at its limit times out or is polled again (`WF(AtLimit(w))`), the service
  executes the requests it has (`WF(LateAcquire(w))`), time passes. Starting,
  cancelling, a task's end before its limit and the end of jobs are not fair:
  `EveryRunEnds` holds although a job hangs, by timeout and by `bigquery_max_polls`.
* `LockedStep`: both threads are scheduled, and an execution ends because its Cloud
  Run job has a task timeout. Giving up on describes, losing the lock and being
  killed are not fair. `EveryStepEnds` therefore rests on the job timeout; the wait
  loop itself has none.
* `ExperimentPool`: the main loop and the threads are scheduled, and an execution that
  holds its lock ends (the same timeout). A kill is not fair.
* `AnnualLive`: only the scheduler's own steps. Executions may hang: the number of
  poll attempts ends the wait.
* `CandidateSearch` states the same for its orchestrator and jobs; no run asks a liveness
  question of it.

## 5. Proofs

Proved for every value of the constants, from the assumptions the modules name:

| Module | Theorem | States |
|---|---|---|
| `GuardedObjectsProofs`, lock | `TypeCorrect`, `MutualExclusion`, `ImplementsLeaseClaims` | `HolderOwnsObject`; the refinement `KeepsLeasePromise` |
| the same, repair | `RepairTypeCorrect`, `OriginalIsSafe`, `NewestIsSafe` | `OriginalIsKept`, `NewestStays` |
| `WarehouseRefreshProofs` | `TypeCorrect`, `WritersExclude`, `SuccessExcludes`, `LeaksExplained` | `AttachedWritersExclusive`, `SuccessIsExclusive`, `LeakHasCause` |
| `LockedStepProofs`, step | `TypeCorrect`, `RunningExecutionKeepsLock`, `EndLeavesNoLock`, `LastRowStaysLast` | `ProtectedKeepsLock`, `LeavesNoLock`; the action property `LastRowStays` |
| the same, ingestion | `IngestionLosesNoRow`, `IngestionConfirmsSuccess` | `NoRowLost`, `SuccessIsConfirmed` |
| `ExperimentPoolProofs`, pool | `TypeCorrect`, `ReportsAreTrue` | `ReportIsTrue` |
| the same, ledger | `ResumedWalksTheSame`, `LeftoversStayOnTheList`, `BuysArePaidFor`, `NeverInDebt` | `ResumeExact`, `LeftoverIsRetried`; `CashNeverNegative`, if `SalesPay` |
| `AnnualSchedulerProofs`, live | `TypeCorrect`, `OneAtWork`, `StateObjectTrue`, `NoSecondSubmit` | `RecordsAreTrue`; the action property `RecordedIsNotResubmitted` |
| the same, dry run | `PlanningTypeCorrect`, `WavesStayWithinLimits`, `PlanningEndsWell` | `WithinLimits`, `EndsWell` |
| `PipelineStatusProofs`, workflow | `TypeCorrect`, `RowsAreTrue`, `SuccessIsWhole` | `RecordsAreTrue`, `SuccessIsComplete` |
| the same, alerts | `HeartbeatsVouch`, `SetupEndsConverged` | `HeartbeatVouches`, `SetupConverges` |
| the same, DAGs | `ReadersComeAfterBuilders`, `RecordedSuccessIsWhole` | `BuiltBeforeRead`, `WholeSuccess` |
| `RollingPlanProofs`, plan | `TypeCorrect`, `NothingKnownEarly`, `EveryDayIsPredictedOnce`, `ArmsStayApart` | `NoLookAhead`, `EveryDayOnce`, `ArmsKeepApart` |
| the same, backtests | `ReportAnalysesWhatIsThere`, `OverlayLeavesNothingRunning`, `OverlayComparesItsOwn` | `AnalysedIsCurrent`, `NothingRunsOn`, `ComparesItsOwn` |
| `PromotionProofs`, promotion | `TypeCorrect`, `DayIsPredictedOnce`, `PublishedIsWhole` | `SyntheticDaysOnce`, `PublishedIsOneBacktest` |
| the same, search | `SearchWritesOnce`, `SearchComparesItsOwnMatrix` | `WrittenOnce`, `ComparedAreCurrent` |
| the same, gate | `AcceptedHasBeatenAnIndex`, `VerdictsStand` | `AcceptedBeatsAnIndex`; `VerdictStands`, which no run lists |

### 5.1 The lock routes

The first half of `GuardedObjectsProofs` holds for any set of clients, any leases and any bound on
generations. In particular (`ImplementsLeaseClaims`) a release is carried out only
for a client that has stopped going by the lock, and everybody else has to wait
for the expiry. The assumptions are those of the module: `NoOne` is no client and
leases are positive (`_lease_seconds` takes the maximum with 1).

`HolderOwnsObject` is not inductive: it says nothing of requests in flight. `IInv`
adds, per client,

* `GenerationsSeen`: a generation a handler remembers was issued before, so a later
  object cannot have it;
* `ExpiriesAsked`: what a handler will write, or has answered, is at most the lease, so an
  object's expiry never exceeds its owner's lease;
* `RequestsInFlight`: which handlers can be running given what the client waits for,
  in particular none but its own heartbeat while it holds;
* `FencesHold`: what a handler learned still holds of the generation it learned it
  of: a matching delete of an acquire hits an expired lease, a matching upload or
  release hits an object of its own client, and an upload never shortens;
* `WritesSurvive`: between the write and the answer the client that waits owns the
  object unless the expiry it wrote has passed.

`FencesHold` is where `if_generation_match` is used and `WritesSurvive` is why it is
sound to answer with the expiry written instead of the one read. The proof has one
lemma per action; `Tick` is the only one that touches all countdowns and keeps
their order. Refinement uses the same invariant: an eviction needs `left < 0`
(`FencesHold`), a renewal `left <= exp`.

### 5.2 The warehouse workflows

`WarehouseRefreshProofs` holds for any number of
executions, any number of scripts, any limits and leases. It assumes, besides the
kinds of the constants (`WarehouseAssumption`), what `LeaseCoversTask` says: no
lease is shorter than the longest time between two calls that reach the lock
(1800 s against 4500 s, 5 ticks against 24), and the window refresh has QA scripts
at all (`qa_after_window` starts with one). The argument has two halves. About the plans
(`PlanFacts`, by the pieces they are joined from): a task without a heartbeat is never
followed by a writing one, only modes that lock write, and the task after a failed
corporate action chain does not write. About the lock: `Covered` says that whoever is
about to post, or waits for, a writing task holds the lock with at least its lease less
the time of this task left. This is inductive with `Position` (step is inside the plan) and
`OnTime` (a task is within its limit), because nobody can evict a `Covered` execution.
`OneInside` fails for the same reason that `AttachedWritersExclusive` holds: the tasks
that are not covered are those that do not write.

The outcomes need a second layer on top of `IInv`. `LateIsLost`: a late acquire belongs to
an execution that has failed; so inside its section an execution can lose the lock but
not get it back, hence `TouchedHasLost`, and the release at the end, which only the holder
passes, separates good ends from bad. `HolderIsKnown` with `Remembers` follows the lock
from acquire to the error branch and its two ways of knowing that there is something to
release: `lock_acquired` in the full rebuild, the prefix of `current_task_id` in the
window refresh.

### 5.3 The locked step

For any number of orchestrators, any lease, whichever of them resume. Every step but
`Tick` belongs to one orchestrator and does one of five things to the lock object
(`ObjectStep`): nothing, create it, write it at its own generation, delete it at its own
generation, or delete it at the generation its probe saw. `RunnerInv` says of each
orchestrator at each of its places what its two threads may believe: the generation in
`my` is one it wrote or one that is gone, an execution whose id the object
names is the one it runs, a probe that found an execution over found one that stays
over. No step disturbs `RunnerInv` of the others (`Untouched`, proved once for the five
kinds), so each action is shown for its own orchestrator only. `LeavesNoLock` and
`LastRowStays` rest on the join: the last row is written, and the lock released, when the
heartbeat thread is off or will not write again.

### 5.4 The pool of chains

For any experiments and any choice of whose predictions they backtest, any number of
work units (there is one at least), any command lines and any number of starts.
`ReportIsTrue` speaks of an orchestrator that ended; what carries it there is about
what was made by whom. Every step of every chain asks for all that its products rest
on (`WellFed`: a batch for the matrix, the selection for every work unit whatever the
division into batches, the backtest for the predictions), so `Founded` holds of what
was made however many steps were skipped: the jobs' own checks of their inputs and
nothing else stand between a stale status row and a false success. `ChainIsTrue` adds that
a chain is past its end, and the row of its last step a success, only with the backtest made,
and `PoolIsKept` that every experiment is in the queue, in the pool or has a result,
which needs that the pool never takes out more of the queue than it has room for
(`FillFacts`). The proof has one lemma for the steps of a thread (`ThreadStep`), which
leave the other chains alone, and one per step of the main thread.

### 5.5 The annual scheduler

For any schedulers, selections, limits. `SchedulerInv` puts at most one scheduler between
acquire and release (`OneAtWork`), so the state object has one writer at a time
(`SharedStep`), and what a scheduler has in hand (`current`) is the execution it
submitted for its unit. Executions keep their unit and their success and artifacts stay
(`ExecsGrow`), which is why a record stays true while nobody looks at it.
`NoSecondSubmit` follows since a submit needs a unit without a record, and records are
only changed for the unit in hand.

The planner is proved for any finite set of years, any grid and any numbers as tokens
and limits (`PlanningAssumption`). `WithinLimits` is inductive with the types: a
candidate of a year that has a fan-out adds none, any other adds one.
`EndsWell` is not, and `PlanningInv` adds what each ending rests on:
* `WavesCount`: every wave that goes on has marked a task, so when the loop's range is
  used up (`wave` equals the number of tasks) there is nothing left to mark;
* `OnlyCandidatesWait`: only candidates are put off, and only without tail filling
  (a contiguous run of a group holds tasks of the wave only,
  `OnlySelectedCandidatesArePutOff`);
* `InOrder`: what succeeded was ready, so when the continuous ledger is done every
  candidate is (`LedgerIsLast`), and a plan without planned tasks has none deferred;
* `TurnedDown`: what was turned down before anything was selected does not fit by
  itself. As long as something is planned and nothing deferred, something is ready
  (`SomethingIsReady`, up the stages of the graph), so a deadlock shows such a task.

### 5.6 The rows of the daily workflow

For any options and limits. `Placed` says what of the execution's rows exists at each
place, `AnswersAreTrue` what a request in the service has seen and will still write,
`WorkIsDone` that what the workflow has passed was really done or rightly skipped,
`TasksAreTrue` and `NoneForgotten` that each task's row is the one of its last writer and
that a started task is not left running, `RunIsTrue` the same of the run row. The workflow's
own steps leave the requests alone and the service's steps leave the workflow's place
alone. `RecordsAreTrue` excepts requests that were given up (`abandoned`) and status
calls that failed after a first failure (`unwritten`): there the code cannot do better.

### 5.7 The repair

For any workers, run ids and republications. What a worker may do to the objects is said
once, without its control (`Effect`): publish what is staged, stage the cast of what
it read, copy the source to a backup of its run id that is free. `IfTimely` says
that, unless the file was republished in between (`late`), what a worker read
and staged is the newest version or its cast; `IfNotOvertaken` that a source that is repaired has its
original in a backup. Both are kept by every `Effect` and by the ingestion.

### 5.8 Promotion

For any manifests, windows, roles and numbers of starts. The invariant has two halves no
action disturbs together. `SourceInv`: a refit's year has its rows before its registry
row, the rows of a year in the continuous run are single until that source is rewritten
during the merge (`raced`), the merge's next window is clear before it inserts, and so
days are single. `LedgerInv`: how far a forced backtest has cleared the tables at each of
its statements, whose rows are in which, that a ledger within the dates of its
summary is that summary's, and the same of what is published.

Looking for it changed the property. The clear deletes the summary last
(`clear_ledger_outputs`, `ledger.py:948`), so a forced backtest that is killed in between
leaves a summary whose ledger is gone; an unforced backtest then finds no ledger rows, writes
its own under that summary, and a promotion publishes both. It takes seven starts
of programs, more than the run has. `PublishedIsOneBacktest` now excepts such
ledgers by name (`stacked`).

### 5.9 The rolling plan

For any arms, any years from the seventh on, as-of dates and years of any length, as long
as two label horizons fit into one (`PlanAssumption`; the tables know horizons of 5, 10
and 20 days). The calendar lemmas turn years into intervals of days once, so that
nothing later multiplies. `NoLookAhead` is carried along the chain of what is built from what:
`PanelsAreTrue` (a panel is that of a selection or a refit of an arm with its run id,
under an as-of date that may be an old one), `MatricesAreTrue`, `ResultsAreTrue`, `ModelsAreTrue`;
each says by which day the labels in it are known (`KnownBy`).

The folds need more. `embargo_end_date` counts the days that the panel has, so it
leaves out a horizon of the calendar only if there is no hole among them. There is
one (`CvDays`): the last days of the training years, whose labels reach into the valid
year, are not in the panel. But it ends where the last fold's evaluation starts, so
the days before any fold's evaluation are an interval (`PriorDays`), and with two years
before it there is a horizon to leave out. That is `FoldsAreApart`; the `CHOOSE` of
the embargo's last day is resolved by the cardinality of intervals (`EmbargoOfInterval`).

For the other two, `OwnSteps` says that nobody but an arm without rivals writes to its
refit's run. `OwnDays` follows its predictions through the commands: all within the
days of the plan (a later as-of date only adds days, `LaterPlan`), exactly those and
all of the registered model once its refit has run. `OneYear` then makes the years a partition of
the days. `OwnWindow` is weaker and needs only that rivals have the same refit window.

### 5.10 The alerts

For any runs, checkers, arguments, lookback and grace. `HeartbeatVouches` is about a log that
only grows and rows that do not stay: a retry overwrites them. `Vouched` says what a check of
some time with some lookback should have found; a check under way has it in the log or in
what it still has to log (`CheckCovers`), a heartbeat has it in the log (`BeatVouches`).
What is left is that no later step makes an older check owe more: rows end now, not in the
past (`RowInTime`), so nothing is newly owed to a check whose time is over. Time only
passes between checks (`TimePasses`): a request ends within 300 s, a unit of time is longer.

For any keys, policies, operators and edits of the console, `SetupConverges` rests on
how far an undisturbed run has come (`Progress`): a key it has passed is settled
(`KeySettled`), a key still to come is as it was found (`Untouched`), and the policy it is about
to write is the one there is (`ListedIsThere`). Metrics need no such proviso
(`MetricsMade`), since nothing deletes them.

### 5.11 The DAGs

Both theorems hold for any pipeline graphs with the shape `GraphsInOrder`, whatever the
branches choose, the Variables say and the tasks fail. The shape is: the graph has no circle
(`Depth`), all leads to the final task, a branch only skips tasks that follow nothing
else, and the tasks fall into sections. A section begins (`Heads`) at a task a branch may
skip or at one that runs although a task before it was skipped; any other task is of the
section of all tasks before it, the first section (named `""`) has no head. Each path of
refresh tasks lies in one section, and every reader there follows its builders.

The real edges have this shape: TLC evaluates `GraphsInOrder` on them at the start of
`exempt_runs` (`GraphHypothesis`). The provers cannot, because the names of tasks are
concatenated strings. It is asked in that run and not in `data_pipeline`, so that of the
latter's mutants, two of which break an edge, each is caught by its property.

A task changes its state once, from "none" (`GoesOn`). `RuleKept` and `BranchKept` say that what
a task saw of those before it still holds, since those had ended. `SectionKept` has what can
become of a task when its head succeeded, failed or was skipped: in particular nothing
is skipped in a section whose head ran, so that a path is done as a whole or
skipped as a whole, and `InsideKept` carries success up the section, from the reader to
its builders. A row says success when the final task succeeded, whose rule lets no failure
pass; everything leads to it, so (`AllDone`, by the greatest depth) all is done.

### 5.12 The ingestion job

For any manifest, calendar and source, any number of executions. The plan is never built: an
execution is at an item, and the next one follows by `Least`, so that no sequence has
to be sorted. `Passed` names the keys before the item, and `Ordered` says that an execution
deals with each key once, with the exception that a report period may come up in several
items of one endpoint. So what it has recorded, or still has to, is not overwritten
by what it finds later, except for an `empty_return` (section 6), which
`SuccessIsConfirmed` excepts by its key. `Backed` and `StatusBacked` tie a success to what was
published, whoever runs beside it. `NoRowLost` is about executions that do not overlap:
then only the one started last is under way (`Alone`), what it has staged contains what is
published (`Staged`), and what it published is recorded or will be (`Accounted`). With an
overlap neither can be promised: all executions share the staging object.

### 5.13 The search

For any candidates, grading and number of starts. Two things make it restartable:
that what is written first guards what is appended (`FirstWriteGuards`: as long as the
alias is not there no predictions are, as long as the plan is not there no ledger is), and
that nothing has succeeded before its matrix was prepared (`MatrixIsPrepared`,
`NothingBefore`). `OfThisMatrix` follows the number of the matrix through the jobs of a
candidate. `ThreadHasItsJob` says that a thread and its job are at the same step.
The invariant excepts, as `ComparedAreCurrent` does, a search that was started over without
`--resume` (`redone`).

### 5.14 The ledger

For any number of securities, market, corporate actions, signals and settings. A day of
one account is a function of the account, the quotes, the event and the settings.
`ResumeExact` is the congruence of that function (`SameWalk`): two accounts that agree in
cash, holdings, pending sells and what a snapshot keeps of the target agree after the
day. What a snapshot does not keep (`risky` and `off` of the target, and the depth of
the walk) is looked at only on the day a signal is executed, and a run is resumed from a day
without a signal. `InStep` carries it through the days. `LeftoverIsRetried` needs that
a plan may leave something held and unwanted only if it puts it on the list (`RowOK`,
`Dropped`), and that a held thing has a close (`AccountOK`), for what is worth nothing
falls off the list.

`CashNeverNegative` is sums over orders. The running sum of `Total` is shown to exist for every
sequence by its least counterexample (well-founded induction over a set, which needs no
operator as a parameter), and that the orders kept are a prefix of the ranking whose cost is at
most the cash (`BuysArePaidFor`). Sells are another matter: with a minimum commission a sale
of a few cheap shares costs more than it brings, and an account without cash is then in
debt. The code only raises below -1. So `NeverInDebt` assumes `SalesPay`, that no sale
costs more than it brings; TLC evaluates it for the instance of the run
(`SalesHypothesis`), and it holds where there is no minimum commission, which is the program's default
(`min_commission_cny`, `ledger.py:71`), and the rates stay below the price.

### 5.15 Report jobs and the overlay comparison

For any jobs, requests and budgets, any number of arms. `InOrder`: the tables of a
backtest fill one after the other. `NavWritten`: the rows of a NAV were written by a job
that is past writing it; so a NAV that was cleared or added to never comes back
(`Gone`), and two equal hashes around an analysis mean that it read what was there all
the time (`Guarded`, hence `AnalysedIsCurrent`). For the comparison, `Owns` and `OnlyOwn` say that
on its arms only its own jobs run unless an earlier start left some running (`clean`), and
`Waited` that those it has collected are over; it collects all of them before it fails.
`OwnOutput` follows what is in an arm's tables from its job's first statement on, as long as
the predictions stay.

### 5.16 The gate

For any NAVs, indexes, rows and window, from `CasesAreSound`: a NAV is a non-empty sequence
of positive values (that of a ledger without debt), and an index has at most one close
on a day, which is positive (with another the code has no return of the index).

`AcceptedBeatsAnIndex` says what an acceptance means, without the quotients it was computed
by. Three things connect the two. Powers exist, grow with the base and multiply
(`PowerIs`, `PowerGrows`, `PowerOfProduct`), each shown by its least counterexample, so an
excess return above zero is an index outgrown (`RelativeMeans`). A deepest fall exists, and its
day and the peak before it bound the fall between any two days (`PeakIs`, `TroughIs`).
A Calmar ratio above one is a return above that fall, or one above zero if nothing ever
fell (`CalmarIs`, `AboveEveryFall`, hence `AbsoluteMeans`). Of the power nothing else is used; with the
whole part as exponent, though, a NAV of more than `AnnualFactor` periods has no gain
and is never accepted, so for those the theorem says nothing of the code.

`VerdictStands` needs that a judging changes nothing it looks at (`PatchKeepsVerdict`): it patches
the status of the holdout, which is derived from what stays, and the stored test metrics,
which only the replay reads. `GateInv` adds that the verdict on record is the one the row
would get now, and that the stored metrics are those it was based on. TLC finds
`VerdictStands` and `GateInv` (but for its first part) invariants of the run's instance too.

### 5.17 Only model-checked

Liveness (`EveryRunEnds`, `LockComesBack`, `EveryProgramEnds`), which needs `ENABLED`.

## 6. Where the code and its documents differ

Run `exempt_runs`: an ODS-only run and a run on a closed day must not be alerted as
missing the refresh (`.agent/memory/KNOWN_CONSTRAINTS.md:83`), but the exemption of
`v_pipeline_refresh_missing` compares the `started_at` of the skipped task's row with
the last 24 hours, and the workflow writes that row once, as "skipped", without a
`started_at`. The Composer DAGs write it, so there the exemption works.

The modules define, without a run, further statements that the code does not keep;
each is followed by the property that says what does hold.

* `NoConcurrentWriters` (window refresh, line 1368): after a task call has timed out
  its job goes on writing while the lock is released or the run goes on.
  `AttachedWritersExclusive` is what the lock does give: of tasks somebody waits for,
  one writes at a time.
* `OneInside` (line 769): the weak chain has no heartbeat, two of its tasks and the
  first QA task may take 5400 s against a lease of 4500 s. The execution then goes on to
  QA without the lock, is told at the next heartbeat, and fails: `SuccessIsExclusive`.
* `RecordedIdStays` (`state.py` line 161): the heartbeat thread may erase the execution
  id that the main thread has just recorded in the lock object. From then on the lock
  may be reclaimed when the lease runs out although the execution is running;
  `ProtectedKeepsLock` is what holds otherwise.
* `NoTwoExecutions` (`pipeline_control.py` lines 490, 619): an orchestrator that does not
  learn the id of an execution it has started, or cannot describe it, lets go of the
  lock without cancelling.
* `ResumeSkipsSucceeded` (lines 405, 440): the status is read before the lock, and a
  refused orchestrator overwrites the row of the one that has it.
* `NoDuplicateExecution` (`annual_pipeline_scheduler.py` line 1304): submit first, record
  afterwards.
* `NextWaveOnlyIfNoneAccepted` (the search), `FoldsExcludeValidYear`
  (`train_candidate_task.py` line 128: the folds of the cross-validation contain the
  selection year), `DiagnosedRiskIsRejected` (contract v3's
  `hard_reject_confidence_by_diagnosis` is never enforced in the live gate; the
  diagnosis is on the summary only), `ResumeAlwaysExact` (a resumed ledger does not have
  what the stored tables do not keep).

Met on the way, not stated as properties:

*Locks and schedulers.* A window refresh that fails at `windowed_metadata` leaves the
lock for its lease (the pattern in line 1221; the reason for the exception in
`LeakHasCause`). A weak writing task that times out lets the run succeed while its job
still runs. A failed `reload` after a successful upload leaves the orchestrator with a
stale `_generation`, so that its own heartbeat reads the 412 as a lost lock and cancels
a healthy execution. A unit of the annual scheduler that used up its poll attempts is
"failed" while its execution runs, no longer counts for admission, and is waited for
again, never resubmitted. A unit that is not admitted stays planned and the summary of
the run still says completed. `get_status` goes by experiment, run and step, not by the
manifest's hash: an edited manifest under the same run id is skipped. An experiment that
reuses another's predictions is submitted beside it, and fails.

*Alerts.* One missed check leaves a heartbeat gap of 110 to 120 minutes, at the edge
of the absence condition of 7200 s, while failures of its first 50 minutes are lost. A
check by hand with `--write-heartbeat` and without `--write-log` masks a dead checker.
Conditions (missing refresh, missing metadata) get a new `insert_id` at each check. A failed row
overwritten by a retry before the next check is never logged. Old unlabelled
policies that were renamed by hand are created again; channels read at the list are written
back over an edit.

*Composer.* The full rebuild of v0 has no dry-run check; a Variable set between its
gates can run both refresh paths; one set between readiness and gate lets runs by hand
refresh a partition that is not there. No lock between DAGs. A success does not clear
`error_summary`.

*Repair.* `validate_repair` goes over all rows, so an old failure row fails the
validation after a successful retry; `skipped_schema_match` in `validate_file` is dead; an
"ok" of the manifest skips files that were republished since. Workers of one run id share a
temporary table and a staging object, which only costs failures. Two run ids at
once: the second backup may be the repaired file.

*Ingestion.* An `empty_return` row of a report-period endpoint has the business date as its
key and can overwrite the success row of the partition with that end date.
`SuccessIsConfirmed` speaks of partition rows for dates that are no end date.

*Promotion, backtest.* An unforced backtest over another window appends. A forced
promotion with a narrower window leaves old days published. `research_acceptance_result`
outlives a rewrite. The merge does not check that a source is complete. Without
`--wait`, gcloud's 0 only means submitted, so an earlier result can be judged; a
forced merge between two stages of the overlay comparison lets the second use other
predictions unnoticed. Report and diagnosis UPDATEs can patch another job's summary.

*Gate, plan.* A strategy without a drawdown cannot pass the relative gate;
`final_holdout_status` is sticky; the sample-filter risk is checked after the signal
rules although the docstring has it first; the live record lacks `cv_fold_count`. A
refit's panel has valid equal to its training window; an as-of date on a day without
trading makes the refit raise.

## 7. What is left, and what is not modelled

Worth proving next: that `ExperimentPool` may take the lock of a running execution from
`RunningExecutionKeepsLock`, as a refinement.

Not modelled: numerical code (features, training, metrics of reports, overlay policies),
the SQL of the warehouse beyond which tables a script builds and reads, Dataform,
rendering, deployment scripts: no control state that a model of this kind could say
something about. Partly modelled and cut as said above: the SQL-task routes (one request
per slot, not the job API), the alert views other than those the properties name, the
overlay jobs' QA, ODS repair over a list of files, the Dataform backend of the DAGs.
