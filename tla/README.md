# A TLA+ model of databricks-elasticsearch-pipelines

The repository exports Databricks tables to Elasticsearch. A pipeline config names a source table, a view over it
and an index; a generator turns the configs into jobs; each job runs one notebook, which exports the view in one
batch or streams the source through it, micro-batch by micro-batch. What is hard about it is not the arithmetic of
a batch but who may have stopped where: the streaming query runs next to the notebook that waits for it, either of
them may fail or be killed at any step, the job retries, and three durable stores (Elasticsearch, Spark's
checkpoint, the monitoring table) are written one after the other.

Around the export stand the generator, whose output decides what runs at all and with which settings, and a handful of
maintenance jobs, which are retried, killed, and run next to other people's work in the same workspace.

This directory specifies these parts of the system in TLA+, checks them with TLC on small instances and proves the main
safety properties with TLAPS for every instance.

Paths below are relative to `src/framework/` unless they start with `docs/` (which is `src/docs/`).

## 1. Inventory

### The streaming export (modelled)

| Component | State it keeps | Operations | Talks to |
|---|---|---|---|
| **Index pipeline notebook**, streaming cells: `notebooks/run_index_pipeline.py` 498-522, 606-1023 | which cell it is in, the reader's `startingVersion`, the drain's totals | record run start, clear the run's directories, prepare the checkpoint, start the seed and the main query, wait, summarise, record run end | all of the components below |
| **Stream wait loop**: `pipeline_lib/stream_wait.py` | `isactive_errors`, `ended_by_liveness`, this slice's reading | `await_stream`: wait slices, two state checks, record, stop, confirm | the query's server (remote requests), the recorder (callback) |
| **Checkpoint classification**: `pipeline_lib/checkpoint.py` | none | `checkpoint_offsets_state`: HAS_OFFSET, EMPTY or UNKNOWN from listings | the Volume holding the checkpoint, shared with the query and the clear job |
| **Micro-batch step**: `pipeline_lib/stream_batch.py` | none | `foreach_batch`: read source version, transform, `batch_start`, write, metrics, `batch_end`, relays | runs on the cluster, called by Spark; Elasticsearch, the log, the metrics and relay directories |
| **Progress recorder**: `pipeline_lib/stream_progress.py` | high-water mark, prune counter | `__call__`, `catch_up`, relay pruning | `query.recentProgress`, relay directories, the log; called by the wait loop |
| **Run record**: `pipeline_lib/run_record.py` | `ended` | `start`, `end`, `guard` | the log |
| **Monitoring log**: `pipeline_lib/monitoring_writer.py`, `monitoring_sink.py` | the table | `append` (fail-closed), `append_failure` (never masks) | the Delta table; called by notebook and micro-batch |

Three pieces of state are shared between the two processes: the checkpoint directory (Spark writes it, the notebook
classifies it, an operator may clear it), `_run_metrics` and the relay directories under it (the micro-batch writes,
the notebook clears, reads and deletes), and the monitoring table (both append).

What must hold:

- *delivery*: once a stream has begun, its position passes a source version only when that version's rows are in
  Elasticsearch, whatever failed or was retried (docs/technical-details.md 47-51); it begins where `streaming_start`
  says (63-69).
- *record*: no row leaves unannounced; a success row is true; the totals of a run are those of that run; a batch is
  summarised with its own data (docs/monitoring.md 76-104).
- *waiting*: a failed query always ends the run and is never reported as a clean end (docs/technical-details.md
  125-130).

### Configuration and generation (modelled)

| Component | State it keeps | Operations | Talks to |
|---|---|---|---|
| **Configuration**: `pipeline_lib/config.py` | none | the rule of each run-time knob, the rules that relate fields, resolution against an environment, per-user schemas, the connector's version | called by the generator, the index notebook and the view deployment |
| **Job generator**: `scripts/gen_jobs.py` | the files of `_pipelines/resources/` | read and check everything, render, then write file by file and remove orphans; `--check` only compares | configs, `databricks.yml`, hand-written job files beside its own |
| **Index pipeline notebook**, parameter cells: `notebooks/run_index_pipeline.py` 124-481 | its widgets | take `--params`, else the baked value, else the target's global; refuse what is not legal | the deployed job, the config found by name, the installed wheel |

What must hold: nothing is written when anything is invalid, and no hand-written file is ever touched; a finished pass
is what `--check` calls up to date; a release that passed `--check` runs every pipeline exactly once, with the settings
the repository says; an always-on job never runs what cannot be always on.

### Jobs that run once (modelled)

| Component | State it keeps | Operations | Talks to |
|---|---|---|---|
| **View deployment**: `notebooks/deploy_views.py` | created, failed and checked schemas of a run | pre-flight, then per view: render, own the schema, place, verify | schemas and views of the workspace, shared with other identities |
| **Checkpoint clear**: `notebooks/checkpoint_clear.py`, up to 20 runs at once | the probe's and the recheck's answer | list, probe, recursive delete, recheck, report | the checkpoint, shared with the stream and with other clears |
| **Wheel build**: `notebooks/build_wheel.py` | the volume's wheels and staging files | build, stage, check the size, rename, verify | the volume the index jobs install from |
| **Log table create and migrate**: `pipeline_lib/log_table_migration.py` | the table's columns and comments | create, read, add columns, change comments | the table, shared with other deployments and with appends |
| **Log table prune**: `notebooks/log_table_prune.py` | the table's rows | DELETE, OPTIMIZE, VACUUM | the same table |
| **Batch export**: `pipeline_lib/batch_export.py`, notebook 569-590 | one batch | `batch_start`, write, reconcile, `batch_end`, the run record and its guard | Elasticsearch, the log |
| **Cluster log prune**: `pipeline_lib/cluster_log_prune.py` | plan over a listed tree | list, plan, execute with non-recursive deletes | a volume clusters deliver to |

What must hold of each: green means done, whatever failed half-way before and whoever works next to it; nobody else's
schema, view, log or row is touched; what is published or logged is whole and true.

### The rest

| Component | Status |
|---|---|
| Elasticsearch diagnostics: `pipeline_lib/es_diagnostics.py`, `notebooks/es_diagnostics.py` | not modelled: a read-only probe and a verdict over its answers |
| Observability: `pipeline_lib/observability.py` | not modelled: formatting of log lines and numbers |
| `databricks.yml`, `resources/` | what the generator requires of the bundle is in `GenJobs`; what the job files fix (one run at a time, retries, up to 20 clears) is an assumption of the models |

## 2. Modules

| Module | What it is | Source |
|---|---|---|
| `Delivery` | the abstract feed: what at-least-once delivery promises | docs/technical-details.md 47-69 as the code implements it |
| `AwaitStream` | the wait loop against its query's server | `stream_wait.py` |
| `CheckpointState` | one classification over a changing tree | `checkpoint.py` |
| `StreamStart` | where a stream starts, over runs, crashes, clears and commits | notebook 783-966 |
| `StreamExport` | notebook, query, foreachBatch, recorder and log over task attempts | notebook 498-1023, `stream_batch.py`, `stream_progress.py`, `run_record.py`, `monitoring_writer.py` |
| `ClusterLogPrune`, `MCClusterLogPrune` | one run of the prune against delivering clusters; a small volume for TLC | `cluster_log_prune.py` |
| `PipelineConfig` | the rules of the configuration, as operators | `config.py` |
| `GenJobs`, `MCGenJobs` | a repository edited, generated, killed, checked, deployed and run | `gen_jobs.py`, notebook 124-481 |
| `DeployViews` | runs of several developers against one workspace | `deploy_views.py`, `config.py` 1600-2036 |
| `CheckpointClear` | several clears and a stream on one checkpoint | `checkpoint_clear.py` |
| `BuildWheel` | builds that are killed, on one volume | `build_wheel.py` |
| `LogTable` | the monitoring table over builds, migrations, prunes and appends | `log_table_migration.py`, `log_table_prune.py`, `monitoring_sink.py` 516-580 |
| `BatchExport` | the attempts of one batch run | `batch_export.py`, `run_record.py`, notebook 504-590 |
| `OneShotJobs`, `MCOneShotJobs` | the five modules above together; an instance | |
| `AwaitStreamProofs`, `CheckpointStateProofs`, `StreamStartProofs`, `StreamExportProofs`, `ClusterLogPruneProofs`, `GenJobsProofs`, `DeployViewsProofs`, `OneShotJobsProofs` | the theorems | |

How they compose. `StreamExport` and `StreamStart` look at the same stream at two grains and both implement
`Delivery`. `StreamStart` keeps source versions, offsets and launches and treats a micro-batch as planned, executed,
committed; `StreamExport` takes a fixed backlog of batches and opens up each step of a batch and of the notebook.
Each of them replaces a component by what its own module shows: `StreamStart!Answers` is what `CheckpointState`
shows of a classification (`AnswersAsOneLook`), `StreamExport!WaitSlice` and its fairness are
what `AwaitStream` shows of the wait (`NormalReturnIsClean`, `FailureEndsTheWait`, `CleanEndEndsTheWait`).
`StreamStart!ClearCheckpoint` is what `CheckpointClear` shows of a green clear. `GenJobs` extends `PipelineConfig`, and
its task fixes what the streaming modules take as given: which mode a run has and that one job runs it.
`OneShotJobs` puts the five jobs that share no state beside each other; one of them moves (`focus`), the others stand
still, so that it has no more states than their sum. To each of them its behaviours are those it has alone.

Operators named `Mut...` are deliberate bugs (a dropped guard, a missing reset, a swapped order); replacing the
definition they vary by them makes the property beside them fail, which is how we know that the property can fail.

### AwaitStream

Every request to the query's server is one action, because the query may end between any two. The query has three
faces: what it is (`query`), what `isActive` answers (`active`) and what `exception()` answers (`visible`); they
change one after the other, in any order, which is the situation the comments at `stream_wait.py` 67-72 and 131-135
describe. A wait call may answer "not over" of a query that is over (the hang that was reproduced), may raise the
query's failure, or may raise on its own while the query runs. `hasRecord` is chosen once: the main query is waited
for with a recorder, the seed without.

| Action | Lines |
|---|---|
| `WaitSlice` | 53-66 |
| `ReadActive`, `ActiveReadFails`, `ReadException`, `Tally` | 73-106 |
| `Record`, `RecordLast`, `StopQuery`, `RecordFailed` | 56-65, 107-125 |
| `Verdict`, `Confirm`, `ConfirmVerdict` | 126-143 |

### CheckpointState

The path from the root to `offsets` is a chain of levels, a directory exists only with those above it, so `lowest`
says which exist. A listing of an existing level may fail; others may delete from a level down or create the
checkpoint and an offset, between any two listings. `Root` and `MaxClimb` are arbitrary: the run takes a chain
longer than the climb, so that running out of climbs and reaching the root both happen.

### StreamStart

A version is a commit of the source, with or without rows for the stream. `from`, `upto` and `committed` are the
checkpoint's newest batch; `Position` is what the stream has passed. `limit` is the end an availableNow query fixes
at its launch. `Fault` ends a run at any step; `ClearCheckpoint` is the clear job between runs. The mode may change
from run to run, as an operator may edit it.

Of Spark and Delta the model takes from the comments in the code (807-818, 858-863, 879-887): an offset is written
before the batch runs, an uncommitted batch is replayed over the range that was planned, `startingVersion` is
ignored once an offset exists, a query with nothing to send may end without any batch.

### StreamExport

The notebook is a program counter `nb` over its cells, the query a program counter `q` over Spark's cycle and the
steps of `foreach_batch`; they interleave freely. A task attempt has its own identity, as in the log. A batch
number stands for a batch id. Whatever can fail takes from a budget of `MaxFaults`, kills included. An append that
raises may have committed (`AckLoss`). Progress reports are published some time after the commit and may be lost.
`Exit` ends the process and with it a query still live.

The parts the model leaves out of these files: the log switched off (then every append is a no-op), the print relay
(the source relay's mechanism, for a printed line), the payload of the rows beyond what `Row` keeps, the choice of
`source_latest` among history rows, and a foreachBatch call that outlives the query's stop.

### ClusterLogPrune

It stands alone: a maintenance job that shares nothing with the streams but, through a wrong setting, perhaps their
volume. A path is the sequence of its names below the log root. `there` is the tree as it is, `entries`, `old` and
`unread` what the walk saw of it; the plan (`DeleteFiles`, `DeleteDirs`) is a function of these three. Every call of
`dbutils.fs` is a step: others may deliver a log (a new file or a rewritten one), terminate a cluster or remove
something between any two calls. A call may fail for no reason in the tree, and a removal that fails may have
removed. `site` is what the configured path names: a directory, nothing yet, a file, a missing volume, or unset.

| Action | Lines |
|---|---|
| `Skip`, `Report` | 340-342, 357-369 |
| `ListRoot`, `ProbeRoot` | 155-175, 214-239 |
| `List` | 128-193 |
| `PlanMade`, `FilesTried` (`DeleteFiles`, `DeleteDirs`) | 145-148, 184-211 |
| `RemoveFile`, `CheckFile` | 285-296 |
| `RemoveDir`, `CheckDir` | 297-321 |

Two orders are left open that the code fixes: of siblings in a listing, and of planned directories of which neither
is above the other. The climb of `_absent_from_parent` to the nearest ancestor that lists is one step. A volume
reports no usable timestamp for most directories; the model allows one to any, the run to one. Sizes, counts and
the printed plan are left out. One edge the model shows and no text contradicts: a root that appears between its
failed listing and the listing of its parent makes the run red, as the two answers disagree.

### PipelineConfig

A value of a file or a widget is blank, a whole number, a word, or nothing any rule accepts; each rule
(`require_...`) is a record of what it accepts, what a blank becomes and which numbers mean unset, and `Validator` is
the table `_RUNTIME_KNOBS` (2200-2228). Canonical values are sets of at most one, so that unset, 0 and false differ:
the code's `None`, `0` and `False` are told apart by `is None`, and a slip there is what `RunsFollowTheRepository`
would show. `ValidConfig` holds the rules between fields (1262-1374), `Baked` is `job_parameters` (2246-2270),
`OldWheel` and `DriftedWheel` are the two checks of the installed connector (616-689).

### GenJobs

The repository is `configs`, `bundle` and `files`; a path of `files` holds nothing, a hand-written job, a generated
one, an emptied file or one cut short. Developers edit between passes, also files the generator owns. A pass reads,
checks and renders everything before it writes; each file is emptied when it is opened and then written, and a kill
may come between any two of these. A release is what a deploy took from the files, with the globals and the wheel of
its target, and is followed with its runs until the next edit or pass.

| Action | Lines |
|---|---|
| `PassRefuses`, `PassStarts` (`Refuses`, `Rendered`, `Orphans`) | 1286-1419 |
| `OpenFile`, `WriteFile`, `RemoveOrphan`, `PassEnds` | 1420-1428 |
| `Check` (`CheckIsGreen`) | 1390-1415 |
| `Run` (`Result`), of the notebook | 124-561 |
| `EditConfig`, `EditBundle`, `EditFile`, `Kill`, `Deploy` | the surroundings |

What the model makes visible and no text contradicts: a pass killed right after it opened a file leaves an empty one
without the marker; every later pass refuses it as hand-written and `--check` stays red until somebody deletes it. When
the last config is gone, one pass removes the orphans, and from then on the pass and `--check` both say "no index
configs found". A global `op_type: create` with a config that has no `es_id_field` passes generation and is refused at
each run, as the docs say.

### DeployViews

A schema has an owner or does not exist. `Suffixed` is the concatenation of a schema's and a user's name, as any table
of results: two of them may meet, and one may be a schema somebody configured. Every statement is a step, and between
any two another run, or anybody, may create a schema. A describe may fail, which the code never takes for "not there".

| Action | Lines |
|---|---|
| `StartDeploy` (`PreflightProblem`, `Unpaired`, `select_views`) | notebook 72-139, `config.py` 1858-1964 |
| `PrepareView` (`Renders`, `shared_view_conflict`) | notebook 228-249, `config.py` 1748-1839 |
| `SchemaBefore`, `CreateSchema`, `SchemaAfter` | `config.py` 1967-2014 |
| `PlaceView`, `VerifyView`, `EndDeploy` | notebook 265-306 |

### CheckpointClear

Removing a directory takes time and may stop half-way, so `dir` is whole, part of one, or absent. A stream may write
at any moment (its job was not stopped, or is restarted); `written` remembers for which runs it wrote since their last
look. `NOT_PRESENT` stays green when the stream creates the checkpoint between the probe and the recheck, as the code
has it: the target was absent when asked.

| Action | Lines |
|---|---|
| `ListBefore`, `Probe` | 111-167, 174-179 |
| `RemoveSome`, `RemoveEnds` | 180-194 |
| `Recheck`, `Report` (`Outcome`) | 196-254 |

### BuildWheel

The volume's rename is one step or a copy and a delete (`copying`, chosen once). A copy into staging may come short, a
kill may come anywhere, a leftover of an earlier run may survive the sweep.

| Action | Lines |
|---|---|
| `StartBuild`, `Build` | 64-256 |
| `Stage`, `CopyWheel`, `CheckStaged` | 272-299 |
| `Rename`, `RenameBegins`, `RenameEnds`, `RenameFails`, `CleanStaged` | 300-309 |
| `VerifyWheel` | 311-319 |

Where the rename is a copy, a kill in the middle of it leaves a cut wheel under the published name. No run reports it
green, and every later run refuses it until an operator removes it; the property says exactly that (`torn`).

### LogTable

`SchemaOf` gives each build's columns and comments; a deploy moves to the next build, never back. Others may create
the table, add columns or drop one, which `touched` remembers for the create job: it reads the fields once and works
from that reading. A create job that races another deployment's `CREATE TABLE IF NOT EXISTS` ends green without having
migrated, for which the property excepts it.

| Action | Lines |
|---|---|
| `StartCreate`, `CreateTable` | `log_table_migration.py` 26-40 |
| `ReadFields`, `AddColumns`, `UpdateComment`, `EndCreate`, `FailCreate` | 43-71 |
| `StartPrune`, `DeleteOld`, `Maintain`, `FailPrune` | `log_table_prune.py` 55-111 |
| `AppendRow` | `monitoring_writer.py` 78-97 |

### BatchExport

The view's rows are all sent, a part of them, or none. `SendSome` may come before a write that raises or is killed.
The log is on or off; an append that raises may have committed.

| Action | Lines |
|---|---|
| `StartRun`, `EndRun`, `GuardRun` | `run_record.py` 25-58 |
| `PrepareBatch` | notebook 547-580 |
| `Announce`, `SendSome`, `WriteReturns`, `WriteRaises`, `Reconcile`, `BatchError`, `BatchSuccess` | `batch_export.py` 24-63 |

## 3. Runs

| Run | Configuration | Shows |
|---|---|---|
| `await_stream` | `MCAwaitStream` | safety and liveness of the wait |
| `await_unstopped` | `MCAwaitStreamUnstopped` | counterexample, see section 6 |
| `checkpoint_state` | `CheckpointState` | the classification |
| `stream_start` | `MCStreamStart` | the start, drain-and-stop, refinement of `Delivery` |
| `stream_start_always_on` | `MCStreamStartAlwaysOn` | the start, always-on, mode changing, liveness |
| `stream_start_empty_run` | `MCStreamStartEmptyRun` | counterexample, see section 6 |
| `stream_export` | `MCStreamExport` | a drain over three attempts, refinement of `Delivery`, liveness |
| `stream_export_lossy` | `MCStreamExportLossy` | an always-on query where reports, relays and acknowledgements fail |
| `stream_export_open_batch` | `MCStreamExportOpenBatch` | counterexample, see section 6 |
| `cluster_log_prune` | `MCClusterLogPrune` | plan and execution over every small tree, one failing call, two changes by others |
| `generation` | `MCGenJobs` | every small repository over an edit, a kill, passes, checks, deploys and runs (1.1 million states) |
| `one_shot_jobs` | `MCOneShotJobs` | each of the five jobs over its interleavings, failures and kills (0.6 million states) |

### Bounds, and why they are enough

- `MaxErrors = 3` (the code: `MAX_ISACTIVE_ERRORS`, larger): the counter is only compared with the limit, reset, and
  incremented; three lets it be reset half way and reach the limit.
- `Root = 5`, `MaxClimb = 3`, two moves of others: a climb that ends by a listing, at the limit, and a tree that
  disappears and comes back during one climb.
- `MaxVersion = 4` with two faults: a version before the first run, one that lands while the seed runs, one while
  the main query runs, one after; a crash in the seed and one in the main query, or a crash and a clear. Always-on,
  3 versions and two faults.
- `NumBatches = 2` or `3`, `MaxAttempts = 3` or `2`: a committed batch, one in flight and one not planned; an attempt
  that fails, its retry, and a last one that meets no fault (`MaxFaults = MaxAttempts - 1`), which liveness needs.
  Reports lost in the middle need three batches, hence the lossy run's. `PruneEvery = 2` (the code: 100) makes the
  periodic prune happen; `Polls = 1` (the code: 5) makes `catch_up` run dry and succeed.

- `MCClusterLogPrune`: one cluster with two log kinds, a directory nested in one of them, a file of no log kind, and a
  stray tree that looks like a log but for the cluster id; all trees over these, any files aged. `MaxMoves = 2`: a
  log delivered into a directory the plan empties, and a clean-up or a termination besides. `MaxFaults = 1`: a
  failing listing, or a failing removal, or a failing look at its cause.
- `MCGenJobs`: three config files: two of one stem (`.yml` and `.yaml`), and one whose output file is that of the
  group `g`. Each may hold one of nine configs, chosen so that every rule between fields, members and globals is met
  from both sides; four bundles, two of them refused, two with other globals and tags at the limit; three wheels (a
  release with a trailing zero, a pre-release of the minimum, one with other defaults); globals of another target; five
  sets of `--params`. Every repository over these is an initial state, so one edit reaches every pair of neighbours,
  and `MaxKills = 1` is enough for a pass after a killed one. `TagMax = 10` (the code: 255) with thirteen names of one
  and nine characters: all fit, the first fits, none fits.
- `MCOneShotJobs`: two deploys with three identities over three schemas, in which `es` + `poc_jane` and `es_poc` +
  `jane` make the same name; the configs of a run share a view, conflict, do not resolve, have no view, or collide.
  Two clears. Three builds of two wheels: one killed, one that finds its leftovers, one of the other version. Three
  table schemas (a column more, another comment) and one row (the prune's decision is per row). Two attempts of a
  batch. Each of these bounds is also the subject of a theorem without it.

### Fairness

- `AwaitStream!FairSpec`: every call of the loop returns (`poll_seconds` bounds the wait call; the others are short
  requests), and the server shows an end sooner or later. The query need not end. `CleanEndEndsTheWait` assumes in
  addition that an `isActive` request made again and again is now and then answered: without that the loop may wait
  on a cleanly ended query for good, since a readable `exception()` (None) resets the error count.
- `StreamStart!FairSpec`: the schedule, a retry or the continuous trigger starts runs again, and a run goes on.
- `StreamExport!FairSpec`: the same for task attempts; notebook and query each go on by themselves; and a query's end
  is noticed, which is what `AwaitStream` shows.

Deadlock checking is on in the runs of the streams and of the cluster log prune: each of these models has an explicit
terminal action (`Terminated`, `Classified`, `NoMoreAttempts`, `Finish`) that is enabled only where the system may
stop; `StreamStart` never stops. It is off in `one_shot_jobs`, whose jobs do end (a deploy, a clear, the last build or
attempt), and in `generation`, where a repository may rest: its edits spent, its release followed to the end.
Neither assumes fairness: a pass or a job may be killed for good, and none of their properties says that one ends.

## 4. Properties

- `NormalReturnIsClean`, `EndIsRecorded`, `UnloggedStreamIsStopped`, `FailureEndsTheWait`, `CleanEndEndsTheWait`:
  the contract of `await_stream`'s docstring, with the one exception of section 6.
- `NeverMisreadEmpty`, `AnswersAsOneLook`, `FirstRunIsSeen`: the module docstring's "an existing checkpoint can never
  be misread as absent"; that the several listings, between which others delete and create, answer as one look at the
  checkpoint would at the moment of the answer, which is what `StreamStart` takes a classification for; and that a
  first run is still recognised.
- `NothingSkipped`: once the stream has an offset, everything from its beginning up to its position is sent.
  `SkippedOnlyAtLaunch`: what was skipped was there at the launch of a seed. `HistoryNotSent`: with `new`, nothing
  older than the first version looked up is sent. The proof showed that this needs no exception for an interrupted
  seed: what it re-exports (the comment at 814-817 accepts that) begins at that version too. `EverythingIsSent`: sooner
  or later everything after the beginning is sent.
- `SendIsAnnounced`, `SuccessMeansDone`, `CommittedIsLogged`: the order `batch_start`, rows, metrics, `batch_end`,
  commit, as seen in the table by somebody who reads it at any moment.
- `TotalsAreExact`: the totals of `run_end` are those of that attempt, in spite of leftovers and replays.
- `RowsOnce`, `SummaryIsFresh`, `NoReportSkipped`, `RelaysPruned`: the recorder.
- `AttemptsEnd`, `BacklogIsExported`: the whole gets done.
- `OnlyOldLogsGo`: the module docstring's allow-list, and that a removal never takes a new log with its directory.
  A file rewritten between listing and delete goes by its listed age; the property says so.
- `GreenLeavesNoOldLog`: "a partial prune never reports green". `RaceIsNotAFailure`: a delivery during the run never
  turns it red, and only a delivery counts as a race, so a plan that wrongly took a directory for empty would show.
  `ReportedOnce`: a problem blocks every directory above it, also across a race.
- `HandWrittenKept`: no pass changes a hand-written job file, killed or not. `FinishedPassIsClean`: one pass is always
  enough for `--check`. `VettedReleaseIsWhole`: after a green `--check` every pipeline is a task of exactly one deployed
  job, and nothing else is, whatever killed passes and deleted configs left. `EveryJobIsSound`: no generated job, at any
  moment, mixes an always-on trigger with a task that drains, retries, or runs where there is no such trigger; the
  number of tags fits. That the value of a tag fits, whatever the names ("BY CONSTRUCTION", `gen_jobs.py` 641-668), is a
  fact about a fold over a sorted list: `MCGenJobs` has TLC evaluate it over every set of thirteen names
  (`TagValueFits`), so that the count of the names that were dropped may have two digits.
  `RunsFollowTheRepository`: the three layers of a setting, 0 and false included, and that a backoff pair accepted by
  the generator is never refused by a run.
- `ViewsStayHome`: a per-user view lies in a schema its user owns and no config names, whoever creates schemas between
  the two looks at the owner. `ViewRunIsComplete`: a failed view stops no other and is never green; a green view is as
  all its sharers define it.
- `ClearVerdictIsTrue`: what a clear reports happened, whatever other clears and the stream do meanwhile.
- `PublishedWheelIsWhole`: a published wheel never changes and is never a part of one, but for the volume's own rename.
- `LogTableIsSound`: a green create job completes what earlier ones left half done; no row within the retention goes.
- `BatchLogIsTrue`: nothing leaves unannounced, no success row for an attempt that did not send everything.

## 5. Proofs

Every safety property of the runs, that is each invariant and the action properties `HandWrittenKept` and
`AnswersAsOneLook`, is the subject of a theorem, and so are both refinements of `Delivery`. All theorems are checked by
TLAPS from the modules' constant assumptions only, which TLC evaluates:

- types of the constants: `AwaitAssumption`, `CheckpointAssumption`, `StartAssumption`, `ExportAssumption`,
  `MaxTriesAssumption`;
- for the prune, that what is above a path is a directory (`PruneAssumption`);
- for view deployment, that views have an order (`SqlAssumption`) and that `Schemas` has every schema one may go to
  (`SetupsAssumption`);
- for generation (`GenJobsAssumption`): there are finitely many config files; two stems, or two groups, never name
  the same output file (the name is built from the stem or the group; a stem and a group may well meet, which
  `OutputsCollide` is about); a config file holds at most one config, and that has each optional key at most once, as
  `yaml.safe_load` returns a mapping; the count of global tags is a number.

An invariant of a run is seldom inductive by itself. What each of them needs besides was put together below, was
checked by TLC on the instances of the runs before it was proved, and is not listed with the runs.

- `AwaitStreamProofs`: `LoopInv` is inductive. The contract `NormalReturnIsClean` is not: a step before the return
  one has to know that an end reported by the wait call is a clean one (`EndsAreSound`), which in turn needs that the
  server never shows an end that has not happened (`SignalsAreSound`). `UnloggedStreamIsStopped` needs to know that a
  raised record is on its way to a stop (`RaiseIsHandled`). `EndIsRecorded`: the loop comes to a verdict only by way
  of a call of the recorder made after the end (`VerdictIsRecorded`, in `RecordInv`).
- `CheckpointStateProofs`: `TreeInv` is inductive; `NeverMisreadEmpty` is a conjunct of it. The heart of
  `AnswersAsOneLook` is that a listed ancestor without the child means that the offset is absent at that moment.
  `FirstRunIsSeen` is about a climb nobody disturbs: as many climbs are spent as levels are known to be absent
  (`ClimbShape`, in `FirstRunInv`), so the climb arrives within the limit.
- `StreamStartProofs`: `StartInv` is inductive. `NothingSkipped` needs to know that a running batch's rows are
  written before it counts as run (`BatchIsWritten`), and that no seed can run once the stream has begun
  (`SeedIsFirst`): this is where a misread checkpoint would break the proof. From it, every step maps to a step of
  `Delivery` or leaves its variables alone: `StreamImplementsDelivery`. `SkippedOnlyAtLaunch` needs that a seed stops
  where the source was at its launch (`SeedStopsAtLaunch`, in `LaunchInv`). `HistoryNotSent` needs that with `new` each
  query begins at a version the notebook looked up, or at an offset that such a query left (`NewStartShape`, in
  `HistoryInv`); this covers the seeds that end early, which the property had excepted before it was proved.
- `StreamExportProofs`: `ExportInv` is inductive: what the steps behind the query's position have left
  (`BatchProgress`) and whose the batch is (`PlanShape`). `SuccessMeansDone` is a conjunct of it. `DrainInv` adds what
  the metrics directory holds at each step (`MetricsShape`) and what the notebook knows after the wait (`EndShape`);
  `TotalsAreExact` follows. The refinement `ExportImplementsDelivery` uses `ExportInv` only: a commit needs
  `planned \in sent`. The recorder's four properties are proved together, by `RecorderInv`: reports come in the order of
  their batches and a round of the recorder holds all above the mark (`ReportShape`), an attempt finds only its own
  relays once its directories are cleared (`RelayShape`), and no row that a later step is going to append is in the log
  already (`RowShape`).
- `ClusterLogPruneProofs`: `PruneInv` is inductive. The allow-list needs only that everything tried was planned from
  the listings. `GreenLeavesNoOldLog` needs to know at each step where the old logs still there are accounted for:
  below a directory the walk will list or could not, in the plan, or behind a failure (`OldLogsInv`). A listed
  directory hands a log below it over to the next directory on the way (`ListedTowards`), which takes the tree to
  stay a tree while others deliver and remove (`TreeStep`). `ReportedOnce` rests on the order of the removals: nothing
  left to do is below a reported path, and what is above one is blocked (`DeepestFirst` and `ReportShape`, in
  `ReportInv`). `RaceIsNotAFailure` is about runs in which no call fails and nobody else removes: everything planned
  goes in turn, so that a directory which cannot be removed has something in it that was not planned (`InTurn`), and
  by then that can only be a delivery (`OnlyRaces`, in `RaceInv`). Both need what the plan is: a planned directory
  has all it held when listed in the plan (`PlanReachesDown`).
- `GenJobsProofs`: four invariants. `PassInv`: what a pass has still to write or to remove holds no hand-written file;
  it needs that nobody edits during a pass, and that what a pass itself leaves at a path is never `Hand`.
  `ProgressInv`: what is not left to write is written and what is not left to remove is gone; with it a pass that ends
  leaves exactly the rendered files, which is `FinishedPassIsClean`. `VerdictInv`: a verdict of `--check` is one on the
  repository as it is, and a vetted release is what that repository renders. `VettedReleaseIsWhole` then follows from
  the grouping: each live config is in exactly one group or alone (`OneJobEach`), and accepted stems are distinct
  (`StemsDiffer`). `RunsFollowTheRepository` adds what the latest run took (`RunInv`), that a rule accepts what it made
  of a value and leaves it as it is (`CanonicalStays`), and that the pair of backoffs a run ends up with is one that
  generation looked at (`PairIsChecked`). `EveryJobIsSound` needs
  of an accepted group that its members agree on one trigger and its pause (`AlwaysOnIsSound`, `PauseHasATrigger`),
  one count of retries (`RetriesAreOne`) and leave room for the tags.
- `DeployViewsProofs`: two invariants. `RunInv` (what a run has established: a schema counted as checked is owned by
  its identity and named by no config) gives `ViewsStayHome`; the owner of a schema never changes once it has one, so
  the second look settles it, which a deploy that skipped it could not prove. `CompleteInv` (the lists of a run
  partition what it selected, and a created view is in place unless another run replaced it) gives
  `ViewRunIsComplete`. That a run works on one view at a time is the least number of a set (`SqlAssumption`).
- `OneShotJobsProofs`: the same two for the composition, and for each of the other jobs the invariant of its steps:
  `ClearInv` (what a run knows of the directory unless the stream wrote since); `WheelInv` with `StagingInv` (what of
  this build is in staging at each step, and that its name is free until the rename); `LogInv` with `CreatorInv` (what
  is still wrong with the table is what the create job is still going to put right); `BatchInv` with `StepInv` (what
  log and index know of the attempt at each step) and `FutureInv` (nothing of attempts still to come). Every step of
  the composition is a step of one job and leaves the others alone, so each theorem is that of its own module.

Only model-checked: the liveness properties (`FailureEndsTheWait`, `CleanEndEndsTheWait`, `EverythingIsSent`,
`AttemptsEnd`, `BacklogIsExported`), as liveness under fairness and ENABLED are out of this prover's reach; and the
width of a tag's value (`TagValueFits`), which is what a fold computes for every input: that takes an induction over the
names, which the installed provers cannot instantiate. The three properties of section 6 are false.

## 6. Where code and text disagree

Each is the only property of a run of its own, and TLC's trace shows it.

1. `RecordFailureStopsQuery` (`await_unstopped`). The docstring: whatever `record` raises, "the loop stops the query,
   if it is still running, and re-raises" (`stream_wait.py` 37-38). When the wait call itself has raised, because the
   connection broke, `record` is called once more, its error is printed, and the query is not stopped (56-65).
2. `NoGapAfterEmptyRun` (`stream_start_empty_run`). The fallback that pins `startingVersion` on the main reader
   "never skips a backlog" (notebook 779). If the pinned query finds nothing to send either, it may run no batch and
   leave no offset; the run succeeds. The next run is a first run again: its seed starts at the then current
   version, and the commits between the two runs are never exported.
3. `OpenBatchNeverFinished` (`stream_export_open_batch`). "A `batch_start` with no `batch_end` is a batch that never
   finished (the task was killed or the driver died mid-write)" (docs/monitoring.md 102). Also a batch that did
   finish, when the append of its success row failed (`stream_batch.py` 155 is outside the try block). The same goes
   for `run_start` without `run_end` (`run_record.py` 55).

## 7. Assumptions and what is not modelled

- One run of a pipeline at a time (every job has `max_concurrent_runs: 1`; docs/technical-details.md 82-86). The
  clear job runs between runs, as its description demands.
- Spark's and Delta's behaviour is that of section 2, taken from how the code relies on it.
- Elasticsearch keeps what it acknowledged; duplicates (no `es_id_field`) are allowed by `Delivery`, whose `sent` is
  a set.
- The cluster log prune runs alone (`max_concurrent_runs: 1`, no retries); the other clean-up of its model is a person
  or another tool.
- Generation: the text of the YAML files, descriptions, notifications and names beyond those that may collide;
  `min_retry_interval`, which goes with the retries; which keys a mapping may have, and the paths and identifiers a
  config may spell. The parameter cells' echo of the settings and the conf of the read parallelism change no outcome.
- View deployment: SQL text; drops and changes of owner of a schema; names are as Unity Catalog compares them; the
  `.sql` files are those of one checkout. Whether a config is valid at all is `PipelineConfig`'s matter.
- Checkpoint clear: the check of the name's text. Wheel build: what the cells 2 to 6 check of the repository and the
  build is a success or a failure; nobody else writes the volume (`max_concurrent_runs: 1`).
- Monitoring rows: their payload and surfaced columns (`monitoring_sink.py` 1-515), beyond what the properties tell
  apart. Log table prune: what OPTIMIZE and VACUUM do to files is Delta's own.
- Elasticsearch diagnostics and observability: nothing they keep changes, and no other part reads what they print.

## 8. Plan

1. *Core* (done): wait loop, classification, start, export, their abstract feed and proofs.
2. `ClusterLogPrune` (done): plan and execution, with proofs of the allow-list and of completeness.
3. `PipelineConfig`, `GenJobs` (done): the rules, the write pass and `--check`; proof that hand-written files are kept.
4. `OneShotJobs` (done): view deployment, clear, wheel, log table, batch export, each with its property proved.
5. Proofs of the safety properties (done): each invariant and action property of the runs, both refinements.
6. Proofs left: the replacements of a component by what its module shows, which section 2 argues, as refinements of
   their own: that a green clear is `StreamStart!ClearCheckpoint`, a wait `StreamExport!WaitSlice`; that the write pass
   implements a generation in one step when it is not killed.
7. Models left: the diagnostics' verdict as a function of its answers; deliveries of metrics rows through the sink's
   surfaced columns.
