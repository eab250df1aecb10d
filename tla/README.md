# Agent Eval Orchestrator in TLA+

Agent Eval Orchestrator distributes Harbor evaluation runs over worker machines. This
directory holds TLA+ models of its control logic, TLC configurations that check them on
small instances, and TLAPS proofs of what holds for every number of workers, batches and
faults. Paths below are relative to `src/src/agent_eval_orchestrator/` unless they start
with `docs/` or `.specs/`.

## The system

A **controller** (one Python process) keeps all its state in one SQLite file and serves
HTTP with one thread per request. Each **worker** machine runs a single-threaded daemon
that polls the controller. A task (a *run*) is cut into *batches*, one per worker; a
batch is a Harbor job run by an executor process.

| Component | Source | State it keeps | Operations | Correct when |
|---|---|---|---|---|
| Batch queue and dispatch | `storage/store.py`, `controller/server.py` | rows of `batches`, `runs.bound_worker_id`, `workers.enabled` | create, claim, heartbeat, promote, fail, settings | a batch reaches its worker only, runs once, is not run before its assets are there, and ends |
| Worker daemon | `worker/daemon.py` | `active` executors, position in the loop | register, poll, final report, claim, refuse, spawn, stop | what the table shows as running is run |
| Asset sync | `controller/asset_syncer.py` | `runs.sync_status`, `asset_sync_jobs`, paths in the template, files on the workers | one thread per worker: copy cases, copy assets, publish paths, promote; clean up | files outlive every use, the outcome is true, every sync settles |
| Exception rerun | `controller/run_rerun_coordinator.py`, `harbor_exceptions.py`, `server.py`, `store.py` | derived run, `run_rerun_jobs`, `rerun_status`, merged case rows | resolve scope, start, clone, configure, sync, merge, finish | exactly the selected exceptions run again, one rerun at a time, nothing of the original is touched, it ends |
| Task creation and sharding | `server.py`, `storage/store.py` | template, run, batches, sync manifest | validate, weigh, deal, make batches, manifest | each case is in one batch, shares follow the weights |
| Provisioning, updating, deleting a worker | `controller/provisioner.py`, `controller/worker_updater.py`, `server.py` | `provision_jobs`, `worker_update_jobs`, `workers.provision_status`, `_cancelled`, `_current_job_id`, `tunnels.json` | start, steps, cancel, time out, decommission, delete | one provision at a time, a cancel is obeyed, no tunnel is forgotten, every job ends |
| Harbor job artefacts | `server.py`, `normalizers/harbor_job_merge.py`, `controller/rerun_artifacts.py`, `scripts/harbor_finalize_job_result.py`, `scripts/aeo-repair-rerun-merge.py` | job directories | import, merge, replace trials, finalize, view, repair | a job has the trials that were uploaded, each case once |
| YAML tasks, executor preparation | `controller/harbor_yaml.py`, `controller/asset_syncer.py`, `executors/harbor.py` | a batch's YAML, the files copied for it | parse, discover binds, rewrite paths, copy, prepare | every path Harbor is given leads to what the request named |
| Store read models, summaries | `storage/store.py` | none (pure) | summaries, details, statistics | not modelled |
| Dashboard, viewer, ssh helpers, other scripts | `controller/static.py`, `harbor_viewer.py`, `ssh_*.py`, `scripts/` | none of their own | presentation and I/O | not modelled |

How they interact: the daemon calls the controller (register, claim, heartbeat, job
archive) with a time-out, and each call is a handler thread over the database. The asset
sync's threads and the rerun coordinator's threads write the same rows. The final
heartbeat of a batch triggers the merge of a rerun and the clean-up of synced assets.
Nothing is resumed when the controller restarts: a thread that was under way is gone,
its rows stay as they were.

What is hard here:

* **Two steps that look like one.** `claim_next_batch` reads the queue, then updates.
  Python's `sqlite3` opens a transaction at the first DML statement, so the read is
  outside it. `update_run_sync_fields` and `update_run_rerun_fields` read a row in one
  connection and write it in another.
* **Processes that outlive their end.** SIGTERM only sets a daemon's flag: it ends its
  pass, a claim in flight included. `pkill` does not wait for that, and the next daemon of
  the worker starts beside it.
* **Calls that outlive their caller.** A daemon gives up after 30 s (600 s for an
  archive, 120 s for a final heartbeat); the handler goes on and its write lands later,
  over whatever happened in between.
* **State in memory only.** The daemon's `active` and the controller's threads do not
  survive.
* **Statuses written unconditionally.** A heartbeat, a finished sync, a finished or
  cancelled job all write their status over any other.
* **Events that come once.** Clean-up and the end of a rerun hang on one particular
  heartbeat; if the state is not right at that moment nobody asks again.

## Modules

| Module | What it is |
|---|---|
| `BatchQueue` | The dispatch protocol: controller handlers and worker daemons, with lost, late and overlapping calls. |
| `BatchContract` | What the platform promises about a batch's row; implemented by `BatchQueue` when no call is lost. |
| `AssetSync` | The sync of one run's assets: the creating handler, `run_job` and its threads, the handlers that clean up, restarts. |
| `ExceptionRerun` | The protocol of a rerun: the start under its lock, the sync of a rerun, the handlers that merge and end it. |
| `RerunScope` | The data of a rerun: which cases run again, under which clone, and what a refused request leaves behind. |
| `TaskCreation` | A request to create a task: validation, weights, shares, batches, manifest. |
| `WorkerLifecycle` | Provisions, updates, cancels and deletes of workers, their tunnels and daemons. |
| `HarborYaml` | The paths of a batch from the request to the executor. |
| `HarborJobs` | The job directories of the controller and the requests that rewrite them. |
| `BatchQueueProofs`, `AssetSyncProofs`, `ExceptionRerunProofs`, `WorkerLifecycleProofs`, `TaskCreationProofs`, `HarborYamlProofs`, `HarborJobsProofs` | The inductive invariants and the theorems; `RerunScope` holds its own. |
| `MC...` | Small instances for TLC. |

The modules share no variable. What one needs of another is in it as an environment:
`AssetSync` and `ExceptionRerun` have a fault-free dispatch of their own batches,
`BatchQueue` the two statements a sync makes on batches, `WorkerLifecycle` one batch per
worker. In every module a variable, a state or an action has the name the code gives it
wherever there is one; operators preceded by "Mutant" are plausible wrong versions of
the code, used to see that the properties notice them, and no action uses them.

### BatchQueue

State against code:

| Variable | In the code |
|---|---|
| `status`, `assigned`, `finished` | `batches.status`, `.assigned_worker_id`, whether `.finished_at` is set |
| `bound` | `runs.bound_worker_id` |
| `registered`, `enabled` | which workers have a row, `workers.enabled` |
| `claims`, `beats` | handler threads of `POST /api/workers/claim` and `/heartbeat`; `client` says whether the daemon still waits for the answer |
| `pc`, `cur`, `todo`, `active`, `stopping` | a daemon process: where it stands in `main`, the batch at hand, the rest of the `for` over `active.items()`, the dict itself, `stop_requested` |
| `starts`, `doubled`, `faults` | history: executors started for a batch with a preferred worker, workers that have had two daemons at once; a bound |

`CreateBatch`, `PromoteWorkerBatches`, `MarkWorkerBatchesSyncFailed`,
`UpdateWorkerSettings` are the store's methods of the same names. A claim is
`ClaimNothing`, or `ClaimSelect` followed by `ClaimUpdate`; between the two any other
step may happen. A heartbeat is one step, its `UPDATE`. A worker may have several daemon
processes (`Serves` is their `--worker-id`). Their actions follow `main` from top to
bottom: `Register`/`RegisterFails`, `PollRunning`, `PollExited`, `RequestClaim`/
`ClaimsOver`, `Spawn`/`RefuseBatch`, and `Leave`, the way out of the loop. `CallFails` is
any call that raises in the daemon, whether its handler ever runs or not. `Terminate` is
SIGTERM: the flag is set, and the daemon goes on to the end of its pass, where nothing
asks for the flag between the answer of a claim and the start of its batch. `Crash` is a
death at any point. `Start` is a new daemon where none runs, `StartSecond` one beside
another, which no command that starts daemons looks for.

The asset sync appears as the two statements it makes on batches, at any time; deleting
a worker, the job archive and what a heartbeat triggers afterwards belong to other
components. A wrong executor result, disk measurement and log files are left out: they
only choose between `Spawn` and `RefuseBatch` and between the two outcomes.

### BatchContract

One variable, the row: created, optionally held for the sync, handed out once to an
allowed worker, finished once with its finish time. `KeepsContract` maps `status`,
`assigned` and `finished` to that row.

### AssetSync

| Variable | In the code |
|---|---|
| `status` | `batches.status` of the one batch of each worker |
| `syncStatus` | `runs.sync_status` |
| `job`, `steps` | `asset_sync_jobs.status`, `.steps_json` |
| `memo`, `errors` | `run_job`'s variables `steps` (rebound under `lock`) and `errors` |
| `main` | where the creating handler, then `run_job`, stands; `lost` when the process died under it or the handler failed |
| `thread` | where `worker_thread` stands, per worker |
| `paths`, `files` | the template's `datasetPathByWorker`, what is under each `targetRoot` |
| `cleaner`, `left` | the tail of the heartbeat handler of each worker's batch, and what its `cleanup_run_sync_assets` has still to delete |
| `faults` | a bound; not in the code |

A step is one commit to the database, one copy or one deletion. `CreateBatch`,
`SaveManifest`, `CreateAssetSyncJob` are the commits of the creating handler (a JSON and
a YAML task make the same ones; only the latter has bind assets), and `CreationFails`
its `except`. `BeginJob`, `StartThreads`, `RecordOutcome`, `FinishJob` are `run_job`;
`BeginCases` to `Promote` a thread's `try`, `StepFails` an exception in it,
`RecordFailure` and `MarkFailed` its `except`. `CheckTerminal` and `CheckSyncStatus` are
the two reads at the end of `POST /api/workers/heartbeat`; `BeginCleanup`,
`CleanWorker`, `EndCleanup` are `cleanup_run_sync_assets`. `ClaimBatch` and
`FinishBatch` stand for the dispatch protocol, without its faults. A rerun's sync is in
`ExceptionRerun`; transport and validation of paths are left out, and a database write
of the sync is taken to succeed (a `StepFails` at publication or promotion excepted).

### ExceptionRerun

| Variable | In the code |
|---|---|
| `pc`, `source`, `scope` | a call of `start_rerun`: where it stands, the run it reruns, the workers whose case it selected |
| `rstatus`, `job`, `closed`, `listed` | `runs.rerun_status`; status, `finished_at` and `rerun_batches_json` of the row in `run_rerun_jobs` |
| `batch` | `batches.status` of the rerun batches |
| `rows`, `dir` | `case_runs` of the primary batches of each run, the trials in each run's job |
| `trial` | what an executor has produced |
| `sync`, `thread`, `errors` | `sync_rerun_job`, its threads, its list of errors |
| `call`, `verdict` | the handlers of a batch's archive and final heartbeat, the status they computed |

`ResolveScope` is what comes before the lock, `Enter` to `MarkSyncing` the part under
it, `CopyJobs` to `Launch` the rest of `start_rerun`, `BuildFails`, `FailRun`, `FailJob`
its `except`, from the creation of the derived run on, under the lock and after it. `BeginSync` to `WriteSyncJob` are `sync_rerun_job`. `UpdateProgress`,
`Merge`, `CheckComplete`, `WriteOutcome`, `CloseJob`, `CopyTrials` are the tail of the
two handlers (`_apply_exception_rerun_merge`, `finish_rerun_batch_if_complete`); they
interleave with each other and with the sync's last writes. A worker has one case; each
request names the run it derives, so a rerun of a rerun is a request whose `source` is
another request.

### RerunScope

A request is followed alone, but over every outcome of every case (`outcome`), every way
a trial may name its task (`naming`), found in the job directory or in the rows
(`found`), with trials of exceptions missing from the directory (`gone`), with and
without selected types, a configuration or a YAML, well formed or not (`request`,
`binds`). `Change` removes a case directory or a worker between any two steps. `Scope`
is `_resolve_rerun_scope`, `Check` `_prevalidate_config`, `Derive` the creation of the
run, `ApplyConfig`, `MakeBatches`, `ApplyYaml` what follows in `start_rerun`,
`StartSync` its answer. Names are strings and whether one is part of another is the
constant `Within`; a case has one trial. The values of the executor configuration and
the text of the preview are left out.

### TaskCreation

| Variable | In the code |
|---|---|
| `row`, `seen` | the `workers` table, and the list the handler read first |
| `pc`, `stored` | where the handler stands, which rows it has committed |
| `weights`, `quotas`, `scores`, `groups`, `next` | the locals of `_weighted_case_groups` |
| `batches`, `shard`, `manifest`, `yamls` | the run's batches, the manifest's shards, the batches whose YAML is in the template |

`Weigh` computes score, quota and remainder (largest remainder first), `DealCase` one
turn of the loop that deals, `CreateBatch` one of the loop over non-empty groups.
Weights are exact, in units of 1/80, where the code has floats: a rounding of the last
bit that reorders two equal scores is outside the model. Deletions of workers, changes
of their machines and a database write that raises fall between the handler's accesses.

### WorkerLifecycle

An actor is a job, a cancel or a delete; `pc` is where its request and then its thread
stand.

| Variable | In the code |
|---|---|
| `row` | `workers`: present, ssh alias, heartbeat, `provision_status` |
| `status`, `birth`, `at` | rows of `provision_jobs` and `worker_update_jobs`, their order, the step at hand |
| `target`, `victim`, `alias`, `known`, `ret` | locals of a handler or a thread |
| `cancelled`, `current` | `_cancelled` of both classes, `Provisioner._current_job_id` |
| `file`, `copy`, `pid` | `tunnels.json`, what an actor has read of it, the process it is about to record or kill |
| `live`, `stopping`, `hold`, `procs`, `spawned` | the hosts: daemons, daemons that got SIGTERM and finish a request, the batch routed to a worker, tunnel processes |
| `late`, `crowded`, `warned` | history: steps started after the cancel, updates that had another of their worker beside them, whose stop of a daemon only left a warning |

`Test` and `Start` are the two halves of `_run_step` (the look at `_cancelled`, the row
that says the step runs); `RunRemote`, `StopDaemon`, `SpawnTunnel`, `StartDaemon`,
`SeesRegistered` the steps' effects. `decommission_worker` is a call (`Calls`) that
deletes, cancels and updates share. Its `Pkill` tells the daemons to stop: each ends its
pass, in which it may register or start the batch of a claim it has in flight, then
terminates its executors and leaves; the row of such a batch stays running and nobody
reports it. `MaxRequests` bounds how many requests come and `MaxBusy` how many are at work
(`Room`), `MaxFaults` failing ssh, daemons that do not come up and restarts of the
controller.

### HarborYaml

One request at a time goes through `Parse`, `Validate`, `DiscoverMount`, `Build`,
`SyncCases`, `SyncAssets` and `PrepareFromYaml` or `PrepareFromConfig`. A path is a
sequence of names, a text of the YAML is a path with the way it is spelled (absolute,
from the home directory, relative); symbolic links are a function. `Content` follows a
path on the worker back to what the controller had there. The worker is remote or shares
the controller's disk. Strings that are not in normal form (`..`, doubled or trailing
slashes) are left out, and so is a source above the sync root on a local worker, whose
copy would contain itself. The command line and the defaults of `executor_config.py` are
left out.

### HarborJobs

| Variable | In the code |
|---|---|
| `dir` | the job directories: imported jobs by batch, jobs by run; whether `config.json` is there (`files`), their trials, what `result.json` counts |
| `ended`, `rows`, `outcome` | final heartbeats recorded, `case_runs`, `rerun_status` |
| `call` | where each request stands and what it has read |
| `last` | history: the request that began last |
| `load`, `faults` | what the controller is asked to do, how much of it at a time, with which faults |

An archive removes what is there of its batch, moves the new job to its place
(`MoveImported`), and rebuilds the merged job: it removes that, copies per source and trial
(`RemoveMatching`, `CopyTrial`), then `WriteConfig`, `ReadTrials`, `WriteResult`. A removal
(`shutil.rmtree`) lists the job (`ListRemoved`), then removes its trials one by one, its
files and the directory, in any order but the last (`RemoveTrial`, `RemoveFiles`,
`RemoveDir`); what somebody else has removed meanwhile is passed over or ends the call, by
the release of Python, and a directory that is not empty ends it. A final heartbeat is `Update`, `MergeImported`, `CheckComplete`,
`FinalCopy`. `StartRerun` copies the source's job, `View` and `Repair`/`Backfill` are
the viewer's rebuild and the repair script. Copying or moving one directory, or removing
one trial, is one step. Workers are remote. `base` remembers the trials of the source's
job when a rerun was started. A derived run has its job in its source's jobs directory or in one of its own
(`own`; reached by templates made without a `combinedJobsDir`). A rebuild takes the
imported jobs in any order in which the store may list the batches (`Sources`).
`JobsAssumption` says how runs, batches and clones belong together: a batch is of one
run, and a derived run has a clone of each primary batch of its source. What the theorems
assume beyond it (job names, the dealing of cases, how a rerun is used) is named at the
end of the module, and `MCHarborJobs` has TLC evaluate it for its loads.

## Runs

| Run | Result | What it shows |
|---|---|---|
| `queue_faults` | passes | With two faults of any kind: a pinned batch reaches only its worker and is started at most once unless the worker had two daemons at once; the sync gate is never bypassed; the inductive invariant holds. |
| `queue_reliable` | passes | Without faults: a running row is held by its worker, the contract is implemented, and every queued batch finishes. |
| `queue_double_claim` | violated | Two overlapping claims get the same shared batch. |
| `sync_restarts` | passes | Failing copies, two restarts or creation failures at any point: files are there when needed, the outcome is true, steps go forward, clean-up waits for the end, every sync that is not cut off settles. |
| `rerun_two_workers` | passes | Failing builds and copies, batches without cases, time-outs and a restart, two in all: no trial is doubled or lost, the inductive invariant holds, and every rerun ends unless a restart cuts it off or a batch brings no case. |
| `rerun_two_requests` | passes | Two requests for one run, or a rerun of a rerun: the lock keeps them apart, success is true, the original is untouched. |
| `scope_requests` | passes | Whatever the names, exactly the selected exceptions run again, once; a refusal leaves no run in progress. |
| `create_requests` | passes | Workers deleted or changed under the request, a write that raises: every case is in one batch, shares are within one case of the exact ones, the manifest is the batches'. |
| `life_requests` | passes | Provisions, an update, a cancel and a delete of a worker, with failing ssh, a daemon that does not come up or a restart: one provision at a time until a delete comes, an update pulls only when every daemon was told to stop, success takes every step, every job ends. |
| `life_tunnel` | passes | Requests one after the other over tunnels, with faults: every running tunnel is on record. |
| `yaml_paths` | passes | Nested, repeated and equally named bind sources: tasks, binds and other strings lead to what was meant. |
| `jobs_merges` | passes | Archives, heartbeats, reruns, viewer and repair: jobs have what was uploaded, each case once, a rerun's job the source's trial of every other case, the source's job is left alone, the viewer repairs what was cut off. |

The type invariants of `TaskCreation`, `HarborYaml` and `RerunScope` hold in the
instances of these runs and are not listed as properties of theirs; those of the other
modules are theorems, or part of the invariant a run checks.

**Bounds.** Two workers are the fewest that can compete. `queue_faults` has one batch
pinned to a worker and one of the shared queue in the same run, so that the first claim
binds the run while the second is in flight; the first worker may have two daemons, and
two faults are the fewest for a daemon that is told to stop in the middle of a claim and a
second one beside it; they also allow a late handler and a crash, or two of either. `queue_reliable` has three
batches of one worker with two slots and a worker that only polls: claims in a row, a
full daemon, promotion per run and worker. Shared batches are left out of it because of
the double claim. `sync_restarts` has two workers with bind assets, so that one can fail
while the other copies, and two faults: one during creation or `run_job`, one during
clean-up. `rerun_two_workers` has two batches whose handlers and sync overlap; a third
would only repeat the second. `rerun_two_requests` has one worker: the lock, not the
batches, is at stake, and the second request may name the first as its source.
`scope_requests` has four cases in three batches on two workers, two of them with cut
names and one whose name lies within another's; one trial missing and one change are the
fewest that matter. `create_requests` has three machine classes, one of which reports
nothing, and 0, 1, 3, 4 or 7 cases, which leave remainders of 1 and 2. In
`life_requests` any three of the five actors come, two at a time, with one fault of any
kind, over direct connections: its properties say nothing of tunnels, and with them the
state space is several times as large. `life_tunnel` has one actor at a time, because of
the tunnel race below, and all kinds of faults. `yaml_paths` takes all pairs and
some triples of sources from a small tree in which each relation (below, equal, same
last name, below a task) occurs; no source lies above the sync root, which the rewrite
would change too (the hypotheses `Clear` and `NoneAbove` of the theorems below).
`jobs_merges` runs seven loads, named in `MCHarborJobs`. Six have one request at a time:
among them one with two crashes or failed scripts, one in which a batch is executed again
with a crash and a view around it, one in which a batch of the source is executed again
before, during or after the rerun, and a rerun in a jobs directory of its own. The seventh
has two at a time, a rerun batch executed twice, and a time-out or a crash. Requests and workers are symmetric in runs that check no liveness.

Deadlock is not checked where the system may stop: when all requests have been answered
nothing is left to do.

**Fairness.** In `BatchQueue` handler threads run (weak fairness on `Handler`), a daemon
keeps looping (weak fairness on `Daemon`), and an executor that is polled again and
again exits in the end (strong fairness on `PollExited`: the poll can find it running
any number of times, and Harbor bounds each trial). Nothing is assumed of the operator,
of creation or of the asset sync, and liveness is stated without faults. In `AssetSync`,
`ExceptionRerun` and `WorkerLifecycle` every thread of the controller runs (weak
fairness each), and in the first two daemons claim and executors end; nothing is assumed
of requests, faults and, in `WorkerLifecycle`, of the hosts, whose steps all have a
time-out. There liveness is stated with the faults, and excepts what the code gives up:
threads a restart has cut off (`main = "lost"`, `CutOff`, `pc[j] = "lost"`), the thread
of an update that raises before its `try`, and a rerun one of whose batches ends without
cases, since only a merge looks whether the rerun is over.

## Findings

`queue_double_claim` is the run that refutes what the documents say: `claim_next_batch`
(`storage/store.py:1985`) selects before `sqlite3` opens a transaction and updates by id
alone, so two overlapping claims get one shared batch;
`.specs/features/001-distributed-eval-platform/requirements-analysis.md:280` has each
batch claimed by one worker at a time.

Each of the following configurations is a smaller instance in which TLC finds the named
property violated (`tlc -config X.cfg` on the `MC` module of that name). They are kept
beside the runs because each marks a limit of a property above.

| Configuration | Property | Code | What happens, and what is said |
|---|---|---|---|
| `queue_stops` | `TerminalIsFinal`, `NeverStartedTwice` | `storage/store.py:2063`, `worker/daemon.py:143` | a late heartbeat, or a late claim's update, puts a finished batch back to running; `functional-design.md:213` gives final states no exit; a daemon that was told to stop starts the batch of its claim although its replacement has claimed the same row, so that two executors run it; with `-continue` TLC shows both |
| `queue_disabled_worker` | `DisabledSelectsNothing` | `storage/store.py:1997` | `worker["enabled"] or 1` turns the flag 0 into 1; `controller/static.py:1933` offers the switch |
| `sync_uncleaned` | `TerminalRunIsCleaned` | `controller/server.py:1597` | clean-up is tried at a heartbeat only; if the sync's outcome comes later the files stay; `2026-05-24-task-asset-sync-design.md:7`: automatically cleaned up |
| `sync_ghost_job` | `ShownRunningRuns` | `controller/asset_syncer.py:379` | after a restart a job stays running; `.specs/constitution.md:68` wants restarts observable from persistent state |
| `rerun_partial_sync` | `OneRerunInProgress` | `controller/asset_syncer.py:502` | a failed copy ends the rerun while other batches run, and a second one is let in; `2026-05-26-run-exception-rerun-design.md:26`: at most one in progress |
| `rerun_overwritten` | `OutcomeIsFinal` | `controller/asset_syncer.py:488` | the sync's end writes running over an outcome; same document, :80 and :113 |
| `rerun_unmerged` | `FinishedIsMerged` | `controller/server.py:238` | success is recorded before another batch's cases are merged; `2026-05-30-derived-rerun-run-design.md:184`, :188 |
| `rerun_stale_scope` | `ScopeIsErrored` | `controller/run_rerun_coordinator.py:75` | the scope is read before the lock and used after it; `2026-05-26-run-exception-rerun-design.md:22`: exception cases only |
| `rerun_kept_exception` | `ExceptionIsReplaced` | `storage/store.py:779` | a rerun names its trials anew, so the exception's row stays beside the new one; same document, :202 |
| `scope_shared_stem` | `RerunsAreExceptions` | `storage/store.py:2568` | of two cases cut to one stem the first is rerun, whichever failed; `2026-06-12-rerun-harbor-yaml-design.md:32` |
| `scope_yaml` | `RefusedYamlDerivesNothing` | `controller/run_rerun_coordinator.py:889` | a YAML's sources are looked at after the run was derived; same document, :209 before :210 |
| `create_repeated_worker` | `WorkersGetTheirCases` | `controller/server.py:1093` | a worker named twice gets two batches and the files of one; `2026-05-24-task-asset-sync-design.md:23` |
| `life_updates` | `OneUpdate`, `OneDaemon`, `PullsAreQuiet`, `UpdateSparesBatches` | `controller/server.py:1454`, `:1442`, `worker/daemon.py:143` | two requests pass the test for an active update (`2026-05-24-worker-auto-update-design.md:121`) and each starts a daemon; a daemon that was told to stop is still in its last pass while code is pulled, and registers or starts a batch; a batch claimed after the count loses its daemon (same document, :14); with `-continue` TLC shows all four |
| `life_stuck_update` | `ThreadsRecord` | `controller/worker_updater.py:182` | paths are resolved before the `try`, so a job stays running and blocks every later update; same document, :307 |
| `life_no_daemon` | `SucceededIsServed` | `controller/provisioner.py:475` | the row is still online from the daemon that was stopped; same document, :304 |
| `life_resurrected` | `DeletedIsGone` | `storage/store.py:1268` | the last registration of a stopped daemon inserts the deleted worker again; `2026-05-24-worker-delete-design.md:58` |
| `life_wrong_tunnel` | `TunnelsAreRecorded` | `controller/provisioner.py:157` | two provisions at a time write `tunnels.json` over each other and take each other's process; `2026-05-24-worker-provision-ui-design.md:248` |
| `yaml_spelled` | `BindsAreThere` | `controller/harbor_yaml.py:187` | a source spelled with `~` or through a link is copied but its string is not rewritten; `2026-06-11-yaml-bind-asset-sync-design.md:9` |
| `yaml_missing_mount` | `NoMissingMount` | `executors/harbor.py:102` | a batch with a YAML starts without the mount check; same document, :153 |
| `jobs_overlaps` | `OverlapIsWhole`, `OverlapIsFinal`, `CopiedWhole`, `OwnIsWhole` | `controller/server.py:160`, `:1153`, `normalizers/harbor_job_merge.py:60`, `controller/run_rerun_coordinator.py:1012` | two archives rebuild one job at once (the repository's `README.md:220`); the result counts the trials read before another batch's were copied (`2026-05-30-derived-rerun-run-design.md:187`); a rebuild copies from an imported job that another archive is removing trial by trial; a rerun in a jobs directory of its own does not start as a copy of the source's job and its result has the rerun's trials alone (same document, :24, :27, :29, :171, :244, :247); with `-continue` TLC shows all four |
| `jobs_same_name` | `MergedIsWhole` | `controller/server.py:160` | two runs of one display name share a job directory; the same line |
| `jobs_repair_drops` | `NoCaseDropped` | `scripts/aeo-repair-rerun-merge.py:126` | the repair of a derived run rebuilds its job from the rerun's trials alone; the script's docstring |

Documents named without a directory are in `docs/superpowers/specs/`.

Other disagreements met while modelling, which the modules follow and no configuration
singles out: `run_job` copies no bitfun although the mounts refer to it
(`asset_syncer.py:394`); without a manifest a failing rerun leaves its batches waiting
(`asset_syncer.py:542`); a rerun batch without cases ends nothing (`server.py:212`);
`cancel_job` writes cancelled over an outcome (`provisioner.py:258`), and a cancelled
update may still start its daemon (`worker_updater.py:373`); a delete between a worker's
row and its job leaves the job (`server.py:1354`); a finalize script that fails is
passed over after success was recorded (`server.py:271`); the jobs directory of a rerun's
request is not read (`run_rerun_coordinator.py:783`); a job is copied while a viewer may be
rebuilding it (`rerun_artifacts.py:69`); the repair script replaces the rows of a cloned
batch (`aeo-repair-rerun-merge.py:54`); the rewrite also changes targets of volumes
(`harbor_yaml.py:230`), follows the first task of a list only (`:373`), and rewrites the
sync root when a source lies above it (`:115`); the paths of a rerun's tasks, which are
rewritten already, are rewritten again when the common parent of the entries lies above
the sync root (`:304`, `:116`); a case that is not an entry is looked for in that common
parent, which need not be the parent of any entry (`:307`); a string below the dataset
leads to the copy of the dataset, which has the batch's cases only, although a source
above the dataset was copied with everything below it (`:222`, `:243`); a trial that is
gone from the job directory is not rerun although its row has the exception
(`run_rerun_coordinator.py:437`), and a case directory removed before the scope is
resolved makes another case of similar name be rerun.

## Proofs

Eight modules hold the proofs. Each assumes only the named assumptions on the constants
of the module it is about: any number of workers, batches, requests, jobs and faults.
What a theorem assumes beyond this is in its statement. Every safety invariant that a
passing run checks, `FinalIsWhole` excepted, is stated by a theorem, some under such
hypotheses. `DispatchInv`,
`SyncInv`, `RerunInv`, `LifecycleInv` and `CreationInv` are invariants of the runs as well;
`ShareInv`, `ItemsInv` and `PathsInv` hold in the instances of theirs.

`BatchQueueProofs` assumes only `ConstantsAssumption`: any number of batches, workers,
slots, runs and faults.

* `DispatchInvariant`: `Spec => []DispatchInv`.
* `TypeCorrect`, `Routing`, `StartOnce`, `SyncGateHolds`: the type invariant, the two
  safety invariants and the action property of `queue_faults`.
* `RunningHeld`, `ImplementsContract`: the invariant and the refinement of
  `queue_reliable`, without faults (`MaxFaults = 0`) and with every batch pinned to a
  worker (`AllPinned`).

`StartOnce` is about workers whose daemons run one at a time (`doubled`): a daemon that was
told to stop and its replacement may start one batch each of the same row, as
`queue_stops` shows. Nothing is assumed of when a daemon is told to stop or dies.

None of these is inductive alone. `StartedAtMostOnce` needs to know that whoever is
about to start a pinned batch finds it never started: `RouteInv` carries this for a
daemon at `start` (`DaemonInv`) and for a claim the daemon still waits for
(`ClaimsInv`), together with the uniqueness of that claim. When a batch is started, any
other claim on it would have to belong to the same worker (`MayRun`), whose one daemon
(`AloneInv`) is at `start` and so waits for nothing: this is where the daemon being
sequential, and alone, is used.
Late handlers are harmless to starts because nobody reads their answer. `TypeOK` needs
`DaemonInv` too: starting or refusing "no batch" would break the types. Each part of
`DispatchInv` has a lemma with one step per action; `StepStatus` (a claimed batch is
never unclaimed) is used by all of them and gives the sync gate. Its other half,
`HeldInv`, holds until the first fault: a claim has selected a pinned batch only while
it is queued, a heartbeat is about the step its daemon stands in, the daemon polls what
it still has, and the row says running exactly while the worker holds the batch. Each
step of the protocol is then a step of `BatchContract` or a stutter (`StepContract`): a
claim's `UPDATE` hands the batch out, a final heartbeat finishes it. A lost call breaks
`RunningIsHeld`, a shared batch breaks both, which is why neither theorem allows them.

`AssetSyncProofs` assumes only `SyncAssumption` (some worker, any number of them and of
faults).

* `SyncInvariant`: `Spec => [](TypeOK /\ SyncInv)`.
* `FilesInPlace`, `OutcomeTrue`, `CleansWhenOver`, `NoStepGoesBack`: the two safety
  invariants and the two action properties of `sync_restarts`.

`SyncInv` has four parts. `StagesAgree` says that a thread that runs has its batch still
waiting; so when the run is terminal no thread runs, and a clean-up cannot meet a copy.
`FilesStay` adds what each stage of a thread has copied and that whoever cleans has seen
a terminal run, which stays terminal. `LedgerAgrees` ties the list of errors to the
batches whose sync failed, so that the outcome is true when the threads have been
joined. `StepsFollow` says what the threads' shared steps are at each stage and that the
row is at most one success behind them. Each part has a lemma with one step per action.

`ExceptionRerunProofs` assumes `RerunAssumption`.

* `TypeCorrect`, `OneSyncingAlways`, `SucceededIsAlwaysTrue`: the type invariant and the
  two invariants of `rerun_two_requests`.
* `OriginalNeverTouched`: its action property.
* `RerunInvariant`, `NoTrialIsTwice`, `NoTrialIsLost`: the inductive invariant, the
  invariant and the action property of `rerun_two_workers`.

`OneSyncing` and `SucceededIsTrue` are parts of `RerunInv`. `BuildAgrees` says what a
request has built at each point, that only one is under the lock, and that whoever has
passed the look at its source's other reruns finds none syncing: this is why no second
rerun can begin. `BatchAgrees` orders sync, daemon and handlers of a batch, says that
who is about to write success has seen all batches succeed, and that batches only move
once the list of batches is complete. Types need both, since a merge of "no trial" would
break them. `MergeAgrees` is what the data of merges needs: before its primary batches
are cloned (`Unbuilt`) nothing of a rerun is in any run's rows, and later its clone has
no trial of its own but the one a handler has merged. So a merge meets the same trial or
none (`MergeKnows`), a clone replaces no rows (`CloneKnows`), and no other step writes
rows (`RowSteps`).

`WorkerLifecycleProofs` assumes `LifecycleAssumption`.

* `LifecycleTypeCorrect`, `LifecycleInvariant`: the type invariant and `LifecycleInv` of
  `life_requests`.
* `ProvisionedOnce`: `OneProvision`.
* `UpdatesPullStopped`: `PullsFollowStop`. No hypothesis: what it excepts, an update
  beside another one or whose own stop failed, is in the property, where the history
  variables `crowded` and `warned` say which updates those are.
* `TunnelsOnRecord`: `TunnelsAreRecorded` of `life_tunnel`, when requests come one after
  the other (`MaxBusy = 1`).

`LifecycleInv` is inductive with the types: `Started` ties an actor to its worker and
its job, `CancelIsNoticed` says a cancelled job starts at most one more step, and only
if its test came before the cancel, `SucceededIsComplete` that a job succeeds past its
last step only, `RowsFollow` that a thread has the row of its job, and `ProvisionsApart`
that, until a delete comes, a provision whose `INSERT` succeeded (`HasWorker`) has its
worker's row and shares it with no other. Every step but three leaves these alone
(`Frame`).

The two other theorems rest on `PlacedInv`: at which step the thread of a job is when it
calls `decommission_worker` or the tunnel helpers, and where it goes from there; this
needs the order of the steps for every choice of tunnel, mode and targets
(`ProvisionOrder`, `UpdateOrder`, `StepAfter`). `QuietInv` then says that until a cancel
or a delete comes a worker that is not there, or whose provision has not started its
daemon, has no daemon (`Silent`), so that nobody registers it; an update finds no such
provision at its worker, because the row says provisioning, and nobody starts a daemon
between its stop and its restart, unless that stop failed or another update is beside it,
which both updates then know of (`CrowdInv`). `TunnelInv` says that who is at work is alone; a
provision finds no tunnel of its worker before it makes one; while it does, the file is
one process behind; a cancel or a delete removes the record first and kills the process
it holds; and a delete has killed the tunnel before the row goes, so that the next
provision starts without one. Once a restart has cut a call off, `TunnelsAreRecorded`
claims nothing.

`TaskCreationProofs` assumes `CreationAssumption`.

* `CasesDealtOnce`: `Spec => []CreationInv`. Its invariant `IInv` adds the shapes of
  groups and batches and nothing about weights or quotas: no rounding and no change of a
  worker can double a case or tear a share apart.
* `ManifestIsBatches`: `ManifestMatches`, if no request names a worker twice
  (`create_repeated_worker` refutes what follows from it otherwise). The manifest is
  made of the batches, which then stay as they are (`Copied`).
* `SharesAreFair`: `FairShares`, and `EveryCaseIsDealt`: `CasesCovered`, for any workers,
  weights and number of cases.

The two last rest on `ShareInv`: after `Weigh` what a share has and what its quota still
allows is fair, and the quotas are together as many as the cases still to be dealt, so
that the loop ends with all quotas at zero and no case left. That the largest remainder
method makes such quotas needs sums over sets of workers. `Total` is a fold; that a sum
exists, is that of a part and the rest, and keeps order is proved for finite sets by a
least counterexample (`WFMin` on the sizes of sets, `EveryNumber`, `EveryPart`,
`SumsExist`), since the library's induction theorems take an operator as a parameter.
The remainders then add up to a multiple of the total weight, which is how many workers
get one case more, and those are fewer than the workers.

`HarborJobsProofs` assumes `JobsAssumption`.

* `JobsTypeCorrect`: the type invariant, from `JobsInv`, which adds where each call's
  rebuild may write (`AllAimed`).
* `UploadsAreWhole`: `ImportedIsWhole`, and `SourceIsUntouched`: `SourceUntouched`,
  whatever calls overlap, are cut off or time out; the latter if no two runs share a job
  directory (`NamesApart`). An imported job may be seen in part while its own archive
  removes it, and nothing keeps a rebuild from copying it then (`jobs_overlaps`); the
  theorem says that it is never anything but one execution or what is left of one.
* `NoCaseIsTwice`: `NoCaseTwice` when calls come one at a time (`OneByOne`) and no case
  is in two batches of a run (`CasesApart`), at every point of a rebuild and whatever
  was cut off before.
* `MergedJobIsWhole`, `ViewingRepairs`: `MergedIsWhole`, and `ViewRepairs` when calls
  come one at a time, under both assumptions on names. `jobs_same_name` and
  `jobs_overlaps` show what shared names and overlaps do.

When calls come one at a time the one at work is alone (`AloneInv`), what it is about to
copy has lost its rival in the target (`Holds`) and what it is about to move has no
target (`Moving`); what it removes goes trial by trial (`Clears`). `BuildInv` says how far the rebuild of an original run's job is: what
is there came from the sources already taken, what is missing is still to be taken.
Until the first fault `KeptInv` says that each original run's job is complete or its
call is about to make it so, and `ViewInv` says the same of the run looked at last,
whatever faults came before. `MergeInv` is all of these.

`RerunScope` assumes `ScopeAssumption`.

* `RefusedLeavesNothing`: `RefusedDerivesNothing`, whatever the names, exceptions and
  workers: what `_prevalidate_config` looks at before the run is derived is what
  `ApplyConfig` looks at again, so that only a change in between can refuse it then
  (`Checked`).
* `RerunsAreMeant`: `RerunsAreExceptions`, when the names tell the cases apart
  (`NamesTell`: no case's stem or name with an organisation is another case's, and within
  its batch a stem covers its own case alone; TLC evaluates it in `MCRerunScope`). Nothing
  in the code makes it so, and `scope_shared_stem` refutes the property without it.
  `ItemsInv` says that the items listed are the trials meant, each under its own case and
  batch, as long as no case directory went away, and that the rerun batches are made of
  them.

`HarborYamlProofs` assumes `YamlAssumption` (what a request is made of, that the root
directory is no source) and `NumbersAssumption` (names that differ in their number
differ: the provers know nothing of the characters of a string).

* `PathsInvariant`: `PathsInv`, what each phase leaves for the next. Every bind source
  looked at is an asset, assets differ in name and source (a free number is always found:
  there are more numbers than names taken), the tasks of the plan are there, the YAML is
  the one of the batch, the copies are of its cases and all assets.
* `TasksFound`: `TasksAreThere`, if nothing that is rewritten lies above or below the
  sync root (`Clear`) and a rerun's cases are entries of its YAML (`FromEntries`).
* `BindsFound`: `BindsAreThere`, if bind sources are spelled as they are resolved
  (`AsResolved`; `yaml_spelled` refutes the other spellings).
* `RefsFound`: `RefsFollow`, if no bind source is strictly above the dataset or, for a
  list of tasks, its first entry (`NoneAbove`).

`PathsInv` leaves the theorems to lemmas about paths: the longest prefix that fits is
unique and a rewritten path is that prefix's copy with the rest behind it (`RewriteIs`,
`BelowIs`); the places of cases and assets under the sync root are never in one another
(`SlotsDiffer`), so that following a path back on the worker meets exactly one copy
(`ContentAt`). Where a hypothesis fails TLC finds the property violated; the last
paragraph of the findings says at which lines. (`Word` is in the proofs only because the
provers do not know that a string they are shown is in `STRING`.)

Model-checked only:

* Liveness (`EveryQueuedBatchFinishes`, `SyncSettles`, `EveryRerunEnds`,
  `EveryJobEnds`): fairness and `ENABLED` are out of the prover's reach.
* `FinalIsWhole`: a rerun's job is built in turn by its start, by each of its batches' two
  handlers and by the viewer, and TLC checks it in two loads of `jobs_merges`.
* `NoCaseTwice` and `ViewRepairs` of calls that overlap: TLC checks the loads of
  `jobs_merges`, the theorems are for calls one at a time.
* The types of `TaskCreation`, `HarborYaml` and `RerunScope`, beyond what their invariants
  need.

## Plan

1. Composition of the queue with the sync and the rerun, with the queue's faults.
2. The summing of a run's cases over batches and reruns (`_task_detail_case_summary` of
   `storage/store.py`) against a reference definition.
3. Theorems: `FinalIsWhole` when calls come one at a time; `NoCaseIsTwice` for calls
   that overlap but write different job directories.

## Not modelled

`controller/static.py` (HTML and JavaScript), `harbor_viewer.py`, `ssh_config.py`,
`ssh_runner.py` and the scripts other than the two of `HarborJobs` are presentation or
I/O without protocol state. The store's read models and summaries change nothing. The
executor builds a command line and reads files; only its paths are modelled.
`normalizers/harbor_timestamps.py` is a conversion of date strings. The job directories
of a worker on the controller's own disk are not followed.
