------------------------------ MODULE AssetSync ------------------------------
(***************************************************************************)
(* How the assets of one run reach its workers and are removed again       *)
(* (controller/asset_syncer.py, and the handlers of controller/server.py   *)
(* that start it and that clean up).                                       *)
(*                                                                         *)
(* The handler that creates a task makes one batch per worker, in status   *)
(* pending_sync, and starts run_job in a thread.  run_job starts one       *)
(* thread per worker; each copies, publishes the worker's paths in the     *)
(* template, and queues the worker's batch.  When all have ended, run_job  *)
(* records the outcome.  The final heartbeat of a batch, once its run is   *)
(* terminal and the sync has an outcome, deletes what was copied.          *)
(* Every commit to the database is a step; all the threads die with the    *)
(* controller, and nothing restarts them.                                  *)
(***************************************************************************)
EXTENDS Integers, FiniteSets

CONSTANTS
  Workers,      \* the workers of the run, one batch each
  HasBind,      \* the manifest has bindAssets: a YAML task that mounts host files
  MaxFaults     \* bound on restarts of the controller and failures of the creating handler

ASSUME SyncAssumption ==
  /\ Workers # {}
  /\ HasBind \in BOOLEAN
  /\ MaxFaults \in Nat

VARIABLES
  status,      \* batches.status of the worker's batch, "absent" before its INSERT
  syncStatus,  \* runs.sync_status, "none" before it is set
  job,         \* asset_sync_jobs.status, "none" before its INSERT
  steps,       \* asset_sync_jobs.steps_json
  memo,        \* the variable "steps" the threads of run_job share
  errors,      \* the workers in run_job's list "errors"
  main,        \* where the creating handler, then run_job, stands
  thread,      \* where the thread of a worker stands
  paths,       \* the workers in the template's datasetPathByWorker
  files,       \* what is under a worker's targetRoot
  cleaner,     \* where the handler of a batch's final heartbeat stands
  left,        \* the workers that handler has still to clean
  faults       \* restarts and failures so far

rowVars  == <<status, syncStatus, job, steps>>
jobVars  == <<memo, errors, main, thread>>
hostVars == <<paths, files>>
endVars  == <<cleaner, left>>
vars     == <<rowVars, jobVars, hostVars, endVars, faults>>

Terminal == {"succeeded", "failed", "sync_failed"}
Outcome  == {"succeeded", "failed"}
Step     == {"sync_cases"} \cup (IF HasBind THEN {"sync_assets"} ELSE {})
Progress == [Workers -> [Step -> {"pending", "running"} \cup Outcome]]

Creating == {"shard", "job"}
Syncing  == {"begin", "mark", "join", "ending"}
Copying  == {"cases", "assets"}
Trying   == Copying \cup {"publish", "promote"}
Failing  == {"except", "markfailed"}

TypeOK ==
  /\ status \in [Workers -> {"absent", "pending_sync", "queued", "running"} \cup Terminal]
  /\ syncStatus \in {"none", "pending", "running", "cleaning", "cleaned"} \cup Outcome
  /\ job \in {"none", "pending", "running"} \cup Outcome
  /\ steps \in Progress
  /\ memo \in Progress
  /\ errors \subseteq Workers
  /\ main \in Creating \cup Syncing \cup {"done", "lost"}
  /\ thread \in [Workers -> {"none", "start", "done", "lost"} \cup Trying \cup Failing]
  /\ paths \subseteq Workers
  /\ files \in [Workers -> SUBSET {"debris", "cases", "assets"}]
  /\ cleaner \in [Workers -> {"none", "terminal", "status", "begin", "clean"}]
  /\ left \in [Workers -> SUBSET Workers]
  /\ faults \in Nat

InitialSteps == [w \in Workers |-> [s \in Step |-> "pending"]]

Init ==
  /\ status = [w \in Workers |-> "absent"]
  /\ syncStatus = "none"
  /\ job = "none"
  /\ steps = InitialSteps
  /\ memo = InitialSteps
  /\ errors = {}
  /\ main = "shard"
  /\ thread = [w \in Workers |-> "none"]
  /\ paths = {}
  /\ files = [w \in Workers |-> {}]
  /\ cleaner = [w \in Workers |-> "none"]
  /\ left = [w \in Workers |-> {}]
  /\ faults = 0

-----------------------------------------------------------------------------
(* The handler that creates the task.                                       *)

CreateBatch(w) ==
  /\ main = "shard" /\ status[w] = "absent"
  /\ status' = [status EXCEPT ![w] = "pending_sync"]
  /\ UNCHANGED <<syncStatus, job, steps, jobVars, hostVars, endVars, faults>>

SaveManifest ==
  /\ main = "shard" /\ \A w \in Workers : status[w] # "absent"
  /\ syncStatus' = "pending"
  /\ main' = "job"
  /\ UNCHANGED <<status, job, steps, memo, errors, thread, hostVars, endVars, faults>>

CreateAssetSyncJob ==
  /\ main = "job"
  /\ job' = "pending"
  /\ steps' = InitialSteps
  /\ main' = "begin"
  /\ UNCHANGED <<status, syncStatus, memo, errors, thread, hostVars, endVars, faults>>

\* The handler answers 400 and leaves the rows it has written.
CreationFails ==
  /\ main \in Creating /\ faults < MaxFaults
  /\ faults' = faults + 1
  /\ main' = "lost"
  /\ UNCHANGED <<rowVars, memo, errors, thread, hostVars, endVars>>

-----------------------------------------------------------------------------
(* run_job.                                                                 *)

BeginJob ==
  /\ main = "begin"
  /\ job' = "running"
  /\ memo' = InitialSteps
  /\ steps' = InitialSteps
  /\ main' = "mark"
  /\ UNCHANGED <<status, syncStatus, errors, thread, hostVars, endVars, faults>>

StartThreads ==
  /\ main = "mark"
  /\ syncStatus' = "running"
  /\ thread' = [w \in Workers |-> "start"]
  /\ main' = "join"
  /\ UNCHANGED <<status, job, steps, memo, errors, hostVars, endVars, faults>>

Verdict == IF errors = {} THEN "succeeded" ELSE "failed"

\* Mutant: the outcome is recorded without joining the threads.
RecordOutcomeEarly ==
  /\ main = "join"
  /\ syncStatus' = Verdict
  /\ main' = "ending"
  /\ UNCHANGED <<status, job, steps, memo, errors, thread, hostVars, endVars, faults>>

RecordOutcome ==
  /\ main = "join" /\ \A w \in Workers : thread[w] = "done"
  /\ syncStatus' = Verdict
  /\ main' = "ending"
  /\ UNCHANGED <<status, job, steps, memo, errors, thread, hostVars, endVars, faults>>

FinishJob ==
  /\ main = "ending"
  /\ job' = Verdict
  /\ steps' = memo
  /\ main' = "done"
  /\ UNCHANGED <<status, syncStatus, memo, errors, thread, hostVars, endVars, faults>>

-----------------------------------------------------------------------------
(* worker_thread.  A change of the shared steps and its write to the        *)
(* database happen under one lock.                                          *)

Go(w, at) == thread' = [thread EXCEPT ![w] = at]

SetStep(w, s, value) == memo' = [memo EXCEPT ![w][s] = value]

SaveSteps == steps' = memo'

\* Mutant: the thread starts from its own copy of the steps.
BeginCasesOnACopy(w) ==
  /\ thread[w] = "start"
  /\ memo' = [InitialSteps EXCEPT ![w]["sync_cases"] = "running"]
  /\ SaveSteps
  /\ Go(w, "cases")
  /\ UNCHANGED <<status, syncStatus, job, errors, main, hostVars, endVars, faults>>

BeginCases(w) ==
  /\ thread[w] = "start"
  /\ SetStep(w, "sync_cases", "running")
  /\ SaveSteps
  /\ Go(w, "cases")
  /\ UNCHANGED <<status, syncStatus, job, errors, main, hostVars, endVars, faults>>

\* Without assets to copy, the step's success is not written to the database.
CopyCases(w) ==
  /\ thread[w] = "cases"
  /\ files' = [files EXCEPT ![w] = @ \cup {"cases"}]
  /\ IF HasBind
     THEN /\ memo' = [memo EXCEPT ![w]["sync_cases"] = "succeeded",
                                  ![w]["sync_assets"] = "running"]
          /\ SaveSteps
          /\ Go(w, "assets")
     ELSE /\ SetStep(w, "sync_cases", "succeeded")
          /\ UNCHANGED steps
          /\ Go(w, "publish")
  /\ UNCHANGED <<status, syncStatus, job, errors, main, paths, endVars, faults>>

CopyAssets(w) ==
  /\ thread[w] = "assets"
  /\ files' = [files EXCEPT ![w] = @ \cup {"assets"}]
  /\ SetStep(w, "sync_assets", "succeeded")
  /\ SaveSteps
  /\ Go(w, "publish")
  /\ UNCHANGED <<status, syncStatus, job, errors, main, paths, endVars, faults>>

PublishPaths(w) ==
  /\ thread[w] = "publish"
  /\ paths' = paths \cup {w}
  /\ Go(w, "promote")
  /\ UNCHANGED <<rowVars, memo, errors, main, files, endVars, faults>>

\* UPDATE ... WHERE status = 'pending_sync'
Resolve(w, s) ==
  status' = IF status[w] = "pending_sync" THEN [status EXCEPT ![w] = s] ELSE status

\* Mutant: the batch is queued before the paths are published.
PromoteFirst(w) ==
  /\ thread[w] \in {"publish", "promote"}
  /\ Resolve(w, "queued")
  /\ Go(w, IF thread[w] = "publish" THEN "publish" ELSE "done")
  /\ UNCHANGED <<syncStatus, job, steps, memo, errors, main, hostVars, endVars, faults>>

Promote(w) ==
  /\ thread[w] = "promote"
  /\ Resolve(w, "queued")
  /\ Go(w, "done")
  /\ UNCHANGED <<syncStatus, job, steps, memo, errors, main, hostVars, endVars, faults>>

\* A copy, the publication or the promotion raises; a copy leaves a rest.  The
\* writes of the job's own row are taken to succeed.
StepFails(w) ==
  /\ thread[w] \in Trying
  /\ files' = IF thread[w] \in Copying THEN [files EXCEPT ![w] = @ \cup {"debris"}] ELSE files
  /\ Go(w, "except")
  /\ UNCHANGED <<rowVars, memo, errors, main, paths, endVars, faults>>

\* Mutant: a failed thread ends without resolving its batch.
RecordFailureOnly(w) ==
  /\ thread[w] = "except"
  /\ memo' = [memo EXCEPT ![w] = [s \in Step |-> "failed"]]
  /\ SaveSteps
  /\ Go(w, "done")
  /\ UNCHANGED <<status, syncStatus, job, errors, main, hostVars, endVars, faults>>

RecordFailure(w) ==
  /\ thread[w] = "except"
  /\ memo' = [memo EXCEPT ![w] = [s \in Step |-> "failed"]]
  /\ SaveSteps
  /\ Go(w, "markfailed")
  /\ UNCHANGED <<status, syncStatus, job, errors, main, hostVars, endVars, faults>>

\* Mutant: the worker is not entered in the list of errors.
MarkFailedUnlisted(w) ==
  /\ thread[w] = "markfailed"
  /\ Resolve(w, "sync_failed")
  /\ Go(w, "done")
  /\ UNCHANGED <<syncStatus, job, steps, memo, errors, main, hostVars, endVars, faults>>

MarkFailed(w) ==
  /\ thread[w] = "markfailed"
  /\ Resolve(w, "sync_failed")
  /\ errors' = errors \cup {w}
  /\ Go(w, "done")
  /\ UNCHANGED <<syncStatus, job, steps, memo, main, hostVars, endVars, faults>>

-----------------------------------------------------------------------------
(* The batch itself, as BatchQueue models it without faults, and the end of *)
(* the handler of its final heartbeat.                                      *)

ClaimBatch(w) ==
  /\ status[w] = "queued"
  /\ status' = [status EXCEPT ![w] = "running"]
  /\ UNCHANGED <<syncStatus, job, steps, jobVars, hostVars, endVars, faults>>

FinishBatch(w) ==
  /\ status[w] = "running"
  /\ \E s \in Outcome : status' = [status EXCEPT ![w] = s]
  /\ cleaner' = [cleaner EXCEPT ![w] = "terminal"]
  /\ UNCHANGED <<syncStatus, job, steps, jobVars, hostVars, left, faults>>

RunTerminal == \A w \in Workers : status[w] \in Terminal

\* Mutant: the run's batches are not looked at.
CheckNothing(w) ==
  /\ cleaner[w] = "terminal"
  /\ cleaner' = [cleaner EXCEPT ![w] = "status"]
  /\ UNCHANGED <<rowVars, jobVars, hostVars, left, faults>>

CheckTerminal(w) ==
  /\ cleaner[w] = "terminal"
  /\ cleaner' = [cleaner EXCEPT ![w] = IF RunTerminal THEN "status" ELSE "none"]
  /\ UNCHANGED <<rowVars, jobVars, hostVars, left, faults>>

CheckSyncStatus(w) ==
  /\ cleaner[w] = "status"
  /\ cleaner' = [cleaner EXCEPT ![w] = IF syncStatus \in Outcome THEN "begin" ELSE "none"]
  /\ UNCHANGED <<rowVars, jobVars, hostVars, left, faults>>

BeginCleanup(w) ==
  /\ cleaner[w] = "begin"
  /\ syncStatus' = "cleaning"
  /\ cleaner' = [cleaner EXCEPT ![w] = "clean"]
  /\ left' = [left EXCEPT ![w] = Workers]
  /\ UNCHANGED <<status, job, steps, jobVars, hostVars, faults>>

\* Deleting may fail half-way, which is only logged.
CleanWorker(w, v) ==
  /\ cleaner[w] = "clean" /\ v \in left[w]
  /\ left' = [left EXCEPT ![w] = @ \ {v}]
  /\ \E rest \in SUBSET files[v] : files' = [files EXCEPT ![v] = rest]
  /\ UNCHANGED <<rowVars, jobVars, paths, cleaner, faults>>

EndCleanup(w) ==
  /\ cleaner[w] = "clean" /\ left[w] = {}
  /\ syncStatus' = "cleaned"
  /\ cleaner' = [cleaner EXCEPT ![w] = "none"]
  /\ UNCHANGED <<status, job, steps, jobVars, hostVars, left, faults>>

-----------------------------------------------------------------------------
\* The controller is stopped and started: its threads are gone.
Restart ==
  /\ faults < MaxFaults
  /\ faults' = faults + 1
  /\ main' = IF main = "done" THEN main ELSE "lost"
  /\ thread' = [w \in Workers |-> IF thread[w] = "done" THEN "done" ELSE "lost"]
  /\ cleaner' = [w \in Workers |-> "none"]
  /\ left' = [w \in Workers |-> {}]
  /\ UNCHANGED <<rowVars, memo, errors, hostVars>>

Main ==
  \/ \E w \in Workers : CreateBatch(w)
  \/ SaveManifest \/ CreateAssetSyncJob
  \/ BeginJob \/ StartThreads \/ RecordOutcome \/ FinishJob

Thread(w) ==
  \/ BeginCases(w) \/ CopyCases(w) \/ CopyAssets(w) \/ PublishPaths(w) \/ Promote(w)
  \/ StepFails(w) \/ RecordFailure(w) \/ MarkFailed(w)

Batch(w) == ClaimBatch(w) \/ FinishBatch(w)

Cleaner(w) ==
  \/ CheckTerminal(w) \/ CheckSyncStatus(w) \/ BeginCleanup(w) \/ EndCleanup(w)
  \/ \E v \in Workers : CleanWorker(w, v)

Next == Main \/ CreationFails \/ Restart \/ \E w \in Workers : Thread(w) \/ Batch(w) \/ Cleaner(w)

Spec == Init /\ [][Next]_vars

\* The threads of the controller run, daemons claim and executors end.
Fairness ==
  /\ WF_vars(Main)
  /\ \A w \in Workers : WF_vars(Thread(w)) /\ WF_vars(Batch(w)) /\ WF_vars(Cleaner(w))

FairSpec == Spec /\ Fairness

-----------------------------------------------------------------------------
(* Properties.                                                              *)

\* What run_job copies for a batch.
Copied == {"cases"} \cup (IF HasBind THEN {"assets"} ELSE {})

InPlace(w) == Copied \subseteq files[w] /\ w \in paths

\* A thread that runs has its batch waiting, and one that has ended has resolved
\* it; run_job stands where its threads let it.
StagesAgree ==
  /\ \A w \in Workers :
       /\ thread[w] = "none" => status[w] \in {"absent", "pending_sync"}
       /\ thread[w] \in {"start"} \cup Trying \cup Failing =>
            status[w] = "pending_sync" /\ main = "join"
       /\ thread[w] = "done" => status[w] \notin {"absent", "pending_sync"}
  /\ main \in Creating \cup {"begin", "mark"} => \A w \in Workers : thread[w] = "none"
  /\ main \in {"job", "begin", "mark"} => \A w \in Workers : status[w] # "absent"
  /\ main \in {"ending", "done"} => \A w \in Workers : thread[w] = "done"

\* What is copied stays there while the batch may need it.
FilesStay ==
  /\ \A w \in Workers :
       /\ thread[w] = "assets" => "cases" \in files[w]
       /\ thread[w] = "publish" => Copied \subseteq files[w]
       /\ thread[w] = "promote" => InPlace(w)
       /\ status[w] \in {"queued", "running"} => InPlace(w)
       /\ cleaner[w] \in {"status", "begin", "clean"} => RunTerminal
  /\ syncStatus = "cleaning" => RunTerminal

\* The list of errors and the job's row against the batches.
LedgerAgrees ==
  /\ \A w \in Workers :
       /\ status[w] = "sync_failed" <=> w \in errors
       /\ status[w] \notin {"absent", "pending_sync"} => job \in {"running"} \cup Outcome
  /\ main \in Creating \cup {"begin"} => job \in {"none", "pending"}
  /\ main \in {"mark", "join", "ending"} => job = "running"
  /\ main = "done" => job = Verdict
  /\ job \in Outcome => main = "done"

\* The steps shown are those the threads share, or one success behind them.
StepsFollow ==
  /\ main \in {"mark", "join", "ending"} =>
       \A w \in Workers, s \in Step :
         steps[w][s] = memo[w][s] \/ (steps[w][s] = "running" /\ memo[w][s] = "succeeded")
  /\ main = "mark" => memo = InitialSteps
  /\ \A w \in Workers :
       /\ thread[w] = "start" => \A s \in Step : memo[w][s] = "pending"
       /\ thread[w] = "cases" => /\ memo[w]["sync_cases"] = "running"
                                 /\ HasBind => memo[w]["sync_assets"] = "pending"
       /\ thread[w] = "assets" => /\ HasBind
                                  /\ memo[w]["sync_cases"] = "succeeded"
                                  /\ memo[w]["sync_assets"] = "running"

\* The inductive invariant: batches, threads, files, job and steps agree at every
\* step of every thread, whenever the controller stops.
SyncInv == StagesAgree /\ FilesStay /\ LedgerAgrees /\ StepsFollow

\* A batch a worker may claim or is running finds its files copied and its
\* paths published: promotion is the last thing a thread does, and a clean-up
\* by the heartbeat of another batch never takes files still in use.
RunnableHasFiles ==
  \A w \in Workers : status[w] \in {"queued", "running"} => InPlace(w)

\* The outcome of the job tells what became of the batches, also when the
\* controller has been restarted since.
OutcomeIsTrue ==
  /\ job = "succeeded" => \A w \in Workers : status[w] \notin {"absent", "pending_sync", "sync_failed"}
  /\ job = "failed" => /\ \A w \in Workers : status[w] \notin {"absent", "pending_sync"}
                       /\ \E w \in Workers : status[w] = "sync_failed"

\* The steps the dashboard shows never go back, whatever threads write them:
\* a failed step stays failed and an ended one is not shown as running again.
StepsNeverGoBack ==
  [][\A w \in Workers, s \in Step :
       job = "running" =>
         /\ steps[w][s] = "failed" => steps'[w][s] = "failed"
         /\ steps[w][s] = "succeeded" => steps'[w][s] \in Outcome
         /\ steps[w][s] = "running" => steps'[w][s] # "pending"]_vars

\* A run is cleaned when it is terminal and its sync is over, even when several
\* handlers clean at the same time.
CleansOnlyWhenOver ==
  [][syncStatus' = "cleaning" => RunTerminal /\ job \in {"running"} \cup Outcome
                                 /\ \A w \in Workers : thread[w] \in {"done", "lost"}]_vars

\* Every batch leaves pending_sync and the job ends, whatever copies fail: only a
\* restart or a failing creation leaves them as they are.
SyncSettles ==
  /\ <>(job \in Outcome \/ main = "lost")
  /\ \A w \in Workers : status[w] = "pending_sync" ~> status[w] # "pending_sync" \/ main = "lost"

\* 2026-05-24-task-asset-sync-design.md: when the run reaches a terminal state
\* the target directories are deleted.  Refuted: clean-up hangs on a heartbeat.
TerminalRunIsCleaned == RunTerminal ~> syncStatus = "cleaned"

\* constitution.md: after a restart, what is observed comes from the persistent
\* state.  Refuted: a job shown as running that no thread runs.
ShownRunningRuns == job = "running" => main # "lost"
=============================================================================
