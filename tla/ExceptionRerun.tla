--------------------------- MODULE ExceptionRerun ---------------------------
(***************************************************************************)
(* The rerun of a run's exception cases                                    *)
(* (controller/run_rerun_coordinator.py start_rerun, asset_syncer.py       *)
(* sync_rerun_job, server.py _apply_exception_rerun_merge and the rerun    *)
(* half of storage/store.py).                                              *)
(*                                                                         *)
(* A request reads the exception cases of a source run and, under the      *)
(* coordinator's lock, makes a derived run; after the lock it copies the   *)
(* source's jobs, clones its primary batches with their cases, makes one   *)
(* rerun batch per worker that holds a case, and starts the sync thread.   *)
(* The handlers of a batch's job archive and final heartbeat merge its     *)
(* trials into the clone of the parent batch and, once all rerun batches   *)
(* are terminal, record the outcome; the sync thread writes the same rows. *)
(*                                                                         *)
(* A request names the run it derives, a worker the one primary batch and  *)
(* the one case it has in the source.  Every commit is a step.             *)
(***************************************************************************)
EXTENDS Integers

CONSTANTS
  Original,     \* a finished run, all of whose cases ended in an exception
  Requests,     \* calls of start_rerun, and the runs they derive
  Workers,      \* the workers of the original run
  HasManifest,  \* the derived run has a sync manifest to copy from
  CollectJobs,  \* the daemons upload the job directory before the final heartbeat
  FaultKinds,   \* which of the faults below may happen
  MaxFaults,    \* bound on their number
  None

Runs  == Requests \cup {Original}
Trial == [by : Runs, ok : BOOLEAN]

ASSUME RerunAssumption ==
  /\ Original \notin Requests
  /\ None \notin Requests \cup Trial \cup {Original, "succeeded", "failed"}
  /\ HasManifest \in BOOLEAN
  /\ CollectJobs \in BOOLEAN
  /\ FaultKinds \subseteq {"start", "sync", "paths", "nocases", "timeout", "crash"}
  /\ MaxFaults \in Nat

VARIABLES
  pc,        \* where the request stands in start_rerun
  source,    \* the run it reruns
  scope,     \* the workers with a selected exception case, as it read them
  rstatus,   \* runs.rerun_status, "absent" before the INSERT of the run
  job,       \* run_rerun_jobs.status
  closed,    \* run_rerun_jobs.finished_at is set
  listed,    \* the workers in run_rerun_jobs.rerun_batches_json
  batch,     \* batches.status of the rerun batch of a worker
  rows,      \* case_runs of the primary batch of a worker: how many rows each trial has
  dir,       \* the trial of the worker's case in the run's job directory
  trial,     \* the trial the executor of a rerun batch produced
  sync,      \* where sync_rerun_job stands
  thread,    \* where its thread for a worker stands
  errors,    \* the workers in its list "errors"
  call,      \* where the handlers of a batch's archive and final heartbeat stand
  verdict,   \* the final_status a handler has computed
  faults

startVars == <<pc, source, scope>>
runVars   == <<rstatus, job, closed, listed>>
dataVars  == <<rows, dir, trial>>
syncVars  == <<sync, thread, errors>>
callVars  == <<call, verdict>>
vars      == <<startVars, runVars, batch, dataVars, syncVars, callVars, faults>>

Active   == {"syncing", "running"}
Outcome  == {"succeeded", "failed"}
Terminal == Outcome \cup {"sync_failed"}
Calls    == {"archive", "heartbeat"}

Locked   == {"children", "create", "job", "mark"}
Building == {"job", "mark", "config", "clone", "batches", "launch"}
Merging  == {"merge", "check", "fields", "close", "files"}

TypeOK ==
  /\ pc \in [Requests -> {"idle", "lock", "fail", "failjob", "done", "refused", "lost"}
                           \cup Locked \cup Building]
  /\ source \in [Requests -> Runs \cup {None}]
  /\ scope \in [Requests -> SUBSET Workers]
  /\ rstatus \in [Requests -> {"absent", "idle"} \cup Active \cup Outcome]
  /\ job \in [Requests -> {"none", "pending", "running"} \cup Outcome]
  /\ closed \in [Requests -> BOOLEAN]
  /\ listed \in [Requests -> SUBSET Workers]
  /\ batch \in [Requests -> [Workers -> {"absent", "pending_sync", "queued", "running"} \cup Terminal]]
  /\ rows \in [Runs -> [Workers -> [Trial -> Nat]]]
  /\ dir \in [Runs -> [Workers -> Trial \cup {None}]]
  /\ trial \in [Requests -> [Workers -> Trial \cup {None}]]
  /\ sync \in [Requests -> {"none", "begin", "promote", "join", "fields", "close", "done", "lost"}]
  /\ thread \in [Requests -> [Workers -> {"none", "copy", "promote", "mark", "done", "lost"}]]
  /\ errors \in [Requests -> SUBSET Workers]
  /\ call \in [Requests -> [Workers -> [Calls -> {"none", "update", "done", "lost"} \cup Merging]]]
  /\ verdict \in [Requests -> [Workers -> [Calls -> Outcome \cup {None}]]]
  /\ faults \in Nat

Baseline == [by |-> Original, ok |-> FALSE]
NoRow    == [t \in Trial |-> 0]

Init ==
  /\ pc = [r \in Requests |-> "idle"]
  /\ source = [r \in Requests |-> None]
  /\ scope = [r \in Requests |-> {}]
  /\ rstatus = [r \in Requests |-> "absent"]
  /\ job = [r \in Requests |-> "none"]
  /\ closed = [r \in Requests |-> FALSE]
  /\ listed = [r \in Requests |-> {}]
  /\ batch = [r \in Requests |-> [w \in Workers |-> "absent"]]
  /\ rows = [x \in Runs |-> [w \in Workers |->
               IF x = Original THEN [NoRow EXCEPT ![Baseline] = 1] ELSE NoRow]]
  /\ dir = [x \in Runs |-> [w \in Workers |-> IF x = Original THEN Baseline ELSE None]]
  /\ trial = [r \in Requests |-> [w \in Workers |-> None]]
  /\ sync = [r \in Requests |-> "none"]
  /\ thread = [r \in Requests |-> [w \in Workers |-> "none"]]
  /\ errors = [r \in Requests |-> {}]
  /\ call = [r \in Requests |-> [w \in Workers |-> [k \in Calls |-> "none"]]]
  /\ verdict = [r \in Requests |-> [w \in Workers |-> [k \in Calls |-> None]]]
  /\ faults = 0

Fault(kind) ==
  /\ kind \in FaultKinds /\ faults < MaxFaults
  /\ faults' = faults + 1

-----------------------------------------------------------------------------
(* start_rerun.                                                             *)

\* Its primary batches exist and are terminal: those of a derived run are
\* cloned from a terminal run and never change their status.
PrimaryTerminal(x) == \A w \in Workers : rows[x][w] # NoRow

\* The exception trials in the job directory of the run.
Exceptions(x) == {w \in Workers : dir[x][w] # None /\ ~dir[x][w].ok}

\* Everything read before the lock; without an exception case the answer is 400.
ResolveScope(r, x) ==
  /\ pc[r] = "idle" /\ x # r
  /\ PrimaryTerminal(x) /\ Exceptions(x) # {}
  /\ source' = [source EXCEPT ![r] = x]
  /\ scope' = [scope EXCEPT ![r] = Exceptions(x)]
  /\ pc' = [pc EXCEPT ![r] = "lock"]
  /\ UNCHANGED <<runVars, batch, dataVars, syncVars, callVars, faults>>

InProgress(x) == x \in Requests /\ rstatus[x] \in Active

ActiveDerived(x) == {r \in Requests : source[r] = x /\ rstatus[r] \in Active}

\* Mutant: the lock is not taken.
EnterUnlocked(r) ==
  /\ pc[r] = "lock"
  /\ pc' = [pc EXCEPT ![r] = IF InProgress(source[r]) THEN "refused" ELSE "children"]
  /\ UNCHANGED <<source, scope, runVars, batch, dataVars, syncVars, callVars, faults>>

\* Under _start_lock: the source's own rerun_status, then its derived runs.
Enter(r) ==
  /\ pc[r] = "lock" /\ \A q \in Requests : pc[q] \notin Locked
  /\ pc' = [pc EXCEPT ![r] = IF InProgress(source[r]) THEN "refused" ELSE "children"]
  /\ UNCHANGED <<source, scope, runVars, batch, dataVars, syncVars, callVars, faults>>

CheckDerived(r) ==
  /\ pc[r] = "children"
  /\ pc' = [pc EXCEPT ![r] = IF ActiveDerived(source[r]) # {} THEN "refused" ELSE "create"]
  /\ UNCHANGED <<source, scope, runVars, batch, dataVars, syncVars, callVars, faults>>

CreateRun(r) ==
  /\ pc[r] = "create"
  /\ rstatus' = [rstatus EXCEPT ![r] = "idle"]
  /\ pc' = [pc EXCEPT ![r] = "job"]
  /\ UNCHANGED <<source, scope, job, closed, listed, batch, dataVars, syncVars, callVars, faults>>

CreateRerunJob(r) ==
  /\ pc[r] = "job"
  /\ job' = [job EXCEPT ![r] = "pending"]
  /\ pc' = [pc EXCEPT ![r] = "mark"]
  /\ UNCHANGED <<source, scope, rstatus, closed, listed, batch, dataVars, syncVars, callVars, faults>>

\* The last statement under the lock.
MarkSyncing(r) ==
  /\ pc[r] = "mark"
  /\ rstatus' = [rstatus EXCEPT ![r] = "syncing"]
  /\ pc' = [pc EXCEPT ![r] = "config"]
  /\ UNCHANGED <<source, scope, job, closed, listed, batch, dataVars, syncVars, callVars, faults>>

\* _apply_config or _set_derived_template_jobs_dir, then the copy of the job
\* directory under the derived run's name.
CopyJobs(r) ==
  /\ pc[r] = "config"
  /\ dir' = [dir EXCEPT ![r] = dir[source[r]]]
  /\ pc' = [pc EXCEPT ![r] = "clone"]
  /\ UNCHANGED <<source, scope, runVars, batch, rows, trial, syncVars, callVars, faults>>

ClonePrimaryBatches(r) ==
  /\ pc[r] = "clone"
  /\ rows' = [rows EXCEPT ![r] = rows[source[r]]]
  /\ pc' = [pc EXCEPT ![r] = "batches"]
  /\ UNCHANGED <<source, scope, runVars, batch, dir, trial, syncVars, callVars, faults>>

CreateRerunBatch(r, w) ==
  /\ pc[r] = "batches" /\ w \in scope[r] /\ batch[r][w] = "absent"
  /\ batch' = [batch EXCEPT ![r][w] = "pending_sync"]
  /\ UNCHANGED <<startVars, runVars, dataVars, syncVars, callVars, faults>>

\* The YAML configuration, if there is one, and the list of the rerun batches.
ListBatches(r) ==
  /\ pc[r] = "batches" /\ \A w \in scope[r] : batch[r][w] # "absent"
  /\ listed' = [listed EXCEPT ![r] = scope[r]]
  /\ pc' = [pc EXCEPT ![r] = "launch"]
  /\ UNCHANGED <<source, scope, rstatus, job, closed, batch, dataVars, syncVars, callVars, faults>>

Launch(r) ==
  /\ pc[r] = "launch"
  /\ sync' = [sync EXCEPT ![r] = "begin"]
  /\ pc' = [pc EXCEPT ![r] = "done"]
  /\ UNCHANGED <<source, scope, runVars, batch, dataVars, thread, errors, callVars, faults>>

\* An exception after the derived run has been made, which under the lock releases
\* it: _mark_derived_rerun_failed, for the run and for the job if it is there by then.
BuildFails(r) ==
  /\ pc[r] \in Building /\ Fault("start")
  /\ pc' = [pc EXCEPT ![r] = "fail"]
  /\ UNCHANGED <<source, scope, runVars, batch, dataVars, syncVars, callVars>>

FailRun(r) ==
  /\ pc[r] = "fail"
  /\ rstatus' = [rstatus EXCEPT ![r] = "failed"]
  /\ pc' = [pc EXCEPT ![r] = "failjob"]
  /\ UNCHANGED <<source, scope, job, closed, listed, batch, dataVars, syncVars, callVars, faults>>

FailJob(r) ==
  /\ pc[r] = "failjob"
  /\ job' = [job EXCEPT ![r] = IF @ = "none" THEN "none" ELSE "failed"]
  /\ closed' = [closed EXCEPT ![r] = @ \/ job[r] # "none"]
  /\ pc' = [pc EXCEPT ![r] = "refused"]
  /\ UNCHANGED <<source, scope, rstatus, listed, batch, dataVars, syncVars, callVars, faults>>

-----------------------------------------------------------------------------
(* sync_rerun_job.                                                          *)

BeginSync(r) ==
  /\ sync[r] = "begin"
  /\ job' = [job EXCEPT ![r] = "running"]
  /\ \/ /\ HasManifest
        /\ sync' = [sync EXCEPT ![r] = "join"]
        /\ thread' = [thread EXCEPT ![r] = [w \in Workers |-> IF w \in scope[r] THEN "copy" ELSE "none"]]
     \/ /\ ~HasManifest
        /\ sync' = [sync EXCEPT ![r] = "promote"]
        /\ UNCHANGED thread
  /\ UNCHANGED <<startVars, rstatus, closed, listed, batch, dataVars, errors, callVars, faults>>

\* Without a manifest, the first worker for which the template has no dataset
\* path ends the sync; no batch is touched.
PathsMissing(r, w) ==
  /\ sync[r] = "promote" /\ \A v \in scope[r] : batch[r][v] = "pending_sync"
  /\ w \in scope[r] /\ Fault("paths")
  /\ errors' = [errors EXCEPT ![r] = {w}]
  /\ sync' = [sync EXCEPT ![r] = "fields"]
  /\ UNCHANGED <<startVars, runVars, batch, dataVars, thread, callVars>>

\* Without a manifest, nothing is copied.
PromoteAtOnce(r, w) ==
  /\ sync[r] = "promote" /\ batch[r][w] = "pending_sync"
  /\ batch' = [batch EXCEPT ![r][w] = "queued"]
  /\ UNCHANGED <<startVars, runVars, dataVars, syncVars, callVars, faults>>

AllPromoted(r) ==
  /\ sync[r] = "promote" /\ \A w \in Workers : batch[r][w] # "pending_sync"
  /\ sync' = [sync EXCEPT ![r] = "fields"]
  /\ UNCHANGED <<startVars, runVars, batch, dataVars, thread, errors, callVars, faults>>

\* Cases, assets, and the paths published in the derived run's template.
CopyToWorker(r, w) ==
  /\ thread[r][w] = "copy"
  /\ thread' = [thread EXCEPT ![r][w] = "promote"]
  /\ UNCHANGED <<startVars, runVars, batch, dataVars, sync, errors, callVars, faults>>

Promote(r, w) ==
  /\ thread[r][w] = "promote"
  /\ batch' = [batch EXCEPT ![r][w] = "queued"]
  /\ thread' = [thread EXCEPT ![r][w] = "done"]
  /\ UNCHANGED <<startVars, runVars, dataVars, sync, errors, callVars, faults>>

CopyFails(r, w) ==
  /\ thread[r][w] \in {"copy", "promote"} /\ Fault("sync")
  /\ thread' = [thread EXCEPT ![r][w] = "mark"]
  /\ UNCHANGED <<startVars, runVars, batch, dataVars, sync, errors, callVars>>

MarkSyncFailed(r, w) ==
  /\ thread[r][w] = "mark"
  /\ batch' = [batch EXCEPT ![r][w] = "sync_failed"]
  /\ errors' = [errors EXCEPT ![r] = @ \cup {w}]
  /\ thread' = [thread EXCEPT ![r][w] = "done"]
  /\ UNCHANGED <<startVars, runVars, dataVars, sync, callVars, faults>>

Join(r) ==
  /\ sync[r] = "join" /\ \A w \in scope[r] : thread[r][w] = "done"
  /\ sync' = [sync EXCEPT ![r] = "fields"]
  /\ UNCHANGED <<startVars, runVars, batch, dataVars, thread, errors, callVars, faults>>

\* _finish_rerun_sync_success or _failure: the run, then the job.
WriteSyncStatus(r) ==
  /\ sync[r] = "fields"
  /\ rstatus' = [rstatus EXCEPT ![r] = IF errors[r] = {} THEN "running" ELSE "failed"]
  /\ sync' = [sync EXCEPT ![r] = "close"]
  /\ UNCHANGED <<startVars, job, closed, listed, batch, dataVars, thread, errors, callVars, faults>>

WriteSyncJob(r) ==
  /\ sync[r] = "close"
  /\ job' = [job EXCEPT ![r] = IF errors[r] = {} THEN "running" ELSE "failed"]
  /\ closed' = [closed EXCEPT ![r] = @ \/ errors[r] # {}]
  /\ sync' = [sync EXCEPT ![r] = "done"]
  /\ UNCHANGED <<startVars, rstatus, listed, batch, dataVars, thread, errors, callVars, faults>>

-----------------------------------------------------------------------------
(* Daemons and executors.                                                   *)

Claim(r, w) ==
  /\ batch[r][w] = "queued"
  /\ batch' = [batch EXCEPT ![r][w] = "running"]
  /\ UNCHANGED <<startVars, runVars, dataVars, syncVars, callVars, faults>>

\* The executor has run the case again; the daemon uploads the job directory if
\* it is told to.
ExecutorEnds(r, w) ==
  /\ batch[r][w] = "running" /\ call[r][w] = [k \in Calls |-> "none"]
  /\ \E ok \in BOOLEAN : trial' = [trial EXCEPT ![r][w] = [by |-> r, ok |-> ok]]
  /\ call' = [call EXCEPT ![r][w]["archive"] = IF CollectJobs THEN "merge" ELSE "done"]
  /\ UNCHANGED <<startVars, runVars, batch, rows, dir, syncVars, verdict, faults>>

\* No job directory, a refusal to start, a failure of prepare: the final
\* heartbeat comes without cases.
EndsWithoutCases(r, w) ==
  /\ batch[r][w] = "running" /\ call[r][w] = [k \in Calls |-> "none"] /\ Fault("nocases")
  /\ call' = [call EXCEPT ![r][w]["heartbeat"] = "update"]
  /\ UNCHANGED <<startVars, runVars, batch, dataVars, syncVars, verdict>>

SendHeartbeat(r, w) ==
  /\ call' = [call EXCEPT ![r][w]["heartbeat"] = "update"]
  /\ UNCHANGED <<startVars, runVars, batch, dataVars, syncVars, verdict>>

\* The daemon posts the final heartbeat when the upload is answered or refused.
Answered(r, w) ==
  /\ call[r][w]["archive"] \in {"done", "lost"} /\ call[r][w]["heartbeat"] = "none"
  /\ SendHeartbeat(r, w)
  /\ UNCHANGED faults

\* The upload times out: its handler is still at work when the heartbeat comes.
TimesOut(r, w) ==
  /\ call[r][w]["archive"] \in Merging /\ call[r][w]["heartbeat"] = "none" /\ Fault("timeout")
  /\ SendHeartbeat(r, w)

-----------------------------------------------------------------------------
(* The handlers of /api/workers/job-archive and /api/workers/heartbeat.     *)

UpdateProgress(r, w) ==
  /\ call[r][w]["heartbeat"] = "update"
  /\ \E s \in Outcome : /\ batch' = [batch EXCEPT ![r][w] = s]
                        /\ trial[r][w] = None => s = "failed"
  /\ call' = [call EXCEPT ![r][w]["heartbeat"] = IF trial[r][w] = None THEN "done" ELSE "merge"]
  /\ UNCHANGED <<startVars, runVars, dataVars, syncVars, verdict, faults>>

\* _trial_merge_key: the directory of the trial, which each execution names anew.
MergeKey(t) == t.by

\* Mutant: the merge inserts without deleting the rows of the same key.
MergedTwice(row, t) == [row EXCEPT ![t] = @ + 1]

\* Mutant: every other row of the batch is deleted too.
MergedAlone(row, t) == [NoRow EXCEPT ![t] = 1]

\* The kept rows and the new one.
Merged(row, t) ==
  [x \in Trial |-> IF MergeKey(x) # MergeKey(t) THEN row[x] ELSE IF x = t THEN 1 ELSE 0]

\* Mutant: the merge goes to the batch of the source run, not to its clone.
MergeIntoSource(r, w, k) ==
  /\ call[r][w][k] = "merge"
  /\ rows' = [rows EXCEPT ![source[r]][w] = Merged(@, trial[r][w])]
  /\ call' = [call EXCEPT ![r][w][k] = "check"]
  /\ UNCHANGED <<startVars, runVars, batch, dir, trial, syncVars, verdict, faults>>

\* merge_rerun_cases_into_parent, one transaction.
Merge(r, w, k) ==
  /\ call[r][w][k] = "merge"
  /\ rows' = [rows EXCEPT ![r][w] = Merged(@, trial[r][w])]
  /\ call' = [call EXCEPT ![r][w][k] = "check"]
  /\ UNCHANGED <<startVars, runVars, batch, dir, trial, syncVars, verdict, faults>>

\* Mutant: a batch whose copy failed does not count as failed.
FinalStatusIgnoringSync(r) == IF \E w \in listed[r] : batch[r][w] = "failed" THEN "failed" ELSE "succeeded"

\* Mutant: only a failed copy makes a rerun fail.
FinalStatusOfSync(r) == IF \E w \in listed[r] : batch[r][w] = "sync_failed" THEN "failed" ELSE "succeeded"

FinalStatus(r) == IF \E w \in listed[r] : batch[r][w] # "succeeded" THEN "failed" ELSE "succeeded"

AllTerminal(r) == \A w \in listed[r] : batch[r][w] \in Terminal

\* Mutant: the handler stops after the merge.
CheckCompleteNever(r, w, k) ==
  /\ call[r][w][k] = "check"
  /\ call' = [call EXCEPT ![r][w][k] = "files"]
  /\ UNCHANGED <<verdict, startVars, runVars, batch, dataVars, syncVars, faults>>

\* finish_rerun_batch_if_complete reads the batches one by one; a terminal one
\* stays so, so that what it concludes holds when it reads the last one.
CheckComplete(r, w, k) ==
  /\ call[r][w][k] = "check"
  /\ \/ /\ AllTerminal(r)
        /\ verdict' = [verdict EXCEPT ![r][w][k] = FinalStatus(r)]
        /\ call' = [call EXCEPT ![r][w][k] = "fields"]
     \/ /\ ~AllTerminal(r)
        /\ call' = [call EXCEPT ![r][w][k] = "files"]
        /\ UNCHANGED verdict
  /\ UNCHANGED <<startVars, runVars, batch, dataVars, syncVars, faults>>

WriteOutcome(r, w, k) ==
  /\ call[r][w][k] = "fields"
  /\ rstatus' = [rstatus EXCEPT ![r] = verdict[r][w][k]]
  /\ call' = [call EXCEPT ![r][w][k] = "close"]
  /\ UNCHANGED <<startVars, job, closed, listed, batch, dataVars, syncVars, verdict, faults>>

CloseJob(r, w, k) ==
  /\ call[r][w][k] = "close"
  /\ job' = [job EXCEPT ![r] = verdict[r][w][k]]
  /\ closed' = [closed EXCEPT ![r] = TRUE]
  /\ call' = [call EXCEPT ![r][w][k] = "files"]
  /\ UNCHANGED <<startVars, rstatus, listed, batch, dataVars, syncVars, verdict, faults>>

\* copy_trial_dirs into the job directory of the run, in place of its old trial.
CopyTrials(r, w, k) ==
  /\ call[r][w][k] = "files"
  /\ dir' = [dir EXCEPT ![r][w] = trial[r][w]]
  /\ call' = [call EXCEPT ![r][w][k] = "done"]
  /\ UNCHANGED <<startVars, runVars, batch, rows, trial, syncVars, verdict, faults>>

\* The controller stops: requests, syncs and handlers are gone, the lock is free.
Restart ==
  /\ Fault("crash")
  /\ pc' = [r \in Requests |-> IF pc[r] \in {"idle", "done", "refused"} THEN pc[r] ELSE "lost"]
  /\ sync' = [r \in Requests |-> IF sync[r] \in {"none", "done"} THEN sync[r] ELSE "lost"]
  /\ thread' = [r \in Requests |-> [w \in Workers |->
       IF thread[r][w] \in {"none", "done"} THEN thread[r][w] ELSE "lost"]]
  /\ call' = [r \in Requests |-> [w \in Workers |-> [k \in Calls |->
       IF call[r][w][k] \in {"none", "done"} THEN call[r][w][k] ELSE "lost"]]]
  /\ UNCHANGED <<source, scope, runVars, batch, dataVars, errors, verdict>>

-----------------------------------------------------------------------------
Start(r) ==
  \/ Enter(r) \/ CheckDerived(r) \/ CreateRun(r) \/ CreateRerunJob(r) \/ MarkSyncing(r)
  \/ CopyJobs(r) \/ ClonePrimaryBatches(r) \/ (\E w \in Workers : CreateRerunBatch(r, w))
  \/ ListBatches(r) \/ Launch(r) \/ FailRun(r) \/ FailJob(r)

SyncJob(r) ==
  \/ BeginSync(r) \/ AllPromoted(r) \/ Join(r) \/ WriteSyncStatus(r) \/ WriteSyncJob(r)
  \/ \E w \in Workers : PromoteAtOnce(r, w)

Thread(r, w) == CopyToWorker(r, w) \/ Promote(r, w) \/ MarkSyncFailed(r, w)

Daemon(r, w) == Claim(r, w) \/ ExecutorEnds(r, w) \/ Answered(r, w)

Handler(r, w) ==
  \/ UpdateProgress(r, w)
  \/ \E k \in Calls : \/ Merge(r, w, k) \/ CheckComplete(r, w, k) \/ WriteOutcome(r, w, k)
                      \/ CloseJob(r, w, k) \/ CopyTrials(r, w, k)

Faulty ==
  \/ Restart
  \/ \E r \in Requests : BuildFails(r)
  \/ \E r \in Requests, w \in Workers :
       PathsMissing(r, w) \/ CopyFails(r, w) \/ EndsWithoutCases(r, w) \/ TimesOut(r, w)

Next ==
  \/ \E r \in Requests, x \in Runs : ResolveScope(r, x)
  \/ \E r \in Requests : Start(r) \/ SyncJob(r)
  \/ \E r \in Requests, w \in Workers : Thread(r, w) \/ Daemon(r, w) \/ Handler(r, w)
  \/ Faulty

Spec == Init /\ [][Next]_vars

\* Threads and handlers of the controller run, daemons claim, executors end.
Fairness ==
  \A r \in Requests :
    /\ WF_vars(Start(r)) /\ WF_vars(SyncJob(r))
    /\ \A w \in Workers : WF_vars(Thread(r, w)) /\ WF_vars(Daemon(r, w)) /\ WF_vars(Handler(r, w))

FairSpec == Spec /\ Fairness

-----------------------------------------------------------------------------
(* Properties.                                                              *)

Succeeded(r) ==
  /\ scope[r] # {} /\ listed[r] = scope[r]
  /\ \A w \in scope[r] : batch[r][w] = "succeeded"

\* Its primary batches are not cloned yet.
Unbuilt == {"idle", "lock", "config", "clone"} \cup Locked

\* A request has what it has built so far, and the lock keeps others out.
BuildAgrees ==
  /\ \A r \in Requests :
       /\ pc[r] \in {"idle", "lock", "children", "create"} => rstatus[r] = "absent" /\ job[r] = "none"
       /\ pc[r] = "idle" => scope[r] = {} /\ rows[r] = [w \in Workers |-> NoRow]
       /\ pc[r] # "idle" => scope[r] # {} /\ source[r] \in Runs
       /\ pc[r] \in Unbuilt => \A w \in Workers : batch[r][w] = "absent"
       /\ pc[r] # "done" => sync[r] = "none"
       /\ pc[r] = "batches" => \A w \in Workers : batch[r][w] \in {"absent", "pending_sync"}
       /\ pc[r] \in {"launch", "done"} => listed[r] = scope[r]
  /\ \A q, r \in Requests :
       /\ pc[q] \in Locked /\ pc[r] \in Locked => q = r
       /\ pc[r] \in Locked \ {"children"} /\ source[q] = source[r] => rstatus[q] # "syncing"

\* A batch moves only under its sync, its daemon and its handlers, in that order.
BatchAgrees ==
  \A r \in Requests, w \in Workers :
    /\ sync[r] \in {"none", "begin"} => batch[r][w] \in {"absent", "pending_sync"}
    /\ sync[r] \in {"none", "begin", "promote"} => thread[r][w] = "none"
    /\ thread[r][w] \in {"copy", "promote", "mark"} => batch[r][w] \in {"absent", "pending_sync"}
    /\ batch[r][w] \notin {"absent", "pending_sync"} => listed[r] = scope[r]
    /\ call[r][w]["heartbeat"] = "update" => batch[r][w] = "running"
    /\ call[r][w]["heartbeat"] = "none" /\ call[r][w]["archive"] # "none" => batch[r][w] = "running"
    /\ \A k \in Calls :
         /\ call[r][w][k] # "none" => batch[r][w] \in {"running"} \cup Outcome
         /\ call[r][w][k] \in Merging => trial[r][w] \in Trial
         /\ call[r][w][k] \in {"fields", "close"} => verdict[r][w][k] \in Outcome
         /\ verdict[r][w][k] = "succeeded" => Succeeded(r)

\* The start lock: no two reruns of one run are being built or copied at the
\* same time, in whatever order requests, syncs and restarts interleave.
OneSyncing ==
  \A q, r \in Requests :
    source[q] = source[r] /\ rstatus[q] = "syncing" /\ rstatus[r] = "syncing" => q = r

\* An outcome that says succeeded is true: every rerun batch has succeeded.
SucceededIsTrue ==
  \A r \in Requests : "succeeded" \in {rstatus[r], job[r]} => Succeeded(r)

\* Nothing of a rerun is anywhere before its primary batches are cloned; later its
\* clone has no trial of its own but the one that a handler has merged.
MergeAgrees ==
  /\ \A r \in Requests : pc[r] \in Unbuilt =>
       /\ rows[r] = [w \in Workers |-> NoRow]
       /\ \A x \in Runs, w \in Workers : \A t \in Trial : t.by = r => rows[x][w][t] = 0
  /\ \A r \in Requests, w \in Workers :
       /\ trial[r][w] # None => trial[r][w].by = r
       /\ \A t \in Trial : t.by = r /\ rows[r][w][t] > 0 =>
            t = trial[r][w] /\ \E k \in Calls : call[r][w][k] # "none"

\* The inductive invariant.
RerunInv == BuildAgrees /\ BatchAgrees /\ OneSyncing /\ SucceededIsTrue /\ MergeAgrees

\* Though archive and heartbeat merge the same trials, and at the same time
\* after a time-out, no trial is in the parent batch twice.
NoTrialTwice ==
  \A x \in Runs, w \in Workers : \A t, u \in Trial :
    /\ rows[x][w][t] <= 1
    /\ rows[x][w][t] > 0 /\ rows[x][w][u] > 0 /\ MergeKey(t) = MergeKey(u) => t = u

\* A merge never loses a trial of another name, whichever runs the batch has been
\* cloned from and however many handlers merge into it.
TrialsNeverLost ==
  [][\A x \in Runs, w \in Workers : \A t \in Trial :
       rows[x][w][t] > 0 => rows'[x][w][t] > 0]_vars

\* The original run is an immutable baseline: the batches merge into the clones,
\* also when a rerun is itself rerun.
OriginalUntouched ==
  [][rows'[Original] = rows[Original] /\ dir'[Original] = dir[Original]]_vars

\* A restart has cut off something of the rerun.
CutOff(r) ==
  \/ "lost" \in {pc[r], sync[r]}
  \/ \E w \in Workers : thread[r][w] = "lost" \/ \E k \in Calls : call[r][w][k] = "lost"

\* Every rerun reaches an outcome, also one whose build or copies fail and whose
\* calls time out.  One with a batch that ends without cases need not: only a merge
\* looks whether all is over.
EveryRerunEnds ==
  \A r \in Requests :
    rstatus[r] = "syncing" ~>
      \/ rstatus[r] \in Outcome \/ CutOff(r)
      \/ \E w \in Workers : batch[r][w] \in Outcome /\ trial[r][w] = None

\* 2026-05-26-run-exception-rerun-design.md: at most one in-progress rerun per
\* run.  Refuted: a failed copy ends the rerun while other batches still run.
OneRerunInProgress ==
  \A q, r \in Requests :
    /\ source[q] = source[r]
    /\ \E w \in Workers : batch[q][w] \in {"queued", "running"}
    /\ \E w \in Workers : batch[r][w] \in {"queued", "running"}
    => q = r

\* 2026-05-26-run-exception-rerun-design.md: the status walks idle, syncing,
\* running and then its outcome.  Refuted: the sync's end overwrites the outcome.
OutcomeIsFinal ==
  [][\A r \in Requests : rstatus[r] \in Outcome => rstatus'[r] \in Outcome]_vars

\* 2026-05-30-derived-rerun-run-design.md: merge, then complete the job.
\* Refuted: another batch's handler completes it before this batch is merged.
FinishedIsMerged ==
  \A r \in Requests : rstatus[r] = "succeeded" =>
    \A w \in scope[r] : rows[r][w][trial[r][w]] = 1

\* 2026-05-26-run-exception-rerun-design.md: the scope is exception cases only.
\* Refuted: the scope is read before the lock, while the source's own rerun ends.
ScopeIsErrored ==
  [][\A r \in Requests : pc[r] = "clone" /\ pc'[r] = "batches" =>
       \A w \in scope[r] : ~dir[source[r]][w].ok]_vars

\* 2026-05-26-run-exception-rerun-design.md: the parent's row of the same case
\* is deleted.  Refuted: rows are matched by trial, and a new trial has a new name.
ExceptionIsReplaced ==
  \A r \in Requests, w \in Workers :
    \A t, u \in Trial : rows[r][w][t] > 0 /\ t.by = r /\ rows[r][w][u] > 0 => t = u
=============================================================================
