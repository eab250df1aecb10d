----------------------------- MODULE HarborJobs -----------------------------
(***************************************************************************)
(* The Harbor job directories the controller keeps                         *)
(* (controller/server.py: the archive and heartbeat handlers, the viewer,  *)
(* _rebuild_merged_job_for_run, _apply_exception_rerun_merge;              *)
(* controller/rerun_artifacts.py copy_harbor_job;                          *)
(* normalizers/harbor_job_merge.py; scripts/harbor_finalize_job_result.py; *)
(* scripts/aeo-repair-rerun-merge.py).                                     *)
(*                                                                         *)
(* A worker uploads the job directory of its batch, which is unpacked      *)
(* under imported-jobs.  A primary batch makes the controller build the    *)
(* merged job of its run anew from the imported ones; a rerun batch puts   *)
(* its trials in place of the old ones in the job its derived run got, by  *)
(* copying its source's job, when the rerun was started.  The handlers run *)
(* in threads and share the directories without a lock: every file         *)
(* operation another of them may come between is a step of its call.       *)
(*                                                                         *)
(* Workers are remote: their job directories are not on the controller's   *)
(* disk.  A job directory is removed entry by entry and renamed at once.   *)
(* What is simplified: a trial's own directory is there or not, a job has  *)
(* its two files written or removed together by one call, the copy of the  *)
(* source's job that a rerun starts from is one step, a test that a        *)
(* directory is there goes with the listing that follows, and a rerun is   *)
(* started from an original run.                                           *)
(***************************************************************************)
EXTENDS Integers, FiniteSets, Sequences

CONSTANTS
  Runs,         \* the runs, original and derived
  Parent,       \* [Runs -> Runs \cup {None}], runs.parent_run_id
  Primary,      \* the primary batches of a run, in the order they were made
  Reruns,       \* the rerun batches of a run
  ParentBatch,  \* batches.parent_batch_id of a rerun batch
  Cases,        \* the cases a batch executes
  JobOf,        \* where a run's job is: its jobs directory and sanitized display name
  Loads,        \* what the controller may be asked to do
  None

\* calls: the requests there will be, [kind, on, n]; open: how many of them may be
\* at work at once; merged: original runs finished and merged at the start; kinds,
\* faults: which of the faults below may happen, and how many.
Calls == UNION {l.calls : l \in Loads}

Derived == {r \in Runs : Parent[r] # None}
PrimaryOf(r) == {Primary[r][i] : i \in DOMAIN Primary[r]}
Batches == UNION {PrimaryOf(r) \cup Reruns[r] : r \in Runs}
Paths   == Batches \cup {JobOf[r] : r \in Runs}
IsRerun(b) == \E r \in Runs : b \in Reruns[r]
RunOf(b) == CHOOSE r \in Runs : b \in PrimaryOf(r) \cup Reruns[r]

\* A trial of a case by the n-th execution of a batch.  A job directory moved
\* into another looks like a trial, of a case named like the batch.
\* What is there at the start is of the first execution.
Attempts == {1} \cup {c.n : c \in Calls}
Ran(b, n)    == {[case |-> x, by |-> b, n |-> n] : x \in Cases[b]}
Nested(b, n) == [case |-> b, by |-> b, n |-> n]
Trial == {t \in [case : Batches \cup UNION {Cases[b] : b \in Batches}, by : Batches, n : Attempts] :
            t.case \in Cases[t.by] \cup {t.by}}

\* files: config.json, when it is there; result: the trials that result.json counts.
JobDir == [files : SUBSET {"config"}, trials : SUBSET Trial, result : (SUBSET Trial) \cup {None}]
NewDir == [files |-> {}, trials |-> {}, result |-> None]
Whole(ts) == [files |-> {"config"}, trials |-> ts, result |-> ts]

\* What a call copies trials for: into a merged job, into the parent batch of a rerun,
\* into the job of the derived run, by the repair script.
Goals == {"merged", "parent", "final", "repair"}

\* A batch is of one run and made once; a rerun batch has a primary batch of its run
\* as parent, and a derived run a copy of each primary batch of its source; runs,
\* batches, cases and job directories are told apart by their names.  No worker is
\* given a copied batch, and each start makes a derived run of its own.
ASSUME JobsAssumption ==
  /\ None \notin Runs \cup Batches \cup Paths
  /\ None \notin Goals \cup {"running", "succeeded"} /\ None \notin Calls /\ None \notin Trial /\ None \notin JobDir
  /\ \A r \in Runs : /\ Parent[r] \in Runs \cup {None}
                     /\ Primary[r] \in Seq(PrimaryOf(r))
                     /\ \A i, j \in DOMAIN Primary[r] : Primary[r][i] = Primary[r][j] => i = j
                     /\ IsFiniteSet(Reruns[r]) /\ (Parent[r] = None => Reruns[r] = {})
                     /\ \A b \in Reruns[r] : ParentBatch[b] \in PrimaryOf(r)
                     /\ PrimaryOf(r) \cap Reruns[r] = {}
                     /\ JobOf[r] \notin Batches /\ r \notin Batches
                     /\ Parent[r] # None => Len(Primary[r]) = Len(Primary[Parent[r]])
  /\ \A r, s \in Runs : (PrimaryOf(r) \cup Reruns[r]) \cap (PrimaryOf(s) \cup Reruns[s]) # {} => r = s
  /\ \A b \in Batches : Cases[b] \cap Batches = {}
  /\ IsFiniteSet(Calls)
  /\ \A c \in Calls : c.kind \in {"archive", "final"} => IsRerun(c.on) \/ RunOf(c.on) \notin Derived
  /\ \A c, d \in Calls : c.kind = "start" /\ d.kind = "start" /\ c.on = d.on => c = d
  /\ Calls \subseteq [kind : {"archive", "final"}, on : Batches, n : Nat]
              \cup [kind : {"view", "repair"}, on : Runs, n : Nat]
              \cup [kind : {"start"}, on : {r \in Derived : Parent[r] \notin Derived}, n : Nat]
  /\ \A l \in Loads : /\ l.open \in Nat \ {0} /\ l.faults \in Nat
                     /\ l.kinds \subseteq {"timeout", "crash", "finalize"}
                     /\ l.merged \subseteq Runs \ Derived /\ l.own \subseteq Derived

VARIABLES
  dir,      \* the job directories, by path
  ended,    \* the batches whose final heartbeat was recorded
  rows,     \* the cases with a row in case_runs, by primary batch
  outcome,  \* rerun_status of a derived run
  base,     \* the trials of its source's job when a derived run was started (history)
  call,     \* what each request is doing
  last,     \* the request that began last, None once a fault has met it (history)
  load,     \* what it is asked to do
  faults    \* faults there have been

vars == <<dir, ended, rows, outcome, base, call, last, load, faults>>
dbVars == <<ended, rows, outcome, base>>
budget == <<load, faults>>

Over == {"done", "failed", "lost"}
Places == Over \cup {"idle", "clear", "clearing", "move", "update", "merge", "meta", "check", "view", "start",
                    "repair", "rows", "plan", "remove", "removing", "source", "copy", "config", "read", "write"}
Pairs == [from : Batches, to : Paths]
Work == [at : Places, goal : Goals \cup {None}, left : Seq(Pairs), todo : SUBSET Trial,
         held : Trial \cup {None}, conf : SUBSET {"config"}, seen : SUBSET Trial]
Doing(place, goal, pairs) ==
  [at |-> place, goal |-> goal, left |-> pairs, todo |-> {}, held |-> None, conf |-> {}, seen |-> {}]
At(c)   == call[c].at
Working == {c \in Calls : At(c) \notin Over \cup {"idle"}}
Quiet   == Working = {}
CallRun(c) == IF c.on \in Runs THEN c.on ELSE RunOf(c.on)

TypeOK ==
  /\ dir \in [Paths -> JobDir \cup {None}]
  /\ ended \subseteq Batches
  /\ rows \in [UNION {PrimaryOf(r) : r \in Runs} -> SUBSET UNION {Cases[b] : b \in Batches}]
  /\ outcome \in [Runs -> {None, "running", "succeeded"}]
  /\ base \in [Runs -> SUBSET Trial]
  /\ call \in [Calls -> Work]
  /\ last \in Calls \cup {None}
  /\ load \in Loads /\ faults \in 0..load.faults

FirstTrials(r) == UNION {Ran(b, 1) : b \in PrimaryOf(r)}

Init ==
  /\ load \in Loads
  /\ dir = [p \in Paths |->
              IF \E r \in load.merged : p = JobOf[r] THEN Whole(FirstTrials(CHOOSE r \in load.merged : p = JobOf[r]))
              ELSE IF \E r \in load.merged : p \in PrimaryOf(r) THEN Whole(Ran(p, 1)) ELSE None]
  /\ ended = UNION {PrimaryOf(r) : r \in load.merged}
  /\ rows = [b \in UNION {PrimaryOf(r) : r \in Runs} |-> IF b \in ended THEN Cases[b] ELSE {}]
  /\ outcome = [r \in Runs |-> None]
  /\ base = [r \in Runs |-> {}]
  /\ call = [c \in Calls |-> Doing("idle", None, <<>>)]
  /\ last = None /\ faults = 0

Fault(kind) == kind \in load.kinds /\ faults < load.faults /\ faults' = faults + 1 /\ UNCHANGED load

\* The call goes on at the named place; the fields of its work are set anew.
Goto(c, place) == call' = [call EXCEPT ![c] = Doing(place, None, <<>>)]
CopyAll(c, goal, pairs) == call' = [call EXCEPT ![c] = Doing("source", goal, pairs)]

-----------------------------------------------------------------------------
(* The requests.                                                            *)

Before(c, kind, n) == {d \in load.calls : d.kind = kind /\ d.on = c.on /\ d.n = n}
Started(r) == r \in Derived => outcome[r] # None

\* What must have happened before the request is made, the time-out aside.
Ready(c) ==
  CASE c.kind = "archive" -> Started(RunOf(c.on)) /\ \A d \in Before(c, "archive", c.n - 1) : At(d) # "idle"
    [] c.kind = "final"   -> /\ Started(RunOf(c.on))
                             /\ \A d \in Before(c, "archive", c.n) : At(d) \in Over
    [] c.kind = "start"   -> PrimaryOf(Parent[c.on]) \subseteq ended
    [] OTHER              -> Started(c.on)

Begin(c) ==
  /\ c \in load.calls /\ At(c) = "idle" /\ Cardinality(Working) < load.open /\ Ready(c)
  /\ Goto(c, CASE c.kind = "archive" -> "clear" [] c.kind = "final" -> "update" [] OTHER -> c.kind)
  /\ last' = c
  /\ UNCHANGED <<dir, dbVars, budget>>

\* The upload times out at the worker; its final heartbeat comes all the same.
TimesOut(c) ==
  /\ c \in load.calls /\ c.kind = "final" /\ At(c) = "idle" /\ Cardinality(Working) < load.open
  /\ \E d \in Before(c, "archive", c.n) : At(d) \notin Over \cup {"idle"}
  /\ Fault("timeout")
  /\ Goto(c, "update") /\ last' = c
  /\ UNCHANGED <<dir, dbVars>>

\* The controller is stopped and started again.
Crash ==
  /\ Fault("crash")
  /\ call' = [c \in Calls |-> IF c \in Working THEN Doing("lost", None, <<>>) ELSE call[c]]
  /\ last' = None
  /\ UNCHANGED <<dir, dbVars>>

-----------------------------------------------------------------------------
(* Removing a directory when there is one (shutil.rmtree): the imported job *)
(* that an archive replaces, or the merged job.                             *)

TrialsIn(p) == IF dir[p] = None THEN {} ELSE dir[p].trials
FilesIn(p) == IF dir[p] = None THEN {} ELSE dir[p].files
Removed(c) == IF At(c) \in {"clear", "clearing"} THEN c.on ELSE JobOf[CallRun(c)]
Removing(c) == At(c) \in {"clearing", "removing"}

AfterRemoval(c) ==
  IF At(c) \in {"clear", "clearing"} THEN "move" ELSE IF call[c].goal = "merged" THEN "source" ELSE "done"

\* The call goes on from a removal.
GoesOn(c) == call' = [call EXCEPT ![c] = Doing(AfterRemoval(c), @.goal, @.left)]

\* A job and its entries are listed.
ListRemoved(c) ==
  /\ At(c) \in {"clear", "remove"}
  /\ LET d == dir[Removed(c)]
     IN  \/ d = None /\ GoesOn(c)
         \/ /\ d # None
            /\ call' = [call EXCEPT ![c] =
                          [@ EXCEPT !.at = IF At(c) = "clear" THEN "clearing" ELSE "removing", !.todo = d.trials,
                                    !.conf = IF d.files # {} \/ d.result # None THEN {"config"} ELSE {}]]
  /\ UNCHANGED <<dir, dbVars, last, budget>>

\* An entry that another call has removed is passed over or ends the call, as the
\* release of Python has it.
Missed(c, work) == (Goto(c, "failed") \/ call' = [call EXCEPT ![c] = work]) /\ UNCHANGED dir

RemoveTrial(c) ==
  /\ Removing(c)
  /\ \E t \in call[c].todo :
       LET work == [call[c] EXCEPT !.todo = @ \ {t}]
       IN  \/ t \notin TrialsIn(Removed(c)) /\ Missed(c, work)
           \/ /\ t \in TrialsIn(Removed(c))
              /\ dir' = [dir EXCEPT ![Removed(c)].trials = @ \ {t}]
              /\ call' = [call EXCEPT ![c] = work]
  /\ UNCHANGED <<dbVars, last, budget>>

RemoveFiles(c) ==
  /\ Removing(c) /\ call[c].conf # {}
  /\ LET work == [call[c] EXCEPT !.conf = {}]
     IN  \/ dir[Removed(c)] = None /\ Missed(c, work)
         \/ /\ dir[Removed(c)] # None
            /\ dir' = [dir EXCEPT ![Removed(c)].files = {}, ![Removed(c)].result = None]
            /\ call' = [call EXCEPT ![c] = work]
  /\ UNCHANGED <<dbVars, last, budget>>

\* The directory itself, which must be there and empty.
RemoveDir(c) ==
  /\ Removing(c) /\ call[c].todo = {} /\ call[c].conf = {}
  /\ \/ dir[Removed(c)] = NewDir /\ dir' = [dir EXCEPT ![Removed(c)] = None] /\ GoesOn(c)
     \/ dir[Removed(c)] # NewDir /\ Goto(c, "failed") /\ UNCHANGED dir
  /\ UNCHANGED <<dbVars, last, budget>>

-----------------------------------------------------------------------------
(* Copying the trials of one directory into another (copy_trial_dirs).      *)

Here(c) == Head(call[c].left)
Into(p) == IF dir[p] = None THEN NewDir ELSE dir[p]

\* The target is made and the source listed; write_merged_job keeps the first
\* configuration it finds.
NextSource(c) ==
  /\ At(c) = "source"
  /\ dir' = [dir EXCEPT ![Here(c).to] = Into(Here(c).to)]
  /\ call' = [call EXCEPT ![c].at = "copy", ![c].todo = TrialsIn(Here(c).from),
                          ![c].conf = @ \cup FilesIn(Here(c).from)]
  /\ UNCHANGED <<dbVars, last, budget>>

\* Mutant: the trials of the case are left where they are.
RemoveNone(c) ==
  /\ At(c) = "copy" /\ call[c].held = None
  /\ \E t \in call[c].todo :
       call' = [call EXCEPT ![c].todo = @ \ {t}, ![c].held = t]
  /\ UNCHANGED <<dir, dbVars, last, budget>>

\* _remove_matching_trial_dirs.
RemoveMatching(c) ==
  /\ At(c) = "copy" /\ call[c].held = None
  /\ \E t \in call[c].todo :
       /\ call' = [call EXCEPT ![c].todo = @ \ {t}, ![c].held = t]
       /\ dir' = IF dir[Here(c).to] = None THEN dir
                 ELSE [dir EXCEPT ![Here(c).to].trials = {u \in @ : u.case # t.case}]
  /\ UNCHANGED <<dbVars, last, budget>>

\* copytree, which makes the target anew when it is gone, and raises when the
\* trial is no longer in the source or already in the target.
CopyTrial(c) ==
  /\ At(c) = "copy" /\ call[c].held # None
  /\ IF call[c].held \in TrialsIn(Here(c).from) \ TrialsIn(Here(c).to)
     THEN /\ dir' = [dir EXCEPT ![Here(c).to] = [Into(Here(c).to) EXCEPT !.trials = @ \cup {call[c].held}]]
          /\ call' = [call EXCEPT ![c].held = None]
     ELSE Goto(c, "failed") /\ UNCHANGED dir
  /\ UNCHANGED <<dbVars, last, budget>>

AfterCopy(goal) ==
  CASE goal = "merged" -> "config" [] goal = "parent" -> "meta" [] goal = "final" -> "read" [] goal = "repair" -> "rows"

EndSource(c) ==
  /\ At(c) = "copy" /\ call[c].held = None /\ call[c].todo = {}
  /\ call' = [call EXCEPT ![c].left = IF Len(@) = 1 THEN @ ELSE Tail(@),
                          ![c].at = IF Len(call[c].left) = 1 THEN AfterCopy(call[c].goal) ELSE "source"]
  /\ UNCHANGED <<dir, dbVars, last, budget>>

-----------------------------------------------------------------------------
(* The merged job (_rebuild_merged_job_for_run, write_merged_job).          *)

\* Mutant: the newest batch only.
SourcesLast(r) ==
  LET imported == {i \in DOMAIN Primary[r] : dir[Primary[r][i]] # None}
  IN  {<<[from |-> Primary[r][i], to |-> JobOf[r]]>> : i \in {j \in imported : \A k \in imported : k <= j}}

\* _job_sources_for_run: the imported jobs, in the order of the batches.  A derived
\* run's own jobs directory has no other job than the merged one: nothing is copied
\* there when the rerun is started.
Sources(r) ==
  LET imported == {i \in DOMAIN Primary[r] : dir[Primary[r][i]] # None}
      orders == {o \in [1..Cardinality(imported) -> imported] :
                   /\ \A i \in imported : \E k \in DOMAIN o : o[k] = i
                   /\ \A k, l \in DOMAIN o : k < l => o[k] < o[l]}
  IN  {[k \in DOMAIN o |-> [from |-> Primary[r][o[k]], to |-> JobOf[r]]] : o \in orders}

\* Mutant: any run's job is left alone when there is one.
ViewExisting(c) ==
  /\ At(c) = "view"
  /\ Goto(c, IF dir[JobOf[c.on]] # None THEN "done" ELSE "plan")
  /\ UNCHANGED <<dir, dbVars, last, budget>>

\* _rebuild_merged_jobs leaves a derived run's job alone when there is one.
View(c) ==
  /\ At(c) = "view"
  /\ Goto(c, IF c.on \in Derived /\ dir[JobOf[c.on]] # None THEN "done" ELSE "plan")
  /\ UNCHANGED <<dir, dbVars, last, budget>>

Plan(c) ==
  /\ At(c) = "plan"
  /\ \E sources \in Sources(CallRun(c)) :
       IF sources = <<>> THEN Goto(c, "done")
       ELSE call' = [call EXCEPT ![c] = Doing("remove", "merged", sources)]
  /\ UNCHANGED <<dir, dbVars, last, budget>>

\* A RuntimeError of write_merged_job makes the handler remove what there is of the
\* job; one of refresh_job_result is passed over.
GiveUp(c) == Goto(c, IF call[c].goal = "merged" THEN "remove" ELSE "done") /\ UNCHANGED dir

\* The file cannot be written when another call has removed the directory.
WriteConfig(c) ==
  /\ At(c) = "config"
  /\ \/ call[c].conf = {} /\ GiveUp(c)
     \/ call[c].conf # {} /\ dir[JobOf[CallRun(c)]] = None /\ Goto(c, "failed") /\ UNCHANGED dir
     \/ /\ call[c].conf # {} /\ dir[JobOf[CallRun(c)]] # None
        /\ dir' = [dir EXCEPT ![JobOf[CallRun(c)]].files = {"config"}]
        /\ call' = [call EXCEPT ![c].at = "read"]
  /\ UNCHANGED <<dbVars, last, budget>>

\* The finalize script needs a configuration and trials it can read.
Readable(d) == d # None /\ d.files # {} /\ d.trials # {} /\ \A t \in d.trials : t.case # t.by

ReadTrials(c) ==
  /\ At(c) = "read"
  /\ IF Readable(dir[JobOf[CallRun(c)]])
     THEN call' = [call EXCEPT ![c].at = "write", ![c].seen = TrialsIn(JobOf[CallRun(c)])] /\ UNCHANGED dir
     ELSE GiveUp(c)
  /\ UNCHANGED <<dbVars, last, budget>>

\* No Harbor repository, no uv, a script that fails.
FinalizeFails(c) ==
  /\ At(c) = "read" /\ Fault("finalize")
  /\ GiveUp(c)
  /\ last' = None
  /\ UNCHANGED dbVars

\* Mutant: the result counts the trials of the last source alone.
WriteLastSource(c) ==
  /\ At(c) = "write"
  /\ IF dir[JobOf[CallRun(c)]] = None THEN GiveUp(c)
     ELSE /\ dir' = [dir EXCEPT ![JobOf[CallRun(c)]].result = call[c].seen \cap TrialsIn(Here(c).from)]
          /\ Goto(c, "done")
  /\ UNCHANGED <<dbVars, last, budget>>

WriteResult(c) ==
  /\ At(c) = "write"
  /\ IF dir[JobOf[CallRun(c)]] = None THEN GiveUp(c)
     ELSE dir' = [dir EXCEPT ![JobOf[CallRun(c)]].result = call[c].seen] /\ Goto(c, "done")
  /\ UNCHANGED <<dbVars, last, budget>>

-----------------------------------------------------------------------------
(* The archive of a batch (/api/workers/job-archive) and its final          *)
(* heartbeat.                                                               *)

\* Mutant: what has been unpacked is put in place piece by piece.
MovePiecewise(c) ==
  /\ At(c) = "move"
  /\ dir' = [dir EXCEPT ![c.on] = [NewDir EXCEPT !.files = {"config"}]]
  /\ Goto(c, IF IsRerun(c.on) THEN "merge" ELSE "plan")
  /\ UNCHANGED <<dbVars, last, budget>>

\* shutil.move puts it into the directory when there is one.
MoveImported(c) ==
  /\ At(c) = "move"
  /\ dir' = [dir EXCEPT ![c.on] = IF @ = None THEN Whole(Ran(c.on, c.n))
                                  ELSE [dir[c.on] EXCEPT !.trials = @ \cup {Nested(c.on, c.n)}]]
  /\ Goto(c, IF IsRerun(c.on) THEN "merge" ELSE "plan")
  /\ UNCHANGED <<dbVars, last, budget>>

\* update_batch_progress with the cases of the batch.
Update(c) ==
  /\ At(c) = "update"
  /\ ended' = ended \cup {c.on}
  /\ rows' = IF IsRerun(c.on) THEN rows ELSE [rows EXCEPT ![c.on] = Cases[c.on]]
  /\ Goto(c, IF IsRerun(c.on) THEN "merge" ELSE "done")
  /\ UNCHANGED <<dir, outcome, base, last, budget>>

\* normalize_harbor_job: the cases of the trials, a nested job aside.
CasesIn(b) == {t.case : t \in {u \in TrialsIn(b) : u.case # u.by}}

\* _apply_exception_rerun_merge: the rows it merges keep their cases.  When there are
\* no cases in the imported job the archive's call ends; the heartbeat has the cases
\* itself, and goes on without an imported job.
MergeImported(c) ==
  /\ At(c) = "merge"
  /\ IF c.kind = "archive" /\ CasesIn(c.on) = {} THEN Goto(c, "done")
     ELSE IF dir[c.on] # None THEN CopyAll(c, "parent", <<[from |-> c.on, to |-> ParentBatch[c.on]]>>)
     ELSE Goto(c, "check")
  /\ UNCHANGED <<dir, dbVars, last, budget>>

\* _copy_job_metadata_if_missing.
CopyMetadata(c) ==
  /\ At(c) = "meta"
  /\ LET to == Into(ParentBatch[c.on])
     IN  dir' = [dir EXCEPT ![ParentBatch[c.on]] =
                   IF dir[c.on] = None THEN to
                   ELSE [files |-> to.files \cup dir[c.on].files, trials |-> to.trials,
                         result |-> IF to.result = None THEN dir[c.on].result ELSE to.result]]
  /\ Goto(c, "check")
  /\ UNCHANGED <<dbVars, last, budget>>

\* Mutant: the trials go to the source's job.
FinalInSource(c) == CopyAll(c, "final", <<[from |-> c.on, to |-> JobOf[Parent[CallRun(c)]]]>>)

\* The trials go into the derived run's job.
FinalCopy(c) == CopyAll(c, "final", <<[from |-> c.on, to |-> JobOf[CallRun(c)]]>>)

\* finish_rerun_batch_if_complete, then the job of the run, which is a derived one:
\* built anew once the rerun is over and its jobs directory is its own, else
\* brought up to date.
CheckComplete(c) ==
  /\ At(c) = "check"
  /\ LET r == CallRun(c)
         over == Reruns[r] \subseteq ended
     IN  /\ outcome' = IF over THEN [outcome EXCEPT ![r] = "succeeded"] ELSE outcome
         /\ \/ outcome'[r] = "succeeded" /\ r \in load.own /\ Goto(c, "plan")
            \/ /\ ~(outcome'[r] = "succeeded" /\ r \in load.own)
               /\ IF dir[c.on] # None THEN FinalCopy(c) ELSE Goto(c, "done")
  /\ UNCHANGED <<dir, ended, rows, base, last, budget>>

-----------------------------------------------------------------------------
(* Starting a rerun, and repairing one by hand.                             *)

\* _source_job_dir_for_run.
SourceJob(r) == JobOf[Parent[r]]

\* copy_harbor_job.
CopyHarborJob(from, to) == dir' = [dir EXCEPT ![to] = dir[from]]

\* _copy_and_prune_source_jobs, which prunes nothing, and
\* clone_primary_batches_to_run.
StartRerun(c) ==
  /\ At(c) = "start"
  /\ LET r == c.on
         OriginalOf(b) == Primary[Parent[r]][CHOOSE i \in DOMAIN Primary[r] : Primary[r][i] = b]
     IN  IF r \notin load.own /\ dir[SourceJob(r)] = None
         THEN Goto(c, "failed") /\ UNCHANGED <<dir, rows, outcome, base>>
         ELSE /\ IF r \in load.own THEN UNCHANGED dir ELSE CopyHarborJob(SourceJob(r), JobOf[r])
              /\ rows' = [b \in DOMAIN rows |-> IF b \in PrimaryOf(r) THEN rows[OriginalOf(b)] ELSE rows[b]]
              /\ outcome' = [outcome EXCEPT ![r] = "running"]
              /\ base' = [base EXCEPT ![r] = TrialsIn(SourceJob(r))]
              /\ Goto(c, "done")
  /\ UNCHANGED <<ended, last, budget>>

\* repair_run: the imported trials of the rerun batches, ...
Repair(c) ==
  /\ At(c) = "repair"
  /\ LET here == {b \in Reruns[c.on] : dir[b] # None /\ dir[ParentBatch[b]] # None}
     IN  IF here = {} THEN Goto(c, "rows")
         ELSE \E order \in [1..Cardinality(here) -> here] :
                /\ \A b \in here : \E i \in DOMAIN order : order[i] = b
                /\ CopyAll(c, "repair", [i \in DOMAIN order |-> [from |-> order[i], to |-> ParentBatch[order[i]]]])
  /\ UNCHANGED <<dir, dbVars, last, budget>>

\* ... then the rows of each primary batch from its imported job, in order: the
\* first one without raises, with the rows of those before it rewritten.
Backfill(c) ==
  /\ At(c) = "rows"
  /\ LET Filled(b) == \A i \in DOMAIN Primary[c.on] :
                        Primary[c.on][i] = b => \A j \in 1..i : dir[Primary[c.on][j]] # None
         all == \A b \in PrimaryOf(c.on) : Filled(b)
     IN  /\ rows' = [b \in DOMAIN rows |-> IF b \in PrimaryOf(c.on) /\ Filled(b)
                                           THEN CasesIn(b) ELSE rows[b]]
         /\ ended' = ended \cup {b \in PrimaryOf(c.on) : Filled(b)} \cup {b \in Reruns[c.on] : dir[b] # None}
         /\ outcome' = IF all /\ c.on \in Derived THEN [outcome EXCEPT ![c.on] = "succeeded"] ELSE outcome
         /\ Goto(c, IF all THEN "plan" ELSE "failed")
  /\ UNCHANGED <<dir, base, last, budget>>

-----------------------------------------------------------------------------
Clearing(c) == ListRemoved(c) \/ RemoveTrial(c) \/ RemoveFiles(c) \/ RemoveDir(c)
Copying(c)  == NextSource(c) \/ RemoveMatching(c) \/ CopyTrial(c) \/ EndSource(c)
Merging(c)  == View(c) \/ Plan(c) \/ WriteConfig(c) \/ ReadTrials(c) \/ FinalizeFails(c) \/ WriteResult(c)
Handling(c) == MoveImported(c) \/ Update(c) \/ MergeImported(c) \/ CopyMetadata(c) \/ CheckComplete(c)
Next ==
  \/ \E c \in Calls : Begin(c) \/ TimesOut(c) \/ Clearing(c) \/ Copying(c) \/ Merging(c) \/ Handling(c)
                      \/ StartRerun(c) \/ Repair(c) \/ Backfill(c)
  \/ Crash
Spec == Init /\ [][Next]_vars

-----------------------------------------------------------------------------
(* Properties.                                                              *)

IsWhole(d) == d # None /\ d.files # {} /\ d.trials # {} /\ d.result = d.trials

\* No directory of jobs ever has two trials of one case: what comes in replaces
\* what was there, across repeated executions, merges and reruns.
NoCaseTwice ==
  \A p \in Paths : \A t, u \in TrialsIn(p) : t.case = u.case => t = u

\* The calls come one after the other and none of them is cut off.
Calm == load.open = 1 /\ faults = 0

\* When nothing is at work, the merged job of an original run has exactly the
\* trials its batches have uploaded, and a result that counts them, while calls do not overlap.
MergedIsWhole ==
  Quiet /\ Calm => \A r \in Runs \ Derived :
             LET uploaded == UNION {TrialsIn(b) : b \in PrimaryOf(r)}
             IN  uploaded # {} => IsWhole(dir[JobOf[r]]) /\ dir[JobOf[r]].trials = uploaded

\* When nothing is at work, the job of a derived run has the trial of the rerun
\* for every case a rerun batch has uploaded, the trial its source's job had when the
\* rerun was started for every other one, and a result that counts them, while calls
\* do not overlap: the job of a run whose jobs directory it shares with its source.
FinalIsWhole ==
  Quiet /\ Calm => \A r \in Derived \ load.own :
    outcome[r] # None =>
      LET rerun == UNION {TrialsIn(b) : b \in Reruns[r]}
          kept == {t \in base[r] : \A u \in rerun : u.case # t.case}
      IN  IsWhole(dir[JobOf[r]]) /\ dir[JobOf[r]].trials = rerun \cup kept

\* The job of an original run is written by the calls of that run alone: a rerun
\* never edits, deletes or rebuilds the job it started from.
SourceUntouched ==
  [][\A r \in Runs \ Derived : dir'[JobOf[r]] # dir[JobOf[r]]
       => \E c \in Calls : CallRun(c) = r /\ call'[c] # call[c]]_vars

\* The batches that workers execute.
Executed == {b \in Batches : IsRerun(b) \/ RunOf(b) \notin Derived}

\* The imported job of a batch has all the trials of one execution, or what is left of
\* one by an archive of that batch that is removing it or was cut off, whatever calls
\* overlap: two executions are never mixed, and an upload appears at once.
ImportedIsWhole ==
  \A b \in Executed : dir[b] # None =>
    LET jobs == {t \in dir[b].trials : t.case # t.by}
        cut == \E c \in Calls : c.kind = "archive" /\ c.on = b /\ At(c) \in {"clearing", "failed", "lost"}
    IN  \E n \in Attempts : jobs = Ran(b, n) \/ (cut /\ jobs \subseteq Ran(b, n))

\* After calls that were cut off or could not finalize, opening the viewer on an
\* original run builds its job from what has been uploaded and is still there, when
\* an imported job still has its configuration.
ViewRepairs ==
  Quiet /\ last # None /\ last.kind = "view" /\ At(last) = "done" /\ last.on \notin Derived
    => LET uploaded == UNION {TrialsIn(b) : b \in PrimaryOf(last.on)}
       IN  uploaded # {} /\ (\E b \in PrimaryOf(last.on) : FilesIn(b) # {})
             => IsWhole(dir[JobOf[last.on]]) /\ dir[JobOf[last.on]].trials = uploaded

\* Refuted: calls that overlap leave a merged job of all uploaded trials as well.
OverlapIsWhole ==
  Quiet /\ faults = 0 =>
    \A r \in Runs \ Derived :
      LET uploaded == UNION {TrialsIn(b) : b \in PrimaryOf(r)}
      IN  uploaded # {} => IsWhole(dir[JobOf[r]]) /\ dir[JobOf[r]].trials = uploaded

\* Refuted: calls that overlap leave a rerun's job whose result counts its trials.
OverlapIsFinal ==
  Quiet /\ faults = 0 => \A r \in Derived : outcome[r] = "succeeded" => IsWhole(dir[JobOf[r]])

\* Refuted: no call copies from the imported job of an execution what another call
\* has left of it.
CopiedWhole ==
  \A c \in Calls : At(c) = "copy" /\ Here(c).from \in Executed /\ dir[Here(c).from] # None
    => \E n \in Attempts : {t \in dir[Here(c).from].trials : t.case # t.by} = Ran(Here(c).from, n)

\* Refuted: once a rerun is started, the job of its run has a trial for every case
\* of its source's job, whenever nothing is at work.
NoCaseDropped ==
  Quiet => \A r \in Derived \ load.own : outcome[r] # None =>
             {t.case : t \in base[r]} \subseteq {t.case : t \in TrialsIn(JobOf[r])}

\* Refuted: the same of a run that has a jobs directory of its own.
OwnIsWhole ==
  Quiet /\ Calm => \A r \in load.own : outcome[r] # None =>
             {t.case : t \in base[r]} \subseteq {t.case : t \in TrialsIn(JobOf[r])}

-----------------------------------------------------------------------------
(* What the theorems assume of the constants: job names are not shared, and *)
(* the cases of a run are dealt to its batches.                             *)

\* Runs have job directories of their own.
NamesApart == \A r, s \in Runs : JobOf[r] = JobOf[s] => r = s

\* No case is in two batches of one run.
CasesApart == \A r \in Runs : \A b, d \in PrimaryOf(r) : b # d => Cases[b] \cap Cases[d] = {}
=============================================================================
