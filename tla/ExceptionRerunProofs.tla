------------------------ MODULE ExceptionRerunProofs ------------------------
(***************************************************************************)
(* What holds of the reruns of a run for any number of requests and        *)
(* workers and any number of faults of every kind.                         *)
(***************************************************************************)
EXTENDS ExceptionRerun, TLAPS

LEMMA BaselineIsTrial == Baseline \in Trial /\ NoRow \in [Trial -> Nat]
BY DEF Baseline, NoRow, Trial, Runs

LEMMA MergedType ==
  ASSUME NEW row \in [Trial -> Nat], NEW t \in Trial
  PROVE  Merged(row, t) \in [Trial -> Nat]
BY DEF Merged

LEMMA InitRerun == Init => TypeOK /\ RerunInv
<1> SUFFICES ASSUME Init PROVE TypeOK /\ RerunInv
  OBVIOUS
<1>1. TypeOK
  <2>1. rows \in [Runs -> [Workers -> [Trial -> Nat]]]
    BY BaselineIsTrial DEF Init
  <2>2. dir \in [Runs -> [Workers -> Trial \cup {None}]]
    BY BaselineIsTrial DEF Init
  <2>3. QED BY <2>1, <2>2 DEF Init, TypeOK, Active, Outcome, Terminal, Calls, Locked, Unbuilt, Building, Merging
<1>2. BuildAgrees
  BY RerunAssumption DEF Init, BuildAgrees, Locked, Unbuilt, Runs
<1>3. BatchAgrees
  BY RerunAssumption DEF Init, BatchAgrees, Calls, Merging, Outcome
<1>4. OneSyncing /\ SucceededIsTrue
  BY DEF Init, OneSyncing, SucceededIsTrue
<1>5. MergeAgrees
  <2>1. ASSUME NEW r \in Requests, NEW x \in Runs, NEW w \in Workers, NEW t \in Trial, t.by = r
        PROVE  rows[x][w][t] = 0
    <3>1. t # Baseline
      BY <2>1, RerunAssumption DEF Baseline
    <3>2. rows[x][w] = NoRow \/ rows[x][w] = [NoRow EXCEPT ![Baseline] = 1]
      BY DEF Init
    <3>3. QED BY <3>1, <3>2 DEF NoRow
  <2>2. \A r \in Requests : rows[r] = [w \in Workers |-> NoRow]
    BY RerunAssumption DEF Init, Runs
  <2>3. \A r \in Requests, w \in Workers : trial[r][w] = None
    BY DEF Init
  <2>4. \A r \in Requests : r \in Runs
    BY DEF Runs
  <2>5. QED BY <2>1, <2>2, <2>3, <2>4 DEF MergeAgrees
<1>6. QED BY <1>1, <1>2, <1>3, <1>4, <1>5 DEF RerunInv

\* Every step keeps the types.
LEMMA StepType == TypeOK /\ BuildAgrees /\ BatchAgrees /\ [Next]_vars => TypeOK'
<1> SUFFICES ASSUME TypeOK, BuildAgrees, BatchAgrees, [Next]_vars PROVE TypeOK'
  OBVIOUS
<1> USE RerunAssumption DEF TypeOK, Active, Outcome, Terminal, Calls, Locked, Unbuilt, Building, Merging, startVars, runVars, dataVars, syncVars, callVars
<1>1. ASSUME NEW r \in Requests, NEW x \in Runs, ResolveScope(r, x) PROVE TypeOK'
  BY <1>1 DEF ResolveScope, Exceptions
<1>2. ASSUME NEW r \in Requests, Enter(r) PROVE TypeOK'
  BY <1>2 DEF Enter
<1>3. ASSUME NEW r \in Requests, CheckDerived(r) PROVE TypeOK'
  BY <1>3 DEF CheckDerived
<1>4. ASSUME NEW r \in Requests, CreateRun(r) PROVE TypeOK'
  BY <1>4 DEF CreateRun
<1>5. ASSUME NEW r \in Requests, CreateRerunJob(r) PROVE TypeOK'
  BY <1>5 DEF CreateRerunJob
<1>6. ASSUME NEW r \in Requests, MarkSyncing(r) PROVE TypeOK'
  BY <1>6 DEF MarkSyncing
<1>7. ASSUME NEW r \in Requests, CopyJobs(r) PROVE TypeOK'
  <2>1. source[r] \in Runs
    BY <1>7 DEF CopyJobs, BuildAgrees
  <2>2. QED BY <1>7, <2>1 DEF CopyJobs
<1>8. ASSUME NEW r \in Requests, ClonePrimaryBatches(r) PROVE TypeOK'
  <2>1. source[r] \in Runs
    BY <1>8 DEF ClonePrimaryBatches, BuildAgrees
  <2>2. QED BY <1>8, <2>1 DEF ClonePrimaryBatches
<1>9. ASSUME NEW r \in Requests, ListBatches(r) PROVE TypeOK'
  BY <1>9 DEF ListBatches
<1>10. ASSUME NEW r \in Requests, Launch(r) PROVE TypeOK'
  BY <1>10 DEF Launch
<1>11. ASSUME NEW r \in Requests, FailRun(r) PROVE TypeOK'
  BY <1>11 DEF FailRun
<1>12. ASSUME NEW r \in Requests, FailJob(r) PROVE TypeOK'
  BY <1>12 DEF FailJob
<1>13. ASSUME NEW r \in Requests, BuildFails(r) PROVE TypeOK'
  BY <1>13 DEF BuildFails, Fault
<1>14. ASSUME NEW r \in Requests, BeginSync(r) PROVE TypeOK'
  <2>1. CASE HasManifest
    <3> DEFINE f == [w \in Workers |-> IF w \in scope[r] THEN "copy" ELSE "none"]
    <3>1. f \in [Workers -> {"none", "copy", "promote", "mark", "done", "lost"}]
      OBVIOUS
    <3>2. thread' = [thread EXCEPT ![r] = f]
      BY <1>14, <2>1 DEF BeginSync
    <3> HIDE DEF f
    <3>3. thread' \in [Requests -> [Workers -> {"none", "copy", "promote", "mark", "done", "lost"}]]
      BY <3>1, <3>2
    <3>4. QED BY <1>14, <2>1, <3>3 DEF BeginSync
  <2>2. CASE ~HasManifest
    BY <1>14, <2>2 DEF BeginSync
  <2>3. QED BY <2>1, <2>2
<1>15. ASSUME NEW r \in Requests, AllPromoted(r) PROVE TypeOK'
  BY <1>15 DEF AllPromoted
<1>16. ASSUME NEW r \in Requests, Join(r) PROVE TypeOK'
  BY <1>16 DEF Join
<1>17. ASSUME NEW r \in Requests, WriteSyncStatus(r) PROVE TypeOK'
  BY <1>17 DEF WriteSyncStatus
<1>18. ASSUME NEW r \in Requests, WriteSyncJob(r) PROVE TypeOK'
  BY <1>18 DEF WriteSyncJob
<1>19. ASSUME NEW r \in Requests, NEW w \in Workers, CreateRerunBatch(r, w) PROVE TypeOK'
  BY <1>19 DEF CreateRerunBatch
<1>20. ASSUME NEW r \in Requests, NEW w \in Workers, PathsMissing(r, w) PROVE TypeOK'
  BY <1>20 DEF PathsMissing, Fault
<1>21. ASSUME NEW r \in Requests, NEW w \in Workers, PromoteAtOnce(r, w) PROVE TypeOK'
  BY <1>21 DEF PromoteAtOnce
<1>22. ASSUME NEW r \in Requests, NEW w \in Workers, CopyToWorker(r, w) PROVE TypeOK'
  BY <1>22 DEF CopyToWorker
<1>23. ASSUME NEW r \in Requests, NEW w \in Workers, Promote(r, w) PROVE TypeOK'
  BY <1>23 DEF Promote
<1>24. ASSUME NEW r \in Requests, NEW w \in Workers, CopyFails(r, w) PROVE TypeOK'
  BY <1>24 DEF CopyFails, Fault
<1>25. ASSUME NEW r \in Requests, NEW w \in Workers, MarkSyncFailed(r, w) PROVE TypeOK'
  BY <1>25 DEF MarkSyncFailed
<1>26. ASSUME NEW r \in Requests, NEW w \in Workers, Claim(r, w) PROVE TypeOK'
  BY <1>26 DEF Claim
<1>27. ASSUME NEW r \in Requests, NEW w \in Workers, ExecutorEnds(r, w) PROVE TypeOK'
  <2>1. PICK ok \in BOOLEAN : trial' = [trial EXCEPT ![r][w] = [by |-> r, ok |-> ok]]
    BY <1>27 DEF ExecutorEnds
  <2>2. [by |-> r, ok |-> ok] \in Trial
    BY DEF Trial, Runs
  <2>3. trial' \in [Requests -> [Workers -> Trial \cup {None}]]
    BY <2>1, <2>2
  <2>4. call' \in [Requests -> [Workers -> [Calls -> {"none", "update", "done", "lost"} \cup Merging]]]
    BY <1>27 DEF ExecutorEnds
  <2>5. QED BY <1>27, <2>3, <2>4 DEF ExecutorEnds
<1>28. ASSUME NEW r \in Requests, NEW w \in Workers, EndsWithoutCases(r, w) PROVE TypeOK'
  BY <1>28 DEF EndsWithoutCases, Fault
<1>29. ASSUME NEW r \in Requests, NEW w \in Workers, Answered(r, w) PROVE TypeOK'
  BY <1>29 DEF Answered, SendHeartbeat
<1>30. ASSUME NEW r \in Requests, NEW w \in Workers, TimesOut(r, w) PROVE TypeOK'
  BY <1>30 DEF TimesOut, Fault, SendHeartbeat
<1>31. ASSUME NEW r \in Requests, NEW w \in Workers, UpdateProgress(r, w) PROVE TypeOK'
  BY <1>31 DEF UpdateProgress
<1>32. ASSUME NEW r \in Requests, NEW w \in Workers, NEW k \in Calls, Merge(r, w, k) PROVE TypeOK'
  <2>1. trial[r][w] \in Trial
    BY <1>32 DEF Merge, BatchAgrees
  <2>2. rows[r][w] \in [Trial -> Nat]
    BY DEF Runs
  <2>3. Merged(rows[r][w], trial[r][w]) \in [Trial -> Nat]
    BY <2>1, <2>2, MergedType
  <2>4. rows' \in [Runs -> [Workers -> [Trial -> Nat]]]
    BY <1>32, <2>3 DEF Merge
  <2>5. call' \in [Requests -> [Workers -> [Calls -> {"none", "update", "done", "lost"} \cup Merging]]]
    BY <1>32 DEF Merge
  <2>6. QED BY <1>32, <2>4, <2>5 DEF Merge
<1>33. ASSUME NEW r \in Requests, NEW w \in Workers, NEW k \in Calls, CheckComplete(r, w, k) PROVE TypeOK'
  <2>1. FinalStatus(r) \in Outcome
    BY DEF FinalStatus
  <2>2. verdict' = verdict \/ \E v \in Outcome : verdict' = [verdict EXCEPT ![r][w][k] = v]
    BY <1>33, <2>1 DEF CheckComplete
  <2>3. verdict' \in [Requests -> [Workers -> [Calls -> Outcome \cup {None}]]]
    <3>1. ASSUME NEW v \in Outcome, verdict' = [verdict EXCEPT ![r][w][k] = v]
          PROVE  verdict' \in [Requests -> [Workers -> [Calls -> Outcome \cup {None}]]]
      BY <3>1
    <3>2. QED BY <2>2, <3>1
  <2>4. PICK s \in {"fields", "files"} : call' = [call EXCEPT ![r][w][k] = s]
    BY <1>33 DEF CheckComplete
  <2>5. call' \in [Requests -> [Workers -> [Calls -> {"none", "update", "done", "lost"} \cup Merging]]]
    BY <2>4
  <2>6. QED BY <1>33, <2>3, <2>5 DEF CheckComplete
<1>34. ASSUME NEW r \in Requests, NEW w \in Workers, NEW k \in Calls, WriteOutcome(r, w, k) PROVE TypeOK'
  <2>1. verdict[r][w][k] \in Outcome
    BY <1>34 DEF WriteOutcome, BatchAgrees
  <2>2. rstatus' \in [Requests -> {"absent", "idle"} \cup Active \cup Outcome]
    BY <1>34, <2>1 DEF WriteOutcome
  <2>3. call' \in [Requests -> [Workers -> [Calls -> {"none", "update", "done", "lost"} \cup Merging]]]
    BY <1>34 DEF WriteOutcome
  <2>4. QED BY <1>34, <2>2, <2>3 DEF WriteOutcome
<1>35. ASSUME NEW r \in Requests, NEW w \in Workers, NEW k \in Calls, CloseJob(r, w, k) PROVE TypeOK'
  <2>1. verdict[r][w][k] \in Outcome
    BY <1>35 DEF CloseJob, BatchAgrees
  <2>2. job' \in [Requests -> {"none", "pending", "running"} \cup Outcome]
    BY <1>35, <2>1 DEF CloseJob
  <2>3. call' \in [Requests -> [Workers -> [Calls -> {"none", "update", "done", "lost"} \cup Merging]]]
    BY <1>35 DEF CloseJob
  <2>4. QED BY <1>35, <2>2, <2>3 DEF CloseJob
<1>36. ASSUME NEW r \in Requests, NEW w \in Workers, NEW k \in Calls, CopyTrials(r, w, k) PROVE TypeOK'
  <2>1. trial[r][w] \in Trial \cup {None}
    OBVIOUS
  <2>2. call' \in [Requests -> [Workers -> [Calls -> {"none", "update", "done", "lost"} \cup Merging]]]
    BY <1>36 DEF CopyTrials
  <2>3. dir' \in [Runs -> [Workers -> Trial \cup {None}]]
    BY <1>36, <2>1 DEF CopyTrials
  <2>4. QED BY <1>36, <2>2, <2>3 DEF CopyTrials
<1>37. ASSUME Restart PROVE TypeOK'
  BY <1>37 DEF Restart, Fault
<1>38. ASSUME UNCHANGED vars PROVE TypeOK'
  BY <1>38 DEF vars
<1> HIDE DEF TypeOK, Active, Outcome, Terminal, Calls, Locked, Unbuilt, Building, Merging, startVars, runVars, dataVars, syncVars, callVars
<1>39. QED
  BY <1>1, <1>2, <1>3, <1>4, <1>5, <1>6, <1>7, <1>8, <1>9, <1>10, <1>11, <1>12, <1>13, <1>14,
     <1>15, <1>16, <1>17, <1>18, <1>19, <1>20, <1>21, <1>22, <1>23, <1>24, <1>25, <1>26, <1>27,
     <1>28, <1>29, <1>30, <1>31, <1>32, <1>33, <1>34, <1>35, <1>36, <1>37, <1>38
  DEF Next, Start, SyncJob, Thread, Daemon, Handler, Faulty

\* What has succeeded stays so.
LEMMA StepSucceeded ==
  ASSUME TypeOK, RerunInv, [Next]_vars, NEW q \in Requests, Succeeded(q)
  PROVE  Succeeded(q)'
<1>a. \A r \in Requests, w \in Workers :
        thread[r][w] \in {"copy", "promote", "mark"} => batch[r][w] # "succeeded"
  BY DEF RerunInv, BatchAgrees
<1> USE RerunAssumption
    DEF TypeOK, RerunInv, BuildAgrees, BatchAgrees, Succeeded, Active, Outcome, Terminal, Calls, Locked, Unbuilt, Building, Merging, startVars, runVars, dataVars, syncVars, callVars
<1>1. ASSUME NEW r \in Requests, NEW x \in Runs, ResolveScope(r, x) PROVE Succeeded(q)'
  BY <1>1 DEF ResolveScope
<1>2. ASSUME NEW r \in Requests, Enter(r) PROVE Succeeded(q)'
  BY <1>2 DEF Enter
<1>3. ASSUME NEW r \in Requests, CheckDerived(r) PROVE Succeeded(q)'
  BY <1>3 DEF CheckDerived
<1>4. ASSUME NEW r \in Requests, CreateRun(r) PROVE Succeeded(q)'
  BY <1>4 DEF CreateRun
<1>5. ASSUME NEW r \in Requests, CreateRerunJob(r) PROVE Succeeded(q)'
  BY <1>5 DEF CreateRerunJob
<1>6. ASSUME NEW r \in Requests, MarkSyncing(r) PROVE Succeeded(q)'
  BY <1>6 DEF MarkSyncing
<1>7. ASSUME NEW r \in Requests, CopyJobs(r) PROVE Succeeded(q)'
  BY <1>7 DEF CopyJobs
<1>8. ASSUME NEW r \in Requests, ClonePrimaryBatches(r) PROVE Succeeded(q)'
  BY <1>8 DEF ClonePrimaryBatches
<1>9. ASSUME NEW r \in Requests, ListBatches(r) PROVE Succeeded(q)'
  BY <1>9 DEF ListBatches
<1>10. ASSUME NEW r \in Requests, Launch(r) PROVE Succeeded(q)'
  BY <1>10 DEF Launch
<1>11. ASSUME NEW r \in Requests, FailRun(r) PROVE Succeeded(q)'
  BY <1>11 DEF FailRun
<1>12. ASSUME NEW r \in Requests, FailJob(r) PROVE Succeeded(q)'
  BY <1>12 DEF FailJob
<1>13. ASSUME NEW r \in Requests, BuildFails(r) PROVE Succeeded(q)'
  BY <1>13 DEF BuildFails, Fault
<1>14. ASSUME NEW r \in Requests, BeginSync(r) PROVE Succeeded(q)'
  BY <1>14 DEF BeginSync
<1>15. ASSUME NEW r \in Requests, AllPromoted(r) PROVE Succeeded(q)'
  BY <1>15 DEF AllPromoted
<1>16. ASSUME NEW r \in Requests, Join(r) PROVE Succeeded(q)'
  BY <1>16 DEF Join
<1>17. ASSUME NEW r \in Requests, WriteSyncStatus(r) PROVE Succeeded(q)'
  BY <1>17 DEF WriteSyncStatus
<1>18. ASSUME NEW r \in Requests, WriteSyncJob(r) PROVE Succeeded(q)'
  BY <1>18 DEF WriteSyncJob
<1>19. ASSUME NEW r \in Requests, NEW w \in Workers, CreateRerunBatch(r, w) PROVE Succeeded(q)'
  BY <1>19 DEF CreateRerunBatch
<1>20. ASSUME NEW r \in Requests, NEW w \in Workers, PathsMissing(r, w) PROVE Succeeded(q)'
  BY <1>20 DEF PathsMissing, Fault
<1>21. ASSUME NEW r \in Requests, NEW w \in Workers, PromoteAtOnce(r, w) PROVE Succeeded(q)'
  BY <1>21 DEF PromoteAtOnce
<1>22. ASSUME NEW r \in Requests, NEW w \in Workers, CopyToWorker(r, w) PROVE Succeeded(q)'
  BY <1>22 DEF CopyToWorker
<1>23. ASSUME NEW r \in Requests, NEW w \in Workers, Promote(r, w) PROVE Succeeded(q)'
  <2>1. batch[r][w] # "succeeded"
    BY <1>23, <1>a DEF Promote
  <2>2. \A v \in scope[q] : batch'[q][v] = batch[q][v]
    BY <1>23, <2>1 DEF Promote
  <2>3. QED BY <1>23, <2>2 DEF Promote
<1>24. ASSUME NEW r \in Requests, NEW w \in Workers, CopyFails(r, w) PROVE Succeeded(q)'
  BY <1>24 DEF CopyFails, Fault
<1>25. ASSUME NEW r \in Requests, NEW w \in Workers, MarkSyncFailed(r, w) PROVE Succeeded(q)'
  <2>1. batch[r][w] # "succeeded"
    BY <1>25, <1>a DEF MarkSyncFailed
  <2>2. \A v \in scope[q] : batch'[q][v] = batch[q][v]
    BY <1>25, <2>1 DEF MarkSyncFailed
  <2>3. QED BY <1>25, <2>2 DEF MarkSyncFailed
<1>26. ASSUME NEW r \in Requests, NEW w \in Workers, Claim(r, w) PROVE Succeeded(q)'
  BY <1>26 DEF Claim
<1>27. ASSUME NEW r \in Requests, NEW w \in Workers, ExecutorEnds(r, w) PROVE Succeeded(q)'
  BY <1>27 DEF ExecutorEnds
<1>28. ASSUME NEW r \in Requests, NEW w \in Workers, EndsWithoutCases(r, w) PROVE Succeeded(q)'
  BY <1>28 DEF EndsWithoutCases, Fault
<1>29. ASSUME NEW r \in Requests, NEW w \in Workers, Answered(r, w) PROVE Succeeded(q)'
  BY <1>29 DEF Answered, SendHeartbeat
<1>30. ASSUME NEW r \in Requests, NEW w \in Workers, TimesOut(r, w) PROVE Succeeded(q)'
  BY <1>30 DEF TimesOut, Fault, SendHeartbeat
<1>31. ASSUME NEW r \in Requests, NEW w \in Workers, UpdateProgress(r, w) PROVE Succeeded(q)'
  BY <1>31 DEF UpdateProgress
<1>32. ASSUME NEW r \in Requests, NEW w \in Workers, NEW k \in Calls, Merge(r, w, k) PROVE Succeeded(q)'
  BY <1>32 DEF Merge
<1>33. ASSUME NEW r \in Requests, NEW w \in Workers, NEW k \in Calls, CheckComplete(r, w, k) PROVE Succeeded(q)'
  BY <1>33 DEF CheckComplete
<1>34. ASSUME NEW r \in Requests, NEW w \in Workers, NEW k \in Calls, WriteOutcome(r, w, k) PROVE Succeeded(q)'
  BY <1>34 DEF WriteOutcome
<1>35. ASSUME NEW r \in Requests, NEW w \in Workers, NEW k \in Calls, CloseJob(r, w, k) PROVE Succeeded(q)'
  BY <1>35 DEF CloseJob
<1>36. ASSUME NEW r \in Requests, NEW w \in Workers, NEW k \in Calls, CopyTrials(r, w, k) PROVE Succeeded(q)'
  BY <1>36 DEF CopyTrials
<1>37. ASSUME Restart PROVE Succeeded(q)'
  BY <1>37 DEF Restart, Fault
<1>38. ASSUME UNCHANGED vars PROVE Succeeded(q)'
  BY <1>38 DEF vars
<1> HIDE DEF TypeOK, RerunInv, BuildAgrees, BatchAgrees, Succeeded, startVars, runVars, dataVars, syncVars, callVars
<1>39. QED
  BY <1>1, <1>2, <1>3, <1>4, <1>5, <1>6, <1>7, <1>8, <1>9, <1>10, <1>11, <1>12, <1>13, <1>14,
     <1>15, <1>16, <1>17, <1>18, <1>19, <1>20, <1>21, <1>22, <1>23, <1>24, <1>25, <1>26, <1>27,
     <1>28, <1>29, <1>30, <1>31, <1>32, <1>33, <1>34, <1>35, <1>36, <1>37, <1>38
  DEF Next, Start, SyncJob, Thread, Daemon, Handler, Faulty

\* A request whose batches have calls has left the lock and the build.
LEMMA CallsComeLater ==
  ASSUME TypeOK, BuildAgrees, BatchAgrees, NEW r \in Requests, NEW w \in Workers, NEW k \in Calls,
         call[r][w][k] # "none"
  PROVE  pc[r] \notin {"idle", "lock"} \cup Locked
<1>1. batch[r][w] \in {"running"} \cup Outcome
  BY DEF BatchAgrees
<1>2. batch[r][w] # "absent"
  BY <1>1 DEF Outcome
<1>3. QED BY <1>2 DEF BuildAgrees, Unbuilt

\* What a request has built, and the lock.
LEMMA StepBuild == TypeOK /\ RerunInv /\ [Next]_vars => BuildAgrees'
<1> SUFFICES ASSUME TypeOK, RerunInv, [Next]_vars PROVE BuildAgrees'
  OBVIOUS
<1>a. \A r \in Requests, w \in Workers, k \in Calls :
        call[r][w][k] # "none" => pc[r] \notin {"idle", "lock"} \cup Locked
  BY CallsComeLater DEF RerunInv
<1> USE RerunAssumption
    DEF TypeOK, RerunInv, BuildAgrees, BatchAgrees, Active, Outcome, Terminal, Calls, Locked, Unbuilt, Building, Merging, startVars, runVars, dataVars, syncVars, callVars
<1>1. ASSUME NEW r \in Requests, NEW x \in Runs, ResolveScope(r, x) PROVE BuildAgrees'
  BY <1>1 DEF ResolveScope, Exceptions
<1>2. ASSUME NEW r \in Requests, Enter(r) PROVE BuildAgrees'
  BY <1>2 DEF Enter
<1>3. ASSUME NEW r \in Requests, CheckDerived(r) PROVE BuildAgrees'
  <2>1. pc[r] = "children"
    BY <1>3 DEF CheckDerived
  <2>2. PICK s \in {"refused", "create"} : pc' = [pc EXCEPT ![r] = s]
    BY <1>3 DEF CheckDerived
  <2>3. s = "create" => \A q \in Requests : source[q] = source[r] => rstatus[q] # "syncing"
    BY <1>3, <2>1, <2>2 DEF CheckDerived, ActiveDerived
  <2>4. UNCHANGED <<source, scope, rstatus, job, listed, batch, rows, sync>>
    BY <1>3 DEF CheckDerived
  <2>5. \A q \in Requests \ {r} : pc'[q] = pc[q]
    BY <2>2
  <2>6. pc'[r] = s
    BY <2>2
  <2>7. \A q \in Requests : pc'[q] \in Locked => pc[q] \in Locked
    BY <2>1, <2>5, <2>6
  <2>8. ASSUME NEW p \in Requests, NEW q \in Requests, pc'[p] \in Locked, pc'[q] \in Locked PROVE p = q
    BY <2>7, <2>8
  <2>9. ASSUME NEW p \in Requests, NEW q \in Requests, pc'[q] \in Locked \ {"children"}, source'[p] = source'[q]
        PROVE  rstatus'[p] # "syncing"
    <3>1. CASE q = r
      BY <2>3, <2>4, <2>6, <2>9, <3>1
    <3>2. CASE q # r
      BY <2>4, <2>5, <2>9, <3>2
    <3>3. QED BY <3>1, <3>2
  <2>10. ASSUME NEW q \in Requests
         PROVE /\ pc'[q] \in {"idle", "lock", "children", "create"} => rstatus'[q] = "absent" /\ job'[q] = "none"
               /\ pc'[q] = "idle" => scope'[q] = {} /\ rows'[q] = [w \in Workers |-> NoRow]
               /\ pc'[q] # "idle" => scope'[q] # {} /\ source'[q] \in Runs
               /\ pc'[q] \in Unbuilt =>
                    \A w \in Workers : batch'[q][w] = "absent"
               /\ pc'[q] # "done" => sync'[q] = "none"
               /\ pc'[q] = "batches" => \A w \in Workers : batch'[q][w] \in {"absent", "pending_sync"}
               /\ pc'[q] \in {"launch", "done"} => listed'[q] = scope'[q]
    <3>1. CASE q = r
      BY <2>1, <2>4, <2>6, <3>1
    <3>2. CASE q # r
      BY <2>4, <2>5, <3>2
    <3>3. QED BY <3>1, <3>2
  <2> HIDE DEF TypeOK
  <2>11. QED BY <2>8, <2>9, <2>10
<1>4. ASSUME NEW r \in Requests, CreateRun(r) PROVE BuildAgrees'
  BY <1>4 DEF CreateRun
<1>5. ASSUME NEW r \in Requests, CreateRerunJob(r) PROVE BuildAgrees'
  BY <1>5 DEF CreateRerunJob
<1>6. ASSUME NEW r \in Requests, MarkSyncing(r) PROVE BuildAgrees'
  BY <1>6 DEF MarkSyncing
<1>7. ASSUME NEW r \in Requests, CopyJobs(r) PROVE BuildAgrees'
  BY <1>7 DEF CopyJobs
<1>8. ASSUME NEW r \in Requests, ClonePrimaryBatches(r) PROVE BuildAgrees'
  BY <1>8 DEF ClonePrimaryBatches
<1>9. ASSUME NEW r \in Requests, ListBatches(r) PROVE BuildAgrees'
  BY <1>9 DEF ListBatches
<1>10. ASSUME NEW r \in Requests, Launch(r) PROVE BuildAgrees'
  BY <1>10 DEF Launch
<1>11. ASSUME NEW r \in Requests, FailRun(r) PROVE BuildAgrees'
  BY <1>11 DEF FailRun
<1>12. ASSUME NEW r \in Requests, FailJob(r) PROVE BuildAgrees'
  BY <1>12 DEF FailJob
<1>13. ASSUME NEW r \in Requests, BuildFails(r) PROVE BuildAgrees'
  BY <1>13 DEF BuildFails, Fault
<1>14. ASSUME NEW r \in Requests, BeginSync(r) PROVE BuildAgrees'
  BY <1>14 DEF BeginSync
<1>15. ASSUME NEW r \in Requests, AllPromoted(r) PROVE BuildAgrees'
  BY <1>15 DEF AllPromoted
<1>16. ASSUME NEW r \in Requests, Join(r) PROVE BuildAgrees'
  BY <1>16 DEF Join
<1>17. ASSUME NEW r \in Requests, WriteSyncStatus(r) PROVE BuildAgrees'
  BY <1>17 DEF WriteSyncStatus
<1>18. ASSUME NEW r \in Requests, WriteSyncJob(r) PROVE BuildAgrees'
  BY <1>18 DEF WriteSyncJob
<1>19. ASSUME NEW r \in Requests, NEW w \in Workers, CreateRerunBatch(r, w) PROVE BuildAgrees'
  BY <1>19 DEF CreateRerunBatch
<1>20. ASSUME NEW r \in Requests, NEW w \in Workers, PathsMissing(r, w) PROVE BuildAgrees'
  BY <1>20 DEF PathsMissing, Fault
<1>21. ASSUME NEW r \in Requests, NEW w \in Workers, PromoteAtOnce(r, w) PROVE BuildAgrees'
  BY <1>21 DEF PromoteAtOnce
<1>22. ASSUME NEW r \in Requests, NEW w \in Workers, CopyToWorker(r, w) PROVE BuildAgrees'
  BY <1>22 DEF CopyToWorker
<1>23. ASSUME NEW r \in Requests, NEW w \in Workers, Promote(r, w) PROVE BuildAgrees'
  BY <1>23 DEF Promote
<1>24. ASSUME NEW r \in Requests, NEW w \in Workers, CopyFails(r, w) PROVE BuildAgrees'
  BY <1>24 DEF CopyFails, Fault
<1>25. ASSUME NEW r \in Requests, NEW w \in Workers, MarkSyncFailed(r, w) PROVE BuildAgrees'
  BY <1>25 DEF MarkSyncFailed
<1>26. ASSUME NEW r \in Requests, NEW w \in Workers, Claim(r, w) PROVE BuildAgrees'
  BY <1>26 DEF Claim
<1>27. ASSUME NEW r \in Requests, NEW w \in Workers, ExecutorEnds(r, w) PROVE BuildAgrees'
  BY <1>27 DEF ExecutorEnds
<1>28. ASSUME NEW r \in Requests, NEW w \in Workers, EndsWithoutCases(r, w) PROVE BuildAgrees'
  BY <1>28 DEF EndsWithoutCases, Fault
<1>29. ASSUME NEW r \in Requests, NEW w \in Workers, Answered(r, w) PROVE BuildAgrees'
  BY <1>29 DEF Answered, SendHeartbeat
<1>30. ASSUME NEW r \in Requests, NEW w \in Workers, TimesOut(r, w) PROVE BuildAgrees'
  BY <1>30 DEF TimesOut, Fault, SendHeartbeat
<1>31. ASSUME NEW r \in Requests, NEW w \in Workers, UpdateProgress(r, w) PROVE BuildAgrees'
  BY <1>31 DEF UpdateProgress
<1>32. ASSUME NEW r \in Requests, NEW w \in Workers, NEW k \in Calls, Merge(r, w, k) PROVE BuildAgrees'
  <2>a. call[r][w][k] # "none"
    BY <1>32 DEF Merge
  <2>1. pc[r] \notin {"idle", "lock"} \cup Locked
    BY <1>a, <2>a
  <2>2. QED BY <1>32, <2>1 DEF Merge
<1>33. ASSUME NEW r \in Requests, NEW w \in Workers, NEW k \in Calls, CheckComplete(r, w, k) PROVE BuildAgrees'
  BY <1>33 DEF CheckComplete
<1>34. ASSUME NEW r \in Requests, NEW w \in Workers, NEW k \in Calls, WriteOutcome(r, w, k) PROVE BuildAgrees'
  <2>a. call[r][w][k] # "none"
    BY <1>34 DEF WriteOutcome
  <2>1. pc[r] \notin {"idle", "lock"} \cup Locked
    BY <1>a, <2>a
  <2>2. verdict[r][w][k] \in Outcome
    BY <1>34 DEF WriteOutcome
  <2>3. QED BY <1>34, <2>1, <2>2 DEF WriteOutcome
<1>35. ASSUME NEW r \in Requests, NEW w \in Workers, NEW k \in Calls, CloseJob(r, w, k) PROVE BuildAgrees'
  <2>a. call[r][w][k] # "none"
    BY <1>35 DEF CloseJob
  <2>1. pc[r] \notin {"idle", "lock"} \cup Locked
    BY <1>a, <2>a
  <2>2. QED BY <1>35, <2>1 DEF CloseJob
<1>36. ASSUME NEW r \in Requests, NEW w \in Workers, NEW k \in Calls, CopyTrials(r, w, k) PROVE BuildAgrees'
  BY <1>36 DEF CopyTrials
<1>37. ASSUME Restart PROVE BuildAgrees'
  BY <1>37 DEF Restart, Fault
<1>38. ASSUME UNCHANGED vars PROVE BuildAgrees'
  BY <1>38 DEF vars
<1> HIDE DEF BuildAgrees
<1>39. QED
  BY <1>1, <1>2, <1>3, <1>4, <1>5, <1>6, <1>7, <1>8, <1>9, <1>10, <1>11, <1>12, <1>13, <1>14,
     <1>15, <1>16, <1>17, <1>18, <1>19, <1>20, <1>21, <1>22, <1>23, <1>24, <1>25, <1>26, <1>27,
     <1>28, <1>29, <1>30, <1>31, <1>32, <1>33, <1>34, <1>35, <1>36, <1>37, <1>38
  DEF Next, Start, SyncJob, Thread, Daemon, Handler, Faulty

\* The batches, their sync, their daemon and their handlers.
LEMMA StepBatch == TypeOK /\ RerunInv /\ [Next]_vars => BatchAgrees'
<1> SUFFICES ASSUME TypeOK, RerunInv, [Next]_vars PROVE BatchAgrees'
  OBVIOUS
<1>a. \A q \in Requests : Succeeded(q) => Succeeded(q)'
  BY StepSucceeded
<1> USE RerunAssumption, <1>a
    DEF TypeOK, RerunInv, BuildAgrees, BatchAgrees, Active, Outcome, Terminal, Calls, Locked, Unbuilt, Building, Merging, startVars, runVars, dataVars, syncVars, callVars
<1>1. ASSUME NEW r \in Requests, NEW x \in Runs, ResolveScope(r, x) PROVE BatchAgrees'
  BY <1>1 DEF ResolveScope
<1>2. ASSUME NEW r \in Requests, Enter(r) PROVE BatchAgrees'
  BY <1>2 DEF Enter
<1>3. ASSUME NEW r \in Requests, CheckDerived(r) PROVE BatchAgrees'
  BY <1>3 DEF CheckDerived
<1>4. ASSUME NEW r \in Requests, CreateRun(r) PROVE BatchAgrees'
  BY <1>4 DEF CreateRun
<1>5. ASSUME NEW r \in Requests, CreateRerunJob(r) PROVE BatchAgrees'
  BY <1>5 DEF CreateRerunJob
<1>6. ASSUME NEW r \in Requests, MarkSyncing(r) PROVE BatchAgrees'
  BY <1>6 DEF MarkSyncing
<1>7. ASSUME NEW r \in Requests, CopyJobs(r) PROVE BatchAgrees'
  BY <1>7 DEF CopyJobs
<1>8. ASSUME NEW r \in Requests, ClonePrimaryBatches(r) PROVE BatchAgrees'
  BY <1>8 DEF ClonePrimaryBatches
<1>9. ASSUME NEW r \in Requests, ListBatches(r) PROVE BatchAgrees'
  BY <1>9 DEF ListBatches
<1>10. ASSUME NEW r \in Requests, Launch(r) PROVE BatchAgrees'
  BY <1>10 DEF Launch
<1>11. ASSUME NEW r \in Requests, FailRun(r) PROVE BatchAgrees'
  BY <1>11 DEF FailRun
<1>12. ASSUME NEW r \in Requests, FailJob(r) PROVE BatchAgrees'
  BY <1>12 DEF FailJob
<1>13. ASSUME NEW r \in Requests, BuildFails(r) PROVE BatchAgrees'
  BY <1>13 DEF BuildFails, Fault
<1>14. ASSUME NEW r \in Requests, BeginSync(r) PROVE BatchAgrees'
  <2>1. CASE HasManifest
    <3> DEFINE f == [w \in Workers |-> IF w \in scope[r] THEN "copy" ELSE "none"]
    <3>1. thread' = [thread EXCEPT ![r] = f] /\ sync' = [sync EXCEPT ![r] = "join"]
      BY <1>14, <2>1 DEF BeginSync
    <3>2. \A w \in Workers : batch[r][w] \in {"absent", "pending_sync"}
      BY <1>14 DEF BeginSync
    <3>3. \A q \in Requests, w \in Workers : q # r => thread'[q][w] = thread[q][w] /\ sync'[q] = sync[q]
      BY <3>1
    <3>4. QED BY <1>14, <3>2, <3>3, <3>1 DEF BeginSync
  <2>2. CASE ~HasManifest
    BY <1>14, <2>2 DEF BeginSync
  <2>3. QED BY <2>1, <2>2
<1>15. ASSUME NEW r \in Requests, AllPromoted(r) PROVE BatchAgrees'
  BY <1>15 DEF AllPromoted
<1>16. ASSUME NEW r \in Requests, Join(r) PROVE BatchAgrees'
  BY <1>16 DEF Join
<1>17. ASSUME NEW r \in Requests, WriteSyncStatus(r) PROVE BatchAgrees'
  BY <1>17 DEF WriteSyncStatus
<1>18. ASSUME NEW r \in Requests, WriteSyncJob(r) PROVE BatchAgrees'
  BY <1>18 DEF WriteSyncJob
<1>19. ASSUME NEW r \in Requests, NEW w \in Workers, CreateRerunBatch(r, w) PROVE BatchAgrees'
  BY <1>19 DEF CreateRerunBatch
<1>20. ASSUME NEW r \in Requests, NEW w \in Workers, PathsMissing(r, w) PROVE BatchAgrees'
  BY <1>20 DEF PathsMissing, Fault
<1>21. ASSUME NEW r \in Requests, NEW w \in Workers, PromoteAtOnce(r, w) PROVE BatchAgrees'
  BY <1>21 DEF PromoteAtOnce
<1>22. ASSUME NEW r \in Requests, NEW w \in Workers, CopyToWorker(r, w) PROVE BatchAgrees'
  BY <1>22 DEF CopyToWorker
<1>23. ASSUME NEW r \in Requests, NEW w \in Workers, Promote(r, w) PROVE BatchAgrees'
  BY <1>23 DEF Promote
<1>24. ASSUME NEW r \in Requests, NEW w \in Workers, CopyFails(r, w) PROVE BatchAgrees'
  BY <1>24 DEF CopyFails, Fault
<1>25. ASSUME NEW r \in Requests, NEW w \in Workers, MarkSyncFailed(r, w) PROVE BatchAgrees'
  BY <1>25 DEF MarkSyncFailed
<1>26. ASSUME NEW r \in Requests, NEW w \in Workers, Claim(r, w) PROVE BatchAgrees'
  BY <1>26 DEF Claim
<1>27. ASSUME NEW r \in Requests, NEW w \in Workers, ExecutorEnds(r, w) PROVE BatchAgrees'
  <2>1. PICK ok \in BOOLEAN : trial' = [trial EXCEPT ![r][w] = [by |-> r, ok |-> ok]]
    BY <1>27 DEF ExecutorEnds
  <2>2. [by |-> r, ok |-> ok] \in Trial
    BY DEF Trial, Runs
  <2>3. \A q \in Requests, v \in Workers : trial[q][v] \in Trial => trial'[q][v] \in Trial
    BY <2>1, <2>2
  <2>4. trial'[r][w] \in Trial
    BY <2>1, <2>2
  <2>5. QED BY <1>27, <2>3, <2>4 DEF ExecutorEnds
<1>28. ASSUME NEW r \in Requests, NEW w \in Workers, EndsWithoutCases(r, w) PROVE BatchAgrees'
  BY <1>28 DEF EndsWithoutCases, Fault
<1>29. ASSUME NEW r \in Requests, NEW w \in Workers, Answered(r, w) PROVE BatchAgrees'
  BY <1>29 DEF Answered, SendHeartbeat
<1>30. ASSUME NEW r \in Requests, NEW w \in Workers, TimesOut(r, w) PROVE BatchAgrees'
  BY <1>30 DEF TimesOut, Fault, SendHeartbeat
<1>31. ASSUME NEW r \in Requests, NEW w \in Workers, UpdateProgress(r, w) PROVE BatchAgrees'
  BY <1>31 DEF UpdateProgress
<1>32. ASSUME NEW r \in Requests, NEW w \in Workers, NEW k \in Calls, Merge(r, w, k) PROVE BatchAgrees'
  BY <1>32 DEF Merge
<1>33. ASSUME NEW r \in Requests, NEW w \in Workers, NEW k \in Calls, CheckComplete(r, w, k) PROVE BatchAgrees'
  <2>1. CASE AllTerminal(r)
    <3>a. call[r][w][k] # "none" /\ batch[r][w] \notin {"absent", "pending_sync"}
      <4>1. call[r][w][k] = "check"
        BY <1>33 DEF CheckComplete
      <4> HIDE DEF TypeOK, BuildAgrees
      <4>2. QED BY <4>1
    <3>b. pc[r] # "idle" /\ listed[r] = scope[r]
      <4>1. pc[r] # "idle"
        BY <3>a DEF BuildAgrees
      <4> HIDE DEF TypeOK, BuildAgrees
      <4>2. QED BY <3>a, <4>1 DEF BatchAgrees
    <3>1. listed[r] = scope[r] /\ scope[r] # {}
      BY <3>b DEF BuildAgrees
    <3>2. FinalStatus(r) \in Outcome /\ (FinalStatus(r) = "succeeded" => Succeeded(r))
      BY <3>1 DEF FinalStatus, Succeeded
    <3>3. verdict' = [verdict EXCEPT ![r][w][k] = FinalStatus(r)] /\ call' = [call EXCEPT ![r][w][k] = "fields"]
      BY <1>33, <2>1 DEF CheckComplete
    <3>4. UNCHANGED <<scope, listed, batch, trial, sync, thread>>
      BY <1>33 DEF CheckComplete
    <3>5. call[r][w][k] = "check"
      BY <1>33 DEF CheckComplete
    <3>7. \A q \in Requests, v \in Workers, m \in Calls :
            \/ q = r /\ v = w /\ m = k /\ verdict'[q][v][m] = FinalStatus(r) /\ call'[q][v][m] = "fields"
            \/ verdict'[q][v][m] = verdict[q][v][m] /\ call'[q][v][m] = call[q][v][m]
      BY <3>3
    <3> HIDE DEF Succeeded, TypeOK
    <3>8. ASSUME NEW q \in Requests, NEW v \in Workers, NEW m \in Calls
          PROVE  /\ call'[q][v][m] # "none" => batch'[q][v] \in {"running"} \cup Outcome
                 /\ call'[q][v][m] \in Merging => trial'[q][v] \in Trial
                 /\ call'[q][v][m] \in {"fields", "close"} => verdict'[q][v][m] \in Outcome
                 /\ verdict'[q][v][m] = "succeeded" => Succeeded(q)'
      BY <3>2, <3>4, <3>5, <3>7
    <3>9. \A q \in Requests, v \in Workers :
            /\ call'[q][v]["heartbeat"] = "update" => call[q][v]["heartbeat"] = "update"
            /\ call'[q][v]["heartbeat"] = "none" => call[q][v]["heartbeat"] = "none"
            /\ call'[q][v]["archive"] # "none" => call[q][v]["archive"] # "none"
      BY <3>5, <3>7
    <3>10. QED BY <3>4, <3>8, <3>9
  <2>2. CASE ~AllTerminal(r)
    <3>1. verdict' = verdict /\ call' = [call EXCEPT ![r][w][k] = "files"]
      BY <1>33, <2>2 DEF CheckComplete
    <3>2. UNCHANGED <<scope, listed, batch, trial, sync, thread>> /\ call[r][w][k] = "check"
      BY <1>33 DEF CheckComplete
    <3>3. QED BY <3>1, <3>2
  <2>3. QED BY <2>1, <2>2
<1>34. ASSUME NEW r \in Requests, NEW w \in Workers, NEW k \in Calls, WriteOutcome(r, w, k) PROVE BatchAgrees'
  BY <1>34 DEF WriteOutcome
<1>35. ASSUME NEW r \in Requests, NEW w \in Workers, NEW k \in Calls, CloseJob(r, w, k) PROVE BatchAgrees'
  BY <1>35 DEF CloseJob
<1>36. ASSUME NEW r \in Requests, NEW w \in Workers, NEW k \in Calls, CopyTrials(r, w, k) PROVE BatchAgrees'
  BY <1>36 DEF CopyTrials
<1>37. ASSUME Restart PROVE BatchAgrees'
  BY <1>37 DEF Restart, Fault
<1>38. ASSUME UNCHANGED vars PROVE BatchAgrees'
  BY <1>38 DEF vars
<1> HIDE DEF BatchAgrees
<1>39. QED
  BY <1>1, <1>2, <1>3, <1>4, <1>5, <1>6, <1>7, <1>8, <1>9, <1>10, <1>11, <1>12, <1>13, <1>14,
     <1>15, <1>16, <1>17, <1>18, <1>19, <1>20, <1>21, <1>22, <1>23, <1>24, <1>25, <1>26, <1>27,
     <1>28, <1>29, <1>30, <1>31, <1>32, <1>33, <1>34, <1>35, <1>36, <1>37, <1>38
  DEF Next, Start, SyncJob, Thread, Daemon, Handler, Faulty

\* The rows of runs and jobs that say syncing or succeeded.
LEMMA StepOutcome == TypeOK /\ RerunInv /\ [Next]_vars => OneSyncing' /\ SucceededIsTrue'
<1> SUFFICES ASSUME TypeOK, RerunInv, [Next]_vars PROVE OneSyncing' /\ SucceededIsTrue'
  OBVIOUS
<1>a. \A q \in Requests : Succeeded(q) => Succeeded(q)'
  BY StepSucceeded
<1> USE RerunAssumption, <1>a
    DEF TypeOK, RerunInv, BuildAgrees, BatchAgrees, OneSyncing, SucceededIsTrue, Active, Outcome, Terminal, Calls, Locked, Unbuilt, Building, Merging, startVars, runVars, dataVars, syncVars, callVars
<1>1. ASSUME NEW r \in Requests, NEW x \in Runs, ResolveScope(r, x) PROVE (OneSyncing /\ SucceededIsTrue)'
  BY <1>1 DEF ResolveScope
<1>2. ASSUME NEW r \in Requests, Enter(r) PROVE (OneSyncing /\ SucceededIsTrue)'
  BY <1>2 DEF Enter
<1>3. ASSUME NEW r \in Requests, CheckDerived(r) PROVE (OneSyncing /\ SucceededIsTrue)'
  BY <1>3 DEF CheckDerived
<1>4. ASSUME NEW r \in Requests, CreateRun(r) PROVE (OneSyncing /\ SucceededIsTrue)'
  BY <1>4 DEF CreateRun
<1>5. ASSUME NEW r \in Requests, CreateRerunJob(r) PROVE (OneSyncing /\ SucceededIsTrue)'
  BY <1>5 DEF CreateRerunJob
<1>6. ASSUME NEW r \in Requests, MarkSyncing(r) PROVE (OneSyncing /\ SucceededIsTrue)'
  BY <1>6 DEF MarkSyncing
<1>7. ASSUME NEW r \in Requests, CopyJobs(r) PROVE (OneSyncing /\ SucceededIsTrue)'
  BY <1>7 DEF CopyJobs
<1>8. ASSUME NEW r \in Requests, ClonePrimaryBatches(r) PROVE (OneSyncing /\ SucceededIsTrue)'
  BY <1>8 DEF ClonePrimaryBatches
<1>9. ASSUME NEW r \in Requests, ListBatches(r) PROVE (OneSyncing /\ SucceededIsTrue)'
  BY <1>9 DEF ListBatches
<1>10. ASSUME NEW r \in Requests, Launch(r) PROVE (OneSyncing /\ SucceededIsTrue)'
  BY <1>10 DEF Launch
<1>11. ASSUME NEW r \in Requests, FailRun(r) PROVE (OneSyncing /\ SucceededIsTrue)'
  BY <1>11 DEF FailRun
<1>12. ASSUME NEW r \in Requests, FailJob(r) PROVE (OneSyncing /\ SucceededIsTrue)'
  BY <1>12 DEF FailJob
<1>13. ASSUME NEW r \in Requests, BuildFails(r) PROVE (OneSyncing /\ SucceededIsTrue)'
  BY <1>13 DEF BuildFails, Fault
<1>14. ASSUME NEW r \in Requests, BeginSync(r) PROVE (OneSyncing /\ SucceededIsTrue)'
  BY <1>14 DEF BeginSync
<1>15. ASSUME NEW r \in Requests, AllPromoted(r) PROVE (OneSyncing /\ SucceededIsTrue)'
  BY <1>15 DEF AllPromoted
<1>16. ASSUME NEW r \in Requests, Join(r) PROVE (OneSyncing /\ SucceededIsTrue)'
  BY <1>16 DEF Join
<1>17. ASSUME NEW r \in Requests, WriteSyncStatus(r) PROVE (OneSyncing /\ SucceededIsTrue)'
  BY <1>17 DEF WriteSyncStatus
<1>18. ASSUME NEW r \in Requests, WriteSyncJob(r) PROVE (OneSyncing /\ SucceededIsTrue)'
  BY <1>18 DEF WriteSyncJob
<1>19. ASSUME NEW r \in Requests, NEW w \in Workers, CreateRerunBatch(r, w) PROVE (OneSyncing /\ SucceededIsTrue)'
  BY <1>19 DEF CreateRerunBatch
<1>20. ASSUME NEW r \in Requests, NEW w \in Workers, PathsMissing(r, w) PROVE (OneSyncing /\ SucceededIsTrue)'
  BY <1>20 DEF PathsMissing, Fault
<1>21. ASSUME NEW r \in Requests, NEW w \in Workers, PromoteAtOnce(r, w) PROVE (OneSyncing /\ SucceededIsTrue)'
  BY <1>21 DEF PromoteAtOnce
<1>22. ASSUME NEW r \in Requests, NEW w \in Workers, CopyToWorker(r, w) PROVE (OneSyncing /\ SucceededIsTrue)'
  BY <1>22 DEF CopyToWorker
<1>23. ASSUME NEW r \in Requests, NEW w \in Workers, Promote(r, w) PROVE (OneSyncing /\ SucceededIsTrue)'
  BY <1>23 DEF Promote
<1>24. ASSUME NEW r \in Requests, NEW w \in Workers, CopyFails(r, w) PROVE (OneSyncing /\ SucceededIsTrue)'
  BY <1>24 DEF CopyFails, Fault
<1>25. ASSUME NEW r \in Requests, NEW w \in Workers, MarkSyncFailed(r, w) PROVE (OneSyncing /\ SucceededIsTrue)'
  BY <1>25 DEF MarkSyncFailed
<1>26. ASSUME NEW r \in Requests, NEW w \in Workers, Claim(r, w) PROVE (OneSyncing /\ SucceededIsTrue)'
  BY <1>26 DEF Claim
<1>27. ASSUME NEW r \in Requests, NEW w \in Workers, ExecutorEnds(r, w) PROVE (OneSyncing /\ SucceededIsTrue)'
  BY <1>27 DEF ExecutorEnds
<1>28. ASSUME NEW r \in Requests, NEW w \in Workers, EndsWithoutCases(r, w) PROVE (OneSyncing /\ SucceededIsTrue)'
  BY <1>28 DEF EndsWithoutCases, Fault
<1>29. ASSUME NEW r \in Requests, NEW w \in Workers, Answered(r, w) PROVE (OneSyncing /\ SucceededIsTrue)'
  BY <1>29 DEF Answered, SendHeartbeat
<1>30. ASSUME NEW r \in Requests, NEW w \in Workers, TimesOut(r, w) PROVE (OneSyncing /\ SucceededIsTrue)'
  BY <1>30 DEF TimesOut, Fault, SendHeartbeat
<1>31. ASSUME NEW r \in Requests, NEW w \in Workers, UpdateProgress(r, w) PROVE (OneSyncing /\ SucceededIsTrue)'
  BY <1>31 DEF UpdateProgress
<1>32. ASSUME NEW r \in Requests, NEW w \in Workers, NEW k \in Calls, Merge(r, w, k) PROVE (OneSyncing /\ SucceededIsTrue)'
  BY <1>32 DEF Merge
<1>33. ASSUME NEW r \in Requests, NEW w \in Workers, NEW k \in Calls, CheckComplete(r, w, k) PROVE (OneSyncing /\ SucceededIsTrue)'
  BY <1>33 DEF CheckComplete
<1>34. ASSUME NEW r \in Requests, NEW w \in Workers, NEW k \in Calls, WriteOutcome(r, w, k) PROVE (OneSyncing /\ SucceededIsTrue)'
  <2>1. verdict[r][w][k] \in Outcome /\ (verdict[r][w][k] = "succeeded" => Succeeded(r))
    <3>1. call[r][w][k] \in {"fields", "close"}
      BY <1>34 DEF WriteOutcome
    <3> HIDE DEF TypeOK, BuildAgrees, OneSyncing, SucceededIsTrue
    <3>2. QED BY <3>1
  <2>2. rstatus' = [rstatus EXCEPT ![r] = verdict[r][w][k]] /\ UNCHANGED <<source, job>>
    BY <1>34 DEF WriteOutcome
  <2> HIDE DEF BuildAgrees, BatchAgrees
  <2>3. QED BY <2>1, <2>2
<1>35. ASSUME NEW r \in Requests, NEW w \in Workers, NEW k \in Calls, CloseJob(r, w, k) PROVE (OneSyncing /\ SucceededIsTrue)'
  BY <1>35 DEF CloseJob
<1>36. ASSUME NEW r \in Requests, NEW w \in Workers, NEW k \in Calls, CopyTrials(r, w, k) PROVE (OneSyncing /\ SucceededIsTrue)'
  BY <1>36 DEF CopyTrials
<1>37. ASSUME Restart PROVE (OneSyncing /\ SucceededIsTrue)'
  BY <1>37 DEF Restart, Fault
<1>38. ASSUME UNCHANGED vars PROVE (OneSyncing /\ SucceededIsTrue)'
  BY <1>38 DEF vars
<1> HIDE DEF OneSyncing, SucceededIsTrue
<1>39. QED
  BY <1>1, <1>2, <1>3, <1>4, <1>5, <1>6, <1>7, <1>8, <1>9, <1>10, <1>11, <1>12, <1>13, <1>14,
     <1>15, <1>16, <1>17, <1>18, <1>19, <1>20, <1>21, <1>22, <1>23, <1>24, <1>25, <1>26, <1>27,
     <1>28, <1>29, <1>30, <1>31, <1>32, <1>33, <1>34, <1>35, <1>36, <1>37, <1>38
  DEF Next, Start, SyncJob, Thread, Daemon, Handler, Faulty

\* Rows, job directories and trials change in five operations only.
LEMMA DataSteps ==
  ASSUME [Next]_vars
  PROVE  \/ UNCHANGED dataVars
         \/ \E r \in Requests : CopyJobs(r) \/ ClonePrimaryBatches(r)
         \/ \E r \in Requests, w \in Workers : ExecutorEnds(r, w)
         \/ \E r \in Requests, w \in Workers, k \in Calls : Merge(r, w, k) \/ CopyTrials(r, w, k)
<1>1. ASSUME NEW r \in Requests, NEW x \in Runs, ResolveScope(r, x) PROVE UNCHANGED dataVars
  BY <1>1 DEF ResolveScope
<1>2. ASSUME NEW r \in Requests, Start(r) PROVE UNCHANGED dataVars \/ CopyJobs(r) \/ ClonePrimaryBatches(r)
  <2>1. Enter(r) \/ CheckDerived(r) \/ CreateRun(r) \/ CreateRerunJob(r) \/ MarkSyncing(r) => UNCHANGED dataVars
    BY DEF Enter, CheckDerived, CreateRun, CreateRerunJob, MarkSyncing
  <2>2. (\E w \in Workers : CreateRerunBatch(r, w)) \/ ListBatches(r) \/ Launch(r) => UNCHANGED dataVars
    BY DEF CreateRerunBatch, ListBatches, Launch
  <2>3. FailRun(r) \/ FailJob(r) => UNCHANGED dataVars
    BY DEF FailRun, FailJob
  <2>4. QED BY <1>2, <2>1, <2>2, <2>3 DEF Start
<1>3. ASSUME NEW r \in Requests, SyncJob(r) PROVE UNCHANGED dataVars
  <2>1. BeginSync(r) \/ AllPromoted(r) \/ Join(r) => UNCHANGED dataVars
    BY DEF BeginSync, AllPromoted, Join
  <2>2. WriteSyncStatus(r) \/ WriteSyncJob(r) \/ (\E w \in Workers : PromoteAtOnce(r, w)) => UNCHANGED dataVars
    BY DEF WriteSyncStatus, WriteSyncJob, PromoteAtOnce
  <2>3. QED BY <1>3, <2>1, <2>2 DEF SyncJob
<1>4. ASSUME NEW r \in Requests, NEW w \in Workers, Thread(r, w) PROVE UNCHANGED dataVars
  BY <1>4 DEF Thread, CopyToWorker, Promote, MarkSyncFailed
<1>5. ASSUME NEW r \in Requests, NEW w \in Workers, Daemon(r, w) PROVE UNCHANGED dataVars \/ ExecutorEnds(r, w)
  BY <1>5 DEF Daemon, Claim, Answered, SendHeartbeat
<1>6. ASSUME NEW r \in Requests, NEW w \in Workers, Handler(r, w)
      PROVE  UNCHANGED dataVars \/ \E k \in Calls : Merge(r, w, k) \/ CopyTrials(r, w, k)
  <2>1. UpdateProgress(r, w) => UNCHANGED dataVars
    BY DEF UpdateProgress
  <2>2. ASSUME NEW k \in Calls, CheckComplete(r, w, k) \/ WriteOutcome(r, w, k) \/ CloseJob(r, w, k)
        PROVE  UNCHANGED dataVars
    BY <2>2 DEF CheckComplete, WriteOutcome, CloseJob
  <2>3. QED BY <1>6, <2>1, <2>2 DEF Handler
<1>7. ASSUME Faulty PROVE UNCHANGED dataVars
  <2>1. Restart \/ (\E r \in Requests : BuildFails(r)) => UNCHANGED dataVars
    BY DEF Restart, BuildFails
  <2>2. ASSUME NEW r \in Requests, NEW w \in Workers,
               PathsMissing(r, w) \/ CopyFails(r, w) \/ EndsWithoutCases(r, w) \/ TimesOut(r, w)
        PROVE  UNCHANGED dataVars
    BY <2>2 DEF PathsMissing, CopyFails, EndsWithoutCases, TimesOut, SendHeartbeat
  <2>3. QED BY <1>7, <2>1, <2>2 DEF Faulty
<1>8. UNCHANGED vars => UNCHANGED dataVars
  BY DEF vars
<1>9. QED
  <2>1. CASE UNCHANGED vars
    BY <2>1, <1>8
  <2>2. CASE \E r \in Requests, x \in Runs : ResolveScope(r, x)
    BY <2>2, <1>1
  <2>3. CASE \E r \in Requests : Start(r) \/ SyncJob(r)
    BY <2>3, <1>2, <1>3
  <2>4. CASE \E r \in Requests, w \in Workers : Thread(r, w) \/ Daemon(r, w) \/ Handler(r, w)
    <3>1. PICK r \in Requests, w \in Workers : Thread(r, w) \/ Daemon(r, w) \/ Handler(r, w)
      BY <2>4
    <3>2. UNCHANGED dataVars \/ ExecutorEnds(r, w) \/ \E k \in Calls : Merge(r, w, k) \/ CopyTrials(r, w, k)
      BY <3>1, <1>4, <1>5, <1>6
    <3>3. QED BY <3>2
  <2>5. CASE Faulty
    BY <2>5, <1>7
  <2>6. QED BY <2>1, <2>2, <2>3, <2>4, <2>5 DEF Next

\* What a request has cloned, and that a batch has called, is never taken back.
LEMMA NeverBack ==
  ASSUME TypeOK, [Next]_vars
  PROVE  /\ \A q \in Requests : pc'[q] \in Unbuilt => pc[q] \in Unbuilt
         /\ \A q \in Requests, v \in Workers, m \in Calls : call[q][v][m] # "none" => call'[q][v][m] # "none"
<1> DEFINE Keeps ==
      /\ \A q \in Requests : pc'[q] \in Unbuilt => pc[q] \in Unbuilt
      /\ \A q \in Requests, v \in Workers, m \in Calls : call[q][v][m] # "none" => call'[q][v][m] # "none"
<1>a. /\ pc \in [Requests -> {"idle", "lock", "fail", "failjob", "done", "refused", "lost"} \cup Locked \cup Building]
      /\ call \in [Requests -> [Workers -> [Calls -> {"none", "update", "done", "lost"} \cup Merging]]]
  BY DEF TypeOK
<1>b. "archive" \in Calls /\ "heartbeat" \in Calls
  BY DEF Calls
<1>c. UNCHANGED <<pc, call>> => Keeps
  OBVIOUS
<1> USE <1>a, <1>b DEF Locked, Unbuilt, Building, Merging
<1>1. ASSUME NEW r \in Requests, NEW x \in Runs, ResolveScope(r, x) PROVE Keeps
  BY <1>1 DEF ResolveScope, callVars
<1>2. ASSUME NEW r \in Requests, Start(r) PROVE Keeps
  <2>1. Enter(r) \/ CheckDerived(r) => Keeps
    BY DEF Enter, CheckDerived, callVars
  <2>2. CreateRun(r) \/ CreateRerunJob(r) \/ MarkSyncing(r) => Keeps
    BY DEF CreateRun, CreateRerunJob, MarkSyncing, callVars
  <2>3. CopyJobs(r) \/ ClonePrimaryBatches(r) => Keeps
    BY DEF CopyJobs, ClonePrimaryBatches, callVars
  <2>4. (\E w \in Workers : CreateRerunBatch(r, w)) => Keeps
    BY DEF CreateRerunBatch, startVars, callVars
  <2>5. ListBatches(r) \/ Launch(r) => Keeps
    BY DEF ListBatches, Launch, callVars
  <2>6. FailRun(r) \/ FailJob(r) => Keeps
    BY DEF FailRun, FailJob, callVars
  <2> HIDE DEF Keeps
  <2>7. QED BY <1>2, <2>1, <2>2, <2>3, <2>4, <2>5, <2>6 DEF Start
<1>3. ASSUME NEW r \in Requests, SyncJob(r) PROVE UNCHANGED <<pc, call>>
  <2>1. BeginSync(r) \/ AllPromoted(r) \/ Join(r) => UNCHANGED <<pc, call>>
    BY DEF BeginSync, AllPromoted, Join, startVars, callVars
  <2>2. WriteSyncStatus(r) \/ WriteSyncJob(r) \/ (\E w \in Workers : PromoteAtOnce(r, w)) => UNCHANGED <<pc, call>>
    BY DEF WriteSyncStatus, WriteSyncJob, PromoteAtOnce, startVars, callVars
  <2>3. QED BY <1>3, <2>1, <2>2 DEF SyncJob
<1>4. ASSUME NEW r \in Requests, NEW w \in Workers, Thread(r, w) PROVE UNCHANGED <<pc, call>>
  BY <1>4 DEF Thread, CopyToWorker, Promote, MarkSyncFailed, startVars, callVars
<1>5. ASSUME NEW r \in Requests, NEW w \in Workers, Daemon(r, w) PROVE Keeps
  <2>1. Claim(r, w) => UNCHANGED <<pc, call>>
    BY DEF Claim, startVars, callVars
  <2>2. ExecutorEnds(r, w) => Keeps
    BY DEF ExecutorEnds, startVars
  <2>3. Answered(r, w) => Keeps
    BY DEF Answered, SendHeartbeat, startVars
  <2> HIDE DEF Keeps
  <2>4. QED BY <1>5, <1>c, <2>1, <2>2, <2>3 DEF Daemon
<1>6. ASSUME NEW r \in Requests, NEW w \in Workers, Handler(r, w) PROVE Keeps
  <2>a. ASSUME NEW k \in Calls, NEW s, s # "none", call' = [call EXCEPT ![r][w][k] = s], UNCHANGED pc PROVE Keeps
    BY <2>a
  <2>1. UpdateProgress(r, w) => Keeps
    BY DEF UpdateProgress, startVars
  <2> HIDE DEF Keeps
  <2>2. ASSUME NEW k \in Calls, Merge(r, w, k) PROVE Keeps
    BY <2>2, <2>a DEF Merge, startVars
  <2>3. ASSUME NEW k \in Calls, CopyTrials(r, w, k) PROVE Keeps
    BY <2>3, <2>a DEF CopyTrials, startVars
  <2>4. ASSUME NEW k \in Calls, CheckComplete(r, w, k) PROVE Keeps
    BY <2>4, <2>a DEF CheckComplete, startVars
  <2>5. ASSUME NEW k \in Calls, WriteOutcome(r, w, k) PROVE Keeps
    BY <2>5, <2>a DEF WriteOutcome, startVars
  <2>6. ASSUME NEW k \in Calls, CloseJob(r, w, k) PROVE Keeps
    BY <2>6, <2>a DEF CloseJob, startVars
  <2>7. QED BY <1>6, <2>1, <2>2, <2>3, <2>4, <2>5, <2>6 DEF Handler
<1>7. ASSUME Faulty PROVE Keeps
  <2>1. Restart => Keeps
    BY DEF Restart
  <2>2. ASSUME NEW r \in Requests, BuildFails(r) PROVE Keeps
    BY <2>2 DEF BuildFails, callVars
  <2>3. ASSUME NEW r \in Requests, NEW w \in Workers, PathsMissing(r, w) \/ CopyFails(r, w) PROVE Keeps
    BY <2>3 DEF PathsMissing, CopyFails, startVars, callVars
  <2>4. ASSUME NEW r \in Requests, NEW w \in Workers, EndsWithoutCases(r, w) PROVE Keeps
    BY <2>4 DEF EndsWithoutCases, startVars
  <2>5. ASSUME NEW r \in Requests, NEW w \in Workers, TimesOut(r, w) PROVE Keeps
    BY <2>5 DEF TimesOut, SendHeartbeat, startVars
  <2> HIDE DEF Keeps
  <2>6. QED BY <1>7, <2>1, <2>2, <2>3, <2>4, <2>5 DEF Faulty
<1>8. UNCHANGED vars => UNCHANGED <<pc, call>>
  BY DEF vars, startVars, callVars
<1> HIDE DEF Keeps
<1>9. Keeps
  BY <1>c, <1>1, <1>2, <1>3, <1>4, <1>5, <1>6, <1>7, <1>8 DEF Next
<1>10. QED BY <1>9 DEF Keeps

\* A merge leaves the trials of other keys as they are, and of its own key the
\* merged trial alone.
LEMMA MergedRows ==
  ASSUME NEW row \in [Trial -> Nat], NEW t \in Trial, NEW u \in Trial
  PROVE  /\ u.by # t.by => Merged(row, t)[u] = row[u]
         /\ u.by = t.by => Merged(row, t)[u] = IF u = t THEN 1 ELSE 0
BY DEF Merged, MergeKey

\* The clones have nothing of a rerun but what its handlers merge.
LEMMA StepMerge == TypeOK /\ RerunInv /\ [Next]_vars => MergeAgrees'
<1> SUFFICES ASSUME TypeOK, RerunInv, [Next]_vars PROVE MergeAgrees'
  OBVIOUS
<1>a. /\ rows \in [Runs -> [Workers -> [Trial -> Nat]]]
      /\ trial \in [Requests -> [Workers -> Trial \cup {None}]]
      /\ Requests \subseteq Runs
  BY DEF TypeOK, Runs
<1>b. MergeAgrees /\ BuildAgrees /\ BatchAgrees
  BY DEF RerunInv
<1>c. /\ \A q \in Requests : pc'[q] \in Unbuilt => pc[q] \in Unbuilt
      /\ \A q \in Requests, v \in Workers, m \in Calls : call[q][v][m] # "none" => call'[q][v][m] # "none"
  BY NeverBack
<1>1. CASE UNCHANGED <<rows, trial>>
  BY <1>1, <1>b, <1>c DEF MergeAgrees
<1>2. ASSUME NEW r \in Requests, ClonePrimaryBatches(r) PROVE MergeAgrees'
  <2>1. /\ pc[r] = "clone" /\ pc'[r] = "batches" /\ UNCHANGED trial
        /\ rows' = [rows EXCEPT ![r] = rows[source[r]]] /\ source[r] \in Runs
    BY <1>2, <1>b DEF ClonePrimaryBatches, TypeOK, BuildAgrees
  <2>2. \A x \in Runs : rows'[x] = IF x = r THEN rows[source[r]] ELSE rows[x]
    BY <2>1, <1>a
  <2>3. pc[r] \in Unbuilt /\ pc'[r] \notin Unbuilt
    BY <2>1 DEF Unbuilt, Locked
  <2>4. ASSUME NEW q \in Requests, pc'[q] \in Unbuilt
        PROVE  /\ rows'[q] = [w \in Workers |-> NoRow]
               /\ \A x \in Runs, w \in Workers : \A t \in Trial : t.by = q => rows'[x][w][t] = 0
    <3>1. q # r /\ pc[q] \in Unbuilt
      BY <1>c, <2>3, <2>4
    <3>2. QED BY <3>1, <2>1, <2>2, <1>a, <1>b DEF MergeAgrees
  <2>5. ASSUME NEW q \in Requests, NEW w \in Workers, NEW t \in Trial, t.by = q, rows'[q][w][t] > 0
        PROVE  t = trial'[q][w] /\ \E k \in Calls : call'[q][w][k] # "none"
    <3>1. CASE q = r
      <4>1. rows[source[r]][w][t] = 0
        BY <2>1, <2>3, <2>5, <3>1, <1>b DEF MergeAgrees
      <4>2. QED BY <4>1, <2>2, <2>5, <3>1, <1>a
    <3>2. CASE q # r
      BY <3>2, <2>1, <2>2, <2>5, <1>a, <1>b, <1>c DEF MergeAgrees
    <3>3. QED BY <3>1, <3>2
  <2>6. QED BY <2>1, <2>4, <2>5, <1>b DEF MergeAgrees
<1>3. ASSUME NEW r \in Requests, NEW w \in Workers, ExecutorEnds(r, w) PROVE MergeAgrees'
  <2>1. PICK ok \in BOOLEAN : trial' = [trial EXCEPT ![r][w] = [by |-> r, ok |-> ok]]
    BY <1>3 DEF ExecutorEnds
  <2>2. UNCHANGED rows /\ \A k \in Calls : call[r][w][k] = "none"
    BY <1>3 DEF ExecutorEnds
  <2>3. \A t \in Trial : t.by = r => ~(rows[r][w][t] > 0)
    BY <2>2, <1>b DEF MergeAgrees
  <2>4. trial'[r][w] = [by |-> r, ok |-> ok]
    BY <2>1, <1>a
  <2>5. \A q \in Requests, v \in Workers : ~(q = r /\ v = w) => trial'[q][v] = trial[q][v]
    BY <2>1, <1>a
  <2>6. ASSUME NEW q \in Requests, NEW v \in Workers
        PROVE  /\ trial'[q][v] # None => trial'[q][v].by = q
               /\ \A t \in Trial : t.by = q /\ rows'[q][v][t] > 0 =>
                    t = trial'[q][v] /\ \E k \in Calls : call'[q][v][k] # "none"
    <3>1. CASE q = r /\ v = w
      BY <3>1, <2>2, <2>3, <2>4
    <3>2. CASE ~(q = r /\ v = w)
      BY <3>2, <2>2, <2>5, <1>b, <1>c DEF MergeAgrees
    <3>3. QED BY <3>1, <3>2
  <2>7. QED BY <2>2, <2>6, <1>b, <1>c DEF MergeAgrees
<1>4. ASSUME NEW r \in Requests, NEW w \in Workers, NEW k \in Calls, Merge(r, w, k) PROVE MergeAgrees'
  <2> DEFINE new == Merged(rows[r][w], trial[r][w])
  <2>1. /\ call[r][w][k] = "merge" /\ UNCHANGED trial
        /\ rows' = [rows EXCEPT ![r][w] = new]
    BY <1>4 DEF Merge
  <2>2. trial[r][w] \in Trial /\ trial[r][w].by = r
    <3>1. trial[r][w] \in Trial
      BY <2>1, <1>b DEF BatchAgrees, Merging
    <3>2. trial[r][w] # None
      BY <3>1, RerunAssumption
    <3>3. QED BY <3>1, <3>2, <1>b DEF MergeAgrees
  <2>3. pc[r] \notin Unbuilt
    <3>1. batch[r][w] \in {"running"} \cup Outcome
      BY <2>1, <1>b DEF BatchAgrees
    <3>2. batch[r][w] # "absent"
      BY <3>1 DEF Outcome
    <3>3. QED BY <3>2, <1>b DEF BuildAgrees
  <2>4. \A t \in Trial : new[t] = IF t.by # r THEN rows[r][w][t] ELSE IF t = trial[r][w] THEN 1 ELSE 0
    <3>1. rows[r][w] \in [Trial -> Nat]
      BY <1>a
    <3>2. QED BY <2>2, <3>1, MergedRows
  <2> HIDE DEF new
  <2>5. \A x \in Runs, v \in Workers : rows'[x][v] = IF x = r /\ v = w THEN new ELSE rows[x][v]
    BY <2>1, <1>a
  <2>6. \A x \in Runs : x # r => rows'[x] = rows[x]
    BY <2>1, <1>a
  <2>7. ASSUME NEW q \in Requests, pc'[q] \in Unbuilt
        PROVE  /\ rows'[q] = [v \in Workers |-> NoRow]
               /\ \A x \in Runs, v \in Workers : \A t \in Trial : t.by = q => rows'[x][v][t] = 0
    <3>1. q # r /\ pc[q] \in Unbuilt
      BY <1>c, <2>3, <2>7
    <3>2. rows'[q] = [v \in Workers |-> NoRow]
      BY <3>1, <2>6, <1>a, <1>b DEF MergeAgrees
    <3>3. ASSUME NEW x \in Runs, NEW v \in Workers, NEW t \in Trial, t.by = q PROVE rows'[x][v][t] = 0
      <4>1. rows[x][v][t] = 0
        BY <3>1, <3>3, <1>b DEF MergeAgrees
      <4>2. CASE x = r /\ v = w
        BY <3>1, <3>3, <4>1, <4>2, <2>4, <2>5
      <4>3. CASE ~(x = r /\ v = w)
        BY <4>1, <4>3, <2>5
      <4>4. QED BY <4>2, <4>3
    <3>4. QED BY <3>2, <3>3
  <2>8. ASSUME NEW q \in Requests, NEW v \in Workers, NEW t \in Trial, t.by = q, rows'[q][v][t] > 0
        PROVE  t = trial'[q][v] /\ \E m \in Calls : call'[q][v][m] # "none"
    <3>1. CASE q = r /\ v = w
      <4>1. t = trial[r][w]
        BY <3>1, <2>4, <2>5, <2>8, <1>a
      <4>2. call'[r][w][k] # "none"
        BY <2>1, <1>c
      <4>3. QED BY <3>1, <4>1, <4>2, <2>1
    <3>2. CASE ~(q = r /\ v = w)
      BY <3>2, <2>1, <2>5, <2>8, <1>a, <1>b, <1>c DEF MergeAgrees
    <3>3. QED BY <3>1, <3>2
  <2>9. QED BY <2>1, <2>7, <2>8, <1>b DEF MergeAgrees
<1>5. ASSUME NEW r \in Requests, CopyJobs(r) PROVE UNCHANGED <<rows, trial>>
  BY <1>5 DEF CopyJobs
<1>6. ASSUME NEW r \in Requests, NEW w \in Workers, NEW k \in Calls, CopyTrials(r, w, k) PROVE UNCHANGED <<rows, trial>>
  BY <1>6 DEF CopyTrials
<1>7. UNCHANGED dataVars => UNCHANGED <<rows, trial>>
  BY DEF dataVars
<1>8. QED BY <1>1, <1>2, <1>3, <1>4, <1>5, <1>6, <1>7, DataSteps

LEMMA Inductive == Spec => [](TypeOK /\ RerunInv)
<1>1. TypeOK /\ RerunInv /\ [Next]_vars => (TypeOK /\ RerunInv)'
  BY StepType, StepBuild, StepBatch, StepOutcome, StepMerge DEF RerunInv
<1>2. QED BY InitRerun, <1>1, PTL DEF Spec

\* The types, for any number of requests, workers and faults.
THEOREM TypeCorrect == Spec => []TypeOK
BY Inductive, PTL

\* No two reruns of one run are being built or copied at the same time
\* (run_rerun_coordinator.py start_rerun, the block under _start_lock).
THEOREM OneSyncingAlways == Spec => []OneSyncing
BY Inductive, PTL DEF RerunInv

\* A rerun or a job that says succeeded has all its batches succeeded
\* (store.py finish_rerun_batch_if_complete), whatever fails and restarts.
THEOREM SucceededIsAlwaysTrue == Spec => []SucceededIsTrue
BY Inductive, PTL DEF RerunInv

\* What has been built, the lock, the batches and the clones agree, for any number
\* of requests, workers and faults (start_rerun, sync_rerun_job and the handlers).
THEOREM RerunInvariant == Spec => []RerunInv
BY Inductive, PTL

\* What a merge needs to know: whose trial it is, and which trial of that rerun the
\* clone may already have.
LEMMA MergeKnows ==
  ASSUME TypeOK, RerunInv, NEW r \in Requests, NEW w \in Workers, NEW k \in Calls, Merge(r, w, k)
  PROVE  /\ trial[r][w] \in Trial /\ trial[r][w].by = r
         /\ \A t \in Trial : t.by = r /\ rows[r][w][t] > 0 => t = trial[r][w]
         /\ \A x \in Runs, v \in Workers, t \in Trial :
              rows'[x][v][t] = IF x = r /\ v = w /\ t.by = r THEN IF t = trial[r][w] THEN 1 ELSE 0
                               ELSE rows[x][v][t]
<1>1. MergeAgrees /\ BatchAgrees
  BY DEF RerunInv
<1>2. trial[r][w] \in Trial
  BY <1>1 DEF Merge, BatchAgrees, Merging
<1>3. trial[r][w].by = r
  BY <1>1, <1>2, RerunAssumption DEF MergeAgrees
<1>4. rows[r][w] \in [Trial -> Nat]
  BY DEF TypeOK, Runs
<1>5. \A x \in Runs, v \in Workers :
        rows'[x][v] = IF x = r /\ v = w THEN Merged(rows[r][w], trial[r][w]) ELSE rows[x][v]
  BY DEF Merge, TypeOK, Runs
<1>6. \A t \in Trial : Merged(rows[r][w], trial[r][w])[t]
                       = IF t.by = r THEN IF t = trial[r][w] THEN 1 ELSE 0 ELSE rows[r][w][t]
  BY <1>2, <1>3, <1>4, MergedRows
<1>7. QED BY <1>1, <1>2, <1>3, <1>5, <1>6 DEF MergeAgrees

\* A clone takes the rows of another run in place of none.
LEMMA CloneKnows ==
  ASSUME TypeOK, RerunInv, NEW r \in Requests, ClonePrimaryBatches(r)
  PROVE  /\ source[r] \in Runs
         /\ \A w \in Workers, t \in Trial : rows[r][w][t] = 0
         /\ \A x \in Runs : rows'[x] = IF x = r THEN rows[source[r]] ELSE rows[x]
<1>1. MergeAgrees /\ BuildAgrees
  BY DEF RerunInv
<1>2. pc[r] \in Unbuilt /\ source[r] \in Runs
  BY <1>1 DEF ClonePrimaryBatches, Unbuilt, BuildAgrees
<1>3. \A w \in Workers, t \in Trial : rows[r][w][t] = 0
  BY <1>1, <1>2 DEF MergeAgrees, NoRow
<1>4. \A x \in Runs : rows'[x] = IF x = r THEN rows[source[r]] ELSE rows[x]
  BY DEF ClonePrimaryBatches, TypeOK
<1>5. QED BY <1>2, <1>3, <1>4

\* The rows of a run change by a clone or by a merge only.
LEMMA RowSteps ==
  ASSUME [Next]_vars
  PROVE  \/ UNCHANGED rows
         \/ \E r \in Requests : ClonePrimaryBatches(r)
         \/ \E r \in Requests, w \in Workers, k \in Calls : Merge(r, w, k)
<1>1. UNCHANGED dataVars => UNCHANGED rows
  BY DEF dataVars
<1>2. \A r \in Requests : CopyJobs(r) => UNCHANGED rows
  BY DEF CopyJobs
<1>3. \A r \in Requests, w \in Workers : ExecutorEnds(r, w) => UNCHANGED rows
  BY DEF ExecutorEnds
<1>4. \A r \in Requests, w \in Workers, k \in Calls : CopyTrials(r, w, k) => UNCHANGED rows
  BY DEF CopyTrials
<1>5. QED BY <1>1, <1>2, <1>3, <1>4, DataSteps

\* No trial is in a batch twice, and no two of one execution are: the archive and
\* the final heartbeat of a batch merge the same trial (store.py
\* merge_rerun_cases_into_parent), at the same time after a time-out.
THEOREM NoTrialIsTwice == Spec => []NoTrialTwice
<1>1. Init => NoTrialTwice
  <2> SUFFICES ASSUME Init, NEW x \in Runs, NEW w \in Workers, NEW t \in Trial, NEW u \in Trial
               PROVE  /\ rows[x][w][t] <= 1
                      /\ rows[x][w][t] > 0 /\ rows[x][w][u] > 0 => t = u
    BY DEF NoTrialTwice
  <2>1. rows[x][w] = NoRow \/ rows[x][w] = [NoRow EXCEPT ![Baseline] = 1]
    BY DEF Init
  <2>2. QED BY <2>1 DEF NoRow
<1>2. TypeOK /\ RerunInv /\ NoTrialTwice /\ [Next]_vars => NoTrialTwice'
  <2> SUFFICES ASSUME TypeOK, RerunInv, NoTrialTwice, [Next]_vars,
                      NEW x \in Runs, NEW w \in Workers, NEW t \in Trial, NEW u \in Trial
               PROVE  /\ rows'[x][w][t] <= 1
                      /\ rows'[x][w][t] > 0 /\ rows'[x][w][u] > 0 /\ MergeKey(t) = MergeKey(u) => t = u
    BY DEF NoTrialTwice, MergeKey
  <2>1. CASE UNCHANGED rows
    BY <2>1 DEF NoTrialTwice
  <2>2. ASSUME NEW r \in Requests, ClonePrimaryBatches(r)
        PROVE  \E y \in Runs : rows'[x] = rows[y]
    BY <2>2, CloneKnows
  <2>3. ASSUME NEW y \in Runs, rows'[x] = rows[y]
        PROVE  /\ rows'[x][w][t] <= 1
               /\ rows'[x][w][t] > 0 /\ rows'[x][w][u] > 0 /\ MergeKey(t) = MergeKey(u) => t = u
    BY <2>3 DEF NoTrialTwice
  <2>4. ASSUME NEW r \in Requests, NEW v \in Workers, NEW k \in Calls, Merge(r, v, k)
        PROVE  /\ rows'[x][w][t] <= 1
               /\ rows'[x][w][t] > 0 /\ rows'[x][w][u] > 0 /\ MergeKey(t) = MergeKey(u) => t = u
    <3>1. \A z \in Trial : rows'[x][w][z] = IF x = r /\ w = v /\ z.by = r THEN IF z = trial[r][v] THEN 1 ELSE 0
                                          ELSE rows[x][w][z]
      BY <2>4, MergeKnows
    <3>2. QED BY <3>1 DEF NoTrialTwice, MergeKey
  <2>5. QED BY <2>1, <2>2, <2>3, <2>4, RowSteps
<1>3. QED BY <1>1, <1>2, Inductive, PTL DEF Spec

\* No step takes a trial out of a batch, whichever runs it has been cloned from: a
\* clone begins empty, and a merge deletes no row but of the trial it inserts.
THEOREM NoTrialIsLost == Spec => TrialsNeverLost
<1>1. TypeOK /\ RerunInv /\ [Next]_vars =>
        \A x \in Runs, w \in Workers : \A t \in Trial : rows[x][w][t] > 0 => rows'[x][w][t] > 0
  <2> SUFFICES ASSUME TypeOK, RerunInv, [Next]_vars,
                      NEW x \in Runs, NEW w \in Workers, NEW t \in Trial, rows[x][w][t] > 0
               PROVE  rows'[x][w][t] > 0
    OBVIOUS
  <2>1. CASE UNCHANGED rows
    BY <2>1
  <2>2. ASSUME NEW r \in Requests, ClonePrimaryBatches(r) PROVE rows'[x][w][t] > 0
    BY <2>2, CloneKnows
  <2>3. ASSUME NEW r \in Requests, NEW v \in Workers, NEW k \in Calls, Merge(r, v, k) PROVE rows'[x][w][t] > 0
    BY <2>3, MergeKnows
  <2>4. QED BY <2>1, <2>2, <2>3, RowSteps
<1>2. QED BY <1>1, Inductive, PTL DEF TrialsNeverLost, Spec

\* The rows and the job directory of the original run never change.
THEOREM OriginalNeverTouched == Spec => OriginalUntouched
<1>1. TypeOK /\ [Next]_vars => (rows'[Original] = rows[Original] /\ dir'[Original] = dir[Original])
  <2> SUFFICES ASSUME TypeOK, [Next]_vars
               PROVE  rows'[Original] = rows[Original] /\ dir'[Original] = dir[Original]
    OBVIOUS
  <2> USE RerunAssumption DEF TypeOK, Runs
  <2>1. ASSUME NEW r \in Requests, CopyJobs(r)
        PROVE  rows'[Original] = rows[Original] /\ dir'[Original] = dir[Original]
    BY <2>1 DEF CopyJobs
  <2>2. ASSUME NEW r \in Requests, ClonePrimaryBatches(r)
        PROVE  rows'[Original] = rows[Original] /\ dir'[Original] = dir[Original]
    BY <2>2 DEF ClonePrimaryBatches
  <2>3. ASSUME NEW r \in Requests, NEW w \in Workers, NEW k \in Calls, Merge(r, w, k)
        PROVE  rows'[Original] = rows[Original] /\ dir'[Original] = dir[Original]
    BY <2>3 DEF Merge
  <2>4. ASSUME NEW r \in Requests, NEW w \in Workers, NEW k \in Calls, CopyTrials(r, w, k)
        PROVE  rows'[Original] = rows[Original] /\ dir'[Original] = dir[Original]
    BY <2>4 DEF CopyTrials
  <2>5. ASSUME NEW r \in Requests, NEW w \in Workers, ExecutorEnds(r, w)
        PROVE  rows'[Original] = rows[Original] /\ dir'[Original] = dir[Original]
    BY <2>5 DEF ExecutorEnds
  <2>6. ASSUME UNCHANGED dataVars
        PROVE  rows'[Original] = rows[Original] /\ dir'[Original] = dir[Original]
    BY <2>6 DEF dataVars
  <2> HIDE DEF TypeOK, Runs
  <2>7. QED BY <2>1, <2>2, <2>3, <2>4, <2>5, <2>6, DataSteps
<1>2. QED BY <1>1, TypeCorrect, PTL DEF OriginalUntouched, Spec

=============================================================================
