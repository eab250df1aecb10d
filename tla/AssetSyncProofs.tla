--------------------------- MODULE AssetSyncProofs ---------------------------
(***************************************************************************)
(* What holds of the asset sync of a run for every set of workers and any  *)
(* number of restarts.                                                     *)
(***************************************************************************)
EXTENDS AssetSync, TLAPS

LEMMA InitSync == Init => TypeOK /\ SyncInv
BY SyncAssumption
DEF Init, TypeOK, SyncInv, StagesAgree, FilesStay, LedgerAgrees, StepsFollow, InitialSteps,
    Progress, Step, Outcome, Terminal, Creating, Syncing, Copying, Trying, Failing

\* Every step keeps the types.
LEMMA StepType == TypeOK /\ [Next]_vars => TypeOK'
<1> SUFFICES ASSUME TypeOK, [Next]_vars PROVE TypeOK'
  OBVIOUS
<1> USE SyncAssumption
    DEF TypeOK, Progress, Outcome, Terminal, InitialSteps, Creating, Syncing,
        Copying, Trying, Failing, rowVars, jobVars, hostVars, endVars
<1>1. ASSUME NEW w \in Workers, CreateBatch(w) PROVE TypeOK'
  BY <1>1 DEF CreateBatch
<1>2. ASSUME SaveManifest PROVE TypeOK'
  BY <1>2 DEF SaveManifest
<1>3. ASSUME CreateAssetSyncJob PROVE TypeOK'
  BY <1>3 DEF CreateAssetSyncJob
<1>4. ASSUME BeginJob PROVE TypeOK'
  BY <1>4 DEF BeginJob
<1>5. ASSUME StartThreads PROVE TypeOK'
  BY <1>5 DEF StartThreads
<1>6. ASSUME RecordOutcome PROVE TypeOK'
  BY <1>6 DEF RecordOutcome, Verdict
<1>7. ASSUME FinishJob PROVE TypeOK'
  BY <1>7 DEF FinishJob, Verdict
<1>8. ASSUME CreationFails PROVE TypeOK'
  BY <1>8 DEF CreationFails
<1>9. ASSUME Restart PROVE TypeOK'
  BY <1>9 DEF Restart
<1>10. ASSUME NEW w \in Workers, BeginCases(w) PROVE TypeOK'
  BY <1>10 DEF BeginCases, SaveSteps, SetStep, Go
<1>11. ASSUME NEW w \in Workers, CopyCases(w) PROVE TypeOK'
  <2>1. files' \in [Workers -> SUBSET {"debris", "cases", "assets"}]
    BY <1>11 DEF CopyCases
  <2>2. memo' \in Progress /\ steps' \in Progress
    <3>1. CASE HasBind
      <4>1. Step = {"sync_cases", "sync_assets"}
        BY <3>1 DEF Step
      <4>2. memo' = [memo EXCEPT ![w]["sync_cases"] = "succeeded", ![w]["sync_assets"] = "running"]
        BY <1>11, <3>1 DEF CopyCases
      <4>3. steps' = memo'
        BY <1>11, <3>1 DEF CopyCases, SaveSteps
      <4>4. QED BY <4>1, <4>2, <4>3
    <3>2. CASE ~HasBind
      <4>1. memo' = [memo EXCEPT ![w]["sync_cases"] = "succeeded"] /\ steps' = steps
        BY <1>11, <3>2 DEF CopyCases, SetStep
      <4>2. "sync_cases" \in Step
        BY DEF Step
      <4>3. QED BY <4>1, <4>2
    <3>3. QED BY <3>1, <3>2
  <2>3. thread' \in [Workers -> {"none", "start", "done", "lost"} \cup Trying \cup Failing]
    BY <1>11 DEF CopyCases, Go
  <2>4. QED BY <1>11, <2>1, <2>2, <2>3 DEF CopyCases
<1>12. ASSUME NEW w \in Workers, CopyAssets(w) PROVE TypeOK'
  BY <1>12 DEF CopyAssets, SaveSteps, SetStep, Go
<1>13. ASSUME NEW w \in Workers, PublishPaths(w) PROVE TypeOK'
  BY <1>13 DEF PublishPaths, Go
<1>14. ASSUME NEW w \in Workers, Promote(w) PROVE TypeOK'
  BY <1>14 DEF Promote, Go, Resolve
<1>15. ASSUME NEW w \in Workers, StepFails(w) PROVE TypeOK'
  BY <1>15 DEF StepFails, Go
<1>16. ASSUME NEW w \in Workers, RecordFailure(w) PROVE TypeOK'
  BY <1>16 DEF RecordFailure, SaveSteps, Go
<1>17. ASSUME NEW w \in Workers, MarkFailed(w) PROVE TypeOK'
  BY <1>17 DEF MarkFailed, Go, Resolve
<1>18. ASSUME NEW w \in Workers, ClaimBatch(w) PROVE TypeOK'
  BY <1>18 DEF ClaimBatch
<1>19. ASSUME NEW w \in Workers, FinishBatch(w) PROVE TypeOK'
  BY <1>19 DEF FinishBatch
<1>20. ASSUME NEW w \in Workers, CheckTerminal(w) PROVE TypeOK'
  BY <1>20 DEF CheckTerminal
<1>21. ASSUME NEW w \in Workers, CheckSyncStatus(w) PROVE TypeOK'
  BY <1>21 DEF CheckSyncStatus
<1>22. ASSUME NEW w \in Workers, BeginCleanup(w) PROVE TypeOK'
  BY <1>22 DEF BeginCleanup
<1>23. ASSUME NEW w \in Workers, EndCleanup(w) PROVE TypeOK'
  BY <1>23 DEF EndCleanup
<1>24. ASSUME NEW w \in Workers, NEW v \in Workers, CleanWorker(w, v) PROVE TypeOK'
  <2>1. PICK rest \in SUBSET files[v] : files' = [files EXCEPT ![v] = rest]
    BY <1>24 DEF CleanWorker
  <2>2. rest \subseteq {"debris", "cases", "assets"}
    BY <2>1
  <2>3. files' \in [Workers -> SUBSET {"debris", "cases", "assets"}]
    BY <2>1, <2>2
  <2>4. left' \in [Workers -> SUBSET Workers]
    BY <1>24 DEF CleanWorker
  <2>5. QED BY <1>24, <2>3, <2>4 DEF CleanWorker
<1>25. ASSUME UNCHANGED vars PROVE TypeOK'
  BY <1>25 DEF vars
<1>26. QED
  BY <1>1, <1>2, <1>3, <1>4, <1>5, <1>6, <1>7, <1>8, <1>9, <1>10, <1>11, <1>12,
     <1>13, <1>14, <1>15, <1>16, <1>17, <1>18, <1>19, <1>20, <1>21, <1>22,
     <1>23, <1>24, <1>25
  DEF Next, Main, Thread, Batch, Cleaner

\* The stages of batches, threads and run_job agree.
LEMMA StepStages == TypeOK /\ StagesAgree /\ [Next]_vars => StagesAgree'
<1> SUFFICES ASSUME TypeOK, StagesAgree, [Next]_vars PROVE StagesAgree'
  OBVIOUS
<1> USE SyncAssumption
    DEF TypeOK, StagesAgree, Outcome, Terminal, Creating, Syncing, Copying,
        Trying, Failing, rowVars, jobVars, hostVars, endVars
<1>1. ASSUME NEW w \in Workers, CreateBatch(w) PROVE StagesAgree'
  BY <1>1 DEF CreateBatch
<1>2. ASSUME SaveManifest PROVE StagesAgree'
  BY <1>2 DEF SaveManifest
<1>3. ASSUME CreateAssetSyncJob PROVE StagesAgree'
  BY <1>3 DEF CreateAssetSyncJob
<1>4. ASSUME BeginJob PROVE StagesAgree'
  BY <1>4 DEF BeginJob
<1>5. ASSUME StartThreads PROVE StagesAgree'
  BY <1>5 DEF StartThreads
<1>6. ASSUME RecordOutcome PROVE StagesAgree'
  BY <1>6 DEF RecordOutcome, Verdict
<1>7. ASSUME FinishJob PROVE StagesAgree'
  BY <1>7 DEF FinishJob, Verdict
<1>8. ASSUME CreationFails PROVE StagesAgree'
  BY <1>8 DEF CreationFails
<1>9. ASSUME Restart PROVE StagesAgree'
  BY <1>9 DEF Restart
<1>10. ASSUME NEW w \in Workers, BeginCases(w) PROVE StagesAgree'
  BY <1>10 DEF BeginCases, SaveSteps, SetStep, Go
<1>11. ASSUME NEW w \in Workers, CopyCases(w) PROVE StagesAgree'
  BY <1>11 DEF CopyCases, SaveSteps, SetStep, Go
<1>12. ASSUME NEW w \in Workers, CopyAssets(w) PROVE StagesAgree'
  BY <1>12 DEF CopyAssets, SaveSteps, SetStep, Go
<1>13. ASSUME NEW w \in Workers, PublishPaths(w) PROVE StagesAgree'
  BY <1>13 DEF PublishPaths, Go
<1>14. ASSUME NEW w \in Workers, Promote(w) PROVE StagesAgree'
  BY <1>14 DEF Promote, Go, Resolve
<1>15. ASSUME NEW w \in Workers, StepFails(w) PROVE StagesAgree'
  BY <1>15 DEF StepFails, Go
<1>16. ASSUME NEW w \in Workers, RecordFailure(w) PROVE StagesAgree'
  BY <1>16 DEF RecordFailure, SaveSteps, Go
<1>17. ASSUME NEW w \in Workers, MarkFailed(w) PROVE StagesAgree'
  BY <1>17 DEF MarkFailed, Go, Resolve
<1>18. ASSUME NEW w \in Workers, ClaimBatch(w) PROVE StagesAgree'
  BY <1>18 DEF ClaimBatch
<1>19. ASSUME NEW w \in Workers, FinishBatch(w) PROVE StagesAgree'
  BY <1>19 DEF FinishBatch
<1>20. ASSUME NEW w \in Workers, CheckTerminal(w) PROVE StagesAgree'
  BY <1>20 DEF CheckTerminal
<1>21. ASSUME NEW w \in Workers, CheckSyncStatus(w) PROVE StagesAgree'
  BY <1>21 DEF CheckSyncStatus
<1>22. ASSUME NEW w \in Workers, BeginCleanup(w) PROVE StagesAgree'
  BY <1>22 DEF BeginCleanup
<1>23. ASSUME NEW w \in Workers, EndCleanup(w) PROVE StagesAgree'
  BY <1>23 DEF EndCleanup
<1>24. ASSUME NEW w \in Workers, NEW v \in Workers, CleanWorker(w, v) PROVE StagesAgree'
  BY <1>24 DEF CleanWorker
<1>25. ASSUME UNCHANGED vars PROVE StagesAgree'
  BY <1>25 DEF vars
<1>26. QED
  BY <1>1, <1>2, <1>3, <1>4, <1>5, <1>6, <1>7, <1>8, <1>9, <1>10, <1>11, <1>12,
     <1>13, <1>14, <1>15, <1>16, <1>17, <1>18, <1>19, <1>20, <1>21, <1>22,
     <1>23, <1>24, <1>25
  DEF Next, Main, Thread, Batch, Cleaner

\* Nothing takes files a batch may still need.
LEMMA StepFiles == TypeOK /\ StagesAgree /\ FilesStay /\ [Next]_vars => FilesStay'
<1> SUFFICES ASSUME TypeOK, StagesAgree, FilesStay, [Next]_vars PROVE FilesStay'
  OBVIOUS
<1> USE SyncAssumption
    DEF TypeOK, StagesAgree, FilesStay, InPlace, Copied, RunTerminal, Outcome,
        Terminal, Creating, Syncing, Copying, Trying, Failing, rowVars, jobVars,
        hostVars, endVars
<1>1. ASSUME NEW w \in Workers, CreateBatch(w) PROVE FilesStay'
  BY <1>1 DEF CreateBatch
<1>2. ASSUME SaveManifest PROVE FilesStay'
  BY <1>2 DEF SaveManifest
<1>3. ASSUME CreateAssetSyncJob PROVE FilesStay'
  BY <1>3 DEF CreateAssetSyncJob
<1>4. ASSUME BeginJob PROVE FilesStay'
  BY <1>4 DEF BeginJob
<1>5. ASSUME StartThreads PROVE FilesStay'
  BY <1>5 DEF StartThreads
<1>6. ASSUME RecordOutcome PROVE FilesStay'
  BY <1>6 DEF RecordOutcome, Verdict
<1>7. ASSUME FinishJob PROVE FilesStay'
  BY <1>7 DEF FinishJob, Verdict
<1>8. ASSUME CreationFails PROVE FilesStay'
  BY <1>8 DEF CreationFails
<1>9. ASSUME Restart PROVE FilesStay'
  BY <1>9 DEF Restart
<1>10. ASSUME NEW w \in Workers, BeginCases(w) PROVE FilesStay'
  BY <1>10 DEF BeginCases, SaveSteps, SetStep, Go
<1>11. ASSUME NEW w \in Workers, CopyCases(w) PROVE FilesStay'
  BY <1>11 DEF CopyCases, SaveSteps, SetStep, Go
<1>12. ASSUME NEW w \in Workers, CopyAssets(w) PROVE FilesStay'
  BY <1>12 DEF CopyAssets, SaveSteps, SetStep, Go
<1>13. ASSUME NEW w \in Workers, PublishPaths(w) PROVE FilesStay'
  BY <1>13 DEF PublishPaths, Go
<1>14. ASSUME NEW w \in Workers, Promote(w) PROVE FilesStay'
  BY <1>14 DEF Promote, Go, Resolve
<1>15. ASSUME NEW w \in Workers, StepFails(w) PROVE FilesStay'
  BY <1>15 DEF StepFails, Go
<1>16. ASSUME NEW w \in Workers, RecordFailure(w) PROVE FilesStay'
  BY <1>16 DEF RecordFailure, SaveSteps, Go
<1>17. ASSUME NEW w \in Workers, MarkFailed(w) PROVE FilesStay'
  BY <1>17 DEF MarkFailed, Go, Resolve
<1>18. ASSUME NEW w \in Workers, ClaimBatch(w) PROVE FilesStay'
  BY <1>18 DEF ClaimBatch
<1>19. ASSUME NEW w \in Workers, FinishBatch(w) PROVE FilesStay'
  BY <1>19 DEF FinishBatch
<1>20. ASSUME NEW w \in Workers, CheckTerminal(w) PROVE FilesStay'
  BY <1>20 DEF CheckTerminal
<1>21. ASSUME NEW w \in Workers, CheckSyncStatus(w) PROVE FilesStay'
  BY <1>21 DEF CheckSyncStatus
<1>22. ASSUME NEW w \in Workers, BeginCleanup(w) PROVE FilesStay'
  BY <1>22 DEF BeginCleanup
<1>23. ASSUME NEW w \in Workers, EndCleanup(w) PROVE FilesStay'
  BY <1>23 DEF EndCleanup
<1>24. ASSUME NEW w \in Workers, NEW v \in Workers, CleanWorker(w, v) PROVE FilesStay'
  BY <1>24 DEF CleanWorker
<1>25. ASSUME UNCHANGED vars PROVE FilesStay'
  BY <1>25 DEF vars
<1>26. QED
  BY <1>1, <1>2, <1>3, <1>4, <1>5, <1>6, <1>7, <1>8, <1>9, <1>10, <1>11, <1>12,
     <1>13, <1>14, <1>15, <1>16, <1>17, <1>18, <1>19, <1>20, <1>21, <1>22,
     <1>23, <1>24, <1>25
  DEF Next, Main, Thread, Batch, Cleaner

\* The job's row agrees with the batches.
LEMMA StepLedger == TypeOK /\ StagesAgree /\ LedgerAgrees /\ [Next]_vars => LedgerAgrees'
<1> SUFFICES ASSUME TypeOK, StagesAgree, LedgerAgrees, [Next]_vars PROVE LedgerAgrees'
  OBVIOUS
<1> USE SyncAssumption
    DEF TypeOK, StagesAgree, LedgerAgrees, Verdict, Outcome, Terminal, Creating,
        Syncing, Copying, Trying, Failing, rowVars, jobVars, hostVars, endVars
<1>1. ASSUME NEW w \in Workers, CreateBatch(w) PROVE LedgerAgrees'
  BY <1>1 DEF CreateBatch
<1>2. ASSUME SaveManifest PROVE LedgerAgrees'
  BY <1>2 DEF SaveManifest
<1>3. ASSUME CreateAssetSyncJob PROVE LedgerAgrees'
  BY <1>3 DEF CreateAssetSyncJob
<1>4. ASSUME BeginJob PROVE LedgerAgrees'
  BY <1>4 DEF BeginJob
<1>5. ASSUME StartThreads PROVE LedgerAgrees'
  BY <1>5 DEF StartThreads
<1>6. ASSUME RecordOutcome PROVE LedgerAgrees'
  BY <1>6 DEF RecordOutcome, Verdict
<1>7. ASSUME FinishJob PROVE LedgerAgrees'
  BY <1>7 DEF FinishJob, Verdict
<1>8. ASSUME CreationFails PROVE LedgerAgrees'
  BY <1>8 DEF CreationFails
<1>9. ASSUME Restart PROVE LedgerAgrees'
  BY <1>9 DEF Restart
<1>10. ASSUME NEW w \in Workers, BeginCases(w) PROVE LedgerAgrees'
  BY <1>10 DEF BeginCases, SaveSteps, SetStep, Go
<1>11. ASSUME NEW w \in Workers, CopyCases(w) PROVE LedgerAgrees'
  BY <1>11 DEF CopyCases, SaveSteps, SetStep, Go
<1>12. ASSUME NEW w \in Workers, CopyAssets(w) PROVE LedgerAgrees'
  BY <1>12 DEF CopyAssets, SaveSteps, SetStep, Go
<1>13. ASSUME NEW w \in Workers, PublishPaths(w) PROVE LedgerAgrees'
  BY <1>13 DEF PublishPaths, Go
<1>14. ASSUME NEW w \in Workers, Promote(w) PROVE LedgerAgrees'
  BY <1>14 DEF Promote, Go, Resolve
<1>15. ASSUME NEW w \in Workers, StepFails(w) PROVE LedgerAgrees'
  BY <1>15 DEF StepFails, Go
<1>16. ASSUME NEW w \in Workers, RecordFailure(w) PROVE LedgerAgrees'
  BY <1>16 DEF RecordFailure, SaveSteps, Go
<1>17. ASSUME NEW w \in Workers, MarkFailed(w) PROVE LedgerAgrees'
  BY <1>17 DEF MarkFailed, Go, Resolve
<1>18. ASSUME NEW w \in Workers, ClaimBatch(w) PROVE LedgerAgrees'
  BY <1>18 DEF ClaimBatch
<1>19. ASSUME NEW w \in Workers, FinishBatch(w) PROVE LedgerAgrees'
  BY <1>19 DEF FinishBatch
<1>20. ASSUME NEW w \in Workers, CheckTerminal(w) PROVE LedgerAgrees'
  BY <1>20 DEF CheckTerminal
<1>21. ASSUME NEW w \in Workers, CheckSyncStatus(w) PROVE LedgerAgrees'
  BY <1>21 DEF CheckSyncStatus
<1>22. ASSUME NEW w \in Workers, BeginCleanup(w) PROVE LedgerAgrees'
  BY <1>22 DEF BeginCleanup
<1>23. ASSUME NEW w \in Workers, EndCleanup(w) PROVE LedgerAgrees'
  BY <1>23 DEF EndCleanup
<1>24. ASSUME NEW w \in Workers, NEW v \in Workers, CleanWorker(w, v) PROVE LedgerAgrees'
  BY <1>24 DEF CleanWorker
<1>25. ASSUME UNCHANGED vars PROVE LedgerAgrees'
  BY <1>25 DEF vars
<1>26. QED
  BY <1>1, <1>2, <1>3, <1>4, <1>5, <1>6, <1>7, <1>8, <1>9, <1>10, <1>11, <1>12,
     <1>13, <1>14, <1>15, <1>16, <1>17, <1>18, <1>19, <1>20, <1>21, <1>22,
     <1>23, <1>24, <1>25
  DEF Next, Main, Thread, Batch, Cleaner

LEMMA FollowKept == StepsFollow /\ UNCHANGED <<main, thread, steps, memo>> => StepsFollow'
BY DEF StepsFollow

\* The steps shown follow the steps the threads share.
LEMMA StepFollow ==
  TypeOK /\ StagesAgree /\ StepsFollow /\ [Next]_vars => StepsFollow'
<1> SUFFICES ASSUME TypeOK, StagesAgree, StepsFollow, [Next]_vars PROVE StepsFollow'
  OBVIOUS
<1> USE SyncAssumption
    DEF Creating, Syncing, Copying, Trying, Failing, rowVars, jobVars,
                           hostVars, endVars
<1>1. ASSUME NEW w \in Workers, CreateBatch(w) PROVE StepsFollow'
  BY <1>1, FollowKept DEF CreateBatch
<1>2. CASE SaveManifest
  BY <1>2 DEF SaveManifest, StepsFollow
<1>3. CASE CreateAssetSyncJob
  BY <1>3 DEF CreateAssetSyncJob, StepsFollow
<1>4. CASE BeginJob
  BY <1>4 DEF BeginJob, StagesAgree, StepsFollow
<1>5. CASE StartThreads
  BY <1>5 DEF StartThreads, StepsFollow, InitialSteps
<1>6. CASE RecordOutcome
  BY <1>6 DEF RecordOutcome, StepsFollow
<1>7. CASE FinishJob
  BY <1>7 DEF FinishJob, StepsFollow
<1>8. CASE CreationFails
  BY <1>8 DEF CreationFails, StepsFollow
<1>9. CASE Restart
  BY <1>9 DEF Restart, StepsFollow
<1>10. ASSUME NEW w \in Workers, BeginCases(w) PROVE StepsFollow'
  <2>1. main = "join" /\ steps' = memo' /\ UNCHANGED main
    BY <1>10 DEF BeginCases, SaveSteps, StagesAgree
  <2>2. thread' = [thread EXCEPT ![w] = "cases"]
    BY <1>10 DEF BeginCases, Go
  <2>3. memo' = [memo EXCEPT ![w]["sync_cases"] = "running"]
    BY <1>10 DEF BeginCases, SetStep
  <2>4. \A s \in Step : memo[w][s] = "pending"
    BY <1>10 DEF BeginCases, StepsFollow
  <2>5. memo'[w]["sync_cases"] = "running" /\ (HasBind => memo'[w]["sync_assets"] = "pending")
    BY <2>3, <2>4 DEF TypeOK, Progress, Step
  <2>6. \A v \in Workers \ {w} : memo'[v] = memo[v] /\ thread'[v] = thread[v]
    BY <2>2, <2>3 DEF TypeOK, Progress
  <2>7. QED BY <2>1, <2>2, <2>5, <2>6 DEF StepsFollow, TypeOK
<1>11. ASSUME NEW w \in Workers, CopyCases(w) PROVE StepsFollow'
  <2>1. main = "join" /\ main' = "join" /\ thread[w] = "cases"
    BY <1>11 DEF CopyCases, StagesAgree
  <2>2. memo[w]["sync_cases"] = "running"
    BY <2>1 DEF StepsFollow
  <2>3. \A v \in Workers \ {w} : memo'[v] = memo[v] /\ thread'[v] = thread[v]
    BY <1>11 DEF CopyCases, SetStep, Go, TypeOK, Progress
  <2>4. CASE HasBind
    <3>1. steps' = memo' /\ thread' = [thread EXCEPT ![w] = "assets"]
      BY <1>11, <2>4 DEF CopyCases, SaveSteps, Go
    <3>2. memo' = [memo EXCEPT ![w]["sync_cases"] = "succeeded", ![w]["sync_assets"] = "running"]
      BY <1>11, <2>4 DEF CopyCases
    <3>3. memo'[w]["sync_cases"] = "succeeded" /\ memo'[w]["sync_assets"] = "running"
      BY <3>2, <2>4 DEF TypeOK, Progress, Step
    <3>4. QED BY <2>1, <2>3, <2>4, <3>1, <3>3 DEF StepsFollow, TypeOK
  <2>5. CASE ~HasBind
    <3>1. steps' = steps /\ thread' = [thread EXCEPT ![w] = "publish"]
      BY <1>11, <2>5 DEF CopyCases, Go
    <3>2. memo' = [memo EXCEPT ![w]["sync_cases"] = "succeeded"]
      BY <1>11, <2>5 DEF CopyCases, SetStep
    <3>3. Step = {"sync_cases"}
      BY <2>5 DEF Step
    <3>4. memo'[w]["sync_cases"] = "succeeded" /\ steps[w]["sync_cases"] = "running"
      BY <2>1, <2>2, <3>2, <3>3 DEF TypeOK, Progress, StepsFollow
    <3>5. \A v \in Workers, s \in Step :
            steps'[v][s] = memo'[v][s] \/ (steps'[v][s] = "running" /\ memo'[v][s] = "succeeded")
      BY <2>1, <2>3, <3>1, <3>3, <3>4 DEF StepsFollow
    <3>6. QED BY <2>1, <2>3, <3>1, <3>5 DEF StepsFollow, TypeOK
  <2>6. QED BY <2>4, <2>5
<1>12. ASSUME NEW w \in Workers, CopyAssets(w) PROVE StepsFollow'
  <2>1. main = "join" /\ steps' = memo' /\ UNCHANGED main
    BY <1>12 DEF CopyAssets, SaveSteps, StagesAgree
  <2>2. thread' = [thread EXCEPT ![w] = "publish"]
    BY <1>12 DEF CopyAssets, Go
  <2>3. \A v \in Workers \ {w} : memo'[v] = memo[v] /\ thread'[v] = thread[v]
    BY <1>12, <2>2 DEF CopyAssets, SetStep, TypeOK, Progress
  <2>4. QED BY <2>1, <2>2, <2>3 DEF StepsFollow, TypeOK
<1>13. ASSUME NEW w \in Workers, PublishPaths(w) PROVE StepsFollow'
  BY <1>13 DEF PublishPaths, Go, StepsFollow, TypeOK
<1>14. ASSUME NEW w \in Workers, Promote(w) PROVE StepsFollow'
  BY <1>14 DEF Promote, Go, StepsFollow, TypeOK
<1>15. ASSUME NEW w \in Workers, StepFails(w) PROVE StepsFollow'
  BY <1>15 DEF StepFails, Go, StepsFollow, TypeOK
<1>16. ASSUME NEW w \in Workers, RecordFailure(w) PROVE StepsFollow'
  <2>1. main = "join" /\ steps' = memo' /\ UNCHANGED main
    BY <1>16 DEF RecordFailure, SaveSteps, StagesAgree
  <2>2. thread' = [thread EXCEPT ![w] = "markfailed"]
    BY <1>16 DEF RecordFailure, Go
  <2>3. \A v \in Workers \ {w} : memo'[v] = memo[v] /\ thread'[v] = thread[v]
    BY <1>16, <2>2 DEF RecordFailure, TypeOK, Progress
  <2>4. QED BY <2>1, <2>2, <2>3 DEF StepsFollow, TypeOK
<1>17. ASSUME NEW w \in Workers, MarkFailed(w) PROVE StepsFollow'
  BY <1>17 DEF MarkFailed, Go, StepsFollow, TypeOK
<1>18. ASSUME NEW w \in Workers, Batch(w) \/ Cleaner(w) PROVE StepsFollow'
  BY <1>18, FollowKept
  DEF Batch, ClaimBatch, FinishBatch, Cleaner, CheckTerminal, CheckSyncStatus,
      BeginCleanup, EndCleanup, CleanWorker
<1>19. ASSUME UNCHANGED vars PROVE StepsFollow'
  BY <1>19, FollowKept DEF vars
<1>20. QED
  BY <1>1, <1>2, <1>3, <1>4, <1>5, <1>6, <1>7, <1>8, <1>9, <1>10, <1>11, <1>12,
     <1>13,
     <1>14, <1>15, <1>16, <1>17, <1>18, <1>19
  DEF Next, Main, Thread

-----------------------------------------------------------------------------
\* Batches, threads, files, job and steps agree whichever threads run, fail or
\* are cut off by a restart.
THEOREM SyncInvariant == Spec => [](TypeOK /\ SyncInv)
<1>1. TypeOK /\ SyncInv /\ [Next]_vars => (TypeOK /\ SyncInv)'
  BY StepType, StepStages, StepFiles, StepLedger, StepFollow DEF SyncInv
<1>2. QED BY InitSync, <1>1, PTL DEF Spec

\* A batch that may be claimed or is running has its files and its paths, for
\* every set of workers: no copy is late and no clean-up early.
THEOREM FilesInPlace == Spec => []RunnableHasFiles
<1>1. SyncInv => RunnableHasFiles
  BY DEF SyncInv, FilesStay, RunnableHasFiles
<1>2. QED BY SyncInvariant, <1>1, PTL

\* The outcome recorded for the job is what became of the batches.
THEOREM OutcomeTrue == Spec => []OutcomeIsTrue
<1>1. TypeOK /\ SyncInv => OutcomeIsTrue
  <2> SUFFICES ASSUME TypeOK, SyncInv, job \in Outcome PROVE OutcomeIsTrue
    BY DEF OutcomeIsTrue, Outcome
  <2>1. main = "done" /\ job = Verdict
    BY DEF SyncInv, LedgerAgrees
  <2>2. \A w \in Workers : status[w] \notin {"absent", "pending_sync"}
    BY <2>1 DEF SyncInv, StagesAgree
  <2>3. \A w \in Workers : status[w] = "sync_failed" <=> w \in errors
    BY DEF SyncInv, LedgerAgrees
  <2>4. errors \subseteq Workers
    BY DEF TypeOK
  <2>5. QED BY <2>1, <2>2, <2>3, <2>4 DEF OutcomeIsTrue, Verdict
<1>2. QED BY SyncInvariant, <1>1, PTL

\* A clean-up begins only when the run is terminal and no thread copies for it.
THEOREM CleansWhenOver == Spec => CleansOnlyWhenOver
<1>1. TypeOK /\ SyncInv /\ RunTerminal =>
        job \in {"running"} \cup Outcome /\ \A w \in Workers : thread[w] \in {"done", "lost"}
  <2> SUFFICES ASSUME TypeOK, SyncInv, RunTerminal
               PROVE  /\ job \in {"running"} \cup Outcome
                      /\ \A w \in Workers : thread[w] \in {"done", "lost"}
    OBVIOUS
  <2>1. \A w \in Workers : status[w] \notin {"absent", "pending_sync"}
    BY DEF RunTerminal, Terminal
  <2>2. job \in {"running"} \cup Outcome
    BY <2>1, SyncAssumption DEF SyncInv, LedgerAgrees
  <2>3. \A w \in Workers : thread[w] \in {"done", "lost"}
    BY <2>1 DEF SyncInv, StagesAgree, TypeOK
  <2>4. QED BY <2>2, <2>3
<1>2. TypeOK /\ SyncInv /\ [Next]_vars =>
        [syncStatus' = "cleaning" => RunTerminal]_vars
  <2> SUFFICES ASSUME TypeOK, SyncInv, Next, syncStatus' = "cleaning" PROVE RunTerminal
    OBVIOUS
  <2>1. CASE syncStatus = "cleaning"
    BY <2>1 DEF SyncInv, FilesStay
  <2>2. CASE syncStatus # "cleaning"
    <3>1. PICK w \in Workers : BeginCleanup(w)
      BY <2>2 DEF Next, Main, Thread, Batch, Cleaner, CreateBatch, SaveManifest,
         CreateAssetSyncJob, BeginJob, StartThreads, RecordOutcome, FinishJob, Verdict,
         CreationFails, Restart, BeginCases, CopyCases, CopyAssets, PublishPaths, Promote,
         StepFails, RecordFailure, MarkFailed, ClaimBatch, FinishBatch, CheckTerminal,
         CheckSyncStatus, EndCleanup, CleanWorker, rowVars
    <3>2. QED BY <3>1 DEF BeginCleanup, SyncInv, FilesStay
  <2>3. QED BY <2>1, <2>2
<1>3. TypeOK /\ SyncInv /\ [Next]_vars =>
        [syncStatus' = "cleaning" => RunTerminal /\ job \in {"running"} \cup Outcome
                                     /\ \A w \in Workers : thread[w] \in {"done", "lost"}]_vars
  BY <1>1, <1>2
<1>4. QED BY SyncInvariant, <1>3, PTL DEF Spec, CleansOnlyWhenOver

\* The steps shown never go back, however the threads' writes interleave.
THEOREM NoStepGoesBack == Spec => StepsNeverGoBack
<1>1. ASSUME TypeOK, SyncInv, Next, job = "running", NEW w \in Workers, NEW s \in Step
      PROVE  /\ steps[w][s] = "failed" => steps'[w][s] = "failed"
             /\ steps[w][s] = "succeeded" => steps'[w][s] \in Outcome
             /\ steps[w][s] = "running" => steps'[w][s] # "pending"
  <2>1. CASE UNCHANGED steps
    BY <2>1 DEF Outcome
  <2>2. CASE main = "ending" /\ steps' = memo
    BY <1>1, <2>2 DEF SyncInv, StepsFollow, Outcome
  <2>3. ASSUME NEW v \in Workers, BeginCases(v)
        PROVE  main = "join" /\ steps' = [memo EXCEPT ![v]["sync_cases"] = "running"]
    BY <1>1, <2>3 DEF BeginCases, SetStep, SaveSteps, SyncInv, StagesAgree
  <2>4. ASSUME NEW v \in Workers, CopyCases(v), steps' # steps
        PROVE  main = "join" /\ HasBind
               /\ steps' = [memo EXCEPT ![v]["sync_cases"] = "succeeded",
                                        ![v]["sync_assets"] = "running"]
    BY <1>1, <2>4 DEF CopyCases, SaveSteps, SyncInv, StagesAgree, Trying, Copying
  <2>5. ASSUME NEW v \in Workers, CopyAssets(v)
        PROVE  main = "join" /\ steps' = [memo EXCEPT ![v]["sync_assets"] = "succeeded"]
    BY <1>1, <2>5 DEF CopyAssets, SetStep, SaveSteps, SyncInv, StagesAgree, Trying, Copying
  <2>6. ASSUME NEW v \in Workers, RecordFailure(v)
        PROVE  main = "join" /\ steps' = [memo EXCEPT ![v] = [t \in Step |-> "failed"]]
    BY <1>1, <2>6 DEF RecordFailure, SaveSteps, SyncInv, StagesAgree, Failing
  <2>7. main = "join" =>
          steps[w][s] = memo[w][s] \/ (steps[w][s] = "running" /\ memo[w][s] = "succeeded")
    BY <1>1 DEF SyncInv, StepsFollow
  <2>8. CASE \E v \in Workers : BeginCases(v)
    <3>1. PICK v \in Workers : BeginCases(v)
      BY <2>8
    <3>2. \A t \in Step : memo[v][t] = "pending"
      BY <1>1, <3>1 DEF BeginCases, SyncInv, StepsFollow
    <3>3. QED BY <1>1, <2>3, <2>7, <3>1, <3>2 DEF TypeOK, Progress, Outcome
  <2>9. CASE \E v \in Workers : CopyCases(v) /\ steps' # steps
    <3>1. PICK v \in Workers : CopyCases(v) /\ steps' # steps
      BY <2>9
    <3>2. memo[v]["sync_cases"] = "running" /\ memo[v]["sync_assets"] = "pending"
      BY <1>1, <2>4, <3>1 DEF CopyCases, SyncInv, StepsFollow
    <3>3. Step = {"sync_cases", "sync_assets"}
      BY <2>4, <3>1 DEF Step
    <3>4. /\ steps'[v]["sync_cases"] = "succeeded" /\ steps'[v]["sync_assets"] = "running"
          /\ \A u \in Workers \ {v} : steps'[u] = memo[u]
      <4>1. memo \in [Workers -> [{"sync_cases", "sync_assets"} -> {"pending", "running"} \cup Outcome]]
        BY <1>1, <3>3 DEF TypeOK, Progress
      <4>2. steps' = [memo EXCEPT ![v]["sync_cases"] = "succeeded", ![v]["sync_assets"] = "running"]
        BY <2>4, <3>1
      <4>3. QED BY <4>1, <4>2
    <3>5. QED BY <1>1, <2>4, <2>7, <3>1, <3>2, <3>3, <3>4 DEF Outcome
  <2>10. CASE \E v \in Workers : CopyAssets(v)
    <3>1. PICK v \in Workers : CopyAssets(v)
      BY <2>10
    <3>2. memo[v]["sync_assets"] = "running"
      BY <1>1, <3>1 DEF CopyAssets, SyncInv, StepsFollow
    <3>3. steps' = [memo EXCEPT ![v]["sync_assets"] = "succeeded"]
      BY <2>5, <3>1
    <3>4. memo \in [Workers -> [Step -> {"pending", "running"} \cup Outcome]]
      BY <1>1 DEF TypeOK, Progress
    <3>5. /\ \A u \in Workers \ {v} : steps'[u] = memo[u]
          /\ \A t \in Step \ {"sync_assets"} : steps'[v][t] = memo[v][t]
          /\ "sync_assets" \in Step => steps'[v]["sync_assets"] = "succeeded"
      BY <3>3, <3>4
    <3>6. QED BY <1>1, <2>5, <2>7, <3>1, <3>2, <3>5 DEF Outcome
  <2>11. CASE \E v \in Workers : RecordFailure(v)
    <3>1. PICK v \in Workers : RecordFailure(v)
      BY <2>11
    <3>2. /\ \A t \in Step : steps'[v][t] = "failed"
          /\ \A u \in Workers \ {v} : steps'[u] = memo[u]
      BY <1>1, <2>6, <3>1 DEF TypeOK, Progress
    <3>3. QED BY <1>1, <2>6, <2>7, <3>1, <3>2 DEF Outcome
  <2>12. QED
    <3>1. main = "begin" => job # "running"
      BY <1>1 DEF SyncInv, LedgerAgrees
    <3>2. main = "job" => job # "running"
      BY <1>1 DEF SyncInv, LedgerAgrees, Creating
    <3>3. QED
      BY <1>1, <2>1, <2>2, <2>8, <2>9, <2>10, <2>11, <3>1, <3>2
      DEF Next, Main, Thread, Batch, Cleaner, CreateBatch, SaveManifest, CreateAssetSyncJob,
          BeginJob, StartThreads, RecordOutcome, FinishJob, CreationFails, Restart,
          PublishPaths, Promote, StepFails, MarkFailed, ClaimBatch, FinishBatch,
          CheckTerminal, CheckSyncStatus, BeginCleanup, EndCleanup, CleanWorker, rowVars
<1>2. TypeOK /\ SyncInv /\ [Next]_vars =>
        [\A w \in Workers, s \in Step :
           job = "running" =>
             /\ steps[w][s] = "failed" => steps'[w][s] = "failed"
             /\ steps[w][s] = "succeeded" => steps'[w][s] \in Outcome
             /\ steps[w][s] = "running" => steps'[w][s] # "pending"]_vars
  BY <1>1
<1>3. QED BY SyncInvariant, <1>2, PTL DEF Spec, StepsNeverGoBack
=============================================================================
