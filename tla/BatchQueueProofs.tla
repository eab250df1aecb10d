-------------------------- MODULE BatchQueueProofs --------------------------
(***************************************************************************)
(* What holds of the dispatch protocol for every number of batches,        *)
(* workers, slots and faults.                                              *)
(***************************************************************************)
EXTENDS BatchQueue, TLAPS

\* A worker's calls, once abandoned, are still calls, and no longer live.
LEMMA AbandonType ==
  ASSUME claims \subseteq Claim, beats \subseteq Beat, NEW d \in Daemons, Abandon(d)
  PROVE  claims' \subseteq Claim /\ beats' \subseteq Beat
<1>1. claims' \subseteq Claim
  BY DEF Abandon, Claim, Client
<1>2. beats' \subseteq Beat
  BY DEF Abandon, Beat, Client
<1>3. QED BY <1>1, <1>2

LEMMA InitType == Init => TypeOK
  BY ConstantsAssumption DEF Init, TypeOK, Status, Control

\* Every step of the controller, a handler, a daemon or the environment keeps
\* the types.  DaemonInv is needed where a daemon starts or refuses the batch of
\* its current step: there must be one.
LEMMA StepType == TypeOK /\ DaemonInv /\ [Next]_vars => TypeOK'
<1> SUFFICES ASSUME TypeOK, DaemonInv, [Next]_vars PROVE TypeOK'
  OBVIOUS
<1> USE ConstantsAssumption DEF TypeOK, dbVars, netVars, daemonVars, lifeVars
<1>1. ASSUME NEW b \in Batches, CreateBatch(b) PROVE TypeOK'
  BY <1>1 DEF CreateBatch, Status
<1>2. ASSUME NEW r \in Runs, NEW w \in Workers, PromoteWorkerBatches(r, w) PROVE TypeOK'
  BY <1>2 DEF PromoteWorkerBatches, SetStatus, Status
<1>3. ASSUME NEW r \in Runs, NEW w \in Workers, MarkWorkerBatchesSyncFailed(r, w) PROVE TypeOK'
  BY <1>3 DEF MarkWorkerBatchesSyncFailed, SetStatus, Status, Terminal
<1>4. ASSUME NEW w \in Workers, UpdateWorkerSettings(w) PROVE TypeOK'
  BY <1>4 DEF UpdateWorkerSettings
<1>5. ASSUME NEW c \in claims, ClaimNothing(c) PROVE TypeOK'
  BY <1>5 DEF ClaimNothing, Settle, Claim, Control
<1>6. ASSUME NEW c \in claims, ClaimSelect(c) PROVE TypeOK'
  BY <1>6 DEF ClaimSelect, Claimable, Claim
<1>7. ASSUME NEW c \in claims, ClaimUpdate(c) PROVE TypeOK'
  <2>1. /\ c.daemon \in Daemons /\ WorkerOf(c) \in Workers
        /\ c.batch \in Batches /\ RunOf[c.batch] \in Runs
    BY <1>7 DEF ClaimUpdate, Claim, WorkerOf
  <2>2. QED BY <1>7, <2>1 DEF ClaimUpdate, Settle, Control, Status
<1>8. ASSUME NEW m \in beats, Heartbeat(m) PROVE TypeOK'
  <2>1. m.daemon \in Daemons /\ m.batch \in Batches /\ m.status \in Status
    BY DEF Beat, Status, Outcome, Terminal
  <2>2. status' \in [Batches -> Status] /\ finished' \subseteq Batches
    BY <1>8, <2>1 DEF Heartbeat
  <2>3. pc' \in [Daemons -> Control] /\ cur' \in [Daemons -> Batches \cup {None}]
    BY <1>8, <2>1 DEF Heartbeat, Answered, Settle, Control
  <2>4. active' \in [Daemons -> SUBSET Batches]
    BY <1>8, <2>1 DEF Heartbeat, Answered
  <2>5. QED BY <1>8, <2>2, <2>3, <2>4 DEF Heartbeat
<1>9. ASSUME NEW d \in Daemons, Register(d) PROVE TypeOK'
  BY <1>9 DEF Register, Settle, Control
<1>10. ASSUME NEW d \in Daemons, RegisterFails(d) PROVE TypeOK'
  BY <1>10 DEF RegisterFails, Settle, Control
<1>11. ASSUME NEW d \in Daemons, NEW b \in Batches, PollRunning(d, b) PROVE TypeOK'
  <2>1. beats' \subseteq Beat
    BY <1>11 DEF PollRunning, Report, Beat, Client
  <2>2. QED BY <1>11, <2>1 DEF PollRunning, Report, Settle, Control, Waiting
<1>12. ASSUME NEW d \in Daemons, NEW b \in Batches, NEW s \in Outcome, PollExited(d, b, s)
       PROVE  TypeOK'
  <2>1. beats' \subseteq Beat
    BY <1>12 DEF PollExited, Report, Beat, Client
  <2>2. QED BY <1>12, <2>1 DEF PollExited, Report, Settle, Control, Waiting
<1>13. ASSUME NEW d \in Daemons, Leave(d) PROVE TypeOK'
  BY <1>13 DEF Leave, Settle, Control
<1>14. ASSUME NEW d \in Daemons, RequestClaim(d) PROVE TypeOK'
  <2>1. claims' \subseteq Claim
    BY <1>14 DEF RequestClaim, Claim, Client
  <2>2. QED BY <1>14, <2>1 DEF RequestClaim, Settle, Control, Waiting
<1>15. ASSUME NEW d \in Daemons, ClaimsOver(d) PROVE TypeOK'
  BY <1>15 DEF ClaimsOver, Settle, Control
<1>16. ASSUME NEW d \in Daemons, Spawn(d) PROVE TypeOK'
  <2>1. cur[d] \in Batches
    BY <1>16 DEF Spawn, DaemonInv
  <2>2. QED BY <1>16, <2>1 DEF Spawn, Settle, Control
<1>17. ASSUME NEW d \in Daemons, RefuseBatch(d) PROVE TypeOK'
  <2>1. cur[d] \in Batches
    BY <1>17 DEF RefuseBatch, DaemonInv
  <2>2. beats' \subseteq Beat
    BY <1>17, <2>1 DEF RefuseBatch, Report, Beat, Client, Outcome
  <2>3. QED BY <1>17, <2>1, <2>2 DEF RefuseBatch, Report, Settle, Control, Waiting
<1>18. ASSUME NEW d \in Daemons, CallFails(d) PROVE TypeOK'
  <2>1. claims' \subseteq Claim /\ beats' \subseteq Beat
    BY <1>18, AbandonType DEF CallFails
  <2>2. PICK at \in Control : pc' = [pc EXCEPT ![d] = at]
    BY <1>18 DEF CallFails, Settle, Control, Waiting
  <2>3. PICK S \in SUBSET Batches : active' = [active EXCEPT ![d] = S]
    BY <1>18 DEF CallFails, Waiting
  <2>4. QED BY <1>18, <2>1, <2>2, <2>3 DEF CallFails
<1>19. ASSUME NEW d \in Daemons, Crash(d) PROVE TypeOK'
  BY <1>19, AbandonType DEF Crash, Settle, Control
<1>20. ASSUME NEW d \in Daemons, Start(d) PROVE TypeOK'
  BY <1>20 DEF Start, Settle, Control
<1>21. ASSUME NEW d \in Daemons, Terminate(d) PROVE TypeOK'
  BY <1>21 DEF Terminate
<1>22. ASSUME NEW d \in Daemons, StartSecond(d) PROVE TypeOK'
  BY <1>22 DEF StartSecond, Settle, Control
<1>23. ASSUME UNCHANGED vars PROVE TypeOK'
  BY <1>23 DEF vars
<1>24. QED
  BY <1>1, <1>2, <1>3, <1>4, <1>5, <1>6, <1>7, <1>8, <1>9, <1>10, <1>11, <1>12, <1>13,
     <1>14, <1>15, <1>16, <1>17, <1>18, <1>19, <1>20, <1>21, <1>22, <1>23
  DEF Next, Controller, Handler, Daemon, Faults

-----------------------------------------------------------------------------
\* A batch that has been claimed is never unclaimed, and a queued batch leaves
\* the queue by a claim alone; a worker that has had two daemons stays one.
ClaimedStays ==
  /\ doubled \subseteq doubled'
  /\ \A b \in Batches :
       /\ Ran(b) => Ran(b)'
       /\ status[b] = "queued" => status'[b] = "queued" \/ Ran(b)'

\* What a step may do to the batches that wait for the asset sync: the action
\* of SyncGate.
SyncKept ==
  \A b \in Batches :
    /\ status[b] = "pending_sync" => status'[b] \in {"pending_sync", "queued", "sync_failed"}
    /\ status[b] = "sync_failed" => status'[b] = "sync_failed"

LEMMA StepStatus == TypeOK /\ ClaimsInv /\ BeatsInv /\ [Next]_vars => ClaimedStays /\ SyncKept
<1> SUFFICES ASSUME TypeOK, ClaimsInv, BeatsInv, [Next]_vars PROVE ClaimedStays /\ SyncKept
  OBVIOUS
<1> USE ConstantsAssumption DEF TypeOK, ClaimedStays, SyncKept, Ran, Outcome, dbVars, netVars, daemonVars, lifeVars
<1>1. ASSUME NEW b \in Batches, CreateBatch(b) PROVE ClaimedStays /\ SyncKept
  BY <1>1 DEF CreateBatch
<1>2. ASSUME NEW r \in Runs, NEW w \in Workers, PromoteWorkerBatches(r, w)
       PROVE  ClaimedStays /\ SyncKept
  BY <1>2 DEF PromoteWorkerBatches, SetStatus, PendingSync
<1>3. ASSUME NEW r \in Runs, NEW w \in Workers, MarkWorkerBatchesSyncFailed(r, w)
       PROVE  ClaimedStays /\ SyncKept
  BY <1>3 DEF MarkWorkerBatchesSyncFailed, SetStatus, PendingSync
<1>4. ASSUME NEW w \in Workers, UpdateWorkerSettings(w) PROVE ClaimedStays /\ SyncKept
  BY <1>4 DEF UpdateWorkerSettings
<1>5. ASSUME NEW c \in claims, ClaimNothing(c) PROVE ClaimedStays /\ SyncKept
  BY <1>5 DEF ClaimNothing
<1>6. ASSUME NEW c \in claims, ClaimSelect(c) PROVE ClaimedStays /\ SyncKept
  BY <1>6 DEF ClaimSelect
<1>7. ASSUME NEW c \in claims, ClaimUpdate(c) PROVE ClaimedStays /\ SyncKept
  <2>1. c.batch \in Batches /\ (status[c.batch] = "queued" \/ Ran(c.batch))
    BY <1>7 DEF ClaimUpdate, ClaimsInv, Claim
  <2>2. QED BY <1>7, <2>1 DEF ClaimUpdate
<1>8. ASSUME NEW m \in beats, Heartbeat(m) PROVE ClaimedStays /\ SyncKept
  <2>1. m.batch \in Batches /\ m.status \in {"running"} \cup Outcome /\ Ran(m.batch)
    BY DEF BeatsInv, Beat
  <2>2. QED BY <1>8, <2>1 DEF Heartbeat
<1>9. ASSUME NEW d \in Daemons, Register(d) PROVE ClaimedStays /\ SyncKept
  BY <1>9 DEF Register
<1>10. ASSUME NEW d \in Daemons, RegisterFails(d) PROVE ClaimedStays /\ SyncKept
  BY <1>10 DEF RegisterFails
<1>11. ASSUME NEW d \in Daemons, NEW b \in Batches, PollRunning(d, b)
       PROVE  ClaimedStays /\ SyncKept
  BY <1>11 DEF PollRunning, Report
<1>12. ASSUME NEW d \in Daemons, NEW b \in Batches, NEW s \in Outcome, PollExited(d, b, s)
       PROVE  ClaimedStays /\ SyncKept
  BY <1>12 DEF PollExited, Report
<1>13. ASSUME NEW d \in Daemons, Leave(d) PROVE ClaimedStays /\ SyncKept
  BY <1>13 DEF Leave
<1>14. ASSUME NEW d \in Daemons, RequestClaim(d) PROVE ClaimedStays /\ SyncKept
  BY <1>14 DEF RequestClaim
<1>15. ASSUME NEW d \in Daemons, ClaimsOver(d) PROVE ClaimedStays /\ SyncKept
  BY <1>15 DEF ClaimsOver
<1>16. ASSUME NEW d \in Daemons, Spawn(d) PROVE ClaimedStays /\ SyncKept
  BY <1>16 DEF Spawn
<1>17. ASSUME NEW d \in Daemons, RefuseBatch(d) PROVE ClaimedStays /\ SyncKept
  BY <1>17 DEF RefuseBatch, Report
<1>18. ASSUME NEW d \in Daemons, CallFails(d) PROVE ClaimedStays /\ SyncKept
  BY <1>18 DEF CallFails
<1>19. ASSUME NEW d \in Daemons, Crash(d) PROVE ClaimedStays /\ SyncKept
  BY <1>19 DEF Crash
<1>20. ASSUME NEW d \in Daemons, Start(d) PROVE ClaimedStays /\ SyncKept
  BY <1>20 DEF Start
<1>21. ASSUME NEW d \in Daemons, Terminate(d) PROVE ClaimedStays /\ SyncKept
  BY <1>21 DEF Terminate
<1>22. ASSUME NEW d \in Daemons, StartSecond(d) PROVE ClaimedStays /\ SyncKept
  BY <1>22 DEF StartSecond
<1>23. ASSUME UNCHANGED vars PROVE ClaimedStays /\ SyncKept
  BY <1>23 DEF vars
<1>24. QED
  BY <1>1, <1>2, <1>3, <1>4, <1>5, <1>6, <1>7, <1>8, <1>9, <1>10, <1>11, <1>12, <1>13,
     <1>14, <1>15, <1>16, <1>17, <1>18, <1>19, <1>20, <1>21, <1>22, <1>23
  DEF Next, Controller, Handler, Daemon, Faults

-----------------------------------------------------------------------------
(* Claim handlers.                                                          *)

\* A step that adds no claim, starts no executor and moves no daemon whose
\* claim is still live keeps ClaimsInv.
LEMMA ClaimsKept ==
  ASSUME TypeOK, ClaimsInv, ClaimedStays, claims' \subseteq claims, starts' = starts,
         \A c \in claims' : Live(c) => pc'[c.daemon] = "claiming"
  PROVE  ClaimsInv'
BY DEF TypeOK, ClaimsInv, ClaimedStays, Claim, Fresh, MayRun, Live

\* When a daemon gives up its calls, no claim of it is live any more and the
\* others are the same.
LEMMA ClaimsAbandoned ==
  ASSUME TypeOK, ClaimsInv, ClaimedStays, starts' = starts, NEW d \in Daemons, Abandon(d),
         \A v \in Daemons : v # d => pc'[v] = pc[v]
  PROVE  ClaimsInv'
<1>1. ASSUME NEW c \in claims'
      PROVE  \E o \in claims : /\ c.daemon = o.daemon /\ c.batch = o.batch
                               /\ Live(c) => c = o /\ c.daemon # d
  BY <1>1 DEF TypeOK, Abandon, Claim, Live
<1>2. QED
  BY <1>1 DEF TypeOK, ClaimsInv, ClaimedStays, Claim, Fresh, MayRun, Live, WorkerOf

LEMMA StepClaims == RouteInv /\ [Next]_vars => ClaimsInv'
<1> SUFFICES ASSUME RouteInv, [Next]_vars PROVE ClaimsInv'
  OBVIOUS
<1>0. ClaimedStays /\ TypeOK /\ ClaimsInv
  BY StepStatus DEF RouteInv
<1> USE ConstantsAssumption DEF dbVars, netVars, daemonVars, lifeVars
<1>1. ASSUME NEW b \in Batches, CreateBatch(b) PROVE ClaimsInv'
  BY <1>1, <1>0, ClaimsKept DEF CreateBatch, TypeOK, ClaimsInv, Claim
<1>2. ASSUME NEW r \in Runs, NEW w \in Workers, PromoteWorkerBatches(r, w) PROVE ClaimsInv'
  BY <1>2, <1>0, ClaimsKept DEF PromoteWorkerBatches, SetStatus, PendingSync, TypeOK, ClaimsInv, Claim
<1>3. ASSUME NEW r \in Runs, NEW w \in Workers, MarkWorkerBatchesSyncFailed(r, w)
       PROVE  ClaimsInv'
  BY <1>3, <1>0, ClaimsKept DEF MarkWorkerBatchesSyncFailed, SetStatus, PendingSync, TypeOK, ClaimsInv, Claim
<1>4. ASSUME NEW w \in Workers, UpdateWorkerSettings(w) PROVE ClaimsInv'
  BY <1>4, <1>0, ClaimsKept DEF UpdateWorkerSettings, TypeOK, ClaimsInv, Claim
<1>5. ASSUME NEW c \in claims, ClaimNothing(c) PROVE ClaimsInv'
  BY <1>5, <1>0, ClaimsKept DEF ClaimNothing, Settle, TypeOK, ClaimsInv, Claim
<1>6. ASSUME NEW c \in claims, ClaimSelect(c) PROVE ClaimsInv'
  <2>1. PICK b \in Batches :
          /\ claims' = (claims \ {c}) \cup {[c EXCEPT !.batch = b]}
          /\ status[b] = "queued" /\ MayRun(b, WorkerOf(c))
    BY <1>6 DEF ClaimSelect, Claimable, MayRun
  <2>b. \A o \in claims' : o \in claims \/ (o.daemon = c.daemon /\ o.batch = b /\ (Live(o) <=> Live(c)))
    BY <1>0, <2>1 DEF TypeOK, Claim, Live
  <2>c. \A o, e \in claims' : Live(o) /\ Live(e) /\ o.daemon = e.daemon => o = e
    BY <1>0, <2>1, <2>b DEF ClaimsInv
  <2>2. Fresh(b)
    BY <2>1 DEF RouteInv, RowsInv, Fresh, Ran, Outcome, TypeOK
  <2>3. QED
    BY <1>0, <1>6, <2>1, <2>2, <2>b, <2>c
    DEF ClaimSelect, TypeOK, ClaimsInv, Claim, Live, Fresh, Ran, MayRun, WorkerOf
<1>7. ASSUME NEW c \in claims, ClaimUpdate(c) PROVE ClaimsInv'
  BY <1>7, <1>0, ClaimsKept DEF ClaimUpdate, Settle, TypeOK, ClaimsInv, Claim
<1>8. ASSUME NEW m \in beats, Heartbeat(m) PROVE ClaimsInv'
  BY <1>8, <1>0, ClaimsKept DEF Heartbeat, Answered, Settle, RouteInv, TypeOK, ClaimsInv, BeatsInv, Claim, Beat
<1>9. ASSUME NEW d \in Daemons, Register(d) PROVE ClaimsInv'
  BY <1>9, <1>0, ClaimsKept DEF Register, Settle, TypeOK, ClaimsInv, Claim
<1>10. ASSUME NEW d \in Daemons, RegisterFails(d) PROVE ClaimsInv'
  BY <1>10, <1>0, ClaimsKept DEF RegisterFails, Settle, TypeOK, ClaimsInv, Claim
<1>11. ASSUME NEW d \in Daemons, NEW b \in Batches, PollRunning(d, b) PROVE ClaimsInv'
  BY <1>11, <1>0, ClaimsKept DEF PollRunning, Report, Settle, TypeOK, ClaimsInv, Claim
<1>12. ASSUME NEW d \in Daemons, NEW b \in Batches, NEW s \in Outcome, PollExited(d, b, s)
       PROVE  ClaimsInv'
  BY <1>12, <1>0, ClaimsKept DEF PollExited, Report, Settle, TypeOK, ClaimsInv, Claim
<1>13. ASSUME NEW d \in Daemons, Leave(d) PROVE ClaimsInv'
  BY <1>13, <1>0, ClaimsKept DEF Leave, Settle, TypeOK, ClaimsInv, Claim
<1>14. ASSUME NEW d \in Daemons, RequestClaim(d) PROVE ClaimsInv'
  <2>1. \A c \in claims : c.daemon = d => ~Live(c)
    BY <1>0, <1>14 DEF RequestClaim, ClaimsInv
  <2>2. \A c \in claims' : c \in claims \/ (c.daemon = d /\ c.batch = None /\ Live(c))
    BY <1>14 DEF RequestClaim, Live
  <2>3. QED
    BY <1>0, <1>14, <2>1, <2>2
    DEF RequestClaim, Settle, TypeOK, ClaimsInv, Claim, Live, Fresh, Ran, MayRun
<1>15. ASSUME NEW d \in Daemons, ClaimsOver(d) PROVE ClaimsInv'
  BY <1>15, <1>0, ClaimsKept DEF ClaimsOver, Settle, TypeOK, ClaimsInv, Claim
<1>16. ASSUME NEW d \in Daemons, Spawn(d) PROVE ClaimsInv'
  <2>1. cur[d] \in Batches /\ MayRun(cur[d], Serves[d]) /\ pc[d] = "start"
    BY <1>16 DEF Spawn, RouteInv, DaemonInv
  <2>2. \A c \in claims : Live(c) /\ c.batch # None => Fresh(c.batch)'
    BY <1>0, <1>16, <2>1 DEF Spawn, RouteInv, AloneInv, TypeOK, ClaimsInv, Claim, Fresh, MayRun, WorkerOf
  <2>3. \A c \in claims : Live(c) => pc'[c.daemon] = "claiming"
    BY <1>0, <1>16, <2>1 DEF Spawn, Settle, TypeOK, ClaimsInv, Claim
  <2>4. QED BY <1>0, <1>16, <2>2, <2>3 DEF Spawn, TypeOK, ClaimsInv, ClaimedStays, Claim, Live
<1>17. ASSUME NEW d \in Daemons, RefuseBatch(d) PROVE ClaimsInv'
  BY <1>17, <1>0, ClaimsKept DEF RefuseBatch, Report, Settle, TypeOK, ClaimsInv, Claim
<1>18. ASSUME NEW d \in Daemons, CallFails(d) PROVE ClaimsInv'
  BY <1>18, <1>0, ClaimsAbandoned DEF CallFails, Settle, TypeOK
<1>19. ASSUME NEW d \in Daemons, Crash(d) PROVE ClaimsInv'
  BY <1>19, <1>0, ClaimsAbandoned DEF Crash, Settle, TypeOK
<1>20. ASSUME NEW d \in Daemons, Start(d) PROVE ClaimsInv'
  BY <1>20, <1>0, ClaimsKept DEF Start, Up, Settle, TypeOK, ClaimsInv, Claim
<1>21. ASSUME NEW d \in Daemons, Terminate(d) PROVE ClaimsInv'
  BY <1>21, <1>0, ClaimsKept DEF Terminate, ClaimsInv
<1>22. ASSUME NEW d \in Daemons, StartSecond(d) PROVE ClaimsInv'
  BY <1>22, <1>0, ClaimsKept DEF StartSecond, Settle, TypeOK, ClaimsInv, Claim
<1>23. ASSUME UNCHANGED vars PROVE ClaimsInv'
  BY <1>23, <1>0, ClaimsKept DEF vars, ClaimsInv
<1>24. QED
  BY <1>1, <1>2, <1>3, <1>4, <1>5, <1>6, <1>7, <1>8, <1>9, <1>10, <1>11, <1>12, <1>13,
     <1>14, <1>15, <1>16, <1>17, <1>18, <1>19, <1>20, <1>21, <1>22, <1>23
  DEF Next, Controller, Handler, Daemon, Faults

-----------------------------------------------------------------------------
(* Heartbeat handlers.                                                      *)

Posting == {"beat", "final", "refuse"}

\* A step that adds no heartbeat and moves no daemon whose heartbeat is still
\* live keeps BeatsInv.
LEMMA BeatsKept ==
  ASSUME TypeOK, BeatsInv, ClaimedStays, beats' \subseteq beats,
         \A m \in beats' : Live(m) => pc'[m.daemon] \in Posting
  PROVE  BeatsInv'
BY DEF TypeOK, BeatsInv, ClaimedStays, Beat, Live, Posting

\* When a daemon gives up its calls, no heartbeat of it is live any more and
\* the others are the same.
LEMMA BeatsAbandoned ==
  ASSUME TypeOK, BeatsInv, ClaimedStays, NEW d \in Daemons, Abandon(d),
         \A v \in Daemons : v # d => pc'[v] = pc[v]
  PROVE  BeatsInv'
<1>1. ASSUME NEW m \in beats'
      PROVE  \E o \in beats : /\ m.daemon = o.daemon /\ m.batch = o.batch
                              /\ Live(m) => m = o /\ m.daemon # d
  BY <1>1 DEF TypeOK, Abandon, Beat, Live
<1>2. QED
  BY <1>1 DEF TypeOK, BeatsInv, ClaimedStays, Beat, Live

\* A daemon at rest that posts a heartbeat about a claimed batch keeps BeatsInv.
LEMMA BeatsReported ==
  ASSUME TypeOK, BeatsInv, ClaimedStays,
         NEW d \in Daemons, NEW b \in Batches, NEW s \in {"running"} \cup Outcome,
         NEW at \in Posting, pc[d] \notin Posting, Ran(b), Report(d, b, s, at)
  PROVE  BeatsInv'
<1>1. \A m \in beats : m.daemon = d => ~Live(m)
  BY DEF BeatsInv, Posting
<1>2. \A m \in beats' : m \in beats \/ (m.daemon = d /\ m.batch = b /\ Live(m))
  BY DEF Report, Live
<1>3. \A m, n \in beats' \ beats : m = n
  BY DEF Report
<1>4. pc' = [pc EXCEPT ![d] = at]
  BY DEF Report, Settle
<1>5. \A m \in beats' : Live(m) => pc'[m.daemon] \in Posting
  BY <1>1, <1>2, <1>4 DEF TypeOK, BeatsInv, Beat, Posting
<1>6. \A m, n \in beats' : Live(m) /\ Live(n) /\ m.daemon = n.daemon => m = n
  BY <1>1, <1>2, <1>3 DEF BeatsInv
<1>7. \A m \in beats' : Ran(m.batch)'
  BY <1>2 DEF TypeOK, BeatsInv, ClaimedStays, Beat
<1>8. QED BY <1>5, <1>6, <1>7 DEF BeatsInv, Posting, Live

LEMMA StepBeats == RouteInv /\ [Next]_vars => BeatsInv'
<1> SUFFICES ASSUME RouteInv, [Next]_vars PROVE BeatsInv'
  OBVIOUS
<1>0. ClaimedStays /\ TypeOK /\ BeatsInv
  BY StepStatus DEF RouteInv
<1> USE ConstantsAssumption DEF dbVars, netVars, daemonVars, lifeVars
<1>1. ASSUME NEW b \in Batches, CreateBatch(b) PROVE BeatsInv'
  BY <1>1, <1>0, BeatsKept DEF CreateBatch, TypeOK, BeatsInv, Beat, Posting
<1>2. ASSUME NEW r \in Runs, NEW w \in Workers, PromoteWorkerBatches(r, w) PROVE BeatsInv'
  BY <1>2, <1>0, BeatsKept DEF PromoteWorkerBatches, SetStatus, PendingSync, TypeOK, BeatsInv, Beat, Posting
<1>3. ASSUME NEW r \in Runs, NEW w \in Workers, MarkWorkerBatchesSyncFailed(r, w)
       PROVE  BeatsInv'
  BY <1>3, <1>0, BeatsKept DEF MarkWorkerBatchesSyncFailed, SetStatus, PendingSync, TypeOK, BeatsInv, Beat, Posting
<1>4. ASSUME NEW w \in Workers, UpdateWorkerSettings(w) PROVE BeatsInv'
  BY <1>4, <1>0, BeatsKept DEF UpdateWorkerSettings, TypeOK, BeatsInv, Beat, Posting
<1>5. ASSUME NEW c \in claims, ClaimNothing(c) PROVE BeatsInv'
  BY <1>5, <1>0, BeatsKept DEF ClaimNothing, Settle, RouteInv, ClaimsInv, TypeOK, BeatsInv, Beat, Claim, Posting
<1>6. ASSUME NEW c \in claims, ClaimSelect(c) PROVE BeatsInv'
  BY <1>6, <1>0, BeatsKept DEF ClaimSelect, TypeOK, BeatsInv, Beat, Posting
<1>7. ASSUME NEW c \in claims, ClaimUpdate(c) PROVE BeatsInv'
  BY <1>7, <1>0, BeatsKept DEF ClaimUpdate, Settle, RouteInv, ClaimsInv, TypeOK, BeatsInv, Beat, Claim, Posting
<1>8. ASSUME NEW m \in beats, Heartbeat(m) PROVE BeatsInv'
  BY <1>8, <1>0, BeatsKept DEF Heartbeat, Answered, Settle, TypeOK, BeatsInv, Beat, Posting
<1>9. ASSUME NEW d \in Daemons, Register(d) PROVE BeatsInv'
  BY <1>9, <1>0, BeatsKept DEF Register, Settle, TypeOK, BeatsInv, Beat, Posting
<1>10. ASSUME NEW d \in Daemons, RegisterFails(d) PROVE BeatsInv'
  BY <1>10, <1>0, BeatsKept DEF RegisterFails, Settle, TypeOK, BeatsInv, Beat, Posting
<1>11. ASSUME NEW d \in Daemons, NEW b \in Batches, PollRunning(d, b) PROVE BeatsInv'
  <2>1. Ran(b) /\ pc[d] \notin Posting
    BY <1>11 DEF PollRunning, RouteInv, DaemonInv, Posting
  <2>2. QED BY <1>0, <1>11, <2>1, BeatsReported DEF PollRunning, Posting
<1>12. ASSUME NEW d \in Daemons, NEW b \in Batches, NEW s \in Outcome, PollExited(d, b, s)
       PROVE  BeatsInv'
  <2>1. Ran(b) /\ pc[d] \notin Posting
    BY <1>12 DEF PollExited, RouteInv, DaemonInv, Posting
  <2>2. QED BY <1>0, <1>12, <2>1, BeatsReported DEF PollExited, Posting
<1>13. ASSUME NEW d \in Daemons, Leave(d) PROVE BeatsInv'
  BY <1>13, <1>0, BeatsKept DEF Leave, Settle, TypeOK, BeatsInv, Beat, Posting
<1>14. ASSUME NEW d \in Daemons, RequestClaim(d) PROVE BeatsInv'
  BY <1>14, <1>0, BeatsKept DEF RequestClaim, Settle, TypeOK, BeatsInv, Beat, Posting
<1>15. ASSUME NEW d \in Daemons, ClaimsOver(d) PROVE BeatsInv'
  BY <1>15, <1>0, BeatsKept DEF ClaimsOver, Settle, TypeOK, BeatsInv, Beat, Posting
<1>16. ASSUME NEW d \in Daemons, Spawn(d) PROVE BeatsInv'
  BY <1>16, <1>0, BeatsKept DEF Spawn, Settle, TypeOK, BeatsInv, Beat, Posting
<1>17. ASSUME NEW d \in Daemons, RefuseBatch(d) PROVE BeatsInv'
  <2>1. cur[d] \in Batches /\ Ran(cur[d]) /\ pc[d] \notin Posting
    BY <1>17 DEF RefuseBatch, RouteInv, DaemonInv, Posting
  <2>2. QED BY <1>0, <1>17, <2>1, BeatsReported DEF RefuseBatch, Posting, Outcome
<1>18. ASSUME NEW d \in Daemons, CallFails(d) PROVE BeatsInv'
  BY <1>18, <1>0, BeatsAbandoned DEF CallFails, Settle, TypeOK
<1>19. ASSUME NEW d \in Daemons, Crash(d) PROVE BeatsInv'
  BY <1>19, <1>0, BeatsAbandoned DEF Crash, Settle, TypeOK
<1>20. ASSUME NEW d \in Daemons, Start(d) PROVE BeatsInv'
  BY <1>20, <1>0, BeatsKept DEF Start, Up, Settle, TypeOK, BeatsInv, Beat, Posting
<1>21. ASSUME NEW d \in Daemons, Terminate(d) PROVE BeatsInv'
  BY <1>21, <1>0, BeatsKept DEF Terminate, BeatsInv, Posting
<1>22. ASSUME NEW d \in Daemons, StartSecond(d) PROVE BeatsInv'
  BY <1>22, <1>0, BeatsKept DEF StartSecond, Settle, TypeOK, BeatsInv, Beat, Posting
<1>23. ASSUME UNCHANGED vars PROVE BeatsInv'
  BY <1>23, <1>0, BeatsKept DEF vars, BeatsInv, Posting
<1>24. QED
  BY <1>1, <1>2, <1>3, <1>4, <1>5, <1>6, <1>7, <1>8, <1>9, <1>10, <1>11, <1>12, <1>13,
     <1>14, <1>15, <1>16, <1>17, <1>18, <1>19, <1>20, <1>21, <1>22, <1>23
  DEF Next, Controller, Handler, Daemon, Faults

-----------------------------------------------------------------------------
(* Daemons.                                                                 *)

\* What DaemonInv says of one daemon.
DaemonOK(d) ==
  /\ pc[d] \in {"start", "refuse", "beat", "final"} => cur[d] \in Batches
  /\ pc[d] \in {"start", "refuse"} => Ran(cur[d]) /\ MayRun(cur[d], Serves[d])
  /\ pc[d] = "start" => Fresh(cur[d])
  /\ \A b \in active[d] \cup todo[d] : Ran(b) /\ MayRun(b, Serves[d])

\* A daemon that does not move, while no executor is started.
LEMMA DaemonKept ==
  ASSUME TypeOK, ClaimedStays, NEW d \in Daemons, DaemonOK(d), starts' = starts,
         pc'[d] = pc[d], cur'[d] = cur[d], active'[d] \subseteq active[d], todo'[d] \subseteq todo[d]
  PROVE  DaemonOK(d)'
BY DEF TypeOK, ClaimedStays, DaemonOK, Fresh, MayRun

LEMMA StepDaemon == RouteInv /\ [Next]_vars => DaemonInv'
<1> SUFFICES ASSUME RouteInv, [Next]_vars PROVE \A d \in Daemons : DaemonOK(d)'
  BY DEF DaemonInv, DaemonOK
<1>0. ClaimedStays /\ TypeOK /\ \A d \in Daemons : DaemonOK(d)
  BY StepStatus DEF RouteInv, DaemonInv, DaemonOK
<1> USE ConstantsAssumption DEF dbVars, netVars, daemonVars, lifeVars
<1>1. ASSUME NEW b \in Batches, CreateBatch(b) PROVE \A u \in Daemons : DaemonOK(u)'
  BY <1>0, <1>1, DaemonKept DEF CreateBatch
<1>2. ASSUME NEW r \in Runs, NEW w \in Workers, PromoteWorkerBatches(r, w)
       PROVE  \A u \in Daemons : DaemonOK(u)'
  BY <1>0, <1>2, DaemonKept DEF PromoteWorkerBatches
<1>3. ASSUME NEW r \in Runs, NEW w \in Workers, MarkWorkerBatchesSyncFailed(r, w)
       PROVE  \A u \in Daemons : DaemonOK(u)'
  BY <1>0, <1>3, DaemonKept DEF MarkWorkerBatchesSyncFailed
<1>4. ASSUME NEW w \in Workers, UpdateWorkerSettings(w) PROVE \A u \in Daemons : DaemonOK(u)'
  BY <1>0, <1>4, DaemonKept DEF UpdateWorkerSettings
<1>5. ASSUME NEW c \in claims, ClaimNothing(c) PROVE \A u \in Daemons : DaemonOK(u)'
  <2>1. c.daemon \in Daemons
    BY <1>0 DEF TypeOK, Claim
  <2>2. \A v \in Daemons : v # c.daemon => DaemonOK(v)'
    BY <1>0, <1>5, DaemonKept DEF ClaimNothing, Settle, TypeOK
  <2>3. DaemonOK(c.daemon)'
    BY <1>0, <1>5, <2>1 DEF ClaimNothing, Settle, TypeOK, DaemonOK, ClaimedStays, Fresh
  <2>4. QED BY <2>2, <2>3
<1>6. ASSUME NEW c \in claims, ClaimSelect(c) PROVE \A u \in Daemons : DaemonOK(u)'
  BY <1>0, <1>6, DaemonKept DEF ClaimSelect
<1>7. ASSUME NEW c \in claims, ClaimUpdate(c) PROVE \A u \in Daemons : DaemonOK(u)'
  <2>1. c.daemon \in Daemons
    BY <1>0 DEF TypeOK, Claim
  <2>2. \A v \in Daemons : v # c.daemon => DaemonOK(v)'
    BY <1>0, <1>7, DaemonKept DEF ClaimUpdate, Settle, TypeOK
  <2>3. /\ c.batch \in Batches /\ MayRun(c.batch, WorkerOf(c)) /\ Ran(c.batch)'
        /\ Live(c) => Fresh(c.batch)'
    BY <1>0, <1>7 DEF ClaimUpdate, RouteInv, ClaimsInv, TypeOK, Claim, Ran, Fresh
  <2>4. DaemonOK(c.daemon)'
    BY <1>0, <1>7, <2>1, <2>3
    DEF ClaimUpdate, Settle, TypeOK, DaemonOK, ClaimedStays, Fresh, MayRun, WorkerOf
  <2>5. QED BY <2>2, <2>4
<1>8. ASSUME NEW m \in beats, Heartbeat(m) PROVE \A u \in Daemons : DaemonOK(u)'
  <2>1. m.daemon \in Daemons
    BY <1>0 DEF TypeOK, Beat
  <2>2. \A v \in Daemons : v # m.daemon => DaemonOK(v)'
    BY <1>0, <1>8, DaemonKept DEF Heartbeat, Answered, Settle, TypeOK
  <2>3. DaemonOK(m.daemon)'
    <3>1. CASE Live(m)
      BY <1>0, <1>8, <2>1, <3>1 DEF Heartbeat, Answered, Settle, TypeOK, DaemonOK, ClaimedStays
    <3>2. CASE ~Live(m)
      BY <1>0, <1>8, <2>1, <3>2, DaemonKept DEF Heartbeat
    <3>3. QED BY <3>1, <3>2
  <2>4. QED BY <2>2, <2>3
<1>9. ASSUME NEW d \in Daemons, Register(d) PROVE \A u \in Daemons : DaemonOK(u)'
  <2>1. \A v \in Daemons : v # d => DaemonOK(v)'
    BY <1>0, <1>9, DaemonKept DEF Register, Settle, TypeOK
  <2>2. DaemonOK(d)'
    BY <1>0, <1>9 DEF Register, Settle, TypeOK, DaemonOK, ClaimedStays, Waiting
  <2>3. QED BY <2>1, <2>2
<1>10. ASSUME NEW d \in Daemons, RegisterFails(d) PROVE \A u \in Daemons : DaemonOK(u)'
  <2>1. \A v \in Daemons : v # d => DaemonOK(v)'
    BY <1>0, <1>10, DaemonKept DEF RegisterFails, Settle, TypeOK
  <2>2. DaemonOK(d)'
    BY <1>0, <1>10 DEF RegisterFails, Settle, TypeOK, DaemonOK, ClaimedStays, Waiting
  <2>3. QED BY <2>1, <2>2
<1>11. ASSUME NEW d \in Daemons, NEW b \in Batches, PollRunning(d, b)
       PROVE  \A u \in Daemons : DaemonOK(u)'
  <2>1. \A v \in Daemons : v # d => DaemonOK(v)'
    BY <1>0, <1>11, DaemonKept DEF PollRunning, Report, Settle, TypeOK
  <2>2. DaemonOK(d)'
    BY <1>0, <1>11 DEF PollRunning, Report, Settle, TypeOK, DaemonOK, ClaimedStays
  <2>3. QED BY <2>1, <2>2
<1>12. ASSUME NEW d \in Daemons, NEW b \in Batches, NEW s \in Outcome, PollExited(d, b, s)
       PROVE  \A u \in Daemons : DaemonOK(u)'
  <2>1. \A v \in Daemons : v # d => DaemonOK(v)'
    BY <1>0, <1>12, DaemonKept DEF PollExited, Report, Settle, TypeOK
  <2>2. DaemonOK(d)'
    BY <1>0, <1>12 DEF PollExited, Report, Settle, TypeOK, DaemonOK, ClaimedStays
  <2>3. QED BY <2>1, <2>2
<1>13. ASSUME NEW d \in Daemons, Leave(d) PROVE \A u \in Daemons : DaemonOK(u)'
  <2>1. \A v \in Daemons : v # d => DaemonOK(v)'
    BY <1>0, <1>13, DaemonKept DEF Leave, Settle, TypeOK
  <2>2. DaemonOK(d)'
    BY <1>0, <1>13 DEF Leave, Settle, TypeOK, DaemonOK, ClaimedStays, Waiting
  <2>3. QED BY <2>1, <2>2
<1>14. ASSUME NEW d \in Daemons, RequestClaim(d) PROVE \A u \in Daemons : DaemonOK(u)'
  <2>1. \A v \in Daemons : v # d => DaemonOK(v)'
    BY <1>0, <1>14, DaemonKept DEF RequestClaim, Settle, TypeOK
  <2>2. DaemonOK(d)'
    BY <1>0, <1>14 DEF RequestClaim, Settle, TypeOK, DaemonOK, ClaimedStays, Waiting
  <2>3. QED BY <2>1, <2>2
<1>15. ASSUME NEW d \in Daemons, ClaimsOver(d) PROVE \A u \in Daemons : DaemonOK(u)'
  <2>1. \A v \in Daemons : v # d => DaemonOK(v)'
    BY <1>0, <1>15, DaemonKept DEF ClaimsOver, Settle, TypeOK
  <2>2. DaemonOK(d)'
    BY <1>0, <1>15 DEF ClaimsOver, Settle, TypeOK, DaemonOK, ClaimedStays, Waiting
  <2>3. QED BY <2>1, <2>2
<1>16. ASSUME NEW d \in Daemons, Spawn(d) PROVE \A u \in Daemons : DaemonOK(u)'
  <2>1. cur[d] \in Batches /\ MayRun(cur[d], Serves[d]) /\ Ran(cur[d]) /\ pc[d] = "start"
    BY <1>0, <1>16 DEF Spawn, DaemonOK
  <2>2. ASSUME NEW v \in Daemons, v # d PROVE DaemonOK(v)'
    <3>1. pc[v] = "start" => Fresh(cur[v])'
      BY <1>0, <1>16, <2>1, <2>2 DEF Spawn, RouteInv, AloneInv, TypeOK, DaemonOK, Fresh, MayRun
    <3>2. QED BY <1>0, <1>16, <2>2, <3>1 DEF Spawn, Settle, TypeOK, DaemonOK, ClaimedStays
  <2>3. DaemonOK(d)'
    BY <1>0, <1>16, <2>1 DEF Spawn, Settle, TypeOK, DaemonOK, ClaimedStays
  <2>4. QED BY <2>2, <2>3
<1>17. ASSUME NEW d \in Daemons, RefuseBatch(d) PROVE \A u \in Daemons : DaemonOK(u)'
  <2>1. \A v \in Daemons : v # d => DaemonOK(v)'
    BY <1>0, <1>17, DaemonKept DEF RefuseBatch, Report, Settle, TypeOK
  <2>2. DaemonOK(d)'
    BY <1>0, <1>17 DEF RefuseBatch, Report, Settle, TypeOK, DaemonOK, ClaimedStays, Waiting
  <2>3. QED BY <2>1, <2>2
<1>18. ASSUME NEW d \in Daemons, CallFails(d) PROVE \A u \in Daemons : DaemonOK(u)'
  <2>1. \A v \in Daemons : v # d => DaemonOK(v)'
    BY <1>0, <1>18, DaemonKept DEF CallFails, Settle, Waiting, TypeOK
  <2>2. DaemonOK(d)'
    BY <1>0, <1>18 DEF CallFails, Settle, Waiting, TypeOK, DaemonOK, ClaimedStays, Waiting
  <2>3. QED BY <2>1, <2>2
<1>19. ASSUME NEW d \in Daemons, Crash(d) PROVE \A u \in Daemons : DaemonOK(u)'
  <2>1. \A v \in Daemons : v # d => DaemonOK(v)'
    BY <1>0, <1>19, DaemonKept DEF Crash, Settle, TypeOK
  <2>2. DaemonOK(d)'
    BY <1>0, <1>19 DEF Crash, Settle, TypeOK, DaemonOK, ClaimedStays, Waiting
  <2>3. QED BY <2>1, <2>2
<1>20. ASSUME NEW d \in Daemons, Start(d) PROVE \A u \in Daemons : DaemonOK(u)'
  <2>1. \A v \in Daemons : v # d => DaemonOK(v)'
    BY <1>0, <1>20, DaemonKept DEF Start, Settle, TypeOK
  <2>2. DaemonOK(d)'
    BY <1>0, <1>20 DEF Start, Settle, TypeOK, DaemonOK, ClaimedStays, Waiting
  <2>3. QED BY <2>1, <2>2
<1>21. ASSUME NEW d \in Daemons, Terminate(d) PROVE \A u \in Daemons : DaemonOK(u)'
  BY <1>0, <1>21, DaemonKept DEF Terminate
<1>22. ASSUME NEW d \in Daemons, StartSecond(d) PROVE \A u \in Daemons : DaemonOK(u)'
  <2>1. \A v \in Daemons : v # d => DaemonOK(v)'
    BY <1>0, <1>22, DaemonKept DEF StartSecond, Settle, TypeOK
  <2>2. DaemonOK(d)'
    BY <1>0, <1>22 DEF StartSecond, Settle, TypeOK, DaemonOK, ClaimedStays, Waiting
  <2>3. QED BY <2>1, <2>2
<1>23. ASSUME UNCHANGED vars PROVE \A u \in Daemons : DaemonOK(u)'
  BY <1>0, <1>23, DaemonKept DEF vars
<1>24. QED
  BY <1>1, <1>2, <1>3, <1>4, <1>5, <1>6, <1>7, <1>8, <1>9, <1>10, <1>11, <1>12, <1>13,
     <1>14, <1>15, <1>16, <1>17, <1>18, <1>19, <1>20, <1>21, <1>22, <1>23
  DEF Next, Controller, Handler, Daemon, Faults

-----------------------------------------------------------------------------
(* Rows.                                                                    *)

LEMMA StepRows == RouteInv /\ [Next]_vars => RowsInv'
<1> SUFFICES ASSUME RouteInv, [Next]_vars PROVE RowsInv'
  OBVIOUS
<1>0. ClaimedStays /\ TypeOK /\ RowsInv
  BY StepStatus DEF RouteInv
<1> USE ConstantsAssumption DEF dbVars, netVars, daemonVars, lifeVars
<1>1. ASSUME NEW b \in Batches, CreateBatch(b) PROVE RowsInv'
  BY <1>0, <1>1 DEF CreateBatch, RowsInv, ClaimedStays
<1>2. ASSUME NEW r \in Runs, NEW w \in Workers, PromoteWorkerBatches(r, w) PROVE RowsInv'
  BY <1>0, <1>2 DEF PromoteWorkerBatches, RowsInv, ClaimedStays
<1>3. ASSUME NEW r \in Runs, NEW w \in Workers, MarkWorkerBatchesSyncFailed(r, w)
       PROVE  RowsInv'
  BY <1>0, <1>3 DEF MarkWorkerBatchesSyncFailed, RowsInv, ClaimedStays
<1>4. ASSUME NEW w \in Workers, UpdateWorkerSettings(w) PROVE RowsInv'
  BY <1>0, <1>4 DEF UpdateWorkerSettings, RowsInv, ClaimedStays
<1>5. ASSUME NEW c \in claims, ClaimNothing(c) PROVE RowsInv'
  BY <1>0, <1>5 DEF ClaimNothing, RowsInv, ClaimedStays
<1>6. ASSUME NEW c \in claims, ClaimSelect(c) PROVE RowsInv'
  BY <1>0, <1>6 DEF ClaimSelect, RowsInv, ClaimedStays
<1>7. ASSUME NEW c \in claims, ClaimUpdate(c) PROVE RowsInv'
  <2>1. c.batch \in Batches /\ MayRun(c.batch, WorkerOf(c))
    BY <1>0, <1>7 DEF ClaimUpdate, RouteInv, ClaimsInv, TypeOK, Claim
  <2>2. QED BY <1>0, <1>7, <2>1 DEF ClaimUpdate, RowsInv, ClaimedStays, TypeOK, MayRun
<1>8. ASSUME NEW m \in beats, Heartbeat(m) PROVE RowsInv'
  BY <1>0, <1>8 DEF Heartbeat, RowsInv, ClaimedStays
<1>9. ASSUME NEW d \in Daemons, Register(d) PROVE RowsInv'
  BY <1>0, <1>9 DEF Register, RowsInv, ClaimedStays
<1>10. ASSUME NEW d \in Daemons, RegisterFails(d) PROVE RowsInv'
  BY <1>0, <1>10 DEF RegisterFails, RowsInv, ClaimedStays
<1>11. ASSUME NEW d \in Daemons, NEW b \in Batches, PollRunning(d, b) PROVE RowsInv'
  BY <1>0, <1>11 DEF PollRunning, Report, RowsInv, ClaimedStays
<1>12. ASSUME NEW d \in Daemons, NEW b \in Batches, NEW s \in Outcome, PollExited(d, b, s)
       PROVE  RowsInv'
  BY <1>0, <1>12 DEF PollExited, Report, RowsInv, ClaimedStays
<1>13. ASSUME NEW d \in Daemons, Leave(d) PROVE RowsInv'
  BY <1>0, <1>13 DEF Leave, RowsInv, ClaimedStays
<1>14. ASSUME NEW d \in Daemons, RequestClaim(d) PROVE RowsInv'
  BY <1>0, <1>14 DEF RequestClaim, RowsInv, ClaimedStays
<1>15. ASSUME NEW d \in Daemons, ClaimsOver(d) PROVE RowsInv'
  BY <1>0, <1>15 DEF ClaimsOver, RowsInv, ClaimedStays
<1>16. ASSUME NEW d \in Daemons, Spawn(d) PROVE RowsInv'
  <2>1. cur[d] \in Batches /\ Ran(cur[d]) /\ Fresh(cur[d])
    BY <1>16 DEF Spawn, RouteInv, DaemonInv
  <2>2. QED BY <1>0, <1>16, <2>1 DEF Spawn, RowsInv, ClaimedStays, TypeOK, Fresh
<1>17. ASSUME NEW d \in Daemons, RefuseBatch(d) PROVE RowsInv'
  BY <1>0, <1>17 DEF RefuseBatch, Report, RowsInv, ClaimedStays
<1>18. ASSUME NEW d \in Daemons, CallFails(d) PROVE RowsInv'
  BY <1>0, <1>18 DEF CallFails, RowsInv, ClaimedStays
<1>19. ASSUME NEW d \in Daemons, Crash(d) PROVE RowsInv'
  BY <1>0, <1>19 DEF Crash, RowsInv, ClaimedStays
<1>20. ASSUME NEW d \in Daemons, Start(d) PROVE RowsInv'
  BY <1>0, <1>20 DEF Start, RowsInv, ClaimedStays
<1>21. ASSUME NEW d \in Daemons, Terminate(d) PROVE RowsInv'
  BY <1>0, <1>21 DEF Terminate, RowsInv, ClaimedStays
<1>22. ASSUME NEW d \in Daemons, StartSecond(d) PROVE RowsInv'
  BY <1>0, <1>22 DEF StartSecond, RowsInv, ClaimedStays
<1>23. ASSUME UNCHANGED vars PROVE RowsInv'
  BY <1>0, <1>23 DEF vars, RowsInv, ClaimedStays
<1>24. QED
  BY <1>1, <1>2, <1>3, <1>4, <1>5, <1>6, <1>7, <1>8, <1>9, <1>10, <1>11, <1>12, <1>13,
     <1>14, <1>15, <1>16, <1>17, <1>18, <1>19, <1>20, <1>21, <1>22, <1>23
  DEF Next, Controller, Handler, Daemon, Faults

-----------------------------------------------------------------------------
(* The daemons of a worker.                                                 *)

\* A step that starts no daemon leaves alone a daemon that was.
LEMMA AloneKept ==
  ASSUME AloneInv, doubled \subseteq doubled', \A d \in Daemons : pc[d] = "down" => pc'[d] = "down"
  PROVE  AloneInv'
BY DEF AloneInv

LEMMA StepAlone == RouteInv /\ [Next]_vars => AloneInv'
<1> SUFFICES ASSUME RouteInv, [Next]_vars PROVE AloneInv'
  OBVIOUS
<1>0. TypeOK /\ AloneInv /\ doubled \subseteq doubled'
  BY StepStatus DEF RouteInv, ClaimedStays
<1> USE DEF dbVars, netVars, daemonVars, lifeVars
<1>1. ASSUME NEW b \in Batches, CreateBatch(b) PROVE AloneInv'
  BY <1>0, <1>1, AloneKept DEF CreateBatch
<1>2. ASSUME NEW r \in Runs, NEW w \in Workers,
             PromoteWorkerBatches(r, w) \/ MarkWorkerBatchesSyncFailed(r, w)
      PROVE  AloneInv'
  BY <1>0, <1>2, AloneKept DEF PromoteWorkerBatches, MarkWorkerBatchesSyncFailed
<1>3. ASSUME NEW w \in Workers, UpdateWorkerSettings(w) PROVE AloneInv'
  BY <1>0, <1>3, AloneKept DEF UpdateWorkerSettings
<1>4. ASSUME NEW c \in claims, ClaimNothing(c) \/ ClaimSelect(c) \/ ClaimUpdate(c) PROVE AloneInv'
  <2>1. Live(c) => pc[c.daemon] = "claiming"
    BY DEF RouteInv, ClaimsInv
  <2>2. \A d \in Daemons : pc[d] = "down" => pc'[d] = "down"
    BY <1>0, <1>4, <2>1 DEF ClaimNothing, ClaimSelect, ClaimUpdate, Settle, TypeOK
  <2>3. QED BY <1>0, <2>2, AloneKept
<1>5. ASSUME NEW m \in beats, Heartbeat(m) PROVE AloneInv'
  <2>1. Live(m) => pc[m.daemon] \in {"beat", "final", "refuse"}
    BY DEF RouteInv, BeatsInv
  <2>2. \A d \in Daemons : pc[d] = "down" => pc'[d] = "down"
    BY <1>0, <1>5, <2>1 DEF Heartbeat, Answered, Settle, TypeOK
  <2>3. QED BY <1>0, <2>2, AloneKept
<1>6. ASSUME NEW d \in Daemons, Start(d) PROVE AloneInv'
  <2>1. \A e \in Daemons : pc'[e] # "down" => e = d \/ pc[e] # "down"
    BY <1>0, <1>6 DEF Start, Settle, TypeOK
  <2>2. \A e \in Daemons : Serves[e] = Serves[d] => pc[e] = "down"
    BY <1>6 DEF Start, Up
  <2>3. QED BY <1>0, <1>6, <2>1, <2>2 DEF Start, AloneInv
<1>7. ASSUME NEW d \in Daemons, StartSecond(d) PROVE AloneInv'
  <2>1. \A e \in Daemons : pc'[e] # "down" => e = d \/ pc[e] # "down"
    BY <1>0, <1>7 DEF StartSecond, Settle, TypeOK
  <2>2. Serves[d] \in doubled'
    BY <1>7 DEF StartSecond
  <2>3. QED BY <1>0, <2>1, <2>2 DEF AloneInv
<1>8. ASSUME NEW d \in Daemons,
             \/ Register(d) \/ RegisterFails(d) \/ Leave(d) \/ RequestClaim(d) \/ ClaimsOver(d)
             \/ Spawn(d) \/ RefuseBatch(d) \/ CallFails(d) \/ Terminate(d) \/ Crash(d)
             \/ \E b \in Batches : PollRunning(d, b) \/ \E s \in Outcome : PollExited(d, b, s)
      PROVE  AloneInv'
  <2>1. pc[d] = "down" => pc'[d] = "down"
    BY <1>8
    DEF Register, RegisterFails, Leave, RequestClaim, ClaimsOver, Spawn, RefuseBatch, CallFails,
        Terminate, Crash, PollRunning, PollExited, Waiting
  <2>2. \A e \in Daemons : e # d => pc'[e] = pc[e]
    BY <1>0, <1>8
    DEF Register, RegisterFails, Leave, RequestClaim, ClaimsOver, Spawn, RefuseBatch, CallFails,
        Terminate, Crash, PollRunning, PollExited, Report, Settle, TypeOK
  <2>3. QED BY <1>0, <2>1, <2>2, AloneKept
<1>9. ASSUME UNCHANGED vars PROVE AloneInv'
  BY <1>0, <1>9, AloneKept DEF vars
<1>10. QED
  BY <1>1, <1>2, <1>3, <1>4, <1>5, <1>6, <1>7, <1>8, <1>9
  DEF Next, Controller, Handler, Daemon, Faults

-----------------------------------------------------------------------------
(* Until the first fault: HeldInv.                                          *)

Held == doubled = {} /\ stopping = {} /\ HeldClaims /\ HeldBeats /\ HeldLoop /\ HeldRows

\* What the table's own steps do, creating batches and settling their asset
\* sync, concerns no batch that is claimed, held or finished.
LEMMA TableMoves ==
  ASSUME TypeOK, Held, UNCHANGED <<assigned, finished, netVars, daemonVars>>,
         \A b \in Batches :
           \/ status'[b] = status[b]
           \/ /\ status[b] \notin {"queued", "running"} \cup Outcome
              /\ status'[b] \notin {"running"} \cup Outcome
  PROVE  Held'
<1> USE DEF netVars, daemonVars, lifeVars, Pinned
<1>1. HeldClaims'
  BY DEF Held, HeldClaims
<1>2. HeldBeats' /\ HeldLoop'
  BY DEF Held, HeldBeats, HeldLoop
<1>3. HeldRows'
  BY DEF Held, HeldRows, HeldAt, Holds
<1>4. QED BY <1>1, <1>2, <1>3 DEF Held

\* A daemon between two calls and two batches holds what it held, wherever it
\* goes next in its loop.
LEMMA LoopMoves ==
  ASSUME RouteInv, Held, NEW d \in Daemons, NEW at,
         pc[d] \notin Posting \cup {"start"}, at \notin Posting \cup {"start"},
         pc' = [pc EXCEPT ![d] = at],
         at = "down" => active[d] = {},
         \A c \in claims' : c \in claims \/ (Live(c) /\ c.batch = None),
         todo'[d] \subseteq active[d],
         \A u \in Daemons : u # d => todo'[u] = todo[u],
         UNCHANGED <<status, assigned, finished, beats, cur, active, lifeVars>>
  PROVE  Held'
<1> USE DEF Posting
<1>1. TypeOK /\ (None \notin Pinned)
  BY ConstantsAssumption DEF RouteInv, Pinned
<1>2. pc'[d] = at /\ \A u \in Daemons : u # d => pc'[u] = pc[u]
  BY <1>1 DEF TypeOK
<1>3. HeldClaims'
  BY <1>1 DEF Held, HeldClaims, Pinned, Live
<1>4. \A m \in beats : m.daemon \in Daemons /\ m.daemon # d
  BY <1>1 DEF RouteInv, BeatsInv, Held, HeldBeats, TypeOK, Beat
<1>5. HeldBeats'
  BY <1>2, <1>4 DEF Held, HeldBeats, Live
<1>6. HeldLoop'
  BY <1>2 DEF Held, HeldLoop, Pinned
<1>7. ASSUME NEW u \in Daemons, NEW b \in Batches PROVE Holds(u, b)' <=> Holds(u, b)
  BY <1>2 DEF Holds
<1>8. HeldRows'
  BY <1>7, ConstantsAssumption DEF Held, HeldRows, HeldAt, Pinned
<1>9. QED BY <1>3, <1>5, <1>6, <1>8 DEF Held, lifeVars

\* A daemon that runs is the only one of its worker that holds anything.
LEMMA SoleHolder ==
  ASSUME RouteInv, Held, NEW d \in Daemons, pc[d] # "down"
  PROVE  /\ \A u \in Daemons : Serves[u] = Serves[d] /\ u # d => pc[u] = "down" /\ active[u] = {}
         /\ \A b \in Batches : HeldAt(Serves[d], b) <=> Holds(d, b)
<1>1. \A u \in Daemons : Serves[u] = Serves[d] /\ u # d => pc[u] = "down" /\ active[u] = {}
  BY DEF RouteInv, AloneInv, Held, HeldLoop
<1>2. QED BY <1>1 DEF HeldAt, Holds

\* The UPDATE of a claim: its batch was queued, so no daemon holds it and no
\* other claim has selected it; now its worker holds it.
LEMMA ClaimHeld ==
  ASSUME RouteInv, Held, NEW c \in claims, ClaimUpdate(c)
  PROVE  Held'
<1> USE ConstantsAssumption DEF dbVars, netVars, daemonVars, lifeVars, WorkerOf, lifeVars
<1> DEFINE d == c.daemon
           b == c.batch
<1>1. d \in Daemons /\ b \in Batches /\ MayRun(b, Serves[d]) /\ Live(c) /\ pc[d] = "claiming" /\ TypeOK
  BY DEF ClaimUpdate, RouteInv, TypeOK, ClaimsInv, Claim, Held, HeldClaims
<1>2. /\ status' = [status EXCEPT ![b] = "running"] /\ assigned' = [assigned EXCEPT ![b] = Serves[d]]
      /\ pc' = [pc EXCEPT ![d] = "start"] /\ cur' = [cur EXCEPT ![d] = b]
      /\ claims' = claims \ {c} /\ UNCHANGED <<finished, beats, todo, active, stopping, doubled>>
  BY <1>1 DEF ClaimUpdate, Settle
<1>3. b \in Pinned => Serves[d] = Preferred[b] /\ status[b] = "queued" /\ b \notin active[d] /\ b \notin finished
  BY <1>1 DEF Pinned, MayRun, Held, HeldClaims, HeldRows, HeldAt, Holds, Outcome
<1>4. ASSUME NEW o \in claims', o.batch \in Pinned PROVE o.batch # b
  <2>1. SUFFICES ASSUME o.batch = b PROVE FALSE
    OBVIOUS
  <2>2. o \in claims /\ o # c /\ Live(o)
    BY <1>2, <1>4 DEF Held, HeldClaims
  <2>3. o.daemon = d
    <3>1. Serves[o.daemon] = Serves[d] /\ o.daemon \in Daemons
      BY <1>3, <1>4, <2>1, <2>2 DEF RouteInv, TypeOK, ClaimsInv, Claim, MayRun, Pinned
    <3>2. pc[o.daemon] = "claiming"
      BY <2>2 DEF RouteInv, ClaimsInv
    <3>3. QED BY <1>1, <3>1, <3>2 DEF Held, RouteInv, AloneInv
  <2>4. QED BY <1>1, <2>2, <2>3 DEF RouteInv, ClaimsInv
<1>5. HeldClaims'
  BY <1>1, <1>2, <1>4 DEF Held, HeldClaims, Pinned, TypeOK, Live
<1>6. \A m \in beats : m.daemon \in Daemons /\ m.daemon # d
  BY <1>1 DEF RouteInv, BeatsInv, Held, HeldBeats, TypeOK, Beat
<1>7. HeldBeats'
  BY <1>1, <1>2, <1>6 DEF Held, HeldBeats, Live, TypeOK
<1>8. HeldLoop'
  BY <1>1, <1>2, <1>3 DEF Held, HeldLoop, TypeOK, Pinned
<1>9. ASSUME NEW u \in Daemons, NEW e \in Batches, e # b PROVE Holds(u, e)' <=> Holds(u, e)
  BY <1>1, <1>2, <1>9 DEF Holds, TypeOK
<1>10. b \in Pinned => Holds(d, b)' /\ status'[b] = "running" /\ assigned'[b] = Serves[d]
  BY <1>1, <1>2 DEF Holds, TypeOK
<1>11. \A e \in Batches : e # b => status'[e] = status[e] /\ assigned'[e] = assigned[e]
  BY <1>1, <1>2 DEF TypeOK
<1>12. HeldRows'
  <2>1. \A e \in Batches : e # b => (HeldAt(Preferred[e], e)' <=> HeldAt(Preferred[e], e))
    BY <1>9 DEF HeldAt
  <2>2. b \in Pinned => HeldAt(Preferred[b], b)'
    BY <1>1, <1>3, <1>10 DEF HeldAt
  <2>3. QED BY <1>2, <1>3, <1>10, <1>11, <2>1, <2>2 DEF Held, HeldRows, Pinned, Outcome
<1>13. QED BY <1>2, <1>5, <1>7, <1>8, <1>12 DEF Held

\* The batch a heartbeat is about is held by the worker that reports it.
LEMMA BeatIsHeld ==
  ASSUME RouteInv, Held, NEW m \in beats, m.batch \in Pinned
  PROVE  Serves[m.daemon] = Preferred[m.batch] /\ status[m.batch] = "running"
<1>1. m.daemon \in Daemons /\ m.batch \in Batches /\ pc[m.daemon] \in Posting /\ m.batch = cur[m.daemon]
  BY DEF RouteInv, TypeOK, BeatsInv, Beat, Held, HeldBeats, Posting
<1>2. pc[m.daemon] # "refuse" => m.batch \in active[m.daemon]
  BY <1>1 DEF Held, HeldLoop, Posting
<1>3. MayRun(m.batch, Serves[m.daemon]) /\ Holds(m.daemon, m.batch)
  BY <1>1, <1>2 DEF RouteInv, DaemonInv, Holds, Posting
<1>4. QED BY <1>1, <1>3 DEF MayRun, Pinned, Held, HeldRows, HeldAt

\* A heartbeat about a batch its worker holds: the row stays running with a
\* running one; with a final one the row is finished as the daemon lets go.
LEMMA BeatHeld ==
  ASSUME RouteInv, Held, NEW m \in beats, Heartbeat(m)
  PROVE  Held'
<1> USE ConstantsAssumption DEF dbVars, netVars, daemonVars, lifeVars, lifeVars
<1> DEFINE d == m.daemon
           b == m.batch
<1>1. d \in Daemons /\ b \in Batches /\ Live(m) /\ pc[d] \in Posting /\ b = cur[d] /\ TypeOK
  BY DEF RouteInv, TypeOK, BeatsInv, Beat, Held, HeldBeats, Posting
<1>2. \/ m.status = "running" /\ pc[d] = "beat"
      \/ m.status \in Outcome /\ pc[d] \in {"final", "refuse"}
  BY <1>1 DEF TypeOK, Beat, Held, HeldBeats, Posting
<1>3. /\ status' = [status EXCEPT ![b] = m.status]
      /\ finished' = finished \cup (IF m.status = "running" THEN {} ELSE {b})
      /\ pc' = [pc EXCEPT ![d] = "pass"]
      /\ active' = IF pc[d] = "final" THEN [active EXCEPT ![d] = @ \ {b}] ELSE active
      /\ cur' = [cur EXCEPT ![d] = None]
      /\ beats' = beats \ {m} /\ UNCHANGED <<assigned, claims, todo, stopping, doubled>>
  BY <1>1 DEF Heartbeat, Answered, Settle
<1>4. pc[d] \in {"beat", "final"} => b \in active[d] \ todo[d]
  BY <1>1 DEF Held, HeldLoop
<1>6. b \in Pinned => Serves[d] = Preferred[b] /\ status[b] = "running"
  BY BeatIsHeld
<1>7. HeldClaims'
  BY <1>1, <1>3, <1>6 DEF Held, HeldClaims, Pinned, TypeOK, Live
<1>8. \A n \in beats' : n \in beats /\ n.daemon \in Daemons /\ n.daemon # d
  BY <1>1, <1>3 DEF RouteInv, BeatsInv, Held, HeldBeats, TypeOK, Beat
<1>9. HeldBeats'
  BY <1>1, <1>3, <1>8 DEF Held, HeldBeats, Live, TypeOK
<1>10. ASSUME NEW u \in Daemons, u # d
       PROVE  pc'[u] = pc[u] /\ cur'[u] = cur[u] /\ active'[u] = active[u]
  BY <1>1, <1>3, <1>10 DEF TypeOK
<1>11. /\ pc'[d] = "pass"
       /\ active'[d] = IF pc[d] = "final" THEN active[d] \ {b} ELSE active[d]
  BY <1>1, <1>3 DEF TypeOK
<1>12. HeldLoop'
  BY <1>1, <1>3, <1>4, <1>10, <1>11 DEF Held, HeldLoop, Pinned
<1>13. ASSUME NEW u \in Daemons, NEW e \in Batches, e # b PROVE Holds(u, e)' <=> Holds(u, e)
  BY <1>1, <1>3, <1>10, <1>11, <1>13 DEF Holds, TypeOK
<1>14. \A e \in Batches : e # b => status'[e] = status[e] /\ (e \in finished' <=> e \in finished)
  BY <1>1, <1>3 DEF TypeOK
<1>15. b \in Pinned => (Holds(d, b)' <=> m.status = "running")
  <2>1. CASE pc[d] = "beat"
    BY <1>2, <1>4, <1>11, <2>1 DEF Holds
  <2>2. CASE pc[d] = "final"
    BY <1>2, <1>11, <2>2 DEF Holds, Outcome
  <2>3. CASE pc[d] = "refuse"
    <3>1. b \in Pinned => b \notin active[d]
      BY <1>1, <2>3 DEF Held, HeldLoop
    <3>2. QED BY <1>2, <1>11, <2>3, <3>1 DEF Holds, Outcome
  <2>4. QED BY <1>1, <2>1, <2>2, <2>3 DEF Posting
<1>16. /\ status'[b] = m.status
       /\ b \in Pinned => (b \in finished' <=> m.status \in Outcome)
  BY <1>1, <1>2, <1>3, <1>6 DEF TypeOK, Held, HeldRows, Outcome
<1>17. b \in Pinned => (HeldAt(Preferred[b], b)' <=> m.status = "running")
  <2>1. \A u \in Daemons : Serves[u] = Serves[d] /\ u # d => ~Holds(u, b)'
    BY <1>1, <1>10, SoleHolder DEF Holds, Posting
  <2>2. QED BY <1>1, <1>6, <1>15, <2>1 DEF HeldAt
<1>18. \A e \in Batches : e # b => (HeldAt(Preferred[e], e)' <=> HeldAt(Preferred[e], e))
  BY <1>13 DEF HeldAt
<1>19. HeldRows'
  <2>1. ASSUME NEW e \in Pinned
        PROVE  /\ status'[e] = "running" <=> HeldAt(Preferred[e], e)'
               /\ status'[e] = "running" => assigned'[e] = Preferred[e]
               /\ e \in finished' <=> status'[e] \in Outcome
    <3>1. e \in Batches /\ Preferred[e] \in Workers
      BY DEF Pinned
    <3>2. CASE e = b
      BY <1>3, <1>6, <1>16, <1>17, <3>2 DEF Held, HeldRows
    <3>3. CASE e # b
      BY <1>3, <1>14, <1>18, <3>1, <3>3 DEF Held, HeldRows
    <3>4. QED BY <3>2, <3>3
  <2>2. QED BY <2>1 DEF HeldRows, Pinned
<1>20. QED BY <1>3, <1>7, <1>9, <1>12, <1>19 DEF Held

\* A daemon that posts a heartbeat holds what it held: it polls one of its
\* executors, or refuses the batch it was about to start.
LEMMA ReportHeld ==
  ASSUME RouteInv, Held, NEW d \in Daemons, NEW b \in Batches, NEW s, NEW at \in Posting,
         Report(d, b, s, at), s = "running" <=> at = "beat",
         \/ pc[d] = "start" /\ at = "refuse" /\ b = cur[d] /\ todo' = todo
         \/ pc[d] = "pass" /\ at # "refuse" /\ b \in todo[d] /\ todo' = [todo EXCEPT ![d] = @ \ {b}]
  PROVE  Held'
<1> USE ConstantsAssumption DEF dbVars, lifeVars
<1>1. TypeOK /\ pc[d] \notin Posting
  BY DEF RouteInv, Posting
<1>2. /\ pc' = [pc EXCEPT ![d] = at] /\ cur' = [cur EXCEPT ![d] = b]
      /\ UNCHANGED <<status, assigned, finished, claims, active, stopping, doubled>>
  BY DEF Report, Settle
<1>3. pc'[d] = at /\ cur'[d] = b /\ \A u \in Daemons : u # d => pc'[u] = pc[u] /\ cur'[u] = cur[u]
  BY <1>1, <1>2 DEF TypeOK
<1>4. HeldClaims'
  BY <1>2 DEF Held, HeldClaims, Pinned, Live
<1>5. \A m \in beats : m.daemon \in Daemons /\ m.daemon # d
  BY <1>1 DEF RouteInv, BeatsInv, Held, HeldBeats, TypeOK, Beat, Posting
<1>6. \A m \in beats' :
        m \in beats \/ (m.daemon = d /\ m.batch = b /\ m.status = s /\ m.client = "waits")
  BY DEF Report
<1>7. HeldBeats'
  BY <1>3, <1>5, <1>6 DEF Held, HeldBeats, Live
<1>8. \A u \in Daemons : todo'[u] \subseteq todo[u] /\ (u # d => todo'[u] = todo[u])
  BY <1>1 DEF TypeOK
<1>9. at # "refuse" => b \in active[d] \ todo'[d]
  BY <1>1 DEF TypeOK, Held, HeldLoop
<1>10. at = "refuse" /\ b \in Pinned => b \notin active[d]
  BY <1>1 DEF Held, HeldLoop
<1>11. HeldLoop'
  BY <1>2, <1>3, <1>8, <1>9, <1>10 DEF Held, HeldLoop, Pinned, Posting
<1>12. ASSUME NEW u \in Daemons, NEW e \in Batches PROVE Holds(u, e)' <=> Holds(u, e)
  BY <1>2, <1>3 DEF Holds, Posting
<1>13. HeldRows'
  BY <1>2, <1>12 DEF Held, HeldRows, HeldAt, Pinned
<1>14. QED BY <1>2, <1>4, <1>7, <1>11, <1>13 DEF Held

\* An executor that has been started is held in the daemon's dict.
LEMMA SpawnHeld ==
  ASSUME RouteInv, Held, NEW d \in Daemons, Spawn(d)
  PROVE  Held'
<1> USE ConstantsAssumption DEF dbVars, netVars, lifeVars, Posting
<1>1. TypeOK /\ pc[d] = "start" /\ cur[d] \in Batches
  BY DEF Spawn, RouteInv, DaemonInv
<1>2. /\ pc' = [pc EXCEPT ![d] = "pass"] /\ cur' = [cur EXCEPT ![d] = None]
      /\ active' = [active EXCEPT ![d] = @ \cup {cur[d]}]
      /\ UNCHANGED <<status, assigned, finished, claims, beats, todo, stopping, doubled>>
  BY DEF Spawn, Settle
<1>3. /\ pc'[d] = "pass" /\ active'[d] = active[d] \cup {cur[d]}
      /\ \A u \in Daemons : u # d => pc'[u] = pc[u] /\ cur'[u] = cur[u] /\ active'[u] = active[u]
  BY <1>1, <1>2 DEF TypeOK
<1>4. HeldClaims'
  BY <1>2 DEF Held, HeldClaims, Pinned, Live
<1>5. \A m \in beats : m.daemon \in Daemons /\ m.daemon # d
  BY <1>1 DEF RouteInv, BeatsInv, Held, HeldBeats, TypeOK, Beat
<1>6. HeldBeats'
  BY <1>2, <1>3, <1>5 DEF Held, HeldBeats, Live
<1>7. HeldLoop'
  BY <1>2, <1>3 DEF Held, HeldLoop, Pinned
<1>8. ASSUME NEW u \in Daemons, NEW e \in Batches PROVE Holds(u, e)' <=> Holds(u, e)
  BY <1>1, <1>3 DEF Holds
<1>9. HeldRows'
  BY <1>2, <1>8 DEF Held, HeldRows, HeldAt, Pinned
<1>10. QED BY <1>2, <1>4, <1>6, <1>7, <1>9 DEF Held

\* No step raises the count of faults but a fault, and every other step keeps
\* the truth of the table.
LEMMA StepHeld == RouteInv /\ HeldInv /\ [Next]_vars => HeldInv'
<1> SUFFICES ASSUME RouteInv, HeldInv, [Next]_vars, faults' = 0 PROVE Held'
  BY DEF HeldInv, Held
<1>0. TypeOK /\ (faults = 0 => Held)
  BY DEF RouteInv, HeldInv, Held
<1> USE DEF dbVars, netVars, daemonVars, lifeVars
<1>1. ASSUME NEW b \in Batches, CreateBatch(b) PROVE Held'
  <2>1. \A e \in Batches : status'[e] = status[e] \/ (status[e] = "absent" /\ status'[e] \in {"pending_sync", "queued"})
    BY <1>0, <1>1 DEF CreateBatch, TypeOK
  <2>2. QED BY <1>0, <1>1, <2>1, TableMoves DEF CreateBatch, Outcome
<1>2. ASSUME NEW r \in Runs, NEW w \in Workers, PromoteWorkerBatches(r, w) PROVE Held'
  <2>1. \A e \in Batches : status'[e] = status[e] \/ (status[e] = "pending_sync" /\ status'[e] = "queued")
    BY <1>2 DEF PromoteWorkerBatches, SetStatus, PendingSync
  <2>2. QED BY <1>0, <1>2, <2>1, TableMoves DEF PromoteWorkerBatches, Outcome
<1>3. ASSUME NEW r \in Runs, NEW w \in Workers, MarkWorkerBatchesSyncFailed(r, w) PROVE Held'
  <2>1. \A e \in Batches : status'[e] = status[e] \/ (status[e] = "pending_sync" /\ status'[e] = "sync_failed")
    BY <1>3 DEF MarkWorkerBatchesSyncFailed, SetStatus, PendingSync
  <2>2. QED BY <1>0, <1>3, <2>1, TableMoves DEF MarkWorkerBatchesSyncFailed, Outcome
<1>4. ASSUME NEW w \in Workers, UpdateWorkerSettings(w) PROVE Held'
  BY <1>0, <1>4, TableMoves DEF UpdateWorkerSettings
<1>5. ASSUME NEW c \in claims, ClaimNothing(c) PROVE Held'
  <2>1. Held /\ c.daemon \in Daemons /\ Live(c) /\ pc[c.daemon] = "claiming"
    BY <1>0, <1>5 DEF ClaimNothing, RouteInv, TypeOK, Claim, ClaimsInv, Held, HeldClaims
  <2>2. \A u \in Daemons : todo'[u] = todo[u] /\ todo[u] \subseteq active[u]
    BY <1>5, <2>1 DEF ClaimNothing, Held, HeldLoop
  <2>3. QED BY <1>5, <2>1, <2>2, LoopMoves DEF ClaimNothing, Settle, Posting
<1>6. ASSUME NEW c \in claims, ClaimSelect(c) PROVE Held'
  <2>1. Held /\ UNCHANGED <<status, assigned, finished, beats, pc, cur, todo, active, stopping, doubled>>
    BY <1>0, <1>6 DEF ClaimSelect
  <2>2. PICK b \in Batches : status[b] = "queued" /\ claims' = (claims \ {c}) \cup {[c EXCEPT !.batch = b]}
    BY <1>6 DEF ClaimSelect, Claimable
  <2>3. \A o \in claims' : o \in claims \/ (Live(o) /\ o.batch = b)
    BY <1>0, <2>1, <2>2 DEF Held, HeldClaims, Live, TypeOK, Claim
  <2>4. HeldClaims'
    BY <2>1, <2>2, <2>3 DEF Held, HeldClaims, Pinned, Live
  <2>5. QED BY <2>1, <2>4 DEF Held, HeldBeats, HeldLoop, HeldRows, HeldAt, Holds, Pinned, Live
<1>7. ASSUME NEW c \in claims, ClaimUpdate(c) PROVE Held'
  BY <1>0, <1>7, ClaimHeld DEF ClaimUpdate
<1>8. ASSUME NEW m \in beats, Heartbeat(m) PROVE Held'
  BY <1>0, <1>8, BeatHeld DEF Heartbeat
<1>9. ASSUME NEW d \in Daemons, Register(d) PROVE Held'
  <2>1. todo'[d] = active[d] /\ \A u \in Daemons : u # d => todo'[u] = todo[u]
    BY <1>0, <1>9 DEF Register, TypeOK
  <2>2. QED BY <1>0, <1>9, <2>1, LoopMoves DEF Register, Settle, Posting
<1>10. ASSUME NEW d \in Daemons, NEW b \in Batches, PollRunning(d, b) PROVE Held'
  BY <1>0, <1>10, ReportHeld DEF PollRunning, Report, Posting
<1>11. ASSUME NEW d \in Daemons, NEW b \in Batches, NEW s \in Outcome, PollExited(d, b, s) PROVE Held'
  BY <1>0, <1>11, ReportHeld DEF PollExited, Report, Posting, Outcome
<1>12. ASSUME NEW d \in Daemons, RefuseBatch(d) PROVE Held'
  <2>1. cur[d] \in Batches
    BY <1>12 DEF RefuseBatch, RouteInv, DaemonInv
  <2>2. QED BY <1>0, <1>12, <2>1, ReportHeld DEF RefuseBatch, Report, Posting
<1>13. ASSUME NEW d \in Daemons, Spawn(d) PROVE Held'
  BY <1>0, <1>13, SpawnHeld DEF Spawn
<1>14. ASSUME NEW d \in Daemons, RequestClaim(d) \/ ClaimsOver(d) \/ Start(d) PROVE Held'
  <2>1. Held /\ \A u \in Daemons : todo'[u] = todo[u] /\ todo[u] \subseteq active[u]
    BY <1>0, <1>14 DEF RequestClaim, ClaimsOver, Start, Held, HeldLoop
  <2>2. /\ pc[d] \notin Posting \cup {"start"}
        /\ UNCHANGED <<status, assigned, finished, beats, cur, active, lifeVars>>
    BY <1>14 DEF RequestClaim, ClaimsOver, Start, Up, Posting
  <2>3. PICK at \in {"claiming", "idle"} : pc' = [pc EXCEPT ![d] = at]
    BY <1>14 DEF RequestClaim, ClaimsOver, Start, Settle
  <2>4. \A c \in claims' : c \in claims \/ (Live(c) /\ c.batch = None)
    BY <1>14 DEF RequestClaim, ClaimsOver, Start, Live
  <2>5. QED BY <2>1, <2>2, <2>3, <2>4, LoopMoves DEF Posting
<1>15. ASSUME NEW d \in Daemons,
              RegisterFails(d) \/ CallFails(d) \/ Terminate(d) \/ Crash(d) \/ StartSecond(d)
       PROVE  Held'
  BY <1>0, <1>15 DEF RegisterFails, CallFails, Terminate, Crash, StartSecond, TypeOK
<1>17. ASSUME NEW d \in Daemons, Leave(d) PROVE Held'
  BY <1>0, <1>17 DEF Leave, Held
<1>16. ASSUME UNCHANGED vars PROVE Held'
  BY <1>0, <1>16, TableMoves DEF vars
<1>18. QED
  BY <1>1, <1>2, <1>3, <1>4, <1>5, <1>6, <1>7, <1>8, <1>9, <1>10, <1>11, <1>12, <1>13,
     <1>14, <1>15, <1>16, <1>17
  DEF Next, Controller, Handler, Daemon, Faults

-----------------------------------------------------------------------------
LEMMA InitDispatch == Init => DispatchInv
<1> SUFFICES ASSUME Init PROVE DispatchInv
  OBVIOUS
<1>1. RouteInv
  BY InitType, ConstantsAssumption DEF Init, RouteInv, ClaimsInv, BeatsInv, DaemonInv, RowsInv, AloneInv
<1>2. HeldClaims /\ HeldBeats /\ HeldLoop
  BY ConstantsAssumption DEF Init, HeldClaims, HeldBeats, HeldLoop
<1>3. HeldRows
  BY ConstantsAssumption DEF Init, HeldRows, HeldAt, Pinned, Holds, Outcome
<1>4. QED BY <1>1, <1>2, <1>3 DEF Init, DispatchInv, HeldInv

\* Whatever overlaps, is lost, comes late or restarts: every handler thread and
\* every step of a daemon about a batch finds that batch claimed, on a worker
\* the routing allows, and a claim still awaited finds it not yet started.  Until
\* the first fault the row of a pinned batch says running exactly while its
\* worker holds it.
THEOREM DispatchInvariant == Spec => []DispatchInv
<1>1. DispatchInv /\ [Next]_vars => DispatchInv'
  <2> SUFFICES ASSUME DispatchInv, [Next]_vars PROVE DispatchInv'
    OBVIOUS
  <2>1. TypeOK'
    BY StepType DEF DispatchInv, RouteInv
  <2>2. RouteInv'
    BY <2>1, StepClaims, StepBeats, StepDaemon, StepRows, StepAlone DEF DispatchInv, RouteInv
  <2>3. QED BY <2>2, StepHeld DEF DispatchInv
<1>2. QED BY InitDispatch, <1>1, PTL DEF Spec

\* The tables, the handler threads and the daemons only ever hold values of
\* their types; in particular a daemon never starts "no batch".
THEOREM TypeCorrect == Spec => []TypeOK
<1>1. DispatchInv => TypeOK
  BY DEF DispatchInv, RouteInv
<1>2. QED BY DispatchInvariant, <1>1, PTL

\* A batch with a preferred worker is assigned to, held by and started on that
\* worker alone, for any number of workers, batches and faults.
THEOREM Routing == Spec => []RoutedToPreferred
<1>1. DispatchInv => RoutedToPreferred
  <2> SUFFICES ASSUME DispatchInv, NEW b \in Batches, Preferred[b] # None
               PROVE  /\ assigned[b] \in {None, Preferred[b]}
                      /\ \A w \in Workers : HeldAt(w, b) => w = Preferred[b]
    BY DEF RoutedToPreferred
  <2>1. assigned[b] \in {None, Preferred[b]}
    BY DEF DispatchInv, RouteInv, RowsInv
  <2>2. ASSUME NEW w \in Workers, HeldAt(w, b) PROVE MayRun(b, w)
    BY <2>2 DEF HeldAt, Holds, DispatchInv, RouteInv, DaemonInv
  <2>3. QED BY <2>1, <2>2 DEF MayRun
<1>2. QED BY DispatchInvariant, <1>1, PTL

\* As long as its worker has not had two daemons at once, a batch with a
\* preferred worker is started at most once, for any number of workers, batches
\* and faults: calls lost or late, daemons stopped in the middle of a claim or
\* killed, and their successors.
THEOREM StartOnce == Spec => []StartedAtMostOnce
<1>1. DispatchInv => StartedAtMostOnce
  BY DEF DispatchInv, RouteInv, RowsInv, StartedAtMostOnce
<1>2. QED BY DispatchInvariant, <1>1, PTL

\* No claim and no heartbeat, however late, moves a batch that waits for its
\* assets or whose asset sync has failed.
THEOREM SyncGateHolds == Spec => SyncGate
<1>1. DispatchInv /\ [Next]_vars => [SyncKept]_vars
  BY StepStatus DEF DispatchInv, RouteInv
<1>2. SyncGate <=> [][SyncKept]_vars
  BY DEF SyncGate, SyncKept
<1>3. QED BY DispatchInvariant, <1>1, <1>2, PTL DEF Spec
-----------------------------------------------------------------------------
(* The table and the contract of a batch, while nothing fails.              *)

AllPinned == \A b \in Batches : Preferred[b] # None

\* With no fault allowed there is none.
LEMMA NoFaults == ASSUME MaxFaults = 0 PROVE Spec => [](faults = 0)
<1>1. Init => faults = 0
  BY DEF Init
<1>2. faults = 0 /\ [Next]_vars => (faults = 0)'
  <2> SUFFICES ASSUME faults = 0, [Next]_vars PROVE faults' = 0
    OBVIOUS
  <2> USE DEF dbVars, netVars, daemonVars, lifeVars
  <2>1. ASSUME Controller PROVE faults' = 0
    BY <2>1 DEF Controller, CreateBatch, PromoteWorkerBatches, MarkWorkerBatchesSyncFailed, UpdateWorkerSettings
  <2>2. ASSUME NEW d \in Daemons, Handler(d) PROVE faults' = 0
    BY <2>2 DEF Handler, ClaimNothing, ClaimSelect, ClaimUpdate, Heartbeat
  <2>3. ASSUME NEW d \in Daemons, Daemon(d) PROVE faults' = 0
    BY <2>3 DEF Daemon, Register, Leave, RequestClaim, ClaimsOver, Spawn, RefuseBatch, Start,
                PollRunning, PollExited, Report
  <2>4. ~Faults
    BY DEF Faults, RegisterFails, CallFails, Terminate, Crash, StartSecond
  <2>5. QED BY <2>1, <2>2, <2>3, <2>4 DEF Next, vars
<1>3. QED BY <1>1, <1>2, PTL DEF Spec

\* A row the table shows as running is in its worker's hands: nothing runs that
\* no daemon will report.  It holds when every batch has a preferred worker and
\* no call is lost; a shared batch claimed twice refutes it.
THEOREM RunningHeld ==
  ASSUME MaxFaults = 0, AllPinned
  PROVE  Spec => []RunningIsHeld
<1>1. DispatchInv /\ faults = 0 => RunningIsHeld
  BY ConstantsAssumption DEF DispatchInv, HeldInv, HeldRows, RunningIsHeld, Pinned, AllPinned
<1>2. QED BY DispatchInvariant, NoFaults, <1>1, PTL

Row == [b \in Batches |-> [status |-> status[b], assigned |-> assigned[b], done |-> b \in finished]]

\* A claim's UPDATE hands a queued batch to the one worker the contract allows.
LEMMA ClaimHandsOut ==
  ASSUME RouteInv, Held, AllPinned, NEW c \in claims, ClaimUpdate(c)
  PROVE  Contract!HandOut(c.batch, WorkerOf(c))
<1>1. /\ WorkerOf(c) \in Workers /\ c.batch \in Batches /\ status[c.batch] = "queued"
      /\ Preferred[c.batch] = WorkerOf(c)
  BY ConstantsAssumption DEF ClaimUpdate, RouteInv, TypeOK, ClaimsInv, MayRun, Claim, Held, HeldClaims, Pinned, AllPinned, WorkerOf
<1>2. /\ status' = [status EXCEPT ![c.batch] = "running"]
      /\ assigned' = [assigned EXCEPT ![c.batch] = WorkerOf(c)] /\ finished' = finished
  BY DEF ClaimUpdate
<1>3. Row' = [Row EXCEPT ![c.batch] = [@ EXCEPT !.status = "running", !.assigned = WorkerOf(c)]]
  BY <1>1, <1>2 DEF Row, RouteInv, TypeOK
<1>4. QED BY <1>1, <1>3, ConstantsAssumption DEF Contract!HandOut, Row, AllPinned

\* A heartbeat finishes a running batch, or leaves its row as it is.
LEMMA BeatFinishes ==
  ASSUME RouteInv, Held, AllPinned, NEW m \in beats, Heartbeat(m)
  PROVE  (\E b \in Batches, s \in Outcome : Contract!Finish(b, s)) \/ Row' = Row
<1>1. /\ m.batch \in Batches /\ status[m.batch] = "running"
      /\ m.status \in {"running"} \cup Outcome /\ m.batch \notin finished
  <2>1. m.batch \in Pinned /\ m.status \in {"running"} \cup Outcome
    BY DEF RouteInv, TypeOK, Beat, Pinned, AllPinned
  <2>2. QED BY <2>1, BeatIsHeld DEF Held, HeldRows, Pinned, Outcome
<1>2. /\ status' = [status EXCEPT ![m.batch] = m.status] /\ assigned' = assigned
      /\ finished' = finished \cup (IF m.status = "running" THEN {} ELSE {m.batch})
  BY DEF Heartbeat
<1>3. CASE m.status = "running"
  BY <1>1, <1>2, <1>3 DEF Row, RouteInv, TypeOK
<1>4. CASE m.status \in Outcome
  <2> DEFINE Done(e) == [status |-> status'[e], assigned |-> assigned'[e], done |-> e \in finished']
  <2>a. /\ status'[m.batch] = m.status /\ assigned'[m.batch] = assigned[m.batch]
        /\ (m.batch \in finished') = TRUE
    BY <1>1, <1>2, <1>4 DEF RouteInv, TypeOK, Outcome
  <2>b. \A e \in Batches : e # m.batch =>
          status'[e] = status[e] /\ assigned'[e] = assigned[e] /\ (e \in finished') = (e \in finished)
    BY <1>1, <1>2 DEF RouteInv, TypeOK
  <2>c. Done(m.batch) = [status |-> m.status, assigned |-> Row[m.batch].assigned, done |-> TRUE]
    <3>1. Row[m.batch].assigned = assigned[m.batch]
      BY <1>1 DEF Row
    <3>2. QED BY <2>a, <3>1, Zenon
  <2>d. \A e \in Batches : e # m.batch => Done(e) = Row[e]
    BY <2>b DEF Row
  <2>e. Row' = [e \in Batches |-> Done(e)] /\ Row = [e \in Batches |-> Row[e]]
    BY DEF Row
  <2> HIDE DEF Done
  <2>1. Row' = [Row EXCEPT ![m.batch] = [status |-> m.status, assigned |-> @.assigned, done |-> TRUE]]
    BY <1>1, <2>c, <2>d, <2>e
  <2>2. QED BY <1>1, <1>4, <2>1 DEF Contract!Finish, Row
<1>5. QED BY <1>1, <1>3, <1>4

\* Every step of the protocol is a step of the contract or leaves the row.
LEMMA StepContract ==
  ASSUME RouteInv, Held, AllPinned, faults = 0, MaxFaults = 0, [Next]_vars
  PROVE  Contract!Next \/ Row' = Row
<1> USE DEF dbVars, netVars, daemonVars, lifeVars
<1>1. ASSUME NEW b \in Batches, CreateBatch(b) PROVE Contract!Create(b)
  <2>1. PICK s \in {"pending_sync", "queued"} : status' = [status EXCEPT ![b] = s]
    BY <1>1 DEF CreateBatch
  <2>2. Row' = [Row EXCEPT ![b].status = s]
    BY <1>1, <2>1 DEF CreateBatch, Row, RouteInv, TypeOK
  <2>3. QED BY <1>1, <2>2 DEF CreateBatch, Contract!Create, Contract!Initial, Row
<1>2. ASSUME NEW r \in Runs, NEW w \in Workers, NEW s \in {"queued", "sync_failed"},
             PendingSync(r, w) # {}, SetStatus(PendingSync(r, w), s), UNCHANGED <<assigned, finished>>
      PROVE  Contract!SettleSync(PendingSync(r, w), s) /\ PendingSync(r, w) \in SUBSET Batches
  <2>1. Row' = [b \in Batches |-> IF b \in PendingSync(r, w) THEN [Row[b] EXCEPT !.status = s] ELSE Row[b]]
    BY <1>2 DEF SetStatus, Row
  <2>2. QED BY <1>2, <2>1 DEF Contract!SettleSync, Row, PendingSync
<1>3. ASSUME Controller PROVE Contract!Next \/ Row' = Row
  <2>1. ASSUME NEW r \in Runs, NEW w \in Workers, PromoteWorkerBatches(r, w) PROVE Contract!Next
    BY <1>2, <2>1 DEF PromoteWorkerBatches, Contract!Next
  <2>2. ASSUME NEW r \in Runs, NEW w \in Workers, MarkWorkerBatchesSyncFailed(r, w) PROVE Contract!Next
    BY <1>2, <2>2 DEF MarkWorkerBatchesSyncFailed, Contract!Next
  <2>3. ASSUME NEW w \in Workers, UpdateWorkerSettings(w) PROVE Row' = Row
    BY <2>3 DEF UpdateWorkerSettings, Row
  <2>4. QED BY <1>1, <1>3, <2>1, <2>2, <2>3 DEF Controller, Contract!Next
<1>4. ASSUME NEW d \in Daemons, Handler(d) PROVE Contract!Next \/ Row' = Row
  <2>1. ASSUME NEW c \in claims, ClaimNothing(c) \/ ClaimSelect(c) PROVE Row' = Row
    BY <2>1 DEF ClaimNothing, ClaimSelect, Row
  <2>2. ASSUME NEW c \in claims, ClaimUpdate(c) PROVE Contract!Next
    <3>1. WorkerOf(c) \in Workers /\ c.batch \in Batches
      BY <2>2, ConstantsAssumption DEF ClaimUpdate, RouteInv, TypeOK, Claim, WorkerOf
    <3>2. QED BY <2>2, <3>1, ClaimHandsOut DEF Contract!Next
  <2>3. ASSUME NEW m \in beats, Heartbeat(m) PROVE Contract!Next \/ Row' = Row
    BY <2>3, BeatFinishes DEF Contract!Next, Contract!Final, Outcome
  <2>4. QED BY <1>4, <2>1, <2>2, <2>3 DEF Handler
<1>5. ASSUME NEW d \in Daemons, Daemon(d) PROVE Row' = Row
  BY <1>5 DEF Daemon, Register, Leave, RequestClaim, ClaimsOver, Spawn, RefuseBatch, Start,
              PollRunning, PollExited, Report, Row
<1>6. ~Faults
  BY DEF Faults, RegisterFails, CallFails, Terminate, Crash, StartSecond
<1>7. ASSUME UNCHANGED vars PROVE Row' = Row
  BY <1>7 DEF vars, Row
<1>8. QED BY <1>3, <1>4, <1>5, <1>6, <1>7 DEF Next

\* The protocol of claims, heartbeats and asset syncs implements the contract of
\* a batch's row: handed out once, to the worker it was meant for, and finished
\* once, with its finish time.  It holds when every batch has a preferred worker
\* and no call is lost.
THEOREM ImplementsContract ==
  ASSUME MaxFaults = 0, AllPinned
  PROVE  Spec => KeepsContract
<1>1. Init => Contract!Init
  <2> SUFFICES ASSUME Init, NEW b \in Batches
               PROVE  [status |-> status[b], assigned |-> assigned[b], done |-> b \in finished]
                        = Contract!Blank
    BY Zenon DEF Contract!Init
  <2>1. (b \in finished) = FALSE
    BY DEF Init
  <2>2. status[b] = "absent" /\ assigned[b] = None
    BY DEF Init
  <2>3. QED BY <2>1, <2>2, Zenon DEF Contract!Blank
<1>2. DispatchInv /\ faults = 0 /\ [Next]_vars => [Contract!Next]_Row
  <2> SUFFICES ASSUME DispatchInv, faults = 0, [Next]_vars PROVE [Contract!Next]_Row
    OBVIOUS
  <2>1. RouteInv /\ Held
    BY DEF DispatchInv, HeldInv, Held
  <2>2. QED BY <2>1, StepContract
<1>3. KeepsContract <=> Contract!Init /\ [][Contract!Next]_Row
  BY DEF KeepsContract, Contract!Spec, Row
<1>4. QED BY <1>1, <1>2, <1>3, DispatchInvariant, NoFaults, PTL DEF Spec
=============================================================================
