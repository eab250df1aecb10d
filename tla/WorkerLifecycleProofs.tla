------------------------ MODULE WorkerLifecycleProofs ------------------------
(***************************************************************************)
(* What holds of the life of workers for any number of them, of jobs, of   *)
(* cancel and delete requests and of faults.                               *)
(***************************************************************************)
EXTENDS WorkerLifecycle, FiniteSetTheorems, SequenceTheorems, TLAPS

\* Short sequences, and counters that go up and down.
LEMMA OneOrTwo ==
  ASSUME NEW T, NEW s \in T, NEW t \in T
  PROVE  <<>> \in Seq(T) /\ <<s>> \in Seq(T) /\ <<s, t>> \in Seq(T)
OBVIOUS

LEMMA Counters ==
  ASSUME NEW T, NEW f \in [T -> Nat], NEW h \in [T -> Nat], NEW x \in T
  PROVE  /\ [f EXCEPT ![x] = @ + 1] \in [T -> Nat]
         /\ [f EXCEPT ![x] = @ + h[x]] \in [T -> Nat]
         /\ f[x] > 0 => [f EXCEPT ![x] = @ - 1] \in [T -> Nat]
OBVIOUS

\* The steps of a job are a sequence of names.
LEMMA StepsType == ASSUME NEW j \in Jobs PROVE Len(Steps(j)) \in Nat
<1> DEFINE N == {"validate_ssh", "bootstrap", "verify_layout", "establish_tunnel", "start_daemon",
                "wait_register", "stop_daemon", "pull_aeo", "sync_aeo", "pull_harbor", "restart_daemon"}
           S == Seq(N)
           fresh == IF Fresh THEN <<"bootstrap">> ELSE <<>>
           tunnel == IF Tunnel THEN <<"establish_tunnel">> ELSE <<>>
           aeo == IF "aeo" \in Targets THEN <<"pull_aeo", "sync_aeo">> ELSE <<>>
           harbor == IF "harbor" \in Targets THEN <<"pull_harbor">> ELSE <<>>
<1>1. <<>> \in S /\ \A s \in N : <<s>> \in S /\ \A t \in N : <<s, t>> \in S
  <2>1. "bootstrap" \in N
    OBVIOUS
  <2> HIDE DEF N
  <2>2. QED BY <2>1, OneOrTwo
<1>2. fresh \in S /\ tunnel \in S /\ aeo \in S /\ harbor \in S
  <2>1. "bootstrap" \in N /\ "establish_tunnel" \in N /\ "pull_aeo" \in N /\ "sync_aeo" \in N
        /\ "pull_harbor" \in N
    OBVIOUS
  <2> HIDE DEF N, S
  <2>2. QED BY <1>1, <2>1
<1>3. <<"validate_ssh">> \in S /\ <<"verify_layout">> \in S /\ <<"start_daemon", "wait_register">> \in S
        /\ <<"validate_ssh", "stop_daemon">> \in S /\ <<"restart_daemon", "wait_register">> \in S
  <2>1. "validate_ssh" \in N /\ "verify_layout" \in N /\ "start_daemon" \in N /\ "wait_register" \in N
        /\ "stop_daemon" \in N /\ "restart_daemon" \in N
    OBVIOUS
  <2> HIDE DEF N, S
  <2>2. QED BY <1>1, <2>1
<1>4. ASSUME NEW s \in S, NEW t \in S PROVE s \o t \in S
  BY <1>4, ConcatProperties
<1>5. ProvisionSteps = <<"validate_ssh">> \o fresh \o <<"verify_layout">> \o tunnel
                         \o <<"start_daemon", "wait_register">>
  BY DEF ProvisionSteps
<1>6. UpdateSteps = <<"validate_ssh", "stop_daemon">> \o aeo \o harbor \o <<"restart_daemon", "wait_register">>
  BY DEF UpdateSteps
<1> HIDE DEF fresh, tunnel, aeo, harbor, S
<1>7. ProvisionSteps \in S
  BY <1>2, <1>3, <1>4, <1>5
<1>8. UpdateSteps \in S
  BY <1>2, <1>3, <1>4, <1>6
<1>9. QED BY <1>7, <1>8, LenProperties DEF Steps, S

\* The labels of an actor and what its job row may say.
LEMMA Names ==
  /\ "idle" \in Label /\ "refused" \in Label /\ "end" \in Label /\ "lost" \in Label
  /\ "create" \in Label /\ "job" \in Label /\ "begin" \in Label /\ "test" \in Label
  /\ "start" \in Label /\ "run" \in Label /\ "stepdone" \in Label /\ "ready" \in Label
  /\ "succeed" \in Label /\ "fail" \in Label /\ "record" \in Label /\ "add" \in Label
  /\ "note" \in Label /\ "provision" \in Label /\ "clean" \in Label /\ "popload" \in Label
  /\ "popsave" \in Label /\ "signal" \in Label /\ "pkill" \in Label /\ "find" \in Label
  /\ "putload" \in Label /\ "putsave" \in Label /\ Return \subseteq Label
  /\ "end" \in Return /\ "stepdone" \in Return /\ "daemon" \in Return
  /\ "write" \in Return /\ "delete" \in Return
  /\ "absent" \in Status /\ "deleted" \in Status /\ "pending" \in Status /\ "running" \in Status
  /\ "succeeded" \in Status /\ "failed" \in Status /\ "cancelled" \in Status
BY DEF Label, Return, Status, Active, Ended, Calls

LEMMA ActorKinds ==
  /\ ProvisionJobs \subseteq Jobs /\ UpdateJobs \subseteq Jobs /\ Cancels \subseteq Handlers
  /\ Deletes \subseteq Handlers /\ Jobs \subseteq Actors /\ Handlers \subseteq Actors
BY DEF Jobs, Handlers, Actors

LEMMA WithProvisionType ==
  ASSUME row \in [Workers -> Row], NEW w \in Workers, NEW s \in {"none", "provisioning", "ready", "failed"}
  PROVE  WithProvision(w, s) \in [Workers -> Row]
<1>1. [row[w] EXCEPT !.provision = s] \in Row
  BY DEF Row
<1>2. QED BY <1>1 DEF WithProvision

LEMMA AdvanceType ==
  ASSUME TypeOK, NEW j \in Jobs, Advance(j)
  PROVE  /\ at' \in [Jobs -> Nat]
         /\ pc' \in [Actors -> Label]
         /\ UNCHANGED <<status, birth, known, pastVars>>
<1>1. at' \in [Jobs -> Nat]
  BY DEF TypeOK, Advance
<1>2. CASE at[j] < Len(Steps(j))
  BY <1>1, <1>2, Names DEF TypeOK, Advance, GoTo
<1>3. CASE ~(at[j] < Len(Steps(j)))
  BY <1>1, <1>3, Names DEF TypeOK, Advance, GoTo
<1>4. QED BY <1>2, <1>3

\* After the last step, and only then, a job is ready to succeed.
LEMMA AdvanceComplete ==
  ASSUME TypeOK, SucceededIsComplete, NEW j \in Jobs, Advance(j)
  PROVE  SucceededIsComplete'
<1>1. at[j] \in Nat /\ Len(Steps(j)) \in Nat
  BY StepsType DEF TypeOK
<1>2. at'[j] = at[j] + 1 /\ \A i \in Jobs \ {j} : at'[i] = at[i]
  BY DEF Advance, TypeOK
<1>3. \A i \in Jobs \ {j} : pc'[i] = pc[i]
  BY DEF Advance, GoTo, TypeOK
<1>4. pc'[j] \in {"ready", "succeed"} => at[j] >= Len(Steps(j))
  BY <1>1, ActorKinds DEF Advance, GoTo, TypeOK
<1>5. UNCHANGED status
  BY DEF Advance
<1>6. \A i \in Jobs : Steps(i)' = Steps(i)
  BY DEF Steps
<1>7. ASSUME NEW i \in Jobs
      PROVE  /\ pc'[i] \in {"ready", "succeed"} => at'[i] > Len(Steps(i))
             /\ status'[i] = "succeeded" => at'[i] > Len(Steps(i))
  <2>1. CASE i = j
    BY <1>1, <1>2, <1>4, <1>5, <2>1 DEF SucceededIsComplete
  <2>2. CASE i # j
    BY <1>2, <1>3, <1>5, <2>2 DEF SucceededIsComplete
  <2>3. QED BY <2>1, <2>2
<1>8. QED BY <1>6, <1>7 DEF SucceededIsComplete

LEMMA InitLifecycle == Init => TypeOK /\ LifecycleInv
<1> SUFFICES ASSUME Init PROVE TypeOK /\ LifecycleInv
  OBVIOUS
<1> USE LifecycleAssumption
<1>1. row \in [Workers -> Row]
  BY DEF Init, Row, NoRow
<1>2. spawned \in Seq(Workers) /\ procs \subseteq Nat
  BY DEF Init
<1>3. file \in [Workers -> Nat]
  <2>1. ASSUME NEW w \in Workers, \E i \in procs : spawned[i] = w
        PROVE  (CHOOSE i \in procs : spawned[i] = w) \in Nat
    BY <1>2, <2>1
  <2>2. QED BY <2>1 DEF Init
<1>4. TypeOK
  BY <1>1, <1>2, <1>3, Names DEF Init, TypeOK, Jobs, Handlers, Actors
<1>5. LifecycleInv
  <2>1. /\ \A a \in Actors : pc[a] = "idle"
        /\ \A j \in Jobs : status[j] = "absent" /\ late[j] = 0
    BY DEF Init
  <2>2. \A x \in Handlers \cup Jobs : pc[x] = "idle"
    BY <2>1, ActorKinds
  <2>3. \A h \in Handlers : victim[h] \notin Jobs
    BY DEF Init
  <2>4. Started
    BY <2>1, <2>2, <2>3 DEF Started
  <2>5. CancelIsNoticed
    BY <2>1, <2>2 DEF CancelIsNoticed
  <2>6. SucceededIsComplete
    BY <2>1, <2>2 DEF SucceededIsComplete
  <2>7. RowsFollow
    BY <2>2 DEF RowsFollow
  <2>8. ProvisionsApart
    BY <2>1, <2>2, ActorKinds DEF ProvisionsApart, HasWorker
  <2>9. QED BY <2>4, <2>5, <2>6, <2>7, <2>8 DEF LifecycleInv
<1>6. QED BY <1>4, <1>5

LEMMA RequestDeleteType ==
  ASSUME TypeOK, Started, NEW d \in Deletes, NEW w \in Workers, RequestDelete(d, w)
  PROVE  TypeOK'
<1>1. d \in Actors /\ d \in Handlers
  BY ActorKinds
<1>2. alias' \in [Actors -> BOOLEAN]
  BY <1>1 DEF TypeOK, RequestDelete, ReadWorker, Row
<1>3. target' \in [Actors -> Workers \cup {None}]
  BY <1>1 DEF TypeOK, RequestDelete, ReadWorker
<1>4. victim' \in [Handlers -> Jobs \cup {None}]
  <2>1. ActiveJob(UpdateJobs, w) \subseteq Jobs
    BY ActorKinds DEF ActiveJob, Latest, JobsOf
  <2>2. QED BY <1>1, <2>1 DEF TypeOK, RequestDelete
<1>5. pc' \in [Actors -> Label]
  <2>1. GoTo(d, "add") \/ GoTo(d, "provision")
    BY DEF RequestDelete
  <2>2. QED BY <1>1, <2>1 DEF TypeOK, GoTo, Label
<1>6. QED BY <1>1, <1>2, <1>3, <1>4, <1>5 DEF TypeOK, RequestDelete, jobVars, pastVars, actorVars, hostVars, tunnelVars

LEMMA CreateWorkerType ==
  ASSUME TypeOK, Started, NEW j \in Jobs, CreateWorker(j)
  PROVE  TypeOK'
<1>1. target[j] \in Workers /\ j \in Actors
  BY ActorKinds DEF CreateWorker, Started
<1>2. row' \in [Workers -> Row]
  <2>1. [here |-> TRUE, alias |-> TRUE, beat |-> "never", provision |-> "provisioning"] \in Row
    BY DEF Row
  <2>2. QED BY <1>1, <2>1 DEF TypeOK, CreateWorker
<1>3. pc' \in [Actors -> Label]
  <2>1. GoTo(j, "refused") \/ GoTo(j, "job")
    BY DEF CreateWorker
  <2>2. QED BY <1>1, <2>1 DEF TypeOK, GoTo, Label
<1>4. QED BY <1>1, <1>2, <1>3 DEF TypeOK, CreateWorker, jobVars, pastVars, actorVars, hostVars, tunnelVars

LEMMA SpawnTunnelType ==
  ASSUME TypeOK, Started, NEW j \in Jobs, SpawnTunnel(j)
  PROVE  TypeOK'
<1>1. target[j] \in Workers /\ j \in Actors
  BY ActorKinds DEF SpawnTunnel, Started
<1>2. spawned' \in Seq(Workers)
  BY <1>1, AppendProperties DEF TypeOK, SpawnTunnel
<1>3. procs' \subseteq Nat
  <2>1. Len(spawned) + 1 \in Nat
    BY LenProperties DEF TypeOK
  <2>2. QED BY <2>1 DEF TypeOK, SpawnTunnel
<1>4. ret' \in [Actors -> Return]
  <2>1. ret' = [ret EXCEPT ![j] = "stepdone"] \/ ret' = [ret EXCEPT ![j] = "daemon"]
    BY DEF SpawnTunnel
  <2>2. QED BY <1>1, <2>1 DEF TypeOK, Return
<1>5. pc' \in [Actors -> Label]
  BY <1>1 DEF TypeOK, SpawnTunnel, GoTo, Label, Calls
<1>6. QED BY <1>1, <1>2, <1>3, <1>4, <1>5 DEF TypeOK, SpawnTunnel, jobVars, pastVars, actorVars, hostVars, tunnelVars

LEMMA StartDaemonType ==
  ASSUME TypeOK, Started, NEW j \in Jobs, StartDaemon(j)
  PROVE  TypeOK'
<1>1. target[j] \in Workers /\ j \in Actors
  <2>1. j \in Actors
    BY ActorKinds
  <2>2. pc[j] # "idle"
    BY DEF StartDaemon
  <2>3. QED BY <2>1, <2>2 DEF Started
<1>2. UNCHANGED live \/ live' = [live EXCEPT ![target[j]] = @ + 1]
  BY DEF StartDaemon
<1>3. live' \in [Workers -> Nat]
  <2>1. live \in [Workers -> Nat]
    BY DEF TypeOK
  <2>2. QED BY <1>1, <1>2, <2>1, Counters
<1>4. faults' \in Nat
  BY DEF TypeOK, StartDaemon, Fault
<1>5. Advance(j)
  BY DEF StartDaemon
<1>6. at' \in [Jobs -> Nat] /\ pc' \in [Actors -> Label] /\ UNCHANGED <<status, birth, known, pastVars>>
  BY <1>5, AdvanceType
<1>7. QED BY <1>1, <1>2, <1>3, <1>4, <1>5, <1>6 DEF TypeOK, StartDaemon, jobVars, pastVars, actorVars, hostVars, tunnelVars

LEMMA PkillType ==
  ASSUME TypeOK, Started, NEW a \in Actors, Pkill(a)
  PROVE  TypeOK'
<1>1. target[a] \in Workers /\ a \in Actors
  BY ActorKinds DEF Pkill, Started
<1>2. \/ UNCHANGED hostVars
      \/ /\ live' = [live EXCEPT ![target[a]] = 0]
         /\ stopping' = [stopping EXCEPT ![target[a]] = @ + live[target[a]]]
  BY DEF Pkill
<1>3. live' \in [Workers -> Nat]
  <2>1. live \in [Workers -> Nat]
    BY DEF TypeOK
  <2>2. CASE UNCHANGED hostVars
    BY <2>1, <2>2 DEF hostVars
  <2>3. CASE live' = [live EXCEPT ![target[a]] = 0]
    BY <2>1, <2>3
  <2>4. QED BY <1>2, <2>2, <2>3
<1>4. stopping' \in [Workers -> Nat]
  <2>1. live \in [Workers -> Nat] /\ stopping \in [Workers -> Nat]
    BY DEF TypeOK
  <2>2. QED BY <1>1, <1>2, <2>1, Counters DEF hostVars
<1>5. hold' \in [Workers -> {"none", "queued", "running", "stranded"}]
  <2>1. hold \in [Workers -> {"none", "queued", "running", "stranded"}]
    BY DEF TypeOK
  <2>2. \/ UNCHANGED hold
        \/ hold' = [hold EXCEPT ![target[a]] = IF @ = "running" /\ live[target[a]] > 0 THEN "stranded" ELSE @]
    BY DEF Pkill, hostVars
  <2>3. QED BY <1>1, <2>1, <2>2
<1>6. faults' \in Nat
  BY DEF TypeOK, Pkill, Fault
<1>7. pc' \in [Actors -> Label]
  <2>1. ret[a] \in Label
    BY Names DEF TypeOK
  <2>2. GoTo(a, ret[a])
    BY DEF Pkill
  <2>3. QED BY <2>1, <2>2 DEF TypeOK, GoTo
<1>8. QED BY <1>1, <1>2, <1>3, <1>4, <1>5, <1>6, <1>7 DEF TypeOK, Pkill, jobVars, pastVars, actorVars, hostVars, tunnelVars

LEMMA FindProvisionType ==
  ASSUME TypeOK, Started, NEW d \in Deletes, FindProvision(d)
  PROVE  TypeOK'
<1>1. d \in Actors /\ d \in Handlers
  BY ActorKinds
<1>2. victim' \in [Handlers -> Jobs \cup {None}]
  <2>1. ActiveJob(ProvisionJobs, target[d]) \subseteq Jobs
    BY ActorKinds DEF ActiveJob, Latest, JobsOf
  <2>2. QED BY <1>1, <2>1 DEF TypeOK, FindProvision
<1>3. pc' \in [Actors -> Label]
  <2>1. GoTo(d, "add") \/ GoTo(d, "clean")
    BY DEF FindProvision
  <2>2. QED BY <1>1, <2>1 DEF TypeOK, GoTo, Label
<1>4. QED BY <1>1, <1>2, <1>3 DEF TypeOK, FindProvision, jobVars, pastVars, actorVars, hostVars, tunnelVars

LEMMA DeleteWorkerType ==
  ASSUME TypeOK, Started, NEW d \in Deletes, DeleteWorker(d)
  PROVE  TypeOK'
<1>1. d \in Actors
  BY ActorKinds
<1>2. row' \in [Workers -> Row]
  <2>1. NoRow \in Row
    BY DEF NoRow, Row
  <2>2. UNCHANGED row \/ row' = [row EXCEPT ![target[d]] = NoRow]
    BY DEF DeleteWorker
  <2>3. QED BY <2>1, <2>2 DEF TypeOK
<1>3. status' \in [Jobs -> Status]
  <2>1. UNCHANGED status \/ status' = [j \in Jobs |-> IF j \in JobsOf(Jobs, target[d]) THEN "deleted" ELSE status[j]]
    BY DEF DeleteWorker
  <2>2. QED BY <2>1 DEF TypeOK, Status
<1>4. pc' \in [Actors -> Label]
  BY <1>1 DEF TypeOK, DeleteWorker, GoTo, Label
<1>5. QED BY <1>1, <1>2, <1>3, <1>4 DEF TypeOK, DeleteWorker, jobVars, pastVars, actorVars, hostVars, tunnelVars

LEMMA RegisterWorkerType ==
  ASSUME TypeOK, Started, NEW w \in Workers, RegisterWorker(w)
  PROVE  TypeOK'
<1>1. row' \in [Workers -> Row]
  <2>1. row[w] \in Row
    BY DEF TypeOK
  <2>2. [row[w] EXCEPT !.beat = "fresh",
                       !.provision = IF @ = "provisioning" THEN "ready" ELSE @] \in Row
    BY <2>1 DEF Row
  <2>3. [here |-> TRUE, alias |-> FALSE, beat |-> "fresh", provision |-> "none"] \in Row
    BY DEF Row
  <2>4. CASE row[w].here
    <3>1. row' = [row EXCEPT ![w] = [row[w] EXCEPT !.beat = "fresh",
                 !.provision = IF @ = "provisioning" THEN "ready" ELSE @]]
      BY <2>4 DEF RegisterWorker
    <3>2. QED BY <2>2, <3>1 DEF TypeOK
  <2>5. CASE ~row[w].here
    <3>1. row' = [row EXCEPT ![w] = [here |-> TRUE, alias |-> FALSE, beat |-> "fresh", provision |-> "none"]]
      BY <2>5 DEF RegisterWorker
    <3>2. QED BY <2>3, <3>1 DEF TypeOK
  <2>6. QED BY <2>4, <2>5
<1>2. UNCHANGED stopping \/ (stopping[w] > 0 /\ stopping' = [stopping EXCEPT ![w] = @ - 1])
  BY DEF RegisterWorker, DaemonCalls
<1>3. stopping' \in [Workers -> Nat]
  <2>1. stopping \in [Workers -> Nat]
    BY DEF TypeOK
  <2>2. QED BY <1>2, <2>1, Counters
<1>4. QED BY <1>1, <1>2, <1>3 DEF TypeOK, RegisterWorker, jobVars, pastVars, actorVars, hostVars, tunnelVars

LEMMA ClaimBatchType ==
  ASSUME TypeOK, Started, NEW w \in Workers, ClaimBatch(w)
  PROVE  TypeOK'
<1>1. UNCHANGED stopping \/ (stopping[w] > 0 /\ stopping' = [stopping EXCEPT ![w] = @ - 1])
  BY DEF ClaimBatch, DaemonCalls
<1>2. stopping' \in [Workers -> Nat]
  <2>1. stopping \in [Workers -> Nat]
    BY DEF TypeOK
  <2>2. QED BY <1>1, <2>1, Counters
<1>3. hold' \in [Workers -> {"none", "queued", "running", "stranded"}]
  BY DEF TypeOK, ClaimBatch
<1>4. QED BY <1>1, <1>2, <1>3 DEF TypeOK, ClaimBatch, jobVars, pastVars, actorVars, hostVars, tunnelVars

LEMMA GoStaleType ==
  ASSUME TypeOK, Started, NEW w \in Workers, GoStale(w)
  PROVE  TypeOK'
<1>1. [row[w] EXCEPT !.beat = "stale"] \in Row
  <2>1. row[w] \in Row
    BY DEF TypeOK
  <2>2. QED BY <2>1 DEF Row
<1>2. row' \in [Workers -> Row]
  BY <1>1 DEF TypeOK, GoStale
<1>3. QED BY <1>1, <1>2 DEF TypeOK, GoStale, jobVars, pastVars, actorVars, hostVars, tunnelVars

\* Every step keeps the types.
LEMMA StepType == TypeOK /\ Started /\ [Next]_vars => TypeOK'
<1> SUFFICES ASSUME TypeOK, Started, [Next]_vars PROVE TypeOK'
  OBVIOUS
<1> USE LifecycleAssumption, ActorKinds, Names DEF TypeOK, GoTo,
      jobVars, pastVars, actorVars, hostVars, tunnelVars
<1>1. ASSUME NEW j \in ProvisionJobs, NEW w \in Workers, RequestProvision(j, w) PROVE TypeOK'
  BY <1>1 DEF RequestProvision
<1>2. ASSUME NEW j \in UpdateJobs, NEW w \in Workers, RequestUpdate(j, w) PROVE TypeOK'
  BY <1>2 DEF RequestUpdate
<1>3. ASSUME NEW c \in Cancels, NEW j \in Jobs, RequestCancel(c, j) PROVE TypeOK'
  <2>1. target[j] \in Workers
    BY <1>3 DEF RequestCancel, Started
  <2>2. alias' \in [Actors -> BOOLEAN]
    BY <1>3, <2>1 DEF RequestCancel, ReadWorker, Row
  <2>3. target' \in [Actors -> Workers \cup {None}]
    BY <1>3, <2>1 DEF RequestCancel, ReadWorker
  <2>4. QED BY <1>3, <2>2, <2>3 DEF RequestCancel
<1>4. ASSUME NEW d \in Deletes, NEW w \in Workers, RequestDelete(d, w) PROVE TypeOK'
  BY <1>4, RequestDeleteType
<1>5. ASSUME NEW j \in Jobs, CreateWorker(j) PROVE TypeOK'
  BY <1>5, CreateWorkerType
<1>6. ASSUME NEW j \in Jobs, CreateJob(j) PROVE TypeOK'
  <2>1. IsFiniteSet({i \in Jobs : birth[i] > 0})
    BY FS_Subset
  <2>2. Cardinality({i \in Jobs : birth[i] > 0}) + 1 \in Nat
    BY <2>1, FS_CardinalityType
  <2>3. QED BY <1>6, <2>2 DEF CreateJob
<1>7. ASSUME NEW j \in Jobs, Begin(j) PROVE TypeOK'
  BY <1>7 DEF Begin, WithStatus
<1>8. ASSUME NEW j \in Jobs, Test(j) PROVE TypeOK'
  BY <1>8 DEF Test, Raised
<1>9. ASSUME NEW j \in Jobs, Start(j) PROVE TypeOK'
  <2>1. late' \in [Jobs -> Nat]
    BY <1>9 DEF Start
  <2>2. pc' \in [Actors -> Label]
    BY <1>9 DEF Start
  <2>3. QED BY <1>9, <2>1, <2>2 DEF Start
<1>10. ASSUME NEW j \in Jobs, RunRemote(j) PROVE TypeOK'
  BY <1>10, AdvanceType DEF RunRemote
<1>11. ASSUME NEW j \in Jobs, StopDaemon(j) PROVE TypeOK'
  BY <1>11 DEF StopDaemon, Decommission
<1>12. ASSUME NEW j \in Jobs, StepDone(j) PROVE TypeOK'
  BY <1>12, AdvanceType DEF StepDone
<1>13. ASSUME NEW j \in Jobs, SpawnTunnel(j) PROVE TypeOK'
  BY <1>13, SpawnTunnelType
<1>14. ASSUME NEW j \in Jobs, StartDaemon(j) PROVE TypeOK'
  BY <1>14, StartDaemonType
<1>15. ASSUME NEW j \in Jobs, SeesRegistered(j) PROVE TypeOK'
  BY <1>15, AdvanceType DEF SeesRegistered
<1>16. ASSUME NEW j \in Jobs, WaitRaises(j) PROVE TypeOK'
  BY <1>16 DEF WaitRaises, Raised
<1>17. ASSUME NEW j \in Jobs, Ready(j) PROVE TypeOK'
  <2>1. target[j] \in Workers
    BY <1>17 DEF Ready, Started
  <2>2. row' \in [Workers -> Row]
    BY <1>17, <2>1, WithProvisionType DEF Ready
  <2>3. pc' \in [Actors -> Label]
    BY <1>17 DEF Ready, Raised
  <2>4. QED BY <1>17, <2>2, <2>3 DEF Ready
<1>18. ASSUME NEW j \in Jobs, Succeed(j) PROVE TypeOK'
  BY <1>18 DEF Succeed, WithStatus
<1>19. ASSUME NEW j \in Jobs, Fail(j) PROVE TypeOK'
  <2>1. target[j] \in Workers
    BY <1>19 DEF Fail, Started
  <2>2. row' \in [Workers -> Row]
    BY <1>19, <2>1, WithProvisionType DEF Fail
  <2>3. pc' \in [Actors -> Label]
    BY <1>19 DEF Fail, Raised
  <2>4. QED BY <1>19, <2>2, <2>3 DEF Fail
<1>20. ASSUME NEW j \in Jobs, Record(j) PROVE TypeOK'
  BY <1>20 DEF Record, WithStatus
<1>21. ASSUME NEW j \in Jobs, RemoteFails(j) PROVE TypeOK'
  <2>1. Raised(j) \in Label
    BY DEF Raised
  <2>2. pc' \in [Actors -> Label]
    BY <1>21, <2>1 DEF RemoteFails
  <2>3. faults' \in Nat
    BY <1>21 DEF RemoteFails, Fault
  <2>4. UNCHANGED <<row, hostVars, jobVars, actorVars, cancelled, current, tunnelVars>>
    BY <1>21 DEF RemoteFails
  <2>5. QED BY <2>2, <2>3, <2>4
<1>22. ASSUME NEW a \in Actors, FindPid(a) PROVE TypeOK'
  <2>1. Newest \in Nat
    BY DEF Newest
  <2>2. QED BY <1>22, <2>1 DEF FindPid
<1>23. ASSUME NEW a \in Actors, Load(a) PROVE TypeOK'
  BY <1>23 DEF Load
<1>24. ASSUME NEW a \in Actors, SaveRecord(a) PROVE TypeOK'
  BY <1>24 DEF SaveRecord
<1>25. ASSUME NEW a \in Actors, RemoveRecord(a) PROVE TypeOK'
  <2>1. target[a] \in Workers
    BY <1>25 DEF RemoveRecord, Started
  <2>2. copy[a] \in [Workers -> Nat]
    OBVIOUS
  <2>3. pid' \in [Actors -> Nat]
    BY <1>25, <2>1, <2>2 DEF RemoveRecord
  <2>4. file' \in [Workers -> Nat]
    BY <1>25, <2>2 DEF RemoveRecord
  <2>5. QED BY <1>25, <2>3, <2>4 DEF RemoveRecord
<1>26. ASSUME NEW a \in Actors, KillTunnel(a) PROVE TypeOK'
  BY <1>26 DEF KillTunnel
<1>27. ASSUME NEW a \in Actors, Pkill(a) PROVE TypeOK'
  BY <1>27, PkillType
<1>28. ASSUME NEW h \in Handlers, AddCancelled(h) PROVE TypeOK'
  <2>1. cancelled' \subseteq Jobs
    BY <1>28 DEF AddCancelled, Started
  <2>2. pc' \in [Actors -> Label] /\ ret' \in [Actors -> Return]
    BY <1>28 DEF AddCancelled, Decommission
  <2>3. QED BY <1>28, <2>1, <2>2 DEF AddCancelled
<1>29. ASSUME NEW h \in Handlers, WriteCancelled(h) PROVE TypeOK'
  BY <1>29 DEF WriteCancelled, WithStatus
<1>30. ASSUME NEW h \in Handlers, NoteCancelled(h) PROVE TypeOK'
  <2>1. target[h] \in Workers
    BY <1>30 DEF NoteCancelled, Started
  <2>2. row' \in [Workers -> Row]
    BY <1>30, <2>1, WithProvisionType DEF NoteCancelled
  <2>3. pc' \in [Actors -> Label]
    BY <1>30 DEF NoteCancelled, Raised
  <2>4. QED BY <1>30, <2>2, <2>3 DEF NoteCancelled
<1>31. ASSUME NEW d \in Deletes, FindProvision(d) PROVE TypeOK'
  BY <1>31, FindProvisionType
<1>32. ASSUME NEW d \in Deletes, Clean(d) PROVE TypeOK'
  BY <1>32 DEF Clean, Decommission
<1>33. ASSUME NEW d \in Deletes, DeleteWorker(d) PROVE TypeOK'
  BY <1>33, DeleteWorkerType
<1>34. ASSUME NEW w \in Workers, RegisterWorker(w) PROVE TypeOK'
  BY <1>34, RegisterWorkerType
<1>35. ASSUME NEW w \in Workers, Assign(w) PROVE TypeOK'
  BY <1>35 DEF Assign
<1>36. ASSUME NEW w \in Workers, ClaimBatch(w) PROVE TypeOK'
  BY <1>36, ClaimBatchType
<1>37. ASSUME NEW w \in Workers, EndBatch(w) PROVE TypeOK'
  BY <1>37 DEF EndBatch
<1>38. ASSUME NEW w \in Workers, Exit(w) PROVE TypeOK'
  <2>1. stopping' \in [Workers -> Nat]
    BY <1>38 DEF Exit
  <2>2. QED BY <1>38, <2>1 DEF Exit
<1>39. ASSUME NEW w \in Workers, GoStale(w) PROVE TypeOK'
  BY <1>39, GoStaleType
<1>40. ASSUME Restart PROVE TypeOK'
  <2>1. pc' \in [Actors -> Label]
    BY <1>40 DEF Restart
  <2>2. cancelled' = {} /\ current' = None /\ faults' \in Nat
    BY <1>40 DEF Restart, Fault
  <2>3. UNCHANGED <<row, hostVars, jobVars, actorVars, tunnelVars>>
    BY <1>40 DEF Restart
  <2>4. QED BY <2>1, <2>2, <2>3
<1>41. ASSUME UNCHANGED vars PROVE TypeOK'
  BY <1>41 DEF vars
<1> HIDE DEF TypeOK
<1>42. QED
  BY <1>1, <1>2, <1>3, <1>4, <1>5, <1>6, <1>7, <1>8, <1>9, <1>10, <1>11, <1>12, <1>13, <1>14,
     <1>15, <1>16, <1>17, <1>18, <1>19, <1>20, <1>21, <1>22, <1>23, <1>24, <1>25, <1>26, <1>27,
     <1>28, <1>29, <1>30, <1>31, <1>32, <1>33, <1>34, <1>35, <1>36, <1>37, <1>38, <1>39, <1>40,
     <1>41
  DEF Next, Thread, Call, Handler, Deletion, Host

\* Every step keeps what an actor that has begun refers to.
LEMMA StepStarted == TypeOK /\ Started /\ [Next]_vars => Started'
<1> SUFFICES ASSUME TypeOK, Started, [Next]_vars PROVE Started'
  OBVIOUS
<1> USE LifecycleAssumption, ActorKinds DEF TypeOK, Started, GoTo,
      jobVars, pastVars, actorVars, hostVars, tunnelVars
<1>1. ASSUME NEW j \in ProvisionJobs, NEW w \in Workers, RequestProvision(j, w) PROVE Started'
  BY <1>1 DEF RequestProvision
<1>2. ASSUME NEW j \in UpdateJobs, NEW w \in Workers, RequestUpdate(j, w) PROVE Started'
  BY <1>2 DEF RequestUpdate
<1>3. ASSUME NEW c \in Cancels, NEW j \in Jobs, RequestCancel(c, j) PROVE Started'
  BY <1>3 DEF RequestCancel, ReadWorker
<1>4. ASSUME NEW d \in Deletes, NEW w \in Workers, RequestDelete(d, w) PROVE Started'
  <2>1. d \in Actors /\ d \in Handlers
    BY ActorKinds
  <2>2. target' = [target EXCEPT ![d] = w]
    BY <1>4 DEF RequestDelete, ReadWorker
  <2>3. CASE \E j \in ActiveJob(UpdateJobs, w) : victim' = [victim EXCEPT ![d] = j] /\ GoTo(d, "add")
    <3>1. \A j \in ActiveJob(UpdateJobs, w) : j \in Jobs /\ status[j] # "absent"
      BY ActorKinds DEF ActiveJob, Latest, JobsOf
    <3>2. PICK j \in Jobs : victim' = [victim EXCEPT ![d] = j] /\ GoTo(d, "add") /\ status[j] # "absent"
      BY <2>3, <3>1
    <3>3. UNCHANGED status
      BY <1>4 DEF RequestDelete
    <3>4. QED BY <2>1, <2>2, <3>2, <3>3
  <2>4. CASE GoTo(d, "provision") /\ UNCHANGED victim
    <3>1. UNCHANGED status
      BY <1>4 DEF RequestDelete
    <3>2. QED BY <2>1, <2>2, <2>4, <3>1
  <2>5. QED BY <1>4, <2>3, <2>4 DEF RequestDelete
<1>5. ASSUME NEW j \in Jobs, CreateWorker(j) PROVE Started'
  <2>1. PICK l \in {"refused", "job"} : GoTo(j, l)
    BY <1>5 DEF CreateWorker
  <2>2. pc[j] = "create" /\ UNCHANGED <<target, status, victim>>
    BY <1>5 DEF CreateWorker
  <2>3. QED BY <2>1, <2>2
<1>6. ASSUME NEW j \in Jobs, CreateJob(j) PROVE Started'
  BY <1>6 DEF CreateJob
<1>7. ASSUME NEW j \in Jobs, Begin(j) PROVE Started'
  BY <1>7 DEF Begin, WithStatus
<1>8. ASSUME NEW j \in Jobs, Test(j) PROVE Started'
  BY <1>8 DEF Test, Raised
<1>9. ASSUME NEW j \in Jobs, Start(j) PROVE Started'
  BY <1>9 DEF Start
<1>10. ASSUME NEW j \in Jobs, RunRemote(j) PROVE Started'
  BY <1>10 DEF RunRemote, Advance
<1>11. ASSUME NEW j \in Jobs, StopDaemon(j) PROVE Started'
  BY <1>11 DEF StopDaemon, Decommission
<1>12. ASSUME NEW j \in Jobs, StepDone(j) PROVE Started'
  BY <1>12 DEF StepDone, Advance
<1>13. ASSUME NEW j \in Jobs, SpawnTunnel(j) PROVE Started'
  BY <1>13 DEF SpawnTunnel
<1>14. ASSUME NEW j \in Jobs, StartDaemon(j) PROVE Started'
  BY <1>14 DEF StartDaemon, Fault, Advance
<1>15. ASSUME NEW j \in Jobs, SeesRegistered(j) PROVE Started'
  BY <1>15 DEF SeesRegistered, Advance
<1>16. ASSUME NEW j \in Jobs, WaitRaises(j) PROVE Started'
  BY <1>16 DEF WaitRaises, Raised
<1>17. ASSUME NEW j \in Jobs, Ready(j) PROVE Started'
  BY <1>17 DEF Ready, WithProvision
<1>18. ASSUME NEW j \in Jobs, Succeed(j) PROVE Started'
  BY <1>18 DEF Succeed, WithStatus
<1>19. ASSUME NEW j \in Jobs, Fail(j) PROVE Started'
  BY <1>19 DEF Fail, WithProvision, Raised
<1>20. ASSUME NEW j \in Jobs, Record(j) PROVE Started'
  BY <1>20 DEF Record, WithStatus
<1>21. ASSUME NEW j \in Jobs, RemoteFails(j) PROVE Started'
  BY <1>21 DEF RemoteFails, Fault, Raised
<1>22. ASSUME NEW a \in Actors, FindPid(a) PROVE Started'
  BY <1>22 DEF FindPid
<1>23. ASSUME NEW a \in Actors, Load(a) PROVE Started'
  BY <1>23 DEF Load
<1>24. ASSUME NEW a \in Actors, SaveRecord(a) PROVE Started'
  <2>1. ret[a] \in Return /\ GoTo(a, ret[a]) /\ pc[a] # "idle"
    BY <1>24 DEF SaveRecord
  <2>2. ret[a] # "idle" /\ ret[a] # "add"
    BY <2>1 DEF Return
  <2>3. UNCHANGED <<target, victim, status>>
    BY <1>24 DEF SaveRecord
  <2>4. QED BY <2>1, <2>2, <2>3
<1>25. ASSUME NEW a \in Actors, RemoveRecord(a) PROVE Started'
  BY <1>25 DEF RemoveRecord
<1>26. ASSUME NEW a \in Actors, KillTunnel(a) PROVE Started'
  BY <1>26 DEF KillTunnel
<1>27. ASSUME NEW a \in Actors, Pkill(a) PROVE Started'
  <2>1. ret[a] \in Return /\ GoTo(a, ret[a]) /\ pc[a] # "idle"
    BY <1>27 DEF Pkill
  <2>2. ret[a] # "idle" /\ ret[a] # "add"
    BY <2>1 DEF Return
  <2>3. UNCHANGED <<target, victim, status>>
    BY <1>27 DEF Pkill
  <2>4. QED BY <2>1, <2>2, <2>3
<1>28. ASSUME NEW h \in Handlers, AddCancelled(h) PROVE Started'
  BY <1>28 DEF AddCancelled, Decommission
<1>29. ASSUME NEW h \in Handlers, WriteCancelled(h) PROVE Started'
  <2>1. PICK l \in {"provision", "clean", "end", "note"} : GoTo(h, l)
    BY <1>29 DEF WriteCancelled
  <2>2. h \in Actors /\ pc[h] # "idle" /\ UNCHANGED <<target, victim>>
    BY <1>29 DEF WriteCancelled
  <2>3. \A j \in Jobs \ {victim[h]} : status'[j] = status[j]
    BY <1>29 DEF WriteCancelled, WithStatus
  <2>4. victim[h] \in Jobs => status[victim[h]] # "absent" /\ status'[victim[h]] # "absent"
    BY <1>29 DEF WriteCancelled, WithStatus
  <2>5. \A j \in Jobs : status'[j] # "absent" => status[j] # "absent"
    BY <2>3, <2>4
  <2>6. \A j \in Jobs : status[j] # "absent" => status'[j] # "absent"
    BY <2>3, <2>4
  <2>7. \A a \in Actors : (pc'[a] = "idle" => pc[a] = "idle") /\ (pc'[a] = "add" => pc[a] = "add")
    BY <2>1, <2>2
  <2>8. \A a \in Actors : pc[a] = "idle" => pc'[a] = "idle"
    BY <2>1, <2>2
  <2> HIDE DEF TypeOK, GoTo
  <2>9. QED BY <2>2, <2>5, <2>6, <2>7, <2>8
<1>30. ASSUME NEW h \in Handlers, NoteCancelled(h) PROVE Started'
  BY <1>30 DEF NoteCancelled, WithProvision
<1>31. ASSUME NEW d \in Deletes, FindProvision(d) PROVE Started'
  <2>1. d \in Actors /\ d \in Handlers /\ pc[d] = "provision" /\ UNCHANGED <<target, status>>
    BY <1>31 DEF FindProvision
  <2>2. CASE \E j \in ActiveJob(ProvisionJobs, target[d]) : victim' = [victim EXCEPT ![d] = j] /\ GoTo(d, "add")
    <3>1. \A j \in ActiveJob(ProvisionJobs, target[d]) : j \in Jobs /\ status[j] # "absent"
      BY ActorKinds DEF ActiveJob, Latest, JobsOf
    <3>2. PICK j \in Jobs : victim' = [victim EXCEPT ![d] = j] /\ GoTo(d, "add") /\ status[j] # "absent"
      BY <2>2, <3>1
    <3>3. QED BY <2>1, <3>2
  <2>3. CASE GoTo(d, "clean") /\ UNCHANGED victim
    BY <2>1, <2>3
  <2>4. QED BY <1>31, <2>2, <2>3 DEF FindProvision
<1>32. ASSUME NEW d \in Deletes, Clean(d) PROVE Started'
  BY <1>32 DEF Clean, Decommission
<1>33. ASSUME NEW d \in Deletes, DeleteWorker(d) PROVE Started'
  <2>1. d \in Actors /\ GoTo(d, "end") /\ pc[d] = "delete" /\ UNCHANGED <<target, victim>>
    BY <1>33 DEF DeleteWorker
  <2>2. \A j \in Jobs : status'[j] \in {"deleted", status[j]} /\ (status'[j] # "absent" => status[j] # "absent")
    BY <1>33 DEF DeleteWorker, JobsOf
  <2>3. QED BY <2>1, <2>2
<1>34. ASSUME NEW w \in Workers, RegisterWorker(w) PROVE Started'
  BY <1>34 DEF RegisterWorker, DaemonCalls
<1>35. ASSUME NEW w \in Workers, Assign(w) PROVE Started'
  BY <1>35 DEF Assign
<1>36. ASSUME NEW w \in Workers, ClaimBatch(w) PROVE Started'
  BY <1>36 DEF ClaimBatch, DaemonCalls
<1>37. ASSUME NEW w \in Workers, EndBatch(w) PROVE Started'
  BY <1>37 DEF EndBatch
<1>38. ASSUME NEW w \in Workers, Exit(w) PROVE Started'
  BY <1>38 DEF Exit
<1>39. ASSUME NEW w \in Workers, GoStale(w) PROVE Started'
  BY <1>39 DEF GoStale
<1>40. ASSUME Restart PROVE Started'
  BY <1>40 DEF Restart, Fault
<1>41. ASSUME UNCHANGED vars PROVE Started'
  BY <1>41 DEF vars
<1> HIDE DEF TypeOK, Started
<1>42. QED
  BY <1>1, <1>2, <1>3, <1>4, <1>5, <1>6, <1>7, <1>8, <1>9, <1>10, <1>11, <1>12, <1>13, <1>14,
     <1>15, <1>16, <1>17, <1>18, <1>19, <1>20, <1>21, <1>22, <1>23, <1>24, <1>25, <1>26, <1>27,
     <1>28, <1>29, <1>30, <1>31, <1>32, <1>33, <1>34, <1>35, <1>36, <1>37, <1>38, <1>39, <1>40,
     <1>41
  DEF Next, Thread, Call, Handler, Deletion, Host

\* Every step keeps that a cancelled job starts one more step at most.
LEMMA StepNoticed == TypeOK /\ CancelIsNoticed /\ [Next]_vars => CancelIsNoticed'
<1> SUFFICES ASSUME TypeOK, CancelIsNoticed, [Next]_vars PROVE CancelIsNoticed'
  OBVIOUS
<1> USE LifecycleAssumption, ActorKinds DEF TypeOK, CancelIsNoticed, GoTo,
      jobVars, pastVars, actorVars, hostVars, tunnelVars
<1>1. ASSUME NEW j \in ProvisionJobs, NEW w \in Workers, RequestProvision(j, w) PROVE CancelIsNoticed'
  BY <1>1 DEF RequestProvision
<1>2. ASSUME NEW j \in UpdateJobs, NEW w \in Workers, RequestUpdate(j, w) PROVE CancelIsNoticed'
  BY <1>2 DEF RequestUpdate
<1>3. ASSUME NEW c \in Cancels, NEW j \in Jobs, RequestCancel(c, j) PROVE CancelIsNoticed'
  BY <1>3 DEF RequestCancel, ReadWorker
<1>4. ASSUME NEW d \in Deletes, NEW w \in Workers, RequestDelete(d, w) PROVE CancelIsNoticed'
  BY <1>4 DEF RequestDelete, ReadWorker
<1>5. ASSUME NEW j \in Jobs, CreateWorker(j) PROVE CancelIsNoticed'
  BY <1>5 DEF CreateWorker
<1>6. ASSUME NEW j \in Jobs, CreateJob(j) PROVE CancelIsNoticed'
  BY <1>6 DEF CreateJob
<1>7. ASSUME NEW j \in Jobs, Begin(j) PROVE CancelIsNoticed'
  BY <1>7 DEF Begin, WithStatus
<1>8. ASSUME NEW j \in Jobs, Test(j) PROVE CancelIsNoticed'
  BY <1>8 DEF Test, Raised
<1>9. ASSUME NEW j \in Jobs, Start(j) PROVE CancelIsNoticed'
  BY <1>9 DEF Start
<1>10. ASSUME NEW j \in Jobs, RunRemote(j) PROVE CancelIsNoticed'
  BY <1>10 DEF RunRemote, Advance
<1>11. ASSUME NEW j \in Jobs, StopDaemon(j) PROVE CancelIsNoticed'
  BY <1>11 DEF StopDaemon, Decommission
<1>12. ASSUME NEW j \in Jobs, StepDone(j) PROVE CancelIsNoticed'
  BY <1>12 DEF StepDone, Advance
<1>13. ASSUME NEW j \in Jobs, SpawnTunnel(j) PROVE CancelIsNoticed'
  BY <1>13 DEF SpawnTunnel
<1>14. ASSUME NEW j \in Jobs, StartDaemon(j) PROVE CancelIsNoticed'
  BY <1>14 DEF StartDaemon, Fault, Advance
<1>15. ASSUME NEW j \in Jobs, SeesRegistered(j) PROVE CancelIsNoticed'
  BY <1>15 DEF SeesRegistered, Advance
<1>16. ASSUME NEW j \in Jobs, WaitRaises(j) PROVE CancelIsNoticed'
  BY <1>16 DEF WaitRaises, Raised
<1>17. ASSUME NEW j \in Jobs, Ready(j) PROVE CancelIsNoticed'
  BY <1>17 DEF Ready, WithProvision
<1>18. ASSUME NEW j \in Jobs, Succeed(j) PROVE CancelIsNoticed'
  BY <1>18 DEF Succeed, WithStatus
<1>19. ASSUME NEW j \in Jobs, Fail(j) PROVE CancelIsNoticed'
  BY <1>19 DEF Fail, WithProvision, Raised
<1>20. ASSUME NEW j \in Jobs, Record(j) PROVE CancelIsNoticed'
  BY <1>20 DEF Record, WithStatus
<1>21. ASSUME NEW j \in Jobs, RemoteFails(j) PROVE CancelIsNoticed'
  BY <1>21 DEF RemoteFails, Fault, Raised
<1>22. ASSUME NEW a \in Actors, FindPid(a) PROVE CancelIsNoticed'
  BY <1>22 DEF FindPid
<1>23. ASSUME NEW a \in Actors, Load(a) PROVE CancelIsNoticed'
  BY <1>23 DEF Load
<1>24. ASSUME NEW a \in Actors, SaveRecord(a) PROVE CancelIsNoticed'
  <2>1. ret[a] \in Return /\ GoTo(a, ret[a]) /\ pc[a] \in {"putsave", "pkill"}
    BY <1>24 DEF SaveRecord
  <2>2. ret[a] \notin {"idle", "create", "refused", "start"}
    BY <2>1 DEF Return
  <2>3. UNCHANGED <<late, cancelled>>
    BY <1>24 DEF SaveRecord
  <2>4. QED BY <2>1, <2>2, <2>3
<1>25. ASSUME NEW a \in Actors, RemoveRecord(a) PROVE CancelIsNoticed'
  BY <1>25 DEF RemoveRecord
<1>26. ASSUME NEW a \in Actors, KillTunnel(a) PROVE CancelIsNoticed'
  BY <1>26 DEF KillTunnel
<1>27. ASSUME NEW a \in Actors, Pkill(a) PROVE CancelIsNoticed'
  <2>1. ret[a] \in Return /\ GoTo(a, ret[a]) /\ pc[a] \in {"putsave", "pkill"}
    BY <1>27 DEF Pkill
  <2>2. ret[a] \notin {"idle", "create", "refused", "start"}
    BY <2>1 DEF Return
  <2>3. UNCHANGED <<late, cancelled>>
    BY <1>27 DEF Pkill
  <2>4. QED BY <2>1, <2>2, <2>3
<1>28. ASSUME NEW h \in Handlers, AddCancelled(h) PROVE CancelIsNoticed'
  BY <1>28 DEF AddCancelled, Decommission
<1>29. ASSUME NEW h \in Handlers, WriteCancelled(h) PROVE CancelIsNoticed'
  BY <1>29 DEF WriteCancelled, WithStatus
<1>30. ASSUME NEW h \in Handlers, NoteCancelled(h) PROVE CancelIsNoticed'
  BY <1>30 DEF NoteCancelled, WithProvision
<1>31. ASSUME NEW d \in Deletes, FindProvision(d) PROVE CancelIsNoticed'
  <2>1. PICK l \in {"add", "clean"} : GoTo(d, l)
    BY <1>31 DEF FindProvision
  <2>2. pc[d] = "provision" /\ UNCHANGED <<late, cancelled>>
    BY <1>31 DEF FindProvision
  <2>3. QED BY <2>1, <2>2
<1>32. ASSUME NEW d \in Deletes, Clean(d) PROVE CancelIsNoticed'
  BY <1>32 DEF Clean, Decommission
<1>33. ASSUME NEW d \in Deletes, DeleteWorker(d) PROVE CancelIsNoticed'
  BY <1>33 DEF DeleteWorker
<1>34. ASSUME NEW w \in Workers, RegisterWorker(w) PROVE CancelIsNoticed'
  BY <1>34 DEF RegisterWorker, DaemonCalls
<1>35. ASSUME NEW w \in Workers, Assign(w) PROVE CancelIsNoticed'
  BY <1>35 DEF Assign
<1>36. ASSUME NEW w \in Workers, ClaimBatch(w) PROVE CancelIsNoticed'
  BY <1>36 DEF ClaimBatch, DaemonCalls
<1>37. ASSUME NEW w \in Workers, EndBatch(w) PROVE CancelIsNoticed'
  BY <1>37 DEF EndBatch
<1>38. ASSUME NEW w \in Workers, Exit(w) PROVE CancelIsNoticed'
  BY <1>38 DEF Exit
<1>39. ASSUME NEW w \in Workers, GoStale(w) PROVE CancelIsNoticed'
  BY <1>39 DEF GoStale
<1>40. ASSUME Restart PROVE CancelIsNoticed'
  BY <1>40 DEF Restart, Fault
<1>41. ASSUME UNCHANGED vars PROVE CancelIsNoticed'
  BY <1>41 DEF vars
<1> HIDE DEF TypeOK, CancelIsNoticed
<1>42. QED
  BY <1>1, <1>2, <1>3, <1>4, <1>5, <1>6, <1>7, <1>8, <1>9, <1>10, <1>11, <1>12, <1>13, <1>14,
     <1>15, <1>16, <1>17, <1>18, <1>19, <1>20, <1>21, <1>22, <1>23, <1>24, <1>25, <1>26, <1>27,
     <1>28, <1>29, <1>30, <1>31, <1>32, <1>33, <1>34, <1>35, <1>36, <1>37, <1>38, <1>39, <1>40,
     <1>41
  DEF Next, Thread, Call, Handler, Deletion, Host

\* Every step keeps that success takes every step of the job.
LEMMA StepComplete == TypeOK /\ SucceededIsComplete /\ [Next]_vars => SucceededIsComplete'
<1> SUFFICES ASSUME TypeOK, SucceededIsComplete, [Next]_vars PROVE SucceededIsComplete'
  OBVIOUS
<1> USE LifecycleAssumption, ActorKinds, StepsType DEF TypeOK, SucceededIsComplete, GoTo,
      jobVars, pastVars, actorVars, hostVars, tunnelVars
<1>1. ASSUME NEW j \in ProvisionJobs, NEW w \in Workers, RequestProvision(j, w) PROVE SucceededIsComplete'
  BY <1>1 DEF RequestProvision
<1>2. ASSUME NEW j \in UpdateJobs, NEW w \in Workers, RequestUpdate(j, w) PROVE SucceededIsComplete'
  BY <1>2 DEF RequestUpdate
<1>3. ASSUME NEW c \in Cancels, NEW j \in Jobs, RequestCancel(c, j) PROVE SucceededIsComplete'
  BY <1>3 DEF RequestCancel, ReadWorker
<1>4. ASSUME NEW d \in Deletes, NEW w \in Workers, RequestDelete(d, w) PROVE SucceededIsComplete'
  BY <1>4 DEF RequestDelete, ReadWorker
<1>5. ASSUME NEW j \in Jobs, CreateWorker(j) PROVE SucceededIsComplete'
  BY <1>5 DEF CreateWorker
<1>6. ASSUME NEW j \in Jobs, CreateJob(j) PROVE SucceededIsComplete'
  BY <1>6 DEF CreateJob
<1>7. ASSUME NEW j \in Jobs, Begin(j) PROVE SucceededIsComplete'
  BY <1>7 DEF Begin, WithStatus
<1>8. ASSUME NEW j \in Jobs, Test(j) PROVE SucceededIsComplete'
  BY <1>8 DEF Test, Raised
<1>9. ASSUME NEW j \in Jobs, Start(j) PROVE SucceededIsComplete'
  BY <1>9 DEF Start
<1>10. ASSUME NEW j \in Jobs, RunRemote(j) PROVE SucceededIsComplete'
  BY <1>10, AdvanceComplete DEF RunRemote
<1>11. ASSUME NEW j \in Jobs, StopDaemon(j) PROVE SucceededIsComplete'
  BY <1>11 DEF StopDaemon, Decommission
<1>12. ASSUME NEW j \in Jobs, StepDone(j) PROVE SucceededIsComplete'
  BY <1>12, AdvanceComplete DEF StepDone
<1>13. ASSUME NEW j \in Jobs, SpawnTunnel(j) PROVE SucceededIsComplete'
  BY <1>13 DEF SpawnTunnel
<1>14. ASSUME NEW j \in Jobs, StartDaemon(j) PROVE SucceededIsComplete'
  BY <1>14, AdvanceComplete DEF StartDaemon
<1>15. ASSUME NEW j \in Jobs, SeesRegistered(j) PROVE SucceededIsComplete'
  BY <1>15, AdvanceComplete DEF SeesRegistered
<1>16. ASSUME NEW j \in Jobs, WaitRaises(j) PROVE SucceededIsComplete'
  BY <1>16 DEF WaitRaises, Raised
<1>17. ASSUME NEW j \in Jobs, Ready(j) PROVE SucceededIsComplete'
  BY <1>17 DEF Ready, WithProvision
<1>18. ASSUME NEW j \in Jobs, Succeed(j) PROVE SucceededIsComplete'
  BY <1>18 DEF Succeed, WithStatus
<1>19. ASSUME NEW j \in Jobs, Fail(j) PROVE SucceededIsComplete'
  BY <1>19 DEF Fail, WithProvision, Raised
<1>20. ASSUME NEW j \in Jobs, Record(j) PROVE SucceededIsComplete'
  BY <1>20 DEF Record, WithStatus
<1>21. ASSUME NEW j \in Jobs, RemoteFails(j) PROVE SucceededIsComplete'
  BY <1>21 DEF RemoteFails, Fault, Raised
<1>22. ASSUME NEW a \in Actors, FindPid(a) PROVE SucceededIsComplete'
  BY <1>22 DEF FindPid
<1>23. ASSUME NEW a \in Actors, Load(a) PROVE SucceededIsComplete'
  BY <1>23 DEF Load
<1>24. ASSUME NEW a \in Actors, SaveRecord(a) PROVE SucceededIsComplete'
  <2>1. ret[a] \in Return /\ GoTo(a, ret[a])
    BY <1>24 DEF SaveRecord
  <2>2. ret[a] # "ready" /\ ret[a] # "succeed"
    BY <2>1 DEF Return
  <2>3. UNCHANGED <<at, status>>
    BY <1>24 DEF SaveRecord
  <2>4. QED BY <2>1, <2>2, <2>3 DEF Steps
<1>25. ASSUME NEW a \in Actors, RemoveRecord(a) PROVE SucceededIsComplete'
  BY <1>25 DEF RemoveRecord
<1>26. ASSUME NEW a \in Actors, KillTunnel(a) PROVE SucceededIsComplete'
  BY <1>26 DEF KillTunnel
<1>27. ASSUME NEW a \in Actors, Pkill(a) PROVE SucceededIsComplete'
  <2>1. ret[a] \in Return /\ GoTo(a, ret[a])
    BY <1>27 DEF Pkill
  <2>2. ret[a] # "ready" /\ ret[a] # "succeed"
    BY <2>1 DEF Return
  <2>3. UNCHANGED <<at, status>>
    BY <1>27 DEF Pkill
  <2>4. QED BY <2>1, <2>2, <2>3 DEF Steps
<1>28. ASSUME NEW h \in Handlers, AddCancelled(h) PROVE SucceededIsComplete'
  BY <1>28 DEF AddCancelled, Decommission
<1>29. ASSUME NEW h \in Handlers, WriteCancelled(h) PROVE SucceededIsComplete'
  BY <1>29 DEF WriteCancelled, WithStatus
<1>30. ASSUME NEW h \in Handlers, NoteCancelled(h) PROVE SucceededIsComplete'
  BY <1>30 DEF NoteCancelled, WithProvision
<1>31. ASSUME NEW d \in Deletes, FindProvision(d) PROVE SucceededIsComplete'
  BY <1>31 DEF FindProvision
<1>32. ASSUME NEW d \in Deletes, Clean(d) PROVE SucceededIsComplete'
  BY <1>32 DEF Clean, Decommission
<1>33. ASSUME NEW d \in Deletes, DeleteWorker(d) PROVE SucceededIsComplete'
  BY <1>33 DEF DeleteWorker
<1>34. ASSUME NEW w \in Workers, RegisterWorker(w) PROVE SucceededIsComplete'
  BY <1>34 DEF RegisterWorker, DaemonCalls
<1>35. ASSUME NEW w \in Workers, Assign(w) PROVE SucceededIsComplete'
  BY <1>35 DEF Assign
<1>36. ASSUME NEW w \in Workers, ClaimBatch(w) PROVE SucceededIsComplete'
  BY <1>36 DEF ClaimBatch, DaemonCalls
<1>37. ASSUME NEW w \in Workers, EndBatch(w) PROVE SucceededIsComplete'
  BY <1>37 DEF EndBatch
<1>38. ASSUME NEW w \in Workers, Exit(w) PROVE SucceededIsComplete'
  BY <1>38 DEF Exit
<1>39. ASSUME NEW w \in Workers, GoStale(w) PROVE SucceededIsComplete'
  BY <1>39 DEF GoStale
<1>40. ASSUME Restart PROVE SucceededIsComplete'
  BY <1>40 DEF Restart, Fault
<1>41. ASSUME UNCHANGED vars PROVE SucceededIsComplete'
  BY <1>41 DEF vars
<1> HIDE DEF TypeOK, SucceededIsComplete
<1>42. QED
  BY <1>1, <1>2, <1>3, <1>4, <1>5, <1>6, <1>7, <1>8, <1>9, <1>10, <1>11, <1>12, <1>13, <1>14,
     <1>15, <1>16, <1>17, <1>18, <1>19, <1>20, <1>21, <1>22, <1>23, <1>24, <1>25, <1>26, <1>27,
     <1>28, <1>29, <1>30, <1>31, <1>32, <1>33, <1>34, <1>35, <1>36, <1>37, <1>38, <1>39, <1>40,
     <1>41
  DEF Next, Thread, Call, Handler, Deletion, Host

\* Jobs that are not past the INSERT of their row.
Rowless == {"idle", "create", "refused", "job", "lost"}

\* What all steps but the first three of a provision leave as it is.
Frame ==
  /\ \A d \in Deletes : pc'[d] = "idle" => pc[d] = "idle"
  /\ NotDeleted' => \A w \in Workers : row[w].here => row'[w].here
  /\ \A j \in ProvisionJobs : target'[j] = target[j]
  /\ \A j \in ProvisionJobs : pc'[j] = "job" => pc[j] = "job"
  /\ \A j \in Jobs : pc'[j] \notin Rowless => pc[j] \notin Rowless \/ status'[j] # "absent"
  /\ \A j \in Jobs : (status[j] = "absent") <=> (status'[j] = "absent")

LEMMA FrameKeeps ==
  ASSUME RowsFollow, ProvisionsApart, Started, Frame
  PROVE  RowsFollow' /\ ProvisionsApart'
<1>1. RowsFollow'
  BY DEF RowsFollow, Frame, Rowless
<1>2. ASSUME NotDeleted' PROVE NotDeleted
  BY <1>2 DEF NotDeleted, Frame
<1>3. ASSUME NEW j \in ProvisionJobs, HasWorker(j)' PROVE HasWorker(j)
  <2>1. /\ pc'[j] = "job" => pc[j] = "job"
        /\ status[j] = "absent" => status'[j] = "absent"
    BY ActorKinds DEF Frame
  <2>2. QED BY <1>3, <2>1 DEF HasWorker
<1>4. ASSUME NEW j \in ProvisionJobs, HasWorker(j) PROVE target[j] \in Workers /\ target'[j] = target[j]
  <2>1. pc[j] # "idle" /\ j \in Actors
    BY <1>4, ActorKinds DEF HasWorker, Started
  <2>2. QED BY <2>1 DEF Started, Frame
<1>5. ProvisionsApart'
  BY <1>2, <1>3, <1>4 DEF ProvisionsApart, Frame
<1>6. QED BY <1>1, <1>5

LEMMA AdvanceFrame ==
  ASSUME TypeOK, NEW j \in Jobs, pc[j] \notin Rowless, Advance(j), UNCHANGED <<row, target>>
  PROVE  Frame
<1>1. pc'[j] \in {"test", "ready", "succeed"} /\ \A a \in Actors \ {j} : pc'[a] = pc[a]
  BY ActorKinds DEF TypeOK, Advance, GoTo
<1>2. \A d \in Deletes : d # j /\ d \in Actors
  BY LifecycleAssumption, ActorKinds
<1>3. UNCHANGED status
  BY DEF Advance
<1>4. QED BY <1>1, <1>2, <1>3, ActorKinds DEF Frame, Rowless

\* Where an actor goes after a call, it has its row.
LEMMA ReturnFrame ==
  ASSUME TypeOK, NEW a \in Actors, pc[a] \notin Rowless, GoTo(a, ret[a]), UNCHANGED <<row, target, status>>
  PROVE  Frame
<1>1. ret[a] \notin Rowless
  BY DEF TypeOK, Return, Rowless
<1>2. \A b \in Actors : pc'[b] = IF b = a THEN ret[a] ELSE pc[b]
  BY DEF TypeOK, GoTo
<1>3. "idle" \in Rowless /\ "job" \in Rowless
  BY DEF Rowless
<1>4. QED BY <1>1, <1>2, <1>3, ActorKinds DEF Frame

LEMMA StepFrame ==
  ASSUME TypeOK, Started, RowsFollow, [Next]_vars
  PROVE  \/ Frame
         \/ \E j \in ProvisionJobs, w \in Workers : RequestProvision(j, w)
         \/ \E j \in UpdateJobs, w \in Workers : RequestUpdate(j, w)
         \/ \E j \in Jobs : CreateWorker(j) \/ CreateJob(j)
<1>a. /\ pc \in [Actors -> Label] /\ target \in [Actors -> Workers \cup {None}]
      /\ row \in [Workers -> Row] /\ status \in [Jobs -> Status]
  BY DEF TypeOK
<1>b. /\ \A j \in Jobs : pc[j] \notin Rowless => status[j] # "absent"
      /\ \A d \in Deletes : d \in Actors /\ d \notin Jobs
      /\ \A h \in Handlers : h \in Actors /\ h \notin Jobs
      /\ \A j \in Jobs : j \in Actors
      /\ ProvisionJobs \subseteq Jobs
  BY LifecycleAssumption, ActorKinds DEF RowsFollow, Rowless
<1> USE DEF Rowless, GoTo, NotDeleted, jobVars, pastVars, actorVars, hostVars, tunnelVars
<1>1. ASSUME NEW j \in Jobs, Begin(j) PROVE Frame
  BY <1>1, <1>a, <1>b DEF Begin, WithStatus, Frame
<1>2. ASSUME NEW j \in Jobs, Test(j) PROVE Frame
  BY <1>2, <1>a, <1>b DEF Test, Raised, Frame
<1>3. ASSUME NEW j \in Jobs, Start(j) PROVE Frame
  BY <1>3, <1>a, <1>b DEF Start, Frame
<1>4. ASSUME NEW j \in Jobs, RunRemote(j) PROVE Frame
  <2>1. Advance(j) /\ UNCHANGED <<row, target>> /\ pc[j] \in {"run", "stepdone", "daemon"}
    BY <1>4 DEF RunRemote, actorVars
  <2>2. pc[j] \notin Rowless
    BY <2>1 DEF Rowless
  <2>3. QED BY <2>1, <2>2, AdvanceFrame
<1>5. ASSUME NEW j \in Jobs, StopDaemon(j) PROVE Frame
  BY <1>5, <1>a, <1>b DEF StopDaemon, Decommission, Frame
<1>6. ASSUME NEW j \in Jobs, StepDone(j) PROVE Frame
  <2>1. Advance(j) /\ UNCHANGED <<row, target>> /\ pc[j] \in {"run", "stepdone", "daemon"}
    BY <1>6 DEF StepDone, actorVars
  <2>2. pc[j] \notin Rowless
    BY <2>1 DEF Rowless
  <2>3. QED BY <2>1, <2>2, AdvanceFrame
<1>7. ASSUME NEW j \in Jobs, SpawnTunnel(j) PROVE Frame
  BY <1>7, <1>a, <1>b DEF SpawnTunnel, Frame
<1>8. ASSUME NEW j \in Jobs, StartDaemon(j) PROVE Frame
  <2>1. Advance(j) /\ UNCHANGED <<row, target>> /\ pc[j] \in {"run", "stepdone", "daemon"}
    BY <1>8 DEF StartDaemon, actorVars
  <2>2. pc[j] \notin Rowless
    BY <2>1 DEF Rowless
  <2>3. QED BY <2>1, <2>2, AdvanceFrame
<1>9. ASSUME NEW j \in Jobs, SeesRegistered(j) PROVE Frame
  <2>1. Advance(j) /\ UNCHANGED <<row, target>> /\ pc[j] \in {"run", "stepdone", "daemon"}
    BY <1>9 DEF SeesRegistered, actorVars
  <2>2. pc[j] \notin Rowless
    BY <2>1 DEF Rowless
  <2>3. QED BY <2>1, <2>2, AdvanceFrame
<1>10. ASSUME NEW j \in Jobs, WaitRaises(j) PROVE Frame
  BY <1>10, <1>a, <1>b DEF WaitRaises, Raised, Frame
<1>11. ASSUME NEW j \in Jobs, Ready(j) PROVE Frame
  BY <1>11, <1>a, <1>b DEF Ready, WithProvision, Frame
<1>12. ASSUME NEW j \in Jobs, Succeed(j) PROVE Frame
  BY <1>12, <1>a, <1>b DEF Succeed, WithStatus, Frame
<1>13. ASSUME NEW j \in Jobs, Fail(j) PROVE Frame
  BY <1>13, <1>a, <1>b DEF Fail, WithProvision, Frame
<1>14. ASSUME NEW j \in Jobs, Record(j) PROVE Frame
  BY <1>14, <1>a, <1>b DEF Record, WithStatus, Frame
<1>15. ASSUME NEW j \in Jobs, RemoteFails(j) PROVE Frame
  BY <1>15, <1>a, <1>b DEF RemoteFails, Raised, Frame
<1>16. ASSUME NEW a \in Actors, FindPid(a) PROVE Frame
  BY <1>16, <1>a, <1>b DEF FindPid, Frame
<1>17. ASSUME NEW a \in Actors, Load(a) PROVE Frame
  BY <1>17, <1>a, <1>b DEF Load, Frame
<1>18. ASSUME NEW a \in Actors, SaveRecord(a) PROVE Frame
  <2>1. GoTo(a, ret[a]) /\ UNCHANGED <<row, target, status>> /\ pc[a] \in {"putsave", "pkill"}
    BY <1>18 DEF SaveRecord, jobVars, pastVars, actorVars
  <2>2. pc[a] \notin Rowless
    BY <2>1 DEF Rowless
  <2>3. QED BY <2>1, <2>2, ReturnFrame
<1>19. ASSUME NEW a \in Actors, RemoveRecord(a) PROVE Frame
  BY <1>19, <1>a, <1>b DEF RemoveRecord, Frame
<1>20. ASSUME NEW a \in Actors, KillTunnel(a) PROVE Frame
  BY <1>20, <1>a, <1>b DEF KillTunnel, Frame
<1>21. ASSUME NEW a \in Actors, Pkill(a) PROVE Frame
  <2>1. GoTo(a, ret[a]) /\ UNCHANGED <<row, target, status>> /\ pc[a] \in {"putsave", "pkill"}
    BY <1>21 DEF Pkill, jobVars, pastVars, actorVars
  <2>2. pc[a] \notin Rowless
    BY <2>1 DEF Rowless
  <2>3. QED BY <2>1, <2>2, ReturnFrame
<1>22. ASSUME NEW h \in Handlers, AddCancelled(h) PROVE Frame
  BY <1>22, <1>a, <1>b DEF AddCancelled, Decommission, Frame
<1>23. ASSUME NEW h \in Handlers, WriteCancelled(h) PROVE Frame
  <2>1. PICK l \in {"provision", "clean", "end", "note"} : GoTo(h, l)
    BY <1>23 DEF WriteCancelled
  <2>2. h \in Actors /\ pc[h] = "write" /\ UNCHANGED <<row, target>>
    BY <1>23, ActorKinds DEF WriteCancelled, actorVars
  <2>3. \A j \in Jobs : (status[j] = "absent") <=> (status'[j] = "absent")
    BY <1>23 DEF WriteCancelled, WithStatus, TypeOK, Started
  <2>4. \A a \in Actors : pc'[a] = pc[a] \/ (a = h /\ pc'[a] = l)
    BY <2>1 DEF GoTo, TypeOK
  <2>5. QED BY <2>2, <2>3, <2>4, ActorKinds DEF Frame, Rowless
<1>24. ASSUME NEW h \in Handlers, NoteCancelled(h) PROVE Frame
  BY <1>24, <1>a, <1>b DEF NoteCancelled, WithProvision, Frame
<1>25. ASSUME NEW d \in Deletes, FindProvision(d) PROVE Frame
  BY <1>25, <1>a, <1>b DEF FindProvision, Frame
<1>26. ASSUME NEW d \in Deletes, Clean(d) PROVE Frame
  BY <1>26, <1>a, <1>b DEF Clean, Decommission, Frame
<1>27. ASSUME NEW d \in Deletes, DeleteWorker(d) PROVE Frame
  BY <1>27, <1>a, <1>b DEF DeleteWorker, JobsOf, Frame
<1>28. ASSUME NEW w \in Workers, RegisterWorker(w) PROVE Frame
  BY <1>28, <1>a, <1>b DEF RegisterWorker, DaemonCalls, Frame
<1>29. ASSUME NEW w \in Workers, Assign(w) PROVE Frame
  BY <1>29, <1>a, <1>b DEF Assign, Frame
<1>30. ASSUME NEW w \in Workers, ClaimBatch(w) PROVE Frame
  BY <1>30, <1>a, <1>b DEF ClaimBatch, DaemonCalls, Frame
<1>31. ASSUME NEW w \in Workers, EndBatch(w) PROVE Frame
  BY <1>31, <1>a, <1>b DEF EndBatch, Frame
<1>32. ASSUME NEW w \in Workers, Exit(w) PROVE Frame
  BY <1>32, <1>a, <1>b DEF Exit, Frame
<1>33. ASSUME NEW w \in Workers, GoStale(w) PROVE Frame
  BY <1>33, <1>a, <1>b DEF GoStale, Frame
<1>34. ASSUME NEW c \in Cancels, NEW j \in Jobs, RequestCancel(c, j) PROVE Frame
  BY <1>34, <1>a, <1>b, ActorKinds DEF RequestCancel, ReadWorker, Frame
<1>35. ASSUME NEW d \in Deletes, NEW w \in Workers, RequestDelete(d, w) PROVE Frame
  BY <1>35, <1>a, <1>b DEF RequestDelete, ReadWorker, Frame
<1>36. ASSUME Restart PROVE Frame
  BY <1>36, <1>a, <1>b DEF Restart, Frame
<1>37. ASSUME UNCHANGED vars PROVE Frame
  BY <1>37 DEF vars, Frame
<1> HIDE DEF Rowless, GoTo, NotDeleted, jobVars, pastVars, actorVars, hostVars, tunnelVars
<1>38. ASSUME NEW j \in Jobs, Thread(j) PROVE Frame \/ CreateWorker(j) \/ CreateJob(j)
  BY <1>38, <1>1, <1>2, <1>3, <1>4, <1>5, <1>6, <1>7, <1>8, <1>9, <1>10, <1>11, <1>12, <1>13, <1>14 DEF Thread
<1>39. ASSUME NEW a \in Actors, Call(a) PROVE Frame
  BY <1>39, <1>16, <1>17, <1>18, <1>19, <1>20, <1>21 DEF Call
<1>40. ASSUME NEW h \in Handlers, Handler(h) PROVE Frame
  BY <1>40, <1>22, <1>23, <1>24 DEF Handler
<1>41. ASSUME NEW d \in Deletes, Deletion(d) PROVE Frame
  BY <1>41, <1>25, <1>26, <1>27 DEF Deletion
<1>42. ASSUME NEW w \in Workers, Host(w) PROVE Frame
  BY <1>42, <1>28, <1>29, <1>30, <1>31, <1>32, <1>33 DEF Host
<1>43. QED
  BY <1>15, <1>34, <1>35, <1>36, <1>37, <1>38, <1>39, <1>40, <1>41, <1>42 DEF Next

\* A second request for a worker finds its row.
LEMMA StepApart ==
  ASSUME TypeOK, Started, RowsFollow, ProvisionsApart, [Next]_vars
  PROVE  RowsFollow' /\ ProvisionsApart'
<1>a. /\ pc \in [Actors -> Label] /\ target \in [Actors -> Workers \cup {None}]
      /\ row \in [Workers -> Row] /\ status \in [Jobs -> Status] /\ birth \in [Jobs -> Nat]
  BY DEF TypeOK
<1>b. /\ \A d \in Deletes : d \in Actors /\ d \notin Jobs
      /\ \A j \in Jobs : j \in Actors
      /\ ProvisionJobs \subseteq Jobs /\ ProvisionJobs \cap UpdateJobs = {}
  BY LifecycleAssumption, ActorKinds
<1>c. \A j \in Jobs : HasWorker(j) => target[j] \in Workers
  BY <1>b DEF HasWorker, Started
<1>1. CASE Frame
  BY <1>1, FrameKeeps
<1>2. ASSUME NEW j \in ProvisionJobs, NEW w \in Workers, RequestProvision(j, w) PROVE RowsFollow' /\ ProvisionsApart'
  <2>1. \A a \in Actors : pc'[a] = IF a = j THEN "create" ELSE pc[a]
    BY <1>2, <1>a DEF RequestProvision, GoTo
  <2>2. \A a \in Actors \ {j} : target'[a] = target[a]
    BY <1>2, <1>a DEF RequestProvision
  <2>3. UNCHANGED <<row, status>> /\ pc[j] = "idle"
    BY <1>2 DEF RequestProvision, jobVars, pastVars
  <2>4. status[j] = "absent"
    BY <1>b, <2>3 DEF Started
  <2>5. \A i \in ProvisionJobs : HasWorker(i)' => i # j /\ HasWorker(i) /\ target'[i] = target[i]
    BY <1>b, <2>1, <2>2, <2>3, <2>4 DEF HasWorker
  <2>6. NotDeleted' => NotDeleted
    BY <1>b, <2>1 DEF NotDeleted
  <2>7. RowsFollow'
    BY <1>b, <2>1, <2>3 DEF RowsFollow
  <2>8. ProvisionsApart'
    BY <2>3, <2>5, <2>6 DEF ProvisionsApart
  <2>9. QED BY <2>7, <2>8
<1>3. ASSUME NEW j \in UpdateJobs, NEW w \in Workers, RequestUpdate(j, w) PROVE RowsFollow' /\ ProvisionsApart'
  <2>1. \A a \in Actors : pc'[a] = IF a = j THEN "job" ELSE pc[a]
    BY <1>3, <1>a DEF RequestUpdate, GoTo
  <2>2. \A a \in Actors \ {j} : target'[a] = target[a]
    BY <1>3, <1>a DEF RequestUpdate
  <2>3. UNCHANGED <<row, status>> /\ j \in Jobs
    BY <1>3, ActorKinds DEF RequestUpdate
  <2>4. \A i \in ProvisionJobs : i # j /\ HasWorker(i)' => HasWorker(i) /\ target'[i] = target[i]
    BY <1>b, <2>1, <2>2, <2>3 DEF HasWorker
  <2>5. NotDeleted' => NotDeleted
    BY <1>b, <2>1, <2>3 DEF NotDeleted
  <2>6. RowsFollow'
    BY <1>b, <2>1, <2>3 DEF RowsFollow
  <2>7. ProvisionsApart'
    BY <1>b, <2>3, <2>4, <2>5 DEF ProvisionsApart
  <2>8. QED BY <2>6, <2>7
<1>4. ASSUME NEW j \in Jobs, CreateWorker(j) PROVE RowsFollow' /\ ProvisionsApart'
  <2>1. UNCHANGED <<target, status>> /\ pc[j] = "create" /\ target[j] \in Workers
    BY <1>4, <1>b DEF CreateWorker, jobVars, pastVars, actorVars, Started
  <2>2. PICK l \in {"refused", "job"} : GoTo(j, l) /\ (l = "job" => ~row[target[j]].here /\ row'[target[j]].here)
    <3>1. CASE row[target[j]].here
      BY <1>4, <3>1 DEF CreateWorker
    <3>2. CASE ~row[target[j]].here
      BY <1>4, <1>a, <2>1, <3>2 DEF CreateWorker
    <3>3. QED BY <3>1, <3>2
  <2>3. \A w \in Workers : row[w].here => row'[w].here
    BY <1>4, <1>a DEF CreateWorker
  <2>4. \A a \in Actors : pc'[a] = IF a = j THEN l ELSE pc[a]
    BY <2>2, <1>a DEF GoTo
  <2>5. RowsFollow'
    BY <1>b, <2>1, <2>4 DEF RowsFollow
  <2>6. ASSUME NotDeleted' PROVE NotDeleted
    BY <1>b, <2>4, <2>6 DEF NotDeleted
  <2>7. \A i \in ProvisionJobs : HasWorker(i)' => HasWorker(i) \/ (i = j /\ l = "job")
    BY <1>b, <2>1, <2>4 DEF HasWorker
  <2>8. ASSUME NotDeleted', NEW i \in ProvisionJobs, HasWorker(i)' PROVE row'[target[i]].here
    <3>1. CASE HasWorker(i)
      BY <1>b, <1>c, <2>3, <2>6, <2>8, <3>1 DEF ProvisionsApart
    <3>2. CASE i = j /\ l = "job"
      BY <2>2, <3>2
    <3>3. QED BY <2>7, <2>8, <3>1, <3>2
  <2>9. ASSUME NotDeleted', NEW i \in ProvisionJobs, NEW k \in ProvisionJobs,
               HasWorker(i)', HasWorker(k)', target[i] = target[k]
        PROVE  i = k
    <3>1. CASE HasWorker(i) /\ HasWorker(k)
      BY <2>6, <2>9, <3>1 DEF ProvisionsApart
    <3>2. CASE ~(HasWorker(i) /\ HasWorker(k)) /\ i # k
      <4>a. HasWorker(i) \/ (i = j /\ l = "job")
        BY <2>7, <2>9
      <4>b. HasWorker(k) \/ (k = j /\ l = "job")
        BY <2>7, <2>9
      <4>1. l = "job" /\ ((HasWorker(i) /\ k = j) \/ (HasWorker(k) /\ i = j))
        BY <4>a, <4>b, <3>2
      <4>2. ~row[target[j]].here
        BY <2>2, <4>1
      <4>3. row[target[j]].here
        BY <2>6, <2>9, <4>1 DEF ProvisionsApart
      <4>4. QED BY <4>2, <4>3
    <3>3. QED BY <3>1, <3>2
  <2>10. ProvisionsApart'
    BY <2>1, <2>8, <2>9 DEF ProvisionsApart
  <2>11. QED BY <2>5, <2>10
<1>5. ASSUME NEW j \in Jobs, CreateJob(j) PROVE RowsFollow' /\ ProvisionsApart'
  <2>1. UNCHANGED <<row, target>> /\ pc[j] = "job"
    BY <1>5 DEF CreateJob, actorVars
  <2>2. \A a \in Actors : pc'[a] = IF a = j THEN "begin" ELSE pc[a]
    BY <1>5, <1>a DEF CreateJob, GoTo
  <2>3. \A i \in Jobs : status'[i] = IF i = j THEN "pending" ELSE status[i]
    BY <1>5, <1>a DEF CreateJob
  <2>4. RowsFollow'
    BY <1>b, <2>2, <2>3 DEF RowsFollow
  <2>5. NotDeleted' => NotDeleted
    BY <1>b, <2>2 DEF NotDeleted
  <2>6. \A i \in ProvisionJobs : HasWorker(i)' => HasWorker(i)
    BY <1>b, <2>1, <2>2, <2>3 DEF HasWorker
  <2>7. ProvisionsApart'
    BY <2>1, <2>5, <2>6 DEF ProvisionsApart
  <2>8. QED BY <2>4, <2>7
<1>6. QED BY <1>1, <1>2, <1>3, <1>4, <1>5, StepFrame

LEMMA LifecycleHolds == Spec => [](TypeOK /\ LifecycleInv)
<1>1. TypeOK /\ LifecycleInv /\ [Next]_vars => (TypeOK /\ LifecycleInv)'
  BY StepType, StepStarted, StepNoticed, StepComplete, StepApart DEF LifecycleInv
<1>2. QED BY InitLifecycle, <1>1, PTL DEF Spec

\* Type correctness of requests, job threads and hosts.
THEOREM LifecycleTypeCorrect == Spec => []TypeOK
BY LifecycleHolds, PTL

\* A cancelled job starts at most one more step, and success takes all steps.
THEOREM LifecycleInvariant == Spec => []LifecycleInv
BY LifecycleHolds, PTL

\* Two requests for one worker id never provision it at the same time, before any
\* delete: the INSERT of the workers row decides (store.py
\* create_provisioning_worker), whatever server.py worker_exists said to both.
THEOREM ProvisionedOnce == Spec => []OneProvision
<1>1. TypeOK /\ LifecycleInv => OneProvision
  <2> SUFFICES ASSUME TypeOK, LifecycleInv, NotDeleted, NEW w \in Workers
               PROVE  Cardinality({j \in JobsOf(ProvisionJobs, w) : status[j] \in Active}) <= 1
    BY DEF OneProvision
  <2> DEFINE S == {j \in JobsOf(ProvisionJobs, w) : status[j] \in Active}
  <2>1. ASSUME NEW i \in S, NEW j \in S PROVE i = j
    BY DEF JobsOf, HasWorker, LifecycleInv, ProvisionsApart
  <2>2. S = {} \/ \E j \in S : S = {j}
    BY <2>1
  <2> HIDE DEF S
  <2>3. ASSUME S = {} PROVE Cardinality(S) <= 1
    <3>1. Cardinality({}) = 0
      BY FS_EmptySet
    <3>2. QED BY <2>3, <3>1
  <2>4. ASSUME NEW j \in S, S = {j} PROVE Cardinality(S) <= 1
    <3>1. Cardinality(S) = 1
      BY <2>4, FS_Singleton
    <3>2. QED BY <3>1
  <2>5. Cardinality(S) <= 1
    BY <2>2, <2>3, <2>4
  <2>6. QED BY <2>5 DEF S
<1>2. QED BY <1>1, LifecycleHolds, PTL

---------------------------------------------------------------------------
\* The steps in order: a provision makes its tunnel, if it makes one, before it starts
\* its daemon; an update stops the daemon right after it has looked at ssh, then pulls.
LEMMA Singles ==
  ASSUME NEW T, NEW s \in T, NEW t \in T
  PROVE  /\ Len(<<>>) = 0
         /\ Len(<<s>>) = 1 /\ <<s>>[1] = s
         /\ Len(<<s, t>>) = 2 /\ <<s, t>>[1] = s /\ <<s, t>>[2] = t
OBVIOUS

LEMMA ProvisionOrder ==
  \E m \in Nat, n \in Nat :
    /\ m >= 2 /\ n = (IF Tunnel THEN m + 1 ELSE m)
    /\ DOMAIN ProvisionSteps = 1..(n + 2)
    /\ \A i \in 1..m : ProvisionSteps[i] \in {"validate_ssh", "bootstrap", "verify_layout"}
    /\ Tunnel => ProvisionSteps[m + 1] = "establish_tunnel"
    /\ ProvisionSteps[n + 1] = "start_daemon" /\ ProvisionSteps[n + 2] = "wait_register"
<1> DEFINE Look == {"validate_ssh", "bootstrap", "verify_layout"}
           Put  == {"establish_tunnel"}
           All  == Look \cup Put \cup {"start_daemon", "wait_register"}
           fresh == IF Fresh THEN <<"bootstrap">> ELSE <<>>
           tunnel == IF Tunnel THEN <<"establish_tunnel">> ELSE <<>>
           begin == (<<"validate_ssh">> \o fresh) \o <<"verify_layout">>
           up    == begin \o tunnel
<1>1. ProvisionSteps = up \o <<"start_daemon", "wait_register">>
  BY DEF ProvisionSteps
<1>2. /\ "validate_ssh" \in Look /\ "bootstrap" \in Look /\ "verify_layout" \in Look
      /\ "establish_tunnel" \in All /\ "start_daemon" \in All /\ "wait_register" \in All
      /\ Look \subseteq All
  OBVIOUS
<1> HIDE DEF Look, All
<1>3. <<"validate_ssh">> \in Seq(Look) /\ <<"verify_layout">> \in Seq(Look) /\ fresh \in Seq(Look)
  BY <1>2, OneOrTwo
<1>4. tunnel \in Seq(All) /\ Len(tunnel) = (IF Tunnel THEN 1 ELSE 0) /\ (Tunnel => tunnel[1] = "establish_tunnel")
  BY <1>2, OneOrTwo, Singles
<1>5. <<"start_daemon", "wait_register">> \in Seq(All)
  BY <1>2, OneOrTwo
<1> HIDE DEF fresh, tunnel
<1>6. begin \in Seq(Look) /\ Len(begin) \in Nat /\ Len(begin) >= 2
  <2>1. <<"validate_ssh">> \o fresh \in Seq(Look) /\ Len(<<"validate_ssh">> \o fresh) = Len(<<"validate_ssh">>) + Len(fresh)
    BY <1>3, ConcatProperties
  <2>2. Len(<<"validate_ssh">>) = 1 /\ Len(<<"verify_layout">>) = 1 /\ Len(fresh) \in Nat
    BY <1>3, LenProperties
  <2>3. begin \in Seq(Look) /\ Len(begin) = Len(<<"validate_ssh">> \o fresh) + Len(<<"verify_layout">>)
    BY <1>3, <2>1, ConcatProperties
  <2>4. QED BY <2>1, <2>2, <2>3
<1> HIDE DEF begin
<1>7. begin \in Seq(All) /\ \A i \in 1..Len(begin) : begin[i] \in Look
  BY <1>2, <1>6
<1>8. /\ up \in Seq(All) /\ Len(up) = Len(begin) + Len(tunnel)
      /\ \A i \in 1..(Len(begin) + Len(tunnel)) : up[i] = IF i <= Len(begin) THEN begin[i] ELSE tunnel[i - Len(begin)]
  BY <1>4, <1>7, ConcatProperties
<1> HIDE DEF up
<1>9. /\ ProvisionSteps \in Seq(All) /\ Len(ProvisionSteps) = Len(up) + 2
      /\ \A i \in 1..(Len(up) + 2) :
           ProvisionSteps[i] = IF i <= Len(up) THEN up[i] ELSE <<"start_daemon", "wait_register">>[i - Len(up)]
  <2>1. Len(<<"start_daemon", "wait_register">>) = 2
    OBVIOUS
  <2>2. QED BY <1>1, <1>5, <1>8, <2>1, ConcatProperties
<1>10. PICK m \in Nat, n \in Nat : m = Len(begin) /\ n = Len(up)
  BY <1>6, <1>8, LenProperties
<1>11. n = (IF Tunnel THEN m + 1 ELSE m) /\ m >= 2
  BY <1>4, <1>6, <1>8, <1>10
<1>12. DOMAIN ProvisionSteps = 1..(n + 2)
  BY <1>9, <1>10
<1>13. ASSUME NEW i \in 1..m PROVE ProvisionSteps[i] \in Look
  BY <1>7, <1>8, <1>9, <1>10, <1>11
<1>14. Tunnel => ProvisionSteps[m + 1] = "establish_tunnel"
  BY <1>4, <1>8, <1>9, <1>10, <1>11
<1>15. ProvisionSteps[n + 1] = "start_daemon" /\ ProvisionSteps[n + 2] = "wait_register"
  BY <1>9, <1>10
<1>16. QED BY <1>11, <1>12, <1>13, <1>14, <1>15 DEF Look

LEMMA UpdateOrder ==
  \E n \in Nat :
    /\ n >= 2
    /\ DOMAIN UpdateSteps = 1..(n + 2)
    /\ UpdateSteps[1] = "validate_ssh" /\ UpdateSteps[2] = "stop_daemon"
    /\ \A i \in 3..n : UpdateSteps[i] \in Pulls
    /\ UpdateSteps[n + 1] = "restart_daemon" /\ UpdateSteps[n + 2] = "wait_register"
<1> DEFINE All  == Pulls \cup {"validate_ssh", "stop_daemon", "restart_daemon", "wait_register"}
           aeo == IF "aeo" \in Targets THEN <<"pull_aeo", "sync_aeo">> ELSE <<>>
           harbor == IF "harbor" \in Targets THEN <<"pull_harbor">> ELSE <<>>
           first == <<"validate_ssh", "stop_daemon">>
           pulled == first \o aeo
           up == pulled \o harbor
<1>1. UpdateSteps = up \o <<"restart_daemon", "wait_register">>
  BY DEF UpdateSteps
<1>2. /\ "pull_aeo" \in Pulls /\ "sync_aeo" \in Pulls /\ "pull_harbor" \in Pulls /\ Pulls \subseteq All
      /\ "validate_ssh" \in All /\ "stop_daemon" \in All /\ "restart_daemon" \in All /\ "wait_register" \in All
  BY DEF Pulls
<1> HIDE DEF All
<1>3. aeo \in Seq(Pulls) /\ harbor \in Seq(Pulls) /\ first \in Seq(All) /\ <<"restart_daemon", "wait_register">> \in Seq(All)
  BY <1>2, OneOrTwo
<1>4. Len(first) = 2 /\ first[1] = "validate_ssh" /\ first[2] = "stop_daemon"
  OBVIOUS
<1> HIDE DEF aeo, harbor, first
<1>5. /\ aeo \in Seq(All) /\ harbor \in Seq(All) /\ Len(aeo) \in Nat /\ Len(harbor) \in Nat
      /\ \A i \in 1..Len(aeo) : aeo[i] \in Pulls
      /\ \A i \in 1..Len(harbor) : harbor[i] \in Pulls
  <2> HIDE DEF Pulls
  <2>1. ASSUME NEW s \in Seq(Pulls) PROVE s \in Seq(All) /\ Len(s) \in Nat /\ \A i \in 1..Len(s) : s[i] \in Pulls
    BY <1>2
  <2>2. QED BY <1>3, <2>1
<1>6. /\ pulled \in Seq(All) /\ Len(pulled) = 2 + Len(aeo)
      /\ \A i \in 1..(2 + Len(aeo)) : pulled[i] = IF i <= 2 THEN first[i] ELSE aeo[i - 2]
  <2>1. /\ first \o aeo \in Seq(All) /\ Len(first \o aeo) = Len(first) + Len(aeo)
        /\ \A i \in 1..(Len(first) + Len(aeo)) :
             (first \o aeo)[i] = IF i <= Len(first) THEN first[i] ELSE aeo[i - Len(first)]
    BY <1>3, <1>5, ConcatProperties
  <2>2. QED BY <1>4, <2>1
<1> HIDE DEF pulled
<1>7. /\ up \in Seq(All) /\ Len(up) = Len(pulled) + Len(harbor)
      /\ \A i \in 1..(Len(pulled) + Len(harbor)) :
           up[i] = IF i <= Len(pulled) THEN pulled[i] ELSE harbor[i - Len(pulled)]
  BY <1>5, <1>6, ConcatProperties
<1> HIDE DEF up
<1>8. /\ UpdateSteps \in Seq(All) /\ Len(UpdateSteps) = Len(up) + 2
      /\ \A i \in 1..(Len(up) + 2) :
           UpdateSteps[i] = IF i <= Len(up) THEN up[i] ELSE <<"restart_daemon", "wait_register">>[i - Len(up)]
  <2>1. Len(<<"restart_daemon", "wait_register">>) = 2
    OBVIOUS
  <2>2. QED BY <1>1, <1>3, <1>7, <2>1, ConcatProperties
<1>9. PICK n \in Nat : n = Len(up)
  BY <1>7, LenProperties
<1>10. n >= 2 /\ n = 2 + Len(aeo) + Len(harbor)
  BY <1>5, <1>6, <1>7, <1>9
<1>11. DOMAIN UpdateSteps = 1..(n + 2)
  BY <1>8, <1>9
<1>12. UpdateSteps[1] = "validate_ssh" /\ UpdateSteps[2] = "stop_daemon"
  BY <1>4, <1>5, <1>6, <1>7, <1>8, <1>9
<1>13. ASSUME NEW i \in 3..n PROVE UpdateSteps[i] \in Pulls
  <2>1. PICK k \in Nat, l \in Nat : k = Len(aeo) /\ l = Len(harbor)
    BY <1>5
  <2>2. i \in 1..n /\ n = 2 + k + l /\ Len(pulled) = 2 + k /\ UpdateSteps[i] = up[i]
    BY <1>6, <1>8, <1>9, <1>10, <2>1
  <2>3. CASE i <= 2 + k
    <3>1. up[i] = aeo[i - 2] /\ i - 2 \in 1..k
      BY <1>6, <1>7, <2>1, <2>2, <2>3
    <3>2. QED BY <1>5, <2>1, <2>2, <3>1
  <2>4. CASE i > 2 + k
    <3>1. up[i] = harbor[i - (2 + k)] /\ i - (2 + k) \in 1..l
      BY <1>7, <2>1, <2>2, <2>4
    <3>2. QED BY <1>5, <2>1, <2>2, <3>1
  <2>5. QED BY <2>2, <2>3, <2>4
<1>14. UpdateSteps[n + 1] = "restart_daemon" /\ UpdateSteps[n + 2] = "wait_register"
  BY <1>8, <1>9
<1>15. QED BY <1>10, <1>11, <1>12, <1>13, <1>14

\* What a job may be doing, and what it does next.
LEMMA StepIs ==
  ASSUME TypeOK, NEW j \in Jobs
  PROVE  /\ j \in ProvisionJobs =>
              Step(j) \in {"validate_ssh", "bootstrap", "verify_layout", "establish_tunnel", "start_daemon",
                           "wait_register", "over"}
         /\ j \in ProvisionJobs /\ Step(j) = "establish_tunnel" => Tunnel
         /\ j \in UpdateJobs =>
              Step(j) \in {"validate_ssh", "stop_daemon", "restart_daemon", "wait_register", "over"} \cup Pulls
<1>1. at[j] \in Nat
  BY DEF TypeOK
<1>2. CASE j \in ProvisionJobs
  <2>1. PICK m \in Nat, n \in Nat :
          /\ m >= 2 /\ n = (IF Tunnel THEN m + 1 ELSE m)
          /\ DOMAIN ProvisionSteps = 1..(n + 2)
          /\ \A i \in 1..m : ProvisionSteps[i] \in {"validate_ssh", "bootstrap", "verify_layout"}
          /\ Tunnel => ProvisionSteps[m + 1] = "establish_tunnel"
          /\ ProvisionSteps[n + 1] = "start_daemon" /\ ProvisionSteps[n + 2] = "wait_register"
    BY ProvisionOrder
  <2>2. Step(j) = IF at[j] \in 1..(n + 2) THEN ProvisionSteps[at[j]] ELSE "over"
    BY <1>2, <2>1 DEF Step, Steps
  <2>3. j \notin UpdateJobs
    BY <1>2, LifecycleAssumption
  <2>4. at[j] \in 1..(n + 2) => \/ at[j] \in 1..m
                                \/ at[j] = m + 1 /\ Tunnel
                                \/ at[j] = n + 1 \/ at[j] = n + 2
    BY <1>1, <2>1
  <2>5. QED BY <2>1, <2>2, <2>3, <2>4
<1>3. CASE j \in UpdateJobs
  <2>1. PICK n \in Nat :
          /\ n >= 2
          /\ DOMAIN UpdateSteps = 1..(n + 2)
          /\ UpdateSteps[1] = "validate_ssh" /\ UpdateSteps[2] = "stop_daemon"
          /\ \A i \in 3..n : UpdateSteps[i] \in Pulls
          /\ UpdateSteps[n + 1] = "restart_daemon" /\ UpdateSteps[n + 2] = "wait_register"
    BY UpdateOrder
  <2>2. j \notin ProvisionJobs
    BY <1>3, LifecycleAssumption
  <2>3. Step(j) = IF at[j] \in 1..(n + 2) THEN UpdateSteps[at[j]] ELSE "over"
    BY <2>1, <2>2 DEF Step, Steps
  <2>4. at[j] \in 1..(n + 2) => at[j] = 1 \/ at[j] = 2 \/ at[j] \in 3..n \/ at[j] = n + 1 \/ at[j] = n + 2
    BY <1>1, <2>1
  <2>5. QED BY <2>1, <2>2, <2>3, <2>4
<1>4. QED BY <1>2, <1>3 DEF Jobs

LEMMA StepAfter ==
  ASSUME TypeOK, NEW j \in Jobs, Advance(j)
  PROVE  /\ j \in ProvisionJobs => /\ Step(j) = "establish_tunnel" => Step(j)' = "start_daemon"
                                   /\ Step(j) = "start_daemon" => Step(j)' = "wait_register"
                                   /\ Step(j) = "wait_register" => Step(j)' = "over"
         /\ j \in UpdateJobs => /\ Step(j) = "validate_ssh" => Step(j)' = "stop_daemon"
                                /\ Step(j) = "restart_daemon" => Step(j)' = "wait_register"
                                /\ Step(j) = "wait_register" => Step(j)' = "over"
<1>1. at[j] \in Nat /\ at'[j] = at[j] + 1
  BY DEF TypeOK, Advance
<1>2. CASE j \in ProvisionJobs
  <2>1. PICK m \in Nat, n \in Nat :
          /\ m >= 2 /\ n = (IF Tunnel THEN m + 1 ELSE m)
          /\ DOMAIN ProvisionSteps = 1..(n + 2)
          /\ \A i \in 1..m : ProvisionSteps[i] \in {"validate_ssh", "bootstrap", "verify_layout"}
          /\ Tunnel => ProvisionSteps[m + 1] = "establish_tunnel"
          /\ ProvisionSteps[n + 1] = "start_daemon" /\ ProvisionSteps[n + 2] = "wait_register"
    BY ProvisionOrder
  <2>2. /\ Step(j) = IF at[j] \in 1..(n + 2) THEN ProvisionSteps[at[j]] ELSE "over"
        /\ Step(j)' = IF at'[j] \in 1..(n + 2) THEN ProvisionSteps[at'[j]] ELSE "over"
    BY <1>2, <2>1 DEF Step, Steps
  <2>3. j \notin UpdateJobs
    BY <1>2, LifecycleAssumption
  <2>4. at[j] \in 1..(n + 2) => \/ at[j] \in 1..m
                                \/ at[j] = m + 1 /\ Tunnel
                                \/ at[j] = n + 1 \/ at[j] = n + 2
    BY <1>1, <2>1
  <2>5. at[j] \in 1..m => Step(j) \in {"validate_ssh", "bootstrap", "verify_layout"}
    BY <2>1, <2>2
  <2>6. at[j] = m + 1 /\ Tunnel => Step(j) = "establish_tunnel" /\ Step(j)' = "start_daemon"
    BY <1>1, <2>1, <2>2
  <2>7. at[j] = n + 1 => Step(j) = "start_daemon" /\ Step(j)' = "wait_register"
    BY <1>1, <2>1, <2>2
  <2>8. at[j] = n + 2 => Step(j) = "wait_register" /\ Step(j)' = "over"
    BY <1>1, <2>1, <2>2
  <2>9. at[j] \notin 1..(n + 2) => Step(j) = "over"
    BY <2>2
  <2>10. QED BY <2>3, <2>4, <2>5, <2>6, <2>7, <2>8, <2>9
<1>3. CASE j \in UpdateJobs
  <2>1. PICK n \in Nat :
          /\ n >= 2
          /\ DOMAIN UpdateSteps = 1..(n + 2)
          /\ UpdateSteps[1] = "validate_ssh" /\ UpdateSteps[2] = "stop_daemon"
          /\ \A i \in 3..n : UpdateSteps[i] \in Pulls
          /\ UpdateSteps[n + 1] = "restart_daemon" /\ UpdateSteps[n + 2] = "wait_register"
    BY UpdateOrder
  <2>2. j \notin ProvisionJobs
    BY <1>3, LifecycleAssumption
  <2>3. /\ Step(j) = IF at[j] \in 1..(n + 2) THEN UpdateSteps[at[j]] ELSE "over"
        /\ Step(j)' = IF at'[j] \in 1..(n + 2) THEN UpdateSteps[at'[j]] ELSE "over"
    BY <2>1, <2>2 DEF Step, Steps
  <2>4. at[j] \in 1..(n + 2) => at[j] = 1 \/ at[j] = 2 \/ at[j] \in 3..n \/ at[j] = n + 1 \/ at[j] = n + 2
    BY <1>1, <2>1
  <2>5. at[j] = 1 => Step(j) = "validate_ssh" /\ Step(j)' = "stop_daemon"
    BY <1>1, <2>1, <2>3
  <2>6. at[j] = 2 => Step(j) = "stop_daemon"
    BY <1>1, <2>1, <2>3
  <2>7. at[j] \in 3..n => Step(j) \in {"pull_aeo", "sync_aeo", "pull_harbor"}
    BY <1>1, <2>1, <2>3 DEF Pulls
  <2>8. at[j] = n + 1 => Step(j) = "restart_daemon" /\ Step(j)' = "wait_register"
    BY <1>1, <2>1, <2>3
  <2>9. at[j] = n + 2 => Step(j) = "wait_register" /\ Step(j)' = "over"
    BY <1>1, <2>1, <2>3
  <2>10. at[j] \notin 1..(n + 2) => Step(j) = "over"
    BY <2>3
  <2>11. QED BY <2>2, <2>4, <2>5, <2>6, <2>7, <2>8, <2>9, <2>10
<1>4. QED BY <1>2, <1>3 DEF Jobs

LEMMA FirstStep ==
  ASSUME NEW j \in Jobs, at[j] = 1
  PROVE  Step(j) = "validate_ssh" \/ j \in ProvisionJobs
<1>1. CASE j \in UpdateJobs /\ j \notin ProvisionJobs
  BY <1>1, UpdateOrder DEF Step, Steps
<1>2. QED BY <1>1 DEF Jobs

\* A worker that is reached by ssh.
HasSsh(w) == row[w].here /\ row[w].alias

\* A step of a thread is of one at work, and moves nobody else.
Others(a) ==
  /\ \A b \in Actors \ {a} : pc'[b] = pc[b] /\ ret'[b] = ret[b] /\ alias'[b] = alias[b] /\ target'[b] = target[b]
  /\ \A j \in Jobs \ {a} : at'[j] = at[j]

LEMMA ThreadMoves ==
  ASSUME TypeOK, NEW j \in Jobs, Thread(j) \/ RemoteFails(j)
  PROVE  Busy(j) /\ Others(j) /\ UNCHANGED <<target, alias, crowded, warned>> /\ pc'[j] # "idle"
<1>a. j \in Actors /\ pc \in [Actors -> Label] /\ ret \in [Actors -> Return] /\ at \in [Jobs -> Nat]
  BY ActorKinds DEF TypeOK
<1> USE DEF Busy, Others, GoTo, jobVars, pastVars, actorVars
<1>b. Raised(j) \in {"fail", "record"}
  BY DEF Raised
<1>1. CASE CreateWorker(j) \/ CreateJob(j)
  BY <1>1, <1>a DEF CreateWorker, CreateJob
<1>2. CASE Begin(j) \/ Test(j) \/ Start(j)
  BY <1>2, <1>a, <1>b DEF Begin, Test, Start
<1>3. CASE RunRemote(j) \/ StepDone(j)
  BY <1>3, <1>a DEF RunRemote, StepDone, Advance
<1>4. CASE StartDaemon(j) \/ SeesRegistered(j)
  BY <1>4, <1>a DEF StartDaemon, SeesRegistered, Advance
<1>5. CASE StopDaemon(j)
  BY <1>5, <1>a DEF StopDaemon, Decommission
<1>6. CASE SpawnTunnel(j) \/ WaitRaises(j)
  BY <1>6, <1>a, <1>b DEF SpawnTunnel, WaitRaises
<1>7. CASE Ready(j) \/ Succeed(j) \/ Fail(j)
  BY <1>7, <1>a DEF Ready, Succeed, Fail
<1>8. CASE Record(j) \/ RemoteFails(j)
  BY <1>8, <1>a, <1>b DEF Record, RemoteFails
<1>9. QED BY <1>1, <1>2, <1>3, <1>4, <1>5, <1>6, <1>7, <1>8 DEF Thread

LEMMA CallMoves ==
  ASSUME TypeOK, NEW a \in Actors, Call(a)
  PROVE  /\ Busy(a) /\ Others(a) /\ pc'[a] # "idle" /\ UNCHANGED <<row, at, crowded, actorVars>>
         /\ warned \subseteq warned'
<1>a. pc \in [Actors -> Label] /\ ret[a] \in {"end", "stepdone", "daemon", "write", "delete"}
  BY DEF TypeOK, Return
<1> USE DEF Busy, Others, GoTo, jobVars, pastVars, actorVars
<1>1. CASE FindPid(a) \/ Load(a)
  BY <1>1, <1>a DEF FindPid, Load
<1>2. CASE SaveRecord(a) \/ Pkill(a)
  BY <1>2, <1>a DEF SaveRecord, Pkill
<1>3. CASE RemoveRecord(a) \/ KillTunnel(a)
  BY <1>3, <1>a DEF RemoveRecord, KillTunnel
<1>4. QED BY <1>1, <1>2, <1>3 DEF Call

LEMMA HandlerMoves ==
  ASSUME TypeOK, NEW h \in Handlers, Handler(h) \/ (h \in Deletes /\ Deletion(h))
  PROVE  /\ Busy(h) /\ Others(h) /\ pc'[h] # "idle"
         /\ UNCHANGED <<at, target, alias, live, stopping, crowded, warned>>
<1>a. h \in Actors /\ h \notin Jobs /\ pc \in [Actors -> Label] /\ ret \in [Actors -> Return]
  BY ActorKinds, LifecycleAssumption DEF TypeOK
<1> USE DEF Busy, Others, GoTo, jobVars, pastVars, actorVars, hostVars
<1>1. CASE Handler(h)
  BY <1>1, <1>a DEF Handler, AddCancelled, Decommission, WriteCancelled, NoteCancelled
<1>2. CASE Deletion(h)
  BY <1>2, <1>a DEF Deletion, FindProvision, Clean, Decommission, DeleteWorker
<1>3. QED BY <1>1, <1>2

LEMMA HostMoves ==
  ASSUME TypeOK, NEW w \in Workers, Host(w)
  PROVE  UNCHANGED <<pc, actorVars, jobVars, live, tunnelVars, faults>>
<1>1. CASE RegisterWorker(w) \/ Assign(w) \/ ClaimBatch(w)
  BY <1>1 DEF RegisterWorker, Assign, ClaimBatch
<1>2. CASE EndBatch(w) \/ Exit(w) \/ GoStale(w)
  BY <1>2 DEF EndBatch, Exit, GoStale, hostVars
<1>3. QED BY <1>1, <1>2 DEF Host

\* Where the thread of a job is when it calls for a tunnel, and when it is back.
Putting == {"find", "putload", "putsave"}
Popping == {"popload", "popsave", "signal"}

Placed(j) ==
  /\ pc[j] \in {"idle", "create", "job", "begin"} => at[j] = 1
  /\ j \in ProvisionJobs =>
       /\ pc[j] \in Putting \cup {"stepdone"} => Step(j) = "establish_tunnel"
       /\ pc[j] \in Putting => ret[j] = "stepdone"
       /\ pc[j] \in Popping => ret[j] = "end"
       /\ pc[j] \notin {"pkill", "daemon"}
  /\ j \in UpdateJobs =>
       /\ alias[j]
       /\ pc[j] \in Popping \cup {"pkill", "stepdone"} => Step(j) = "stop_daemon"
       /\ pc[j] \in Popping \cup {"pkill"} => ret[j] = "stepdone"
       /\ pc[j] \in Putting \cup {"daemon"} => Step(j) = "restart_daemon"
       /\ pc[j] \in Putting => ret[j] = "daemon"

PlacedInv == /\ \A j \in Jobs : Placed(j)
             /\ \A h \in Handlers : pc[h] \notin Putting

LEMMA PlacedOthers ==
  ASSUME PlacedInv, NEW a \in Actors, Others(a),
         a \in Jobs => Placed(a)', a \in Handlers => pc'[a] \notin Putting
  PROVE  PlacedInv'
<1>1. ASSUME NEW j \in Jobs, j # a PROVE Placed(j)'
  <2>1. pc'[j] = pc[j] /\ ret'[j] = ret[j] /\ alias'[j] = alias[j] /\ at'[j] = at[j]
    BY <1>1, ActorKinds DEF Others
  <2>2. Step(j)' = Step(j)
    BY <2>1 DEF Step, Steps
  <2>3. QED BY <2>1, <2>2 DEF PlacedInv, Placed
<1>2. ASSUME NEW h \in Handlers, h # a PROVE pc'[h] \notin Putting
  BY <1>2, ActorKinds DEF Others, PlacedInv
<1>3. QED BY <1>1, <1>2 DEF PlacedInv

LEMMA ThreadPlaced ==
  ASSUME TypeOK, PlacedInv, NEW j \in Jobs, Thread(j) \/ RemoteFails(j)
  PROVE  Placed(j)'
<1>a. /\ j \in Actors /\ pc \in [Actors -> Label] /\ ret \in [Actors -> Return] /\ at \in [Jobs -> Nat]
      /\ Placed(j) /\ ProvisionJobs \cap UpdateJobs = {}
  BY ActorKinds, LifecycleAssumption DEF TypeOK, PlacedInv
<1>b. at' = at => Step(j)' = Step(j)
  BY DEF Step, Steps
<1> USE DEF GoTo, jobVars, pastVars, actorVars, Putting, Popping
<1>1. CASE CreateWorker(j) \/ CreateJob(j)
  <2>1. at' = at /\ alias' = alias /\ pc'[j] \in {"refused", "job", "begin"} /\ pc[j] \in {"create", "job"}
    BY <1>1, <1>a DEF CreateWorker, CreateJob
  <2>2. QED BY <1>a, <2>1 DEF Placed
<1>2. CASE Begin(j) \/ Test(j) \/ Start(j) \/ RemoteFails(j) \/ WaitRaises(j) \/ Ready(j) \/ Succeed(j) \/ Fail(j)
  <2>1. alias' = alias /\ pc'[j] \in {"lost", "test", "fail", "record", "start", "run", "succeed", "end"}
    BY <1>2, <1>a DEF Begin, Test, Start, RemoteFails, WaitRaises, Ready, Succeed, Fail, Raised
  <2>2. QED BY <1>a, <2>1 DEF Placed
<1>3. CASE RunRemote(j) \/ StepDone(j) \/ StartDaemon(j) \/ SeesRegistered(j)
  <2>1. alias' = alias /\ pc'[j] \in {"test", "ready", "succeed"}
    BY <1>3, <1>a DEF RunRemote, StepDone, StartDaemon, SeesRegistered, Advance
  <2>2. QED BY <1>a, <2>1 DEF Placed
<1>4. CASE StopDaemon(j)
  <2>1. /\ at' = at /\ alias' = alias /\ ret'[j] = "stepdone" /\ Step(j) = "stop_daemon"
        /\ (alias[j] => pc'[j] \in {"popload", "pkill"})
    BY <1>4, <1>a DEF StopDaemon, Decommission
  <2>2. j \in UpdateJobs /\ j \notin ProvisionJobs
    BY <1>a, <2>1, StepIs DEF Jobs
  <2>3. QED BY <1>a, <1>b, <2>1, <2>2 DEF Placed
<1>5. CASE SpawnTunnel(j)
  <2>1. /\ at' = at /\ alias' = alias /\ pc'[j] = "find"
        /\ \/ Step(j) = "establish_tunnel" /\ ret'[j] = "stepdone"
           \/ Step(j) = "restart_daemon" /\ ret'[j] = "daemon"
    BY <1>5, <1>a DEF SpawnTunnel
  <2>2. \/ j \in ProvisionJobs /\ j \notin UpdateJobs /\ Step(j) = "establish_tunnel"
        \/ j \in UpdateJobs /\ j \notin ProvisionJobs /\ Step(j) = "restart_daemon"
    BY <1>a, <2>1, StepIs DEF Jobs, Pulls
  <2>3. QED BY <1>a, <1>b, <2>1, <2>2 DEF Placed
<1>6. CASE Record(j)
  <2>1. alias' = alias /\ ret'[j] = "end" /\ pc'[j] \in {"popload", "end"} /\ (pc'[j] = "popload" => j \in ProvisionJobs)
    BY <1>6, <1>a DEF Record
  <2>2. QED BY <1>a, <2>1 DEF Placed
<1>7. QED BY <1>1, <1>2, <1>3, <1>4, <1>5, <1>6 DEF Thread

LEMMA CallPlaced ==
  ASSUME TypeOK, PlacedInv, NEW a \in Actors, Call(a)
  PROVE  (a \in Jobs => Placed(a)') /\ (a \in Handlers => pc'[a] \notin Putting)
<1>1. UNCHANGED <<at, ret, alias>>
  BY CallMoves DEF actorVars
<1>2. at' = at => Step(a)' = Step(a)
  BY DEF Step, Steps
<1>3. a \in Handlers => pc[a] \notin Putting /\ a \notin Jobs
  BY LifecycleAssumption DEF PlacedInv
<1>4. a \in Jobs => Placed(a)
  BY DEF PlacedInv
<1>5. pc \in [Actors -> Label] /\ ret[a] \in {"end", "stepdone", "daemon", "write", "delete"}
  BY DEF TypeOK, Return
<1>6. \/ pc[a] \in {"find", "putload"} /\ pc'[a] \in Putting
      \/ pc[a] = "popload" /\ pc'[a] = "popsave"
      \/ pc[a] \in {"putsave", "pkill"} /\ pc'[a] = ret[a]
      \/ pc[a] = "popsave" /\ pc'[a] = "signal"
      \/ pc[a] = "signal" /\ pc'[a] = (IF ret[a] = "end" THEN "end" ELSE "pkill")
  BY <1>5 DEF Call, FindPid, Load, SaveRecord, RemoveRecord, KillTunnel, Pkill, GoTo, Putting
<1>7. a \in Handlers => pc'[a] \notin Putting
  BY <1>3, <1>5, <1>6 DEF Putting
<1>8. ASSUME a \in Jobs PROVE Placed(a)'
  <2>1. CASE a \in ProvisionJobs /\ a \notin UpdateJobs
    BY <1>1, <1>2, <1>4, <1>5, <1>6, <1>8, <2>1 DEF Placed, Putting, Popping
  <2>2. CASE a \in UpdateJobs /\ a \notin ProvisionJobs
    BY <1>1, <1>2, <1>4, <1>5, <1>6, <1>8, <2>2 DEF Placed, Putting, Popping
  <2>3. QED BY <1>8, <2>1, <2>2, LifecycleAssumption DEF Jobs
<1>9. QED BY <1>7, <1>8

\* A request is made by one who was idle.
LEMMA RequestMoves ==
  ASSUME TypeOK
  PROVE  /\ \A j \in ProvisionJobs, w \in Workers : RequestProvision(j, w) =>
               /\ Others(j) /\ Room /\ pc[j] = "idle" /\ pc'[j] = "create" /\ target'[j] = w
               /\ UNCHANGED <<row, hostVars, at, crowded, warned, alias, ret, tunnelVars>>
         /\ \A j \in UpdateJobs, w \in Workers : RequestUpdate(j, w) =>
               /\ Others(j) /\ Room /\ pc[j] = "idle" /\ pc'[j] = "job" /\ target'[j] = w
               /\ UNCHANGED <<row, hostVars, at, warned, alias, ret, tunnelVars>>
         /\ \A c \in Cancels, j \in Jobs : RequestCancel(c, j) =>
               /\ Others(c) /\ Room /\ pc[c] = "idle" /\ pc'[c] = "add" /\ target'[c] = target[j]
               /\ UNCHANGED <<row, hostVars, at, crowded, warned, ret, tunnelVars>>
         /\ \A d \in Deletes, w \in Workers : RequestDelete(d, w) =>
               /\ Others(d) /\ Room /\ pc[d] = "idle" /\ pc'[d] \in {"add", "provision"} /\ target'[d] = w
               /\ alias'[d] = HasSsh(w)
               /\ UNCHANGED <<row, hostVars, at, crowded, warned, ret, tunnelVars>>
<1>a. /\ pc \in [Actors -> Label] /\ ret \in [Actors -> Return] /\ alias \in [Actors -> BOOLEAN]
      /\ target \in [Actors -> Workers \cup {None}] /\ at \in [Jobs -> Nat] /\ row \in [Workers -> Row]
  BY DEF TypeOK
<1> USE DEF Others, GoTo, jobVars, pastVars, actorVars
<1>1. ASSUME NEW j \in ProvisionJobs, NEW w \in Workers, RequestProvision(j, w)
      PROVE  /\ Others(j) /\ Room /\ pc[j] = "idle" /\ pc'[j] = "create" /\ target'[j] = w
             /\ UNCHANGED <<row, hostVars, at, crowded, warned, alias, ret, tunnelVars>>
  BY <1>1, <1>a, ActorKinds DEF RequestProvision
<1>2. ASSUME NEW j \in UpdateJobs, NEW w \in Workers, RequestUpdate(j, w)
      PROVE  /\ Others(j) /\ Room /\ pc[j] = "idle" /\ pc'[j] = "job" /\ target'[j] = w
             /\ UNCHANGED <<row, hostVars, at, warned, alias, ret, tunnelVars>>
  BY <1>2, <1>a, ActorKinds DEF RequestUpdate
<1>3. ASSUME NEW c \in Cancels, NEW j \in Jobs, RequestCancel(c, j)
      PROVE  /\ Others(c) /\ Room /\ pc[c] = "idle" /\ pc'[c] = "add" /\ target'[c] = target[j]
             /\ UNCHANGED <<row, hostVars, at, crowded, warned, ret, tunnelVars>>
  BY <1>3, <1>a, ActorKinds DEF RequestCancel, ReadWorker
<1>4. ASSUME NEW d \in Deletes, NEW w \in Workers, RequestDelete(d, w)
      PROVE  /\ Others(d) /\ Room /\ pc[d] = "idle" /\ pc'[d] \in {"add", "provision"} /\ target'[d] = w
             /\ alias'[d] = HasSsh(w)
             /\ UNCHANGED <<row, hostVars, at, crowded, warned, ret, tunnelVars>>
  <2>1. d \in Actors
    BY ActorKinds
  <2>2. Others(d) /\ Room /\ pc[d] = "idle" /\ target'[d] = w /\ UNCHANGED <<row, hostVars, at, crowded, warned, ret, tunnelVars>>
    BY <1>4, <1>a, <2>1 DEF RequestDelete, ReadWorker
  <2>3. pc'[d] \in {"add", "provision"}
    BY <1>4, <1>a, <2>1 DEF RequestDelete
  <2>4. alias'[d] = HasSsh(w)
    BY <1>4, <1>a, <2>1 DEF RequestDelete, ReadWorker, HasSsh
  <2>5. QED BY <2>2, <2>3, <2>4
<1> HIDE DEF Others, GoTo, jobVars, pastVars, actorVars
<1>5. QED BY <1>1, <1>2, <1>3, <1>4

LEMMA RestartMoves ==
  ASSUME TypeOK, Restart
  PROVE  /\ \A a \in Actors : pc'[a] \in {pc[a], "lost"} /\ (pc'[a] = pc[a] <=> ~Busy(a))
         /\ UNCHANGED <<row, hostVars, jobVars, actorVars, tunnelVars>>
<1>1. pc' = [a \in Actors |-> IF pc[a] \in {"idle", "refused", "end"} THEN pc[a] ELSE "lost"]
  BY DEF Restart
<1>2. UNCHANGED <<row, hostVars, jobVars, actorVars, tunnelVars>>
  BY DEF Restart
<1>3. QED BY <1>1, <1>2 DEF Busy

\* Who has begun keeps its worker, and who is lost stays so.
LEMMA Onward ==
  ASSUME TypeOK, [Next]_vars, NEW a \in Actors, pc[a] # "idle"
  PROVE  pc'[a] # "idle" /\ target'[a] = target[a] /\ (pc[a] = "lost" => pc'[a] = "lost")
<1> DEFINE P == pc'[a] # "idle" /\ target'[a] = target[a] /\ (pc[a] = "lost" => pc'[a] = "lost")
<1>1. ASSUME NEW b \in Actors, Others(b), pc[b] = "idle" \/ (Busy(b) /\ pc'[b] # "idle" /\ target' = target) PROVE P
  BY <1>1 DEF Others, Busy
<1>2. (\E j \in Jobs : Thread(j) \/ RemoteFails(j)) => P
  BY <1>1, ThreadMoves, ActorKinds
<1>3. (\E b \in Actors : Call(b)) => P
  BY <1>1, CallMoves DEF actorVars
<1>4. (\E h \in Handlers : Handler(h) \/ (h \in Deletes /\ Deletion(h))) => P
  BY <1>1, HandlerMoves, ActorKinds
<1>5. (\E w \in Workers : Host(w)) \/ UNCHANGED vars => P
  BY HostMoves DEF vars, actorVars
<1>6. Restart => P
  BY RestartMoves DEF actorVars
<1>7. (\E j \in ProvisionJobs, w \in Workers : RequestProvision(j, w)) => P
  BY <1>1, RequestMoves, ActorKinds
<1>8. (\E j \in UpdateJobs, w \in Workers : RequestUpdate(j, w)) => P
  BY <1>1, RequestMoves, ActorKinds
<1>9. (\E c \in Cancels, j \in Jobs : RequestCancel(c, j)) => P
  BY <1>1, RequestMoves, ActorKinds
<1>10. (\E d \in Deletes, w \in Workers : RequestDelete(d, w)) => P
  BY <1>1, RequestMoves, ActorKinds
<1> HIDE DEF P
<1>11. P
  BY <1>2, <1>3, <1>4, <1>5, <1>6, <1>7, <1>8, <1>9, <1>10, ActorKinds DEF Next
<1>12. QED BY <1>11 DEF P

LEMMA InitPlaced == Init => PlacedInv
BY ActorKinds DEF Init, PlacedInv, Placed, Putting, Popping

LEMMA PlacedStep ==
  ASSUME TypeOK, PlacedInv, [Next]_vars
  PROVE  PlacedInv'
<1>1. ASSUME NEW j \in ProvisionJobs, NEW w \in Workers, RequestProvision(j, w) PROVE PlacedInv'
  <2>1. Others(j) /\ pc[j] = "idle" /\ pc'[j] = "create" /\ UNCHANGED <<at, alias>>
    BY <1>1, RequestMoves
  <2>2. Placed(j)'
    BY <2>1, ActorKinds, LifecycleAssumption DEF PlacedInv, Placed, Putting, Popping
  <2>3. QED BY <2>1, <2>2, PlacedOthers, ActorKinds, LifecycleAssumption
<1>2. ASSUME NEW j \in UpdateJobs, NEW w \in Workers, RequestUpdate(j, w) PROVE PlacedInv'
  <2>1. Others(j) /\ pc[j] = "idle" /\ pc'[j] = "job" /\ UNCHANGED <<at, alias>>
    BY <1>2, RequestMoves
  <2>2. Placed(j)'
    BY <2>1, ActorKinds, LifecycleAssumption DEF PlacedInv, Placed, Putting, Popping
  <2>3. QED BY <2>1, <2>2, PlacedOthers, ActorKinds, LifecycleAssumption
<1>3. ASSUME NEW c \in Cancels, NEW j \in Jobs, RequestCancel(c, j) PROVE PlacedInv'
  <2>1. Others(c) /\ pc'[c] = "add"
    BY <1>3, RequestMoves
  <2>2. QED BY <2>1, PlacedOthers, ActorKinds, LifecycleAssumption DEF Putting
<1>4. ASSUME NEW d \in Deletes, NEW w \in Workers, RequestDelete(d, w) PROVE PlacedInv'
  <2>1. Others(d) /\ pc'[d] \in {"add", "provision"}
    BY <1>4, RequestMoves
  <2>2. QED BY <2>1, PlacedOthers, ActorKinds, LifecycleAssumption DEF Putting
<1>5. ASSUME NEW j \in Jobs, Thread(j) \/ RemoteFails(j) PROVE PlacedInv'
  BY <1>5, ThreadMoves, ThreadPlaced, PlacedOthers, ActorKinds, LifecycleAssumption
<1>6. ASSUME NEW a \in Actors, Call(a) PROVE PlacedInv'
  BY <1>6, CallMoves, CallPlaced, PlacedOthers
<1>7. ASSUME NEW h \in Handlers, Handler(h) \/ (h \in Deletes /\ Deletion(h)) PROVE PlacedInv'
  <2>1. h \in Actors /\ h \notin Jobs /\ Others(h)
    BY <1>7, HandlerMoves, ActorKinds, LifecycleAssumption
  <2>2. ret[h] \in Return /\ pc \in [Actors -> Label]
    BY <2>1 DEF TypeOK
  <2>3. CASE Handler(h)
    <3>1. pc'[h] \notin Putting
      BY <2>1, <2>2, <2>3 DEF Handler, AddCancelled, Decommission, WriteCancelled, NoteCancelled, GoTo, Putting
    <3>2. QED BY <2>1, <3>1, PlacedOthers
  <2>4. CASE Deletion(h)
    <3>1. pc'[h] \notin Putting
      BY <2>1, <2>2, <2>4 DEF Deletion, FindProvision, Clean, Decommission, DeleteWorker, GoTo, Putting
    <3>2. QED BY <2>1, <3>1, PlacedOthers
  <2>5. QED BY <1>7, <2>3, <2>4
<1>8. ASSUME UNCHANGED <<pc, ret, alias, at>> PROVE PlacedInv'
  <2>1. \A j \in Jobs : Step(j)' = Step(j)
    BY <1>8 DEF Step, Steps
  <2>2. QED BY <1>8, <2>1 DEF PlacedInv, Placed
<1>9. ASSUME NEW w \in Workers, Host(w) PROVE PlacedInv'
  BY <1>8, <1>9, HostMoves DEF actorVars, jobVars, pastVars
<1>10. ASSUME Restart PROVE PlacedInv'
  <2>1. UNCHANGED <<ret, alias, at>> /\ \A a \in Actors : pc'[a] \in {pc[a], "lost"}
    BY <1>10, RestartMoves DEF actorVars, jobVars, pastVars
  <2>2. \A j \in Jobs : Step(j)' = Step(j)
    BY <2>1 DEF Step, Steps
  <2>3. QED BY <2>1, <2>2, ActorKinds DEF PlacedInv, Placed, Putting, Popping
<1>11. UNCHANGED vars => PlacedInv'
  BY <1>8 DEF vars, actorVars, jobVars, pastVars
<1>12. QED
  BY <1>1, <1>2, <1>3, <1>4, <1>5, <1>6, <1>7, <1>9, <1>10, <1>11, ActorKinds DEF Next

\* What is known of tunnels while requests come one after the other.  Who is at work is
\* alone; a provision finds no tunnel before it makes one, a delete has killed it before
\* the row goes; in between the file is one process behind or ahead.
NoTunnel(w) == \A p \in procs : spawned[p] # w
Unspawned   == {"validate_ssh", "bootstrap", "verify_layout", "establish_tunnel"}

\* A record being made, and one being removed.
Making(a) ==
  /\ pc[a] \in Putting => /\ Len(spawned) \in procs /\ spawned[Len(spawned)] = target[a]
                          /\ \A p \in procs \ {Len(spawned)} : file[spawned[p]] = p /\ spawned[p] # target[a]
  /\ pc[a] \in {"putload", "putsave"} => pid[a] = Len(spawned)
  /\ pc[a] \in {"putsave", "popsave"} => copy[a] = file
  /\ pc[a] = "signal" => \A p \in procs \ {pid[a]} : file[spawned[p]] = p /\ spawned[p] # target[a]

Holding(a) ==
  /\ a \in Jobs => IF pc[a] = "create" THEN NoTunnel(target[a]) ELSE HasSsh(target[a])
  /\ a \in ProvisionJobs /\ (pc[a] \in {"job", "begin"} \/ (pc[a] \in {"test", "start", "run"} /\ Step(a) \in Unspawned))
       => NoTunnel(target[a])
  /\ a \in Deletes => alias[a] = HasSsh(target[a])
  /\ pc[a] \in {"pkill", "delete"} => NoTunnel(target[a])
  /\ Making(a)

ProcsOK == /\ procs \subseteq DOMAIN spawned
           /\ ~Tunnel => procs = {}
           /\ \A p \in procs : spawned[p] \in Workers /\ HasSsh(spawned[p])

AllRecorded == \A p \in procs : file[spawned[p]] = p

TunnelOK ==
  /\ \A a, b \in Actors : Busy(a) /\ Busy(b) => a = b
  /\ \A a \in Actors : Busy(a) => Holding(a)
  /\ ProcsOK
  /\ (\A a \in Actors : pc[a] \notin Putting \cup {"signal"}) => AllRecorded

NoneLost  == \A a \in Actors : pc[a] # "lost"
TunnelInv == NoneLost => TunnelOK

LEMMA RoomIs ==
  ASSUME MaxBusy = 1, Room, NEW a \in Actors
  PROVE  ~Busy(a)
<1> DEFINE S == {b \in Actors : Busy(b)}
<1>1. IsFiniteSet(Actors)
  BY LifecycleAssumption, FS_Union DEF Actors
<1>2. IsFiniteSet(S)
  BY <1>1, FS_Subset
<1>3. Cardinality(S) < 1
  BY DEF Room
<1>4. Cardinality(S) \in Nat /\ (Cardinality(S) = 0 <=> S = {})
  BY <1>2, FS_CardinalityType, FS_EmptySet
<1> HIDE DEF S
<1>5. S = {}
  BY <1>3, <1>4
<1>6. QED BY <1>5 DEF S

\* Only one is at work, and only what it holds can change.
LEMMA TunnelOthers ==
  ASSUME NEW a \in Actors, \A b \in Actors \ {a} : ~Busy(b) /\ pc'[b] = pc[b], ProcsOK',
         Busy(a)' => Holding(a)', pc'[a] \notin Putting \cup {"signal"} => AllRecorded'
  PROVE  TunnelOK'
<1>1. \A b \in Actors : Busy(b)' => b = a
  BY DEF Busy
<1>2. QED BY <1>1 DEF TunnelOK

\* Steps that leave the tunnels alone.
LEMMA TunnelsStay ==
  ASSUME UNCHANGED tunnelVars, \A w \in Workers : HasSsh(w)' = HasSsh(w)
  PROVE  /\ ProcsOK => ProcsOK'
         /\ AllRecorded' = AllRecorded
         /\ \A w : NoTunnel(w)' = NoTunnel(w)
BY DEF tunnelVars, ProcsOK, AllRecorded, NoTunnel

\* One who is at work and neither makes nor removes a record has all of them in the file.
LEMMA RecordsOf ==
  ASSUME TunnelOK, NEW a \in Actors, Busy(a)
  PROVE  /\ \A b \in Actors \ {a} : ~Busy(b)
         /\ Holding(a) /\ ProcsOK
         /\ pc[a] \notin Putting \cup {"signal"} => AllRecorded
<1>1. \A b \in Actors \ {a} : ~Busy(b)
  BY DEF TunnelOK
<1>2. \A b \in Actors \ {a} : pc[b] \notin Putting \cup {"signal"}
  BY <1>1 DEF Busy, Putting
<1>3. QED BY <1>1, <1>2 DEF TunnelOK

LEMMA InitTunnel ==
  ASSUME Init
  PROVE  TunnelInv
<1>1. \A a \in Actors : ~Busy(a) /\ pc[a] = "idle"
  BY DEF Init, Busy
<1>2. procs = DOMAIN spawned /\ spawned = (IF Tunnel THEN Registered ELSE <<>>)
  BY DEF Init
<1>3. \A p \in procs : spawned[p] \in Workers /\ spawned[p] = Registered[p] /\ p \in DOMAIN Registered
  BY <1>2, LifecycleAssumption
<1>4. ~Tunnel => procs = {}
  BY <1>2
<1>5. ASSUME NEW p \in procs PROVE HasSsh(spawned[p]) /\ file[spawned[p]] = p
  <2>1. PICK w \in Workers : w = spawned[p]
    BY <1>3
  <2>2. row[w] = [here |-> TRUE, alias |-> TRUE, beat |-> "fresh", provision |-> "ready"]
    BY <1>3, <2>1 DEF Init
  <2>3. file[w] = CHOOSE i \in procs : spawned[i] = w
    BY <2>1 DEF Init
  <2>4. \A i \in procs : spawned[i] = w => i = p
    BY <1>3, <2>1, LifecycleAssumption
  <2>5. file[w] = p
    BY <2>1, <2>3, <2>4
  <2>6. QED BY <2>1, <2>2, <2>5 DEF HasSsh
<1>6. ProcsOK
  BY <1>2, <1>3, <1>4, <1>5 DEF ProcsOK
<1>7. AllRecorded
  BY <1>5 DEF AllRecorded
<1>8. QED BY <1>1, <1>6, <1>7 DEF TunnelInv, TunnelOK

\* A job that goes on without a tunnel call holds what it held.
LEMMA HoldingKept ==
  ASSUME NEW j \in Jobs, Holding(j), pc[j] # "create", UNCHANGED <<tunnelVars, target>>,
         \A w \in Workers : HasSsh(w)' = HasSsh(w), target[j] \in Workers,
         pc'[j] \notin Putting \cup {"create", "popsave", "signal", "delete"},
         pc'[j] = "pkill" => procs = {},
         j \in ProvisionJobs /\ (pc'[j] \in {"job", "begin"} \/ (pc'[j] \in {"test", "start", "run"} /\ Step(j)' \in Unspawned))
           => NoTunnel(target[j])
  PROVE  Holding(j)'
<1>1. target' = target /\ procs' = procs /\ spawned' = spawned
  BY DEF tunnelVars
<1>2. \A w : NoTunnel(w)' = NoTunnel(w)
  BY <1>1 DEF NoTunnel
<1>3. HasSsh(target[j])' = HasSsh(target[j]) /\ HasSsh(target[j])
  BY <1>1 DEF Holding
<1>4. Making(j)'
  BY DEF Making, Putting
<1>5. pc'[j] = "pkill" => NoTunnel(target[j])
  BY DEF NoTunnel
<1>6. j \notin Deletes
  BY LifecycleAssumption, ActorKinds
<1>7. NoTunnel(target[j])' = NoTunnel(target[j])
  BY <1>1, <1>2
<1>8. QED BY <1>3, <1>4, <1>5, <1>6, <1>7 DEF Holding

LEMMA SshStays ==
  ASSUME TypeOK, NEW w \in Workers, NEW s
  PROVE  \A v \in Workers : WithProvision(w, s)[v].here = row[v].here /\ WithProvision(w, s)[v].alias = row[v].alias
<1>1. /\ row \in [Workers -> Row]
      /\ \A v \in Workers : row[v] \in [here : BOOLEAN, alias : BOOLEAN, beat : {"never", "fresh", "stale"},
                                       provision : {"none", "provisioning", "ready", "failed"}]
  BY DEF TypeOK, Row
<1>2. QED BY <1>1 DEF WithProvision

LEMMA QuietThread ==
  ASSUME TypeOK, Started, PlacedInv, TunnelOK, NEW j \in Jobs, Thread(j) \/ RemoteFails(j),
         ~CreateWorker(j), ~SpawnTunnel(j), pc'[j] # "lost"
  PROVE  TunnelOK'
<1>a. j \in Actors /\ Busy(j) /\ Others(j) /\ pc \in [Actors -> Label] /\ ret \in [Actors -> Return] /\ at \in [Jobs -> Nat]
  BY ThreadMoves, ActorKinds DEF TypeOK
<1>b. target[j] \in Workers /\ Placed(j)
  BY <1>a DEF Started, PlacedInv, Busy
<1>c. (\A b \in Actors \ {j} : ~Busy(b)) /\ Holding(j) /\ ProcsOK
  BY <1>a, RecordsOf
<1>1. UNCHANGED <<tunnelVars, target>>
  BY DEF Thread, CreateJob, Begin, Test, Start, RunRemote, StopDaemon, StepDone, StartDaemon, SeesRegistered,
         WaitRaises, Ready, Succeed, Fail, Record, RemoteFails, actorVars
<1>2. \A w \in Workers : HasSsh(w)' = HasSsh(w)
  <2>1. row' = row \/ row' = WithProvision(target[j], "ready") \/ row' = WithProvision(target[j], "failed")
    BY DEF Thread, CreateJob, Begin, Test, Start, RunRemote, StopDaemon, StepDone, StartDaemon, SeesRegistered,
           WaitRaises, Ready, Succeed, Fail, Record, RemoteFails
  <2>2. QED BY <1>b, <2>1, SshStays DEF HasSsh
<1>3. pc[j] \in {"job", "begin", "test", "start", "run", "stepdone", "daemon", "ready", "succeed", "fail", "record"}
  BY DEF Thread, CreateJob, Begin, Test, Start, RunRemote, StopDaemon, StepDone, StartDaemon, SeesRegistered,
         WaitRaises, Ready, Succeed, Fail, Record, RemoteFails
<1>4. AllRecorded
  BY <1>3, <1>a, RecordsOf DEF Putting
<1>5. ProcsOK' /\ AllRecorded'
  BY <1>1, <1>2, <1>4, <1>c, TunnelsStay
<1>6. ASSUME Advance(j) PROVE pc'[j] \in {"test", "ready", "succeed"}
  BY <1>6, <1>a DEF Advance, GoTo
<1>7. CASE CreateJob(j) \/ Begin(j) \/ Test(j) \/ Start(j)
  <2>1. /\ pc'[j] \in {"begin", "test", "fail", "record", "start", "run"}
        /\ at' = at /\ (pc[j] \in {"job", "begin"} \/ (pc[j] \in {"test", "start"} /\ pc'[j] \notin {"begin", "test"}))
    BY <1>7, <1>a DEF CreateJob, Begin, Test, Start, GoTo, Raised, jobVars, pastVars
  <2>2. Step(j)' = Step(j)
    BY <2>1 DEF Step, Steps
  <2>3. Holding(j)'
    BY <1>1, <1>2, <1>b, <1>c, <2>1, <2>2, HoldingKept DEF Holding, Putting
  <2>4. QED BY <1>5, <1>a, <1>c, <2>3, TunnelOthers DEF Others
<1>8. CASE RunRemote(j) \/ StepDone(j) \/ StartDaemon(j) \/ SeesRegistered(j)
  <2>1. Advance(j) /\ pc'[j] \in {"test", "ready", "succeed"}
    BY <1>6, <1>8 DEF RunRemote, StepDone, StartDaemon, SeesRegistered
  <2>2. ASSUME j \in ProvisionJobs, Step(j)' \in Unspawned PROVE NoTunnel(target[j])
    <3>1. Step(j) \notin {"establish_tunnel", "start_daemon", "wait_register"}
      BY <2>1, <2>2, StepAfter DEF Unspawned
    <3>2. pc[j] = "run" /\ Step(j) \in {"validate_ssh", "bootstrap", "verify_layout"}
      BY <1>8, <1>b, <2>2, <3>1, StepIs DEF RunRemote, StepDone, StartDaemon, SeesRegistered, Placed, Pulls
    <3>3. QED BY <1>c, <2>2, <3>2 DEF Holding, Unspawned
  <2>3. Holding(j)'
    BY <1>1, <1>2, <1>b, <1>c, <1>3, <2>1, <2>2, HoldingKept DEF Putting
  <2>4. QED BY <1>5, <1>a, <1>c, <2>3, TunnelOthers DEF Others
<1>9. CASE StopDaemon(j)
  <2>1. pc'[j] \in {"stepdone", "popload", "pkill"} /\ (pc'[j] = "pkill" => ~Tunnel)
    BY <1>9, <1>a DEF StopDaemon, Decommission, GoTo
  <2>2. Holding(j)'
    BY <1>1, <1>2, <1>b, <1>c, <1>3, <2>1, HoldingKept DEF Putting, ProcsOK
  <2>3. QED BY <1>5, <1>a, <1>c, <2>2, TunnelOthers DEF Others
<1>10. CASE WaitRaises(j) \/ Ready(j) \/ Succeed(j) \/ Fail(j) \/ Record(j) \/ RemoteFails(j)
  <2>1. pc'[j] \in {"fail", "record", "succeed", "end", "popload"}
    BY <1>10, <1>a DEF WaitRaises, Ready, Succeed, Fail, Record, RemoteFails, GoTo, Raised
  <2>2. Holding(j)'
    BY <1>1, <1>2, <1>b, <1>c, <1>3, <2>1, HoldingKept DEF Putting
  <2>3. QED BY <1>5, <1>a, <1>c, <2>2, TunnelOthers DEF Others
<1>11. QED BY <1>7, <1>8, <1>9, <1>10 DEF Thread

LEMMA CreateTunnel ==
  ASSUME TypeOK, Started, TunnelOK, NEW j \in Jobs, CreateWorker(j)
  PROVE  TunnelOK'
<1>a. /\ j \in Actors /\ Busy(j) /\ Others(j) /\ pc \in [Actors -> Label] /\ row \in [Workers -> Row]
      /\ target[j] \in Workers /\ pc[j] = "create"
  BY ThreadMoves, ActorKinds DEF TypeOK, Thread, Started, CreateWorker
<1>b. (\A b \in Actors \ {j} : ~Busy(b)) /\ Holding(j) /\ ProcsOK /\ AllRecorded
  BY <1>a, RecordsOf DEF Putting
<1>1. UNCHANGED <<tunnelVars, target>>
  BY DEF CreateWorker, actorVars
<1>2. PICK w \in Workers : w = target[j]
  BY <1>a
<1>3. NoTunnel(w)
  BY <1>2, <1>a, <1>b DEF Holding
<1>4. \/ pc'[j] = "refused" /\ row' = row
      \/ /\ pc'[j] = "job"
         /\ row' = [row EXCEPT ![w] = [here |-> TRUE, alias |-> TRUE, beat |-> "never", provision |-> "provisioning"]]
  BY <1>2, <1>a DEF CreateWorker, GoTo
<1>5. \A v \in Workers : HasSsh(v) => HasSsh(v)'
  BY <1>4, <1>a DEF HasSsh
<1>6. ProcsOK' /\ AllRecorded' /\ NoTunnel(w)'
  BY <1>1, <1>3, <1>5, <1>b DEF tunnelVars, ProcsOK, AllRecorded, NoTunnel
<1>7. CASE pc'[j] = "refused"
  BY <1>6, <1>7, <1>a, <1>b, TunnelOthers DEF Others, Busy
<1>8. CASE pc'[j] = "job" /\ HasSsh(w)'
  <2>1. target'[j] = w
    BY <1>1, <1>2
  <2>2. Holding(j)'
    BY <1>6, <1>8, <2>1, ActorKinds, LifecycleAssumption DEF Holding, Making, Putting
  <2>3. QED BY <1>6, <1>a, <1>b, <2>2, TunnelOthers DEF Others
<1>9. QED BY <1>4, <1>7, <1>8, <1>a DEF HasSsh

\* A tunnel is made for a worker that has none on record.
LEMMA SpawnsTunnel ==
  ASSUME TypeOK, Started, PlacedInv, TunnelOK, NEW j \in Jobs, SpawnTunnel(j)
  PROVE  TunnelOK'
<1>a. /\ j \in Actors /\ Busy(j) /\ Others(j) /\ pc \in [Actors -> Label] /\ pc[j] = "run"
      /\ target[j] \in Workers /\ spawned \in Seq(Workers)
  BY ThreadMoves, ActorKinds DEF TypeOK, Thread, Started, SpawnTunnel
<1>b. (\A b \in Actors \ {j} : ~Busy(b)) /\ Holding(j) /\ ProcsOK /\ AllRecorded
  BY <1>a, RecordsOf DEF Putting
<1>1. PICK w \in Workers, n \in Nat : w = target[j] /\ n = Len(spawned)
  BY <1>a
<1>2. /\ spawned' = Append(spawned, w) /\ procs' = procs \cup {n + 1} /\ file' = file /\ row' = row
      /\ pc'[j] = "find" /\ target' = target
  BY <1>1, <1>a DEF SpawnTunnel, GoTo
<1>3. Tunnel /\ NoTunnel(w)
  <2>1. CASE Step(j) = "establish_tunnel"
    <3>1. j \in ProvisionJobs
      BY <2>1, StepIs DEF Jobs, Pulls
    <3>2. QED BY <1>1, <1>a, <1>b, <2>1, <3>1, StepIs DEF Holding, Unspawned
  <2>2. CASE Tunnel /\ file[target[j]] = 0
    <3>1. ASSUME NEW p \in procs, spawned[p] = w PROVE FALSE
      <4>1. p = 0
        BY <1>1, <1>b, <2>2, <3>1 DEF AllRecorded
      <4>2. p \in 1..n
        BY <1>1, <1>a, <1>b DEF ProcsOK
      <4>3. QED BY <4>1, <4>2
    <3>2. QED BY <2>2, <3>1 DEF NoTunnel
  <2>3. QED BY <2>1, <2>2 DEF SpawnTunnel
<1>4. /\ Len(spawned') = n + 1 /\ DOMAIN spawned' = 1..(n + 1) /\ spawned'[n + 1] = w
      /\ \A p \in 1..n : spawned'[p] = spawned[p]
  BY <1>1, <1>2, <1>a
<1>5. procs \subseteq 1..n /\ \A p \in procs : file[spawned[p]] = p /\ spawned[p] \in Workers /\ HasSsh(spawned[p])
  BY <1>1, <1>a, <1>b DEF ProcsOK, AllRecorded
<1>6. HasSsh(w)
  BY <1>1, <1>a, <1>b DEF Holding
<1>7. ProcsOK'
  <2>1. procs' \subseteq 1..(n + 1) /\ \A p \in procs' : p \in procs \/ p = n + 1
    BY <1>2, <1>5, <1>a
  <2>2. \A p \in procs' : spawned'[p] \in Workers /\ HasSsh(spawned'[p])
    BY <1>4, <1>5, <1>6, <2>1
  <2>3. \A v : HasSsh(v)' = HasSsh(v)
    BY <1>2 DEF HasSsh
  <2>4. QED BY <1>3, <1>4, <2>1, <2>2, <2>3 DEF ProcsOK
<1>8. Making(j)'
  <2>1. Len(spawned)' \in procs' /\ spawned'[Len(spawned')] = target'[j]
    BY <1>1, <1>2, <1>4
  <2>2. ASSUME NEW p \in procs' \ {n + 1} PROVE file'[spawned'[p]] = p /\ spawned'[p] # target'[j]
    <3>1. p \in procs /\ spawned'[p] = spawned[p]
      BY <1>2, <1>4, <1>5, <2>2
    <3>2. QED BY <1>1, <1>2, <1>3, <1>5, <3>1 DEF NoTunnel
  <2>3. QED BY <1>2, <1>4, <2>1, <2>2 DEF Making
<1>9. Holding(j)'
  <2>1. j \notin Deletes
    BY LifecycleAssumption, ActorKinds
  <2>2. HasSsh(target[j])'
    BY <1>1, <1>2, <1>6 DEF HasSsh
  <2>3. QED BY <1>2, <1>8, <2>1, <2>2 DEF Holding
<1>10. QED BY <1>2, <1>7, <1>9, <1>a, <1>b, TunnelOthers DEF Others, Putting

\* The newest process is the one just made.
LEMMA NewestIs ==
  ASSUME NEW n \in procs, \A p \in procs : p \in Nat /\ p <= n, n \in Nat
  PROVE  Newest = n
<1> DEFINE S == {p \in procs : \A q \in procs : q <= p}
<1>1. n \in S /\ \A p \in S : p = n
  OBVIOUS
<1>2. Newest = IF S = {} THEN 0 ELSE CHOOSE p \in S : TRUE
  BY DEF Newest
<1> HIDE DEF S
<1>3. S # {} /\ (CHOOSE p \in S : TRUE) \in S
  BY <1>1
<1>4. QED BY <1>1, <1>2, <1>3

LEMMA CallTunnel ==
  ASSUME TypeOK, Started, PlacedInv, TunnelOK, NEW a \in Actors, Call(a)
  PROVE  TunnelOK'
<1>a. /\ Busy(a) /\ Others(a) /\ pc \in [Actors -> Label] /\ target[a] \in Workers /\ spawned \in Seq(Workers)
      /\ pid \in [Actors -> Nat] /\ copy \in [Actors -> [Workers -> Nat]] /\ file \in [Workers -> Nat]
      /\ UNCHANGED <<row, at, target, alias, ret>>
  BY CallMoves DEF TypeOK, Started, Busy, actorVars
<1>b. (\A b \in Actors \ {a} : ~Busy(b) /\ pc'[b] = pc[b]) /\ Holding(a) /\ ProcsOK /\ Making(a)
  BY <1>a, RecordsOf DEF Holding, Others
<1>c. PICK w \in Workers, n \in Nat : w = target[a] /\ n = Len(spawned)
  BY <1>a
<1>d. procs \subseteq 1..n
  BY <1>a, <1>b, <1>c DEF ProcsOK
<1>e. \A v : HasSsh(v)' = HasSsh(v)
  BY <1>a DEF HasSsh
<1>f. ret[a] \in {"end", "stepdone", "daemon", "write", "delete"}
  BY DEF TypeOK, Return
\* What a holds besides the record.
<1>g. ASSUME Making(a)', pc'[a] \notin {"job", "begin", "create", "test", "start", "run"},
             pc'[a] \in {"pkill", "delete"} => NoTunnel(w)'
      PROVE  Holding(a)'
  <2>1. a \in Jobs => pc[a] # "create"
    BY DEF Call, FindPid, Load, SaveRecord, RemoveRecord, KillTunnel, Pkill
  <2>2. a \in Jobs => HasSsh(target[a])'
    BY <1>a, <1>b, <1>e, <2>1 DEF Holding
  <2>3. a \in Deletes => alias'[a] = HasSsh(target[a])'
    BY <1>a, <1>b, <1>e DEF Holding
  <2>4. QED BY <1>a, <1>c, <1>g, <2>2, <2>3 DEF Holding
<1>h. UNCHANGED <<procs, spawned>> => ProcsOK'
  BY <1>b, <1>e DEF ProcsOK
<1>1. CASE FindPid(a)
  <2>1. pc[a] = "find" /\ pc'[a] = "putload" /\ UNCHANGED <<file, procs, spawned>> /\ pid'[a] = Newest
    BY <1>1, <1>a DEF FindPid, GoTo
  <2>2. Newest = n
    BY <1>b, <1>c, <1>d, <2>1, NewestIs DEF Making, Putting
  <2>3. Making(a)'
    BY <1>a, <1>b, <1>c, <2>1, <2>2 DEF Making, Putting
  <2>4. QED BY <1>b, <1>g, <1>h, <2>1, <2>3, TunnelOthers DEF Putting
<1>2. CASE Load(a)
  <2>1. /\ UNCHANGED <<file, pid, procs, spawned>> /\ copy'[a] = file
        /\ \/ pc[a] = "putload" /\ pc'[a] = "putsave"
           \/ pc[a] = "popload" /\ pc'[a] = "popsave"
    BY <1>2, <1>a DEF Load, GoTo
  <2>2. Making(a)'
    BY <1>a, <1>b, <2>1 DEF Making, Putting
  <2>3. pc'[a] = "popsave" => AllRecorded'
    BY <1>a, <2>1, RecordsOf DEF Putting, AllRecorded
  <2>4. QED BY <1>b, <1>g, <1>h, <2>1, <2>2, <2>3, TunnelOthers DEF Putting
<1>3. CASE SaveRecord(a)
  <2>1. /\ UNCHANGED <<procs, spawned>> /\ file' = [file EXCEPT ![w] = n]
        /\ pc[a] = "putsave" /\ pc'[a] = ret[a]
    BY <1>3, <1>a, <1>b, <1>c DEF SaveRecord, GoTo, Making
  <2>2. a \in Jobs /\ ret[a] \in {"stepdone", "daemon"}
    <3>1. a \in Jobs
      BY <2>1 DEF PlacedInv, Putting, Actors
    <3>2. QED BY <2>1, <3>1 DEF PlacedInv, Placed, Putting, Jobs
  <2>3. AllRecorded'
    <3>1. ASSUME NEW p \in procs PROVE file'[spawned[p]] = p
      <4>1. spawned[p] \in Workers
        BY <1>b DEF ProcsOK
      <4>2. CASE p = n
        BY <1>a, <1>b, <1>c, <2>1, <4>2 DEF Making, Putting
      <4>3. CASE p # n
        BY <1>a, <1>b, <1>c, <2>1, <4>1, <4>3 DEF Making, Putting
      <4>4. QED BY <4>2, <4>3
    <3>2. QED BY <2>1, <3>1 DEF AllRecorded
  <2>4. Making(a)'
    BY <2>1, <2>2 DEF Making, Putting
  <2>5. QED BY <1>b, <1>g, <1>h, <2>1, <2>2, <2>3, <2>4, TunnelOthers
<1>4. CASE RemoveRecord(a)
  <2>1. /\ UNCHANGED <<procs, spawned>> /\ file' = [file EXCEPT ![w] = 0] /\ pid'[a] = file[w]
        /\ pc[a] = "popsave" /\ pc'[a] = "signal"
    BY <1>4, <1>a, <1>b, <1>c DEF RemoveRecord, GoTo, Making
  <2>2. AllRecorded
    BY <1>a, <2>1, RecordsOf DEF Putting
  <2>3. ASSUME NEW p \in procs \ {file[w]} PROVE file'[spawned[p]] = p /\ spawned[p] # w
    BY <1>a, <1>b, <2>1, <2>2, <2>3 DEF AllRecorded, ProcsOK
  <2>4. Making(a)'
    BY <1>a, <1>c, <2>1, <2>3 DEF Making, Putting
  <2>5. QED BY <1>b, <1>g, <1>h, <2>1, <2>4, TunnelOthers DEF Putting
<1>5. CASE KillTunnel(a)
  <2>1. /\ UNCHANGED <<file, spawned>> /\ procs' = procs \ {pid[a]}
        /\ pc[a] = "signal" /\ pc'[a] \in {"end", "pkill"}
    BY <1>5, <1>a DEF KillTunnel, GoTo
  <2>2. \A p \in procs' : file'[spawned'[p]] = p /\ spawned'[p] # w
    BY <1>b, <1>c, <2>1 DEF Making
  <2>3. AllRecorded' /\ NoTunnel(w)'
    BY <2>2 DEF AllRecorded, NoTunnel
  <2>4. ProcsOK'
    BY <1>b, <1>e, <2>1 DEF ProcsOK
  <2>5. Making(a)'
    BY <2>1 DEF Making, Putting
  <2>6. QED BY <1>b, <1>g, <2>1, <2>3, <2>4, <2>5, TunnelOthers
<1>6. CASE Pkill(a)
  <2>1. UNCHANGED <<file, procs, spawned>> /\ pc[a] = "pkill" /\ pc'[a] = ret[a]
    BY <1>6, <1>a DEF Pkill, GoTo, tunnelVars
  <2>2. AllRecorded' /\ NoTunnel(w)'
    BY <1>a, <1>b, <1>c, <2>1, RecordsOf DEF Putting, AllRecorded, Holding, NoTunnel
  <2>3. Making(a)'
    BY <1>f, <2>1 DEF Making, Putting
  <2>4. QED BY <1>b, <1>f, <1>g, <1>h, <2>1, <2>2, <2>3, TunnelOthers
<1>7. QED BY <1>1, <1>2, <1>3, <1>4, <1>5, <1>6 DEF Call

LEMMA HandlerTunnel ==
  ASSUME TypeOK, Started, TunnelOK, NEW h \in Handlers, Handler(h) \/ (h \in Deletes /\ Deletion(h))
  PROVE  TunnelOK'
<1>a. /\ h \in Actors /\ h \notin Jobs /\ Busy(h) /\ Others(h) /\ pc \in [Actors -> Label]
      /\ UNCHANGED <<target, alias>> /\ alias \in [Actors -> BOOLEAN] /\ row \in [Workers -> Row]
  BY HandlerMoves, ActorKinds, LifecycleAssumption DEF TypeOK
<1>b. pc[h] \in {"add", "write", "note", "provision", "clean", "delete"} /\ UNCHANGED tunnelVars
  BY DEF Handler, Deletion, AddCancelled, WriteCancelled, NoteCancelled, FindProvision, Clean, DeleteWorker
<1>c. (\A b \in Actors \ {h} : ~Busy(b) /\ pc'[b] = pc[b]) /\ Holding(h) /\ ProcsOK /\ AllRecorded
  BY <1>a, <1>b, RecordsOf DEF Others, Putting
<1>d. PICK w \in Workers : w = target[h]
  BY <1>a DEF Started, Busy
<1>e. AllRecorded' /\ \A v : NoTunnel(v)' = NoTunnel(v)
  BY <1>b, <1>c DEF tunnelVars, AllRecorded, NoTunnel
\* What is left of a handler's holdings.
<1>f. ASSUME pc'[h] \in {"write", "popload", "pkill", "provision", "clean", "add", "note", "delete"},
             \A v \in Workers : HasSsh(v)' = HasSsh(v),
             pc'[h] \in {"pkill", "delete"} => NoTunnel(w)
      PROVE  TunnelOK'
  <2>1. ProcsOK'
    BY <1>b, <1>c, <1>f DEF ProcsOK, tunnelVars
  <2>2. Making(h)'
    BY <1>f DEF Making, Putting
  <2>3. h \in Deletes => alias'[h] = HasSsh(target[h])'
    BY <1>a, <1>c, <1>d, <1>f DEF Holding
  <2>4. Holding(h)'
    BY <1>a, <1>d, <1>e, <1>f, <2>2, <2>3, ActorKinds DEF Holding
  <2>5. QED BY <1>a, <1>c, <1>e, <2>1, <2>4, TunnelOthers
\* The end of a handler, after which its worker may have gone.
<1>g. ASSUME pc'[h] = "end", \A v \in Workers : HasSsh(v)' = HasSsh(v) \/ (v = w /\ NoTunnel(w))
      PROVE  TunnelOK'
  <2>1. ProcsOK'
    BY <1>b, <1>c, <1>g DEF ProcsOK, tunnelVars, NoTunnel
  <2>2. ~Busy(h)'
    BY <1>g DEF Busy
  <2>3. QED BY <1>a, <1>c, <1>e, <2>1, <2>2, TunnelOthers
<1>h. ASSUME NEW l \in {"write", "delete"}, Decommission(h, l)
      PROVE  /\ pc'[h] \in {"write", "popload", "pkill", "delete"}
             /\ pc'[h] = "pkill" => NoTunnel(w)
             /\ pc'[h] = "delete" => ~alias[h]
             /\ l = "write" => pc'[h] # "delete"
  BY <1>a, <1>c, <1>h DEF Decommission, GoTo, ProcsOK, NoTunnel
<1>1. CASE AddCancelled(h)
  <2>1. Decommission(h, "write") /\ row' = row
    BY <1>1 DEF AddCancelled
  <2>2. \A v \in Workers : HasSsh(v)' = HasSsh(v)
    BY <2>1 DEF HasSsh
  <2>3. QED BY <1>f, <1>h, <2>1, <2>2
<1>2. CASE WriteCancelled(h)
  <2>1. pc'[h] \in {"provision", "clean", "end", "note"} /\ row' = row
    BY <1>2, <1>a DEF WriteCancelled, GoTo
  <2>2. \A v \in Workers : HasSsh(v)' = HasSsh(v)
    BY <2>1 DEF HasSsh
  <2>3. QED BY <1>f, <1>g, <2>1, <2>2
<1>3. CASE NoteCancelled(h)
  <2>1. pc'[h] = "end" /\ row' = WithProvision(w, "failed")
    BY <1>3, <1>a, <1>d DEF NoteCancelled, GoTo
  <2>2. \A v \in Workers : HasSsh(v)' = HasSsh(v)
    BY <2>1, SshStays DEF HasSsh
  <2>3. QED BY <1>g, <2>1, <2>2
<1>4. CASE h \in Deletes /\ FindProvision(h)
  <2>1. pc'[h] \in {"add", "clean"} /\ row' = row
    BY <1>4, <1>a DEF FindProvision, GoTo
  <2>2. \A v \in Workers : HasSsh(v)' = HasSsh(v)
    BY <2>1 DEF HasSsh
  <2>3. QED BY <1>f, <2>1, <2>2
<1>5. CASE h \in Deletes /\ Clean(h)
  <2>1. Decommission(h, "delete") /\ row' = row
    BY <1>5 DEF Clean
  <2>2. \A v \in Workers : HasSsh(v)' = HasSsh(v)
    BY <2>1 DEF HasSsh
  <2>3. ~alias[h] => NoTunnel(w)
    BY <1>5, <1>c, <1>d DEF Holding, ProcsOK, NoTunnel
  <2>4. QED BY <1>f, <1>h, <2>1, <2>2, <2>3
<1>6. CASE h \in Deletes /\ DeleteWorker(h)
  <2>1. pc[h] = "delete" /\ pc'[h] = "end" /\ (row' = row \/ row' = [row EXCEPT ![w] = NoRow])
    BY <1>6, <1>a, <1>d DEF DeleteWorker, GoTo
  <2>2. NoTunnel(w)
    BY <1>c, <1>d, <2>1 DEF Holding
  <2>3. \A v \in Workers \ {w} : HasSsh(v)' = HasSsh(v)
    BY <1>a, <2>1 DEF HasSsh
  <2>4. QED BY <1>g, <2>1, <2>2, <2>3
<1>7. QED BY <1>1, <1>2, <1>3, <1>4, <1>5, <1>6 DEF Handler, Deletion

\* Registering changes no ssh alias: a worker that comes anew has none.
LEMMA HostSsh ==
  ASSUME TypeOK, NEW w \in Workers, Host(w), NEW v \in Workers
  PROVE  HasSsh(v)' = HasSsh(v)
<1>a. row \in [Workers -> Row] /\ \A u \in Workers : row[u] \in [here : BOOLEAN, alias : BOOLEAN,
         beat : {"never", "fresh", "stale"}, provision : {"none", "provisioning", "ready", "failed"}]
  BY DEF TypeOK, Row
<1>1. CASE RegisterWorker(w)
  <2>1. \A u \in Workers \ {w} : row'[u] = row[u]
    BY <1>1, <1>a DEF RegisterWorker
  <2>2. row'[w].here /\ row'[w].alias = (row[w].here /\ row[w].alias)
    BY <1>1, <1>a DEF RegisterWorker
  <2>3. QED BY <2>1, <2>2 DEF HasSsh
<1>2. CASE GoStale(w)
  BY <1>2, <1>a DEF GoStale, HasSsh
<1>3. CASE Assign(w) \/ ClaimBatch(w) \/ EndBatch(w) \/ Exit(w)
  BY <1>3 DEF Assign, ClaimBatch, EndBatch, Exit, HasSsh
<1>4. QED BY <1>1, <1>2, <1>3 DEF Host

LEMMA TunnelSame ==
  ASSUME TunnelOK, UNCHANGED <<pc, at, actorVars, tunnelVars>>, \A w \in Workers : HasSsh(w)' = HasSsh(w), Started
  PROVE  TunnelOK'
<1>1. ProcsOK' /\ AllRecorded' = AllRecorded /\ \A w : NoTunnel(w)' = NoTunnel(w)
  BY TunnelsStay DEF TunnelOK
<1>2. \A a \in Actors : Busy(a)' = Busy(a)
  BY DEF Busy
<1>3. ASSUME NEW a \in Actors, Busy(a) PROVE Holding(a)'
  <2>1. Holding(a) /\ target[a] \in Workers /\ target' = target /\ alias' = alias
    BY <1>3 DEF TunnelOK, Started, Busy, actorVars
  <2>2. Step(a)' = Step(a)
    BY DEF Step, Steps
  <2>3. Making(a)' = Making(a)
    BY DEF Making, actorVars, tunnelVars
  <2>4. HasSsh(target[a])' = HasSsh(target[a]) /\ NoTunnel(target[a])' = NoTunnel(target[a])
    BY <1>1, <2>1
  <2>5. QED BY <2>1, <2>2, <2>3, <2>4 DEF Holding
<1>4. QED BY <1>1, <1>2, <1>3 DEF TunnelOK

\* A request that begins when nobody is at work.
LEMMA RequestTunnel ==
  ASSUME TypeOK, TunnelOK, NEW a \in Actors, Others(a), \A b \in Actors : ~Busy(b), UNCHANGED <<row, tunnelVars>>,
         a \in Jobs => IF pc'[a] = "create" THEN NoTunnel(target'[a])
                                            ELSE a \notin ProvisionJobs /\ HasSsh(target'[a]),
         a \in Deletes => alias'[a] = HasSsh(target'[a]),
         pc'[a] \in {"create", "job", "add", "provision"}
  PROVE  TunnelOK'
<1>1. \A w : HasSsh(w)' = HasSsh(w)
  BY DEF HasSsh
<1>2. AllRecorded
  BY DEF TunnelOK, Busy, Putting
<1>3. ProcsOK' /\ AllRecorded' /\ \A w : NoTunnel(w)' = NoTunnel(w)
  BY <1>1, <1>2, TunnelsStay DEF TunnelOK
<1>4. Making(a)'
  BY DEF Making, Putting
<1>5. Holding(a)'
  <2>1. a \in Jobs => IF pc'[a] = "create" THEN NoTunnel(target[a])' ELSE HasSsh(target[a])'
    BY <1>1, <1>3 DEF NoTunnel, HasSsh, tunnelVars
  <2>2. a \in Deletes => alias'[a] = HasSsh(target[a])'
    BY DEF HasSsh
  <2>3. a \in ProvisionJobs => pc'[a] = "create"
    BY DEF Jobs
  <2>4. QED BY <1>4, <2>1, <2>2, <2>3 DEF Holding
<1>6. QED BY <1>3, <1>5, TunnelOthers DEF Others

LEMMA TunnelStep ==
  ASSUME MaxBusy = 1, TypeOK, Started, PlacedInv, TunnelInv, [Next]_vars
  PROVE  TunnelInv'
<1> SUFFICES ASSUME NoneLost' PROVE TunnelOK'
  BY DEF TunnelInv
<1>a. TunnelOK
  BY Onward DEF NoneLost, TunnelInv
<1>b. row \in [Workers -> Row] /\ target \in [Actors -> Workers \cup {None}]
  BY DEF TypeOK
<1>1. ASSUME NEW j \in ProvisionJobs, NEW w \in Workers, RequestProvision(j, w) PROVE TunnelOK'
  <2>1. /\ j \in Actors /\ j \in Jobs /\ j \notin Deletes /\ Others(j) /\ Room /\ pc'[j] = "create" /\ target'[j] = w
        /\ UNCHANGED <<row, tunnelVars>>
    BY <1>1, RequestMoves, ActorKinds, LifecycleAssumption
  <2>2. NoTunnel(w)
    BY <1>1, <1>a DEF RequestProvision, TunnelOK, ProcsOK, NoTunnel, HasSsh
  <2>3. QED BY <1>a, <2>1, <2>2, RoomIs, RequestTunnel
<1>2. ASSUME NEW j \in UpdateJobs, NEW w \in Workers, RequestUpdate(j, w) PROVE TunnelOK'
  <2>1. /\ j \in Actors /\ j \in Jobs /\ j \notin Deletes /\ Others(j) /\ Room /\ pc'[j] = "job" /\ target'[j] = w
        /\ UNCHANGED <<row, tunnelVars>> /\ j \notin ProvisionJobs
    BY <1>2, RequestMoves, ActorKinds, LifecycleAssumption
  <2>2. HasSsh(w)
    BY <1>2 DEF RequestUpdate, HasSsh
  <2>3. QED BY <1>a, <2>1, <2>2, RoomIs, RequestTunnel
<1>3. ASSUME NEW c \in Cancels, NEW j \in Jobs, RequestCancel(c, j) PROVE TunnelOK'
  <2>1. /\ c \in Actors /\ c \notin Jobs /\ c \notin Deletes /\ Others(c) /\ Room /\ pc'[c] = "add"
        /\ UNCHANGED <<row, tunnelVars>>
    BY <1>3, RequestMoves, ActorKinds, LifecycleAssumption
  <2>2. QED BY <1>a, <2>1, RoomIs, RequestTunnel
<1>4. ASSUME NEW d \in Deletes, NEW w \in Workers, RequestDelete(d, w) PROVE TunnelOK'
  <2>1. /\ d \in Actors /\ d \notin Jobs /\ Others(d) /\ Room /\ pc'[d] \in {"add", "provision"}
        /\ target'[d] = w /\ alias'[d] = HasSsh(w) /\ UNCHANGED <<row, tunnelVars>>
    BY <1>4, RequestMoves, ActorKinds, LifecycleAssumption
  <2>2. QED BY <1>a, <2>1, RoomIs, RequestTunnel
<1>5. ASSUME NEW j \in Jobs, Thread(j) \/ RemoteFails(j) PROVE TunnelOK'
  <2>1. pc'[j] # "lost"
    BY ActorKinds DEF NoneLost
  <2>2. QED BY <1>5, <1>a, <2>1, QuietThread, CreateTunnel, SpawnsTunnel
<1>6. ASSUME NEW a \in Actors, Call(a) PROVE TunnelOK'
  BY <1>6, <1>a, CallTunnel
<1>7. ASSUME NEW h \in Handlers, Handler(h) \/ (h \in Deletes /\ Deletion(h)) PROVE TunnelOK'
  BY <1>7, <1>a, HandlerTunnel
<1>8. ASSUME NEW w \in Workers, Host(w) PROVE TunnelOK'
  BY <1>8, <1>a, HostMoves, HostSsh, TunnelSame DEF jobVars, pastVars
<1>9. ASSUME Restart PROVE TunnelOK'
  <2>1. UNCHANGED <<row, at, actorVars, tunnelVars>> /\ pc' = pc
    <3>1. \A a \in Actors : pc'[a] = pc[a]
      BY <1>9, RestartMoves DEF NoneLost
    <3>2. pc \in [Actors -> Label] /\ DOMAIN pc' = Actors /\ pc' = [a \in Actors |-> pc'[a]]
      BY <1>9 DEF Restart, TypeOK
    <3>3. pc' = pc
      BY <3>1, <3>2
    <3>4. QED BY <1>9, <3>3, RestartMoves DEF jobVars, pastVars
  <2>2. QED BY <1>a, <2>1, TunnelSame DEF HasSsh
<1>10. ASSUME UNCHANGED vars PROVE TunnelOK'
  BY <1>10, <1>a, TunnelSame DEF vars, jobVars, pastVars, HasSsh
<1>11. QED
  BY <1>1, <1>2, <1>3, <1>4, <1>5, <1>6, <1>7, <1>8, <1>9, <1>10, ActorKinds DEF Next

\* When nobody is busy with a tunnel every ssh tunnel that runs is in tunnels.json under
\* its worker, for any number of workers and requests that come one after the other, and
\* whatever ssh commands fail (provisioner.py save_record and remove_record,
\* _establish_tunnel and decommission_worker).
THEOREM TunnelsOnRecord ==
  ASSUME MaxBusy = 1
  PROVE  Spec => []TunnelsAreRecorded
<1>1. Init => PlacedInv /\ TunnelInv
  BY InitPlaced, InitTunnel
<1>2. TypeOK /\ LifecycleInv /\ PlacedInv /\ TunnelInv /\ [Next]_vars => PlacedInv' /\ TunnelInv'
  BY PlacedStep, TunnelStep DEF LifecycleInv
<1>3. TunnelInv => TunnelsAreRecorded
  BY DEF TunnelInv, NoneLost, TunnelOK, TunnelsAreRecorded, AllRecorded, Calls, Putting
<1>4. QED BY <1>1, <1>2, <1>3, LifecycleHolds, PTL DEF Spec

---------------------------------------------------------------------------
\* Two updates of a worker in progress know of each other.
CrowdInv ==
  \A i, j \in UpdateJobs : Busy(i) /\ Busy(j) /\ target[i] = target[j] /\ i # j => i \in crowded

\* What is known of daemons until a cancel or a delete comes.  A worker that is not there,
\* or whose provision has not started its daemon, has none; an update finds such a
\* provision on no worker of its own, and none starts a daemon between stop and restart,
\* unless the stop failed or another update of the worker is in progress.
Silent(w) == live[w] = 0 /\ stopping[w] = 0

Unstarted(p) ==
  \/ pc[p] \in {"job", "begin", "stepdone"} \cup Putting
  \/ pc[p] \in {"test", "start", "run"} /\ Step(p) \in Unspawned \cup {"start_daemon"}

Stopped(u) == /\ pc[u] = "stepdone" \/ Pulling(u)
              /\ u \notin crowded \cup warned

QuietOK ==
  /\ \A w \in Workers : ~row[w].here => Silent(w)
  /\ \A p \in ProvisionJobs : Unstarted(p) => Silent(target[p]) /\ row[target[p]].provision = "provisioning"
  /\ \A u \in UpdateJobs : Busy(u) =>
       /\ row[target[u]].here
       /\ \A p \in ProvisionJobs : Unstarted(p) => target[p] # target[u]
       /\ Stopped(u) => live[target[u]] = 0

QuietInv == Undisturbed => QuietOK

NoUnstarted(w) == \A p \in ProvisionJobs : Unstarted(p) => target[p] # w
NoStopped(w)   == \A u \in UpdateJobs : Stopped(u) => target[u] # w

\* A step that keeps what a job relies on at its worker.
CalmAt(w) ==
  /\ row[w].here => row'[w].here
  /\ live[w] = 0 => live'[w] = 0 \/ NoStopped(w)'
  /\ Silent(w) => Silent(w)' \/ (row'[w].here /\ NoUnstarted(w)')
  /\ Silent(w) /\ row[w].provision = "provisioning" => row'[w].provision = "provisioning" \/ NoUnstarted(w)'

\* The jobs that a step brings no nearer to a daemon.
CalmJobs ==
  /\ \A p \in ProvisionJobs : Unstarted(p)' => Unstarted(p) /\ target'[p] = target[p]
  /\ \A u \in UpdateJobs : /\ Busy(u)' => Busy(u) /\ target'[u] = target[u]
                           /\ Stopped(u)' => Stopped(u) \/ live'[target[u]] = 0

LEMMA AtWork ==
  /\ \A p \in ProvisionJobs : Unstarted(p) => Busy(p) /\ (RowsFollow => HasWorker(p))
  /\ \A u \in UpdateJobs : Stopped(u) => Busy(u)
<1>1. ASSUME NEW p \in ProvisionJobs, Unstarted(p) PROVE Busy(p) /\ (RowsFollow => HasWorker(p))
  <2>1. pc[p] \in {"job", "begin", "stepdone", "find", "putload", "putsave", "test", "start", "run"}
    BY <1>1 DEF Unstarted, Putting
  <2>2. p \in Jobs
    BY DEF Jobs
  <2>3. QED BY <2>1, <2>2 DEF Busy, RowsFollow, HasWorker
<1>2. \A u \in UpdateJobs : Stopped(u) => Busy(u)
  BY DEF Stopped, Pulling, Busy
<1>3. QED BY <1>1, <1>2

\* Somebody at work has its worker.
LEMMA BusyTarget == ASSUME Started, NEW a \in Actors, Busy(a) PROVE target[a] \in Workers
BY DEF Busy, Started

LEMMA CalmKeeps ==
  ASSUME Started, QuietOK, CalmJobs, \A w \in Workers : CalmAt(w)
  PROVE  QuietOK'
<1>2. ASSUME NEW p \in ProvisionJobs, Unstarted(p)'
      PROVE  (Silent(target[p]) /\ row[target[p]].provision = "provisioning")'
  <2>1. Unstarted(p) /\ target'[p] = target[p]
    BY <1>2 DEF CalmJobs
  <2>2. Busy(p) /\ p \in Actors
    BY <2>1, AtWork, ActorKinds
  <2>3. PICK w \in Workers : w = target[p]
    BY <2>2, BusyTarget
  <2>4. Silent(w) /\ row[w].provision = "provisioning"
    BY <2>1, <2>3 DEF QuietOK
  <2>5. ~NoUnstarted(w)'
    BY <1>2, <2>1, <2>3 DEF NoUnstarted
  <2>6. Silent(w)' /\ row'[w].provision = "provisioning"
    BY <2>4, <2>5 DEF CalmAt
  <2>7. QED BY <2>1, <2>3, <2>6
<1>3. ASSUME NEW u \in UpdateJobs, Busy(u)'
      PROVE  (/\ row[target[u]].here
              /\ \A p \in ProvisionJobs : Unstarted(p) => target[p] # target[u]
              /\ Stopped(u) => live[target[u]] = 0)'
  <2>1. /\ Busy(u) /\ target'[u] = target[u] /\ u \in Actors
        /\ Stopped(u)' => Stopped(u) \/ live'[target[u]] = 0
    BY <1>3, ActorKinds DEF CalmJobs
  <2>2. PICK w \in Workers : w = target[u]
    BY <2>1, BusyTarget
  <2>3. /\ row[w].here
        /\ \A p \in ProvisionJobs : Unstarted(p) => target[p] # w
        /\ Stopped(u) => live[w] = 0
    BY <2>1, <2>2 DEF QuietOK
  <2>4. Stopped(u)' => ~NoStopped(w)'
    BY <2>1, <2>2 DEF NoStopped
  <2>5. row'[w].here /\ (Stopped(u)' => live'[w] = 0)
    BY <2>1, <2>2, <2>3, <2>4 DEF CalmAt
  <2>6. \A p \in ProvisionJobs : Unstarted(p)' => target'[p] # w
    BY <2>3 DEF CalmJobs
  <2>7. QED BY <2>1, <2>2, <2>5, <2>6
<1>4. ASSUME NEW w \in Workers, ~row'[w].here PROVE Silent(w)'
  BY <1>4 DEF QuietOK, CalmAt
<1>5. QED BY <1>2, <1>3, <1>4 DEF QuietOK

\* A step of one actor is calm for the other jobs.
LEMMA CalmOthers ==
  ASSUME NEW a \in Actors, Others(a), crowded \subseteq crowded', warned \subseteq warned',
         a \in ProvisionJobs => (Unstarted(a)' => Unstarted(a) /\ target'[a] = target[a]),
         a \in UpdateJobs => /\ Busy(a)' => Busy(a) /\ target'[a] = target[a]
                             /\ Stopped(a)' => Stopped(a) \/ live'[target[a]] = 0
  PROVE  CalmJobs
<1>1. ASSUME NEW j \in Jobs, j # a
      PROVE  /\ Unstarted(j)' => Unstarted(j) /\ target'[j] = target[j]
             /\ Busy(j)' => Busy(j) /\ target'[j] = target[j]
             /\ Stopped(j)' => Stopped(j)
  <2>1. pc'[j] = pc[j] /\ target'[j] = target[j] /\ at'[j] = at[j]
    BY <1>1, ActorKinds DEF Others
  <2>2. Step(j)' = Step(j)
    BY <2>1 DEF Step, Steps
  <2>3. QED BY <2>1, <2>2 DEF Unstarted, Stopped, Pulling, Busy
<1>2. ProvisionJobs \subseteq Jobs /\ UpdateJobs \subseteq Jobs
  BY DEF Jobs
<1>3. QED BY <1>1, <1>2 DEF CalmJobs

LEMMA SameHosts == ASSUME UNCHANGED <<row, live, stopping>> PROVE \A w \in Workers : CalmAt(w)
BY DEF CalmAt, Silent

\* Where a provision goes it has not started its daemon less than before, and an
\* update gets to its pulls only from a stop.
LEMMA CalmThread ==
  ASSUME TypeOK, PlacedInv, NEW j \in Jobs, Thread(j) \/ RemoteFails(j), ~CreateWorker(j)
  PROVE  /\ j \in ProvisionJobs => (Unstarted(j)' => Unstarted(j))
         /\ j \in UpdateJobs => (Stopped(j)' => Stopped(j))
<1>a. /\ j \in Actors /\ pc \in [Actors -> Label] /\ at \in [Jobs -> Nat]
      /\ Placed(j) /\ ProvisionJobs \cap UpdateJobs = {} /\ UNCHANGED <<crowded, warned>>
  BY ThreadMoves, ActorKinds, LifecycleAssumption DEF TypeOK, PlacedInv
<1>b. at' = at => Step(j)' = Step(j)
  BY DEF Step, Steps
<1>c. Raised(j) \in {"fail", "record"}
  BY DEF Raised
<1>d. /\ j \in ProvisionJobs => Step(j) \in Unspawned \cup {"start_daemon", "wait_register", "over"}
      /\ j \in UpdateJobs =>
           Step(j) \in {"validate_ssh", "stop_daemon", "restart_daemon", "wait_register", "over"} \cup Pulls
  BY StepIs DEF Unspawned
<1> USE DEF GoTo, jobVars, pastVars, actorVars
<1>1. CASE CreateJob(j)
  BY <1>1, <1>a DEF CreateJob, Unstarted, Stopped, Pulling
<1>2. CASE Begin(j)
  <2>1. pc[j] = "begin" /\ at[j] = 1 /\ at' = at /\ pc'[j] \in {"lost", "test"}
    BY <1>2, <1>a DEF Begin, Placed
  <2>2. j \in UpdateJobs => Step(j)' \notin Pulls
    BY <2>1, <1>a, <1>b, FirstStep DEF Pulls
  <2>3. QED BY <2>1, <2>2 DEF Unstarted, Stopped, Pulling
<1>3. CASE Test(j) \/ Start(j)
  <2>1. pc[j] \in {"test", "start"} /\ at' = at /\ pc'[j] \in {"fail", "record", "start", "run"}
    BY <1>3, <1>a, <1>c DEF Test, Start
  <2>2. QED BY <1>a, <1>b, <2>1 DEF Unstarted, Stopped, Pulling, Putting
<1>4. CASE RunRemote(j)
  <2>1. /\ pc[j] = "run" /\ Step(j) \in {"validate_ssh", "bootstrap", "verify_layout"} \cup Pulls /\ Advance(j)
        /\ pc'[j] \in {"test", "ready", "succeed"}
    BY <1>4, <1>a DEF RunRemote, Advance
  <2>2. j \in UpdateJobs /\ Step(j) \notin Pulls => Step(j)' = "stop_daemon"
    BY <2>1, <1>d, StepAfter
  <2>3. j \in ProvisionJobs => Step(j) \in Unspawned
    BY <2>1, <1>d DEF Unspawned, Pulls
  <2>4. QED BY <1>a, <2>1, <2>2, <2>3 DEF Unstarted, Stopped, Pulling, Pulls
<1>5. CASE StepDone(j)
  BY <1>5, <1>a DEF StepDone, Unstarted, Stopped, Pulling
<1>6. CASE StopDaemon(j)
  <2>1. pc[j] = "run" /\ Step(j) = "stop_daemon" /\ (alias[j] => pc'[j] \in {"popload", "pkill"})
    BY <1>6, <1>a DEF StopDaemon, Decommission
  <2>2. j \notin ProvisionJobs
    BY <2>1, <1>d DEF Unspawned
  <2>3. QED BY <2>1, <2>2, <1>a DEF Stopped, Pulling, Placed
<1>7. CASE SpawnTunnel(j)
  <2>1. pc[j] = "run" /\ Step(j) \in {"establish_tunnel", "restart_daemon"} /\ pc'[j] = "find"
    BY <1>7, <1>a DEF SpawnTunnel
  <2>2. j \in ProvisionJobs => Step(j) \in Unspawned
    BY <2>1, <1>d
  <2>3. QED BY <2>1, <2>2 DEF Unstarted, Stopped, Pulling
<1>8. CASE StartDaemon(j)
  <2>1. /\ \/ pc[j] = "run" /\ Step(j) \in {"start_daemon", "restart_daemon"}
           \/ pc[j] = "daemon"
        /\ Advance(j) /\ pc'[j] \in {"test", "ready", "succeed"}
    BY <1>8, <1>a DEF StartDaemon, Advance
  <2>2. j \in ProvisionJobs => pc[j] = "run" /\ Step(j) = "start_daemon"
    BY <2>1, <1>a, <1>d DEF Placed, Unspawned
  <2>3. j \in UpdateJobs => Step(j) = "restart_daemon"
    BY <2>1, <1>a, <1>d DEF Placed, Pulls
  <2>4. j \in UpdateJobs => Step(j)' = "wait_register"
    BY <2>1, <2>3, StepAfter
  <2>5. QED BY <2>1, <2>2, <2>4 DEF Unstarted, Stopped, Pulling, Pulls
<1>9. CASE SeesRegistered(j)
  <2>1. Step(j) = "wait_register" /\ Advance(j) /\ pc'[j] \in {"test", "ready", "succeed"}
    BY <1>9, <1>a DEF SeesRegistered, Advance
  <2>2. Step(j)' = "over"
    BY <2>1, StepAfter DEF Jobs
  <2>3. QED BY <2>1, <2>2 DEF Unstarted, Stopped, Pulling, Pulls, Unspawned, Putting
<1>10. CASE WaitRaises(j) \/ Ready(j) \/ Succeed(j) \/ Fail(j)
  <2>1. pc'[j] \in {"fail", "record", "succeed", "end"}
    BY <1>10, <1>a, <1>c DEF WaitRaises, Ready, Succeed, Fail
  <2>2. QED BY <2>1 DEF Unstarted, Stopped, Pulling, Putting
<1>11. CASE Record(j) \/ RemoteFails(j)
  <2>1. pc'[j] \in {"fail", "record", "popload", "end"}
    BY <1>11, <1>a, <1>c DEF Record, RemoteFails
  <2>2. QED BY <2>1 DEF Unstarted, Stopped, Pulling, Putting
<1>12. QED
  BY <1>1, <1>2, <1>3, <1>4, <1>5, <1>6, <1>7, <1>8, <1>9, <1>10, <1>11 DEF Thread

\* The row of a new provision: nobody has this worker.
LEMMA CreateQuiet ==
  ASSUME TypeOK, Started, RowsFollow, ProvisionsApart, NotDeleted, QuietOK, NEW j \in Jobs, CreateWorker(j)
  PROVE  QuietOK'
<1>a. /\ j \in Actors /\ Busy(j) /\ Others(j) /\ pc \in [Actors -> Label] /\ row \in [Workers -> Row]
      /\ target[j] \in Workers /\ pc[j] = "create" /\ UNCHANGED <<crowded, warned>>
  BY ThreadMoves, ActorKinds DEF TypeOK, Thread, Started, CreateWorker
<1>1. UNCHANGED <<live, stopping, target>>
  BY DEF CreateWorker, hostVars, actorVars
<1>2. PICK w \in Workers : w = target[j]
  BY <1>a
<1>3. \/ row[w].here /\ pc'[j] = "refused" /\ row' = row
      \/ /\ ~row[w].here /\ pc'[j] = "job"
         /\ row' = [row EXCEPT ![w] = [here |-> TRUE, alias |-> TRUE, beat |-> "never", provision |-> "provisioning"]]
  BY <1>2, <1>a DEF CreateWorker, GoTo
<1>4. CASE row[w].here /\ pc'[j] = "refused" /\ row' = row
  <2>1. ~Unstarted(j)' /\ ~Busy(j)' /\ ~Stopped(j)'
    BY <1>4 DEF Unstarted, Busy, Stopped, Pulling, Putting
  <2>2. CalmJobs
    BY <1>a, <2>1, CalmOthers
  <2>3. QED BY <1>1, <1>4, <2>2, SameHosts, CalmKeeps
<1>5. CASE /\ ~row[w].here /\ pc'[j] = "job"
           /\ row' = [row EXCEPT ![w] = [here |-> TRUE, alias |-> TRUE, beat |-> "never", provision |-> "provisioning"]]
  <2>1. j \in ProvisionJobs /\ j \notin UpdateJobs
    BY <1>2, <1>5, <1>a, LifecycleAssumption DEF QuietOK, Jobs
  <2>2. Silent(w)
    BY <1>5 DEF QuietOK
  <2>3. ASSUME NEW p \in ProvisionJobs, p # j, Unstarted(p)'
        PROVE  Unstarted(p) /\ target[p] # w /\ target[p] \in Workers
    <3>1. p \in Jobs /\ p \in Actors
      BY ActorKinds DEF Jobs
    <3>2. pc'[p] = pc[p] /\ at'[p] = at[p]
      BY <1>a, <2>3, <3>1 DEF Others
    <3>3. Step(p)' = Step(p)
      BY <3>2 DEF Step, Steps
    <3>4. Unstarted(p)
      BY <2>3, <3>2, <3>3 DEF Unstarted
    <3>5. HasWorker(p) /\ target[p] \in Workers
      BY <3>1, <3>4, AtWork, BusyTarget
    <3>6. QED BY <1>5, <3>4, <3>5 DEF ProvisionsApart
  <2>4. ASSUME NEW u \in UpdateJobs, Busy(u)'
        PROVE  /\ Busy(u) /\ target[u] # w /\ target[u] \in Workers /\ row[target[u]].here
               /\ Stopped(u)' => live[target[u]] = 0
               /\ \A p \in ProvisionJobs : Unstarted(p) => target[p] # target[u]
    <3>1. u \in Jobs /\ u \in Actors /\ u # j
      BY <2>1, ActorKinds DEF Jobs
    <3>2. pc'[u] = pc[u] /\ at'[u] = at[u]
      BY <1>a, <3>1 DEF Others
    <3>3. Step(u)' = Step(u)
      BY <3>2 DEF Step, Steps
    <3>4. Busy(u) /\ (Stopped(u)' => Stopped(u))
      BY <1>a, <2>4, <3>2, <3>3 DEF Busy, Stopped, Pulling
    <3>5. row[target[u]].here /\ target[u] \in Workers
      BY <3>1, <3>4, BusyTarget DEF QuietOK
    <3>6. QED BY <1>5, <3>4, <3>5 DEF QuietOK
  <2>5. \A v \in Workers : v # w => row'[v] = row[v]
    BY <1>5, <1>a
  <2>6. row'[w].here /\ row'[w].provision = "provisioning"
    BY <1>5, <1>a
  <2>7. \A v \in Workers : Silent(v)' <=> Silent(v)
    BY <1>1 DEF Silent
  <2>8. ASSUME NEW v \in Workers, ~row'[v].here PROVE Silent(v)'
    BY <2>5, <2>6, <2>7, <2>8 DEF QuietOK
  <2>9. ASSUME NEW p \in ProvisionJobs, Unstarted(p)'
        PROVE  (Silent(target[p]) /\ row[target[p]].provision = "provisioning")'
    <3>1. CASE p = j
      <4>1. Silent(target[p])' /\ target'[p] = w
        BY <1>1, <1>2, <2>2, <3>1 DEF Silent
      <4>2. QED BY <2>6, <4>1
    <3>2. CASE p # j
      <4>1. PICK v \in Workers : v = target[p]
        BY <2>3, <2>9, <3>2
      <4>2. Silent(v) /\ row[v].provision = "provisioning" /\ v # w
        BY <2>3, <2>9, <3>2, <4>1 DEF QuietOK
      <4>3. Silent(v)' /\ row'[v].provision = "provisioning" /\ target'[p] = v
        BY <1>1, <2>5, <2>7, <4>1, <4>2
      <4>4. QED BY <4>3
    <3>3. QED BY <3>1, <3>2
  <2>10. ASSUME NEW u \in UpdateJobs, Busy(u)'
        PROVE  (/\ row[target[u]].here
                /\ \A p \in ProvisionJobs : Unstarted(p) => target[p] # target[u]
                /\ Stopped(u) => live[target[u]] = 0)'
    <3>1. target[u] # w /\ row'[target[u]] = row[target[u]] /\ row[target[u]].here
      BY <2>4, <2>5, <2>10
    <3>2. \A p \in ProvisionJobs : Unstarted(p)' => target[p] # target[u]
      BY <1>2, <2>3, <2>4, <2>10
    <3>3. QED BY <1>1, <2>4, <2>10, <3>1, <3>2
  <2>11. QED BY <2>8, <2>9, <2>10 DEF QuietOK
<1>6. QED BY <1>3, <1>4, <1>5

LEMMA ThreadQuiet ==
  ASSUME TypeOK, Started, RowsFollow, ProvisionsApart, NotDeleted, CrowdInv, PlacedInv, QuietOK,
         NEW j \in Jobs, Thread(j) \/ RemoteFails(j)
  PROVE  QuietOK'
<1>a. /\ j \in Actors /\ Busy(j) /\ Others(j) /\ UNCHANGED <<target, crowded, warned>> /\ row \in [Workers -> Row]
      /\ live \in [Workers -> Nat] /\ Placed(j) /\ ProvisionJobs \cap UpdateJobs = {}
  BY ThreadMoves, ActorKinds, LifecycleAssumption DEF TypeOK, PlacedInv
<1>b. PICK w \in Workers : w = target[j]
  BY <1>a, BusyTarget
<1>c. ~CreateWorker(j) => CalmJobs
  BY <1>a, CalmThread, CalmOthers
\* No other provision of the same worker.
<1>d. j \in ProvisionJobs /\ pc[j] # "create" /\ ~Unstarted(j)' /\ CalmJobs => row[w].here /\ NoUnstarted(w)'
  <2> SUFFICES ASSUME j \in ProvisionJobs, pc[j] # "create", ~Unstarted(j)', CalmJobs
               PROVE  row[w].here /\ NoUnstarted(w)'
    OBVIOUS
  <2>1. HasWorker(j)
    BY <1>a DEF Busy, RowsFollow, HasWorker
  <2>2. ASSUME NEW p \in ProvisionJobs, Unstarted(p)' PROVE target'[p] # w
    <3>1. Unstarted(p) /\ target'[p] = target[p] /\ p # j
      BY <2>2 DEF CalmJobs
    <3>2. HasWorker(p)
      BY <3>1, AtWork
    <3>3. QED BY <1>b, <2>1, <3>1, <3>2 DEF ProvisionsApart
  <2>3. QED BY <1>b, <2>1, <2>2 DEF ProvisionsApart, NoUnstarted
<1>1. CASE CreateWorker(j)
  BY <1>1, CreateQuiet
<1>2. CASE StartDaemon(j)
  <2>1. /\ UNCHANGED <<row, stopping>> /\ live' \in {live, [live EXCEPT ![w] = @ + 1]} /\ pc[j] # "create"
        /\ \/ pc[j] = "run" /\ Step(j) \in {"start_daemon", "restart_daemon"}
           \/ pc[j] = "daemon"
        /\ Advance(j)
    BY <1>2, <1>b DEF StartDaemon
  <2>2. pc'[j] \in {"test", "ready", "succeed"}
    BY <2>1, <1>a DEF Advance, GoTo, TypeOK
  <2>3. CalmJobs
    <3>1. ~CreateWorker(j)
      BY <2>1 DEF CreateWorker
    <3>2. QED BY <1>c, <3>1
  <2>4. j \in ProvisionJobs => Step(j) = "start_daemon" /\ pc[j] = "run" /\ Step(j)' = "wait_register"
    BY <2>1, <1>a, StepIs, StepAfter DEF Placed
  <2>5. j \in UpdateJobs => Step(j) = "restart_daemon" /\ Step(j)' = "wait_register"
    BY <2>1, <1>a, StepIs, StepAfter DEF Placed, Pulls
  <2>6. ~Unstarted(j)' /\ ~Stopped(j)'
    BY <2>2, <2>4, <2>5 DEF Jobs, Unstarted, Stopped, Pulling, Pulls, Putting, Unspawned
  <2>7. row[w].here /\ NoUnstarted(w)' /\ NoStopped(w)'
    <3>1. CASE j \in ProvisionJobs
      <4>1. row[w].here /\ NoUnstarted(w)'
        BY <1>d, <2>1, <2>3, <2>6, <3>1
      <4>2. Unstarted(j)
        BY <2>4, <3>1 DEF Unstarted
      <4>3. ASSUME NEW u \in UpdateJobs, Stopped(u)' PROVE target'[u] # w
        <5>1. Busy(u) /\ target'[u] = target[u]
          <6>1. Busy(u)'
            BY <4>3 DEF Stopped, Pulling, Busy
          <6>2. QED BY <6>1, <2>3 DEF CalmJobs
        <5>2. target[j] # target[u]
          BY <3>1, <4>2, <5>1 DEF QuietOK
        <5>3. QED BY <1>b, <5>1, <5>2
      <4>4. QED BY <4>1, <4>3 DEF NoStopped
    <3>2. CASE j \in UpdateJobs
      <4>1. row[w].here /\ \A p \in ProvisionJobs : Unstarted(p) => target[p] # w
        BY <1>a, <1>b, <3>2 DEF QuietOK
      <4>2. NoUnstarted(w)'
        BY <4>1, <2>3 DEF CalmJobs, NoUnstarted
      <4>3. ASSUME NEW u \in UpdateJobs, Stopped(u)' PROVE target'[u] # w
        <5>1. Busy(u) /\ target'[u] = target[u] /\ u # j
          <6>1. Busy(u)'
            BY <4>3 DEF Stopped, Pulling, Busy
          <6>2. QED BY <6>1, <2>3, <2>6, <4>3 DEF CalmJobs
        <5>2. u \notin crowded
          BY <4>3, <1>a DEF Stopped
        <5>3. QED BY <1>a, <1>b, <3>2, <5>1, <5>2 DEF CrowdInv
      <4>4. QED BY <4>1, <4>2, <4>3 DEF NoStopped
    <3>3. QED BY <3>1, <3>2 DEF Jobs
  <2>8. ASSUME NEW v \in Workers PROVE CalmAt(v)
    <3>1. CASE v = w
      BY <2>1, <2>7, <3>1 DEF CalmAt
    <3>2. CASE v # w
      <4>1. live'[v] = live[v] /\ stopping' = stopping /\ row' = row
        BY <2>1, <1>a, <3>2
      <4>2. QED BY <4>1 DEF CalmAt, Silent
    <3>3. QED BY <3>1, <3>2
  <2>9. QED BY <2>3, <2>8, CalmKeeps
<1>3. CASE Ready(j) \/ Fail(j)
  <2>1. /\ pc[j] \in {"ready", "fail"} /\ pc'[j] \in {"succeed", "record"}
        /\ UNCHANGED <<live, stopping>>
        /\ row' \in {WithProvision(w, "ready"), WithProvision(w, "failed")}
    BY <1>3, <1>a, <1>b DEF Ready, Fail, GoTo, hostVars, TypeOK
  <2>2. CalmJobs
    BY <1>3, <1>c DEF CreateWorker, Ready, Fail
  <2>3. ~Unstarted(j)'
    BY <2>1 DEF Unstarted, Putting
  <2>4. NoUnstarted(w)'
    <3>1. CASE j \in ProvisionJobs
      BY <1>d, <2>1, <2>2, <2>3, <3>1
    <3>2. CASE j \in UpdateJobs
      <4>1. \A p \in ProvisionJobs : Unstarted(p) => target[p] # w
        BY <1>a, <1>b, <3>2 DEF QuietOK
      <4>2. QED BY <4>1, <2>2 DEF CalmJobs, NoUnstarted
    <3>3. QED BY <3>1, <3>2 DEF Jobs
  <2>5. ASSUME NEW v \in Workers PROVE CalmAt(v)
    <3>1. /\ row'[v].here = row[v].here
          /\ v # w => row'[v] = row[v]
      BY <2>1, <1>a DEF WithProvision, Row
    <3>2. QED BY <2>1, <2>4, <3>1 DEF CalmAt, Silent
  <2>6. QED BY <2>2, <2>5, CalmKeeps
<1>4. ASSUME ~CreateWorker(j), UNCHANGED <<row, live, stopping>> PROVE QuietOK'
  BY <1>4, <1>c, SameHosts, CalmKeeps
<1>5. CASE CreateJob(j) \/ Begin(j) \/ Test(j) \/ Start(j) \/ RemoteFails(j)
  <2>1. ~CreateWorker(j)
    BY <1>5 DEF CreateJob, Begin, Test, Start, RemoteFails, CreateWorker
  <2>2. QED BY <1>4, <1>5, <2>1 DEF CreateJob, Begin, Test, Start, RemoteFails, hostVars
<1>6. CASE RunRemote(j) \/ StopDaemon(j) \/ StepDone(j) \/ SpawnTunnel(j)
  <2>1. ~CreateWorker(j)
    BY <1>6 DEF RunRemote, StopDaemon, StepDone, SpawnTunnel, CreateWorker
  <2>2. QED BY <1>4, <1>6, <2>1 DEF RunRemote, StopDaemon, StepDone, SpawnTunnel, hostVars
<1>7. CASE SeesRegistered(j) \/ WaitRaises(j) \/ Succeed(j) \/ Record(j)
  <2>1. ~CreateWorker(j)
    BY <1>7 DEF SeesRegistered, WaitRaises, Succeed, Record, CreateWorker
  <2>2. QED BY <1>4, <1>7, <2>1 DEF SeesRegistered, WaitRaises, Succeed, Record, hostVars
<1>8. QED BY <1>1, <1>2, <1>3, <1>5, <1>6, <1>7 DEF Thread

\* An update that has stopped its daemon finds none.
LEMMA CallQuiet ==
  ASSUME TypeOK, Started, Undisturbed, PlacedInv, QuietOK, NEW a \in Actors, Call(a)
  PROVE  QuietOK'
<1>a. /\ Busy(a) /\ Others(a) /\ UNCHANGED <<row, at, target, ret, crowded>> /\ warned \subseteq warned'
      /\ pc \in [Actors -> Label] /\ live \in [Workers -> Nat] /\ stopping \in [Workers -> Nat]
  BY CallMoves DEF actorVars, TypeOK
<1>b. a \in Jobs /\ Placed(a) /\ ProvisionJobs \cap UpdateJobs = {}
  BY <1>a, ActorKinds, LifecycleAssumption DEF Busy, Undisturbed, PlacedInv, Actors
<1>c. PICK w \in Workers : w = target[a]
  BY <1>a, BusyTarget
<1>d. Step(a)' = Step(a)
  BY <1>a DEF Step, Steps
<1>1. ASSUME UNCHANGED <<row, live, stopping>>, a \in ProvisionJobs => (Unstarted(a)' => Unstarted(a)),
             a \in UpdateJobs => ~Stopped(a)'
      PROVE  QuietOK'
  BY <1>1, <1>a, CalmOthers, SameHosts, CalmKeeps
<1>2. CASE FindPid(a) \/ Load(a)
  <2>1. /\ UNCHANGED <<live, stopping>> /\ pc[a] \in {"find", "putload", "popload"}
        /\ pc'[a] \in {"putload", "putsave", "popsave"} /\ (pc[a] = "popload" => pc'[a] = "popsave")
    BY <1>2, <1>a DEF FindPid, Load, GoTo, hostVars
  <2>2. QED BY <1>1, <1>a, <2>1 DEF Unstarted, Stopped, Pulling, Putting
<1>3. CASE SaveRecord(a)
  <2>1. UNCHANGED <<live, stopping>> /\ pc[a] = "putsave" /\ pc'[a] = ret[a]
    BY <1>3, <1>a DEF SaveRecord, GoTo, hostVars
  <2>2. QED BY <1>1, <1>a, <1>b, <2>1 DEF Unstarted, Stopped, Pulling, Putting, Placed
<1>4. CASE RemoveRecord(a) \/ KillTunnel(a)
  <2>1. UNCHANGED <<live, stopping>> /\ pc'[a] \in {"signal", "end", "pkill"}
    BY <1>4, <1>a DEF RemoveRecord, KillTunnel, GoTo, hostVars
  <2>2. QED BY <1>1, <1>a, <2>1 DEF Unstarted, Stopped, Pulling, Putting
<1>5. CASE Pkill(a) /\ Fault("ssh")
  <2>1. UNCHANGED <<live, stopping>> /\ a \in warned' /\ pc[a] = "pkill"
    BY <1>5, <1>a DEF Pkill, hostVars, Fault
  <2>2. a \notin ProvisionJobs /\ ~Stopped(a)'
    BY <2>1, <1>a, <1>b DEF Placed, Stopped
  <2>3. QED BY <1>1, <1>a, <2>1, <2>2
<1>6. CASE Pkill(a) /\ ~Fault("ssh")
  <2>1. /\ live' = [live EXCEPT ![w] = 0] /\ stopping' = [stopping EXCEPT ![w] = @ + live[w]]
        /\ pc[a] = "pkill"
    BY <1>6, <1>c DEF Pkill
  <2>2. a \notin ProvisionJobs /\ live'[target[a]] = 0
    BY <2>1, <1>a, <1>b, <1>c DEF Placed
  <2>3. CalmJobs
    BY <2>2, <1>a, CalmOthers
  <2>4. ASSUME NEW v \in Workers PROVE CalmAt(v)
    <3>1. /\ row' = row /\ (live[v] = 0 => live'[v] = 0)
          /\ live[v] = 0 /\ stopping[v] = 0 => stopping'[v] = 0
      BY <2>1, <1>a
    <3>2. QED BY <3>1 DEF CalmAt, Silent
  <2>5. QED BY <2>3, <2>4, CalmKeeps
<1>7. QED BY <1>2, <1>3, <1>4, <1>5, <1>6 DEF Call

\* The host of a worker without a daemon does nothing to its row.
LEMMA HostQuiet ==
  ASSUME TypeOK, Started, QuietOK, NEW w \in Workers, Host(w)
  PROVE  QuietOK'
<1>a. /\ row \in [Workers -> Row] /\ stopping \in [Workers -> Nat] /\ live \in [Workers -> Nat]
      /\ UNCHANGED <<pc, at, target, live, crowded, warned>>
  BY HostMoves DEF TypeOK, actorVars, jobVars, pastVars
<1>1. CalmJobs
  <2>1. \A j \in Jobs : Step(j)' = Step(j)
    BY <1>a DEF Step, Steps
  <2>2. QED BY <1>a, <2>1 DEF CalmJobs, Unstarted, Stopped, Pulling, Busy, Jobs
<1>2. \A v \in Workers : v # w => stopping'[v] = stopping[v] /\ row'[v] = row[v]
  <2>1. CASE RegisterWorker(w) \/ ClaimBatch(w)
    BY <2>1, <1>a DEF RegisterWorker, ClaimBatch, DaemonCalls
  <2>2. CASE Assign(w) \/ EndBatch(w)
    BY <2>2 DEF Assign, EndBatch
  <2>3. CASE Exit(w) \/ GoStale(w)
    BY <2>3, <1>a DEF Exit, GoStale, hostVars
  <2>4. QED BY <2>1, <2>2, <2>3 DEF Host
<1>3. /\ row[w].here => row'[w].here
      /\ Silent(w) => stopping'[w] = 0 /\ row'[w].provision = row[w].provision
  <2>1. CASE RegisterWorker(w)
    <3>1. row'[w].here /\ ~Silent(w)
      BY <2>1, <1>a DEF RegisterWorker, DaemonCalls, Row, Silent
    <3>2. QED BY <3>1
  <2>2. CASE ClaimBatch(w)
    BY <2>2, <1>a DEF ClaimBatch, DaemonCalls, Silent
  <2>3. CASE Assign(w) \/ EndBatch(w)
    BY <2>3 DEF Assign, EndBatch, Silent
  <2>4. CASE Exit(w)
    BY <2>4, <1>a DEF Exit, Silent
  <2>5. CASE GoStale(w)
    <3>1. row'[w].here = row[w].here /\ row'[w].provision = row[w].provision /\ stopping' = stopping
      BY <2>5, <1>a DEF GoStale, Row, hostVars
    <3>2. QED BY <3>1 DEF Silent
  <2>6. QED BY <2>1, <2>2, <2>3, <2>4, <2>5 DEF Host
<1>4. ASSUME NEW v \in Workers PROVE CalmAt(v)
  BY <1>a, <1>2, <1>3 DEF CalmAt, Silent
<1>5. QED BY <1>1, <1>4, CalmKeeps

\* A new update finds its worker registered, so no provision of it is unstarted.
LEMMA UpdateQuiet ==
  ASSUME TypeOK, Started, QuietOK, NEW j \in UpdateJobs, NEW w \in Workers, RequestUpdate(j, w)
  PROVE  QuietOK'
<1>a. /\ j \in Actors /\ j \notin ProvisionJobs /\ Others(j) /\ pc'[j] = "job" /\ target'[j] = w
      /\ UNCHANGED <<row, live, stopping, at>>
  BY RequestMoves, ActorKinds, LifecycleAssumption DEF hostVars, Jobs
<1>b. row[w].here /\ row[w].provision # "provisioning" /\ crowded \subseteq crowded' /\ warned' = warned
  BY DEF RequestUpdate
<1>1. ASSUME NEW i \in Jobs, i # j
      PROVE  target'[i] = target[i] /\ (Unstarted(i)' <=> Unstarted(i)) /\ (Busy(i)' <=> Busy(i)) /\ (Stopped(i)' => Stopped(i))
  <2>1. pc'[i] = pc[i] /\ target'[i] = target[i] /\ at'[i] = at[i]
    BY <1>a, <1>1, ActorKinds DEF Others
  <2>2. Step(i)' = Step(i)
    BY <2>1 DEF Step, Steps
  <2>3. QED BY <1>b, <2>1, <2>2 DEF Unstarted, Stopped, Pulling, Busy
<1>2. \A i \in Jobs : i # j => /\ target'[i] = target[i] /\ (Unstarted(i)' <=> Unstarted(i))
                               /\ (Busy(i)' <=> Busy(i)) /\ (Stopped(i)' => Stopped(i))
  BY <1>1
<1>3. ASSUME NEW v \in Workers, ~row'[v].here PROVE Silent(v)'
  BY <1>a, <1>3 DEF QuietOK, Silent
<1>4. ASSUME NEW p \in ProvisionJobs, Unstarted(p)'
      PROVE  (Silent(target[p]) /\ row[target[p]].provision = "provisioning")' /\ target'[p] # w
  <2>1. p \in Jobs /\ p # j
    BY <1>a DEF Jobs
  <2>2. Unstarted(p) /\ target'[p] = target[p]
    BY <1>2, <1>4, <2>1
  <2>3. Silent(target[p]) /\ row[target[p]].provision = "provisioning"
    BY <2>2 DEF QuietOK
  <2>4. QED BY <1>a, <1>b, <2>2, <2>3 DEF Silent
<1>5. ASSUME NEW u \in UpdateJobs, Busy(u)'
      PROVE  (/\ row[target[u]].here
              /\ \A p \in ProvisionJobs : Unstarted(p) => target[p] # target[u]
              /\ Stopped(u) => live[target[u]] = 0)'
  <2>1. CASE u = j
    <3>1. ~Stopped(u)' /\ target'[u] = w /\ row'[w].here
      BY <1>a, <1>b, <2>1 DEF Stopped, Pulling
    <3>2. QED BY <1>4, <3>1
  <2>2. CASE u # j
    <3>1. Busy(u) /\ target'[u] = target[u] /\ (Stopped(u)' => Stopped(u))
      BY <1>2, <1>5, <2>2 DEF Jobs
    <3>2. /\ row[target[u]].here
          /\ \A p \in ProvisionJobs : Unstarted(p) => target[p] # target[u]
          /\ Stopped(u) => live[target[u]] = 0
      BY <3>1 DEF QuietOK
    <3>3. \A p \in ProvisionJobs : Unstarted(p)' => Unstarted(p) /\ target'[p] = target[p]
      BY <1>2, <1>a DEF Jobs
    <3>4. QED BY <1>a, <3>1, <3>2, <3>3
  <2>3. QED BY <2>1, <2>2
<1>6. QED BY <1>3, <1>4, <1>5 DEF QuietOK

\* Who passes the test of a request beside another update is noted, and so is that one.
LEMMA CrowdStep == TypeOK /\ CrowdInv /\ [Next]_vars => CrowdInv'
<1> SUFFICES ASSUME TypeOK, CrowdInv, [Next]_vars PROVE CrowdInv'
  OBVIOUS
<1>u. UpdateJobs \subseteq Jobs /\ UpdateJobs \subseteq Actors
  BY DEF Jobs, Actors
<1>1. ASSUME NEW a \in Actors, Others(a), crowded \subseteq crowded',
             a \in UpdateJobs => (Busy(a)' => Busy(a) /\ target'[a] = target[a])
      PROVE  CrowdInv'
  <2>1. \A i \in UpdateJobs : Busy(i)' => Busy(i) /\ target'[i] = target[i]
    BY <1>1, <1>u DEF Others, Busy
  <2>2. QED BY <1>1, <2>1 DEF CrowdInv
<1>2. ASSUME UNCHANGED <<target, crowded>>, \A a \in Actors : pc'[a] \in {pc[a], "lost"} PROVE CrowdInv'
  <2>1. \A i \in UpdateJobs : Busy(i)' => Busy(i)
    BY <1>2, <1>u DEF Busy
  <2>2. QED BY <1>2, <2>1 DEF CrowdInv
<1>3. ASSUME NEW j \in UpdateJobs, NEW w \in Workers, RequestUpdate(j, w) PROVE CrowdInv'
  <2> DEFINE beside == {i \in UpdateJobs : Busy(i) /\ target[i] = w}
  <2>1. Others(j) /\ target'[j] = w
    BY <1>3, RequestMoves
  <2>2. crowded' = IF beside = {} THEN crowded ELSE crowded \cup beside \cup {j}
    BY <1>3 DEF RequestUpdate
  <2>3. ASSUME NEW i \in UpdateJobs, i # j, Busy(i)' PROVE Busy(i) /\ target'[i] = target[i]
    BY <2>1, <2>3, <1>u DEF Others, Busy
  <2>4. ASSUME NEW i \in UpdateJobs, NEW k \in UpdateJobs, Busy(i)', Busy(k)', target'[i] = target'[k], i # k
        PROVE  i \in crowded'
    <3>1. CASE i # j /\ k # j
      <4>1. i \in crowded
        BY <2>3, <2>4, <3>1 DEF CrowdInv
      <4>2. QED BY <2>2, <4>1
    <3>2. CASE i = j
      <4>1. k \in beside
        BY <2>1, <2>3, <2>4, <3>2
      <4>2. QED BY <2>2, <3>2, <4>1
    <3>3. CASE k = j
      <4>1. i \in beside
        BY <2>1, <2>3, <2>4, <3>3
      <4>2. QED BY <2>2, <4>1
    <3>4. QED BY <3>1, <3>2, <3>3
  <2>5. QED BY <2>4 DEF CrowdInv
<1>4. ASSUME NEW j \in ProvisionJobs, NEW w \in Workers, RequestProvision(j, w) PROVE CrowdInv'
  <2>1. j \in Actors /\ j \notin UpdateJobs
    BY ActorKinds, LifecycleAssumption
  <2>2. QED BY <1>1, <1>4, <2>1, RequestMoves
<1>5. ASSUME NEW h \in Handlers, Others(h), UNCHANGED crowded PROVE CrowdInv'
  <2>1. h \in Actors /\ h \notin UpdateJobs
    BY ActorKinds, LifecycleAssumption DEF Jobs
  <2>2. QED BY <1>1, <1>5, <2>1
<1>6. ASSUME NEW c \in Cancels, NEW j \in Jobs, RequestCancel(c, j) PROVE CrowdInv'
  BY <1>5, <1>6, RequestMoves DEF Handlers
<1>7. ASSUME NEW d \in Deletes, NEW w \in Workers, RequestDelete(d, w) PROVE CrowdInv'
  BY <1>5, <1>7, RequestMoves DEF Handlers
<1>8. ASSUME NEW j \in Jobs, Thread(j) \/ RemoteFails(j) PROVE CrowdInv'
  BY <1>1, <1>8, ThreadMoves, ActorKinds
<1>9. ASSUME NEW a \in Actors, Call(a) PROVE CrowdInv'
  BY <1>1, <1>9, CallMoves DEF actorVars
<1>10. ASSUME NEW h \in Handlers, Handler(h) \/ (h \in Deletes /\ Deletion(h)) PROVE CrowdInv'
  BY <1>5, <1>10, HandlerMoves
<1>11. ASSUME (\E w \in Workers : Host(w)) \/ UNCHANGED vars PROVE CrowdInv'
  BY <1>2, <1>11, HostMoves DEF vars, jobVars, pastVars, actorVars
<1>12. ASSUME Restart PROVE CrowdInv'
  BY <1>2, <1>12, RestartMoves DEF jobVars, pastVars, actorVars
<1>13. QED
  BY <1>3, <1>4, <1>6, <1>7, <1>8, <1>9, <1>10, <1>11, <1>12, ActorKinds DEF Next, Handlers

LEMMA QuietStep ==
  ASSUME TypeOK, Started, RowsFollow, ProvisionsApart, CrowdInv, PlacedInv, QuietInv, [Next]_vars
  PROVE  QuietInv'
<1> SUFFICES ASSUME Undisturbed' PROVE QuietOK'
  BY DEF QuietInv
<1>a. Undisturbed /\ NotDeleted /\ QuietOK
  <2>1. \A h \in Handlers : h \in Actors /\ pc'[h] = "idle"
    BY ActorKinds DEF Undisturbed
  <2>2. Undisturbed
    BY <2>1, Onward DEF Undisturbed
  <2>3. QED BY <2>2 DEF QuietInv, Undisturbed, NotDeleted, Handlers
<1>b. \A h \in Handlers : pc'[h] = "idle" /\ ~Busy(h)
  BY <1>a DEF Undisturbed, Busy
<1>1. ASSUME NEW j \in ProvisionJobs, NEW w \in Workers, RequestProvision(j, w) PROVE QuietOK'
  <2>1. /\ j \in Actors /\ j \notin UpdateJobs /\ Others(j) /\ pc'[j] = "create"
        /\ UNCHANGED <<row, live, stopping, crowded, warned>>
    BY <1>1, RequestMoves, ActorKinds, LifecycleAssumption DEF hostVars
  <2>2. ~Unstarted(j)'
    BY <2>1 DEF Unstarted, Putting
  <2>3. CalmJobs
    BY <2>1, <2>2, CalmOthers
  <2>4. QED BY <1>a, <2>1, <2>3, SameHosts, CalmKeeps
<1>2. ASSUME NEW j \in UpdateJobs, NEW w \in Workers, RequestUpdate(j, w) PROVE QuietOK'
  BY <1>2, <1>a, UpdateQuiet
<1>3. ~ \E c \in Cancels, j \in Jobs : RequestCancel(c, j)
  BY <1>b, RequestMoves DEF Handlers
<1>4. ~ \E d \in Deletes, w \in Workers : RequestDelete(d, w)
  <2>1. \A d \in Deletes, w \in Workers : RequestDelete(d, w) => pc'[d] \in {"add", "provision"}
    BY RequestMoves
  <2>2. QED BY <1>b, <2>1 DEF Handlers
<1>5. ASSUME NEW j \in Jobs, Thread(j) \/ RemoteFails(j) PROVE QuietOK'
  BY <1>5, <1>a, ThreadQuiet
<1>6. ASSUME NEW a \in Actors, Call(a) PROVE QuietOK'
  BY <1>6, <1>a, CallQuiet
<1>7. ~ \E h \in Handlers : Handler(h) \/ (h \in Deletes /\ Deletion(h))
  BY <1>b, HandlerMoves
<1>8. ASSUME NEW w \in Workers, Host(w) PROVE QuietOK'
  BY <1>8, <1>a, HostQuiet
<1>9. ASSUME UNCHANGED <<row, live, stopping, at, target, crowded, warned>>, \A a \in Actors : pc'[a] \in {pc[a], "lost"} PROVE QuietOK'
  <2>1. \A j \in Jobs : Step(j)' = Step(j)
    BY <1>9 DEF Step, Steps
  <2>2. \A j \in Jobs : j \in Actors /\ pc'[j] \in {pc[j], "lost"}
    BY <1>9, ActorKinds
  <2>3. \A j \in Jobs : (Unstarted(j)' => Unstarted(j)) /\ (Busy(j)' => Busy(j)) /\ (Stopped(j)' => Stopped(j))
    BY <1>9, <2>1, <2>2 DEF Unstarted, Stopped, Pulling, Busy, Putting
  <2>4. CalmJobs
    BY <1>9, <2>3 DEF CalmJobs, Jobs
  <2>5. QED BY <1>9, <1>a, <2>4, SameHosts, CalmKeeps
<1>10. ASSUME Restart PROVE QuietOK'
  BY <1>9, <1>10, RestartMoves DEF hostVars, jobVars, pastVars, actorVars
<1>11. ASSUME UNCHANGED vars PROVE QuietOK'
  BY <1>9, <1>11 DEF vars, hostVars, jobVars, pastVars, actorVars
<1>12. QED
  BY <1>1, <1>2, <1>3, <1>4, <1>5, <1>6, <1>7, <1>8, <1>10, <1>11, ActorKinds DEF Next

\* An update pulls code only when every daemon of the worker has been told to stop, unless
\* its own stop failed, another update of the worker was in progress beside it, or a cancel
\* or a delete came; whatever else fails and whoever provisions: a provision of the worker
\* has either started its daemon before the update came, which then stops it, or keeps the
\* update out by the row it made (worker_updater.py run_job, server.py
\* POST /api/workers/<id>/update).
THEOREM UpdatesPullStopped == Spec => []PullsFollowStop
<1>1. Init => PlacedInv /\ QuietInv /\ CrowdInv
  <2>1. Init => QuietInv /\ CrowdInv
    <3> SUFFICES ASSUME Init PROVE QuietOK /\ CrowdInv
      BY DEF QuietInv
    <3>1. \A w \in Workers : ~row[w].here => Silent(w)
      BY DEF Init, Silent
    <3>2. \A j \in Jobs : ~Unstarted(j) /\ ~Busy(j)
      BY ActorKinds DEF Init, Unstarted, Busy, Putting
    <3>3. QED BY <3>1, <3>2 DEF QuietOK, CrowdInv, Jobs
  <2>2. QED BY <2>1, InitPlaced
<1>2. TypeOK /\ LifecycleInv /\ PlacedInv /\ QuietInv /\ CrowdInv /\ [Next]_vars
        => PlacedInv' /\ QuietInv' /\ CrowdInv'
  BY PlacedStep, QuietStep, CrowdStep DEF LifecycleInv
<1>3. Started /\ QuietInv => PullsFollowStop
  BY DEF QuietInv, QuietOK, PullsFollowStop, Stopped, Pulling, Busy
<1>4. LifecycleInv => Started
  BY DEF LifecycleInv
<1>5. QED BY <1>1, <1>2, <1>3, <1>4, LifecycleHolds, PTL DEF Spec
=============================================================================
