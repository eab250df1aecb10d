-------------------------- MODULE WorkerLifecycle --------------------------
(***************************************************************************)
(* Provisioning, updating, cancelling and deleting workers.  A request is  *)
(* answered by a handler thread; it starts a job thread that runs its      *)
(* steps over ssh.  Threads share the workers table, the job tables, the   *)
(* set of cancelled jobs, the provisioner's current job and tunnels.json.  *)
(*                                                                         *)
(* An actor is a job (its request, then its thread), a cancel request or a *)
(* delete request.  pc is where it stands between two accesses to shared   *)
(* state; the reads a handler makes in a row, with no write of its own in  *)
(* between, are one step.  Hosts, ssh, the daemons, the tunnels and the    *)
(* batches routed to a worker are the environment.                         *)
(***************************************************************************)
EXTENDS Naturals, Sequences, FiniteSets

CONSTANTS
  Workers, ProvisionJobs, UpdateJobs, Cancels, Deletes,
  Registered,   \* the workers registered and idle at the start, a sequence without repetition
  Tunnel,       \* connection mode: reverse tunnel, else direct
  Fresh,        \* provisioning mode: fresh, else join
  Targets,      \* what an update pulls
  Work,         \* whether batches are created for the workers
  MaxRequests,  \* how many requests come in all
  MaxBusy,      \* how many jobs and requests are in progress at a time
  FaultKinds, MaxFaults,
  None

Jobs     == ProvisionJobs \cup UpdateJobs
Handlers == Cancels \cup Deletes
Actors   == Jobs \cup Handlers

ASSUME LifecycleAssumption ==
  /\ ProvisionJobs \cap UpdateJobs = {}
  /\ Cancels \cap Deletes = {}
  /\ Jobs \cap Handlers = {}
  /\ Registered \in Seq(Workers)
  /\ \A i, k \in DOMAIN Registered : Registered[i] = Registered[k] => i = k
  /\ IsFiniteSet(Jobs) /\ IsFiniteSet(Handlers)
  /\ Tunnel \in BOOLEAN /\ Fresh \in BOOLEAN /\ Work \in BOOLEAN
  /\ Targets \subseteq {"aeo", "harbor"} /\ Targets # {}
  /\ FaultKinds \subseteq {"ssh", "nostart", "restart"}
  /\ MaxFaults \in Nat /\ MaxBusy \in Nat /\ MaxRequests \in Nat
  /\ None \notin Workers \cup Jobs

VARIABLES
  row,        \* workers table
  live,       \* daemons of a worker that run
  stopping,   \* daemons that got SIGTERM and finish the pass they are in
  hold,       \* the batch routed to a worker
  status,     \* status of a job's row
  birth,      \* order of created_at
  pc, at,     \* where an actor stands; the step of a job
  target,     \* worker of an actor
  victim,     \* job a handler cancels
  alias,      \* whether the worker read had an ssh alias
  known,      \* whether the worker an update read had reported its shared root
  ret,        \* where an actor goes after decommission_worker or a tunnel call
  cancelled,  \* the _cancelled sets
  current,    \* Provisioner._current_job_id
  late,       \* steps a job started after it was cancelled (history)
  crowded,    \* updates in progress beside another of their worker (history)
  warned,     \* whose stop of a daemon failed and left a warning (history)
  file,       \* tunnels.json
  copy, pid,  \* an actor's copy of the file, the process id it holds
  procs,      \* tunnel processes that run
  spawned,    \* worker of each process ever started, in order
  faults

pastVars   == <<late, crowded, warned>>
jobVars    == <<status, birth, at, known, pastVars>>
actorVars  == <<target, victim, alias, ret>>
hostVars   == <<live, stopping, hold>>
tunnelVars == <<file, copy, pid, procs, spawned>>
vars == <<row, hostVars, jobVars, pc, actorVars, cancelled, current, tunnelVars, faults>>

Active == {"pending", "running"}
Ended  == {"succeeded", "failed", "cancelled"}
Calls  == {"popload", "popsave", "signal", "pkill", "find", "putload", "putsave"}

Status == {"absent", "deleted"} \cup Active \cup Ended
Label  == {"idle", "refused", "end", "lost", "create", "job", "begin", "test", "start", "run",
           "stepdone", "daemon", "ready", "succeed", "fail", "record",
           "add", "write", "note", "provision", "clean", "delete"} \cup Calls
Return == {"end", "stepdone", "daemon", "write", "delete"}

Row   == [here : BOOLEAN, alias : BOOLEAN, beat : {"never", "fresh", "stale"},
          provision : {"none", "provisioning", "ready", "failed"}]
NoRow == [here |-> FALSE, alias |-> FALSE, beat |-> "never", provision |-> "none"]

TypeOK ==
  /\ row \in [Workers -> Row]
  /\ live \in [Workers -> Nat]
  /\ stopping \in [Workers -> Nat]
  /\ hold \in [Workers -> {"none", "queued", "running", "stranded"}]
  /\ status \in [Jobs -> Status]
  /\ birth \in [Jobs -> Nat]
  /\ pc \in [Actors -> Label]
  /\ at \in [Jobs -> Nat]
  /\ target \in [Actors -> Workers \cup {None}]
  /\ victim \in [Handlers -> Jobs \cup {None}]
  /\ alias \in [Actors -> BOOLEAN]
  /\ known \in [Jobs -> BOOLEAN]
  /\ ret \in [Actors -> Return]
  /\ cancelled \subseteq Jobs
  /\ current \in Jobs \cup {None}
  /\ late \in [Jobs -> Nat]
  /\ crowded \subseteq UpdateJobs
  /\ warned \subseteq Actors
  /\ file \in [Workers -> Nat]
  /\ copy \in [Actors -> [Workers -> Nat]]
  /\ pid \in [Actors -> Nat]
  /\ procs \subseteq Nat
  /\ spawned \in Seq(Workers)
  /\ faults \in Nat

---------------------------------------------------------------------------

Init ==
  /\ row = [w \in Workers |->
       IF \E i \in DOMAIN Registered : Registered[i] = w
       THEN [here |-> TRUE, alias |-> TRUE, beat |-> "fresh", provision |-> "ready"]
       ELSE NoRow]
  /\ live = [w \in Workers |-> IF row[w].here THEN 1 ELSE 0]
  /\ stopping = [w \in Workers |-> 0]
  /\ hold = [w \in Workers |-> "none"]
  /\ status = [j \in Jobs |-> "absent"]
  /\ birth = [j \in Jobs |-> 0]
  /\ pc = [a \in Actors |-> "idle"]
  /\ at = [j \in Jobs |-> 1]
  /\ target = [a \in Actors |-> None]
  /\ victim = [h \in Handlers |-> None]
  /\ alias = [a \in Actors |-> TRUE]
  /\ known = [j \in Jobs |-> TRUE]
  /\ ret = [a \in Actors |-> "end"]
  /\ cancelled = {}
  /\ current = None
  /\ late = [j \in Jobs |-> 0]
  /\ crowded = {}
  /\ warned = {}
  /\ spawned = IF Tunnel THEN Registered ELSE <<>>
  /\ procs = DOMAIN spawned
  /\ file = [w \in Workers |-> IF \E i \in procs : spawned[i] = w
                               THEN CHOOSE i \in procs : spawned[i] = w ELSE 0]
  /\ copy = [a \in Actors |-> [w \in Workers |-> 0]]
  /\ pid = [a \in Actors |-> 0]
  /\ faults = 0

\* A fault of one of the chosen kinds, within the budget.
Fault(kind) ==
  /\ kind \in FaultKinds
  /\ faults < MaxFaults
  /\ faults' = faults + 1

GoTo(a, label) == pc' = [pc EXCEPT ![a] = label]

\* Jobs of a worker whose rows are in the table, the latest of them, and
\* whether that one is pending or running.
JobsOf(kind, w) == {j \in kind : target[j] = w /\ status[j] \notin {"absent", "deleted"}}
Latest(kind, w) == {j \in JobsOf(kind, w) : \A i \in JobsOf(kind, w) : birth[i] <= birth[j]}
ActiveJob(kind, w) == {j \in Latest(kind, w) : status[j] \in Active}

\* An UPDATE of a job row finds nothing when the row was deleted.
WithStatus(j, s) == IF status[j] = "deleted" THEN status ELSE [status EXCEPT ![j] = s]
WithProvision(w, s) == IF row[w].here THEN [row EXCEPT ![w].provision = s] ELSE row

\* A request comes only when fewer than MaxBusy actors are in progress and
\* fewer than MaxRequests have come.
Busy(a) == pc[a] \notin {"idle", "refused", "end", "lost"}
Room ==
  /\ Cardinality({a \in Actors : Busy(a)}) < MaxBusy
  /\ Cardinality({a \in Actors : pc[a] # "idle"}) < MaxRequests

Online(w) == row[w].here /\ row[w].beat = "fresh" /\ row[w].provision \notin {"provisioning", "failed"}

---------------------------------------------------------------------------
(* Requests.                                                               *)

\* POST /api/workers/provision: the worker must not exist.
RequestProvision(j, w) ==
  /\ pc[j] = "idle" /\ Room
  /\ ~row[w].here
  /\ target' = [target EXCEPT ![j] = w]
  /\ GoTo(j, "create")
  /\ UNCHANGED <<row, hostVars, jobVars, victim, alias, ret, cancelled, current, tunnelVars, faults>>

\* Mutant: INSERT OR REPLACE.
ReplaceWorker(j) ==
  /\ pc[j] = "create"
  /\ row' = [row EXCEPT ![target[j]] =
       [here |-> TRUE, alias |-> TRUE, beat |-> "never", provision |-> "provisioning"]]
  /\ GoTo(j, "job")
  /\ UNCHANGED <<hostVars, jobVars, actorVars, cancelled, current, tunnelVars, faults>>

\* create_provisioning_worker; the primary key refuses a second row.
CreateWorker(j) ==
  /\ pc[j] = "create"
  /\ \/ /\ row[target[j]].here
        /\ GoTo(j, "refused")
        /\ UNCHANGED row
     \/ /\ ~row[target[j]].here
        /\ row' = [row EXCEPT ![target[j]] =
             [here |-> TRUE, alias |-> TRUE, beat |-> "never", provision |-> "provisioning"]]
        /\ GoTo(j, "job")
  /\ UNCHANGED <<hostVars, jobVars, actorVars, cancelled, current, tunnelVars, faults>>

\* POST /api/workers/<id>/update.  The test of the latest provision job can
\* only hold of a status the column never has, so that it is left out.
RequestUpdate(j, w) ==
  LET beside == {i \in UpdateJobs : Busy(i) /\ target[i] = w} IN
  /\ pc[j] = "idle" /\ Room
  /\ row[w].here /\ row[w].alias
  /\ hold[w] = "none"
  /\ ActiveJob(UpdateJobs, w) = {}
  /\ row[w].provision # "provisioning"
  /\ target' = [target EXCEPT ![j] = w]
  /\ known' = [known EXCEPT ![j] = row[w].beat # "never"]
  /\ crowded' = IF beside = {} THEN crowded ELSE crowded \cup beside \cup {j}
  /\ GoTo(j, "job")
  /\ UNCHANGED <<row, hostVars, status, birth, at, late, warned, victim, alias, ret,
                 cancelled, current, tunnelVars, faults>>

\* create_provision_job or create_worker_update_job, and start_job_async.
CreateJob(j) ==
  /\ pc[j] = "job"
  /\ status' = [status EXCEPT ![j] = "pending"]
  /\ birth' = [birth EXCEPT ![j] = Cardinality({i \in Jobs : birth[i] > 0}) + 1]
  /\ GoTo(j, "begin")
  /\ UNCHANGED <<row, hostVars, at, known, pastVars, actorVars, cancelled, current, tunnelVars, faults>>

\* The worker row of a cancel or delete request decides whether it uses ssh.
ReadWorker(h, w) ==
  /\ target' = [target EXCEPT ![h] = w]
  /\ alias' = [alias EXCEPT ![h] = row[w].here /\ row[w].alias]

\* POST /api/workers/{provision,update}/<job>/cancel
RequestCancel(c, j) ==
  /\ pc[c] = "idle" /\ Room
  /\ status[j] \notin {"absent", "deleted"}
  /\ ReadWorker(c, target[j])
  /\ victim' = [victim EXCEPT ![c] = j]
  /\ GoTo(c, "add")
  /\ UNCHANGED <<row, hostVars, jobVars, ret, cancelled, current, tunnelVars, faults>>

\* DELETE /api/workers/<id>: an active update is cancelled first.
RequestDelete(d, w) ==
  /\ pc[d] = "idle" /\ Room
  /\ row[w].here
  /\ hold[w] = "none"
  /\ ReadWorker(d, w)
  /\ \/ \E j \in ActiveJob(UpdateJobs, w) :
          /\ victim' = [victim EXCEPT ![d] = j]
          /\ GoTo(d, "add")
     \/ /\ ActiveJob(UpdateJobs, w) = {}
        /\ GoTo(d, "provision")
        /\ UNCHANGED victim
  /\ UNCHANGED <<row, hostVars, jobVars, ret, cancelled, current, tunnelVars, faults>>

---------------------------------------------------------------------------
(* A job's thread.                                                         *)

ProvisionSteps ==
  <<"validate_ssh">> \o (IF Fresh THEN <<"bootstrap">> ELSE <<>>) \o <<"verify_layout">>
    \o (IF Tunnel THEN <<"establish_tunnel">> ELSE <<>>) \o <<"start_daemon", "wait_register">>

UpdateSteps ==
  <<"validate_ssh", "stop_daemon">>
    \o (IF "aeo" \in Targets THEN <<"pull_aeo", "sync_aeo">> ELSE <<>>)
    \o (IF "harbor" \in Targets THEN <<"pull_harbor">> ELSE <<>>)
    \o <<"restart_daemon", "wait_register">>

Pulls == {"pull_aeo", "sync_aeo", "pull_harbor"}

Steps(j) == IF j \in ProvisionJobs THEN ProvisionSteps ELSE UpdateSteps
Step(j)  == IF at[j] \in DOMAIN Steps(j) THEN Steps(j)[at[j]] ELSE "over"

\* Where the exception handler of run_job begins.
Raised(j) == IF j \in ProvisionJobs THEN "fail" ELSE "record"

\* After its last step a provision makes the worker ready; both record success.
Advance(j) ==
  /\ at' = [at EXCEPT ![j] = @ + 1]
  /\ GoTo(j, IF at[j] < Len(Steps(j)) THEN "test"
             ELSE IF j \in ProvisionJobs THEN "ready" ELSE "succeed")
  /\ UNCHANGED <<status, birth, known, pastVars>>

\* run_job up to its try.  An update whose worker never reported a shared root
\* raises in resolve_paths, outside the try: the thread ends there.
Begin(j) ==
  /\ pc[j] = "begin"
  /\ status' = WithStatus(j, "running")
  /\ current' = IF j \in ProvisionJobs THEN j ELSE current
  /\ GoTo(j, IF j \in UpdateJobs /\ ~known[j] THEN "lost" ELSE "test")
  /\ UNCHANGED <<row, hostVars, birth, at, known, pastVars, actorVars, cancelled, tunnelVars, faults>>

\* Mutant: only the first step looks at _cancelled.
TestOnce(j) ==
  /\ pc[j] = "test"
  /\ GoTo(j, IF j \in cancelled /\ at[j] = 1 THEN Raised(j) ELSE "start")
  /\ UNCHANGED <<row, hostVars, jobVars, actorVars, cancelled, current, tunnelVars, faults>>

\* _run_step looks at _cancelled, then writes the step as running.
Test(j) ==
  /\ pc[j] = "test"
  /\ GoTo(j, IF j \in cancelled THEN Raised(j) ELSE "start")
  /\ UNCHANGED <<row, hostVars, jobVars, actorVars, cancelled, current, tunnelVars, faults>>

Start(j) ==
  /\ pc[j] = "start"
  /\ late' = [late EXCEPT ![j] = IF j \in cancelled THEN @ + 1 ELSE @]
  /\ GoTo(j, "run")
  /\ UNCHANGED <<row, hostVars, status, birth, at, known, crowded, warned, actorVars,
                 cancelled, current, tunnelVars, faults>>

\* validate_ssh, bootstrap, verify_layout, the pulls and uv sync.
RunRemote(j) ==
  /\ pc[j] = "run"
  /\ Step(j) \in {"validate_ssh", "bootstrap", "verify_layout"} \cup Pulls
  /\ Advance(j)
  /\ UNCHANGED <<row, hostVars, actorVars, cancelled, current, tunnelVars, faults>>

\* An ssh command of a step fails; that of stop_daemon only leaves a warning.
RemoteFails(j) ==
  /\ \/ pc[j] = "run" /\ Step(j) \notin {"stop_daemon", "wait_register"}
     \/ pc[j] = "daemon"
  /\ Fault("ssh")
  /\ GoTo(j, Raised(j))
  /\ UNCHANGED <<row, hostVars, jobVars, actorVars, cancelled, current, tunnelVars>>

\* decommission_worker begins with the tunnel, if there is one to know of.
Decommission(a, label) ==
  /\ ret' = [ret EXCEPT ![a] = label]
  /\ GoTo(a, IF ~alias[a] THEN label ELSE IF Tunnel THEN "popload" ELSE "pkill")

\* Mutant: the update pulls under the running daemon.
KeepDaemon(j) ==
  /\ pc[j] = "run" /\ Step(j) = "stop_daemon"
  /\ Advance(j)
  /\ UNCHANGED <<row, hostVars, actorVars, cancelled, current, tunnelVars, faults>>

StopDaemon(j) ==
  /\ pc[j] = "run" /\ Step(j) = "stop_daemon"
  /\ Decommission(j, "stepdone")
  /\ UNCHANGED <<row, hostVars, jobVars, target, victim, alias, cancelled, current, tunnelVars, faults>>

StepDone(j) ==
  /\ pc[j] = "stepdone"
  /\ Advance(j)
  /\ UNCHANGED <<row, hostVars, actorVars, cancelled, current, tunnelVars, faults>>

\* _establish_tunnel, as a step or from _ensure_tunnel_and_restart when the
\* worker has no record.
SpawnTunnel(j) ==
  /\ pc[j] = "run"
  /\ \/ /\ Step(j) = "establish_tunnel"
        /\ ret' = [ret EXCEPT ![j] = "stepdone"]
     \/ /\ Step(j) = "restart_daemon" /\ Tunnel /\ file[target[j]] = 0
        /\ ret' = [ret EXCEPT ![j] = "daemon"]
  /\ spawned' = Append(spawned, target[j])
  /\ procs' = procs \cup {Len(spawned) + 1}
  /\ GoTo(j, "find")
  /\ UNCHANGED <<row, hostVars, jobVars, target, victim, alias, cancelled, current,
                 file, copy, pid, faults>>

\* The daemon's start command is detached: it returns whether or not the
\* daemon comes up.
StartDaemon(j) ==
  /\ \/ pc[j] = "run" /\ Step(j) = "start_daemon"
     \/ pc[j] = "run" /\ Step(j) = "restart_daemon" /\ (Tunnel => file[target[j]] # 0)
     \/ pc[j] = "daemon"
  /\ \/ /\ live' = [live EXCEPT ![target[j]] = @ + 1]
        /\ UNCHANGED faults
     \/ /\ Fault("nostart")
        /\ UNCHANGED live
  /\ Advance(j)
  /\ UNCHANGED <<row, stopping, hold, actorVars, cancelled, current, tunnelVars>>

\* _wait_for_register polls; it is the provisioner's, and the job it tests for
\* cancellation is the one the provisioner started last.
SeesRegistered(j) ==
  /\ pc[j] = "run" /\ Step(j) = "wait_register"
  /\ current \notin cancelled
  /\ Online(target[j])
  /\ Advance(j)
  /\ UNCHANGED <<row, hostVars, actorVars, cancelled, current, tunnelVars, faults>>

WaitRaises(j) ==
  /\ pc[j] = "run" /\ Step(j) = "wait_register"
  /\ current \in cancelled \/ ~Online(target[j])
  /\ GoTo(j, Raised(j))
  /\ UNCHANGED <<row, hostVars, jobVars, actorVars, cancelled, current, tunnelVars, faults>>

Ready(j) ==
  /\ pc[j] = "ready"
  /\ row' = WithProvision(target[j], "ready")
  /\ GoTo(j, "succeed")
  /\ UNCHANGED <<hostVars, jobVars, actorVars, cancelled, current, tunnelVars, faults>>

Succeed(j) ==
  /\ pc[j] = "succeed"
  /\ status' = WithStatus(j, "succeeded")
  /\ GoTo(j, "end")
  /\ UNCHANGED <<row, hostVars, birth, at, known, pastVars, actorVars, cancelled, current,
                 tunnelVars, faults>>

Fail(j) ==
  /\ pc[j] = "fail"
  /\ row' = WithProvision(target[j], "failed")
  /\ GoTo(j, "record")
  /\ UNCHANGED <<hostVars, jobVars, actorVars, cancelled, current, tunnelVars, faults>>

\* Mutant: the exception is not recorded.
RecordNothing(j) ==
  /\ pc[j] = "record"
  /\ GoTo(j, "end")
  /\ UNCHANGED <<row, hostVars, jobVars, actorVars, cancelled, current, tunnelVars, faults>>

\* The end of the exception handler; a provision also kills its tunnel.
Record(j) ==
  /\ pc[j] = "record"
  /\ status' = WithStatus(j, IF j \in cancelled THEN "cancelled" ELSE "failed")
  /\ ret' = [ret EXCEPT ![j] = "end"]
  /\ GoTo(j, IF Tunnel /\ j \in ProvisionJobs THEN "popload" ELSE "end")
  /\ UNCHANGED <<row, hostVars, birth, at, known, pastVars, target, victim, alias,
                 cancelled, current, tunnelVars, faults>>

---------------------------------------------------------------------------
(* tunnels.json and decommission_worker, called by any actor.              *)

Newest ==
  LET last == {p \in procs : \A q \in procs : q <= p}
  IN  IF last = {} THEN 0 ELSE CHOOSE p \in last : TRUE

\* pgrep -n: the newest tunnel of the controller, of any worker.
FindPid(a) ==
  /\ pc[a] = "find"
  /\ pid' = [pid EXCEPT ![a] = Newest]
  /\ GoTo(a, "putload")
  /\ UNCHANGED <<row, hostVars, jobVars, actorVars, cancelled, current, file, copy, procs, spawned, faults>>

\* save_record and remove_record load the whole file and write it back.
Load(a) ==
  /\ pc[a] \in {"putload", "popload"}
  /\ copy' = [copy EXCEPT ![a] = file]
  /\ GoTo(a, IF pc[a] = "putload" THEN "putsave" ELSE "popsave")
  /\ UNCHANGED <<row, hostVars, jobVars, actorVars, cancelled, current, file, pid, procs, spawned, faults>>

SaveRecord(a) ==
  /\ pc[a] = "putsave"
  /\ file' = [copy[a] EXCEPT ![target[a]] = pid[a]]
  /\ GoTo(a, ret[a])
  /\ UNCHANGED <<row, hostVars, jobVars, actorVars, cancelled, current, copy, pid, procs, spawned, faults>>

RemoveRecord(a) ==
  /\ pc[a] = "popsave"
  /\ pid' = [pid EXCEPT ![a] = copy[a][target[a]]]
  /\ file' = [copy[a] EXCEPT ![target[a]] = 0]
  /\ GoTo(a, "signal")
  /\ UNCHANGED <<row, hostVars, jobVars, actorVars, cancelled, current, copy, procs, spawned, faults>>

\* Mutant: the record goes, the process stays.
ForgetTunnel(a) ==
  /\ pc[a] = "signal"
  /\ GoTo(a, IF ret[a] = "end" THEN "end" ELSE "pkill")
  /\ UNCHANGED <<row, hostVars, jobVars, actorVars, cancelled, current, tunnelVars, faults>>

\* Only the exception handler of a provision kills a tunnel and no daemon.
KillTunnel(a) ==
  /\ pc[a] = "signal"
  /\ procs' = procs \ {pid[a]}
  /\ GoTo(a, IF ret[a] = "end" THEN "end" ELSE "pkill")
  /\ UNCHANGED <<row, hostVars, jobVars, actorVars, cancelled, current, file, copy, pid, spawned, faults>>

\* SIGTERM sets a flag: a daemon finishes the pass it is in, then terminates the
\* executors it has and exits.  It reports none of those, so that the row of such
\* a batch stays running.  pkill does not wait; a failing ssh is a warning.
Pkill(a) ==
  LET w == target[a] IN
  /\ pc[a] = "pkill"
  /\ GoTo(a, ret[a])
  /\ \/ /\ live' = [live EXCEPT ![w] = 0]
        /\ stopping' = [stopping EXCEPT ![w] = @ + live[w]]
        /\ hold' = [hold EXCEPT ![w] = IF @ = "running" /\ live[w] > 0 THEN "stranded" ELSE @]
        /\ UNCHANGED <<warned, faults>>
     \/ /\ Fault("ssh")
        /\ warned' = warned \cup {a}
        /\ UNCHANGED hostVars
  /\ UNCHANGED <<row, status, birth, at, known, late, crowded, actorVars, cancelled, current,
                 tunnelVars>>

---------------------------------------------------------------------------
(* The cancel and delete handlers after their reads.                       *)

\* cancel_job of the provisioner or of the updater.
AddCancelled(h) ==
  /\ pc[h] = "add"
  /\ cancelled' = cancelled \cup {victim[h]}
  /\ Decommission(h, "write")
  /\ UNCHANGED <<row, hostVars, jobVars, target, victim, alias, current, tunnelVars, faults>>

WriteCancelled(h) ==
  /\ pc[h] = "write"
  /\ status' = WithStatus(victim[h], "cancelled")
  /\ GoTo(h, IF h \in Deletes THEN IF victim[h] \in UpdateJobs THEN "provision" ELSE "clean"
             ELSE IF victim[h] \in UpdateJobs THEN "end" ELSE "note")
  /\ UNCHANGED <<row, hostVars, birth, at, known, pastVars, actorVars, cancelled, current,
                 tunnelVars, faults>>

\* The handler of a provision's cancel marks the worker failed.
NoteCancelled(h) ==
  /\ pc[h] = "note"
  /\ row' = WithProvision(target[h], "failed")
  /\ GoTo(h, "end")
  /\ UNCHANGED <<hostVars, jobVars, actorVars, cancelled, current, tunnelVars, faults>>

FindProvision(d) ==
  /\ pc[d] = "provision"
  /\ \/ \E j \in ActiveJob(ProvisionJobs, target[d]) :
          /\ victim' = [victim EXCEPT ![d] = j]
          /\ GoTo(d, "add")
     \/ /\ ActiveJob(ProvisionJobs, target[d]) = {}
        /\ GoTo(d, "clean")
        /\ UNCHANGED victim
  /\ UNCHANGED <<row, hostVars, jobVars, target, alias, ret, cancelled, current, tunnelVars, faults>>

Clean(d) ==
  /\ pc[d] = "clean"
  /\ Decommission(d, "delete")
  /\ UNCHANGED <<row, hostVars, jobVars, target, victim, alias, cancelled, current, tunnelVars, faults>>

DeleteWorker(d) ==
  LET w == target[d] IN
  /\ pc[d] = "delete"
  /\ \/ /\ row[w].here
        /\ row' = [row EXCEPT ![w] = NoRow]
        /\ status' = [j \in Jobs |-> IF j \in JobsOf(Jobs, w) THEN "deleted" ELSE status[j]]
     \/ /\ ~row[w].here
        /\ UNCHANGED <<row, status>>
  /\ GoTo(d, "end")
  /\ UNCHANGED <<hostVars, birth, at, known, pastVars, actorVars, cancelled, current, tunnelVars, faults>>

---------------------------------------------------------------------------
(* Hosts, daemons, batches, time and the controller's process.             *)

Reaches(w) == Tunnel => \E p \in procs : spawned[p] = w

\* A running daemon, or one that was told to stop in its last pass: it registers
\* or takes the answer of the claim it waits for, not both.
DaemonCalls(w) ==
  /\ Reaches(w)
  /\ \/ live[w] > 0 /\ UNCHANGED stopping
     \/ stopping[w] > 0 /\ stopping' = [stopping EXCEPT ![w] = @ - 1]

\* register_worker: a worker that is being provisioned becomes ready; a
\* worker that is not in the table is inserted, without ssh alias.
RegisterWorker(w) ==
  /\ DaemonCalls(w)
  /\ row' = [row EXCEPT ![w] =
       IF row[w].here
       THEN [row[w] EXCEPT !.beat = "fresh",
                           !.provision = IF @ = "provisioning" THEN "ready" ELSE @]
       ELSE [here |-> TRUE, alias |-> FALSE, beat |-> "fresh", provision |-> "none"]]
  /\ UNCHANGED <<live, hold, jobVars, pc, actorVars, cancelled, current, tunnelVars, faults>>

Assign(w) ==
  /\ Work
  /\ row[w].here /\ hold[w] = "none"
  /\ hold' = [hold EXCEPT ![w] = "queued"]
  /\ UNCHANGED <<row, live, stopping, jobVars, pc, actorVars, cancelled, current, tunnelVars, faults>>

\* Started in the last pass of a stopped daemon, a batch is terminated and reported
\* by nobody.
ClaimBatch(w) ==
  /\ hold[w] = "queued"
  /\ DaemonCalls(w)
  /\ hold' = [hold EXCEPT ![w] = IF stopping' = stopping THEN "running" ELSE "stranded"]
  /\ UNCHANGED <<row, live, jobVars, pc, actorVars, cancelled, current, tunnelVars, faults>>

\* A batch that ended is reported, also in the last pass of a stopped daemon.
EndBatch(w) ==
  /\ \/ hold[w] = "running" /\ live[w] > 0
     \/ hold[w] = "stranded" /\ stopping[w] > 0
  /\ Reaches(w)
  /\ hold' = [hold EXCEPT ![w] = "none"]
  /\ UNCHANGED <<row, live, stopping, jobVars, pc, actorVars, cancelled, current, tunnelVars, faults>>

Exit(w) ==
  /\ stopping[w] > 0
  /\ stopping' = [stopping EXCEPT ![w] = @ - 1]
  /\ UNCHANGED <<row, live, hold, jobVars, pc, actorVars, cancelled, current, tunnelVars, faults>>

\* No heartbeat for longer than the timeout.
GoStale(w) ==
  /\ row[w].beat = "fresh"
  /\ live[w] = 0 \/ ~Reaches(w)
  /\ row' = [row EXCEPT ![w].beat = "stale"]
  /\ UNCHANGED <<hostVars, jobVars, pc, actorVars, cancelled, current, tunnelVars, faults>>

\* The controller restarts: threads and memory are gone, tables, tunnels.json
\* and the tunnels stay.
Restart ==
  /\ Fault("restart")
  /\ pc' = [a \in Actors |-> IF pc[a] \in {"idle", "refused", "end"} THEN pc[a] ELSE "lost"]
  /\ cancelled' = {}
  /\ current' = None
  /\ UNCHANGED <<row, hostVars, jobVars, actorVars, tunnelVars>>

---------------------------------------------------------------------------

Thread(j) ==
  \/ CreateWorker(j) \/ CreateJob(j) \/ Begin(j) \/ Test(j) \/ Start(j)
  \/ RunRemote(j) \/ StopDaemon(j) \/ StepDone(j) \/ SpawnTunnel(j) \/ StartDaemon(j)
  \/ SeesRegistered(j) \/ WaitRaises(j) \/ Ready(j) \/ Succeed(j) \/ Fail(j) \/ Record(j)

Call(a) == FindPid(a) \/ Load(a) \/ SaveRecord(a) \/ RemoveRecord(a) \/ KillTunnel(a) \/ Pkill(a)

Handler(h) == AddCancelled(h) \/ WriteCancelled(h) \/ NoteCancelled(h)

Deletion(d) == FindProvision(d) \/ Clean(d) \/ DeleteWorker(d)

Host(w) == RegisterWorker(w) \/ Assign(w) \/ ClaimBatch(w) \/ EndBatch(w) \/ Exit(w) \/ GoStale(w)

Next ==
  \/ \E j \in ProvisionJobs, w \in Workers : RequestProvision(j, w)
  \/ \E j \in UpdateJobs, w \in Workers : RequestUpdate(j, w)
  \/ \E c \in Cancels, j \in Jobs : RequestCancel(c, j)
  \/ \E d \in Deletes, w \in Workers : RequestDelete(d, w)
  \/ \E j \in Jobs : Thread(j) \/ RemoteFails(j)
  \/ \E a \in Actors : Call(a)
  \/ \E h \in Handlers : Handler(h)
  \/ \E d \in Deletes : Deletion(d)
  \/ \E w \in Workers : Host(w)
  \/ Restart

Spec == Init /\ [][Next]_vars

\* The operating system schedules the controller's threads.
Fairness ==
  /\ \A j \in Jobs : WF_vars(Thread(j)) /\ WF_vars(Call(j))
  /\ \A h \in Handlers : WF_vars(Handler(h)) /\ WF_vars(Call(h))
  /\ \A d \in Deletes : WF_vars(Deletion(d))

FairSpec == Spec /\ Fairness

---------------------------------------------------------------------------
(* Properties.                                                             *)

\* An actor that has begun has its worker, a handler that cancels its job.
Started ==
  /\ \A a \in Actors : pc[a] # "idle" => target[a] \in Workers
  /\ \A j \in Jobs : status[j] # "absent" => pc[j] # "idle"
  /\ \A h \in Handlers : /\ pc[h] = "add" => victim[h] \in Jobs
                         /\ victim[h] \in Jobs => status[victim[h]] # "absent"

\* A job that was cancelled starts at most one more step: the one whose test
\* came before the cancellation (_run_step).
CancelIsNoticed ==
  \A j \in Jobs :
    /\ late[j] <= 1
    /\ late[j] = 1 =>
         /\ pc[j] \notin {"idle", "create", "refused", "start"}
         /\ j \in cancelled \/ pc[j] \in {"end", "lost"}

\* A job says succeeded only when its thread went through every step.
SucceededIsComplete ==
  \A j \in Jobs :
    /\ pc[j] \in {"ready", "succeed"} => at[j] > Len(Steps(j))
    /\ status[j] = "succeeded" => at[j] > Len(Steps(j))

\* A delete may overtake the job row of a provision, whose thread then works on
\* a row it did not make: what follows holds until a delete or a cancel comes.
NotDeleted  == \A d \in Deletes : pc[d] = "idle"
Undisturbed == \A h \in Handlers : pc[h] = "idle"

\* A thread has the row of its job.
RowsFollow ==
  \A j \in Jobs : pc[j] \notin {"idle", "create", "refused", "job", "lost"} => status[j] # "absent"

\* The INSERT of a provision's worker has succeeded: no other has for this worker.
HasWorker(j) == pc[j] = "job" \/ status[j] # "absent"

ProvisionsApart ==
  NotDeleted => \A j \in ProvisionJobs : HasWorker(j) =>
    /\ row[target[j]].here
    /\ \A i \in ProvisionJobs : HasWorker(i) /\ target[i] = target[j] => i = j

\* The inductive invariant.
LifecycleInv == Started /\ CancelIsNoticed /\ SucceededIsComplete /\ RowsFollow /\ ProvisionsApart

\* Two requests for one worker id never provision it at the same time: the
\* primary key decides, whichever of them passed worker_exists (server.py).
OneProvision ==
  NotDeleted => \A w \in Workers : Cardinality({j \in JobsOf(ProvisionJobs, w) : status[j] \in Active}) <= 1

\* An update pulls code only when every daemon of its worker has been told to stop,
\* also when the thread of a provision of the worker has not ended, whatever other
\* ssh command fails and whether or not the controller restarts (stop_daemon before
\* the pulls, and the row that keeps an update out until the provision has started its
\* daemon).  A daemon that was told to may still be in its last pass: see PullsAreQuiet.
\* Not so for an update whose stop only left a warning, for two updates of the worker
\* at a time, and once a cancel or a delete has come, whose victim's thread goes on.
Pulling(j) == pc[j] \in {"test", "start", "run"} /\ Step(j) \in Pulls

PullsFollowStop ==
  \A j \in UpdateJobs :
    Undisturbed /\ Pulling(j) /\ j \notin crowded \cup warned => live[target[j]] = 0

\* When nobody is busy with a tunnel or was when the controller restarted, every
\* tunnel that runs is in tunnels.json under its worker, so that a later delete
\* can kill it: holds of requests that come one after the other.
TunnelsAreRecorded ==
  (\A a \in Actors : pc[a] \notin Calls \cup {"lost"}) =>
    \A p \in procs : file[spawned[p]] = p

\* Every job whose thread lives reaches an outcome, whatever ssh command fails,
\* whether or not the daemon comes up, and whoever cancels or deletes; only a
\* restart, or a thread that raises before its try, leaves a job pending or running.
EveryJobEnds ==
  \A j \in Jobs :
    status[j] \in Active ~> status[j] \in Ended \cup {"deleted"} \/ pc[j] = "lost"

\* Refuted: no thread of a job ends without an outcome.
ThreadsRecord == \A j \in Jobs : pc[j] = "lost" => status[j] \notin Active

\* Refuted: while an update pulls code no daemon of the worker runs it, claims or
\* starts a batch.
PullsAreQuiet ==
  \A j \in UpdateJobs : Pulling(j) => live[target[j]] + stopping[target[j]] = 0

\* Refuted: a worker has at most one daemon.
OneDaemon == \A w \in Workers : live[w] <= 1

\* Refuted: a worker has at most one update in progress.
OneUpdate ==
  \A w \in Workers : Cardinality({j \in JobsOf(UpdateJobs, w) : status[j] \in Active}) <= 1

\* Refuted: an update stops no daemon that has a batch.
UpdateSparesBatches == \A w \in Workers : hold[w] # "stranded"

\* Refuted: a deleted worker is gone until it is provisioned again.
DeletedIsGone ==
  [][\A w \in Workers : ~row[w].here /\ row'[w].here => row'[w].provision = "provisioning"]_vars

\* Refuted: an update succeeds only if a daemon was started.
SucceededIsServed ==
  \A j \in UpdateJobs : status[j] = "succeeded" => live[target[j]] > 0
=============================================================================
