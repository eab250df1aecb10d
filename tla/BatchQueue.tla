----------------------------- MODULE BatchQueue -----------------------------
(***************************************************************************)
(* The dispatch protocol between the controller and its worker daemons.    *)
(*                                                                         *)
(* Controller (controller/server.py, storage/store.py): one row per batch  *)
(* and per run in SQLite, and one thread per HTTP request.  A claim runs   *)
(* as two steps, the SELECT of a queued batch and the UPDATE that marks it *)
(* running: sqlite3 opens a transaction only at the first DML statement,   *)
(* so other handlers commit between the two.  A heartbeat is one UPDATE.   *)
(*                                                                         *)
(* Worker (worker/daemon.py): a sequential loop that registers, polls each *)
(* active executor and reports it, then claims while it has free slots.    *)
(* Every call may time out on the worker's side while its handler lives on *)
(* in the controller, or never be answered at all.  SIGTERM only sets a    *)
(* flag: the daemon ends its pass, and takes the answer of a claim it has  *)
(* asked for, before it leaves.  Nothing waits for that, so a replacement  *)
(* of the same worker id may already run beside it.                        *)
(***************************************************************************)
EXTENDS Integers, FiniteSets

CONSTANTS
  NumBatches,   \* batches are numbered in the order of their created_at
  Workers,
  Daemons,      \* daemon processes; one that has ended stands for its successor too
  Runs,
  None,         \* SQL NULL, Python None
  Serves,       \* --worker-id of a daemon
  RunOf,        \* the run of a batch
  Preferred,    \* preferred_worker_id of a batch, or None: the shared queue
  Slots,        \* --slots of a daemon
  Disableable,  \* workers whose "enabled" flag an operator may switch
  MaxFaults     \* bound on timed-out calls, stops, deaths and second daemons together

Batches == 1 .. NumBatches

ASSUME ConstantsAssumption ==
  /\ NumBatches \in Nat
  /\ None \notin Workers
  /\ None \notin Batches
  /\ Serves \in [Daemons -> Workers]
  /\ RunOf \in [Batches -> Runs]
  /\ Preferred \in [Batches -> Workers \cup {None}]
  /\ Slots \in [Daemons -> Nat \ {0}]
  /\ Disableable \subseteq Workers
  /\ MaxFaults \in Nat

VARIABLES
  status,      \* batches.status, "absent" before the row exists
  assigned,    \* batches.assigned_worker_id
  finished,    \* batches whose finished_at is set
  bound,       \* runs.bound_worker_id
  registered,  \* worker ids with a row in table workers
  enabled,     \* workers.enabled, 0 or 1
  claims,      \* handler threads of POST /api/workers/claim
  beats,       \* handler threads of POST /api/workers/heartbeat
  pc,          \* where a daemon stands in its loop
  cur,         \* the batch that step is about
  todo,        \* active batches still to poll in this round
  active,      \* the daemon's dict of started executors
  stopping,    \* daemons whose stop_requested is set
  starts,      \* history: executors ever started for a batch that has a preferred worker
  doubled,     \* history: workers two daemons of which ever ran at once
  faults       \* faults so far

dbVars     == <<status, assigned, finished, bound, registered, enabled>>
netVars    == <<claims, beats>>
lifeVars   == <<stopping, doubled>>
daemonVars == <<pc, cur, todo, active, starts, lifeVars>>
vars       == <<dbVars, netVars, daemonVars, faults>>

Terminal == {"succeeded", "failed", "sync_failed"}
Status   == {"absent", "pending_sync", "queued", "running"} \cup Terminal
Outcome  == {"succeeded", "failed"}

\* A handler is live while its client still waits for the answer.
Client == {"waits", "gone"}
Claim  == [daemon : Daemons, batch : Batches \cup {None}, client : Client]
Beat   == [daemon : Daemons, batch : Batches, status : {"running"} \cup Outcome,
           client : Client]
Live(call) == call.client = "waits"
WorkerOf(call) == Serves[call.daemon]

\* A pass polls the batches of todo, then claims; it ends in "idle", the sleep.
Waiting == {"beat", "final", "refuse", "claiming"}
Control == {"idle", "pass", "start", "down"} \cup Waiting

TypeOK ==
  /\ status \in [Batches -> Status]
  /\ assigned \in [Batches -> Workers \cup {None}]
  /\ finished \subseteq Batches
  /\ bound \in [Runs -> Workers \cup {None}]
  /\ registered \subseteq Workers
  /\ enabled \in [Workers -> {0, 1}]
  /\ claims \subseteq Claim
  /\ beats \subseteq Beat
  /\ pc \in [Daemons -> Control]
  /\ cur \in [Daemons -> Batches \cup {None}]
  /\ todo \in [Daemons -> SUBSET Batches]
  /\ active \in [Daemons -> SUBSET Batches]
  /\ stopping \subseteq Daemons
  /\ starts \in [Batches -> Nat]
  /\ doubled \subseteq Workers
  /\ faults \in Nat

Init ==
  /\ status = [b \in Batches |-> "absent"]
  /\ assigned = [b \in Batches |-> None]
  /\ finished = {}
  /\ bound = [r \in Runs |-> None]
  /\ registered = {}
  /\ enabled = [w \in Workers |-> 1]
  /\ claims = {}
  /\ beats = {}
  /\ pc = [d \in Daemons |-> "down"]
  /\ cur = [d \in Daemons |-> None]
  /\ todo = [d \in Daemons |-> {}]
  /\ active = [d \in Daemons |-> {}]
  /\ stopping = {}
  /\ starts = [b \in Batches |-> 0]
  /\ doubled = {}
  /\ faults = 0

-----------------------------------------------------------------------------
(* Controller: creating batches, and what the asset sync does to them.      *)

\* A sharded batch waits for its worker's asset sync or is queued at once; a
\* batch without a preferred worker is always queued at once.
CreateBatch(b) ==
  /\ status[b] = "absent"
  /\ \A e \in Batches : e < b => status[e] # "absent"
  /\ \E s \in IF Preferred[b] = None THEN {"queued"} ELSE {"pending_sync", "queued"} :
       status' = [status EXCEPT ![b] = s]
  /\ UNCHANGED <<assigned, finished, bound, registered, enabled, netVars, daemonVars, faults>>

PendingSync(r, w) ==
  {b \in Batches : RunOf[b] = r /\ Preferred[b] = w /\ status[b] = "pending_sync"}

AwaitingWorker(r, w) ==
  {b \in Batches : RunOf[b] = r /\ Preferred[b] = w /\ status[b] \in {"pending_sync", "sync_failed"}}

SetStatus(S, s) ==
  status' = [b \in Batches |-> IF b \in S THEN s ELSE status[b]]

\* Mutant: the UPDATE also takes back batches whose sync had failed.
PromoteEvenFailed(r, w) ==
  /\ AwaitingWorker(r, w) # {}
  /\ SetStatus(AwaitingWorker(r, w), "queued")
  /\ UNCHANGED <<assigned, finished, bound, registered, enabled, netVars, daemonVars, faults>>

PromoteWorkerBatches(r, w) ==
  /\ PendingSync(r, w) # {}
  /\ SetStatus(PendingSync(r, w), "queued")
  /\ UNCHANGED <<assigned, finished, bound, registered, enabled, netVars, daemonVars, faults>>

MarkWorkerBatchesSyncFailed(r, w) ==
  /\ PendingSync(r, w) # {}
  /\ SetStatus(PendingSync(r, w), "sync_failed")
  /\ UNCHANGED <<assigned, finished, bound, registered, enabled, netVars, daemonVars, faults>>

\* PATCH of a worker's settings: the operator's enable / disable switch.
UpdateWorkerSettings(w) ==
  /\ w \in registered \cap Disableable
  /\ enabled' = [enabled EXCEPT ![w] = 1 - @]
  /\ UNCHANGED <<status, assigned, finished, bound, registered, netVars, daemonVars, faults>>

-----------------------------------------------------------------------------
(* Controller: claim_next_batch, in the two steps other handlers can come   *)
(* between.                                                                 *)

\* int(worker["enabled"] or 1) == 1: 0 is falsy in Python, so "or" yields 1.
Admits(w) == (IF enabled[w] = 0 THEN 1 ELSE enabled[w]) = 1

\* Mutant: the routing test forgets the preferred worker.
ClaimableByAnyone(w) ==
  {b \in Batches : w \in registered /\ status[b] = "queued"}

\* Mutant: the query forgets WHERE b.status = 'queued'.
ClaimableInAnyState(w) ==
  {b \in Batches :
     /\ w \in registered
     /\ status[b] # "absent"
     /\ Preferred[b] \in {w, None}}

Claimable(w) ==
  {b \in Batches :
     /\ w \in registered
     /\ Admits(w)
     /\ status[b] = "queued"
     /\ Preferred[b] # None => Preferred[b] = w
     /\ Preferred[b] = None /\ bound[RunOf[b]] # None => bound[RunOf[b]] = w}

Settle(d, at) == pc' = [pc EXCEPT ![d] = at]

\* Nothing to do: {"task": None}; the daemon leaves its claim loop and sleeps.
ClaimNothing(c) ==
  /\ c.batch = None
  /\ Claimable(WorkerOf(c)) = {}
  /\ claims' = claims \ {c}
  /\ IF Live(c) THEN Settle(c.daemon, "idle") ELSE UNCHANGED pc
  /\ UNCHANGED <<dbVars, beats, cur, todo, active, starts, lifeVars, faults>>

\* ORDER BY created_at ASC: the earliest claimable batch is chosen.
ClaimSelect(c) ==
  /\ c.batch = None
  /\ \E b \in Claimable(WorkerOf(c)) :
       /\ \A e \in Claimable(WorkerOf(c)) : b <= e
       /\ claims' = (claims \ {c}) \cup {[c EXCEPT !.batch = b]}
  /\ UNCHANGED <<dbVars, beats, daemonVars, faults>>

\* The UPDATE has no condition on the status the SELECT saw.
ClaimUpdate(c) ==
  /\ c.batch # None
  /\ status' = [status EXCEPT ![c.batch] = "running"]
  /\ assigned' = [assigned EXCEPT ![c.batch] = WorkerOf(c)]
  /\ bound' = [bound EXCEPT ![RunOf[c.batch]] = IF @ = None THEN WorkerOf(c) ELSE @]
  /\ claims' = claims \ {c}
  /\ IF Live(c)
     THEN /\ Settle(c.daemon, "start")
          /\ cur' = [cur EXCEPT ![c.daemon] = c.batch]
     ELSE UNCHANGED <<pc, cur>>
  /\ UNCHANGED <<finished, registered, enabled, beats, todo, active, starts, lifeVars, faults>>

-----------------------------------------------------------------------------
(* Controller: update_batch_progress, called by the heartbeat handler.      *)

\* What the daemon does once its heartbeat is answered.
Answered(d) ==
  /\ Settle(d, "pass")
  /\ cur' = [cur EXCEPT ![d] = None]
  /\ active' = IF pc[d] = "final" THEN [active EXCEPT ![d] = @ \ {cur[d]}] ELSE active

\* Mutant: finished_at is set without the CASE on "finished".
HeartbeatStampsAlways(m) ==
  /\ beats' = beats \ {m}
  /\ status' = [status EXCEPT ![m.batch] = m.status]
  /\ finished' = finished \cup {m.batch}
  /\ IF Live(m) THEN Answered(m.daemon) ELSE UNCHANGED <<pc, cur, active>>
  /\ UNCHANGED <<assigned, bound, registered, enabled, claims, todo, starts, lifeVars, faults>>

\* The status is written whatever it was and whoever reports it.
Heartbeat(m) ==
  /\ beats' = beats \ {m}
  /\ status' = [status EXCEPT ![m.batch] = m.status]
  /\ finished' = finished \cup (IF m.status = "running" THEN {} ELSE {m.batch})
  /\ IF Live(m) THEN Answered(m.daemon) ELSE UNCHANGED <<pc, cur, active>>
  /\ UNCHANGED <<assigned, bound, registered, enabled, claims, todo, starts, lifeVars, faults>>

-----------------------------------------------------------------------------
(* Worker daemon.                                                           *)

\* The way out: the executors still running are ended, and nobody reports them.
Leave(d) ==
  /\ pc[d] = "idle"
  /\ d \in stopping
  /\ stopping' = stopping \ {d}
  /\ active' = [active EXCEPT ![d] = {}]
  /\ Settle(d, "down")
  /\ UNCHANGED <<dbVars, netVars, cur, todo, starts, doubled, faults>>

\* while not stop_requested: the next pass registers first.
Register(d) ==
  /\ pc[d] = "idle"
  /\ d \notin stopping
  /\ registered' = registered \cup {Serves[d]}
  /\ todo' = [todo EXCEPT ![d] = active[d]]
  /\ Settle(d, "pass")
  /\ UNCHANGED <<status, assigned, finished, bound, enabled, netVars, cur, active, starts,
                 lifeVars, faults>>

\* A failed registration is only logged.
RegisterFails(d) ==
  /\ pc[d] = "idle"
  /\ d \notin stopping
  /\ faults < MaxFaults
  /\ faults' = faults + 1
  /\ todo' = [todo EXCEPT ![d] = active[d]]
  /\ Settle(d, "pass")
  /\ UNCHANGED <<dbVars, netVars, cur, active, starts, lifeVars>>

Report(d, b, s, at) ==
  /\ beats' = beats \cup {[daemon |-> d, batch |-> b, status |-> s, client |-> "waits"]}
  /\ cur' = [cur EXCEPT ![d] = b]
  /\ Settle(d, at)
  /\ UNCHANGED <<dbVars, claims, active, starts, lifeVars, faults>>

PollRunning(d, b) ==
  /\ pc[d] = "pass" /\ b \in todo[d]
  /\ todo' = [todo EXCEPT ![d] = @ \ {b}]
  /\ Report(d, b, "running", "beat")

PollExited(d, b, s) ==
  /\ pc[d] = "pass" /\ b \in todo[d]
  /\ todo' = [todo EXCEPT ![d] = @ \ {b}]
  /\ Report(d, b, s, "final")

\* while len(active) < args.slots and not stop_requested.
RequestClaim(d) ==
  /\ pc[d] = "pass" /\ todo[d] = {}
  /\ Cardinality(active[d]) < Slots[d] /\ d \notin stopping
  /\ claims' = claims \cup {[daemon |-> d, batch |-> None, client |-> "waits"]}
  /\ Settle(d, "claiming")
  /\ UNCHANGED <<dbVars, beats, cur, todo, active, starts, lifeVars, faults>>

ClaimsOver(d) ==
  /\ pc[d] = "pass" /\ todo[d] = {}
  /\ Cardinality(active[d]) >= Slots[d] \/ d \in stopping
  /\ Settle(d, "idle")
  /\ UNCHANGED <<dbVars, netVars, cur, todo, active, starts, lifeVars, faults>>

\* Mutant: the started executor is not entered in the daemon's dict.
SpawnUntracked(d) ==
  /\ pc[d] = "start"
  /\ starts' = [starts EXCEPT ![cur[d]] = IF Preferred[cur[d]] = None THEN @ ELSE @ + 1]
  /\ cur' = [cur EXCEPT ![d] = None]
  /\ Settle(d, "pass")
  /\ UNCHANGED <<dbVars, netVars, todo, active, lifeVars, faults>>

\* Disk check, prepare and Popen all succeed.  Nothing asks for stop_requested
\* between the answer of a claim and this.
Spawn(d) ==
  /\ pc[d] = "start"
  /\ active' = [active EXCEPT ![d] = @ \cup {cur[d]}]
  /\ starts' = [starts EXCEPT ![cur[d]] = IF Preferred[cur[d]] = None THEN @ ELSE @ + 1]
  /\ cur' = [cur EXCEPT ![d] = None]
  /\ Settle(d, "pass")
  /\ UNCHANGED <<dbVars, netVars, todo, lifeVars, faults>>

\* Mutant: a refused batch is only logged.
RefuseSilently(d) ==
  /\ pc[d] = "start"
  /\ cur' = [cur EXCEPT ![d] = None]
  /\ Settle(d, "pass")
  /\ UNCHANGED <<dbVars, netVars, todo, active, starts, lifeVars, faults>>

\* Any of the three fails: the batch is reported failed without a result.
RefuseBatch(d) ==
  /\ pc[d] = "start"
  /\ UNCHANGED todo
  /\ Report(d, cur[d], "failed", "refuse")

\* A daemon starts while no other of its worker runs.
Up(w) == {d \in Daemons : Serves[d] = w /\ pc[d] # "down"}

Start(d) ==
  /\ Up(Serves[d]) = {}
  /\ Settle(d, "idle")
  /\ UNCHANGED <<dbVars, netVars, cur, todo, active, starts, lifeVars, faults>>

-----------------------------------------------------------------------------
(* Faults: a call times out (or its answer is lost) while its handler, if   *)
(* the request ever arrived, stays in the controller; a daemon is told to   *)
(* stop, dies, or is started beside another.  A handler that never runs     *)
(* stands for a request that never arrived.                                 *)

Abandon(d) ==
  /\ claims' = {IF c.daemon = d THEN [c EXCEPT !.client = "gone"] ELSE c : c \in claims}
  /\ beats' = {IF m.daemon = d THEN [m EXCEPT !.client = "gone"] ELSE m : m \in beats}

\* A lost heartbeat is logged, and a lost final heartbeat drops the batch all
\* the same; a lost claim ends the pass; the refusal of a batch is posted
\* outside any try, so losing its answer ends the daemon.
CallFails(d) ==
  /\ pc[d] \in Waiting
  /\ faults < MaxFaults
  /\ faults' = faults + 1
  /\ Abandon(d)
  /\ Settle(d, CASE pc[d] \in {"beat", "final"} -> "pass"
                 [] pc[d] = "claiming" -> "idle"
                 [] pc[d] = "refuse" -> "down")
  /\ active' = [active EXCEPT ![d] = CASE pc[d] = "final" -> @ \ {cur[d]}
                                       [] pc[d] = "refuse" -> {}
                                       [] OTHER -> @]
  /\ cur' = [cur EXCEPT ![d] = None]
  /\ stopping' = IF pc[d] = "refuse" THEN stopping \ {d} ELSE stopping
  /\ UNCHANGED <<dbVars, todo, starts, doubled>>

\* SIGTERM or SIGINT: only the flag is set.
Terminate(d) ==
  /\ pc[d] # "down"
  /\ d \notin stopping
  /\ faults < MaxFaults
  /\ faults' = faults + 1
  /\ stopping' = stopping \cup {d}
  /\ UNCHANGED <<dbVars, netVars, pc, cur, todo, active, starts, doubled>>

\* SIGKILL or a lost host: the dict of active executors is gone.
Crash(d) ==
  /\ pc[d] # "down"
  /\ faults < MaxFaults
  /\ faults' = faults + 1
  /\ Abandon(d)
  /\ Settle(d, "down")
  /\ stopping' = stopping \ {d}
  /\ cur' = [cur EXCEPT ![d] = None]
  /\ todo' = [todo EXCEPT ![d] = {}]
  /\ active' = [active EXCEPT ![d] = {}]
  /\ UNCHANGED <<dbVars, starts, doubled>>

\* The start that follows a pkill, or an operator's, does not look for one that
\* still runs.
StartSecond(d) ==
  /\ pc[d] = "down"
  /\ Up(Serves[d]) # {}
  /\ faults < MaxFaults
  /\ faults' = faults + 1
  /\ doubled' = doubled \cup {Serves[d]}
  /\ Settle(d, "idle")
  /\ UNCHANGED <<dbVars, netVars, cur, todo, active, stopping, starts>>

-----------------------------------------------------------------------------
Controller ==
  \/ \E b \in Batches : CreateBatch(b)
  \/ \E r \in Runs, w \in Workers :
       PromoteWorkerBatches(r, w) \/ MarkWorkerBatchesSyncFailed(r, w)
  \/ \E w \in Workers : UpdateWorkerSettings(w)

Handler(d) ==
  \/ \E c \in claims : c.daemon = d /\ (ClaimNothing(c) \/ ClaimSelect(c) \/ ClaimUpdate(c))
  \/ \E m \in beats : m.daemon = d /\ Heartbeat(m)

Daemon(d) ==
  \/ Start(d) \/ Leave(d) \/ Register(d)
  \/ RequestClaim(d) \/ ClaimsOver(d) \/ Spawn(d) \/ RefuseBatch(d)
  \/ \E b \in Batches : PollRunning(d, b) \/ (\E s \in Outcome : PollExited(d, b, s))

Faults ==
  \E d \in Daemons :
    RegisterFails(d) \/ CallFails(d) \/ Terminate(d) \/ Crash(d) \/ StartSecond(d)

Next == Controller \/ Faults \/ \E d \in Daemons : Handler(d) \/ Daemon(d)

Spec == Init /\ [][Next]_vars

\* Every handler thread runs, every daemon is started and keeps looping, and an
\* executor that is polled again and again exits in the end (Harbor bounds its
\* own trials).
Fairness ==
  \A d \in Daemons :
    /\ WF_vars(Handler(d))
    /\ WF_vars(Daemon(d))
    /\ \A b \in Batches : SF_vars(\E s \in Outcome : PollExited(d, b, s))

FairSpec == Spec /\ Fairness

-----------------------------------------------------------------------------
(* Properties.                                                              *)

Holds(d, b) == b \in active[d] \/ (pc[d] \in {"start", "refuse"} /\ cur[d] = b)

HeldAt(w, b) == \E d \in Daemons : Serves[d] = w /\ Holds(d, b)

\* A batch with a preferred worker is only ever handed to, held by and started
\* on that worker, whatever claims overlap, time out or come late.
RoutedToPreferred ==
  \A b \in Batches : Preferred[b] # None =>
    /\ assigned[b] \in {None, Preferred[b]}
    /\ \A w \in Workers : HeldAt(w, b) => w = Preferred[b]

\* As long as no two daemons of its worker have run at once, a batch with a
\* preferred worker is started at most once in its life: no late claim handler,
\* lost answer, stop in the middle of a claim, death or successor makes it run
\* twice.
StartedAtMostOnce ==
  \A b \in Batches : Preferred[b] \notin doubled \cup {None} => starts[b] <= 1

\* The strengthening under which the three properties around it are inductive.
\* It relates the row of a batch to every handler thread and every step of a
\* daemon that is about it: all of them exist only for a batch that has been
\* claimed, and on a worker the routing allows; a claim still awaited by its
\* daemon is the only one of that daemon, and is about a batch not yet started
\* unless the worker has had two daemons at once.
Ran(b) == status[b] \in {"running"} \cup Outcome
MayRun(b, w) == Preferred[b] \in {None, w}
Fresh(b) == Preferred[b] \notin doubled \cup {None} => starts[b] = 0

ClaimsInv ==
  \A c \in claims :
    /\ Live(c) => pc[c.daemon] = "claiming"
    /\ \A e \in claims : Live(c) /\ Live(e) /\ c.daemon = e.daemon => c = e
    /\ c.batch # None =>
         /\ MayRun(c.batch, WorkerOf(c))
         /\ status[c.batch] = "queued" \/ Ran(c.batch)
         /\ Live(c) => Fresh(c.batch)

BeatsInv ==
  \A m \in beats :
    /\ Live(m) => pc[m.daemon] \in {"beat", "final", "refuse"}
    /\ \A n \in beats : Live(m) /\ Live(n) /\ m.daemon = n.daemon => m = n
    /\ Ran(m.batch)

DaemonInv ==
  \A d \in Daemons :
    /\ pc[d] \in {"start", "refuse", "beat", "final"} => cur[d] \in Batches
    /\ pc[d] \in {"start", "refuse"} => Ran(cur[d]) /\ MayRun(cur[d], Serves[d])
    /\ pc[d] = "start" => Fresh(cur[d])
    /\ \A b \in active[d] \cup todo[d] : Ran(b) /\ MayRun(b, Serves[d])

RowsInv ==
  \A b \in Batches :
    /\ starts[b] > 0 => Ran(b)
    /\ Preferred[b] # None => assigned[b] \in {None, Preferred[b]}
    /\ Preferred[b] \notin doubled \cup {None} => starts[b] <= 1

AloneInv ==
  \A d, e \in Daemons :
    Serves[d] = Serves[e] /\ Serves[d] \notin doubled /\ pc[d] # "down" /\ pc[e] # "down" => d = e

RouteInv == TypeOK /\ ClaimsInv /\ BeatsInv /\ DaemonInv /\ RowsInv /\ AloneInv

\* Until the first fault the table also tells the truth about a batch with a
\* preferred worker: a claim has selected it only while it is queued, a
\* heartbeat is about the step its daemon stands in, the daemon polls what it
\* still has, and the row says running exactly while a daemon of that worker,
\* its only one, holds the batch.
Pinned == {b \in Batches : Preferred[b] # None}

HeldClaims ==
  \A c \in claims : Live(c) /\ (c.batch \in Pinned => status[c.batch] = "queued")

HeldBeats ==
  \A m \in beats :
    /\ Live(m) /\ m.batch = cur[m.daemon]
    /\ m.status = "running" <=> pc[m.daemon] = "beat"

HeldLoop ==
  \A d \in Daemons :
    /\ todo[d] \subseteq active[d]
    /\ pc[d] \in {"beat", "final"} => cur[d] \in active[d] \ todo[d]
    /\ pc[d] \in {"start", "refuse"} /\ cur[d] \in Pinned => cur[d] \notin active[d]
    /\ pc[d] = "down" => active[d] = {}

HeldRows ==
  \A b \in Pinned :
    /\ status[b] = "running" <=> HeldAt(Preferred[b], b)
    /\ status[b] = "running" => assigned[b] = Preferred[b]
    /\ b \in finished <=> status[b] \in Outcome

HeldInv ==
  faults = 0 => /\ doubled = {} /\ stopping = {}
                /\ HeldClaims /\ HeldBeats /\ HeldLoop /\ HeldRows

DispatchInv == RouteInv /\ HeldInv

\* A batch no executor may see yet, or any more: a batch waiting for its
\* worker's assets leaves that state by the sync alone, and a failed sync is
\* never undone by a claim or a heartbeat.
SyncGate ==
  [][\A b \in Batches :
       /\ status[b] = "pending_sync" =>
            status'[b] \in {"pending_sync", "queued", "sync_failed"}
       /\ status[b] = "sync_failed" => status'[b] = "sync_failed"]_vars

\* Without faults, a batch the database shows as running is held by the worker
\* it is assigned to: nothing runs that no daemon will ever report.
RunningIsHeld ==
  \A b \in Batches : status[b] = "running" =>
    assigned[b] # None /\ HeldAt(assigned[b], b)

\* Without faults, a queued batch is claimed, run and finished.
EveryQueuedBatchFinishes ==
  \A b \in Batches : status[b] = "queued" ~> status[b] \in Outcome

\* functional-design.md: a batch is held by one worker at a time.  Refuted for
\* batches of the shared queue.
HeldByOne ==
  \A b \in Batches, v, w \in Workers : HeldAt(v, b) /\ HeldAt(w, b) => v = w

\* A batch with a preferred worker is started at most once whatever daemons run.
\* Refuted: a daemon told to stop starts the batch of the claim it has in flight,
\* and its replacement, started meanwhile, has claimed the same one.
NeverStartedTwice == \A b \in Batches : Preferred[b] # None => starts[b] <= 1

\* functional-design.md: succeeded and failed have no way out.  Refuted once a
\* heartbeat can be late.
TerminalIsFinal ==
  [][\A b \in Batches : status[b] \in Terminal => status'[b] = status[b]]_vars

\* The claim of a disabled worker selects no batch: what the switch of the
\* workers page and the test in claim_next_batch are for.  Refuted: the flag 0
\* is falsy, so "or 1" turns it on again.
DisabledSelectsNothing ==
  [][\A c \in claims' \ claims : c.batch # None => enabled[WorkerOf(c)] = 1]_vars

\* Without faults and with preferred workers, the protocol implements the
\* contract of a batch's row.
Contract ==
  INSTANCE BatchContract WITH
    row <- [b \in Batches |->
              [status |-> status[b], assigned |-> assigned[b], done |-> b \in finished]],
    Allowed <- [b \in Batches |-> IF Preferred[b] = None THEN Workers ELSE {Preferred[b]}]

KeepsContract == Contract!Spec
=============================================================================
