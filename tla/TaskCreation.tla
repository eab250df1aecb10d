---------------------------- MODULE TaskCreation ----------------------------
(***************************************************************************)
(* POST /api/eval-tasks/create-and-distribute: a request is validated, its *)
(* template and run are stored, its cases are dealt to the chosen workers  *)
(* by weight, every non-empty share becomes a batch, and the batches are   *)
(* handed to the asset sync through the run's manifest.                    *)
(*                                                                         *)
(* A case is its position in the request.  Weights are exact: a worker's   *)
(* score in units of 1/80, where the code uses floats.  The handler's      *)
(* thread is one actor; deletions of workers and changes of their          *)
(* machines or weights fall between its accesses to the workers table.     *)
(***************************************************************************)
EXTENDS Naturals, Integers, Sequences, FiniteSets, FiniteSetsExt

CONSTANTS
  Workers,
  Machines,    \* what a worker may report: slots, cpu, mem (GiB), weight (tenths), root (sharedRoot)
  Requests,    \* the requests: workers (a sequence), cases (how many), yaml
  Reaches,     \* how the controller may reach a worker: local, alias, none
  FaultKinds, MaxFaults

ASSUME CreationAssumption ==
  /\ Machines \subseteq [slots : Nat, cpu : Nat, mem : Nat, weight : Nat, root : BOOLEAN]
  /\ Requests \subseteq [workers : Seq(Workers), cases : Nat, yaml : BOOLEAN]
  /\ Reaches \subseteq {"local", "alias", "none"}
  /\ FaultKinds \subseteq {"delete", "change", "storage"}
  /\ MaxFaults \in Nat

VARIABLES
  row,        \* workers table
  request,
  pc,         \* where the handler stands
  seen,       \* the workers list the handler read first
  stored,     \* rows stored for the request: template, run, job
  weights, quotas, scores, groups,  \* of _weighted_case_groups, by position of the worker
  next,       \* the case dealt next
  shard,      \* the position that gets its batch next
  batches,    \* the batches of the run, in order of creation
  manifest,   \* caseIds by worker
  yamls,      \* batches whose YAML the template has
  faults

dealVars == <<weights, quotas, scores, groups, next>>
outVars  == <<stored, shard, batches, manifest, yamls>>
vars == <<row, request, pc, seen, dealVars, outVars, faults>>

Places == DOMAIN request.workers

Labels == {"validate", "refused", "template", "run", "weigh", "deal", "batch", "manifest",
           "yaml", "save", "start", "done"}

Row == [here : BOOLEAN, reach : {"local", "alias", "none"}, machine : Machines]

TypeOK ==
  /\ row \in [Workers -> Row]
  /\ seen \in [Workers -> Row]
  /\ request \in Requests
  /\ pc \in Labels
  /\ stored \subseteq {"template", "run", "job"}
  /\ weights \in [Places -> Nat]
  /\ quotas \in [Places -> Nat]
  /\ scores \in [Places -> Int]
  /\ groups \in [Places -> Seq(Nat)]
  /\ next \in Nat
  /\ shard \in Nat
  /\ batches \in Seq([place : Places, cases : Seq(Nat)])
  /\ manifest \in [Workers -> Seq(Nat)]
  /\ yamls \subseteq Nat
  /\ faults \in Nat

Init ==
  /\ row \in [Workers -> [here : {TRUE}, reach : Reaches, machine : Machines]]
  /\ seen = row
  /\ request \in Requests
  /\ pc = "validate"
  /\ stored = {}
  /\ weights = [i \in Places |-> 0]
  /\ quotas = [i \in Places |-> 0]
  /\ scores = [i \in Places |-> 0]
  /\ groups = [i \in Places |-> <<>>]
  /\ next = 1
  /\ shard = 1
  /\ batches = <<>>
  /\ manifest = [w \in Workers |-> <<>>]
  /\ yamls = {}
  /\ faults = 0

Fault(kind) ==
  /\ kind \in FaultKinds
  /\ faults < MaxFaults
  /\ faults' = faults + 1

Active == pc \notin {"refused", "done"}

---------------------------------------------------------------------------
(* Validation and the first rows.                                          *)

Valid ==
  /\ Places # {}
  /\ request.cases > 0
  /\ \A i \in Places : LET w == row[request.workers[i]]
                       IN  w.here /\ w.reach # "none"

\* list_workers, the case ids of the dataset and the validation of the assets.
Validate ==
  /\ pc = "validate"
  /\ seen' = row
  /\ pc' = IF Valid THEN "template" ELSE "refused"
  /\ UNCHANGED <<row, request, dealVars, outVars, faults>>

CreateTemplate ==
  /\ pc = "template"
  /\ stored' = stored \cup {"template"}
  /\ pc' = "run"
  /\ UNCHANGED <<row, request, seen, dealVars, shard, batches, manifest, yamls, faults>>

CreateRun ==
  /\ pc = "run"
  /\ stored' = stored \cup {"run"}
  /\ pc' = "weigh"
  /\ UNCHANGED <<row, request, seen, dealVars, shard, batches, manifest, yamls, faults>>

---------------------------------------------------------------------------
(* _weighted_case_groups.                                                  *)

AtLeast(least, x) == IF x < least THEN least ELSE x

OrOne(x) == IF x = 0 THEN 1 ELSE x

\* _worker_allocation_score; a worker that is gone counts as the smallest.
Score(w) ==
  IF row[w].here
  THEN LET m == row[w].machine
           override == IF m.weight = 0 THEN 10 ELSE m.weight
       IN  AtLeast(8, OrOne(m.slots) * (8 * OrOne(m.cpu) + AtLeast(1, m.mem)) * override)
  ELSE 90

Total(f) == MapThenSumSet(LAMBDA i : f[i], DOMAIN f)

\* Position i comes before j when remainders are handed out.
Precedes(rest, i, j) == rest[i] > rest[j] \/ (rest[i] = rest[j] /\ i < j)

\* Mutant: shares are rounded down and nothing is made of the rest.
RoundedDown(w) == [i \in DOMAIN w |-> (request.cases * w[i]) \div Total(w)]

\* Mutant: the whole rest goes to the first worker.
RestToFirst(w) ==
  LET floor == [i \in DOMAIN w |-> (request.cases * w[i]) \div Total(w)]
  IN  [i \in DOMAIN w |-> IF i = 1 THEN floor[i] + request.cases - Total(floor) ELSE floor[i]]

\* Shares by largest remainder.
Quotas(w) ==
  LET floor == [i \in DOMAIN w |-> (request.cases * w[i]) \div Total(w)]
      rest  == [i \in DOMAIN w |-> (request.cases * w[i]) % Total(w)]
      left  == request.cases - Total(floor)
      before(i) == {j \in DOMAIN w : Precedes(rest, j, i)}
  IN  [i \in DOMAIN w |-> floor[i] + (IF Cardinality(before(i)) < left THEN 1 ELSE 0)]

Weigh ==
  /\ pc = "weigh"
  /\ weights' = [i \in Places |-> Score(request.workers[i])]
  /\ quotas' = Quotas(weights')
  /\ pc' = "deal"
  /\ UNCHANGED <<row, request, seen, scores, groups, next, outVars, faults>>

Candidates == {i \in Places : quotas[i] > 0}

\* The order of max(): score, then quota, then the earlier position.
Better(s, i, j) ==
  \/ s[i] > s[j]
  \/ s[i] = s[j] /\ quotas[i] > quotas[j]
  \/ s[i] = s[j] /\ quotas[i] = quotas[j] /\ i < j

\* Mutant: a worker is dealt the same case until its quota is used up.
DealTwice ==
  /\ pc = "deal"
  /\ next <= request.cases /\ Candidates # {}
  /\ \E i \in Candidates :
       /\ groups' = [groups EXCEPT ![i] = Append(@, next)]
       /\ quotas' = [quotas EXCEPT ![i] = @ - 1]
       /\ next' = IF quotas[i] > 1 THEN next ELSE next + 1
  /\ UNCHANGED <<row, request, pc, seen, weights, scores, outVars, faults>>

\* Smooth weighted round robin among the workers whose quota is not used up.
DealCase ==
  LET s == [i \in Places |-> IF i \in Candidates THEN scores[i] + weights[i] ELSE scores[i]]
  IN
  /\ pc = "deal"
  /\ next <= request.cases /\ Candidates # {}
  /\ \E i \in Candidates :
       /\ \A j \in Candidates \ {i} : Better(s, i, j)
       /\ groups' = [groups EXCEPT ![i] = Append(@, next)]
       /\ quotas' = [quotas EXCEPT ![i] = @ - 1]
       /\ scores' = [s EXCEPT ![i] = @ - Total(weights)]
  /\ next' = next + 1
  /\ UNCHANGED <<row, request, pc, seen, weights, outVars, faults>>

\* The end of the loop, or its break when no quota is left.
EndDeal ==
  /\ pc = "deal"
  /\ next > request.cases \/ Candidates = {}
  /\ pc' = "batch"
  /\ UNCHANGED <<row, request, seen, dealVars, outVars, faults>>

---------------------------------------------------------------------------
(* create_sharded_batches, the manifest and the start of the sync.         *)

\* One create_batch, in a transaction of its own.
CreateBatch ==
  /\ pc = "batch"
  /\ shard \in Places
  /\ batches' = IF groups[shard] = <<>> THEN batches
                ELSE Append(batches, [place |-> shard, cases |-> groups[shard]])
  /\ shard' = shard + 1
  /\ UNCHANGED <<row, request, pc, seen, dealVars, stored, manifest, yamls, faults>>

EndBatches ==
  /\ pc = "batch"
  /\ shard \notin Places
  /\ pc' = "manifest"
  /\ UNCHANGED <<row, request, seen, dealVars, outVars, faults>>

WorkerOf(b) == request.workers[b.place]

\* worker_shards is a dict by worker: a later batch of a worker wins.
ShardOf(w) ==
  LET mine == {k \in DOMAIN batches : WorkerOf(batches[k]) = w}
  IN  IF mine = {} THEN <<>> ELSE batches[Max(mine)].cases

\* Mutant: the manifest follows the positions, not the batches.
ManifestByPosition ==
  /\ pc = "manifest"
  /\ manifest' = [w \in Workers |->
       LET mine == {k \in DOMAIN batches : k \in Places /\ request.workers[k] = w}
       IN  IF mine = {} THEN <<>> ELSE batches[Max(mine)].cases]
  /\ pc' = IF request.yaml THEN "yaml" ELSE "save"
  /\ UNCHANGED <<row, request, seen, dealVars, stored, shard, batches, yamls, faults>>

\* build_sync_manifest, from the workers list read before: a worker with a
\* batch must have reported its shared root.
BuildManifest ==
  /\ pc = "manifest"
  /\ \/ /\ \A k \in DOMAIN batches : seen[WorkerOf(batches[k])].machine.root
        /\ manifest' = [w \in Workers |-> ShardOf(w)]
        /\ pc' = IF request.yaml THEN "yaml" ELSE "save"
     \/ /\ \E k \in DOMAIN batches : ~seen[WorkerOf(batches[k])].machine.root
        /\ pc' = "refused"
        /\ UNCHANGED manifest
  /\ UNCHANGED <<row, request, seen, dealVars, stored, shard, batches, yamls, faults>>

\* harborYamlByBatchId, one YAML for each batch.
WriteYamls ==
  /\ pc = "yaml"
  /\ yamls' = DOMAIN batches
  /\ pc' = "save"
  /\ UNCHANGED <<row, request, seen, dealVars, stored, shard, batches, manifest, faults>>

\* update_run_sync_fields and create_asset_sync_job.
SaveJob ==
  /\ pc = "save"
  /\ stored' = stored \cup {"job"}
  /\ pc' = "start"
  /\ UNCHANGED <<row, request, seen, dealVars, shard, batches, manifest, yamls, faults>>

StartSync ==
  /\ pc = "start"
  /\ pc' = "done"
  /\ UNCHANGED <<row, request, seen, dealVars, outVars, faults>>

\* A write raises: the handler answers 400, what is stored stays.
StorageFails ==
  /\ pc \in {"template", "run", "batch", "yaml", "save"}
  /\ Fault("storage")
  /\ pc' = "refused"
  /\ UNCHANGED <<row, request, seen, dealVars, outVars>>

---------------------------------------------------------------------------
(* Other requests.                                                         *)

\* DELETE /api/workers/<id>; batches in pending_sync do not prevent it.
DeleteWorker(w) ==
  /\ Active /\ row[w].here
  /\ Fault("delete")
  /\ row' = [row EXCEPT ![w].here = FALSE]
  /\ UNCHANGED <<request, pc, seen, dealVars, outVars>>

\* A registration or new settings: slots, capabilities, allocation_weight.
ChangeMachine(w) ==
  /\ Active /\ row[w].here
  /\ Fault("change")
  /\ \E m \in Machines \ {row[w].machine} : row' = [row EXCEPT ![w].machine = m]
  /\ UNCHANGED <<request, pc, seen, dealVars, outVars>>

---------------------------------------------------------------------------

Handler ==
  \/ Validate \/ CreateTemplate \/ CreateRun \/ Weigh \/ DealCase \/ EndDeal
  \/ CreateBatch \/ EndBatches \/ BuildManifest \/ WriteYamls \/ SaveJob \/ StartSync

Answered == ~Active /\ UNCHANGED vars

Next ==
  \/ Handler
  \/ StorageFails
  \/ \E w \in Workers : DeleteWorker(w) \/ ChangeMachine(w)
  \/ Answered

Spec == Init /\ [][Next]_vars

---------------------------------------------------------------------------
(* Properties.                                                             *)

\* Every case that was dealt is in one share, once, and a share keeps the
\* order of the request (_weighted_case_groups).
DealtOnce ==
  /\ \A k \in 1..(next - 1) : \E i \in Places : \E p \in DOMAIN groups[i] : groups[i][p] = k
  /\ \A i \in Places : \A p \in DOMAIN groups[i] : groups[i][p] \in 1..(next - 1)
  /\ \A i, j \in Places : \A p \in DOMAIN groups[i], q \in DOMAIN groups[j] :
       groups[i][p] = groups[j][q] => i = j /\ p = q
  /\ \A i \in Places : \A p, q \in DOMAIN groups[i] : p < q => groups[i][p] < groups[i][q]

\* A batch is the whole share of its worker, and each share has one batch at
\* most, in the order of the workers (create_sharded_batches).
BatchesAreShares ==
  /\ \A k \in DOMAIN batches : batches[k].cases = groups[batches[k].place]
  /\ \A k \in DOMAIN batches : batches[k].place < shard
  /\ \A k, l \in DOMAIN batches : k < l => batches[k].place < batches[l].place
  /\ \A i \in Places : i < shard /\ groups[i] # <<>> =>
       \E k \in DOMAIN batches : batches[k].place = i
  /\ pc \in {"validate", "template", "run", "weigh", "deal"} => batches = <<>> /\ shard = 1

CreationInv == DealtOnce /\ BatchesAreShares

\* Once the handler has made its batches they cover every case of the request:
\* rounding loses none, and quotas never run out before the cases do.
CasesCovered ==
  pc \in {"manifest", "yaml", "save", "start", "done"} =>
    \A c \in 1..request.cases :
      \E k \in DOMAIN batches : \E p \in DOMAIN batches[k].cases : batches[k].cases[p] = c

\* A worker's share differs from the exact share by less than a case, whatever
\* the weights, also when its row went away or changed under the request.
FairShares ==
  pc \in {"batch", "manifest", "yaml", "save", "start", "done"} =>
    \A i \in Places :
      /\ request.cases * weights[i] < (Len(groups[i]) + 1) * Total(weights)
      /\ Len(groups[i]) * Total(weights) < request.cases * weights[i] + Total(weights)

\* What the sync will copy to a worker is what its batch selects.
ManifestMatches ==
  pc \in {"yaml", "save", "start", "done"} =>
    \A k \in DOMAIN batches : manifest[WorkerOf(batches[k])] = batches[k].cases

\* Refuted: the sync brings every worker the cases it will execute.
WorkersGetTheirCases ==
  pc = "done" => \A k \in DOMAIN batches : \A p \in DOMAIN batches[k].cases :
    \E q \in DOMAIN manifest[WorkerOf(batches[k])] :
      manifest[WorkerOf(batches[k])][q] = batches[k].cases[p]
=============================================================================
