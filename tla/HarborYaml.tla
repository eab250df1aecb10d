----------------------------- MODULE HarborYaml -----------------------------
(***************************************************************************)
(* The paths of a batch on their way from a request to Harbor: a submitted *)
(* YAML is parsed, its bind sources become assets, the YAML of the batch   *)
(* is built with every path rewritten to the worker's sync root, cases and *)
(* assets are copied there, and the executor prepares the batch.  Requests *)
(* without a YAML (kind "plain") reach the executor through its config.    *)
(*                                                                         *)
(* A path is a sequence of names.  A text is a string of the YAML that     *)
(* spells a path: absolute, from the home directory, or relative.          *)
(***************************************************************************)
EXTENDS Naturals, Sequences, FiniteSets, SequencesExt, TLC

CONSTANTS
  Requests,       \* what may be submitted; an absent entry of the YAML is <<>>
  NameOrder,      \* all names of directories, in the order of sorted()
  Dirs, Files,    \* the controller's file system, by real paths
  TomlTasks,      \* the directories that hold a task.toml
  Links,          \* symbolic links: from a path to the real one
  Home, Cwd,      \* of the controller
  WorkerFiles,    \* what a remote worker has of its own
  SyncRoot,       \* the run's directory on the worker: sharedRoot/sync/<run id>
  BatchRoot,      \* the batch's directory
  UvBinary,       \* uv on the worker
  Locals          \* whether the worker may share the controller's files

\* What an entry of a YAML or of a request spells.
Spelling == [root : {"abs", "home", "rel"}, path : Seq(STRING)]
Request  == [kind : {"datasets", "tasks", "plain"}, rerun : BOOLEAN, path : Spelling, paths : Seq(Spelling),
             names : Seq(Seq(STRING)), limit : Seq(Nat), selected : Seq(STRING),
             mounts : Seq([type : STRING, source : Spelling, target : Spelling]),
             refs : Seq(Spelling), bitfun : Seq(Seq(STRING))]

\* The root directory is no dataset, task or bind source.
ASSUME YamlAssumption ==
  /\ Requests \subseteq Request /\ Locals \subseteq BOOLEAN
  /\ Dirs \cup Files \subseteq Seq(STRING) \ {<<>>}
  /\ Dirs \cap Files = {} /\ TomlTasks \subseteq Dirs
  /\ DOMAIN Links \subseteq Seq(STRING) \ (Dirs \cup Files)
  /\ \A l \in DOMAIN Links : Links[l] \in Seq(STRING)
  /\ {Home, Cwd, BatchRoot} \subseteq Seq(STRING) /\ SyncRoot \in Seq(STRING) \ {<<>>}

VARIABLES
  request, local,
  pc,
  plan,       \* ref (dataset_ref), ids (task_ids), at (where each task is)
  index,      \* the mount looked at next
  assets,     \* bind assets: source and name
  shard,      \* the ids of the batch
  yaml,       \* the batch's YAML: tasks, mounts, refs, jobs
  copies,     \* what the sync copied: from worker paths to controller paths
  prepared    \* what the executor hands to Harbor

vars == <<request, local, pc, plan, index, assets, shard, yaml, copies, prepared>>

NoPlan == [ref |-> <<>>, ids |-> <<>>, at |-> <<>>]
NoYaml == [tasks |-> <<>>, mounts |-> <<>>, refs |-> <<>>, jobs |-> <<>>]

Labels == {"parse", "validate", "discover", "build", "cases", "assets", "prepare",
           "running", "refused", "failed"}

IsPath(p) == \A i \in DOMAIN p : p[i] \in STRING

TypeOK ==
  /\ request \in Requests /\ local \in Locals
  /\ pc \in Labels
  /\ IsPath(plan.ref) /\ \A i \in DOMAIN plan.ids : IsPath(plan.at[plan.ids[i]])
  /\ index \in 1..(Len(request.mounts) + 1)
  /\ \A i \in DOMAIN assets : assets[i].source \in Dirs \cup Files /\ assets[i].name \in STRING
  /\ shard \subseteq DOMAIN plan.ids
  /\ \A t \in DOMAIN copies : IsPrefix(SyncRoot, t) /\ IsPath(copies[t])
  /\ IsPath(yaml.jobs) /\ IsPath(prepared.jobs)

Init ==
  /\ request \in Requests /\ local \in Locals
  /\ pc = "parse"
  /\ plan = NoPlan
  /\ index = 1
  /\ assets = <<>>
  /\ shard = {}
  /\ yaml = NoYaml
  /\ copies = <<>>
  /\ prepared = NoYaml

---------------------------------------------------------------------------
(* Paths.                                                                  *)

After(p, prefix) == SubSeq(p, Len(prefix) + 1, Len(p))

\* Path.resolve.
Real(p) ==
  IF \E l \in DOMAIN Links : IsPrefix(l, p)
  THEN LET l == CHOOSE l \in DOMAIN Links : IsPrefix(l, p) IN Links[l] \o After(p, l)
  ELSE p

\* Path.expanduser, and the working directory for what stays relative.
Abs(text) ==
  CASE text.root = "abs"  -> text.path
    [] text.root = "home" -> Home \o text.path
    [] text.root = "rel"  -> Cwd \o text.path

Where(text) == Real(Abs(text))

Exists(p) == p \in Dirs \cup Files

Longest(S) == CHOOSE p \in S : \A q \in S : Len(q) <= Len(p)

DatasetDir == SyncRoot \o <<"dataset">>
AssetPath(name) == SyncRoot \o <<"assets", name>>

---------------------------------------------------------------------------
(* parse_harbor_yaml and parse_rerun_harbor_yaml.                          *)

Children(d) == {n \in ToSet(NameOrder) : Append(d, n) \in Dirs}

\* _enumerate_dataset_tasks.
Enumerate(d) ==
  LET tasks == {n \in Children(d) : Append(d, n) \in TomlTasks}
      found == IF tasks # {} THEN tasks ELSE Children(d)
  IN  SelectSeq(NameOrder, LAMBDA n : n \in found)

\* The tasks a dataset entry names, before its limit.
Named(d) == IF request.names = <<>> THEN Enumerate(d) ELSE request.names[1]

Limited(ids) ==
  IF request.limit = <<>> \/ Len(ids) <= request.limit[1] THEN ids
  ELSE SubSeq(ids, 1, request.limit[1])

\* The dataset entry is good: of _resolve_dataset_tasks, or for a rerun of
\* _resolve_rerun_dataset_tasks.
GoodDataset ==
  LET d == Where(request.path)
  IN  /\ d \in Dirs
      /\ IF request.rerun
         THEN \A i \in DOMAIN request.selected : Append(d, request.selected[i]) \in Dirs
         ELSE /\ Named(d) # <<>>
              /\ \A i \in DOMAIN Named(d) : Exists(Append(d, Named(d)[i]))
              /\ request.limit # <<>> => request.limit[1] >= 1

DatasetPlan ==
  LET d   == Where(request.path)
      ids == IF request.rerun THEN request.selected ELSE Limited(Named(d))
  IN  [ref |-> d, ids |-> ids, at |-> [n \in ToSet(ids) |-> Append(d, n)]]

TaskPath(i) == Where(request.paths[i])

\* os.path.commonpath of the tasks' parents.
CommonParent ==
  LET shared == {p \in UNION {{SubSeq(TaskPath(i), 1, k) : k \in 0..(Len(TaskPath(i)) - 1)} :
                              i \in DOMAIN request.paths} :
                   \A i \in DOMAIN request.paths : IsPrefix(p, Front(TaskPath(i)))}
  IN  Real(Longest(shared))

\* Where a rerun looks for a task: a later entry of the same name wins.
RerunTask(n) ==
  LET same == {i \in DOMAIN request.paths : Last(TaskPath(i)) = n}
  IN  IF same = {} THEN Real(Append(CommonParent, n))
      ELSE TaskPath(CHOOSE i \in same : \A j \in same : j <= i)

\* _resolve_direct_tasks, for a rerun _resolve_rerun_direct_tasks.
GoodTasks ==
  /\ request.paths # <<>>
  /\ IF request.rerun
     THEN /\ \A i \in DOMAIN request.paths : TaskPath(i) \in Dirs
          /\ \A i \in DOMAIN request.selected : RerunTask(request.selected[i]) \in Dirs
     ELSE /\ \A i \in DOMAIN request.paths : Exists(TaskPath(i))
          /\ \A i, j \in DOMAIN request.paths : Last(TaskPath(i)) = Last(TaskPath(j)) => i = j

TasksPlan ==
  IF request.rerun
  THEN [ref |-> CommonParent, ids |-> request.selected,
        at |-> [n \in ToSet(request.selected) |-> RerunTask(n)]]
  ELSE LET ids == [i \in DOMAIN request.paths |-> Last(TaskPath(i))]
       IN  [ref |-> TaskPath(1), ids |-> ids,
            at |-> [n \in ToSet(ids) |-> TaskPath(CHOOSE i \in DOMAIN ids : ids[i] = n)]]

Refuse == pc' = "refused" /\ UNCHANGED <<plan, index, assets>>

\* A plain request names its cases; list_dataset_case_ids gives them if not.
Parse ==
  /\ pc = "parse"
  /\ \/ /\ request.kind = "tasks" /\ GoodTasks /\ plan' = TasksPlan
        /\ pc' = IF request.rerun THEN "discover" ELSE "validate"
        /\ UNCHANGED <<index, assets>>
     \/ /\ request.kind # "tasks" /\ GoodDataset /\ plan' = DatasetPlan
        /\ pc' = IF request.rerun THEN "discover" ELSE "validate"
        /\ UNCHANGED <<index, assets>>
     \/ /\ IF request.kind = "tasks" THEN ~GoodTasks ELSE ~GoodDataset
        /\ Refuse
  /\ UNCHANGED <<request, local, shard, yaml, copies, prepared>>

---------------------------------------------------------------------------
(* Validation and discover_bind_assets.                                    *)

\* validate_dataset_assets; a creation does this before the discovery, a
\* rerun after it.
Validate ==
  /\ pc = "validate"
  /\ \/ /\ \A i \in DOMAIN plan.ids : plan.at[plan.ids[i]] \in Dirs
        /\ pc' = IF request.rerun THEN "build" ELSE "discover"
        /\ UNCHANGED <<plan, index, assets>>
     \/ /\ \E i \in DOMAIN plan.ids : plan.at[plan.ids[i]] \notin Dirs
        /\ Refuse
  /\ UNCHANGED <<request, local, shard, yaml, copies, prepared>>

UsedNames == {assets[i].name : i \in DOMAIN assets}

Numbered(base, k) == IF k = 1 THEN base ELSE base \o "-" \o ToString(k)

\* A numbered name is a name, and the number tells it from the others.
ASSUME NumbersAssumption ==
  \A p \in Dirs \cup Files : \A r \in Requests : \A i \in DOMAIN r.mounts :
    /\ Numbered(Last(p), i) \in STRING
    /\ \A j \in DOMAIN r.mounts : Numbered(Last(p), i) = Numbered(Last(p), j) => i = j

\* Mutant: names are not told apart.
PlainName(base) == base

\* _stable_asset_name: the name, or the name with the first free number.
FreshName(base) ==
  LET k == CHOOSE k \in 1..(Len(assets) + 1) :
             /\ Numbered(base, k) \notin UsedNames
             /\ \A j \in 1..(k - 1) : Numbered(base, j) \in UsedNames
  IN  Numbered(base, k)

DiscoverMount ==
  LET mount  == request.mounts[index]
      source == Where(mount.source)
  IN
  /\ pc = "discover" /\ index \in DOMAIN request.mounts
  /\ \/ /\ mount.type # "bind" \/ request.kind = "plain"
        /\ index' = index + 1
        /\ UNCHANGED <<pc, plan, assets>>
     \/ /\ mount.type = "bind" /\ request.kind # "plain"
        /\ mount.source.root # "rel" /\ Exists(source)
        /\ assets' = IF \E i \in DOMAIN assets : assets[i].source = source THEN assets
                     ELSE Append(assets, [source |-> source, name |-> FreshName(Last(source))])
        /\ index' = index + 1
        /\ UNCHANGED <<pc, plan>>
     \/ /\ mount.type = "bind" /\ request.kind # "plain"
        /\ mount.source.root = "rel" \/ ~Exists(source)
        /\ Refuse
  /\ UNCHANGED <<request, local, shard, yaml, copies, prepared>>

EndDiscovery ==
  /\ pc = "discover" /\ index \notin DOMAIN request.mounts
  /\ pc' = IF request.rerun THEN "validate" ELSE "build"
  /\ UNCHANGED <<request, local, plan, index, assets, shard, yaml, copies, prepared>>

---------------------------------------------------------------------------
(* build_batch_harbor_yaml.                                                *)

\* build_worker_rewrite_map: an asset of the dataset's own path wins.
RewriteMap ==
  LET sources == {assets[i].source : i \in DOMAIN assets}
      name(p) == assets[CHOOSE i \in DOMAIN assets : assets[i].source = p].name
  IN  [p \in sources \cup {plan.ref} |-> IF p \in sources THEN AssetPath(name(p)) ELSE DatasetDir]

\* The root directory is a prefix of nothing: "//" begins no path.
Fits(p) == {s \in DOMAIN RewriteMap : p = s \/ (s # <<>> /\ IsPrefix(s, p))}

\* _rewrite_path_string, with the longest source first.
RewritePath(p) ==
  LET fits == Fits(p)
  IN  IF fits = {} THEN p ELSE RewriteMap[Longest(fits)] \o After(p, Longest(fits))

\* Mutant: a string below a source is left as it is.
RewriteWhole(text) ==
  IF text.root = "abs" /\ text.path \in DOMAIN RewriteMap THEN [text EXCEPT !.path = RewriteMap[@]] ELSE text

\* Only a string that begins with a slash is looked at.
Rewrite(text) == IF text.root = "abs" THEN [text EXCEPT !.path = RewritePath(@)] ELSE text

JobsDir == BatchRoot \o <<"harbor", "jobs">>

BatchYaml(ids) ==
  [tasks  |-> [n \in ids |-> RewritePath(Append(DatasetDir, n))],
   mounts |-> [i \in DOMAIN request.mounts |->
                 [type   |-> request.mounts[i].type,
                  source |-> Rewrite(request.mounts[i].source),
                  target |-> Rewrite(request.mounts[i].target)]],
   refs   |-> [i \in DOMAIN request.refs |-> Rewrite(request.refs[i])],
   jobs   |-> RewritePath(JobsDir)]

\* The ids of the batch come from the shards; a plain batch has no YAML.
Build ==
  /\ pc = "build"
  /\ \E places \in SUBSET DOMAIN plan.ids \ {{}} :
       LET ids == {plan.ids[i] : i \in places}
       IN  /\ shard' = places
           /\ yaml' = IF request.kind = "plain" THEN NoYaml ELSE BatchYaml(ids)
  /\ pc' = "cases"
  /\ UNCHANGED <<request, local, plan, index, assets, copies, prepared>>

---------------------------------------------------------------------------
(* The sync of the worker.                                                 *)

Selected == {plan.ids[i] : i \in shard}

\* Mutant: taskSources is not looked at.
SyncFromDataset ==
  /\ pc = "cases"
  /\ copies' = [t \in {Append(DatasetDir, n) : n \in Selected} |-> Append(plan.ref, Last(t))]
  /\ pc' = "assets"
  /\ UNCHANGED <<request, local, plan, index, assets, shard, yaml, prepared>>

\* _sync_cases: taskSources for tasks, children of the dataset otherwise.
CaseCopies ==
  [t \in {Append(DatasetDir, n) : n \in Selected} |->
     IF request.kind = "tasks" THEN plan.at[Last(t)] ELSE Append(plan.ref, Last(t))]

SyncCases ==
  /\ pc = "cases"
  /\ copies' = CaseCopies
  /\ pc' = "assets"
  /\ UNCHANGED <<request, local, plan, index, assets, shard, yaml, prepared>>

\* What is copied over what is there.
Onto(f, g) == [t \in DOMAIN f \cup DOMAIN g |-> IF t \in DOMAIN f THEN f[t] ELSE g[t]]

\* What bitfunCliPath and bitfunConfigDir of a plain request are.
BitfunCopies ==
  [t \in {SyncRoot \o <<"bitfun", n>> : n \in {"bitfun-cli", "config"}} |->
     IF Last(t) = "bitfun-cli" THEN request.bitfun[1] ELSE Append(request.bitfun[2], "config")]

\* _sync_bind_assets: a later asset over an earlier one.
BindCopies ==
  [t \in {AssetPath(assets[i].name) : i \in DOMAIN assets} |->
     assets[CHOOSE i \in DOMAIN assets :
              /\ AssetPath(assets[i].name) = t
              /\ \A j \in DOMAIN assets : AssetPath(assets[j].name) = t => j <= i].source]

\* Only the sync of a rerun calls _sync_bitfun.
AssetCopies ==
  IF request.kind # "plain" THEN BindCopies
  ELSE IF request.rerun THEN BitfunCopies ELSE <<>>

SyncAssets ==
  /\ pc = "assets"
  /\ copies' = Onto(AssetCopies, copies)
  /\ pc' = "prepare"
  /\ UNCHANGED <<request, local, plan, index, assets, shard, yaml, prepared>>

---------------------------------------------------------------------------
(* HarborExecutor.prepare on the worker.                                   *)

\* What is found at a path of the worker.
Content(p) ==
  LET holders == {t \in DOMAIN copies : IsPrefix(t, p)}
  IN  IF holders # {}
      THEN [on |-> "controller", path |-> copies[Longest(holders)] \o After(p, Longest(holders))]
      ELSE [on |-> IF local THEN "controller" ELSE "worker", path |-> IF local THEN Real(p) ELSE p]

Found(c) == c.path \in IF c.on = "controller" THEN Dirs \cup Files ELSE WorkerFiles

\* The worker's own home and working directory are not the controller's.
OnWorker(text) ==
  IF text.root = "abs" \/ local THEN Content(Abs(text)) ELSE [on |-> "worker", path |-> <<text.root>> \o text.path]

\* build_sync_bind_mounts, as mountsByWorker has them once the sync is done.
BindOf(p) == [type |-> "bind", source |-> [root |-> "abs", path |-> p], target |-> [root |-> "abs", path |-> p]]
SyncMounts == <<BindOf(UvBinary), BindOf(SyncRoot \o <<"bitfun", "bitfun-cli">>),
                BindOf(SyncRoot \o <<"bitfun", "config">>)>>

\* _prepare_from_harbor_yaml.
PrepareFromYaml ==
  /\ pc = "prepare" /\ request.kind # "plain"
  /\ prepared' = [yaml EXCEPT !.jobs = JobsDir]
  /\ pc' = "running"
  /\ UNCHANGED <<request, local, plan, index, assets, shard, yaml, copies>>

\* _validate_bind_mount_sources.
MountsFound(mounts) ==
  \A i \in DOMAIN mounts : mounts[i].type = "bind" => Found(OnWorker(mounts[i].source))

\* prepare without a YAML: the selected tasks and the mounts must be there.
ConfigYaml ==
  [tasks |-> [n \in Selected |-> Append(DatasetDir, n)], mounts |-> SyncMounts, refs |-> <<>>, jobs |-> JobsDir]

PrepareFromConfig ==
  LET ok == /\ \A n \in Selected : Found(Content(Append(DatasetDir, n)))
            /\ MountsFound(SyncMounts)
  IN
  /\ pc = "prepare" /\ request.kind = "plain"
  /\ \/ /\ ok
        /\ prepared' = ConfigYaml
        /\ pc' = "running"
     \/ ~ok /\ pc' = "failed" /\ UNCHANGED prepared
  /\ UNCHANGED <<request, local, plan, index, assets, shard, yaml, copies>>

---------------------------------------------------------------------------

Ended == pc \in {"running", "refused", "failed"} /\ UNCHANGED vars

Next ==
  \/ Parse \/ Validate \/ DiscoverMount \/ EndDiscovery \/ Build
  \/ SyncCases \/ SyncAssets \/ PrepareFromYaml \/ PrepareFromConfig
  \/ Ended

Spec == Init /\ [][Next]_vars

---------------------------------------------------------------------------
(* Properties.                                                             *)

OnController(p) == [on |-> "controller", path |-> p]

Binds(mounts) == {i \in DOMAIN mounts : mounts[i].type = "bind"}

\* What a request may mean by task n: the entry of that name, a child of the
\* dataset, or for a rerun the neighbour of an entry.
Meant(n) ==
  LET named == {TaskPath(i) : i \in {i \in DOMAIN request.paths : Last(TaskPath(i)) = n}}
  IN  IF request.kind # "tasks" THEN {Append(Where(request.path), n)}
      ELSE IF named # {} THEN named
      ELSE {Append(Front(TaskPath(i)), n) : i \in DOMAIN request.paths}

\* Harbor finds each task of the batch, and it is the one the request meant,
\* after the YAML's path was replaced, rewritten and the copy made.
TasksAreThere ==
  pc = "running" => \A n \in Selected :
    \E p \in Meant(n) : Content(prepared.tasks[n]) = OnController(p)

\* Each bind source leads to the copy of the file or directory the request
\* named, also when two sources have the same last name or one is in another.
BindsAreThere ==
  pc = "running" /\ request.kind # "plain" =>
    \A i \in Binds(request.mounts) :
      OnWorker(prepared.mounts[i].source) = OnController(Where(request.mounts[i].source))

\* Any other string at or below a bind source or a task of a dataset's batch
\* leads to the same file on the worker.
RefsFollow ==
  LET known == {assets[i].source : i \in DOMAIN assets}
               \cup IF request.kind = "datasets" THEN {plan.at[n] : n \in Selected} ELSE {}
  IN
  pc = "running" /\ request.kind # "plain" =>
    \A i \in DOMAIN request.refs :
      request.refs[i].root = "abs" /\ (\E s \in known : IsPrefix(s, request.refs[i].path)) =>
        OnWorker(prepared.refs[i]) = OnController(request.refs[i].path)

\* No batch is started with a bind source that is not there.  It holds of
\* plain requests; refuted for a YAML.
NoMissingMount ==
  pc = "running" => \A i \in Binds(prepared.mounts) : Found(OnWorker(prepared.mounts[i].source))

---------------------------------------------------------------------------
(* What the theorems assume of a request.                                  *)

\* Nothing it names is above or below the place it is copied to.
Clear ==
  \A s \in DOMAIN RewriteMap : s # <<>> => ~IsPrefix(s, SyncRoot) /\ ~IsPrefix(SyncRoot, s)

\* A rerun takes its cases from the entries of the YAML.
FromEntries ==
  request.kind = "tasks" /\ request.rerun =>
    \A n \in ToSet(request.selected) : \E i \in DOMAIN request.paths : Last(TaskPath(i)) = n

\* Bind sources are spelled as they are resolved.
AsResolved ==
  \A i \in Binds(request.mounts) :
    request.mounts[i].source.root = "abs" /\ Where(request.mounts[i].source) = request.mounts[i].source.path

\* No bind source is strictly above the dataset, which of a list of tasks is the first.
NoneAbove ==
  \A i \in DOMAIN assets : IsPrefix(assets[i].source, plan.ref) => assets[i].source = plan.ref

=============================================================================
