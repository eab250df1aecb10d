----------------------------- MODULE RerunScope -----------------------------
(***************************************************************************)
(* What a request to rerun exceptions runs again, and with which           *)
(* configuration (controller/run_rerun_coordinator.py: _resolve_rerun_scope*)
(* and what it calls, _prevalidate_config, _apply_config,                  *)
(* _apply_harbor_yaml_config; controller/harbor_exceptions.py;             *)
(* storage/store.py resolve_dataset_case_id).                              *)
(*                                                                         *)
(* A case has one trial.  Its name differs from place to place: the id the *)
(* run selected, which is its directory in the dataset; the stem of the    *)
(* trial's directory, which Harbor cuts short and the database keeps; the  *)
(* task name in the trial's result, which may have an organisation before  *)
(* it.  Names are strings; which one lies within which other is constant.  *)
(***************************************************************************)
EXTENDS Naturals, Sequences, FiniteSets, SequencesExt, WellFoundedInduction, TLAPS

CONSTANTS
  Selected,    \* by primary batch, in the order they were made: its selected_case_ids
  WorkerOf,    \* the worker of each batch
  Sorted,      \* all case ids, in the order of sorted()
  Stem,        \* the stem of the trial directory of a case
  OrgName,     \* the name of a case with its organisation
  Within,      \* pairs of different names of which the first is part of the second
  Types,       \* exception types
  Namings,     \* how trials may name their task: "id", "org", or not at all: "stem"
  Sources,     \* where the exceptions are found: the job directory or the rows
  MaxGone,     \* trials that may be missing from the job directory
  Bodies,      \* what the request may bring: "none", "config", "yaml"
  MaxChanges,  \* case directories and workers that go away during the request
  None

Ids     == ToSet(Sorted)
Batches == DOMAIN Selected
Workers == {WorkerOf[b] : b \in Batches}
BatchOf(x) == CHOOSE b \in Batches : x \in ToSet(Selected[b])

ASSUME ScopeAssumption ==
  /\ Selected \in Seq(Seq(Ids))
  /\ Ids = UNION {ToSet(Selected[b]) : b \in Batches}
  /\ \A a, b \in Batches : a # b => ToSet(Selected[a]) \cap ToSet(Selected[b]) = {}
  /\ "ok" \notin Types /\ None \notin Types /\ None \notin {201, 400}
  /\ Namings \subseteq {"id", "org", "stem"} /\ Sources \subseteq {"job", "rows"}
  /\ Bodies \subseteq {"none", "config", "yaml"}
  /\ MaxGone \in Nat /\ MaxChanges \in Nat

VARIABLES
  outcome,   \* how the trial of a case ended: "ok" or an exception type
  naming, found,
  gone,      \* the trials missing from the job directory
  request,   \* selectedErrorTypes, the body, whether its values are well formed
  binds,     \* the bind sources of the YAML are there
  dirs,      \* the case directories of the dataset
  usable,    \* the workers that are there and can be reached
  pc,
  items,     \* the exceptions that will run again: trial, batch, case
  answer,    \* the status code of the answer
  derived,   \* the derived run: rerun_status
  reruns,    \* the rerun batches: parent batch and cases
  changes

world  == <<outcome, naming, found, gone, request, binds>>
env    == <<dirs, usable>>
result == <<items, answer, derived, reruns>>
vars   == <<world, env, pc, result, changes>>

TypeOK ==
  /\ outcome \in [Ids -> Types \cup {"ok"}]
  /\ request.types = None \/ request.types \subseteq Types
  /\ dirs \subseteq Ids /\ usable \subseteq Workers /\ binds \in BOOLEAN
  /\ pc \in {"scope", "check", "derive", "config", "batches", "yaml", "sync", "done"}
  /\ \A i \in items : i.trial \in Ids /\ i.batch \in Batches
  /\ answer \in {None, 201, 400} /\ derived \in {None, "syncing", "failed"}
  /\ \A b \in reruns : b.parent \in Batches /\ b.cases # {}
  /\ changes \in 0..MaxChanges

Init ==
  /\ outcome \in [Ids -> Types \cup {"ok"}]
  /\ naming \in Namings /\ found \in Sources
  /\ gone \in {g \in SUBSET {x \in Ids : outcome[x] # "ok"} : Cardinality(g) <= MaxGone}
  /\ found = "rows" => naming = "stem" /\ gone = {}   \* no trial is read
  /\ request \in [types : {None} \cup SUBSET Types, body : Bodies, good : BOOLEAN]
  /\ request.body = "none" => request.good
  /\ binds \in BOOLEAN /\ (request.body # "yaml" => binds)
  /\ dirs = Ids /\ usable = Workers
  /\ pc = "scope" /\ items = {} /\ answer = None /\ derived = None
  /\ reruns = {} /\ changes = 0

\* A directory is removed or a worker deleted.
Change ==
  /\ changes < MaxChanges /\ pc # "done"
  /\ changes' = changes + 1
  /\ \/ \E x \in dirs : dirs' = dirs \ {x} /\ UNCHANGED usable
     \/ \E w \in usable : usable' = usable \ {w} /\ UNCHANGED dirs
  /\ UNCHANGED <<world, pc, result>>

-----------------------------------------------------------------------------
(* Names.                                                                   *)

\* Mutant: any name that lies within the other one will do.
CoversWithin(actual, id) == actual = id \/ <<id, actual>> \in Within

\* _case_covers_selected.
Covers(actual, id) == actual = id \/ <<actual, id>> \in Within \/ <<id, actual>> \in Within

\* The first element of a list that is in a set, if there is one.
FirstIn(list, set) ==
  LET at == {i \in DOMAIN list : list[i] \in set}
  IN  list[CHOOSE i \in at : \A j \in at : i <= j]

\* resolve_dataset_case_id of a case with this name.
Resolved(name, b) ==
  LET fits == {id \in dirs : Covers(name, id)}
  IN  IF name \in dirs THEN name
      ELSE IF fits \cap ToSet(Selected[b]) # {} THEN FirstIn(Selected[b], fits)
      ELSE IF fits # {} THEN FirstIn(Sorted, fits)
      ELSE name

\* harbor_trial_case_id.
TaskName(x) == CASE naming = "id" -> x [] naming = "org" -> OrgName[x] [] naming = "stem" -> Stem[x]

\* _primary_case_index: the batches a name may be looked up in, and what a batch
\* has under the name: the selected case itself or the first row that leads there.
RowsUnder(name, b) == {y \in ToSet(Selected[b]) : name \in {Stem[y], Resolved(Stem[y], b)}}
Knows(name, b) == name \in ToSet(Selected[b]) \/ RowsUnder(name, b) # {}
Entry(name) ==
  LET b == CHOOSE b \in Batches : Knows(name, b) /\ \A a \in Batches : Knows(name, a) => b <= a
  IN  [batch |-> b,
       name  |-> IF name \in ToSet(Selected[b]) THEN name ELSE Stem[FirstIn(Selected[b], RowsUnder(name, b))]]
Known(name) == \E b \in Batches : Knows(name, b)

\* What follows the organisation is the id of the case.
Lookup(x) ==
  IF Known(TaskName(x)) THEN Entry(TaskName(x)) ELSE IF naming = "org" THEN Entry(x) ELSE None

\* What the names are meant to do: the stem and the name with the organisation of
\* a case are no other case's, and of the cases of its batch the stem covers this
\* one alone.  Nothing in the code makes it so.
NamesTell ==
  \A x \in Ids :
    /\ Stem[x] \in Ids => Stem[x] = x
    /\ \A y \in ToSet(Selected[BatchOf(x)]) :
         Stem[x] = x \/ (<<Stem[x], y>> \in Within \/ <<y, Stem[x]>> \in Within <=> y = x)
    /\ OrgName[x] \in Ids => OrgName[x] = x
    /\ \A y \in Ids : Stem[y] \in {Stem[x], OrgName[x]} => y = x

-----------------------------------------------------------------------------
(* The scope (_resolve_rerun_scope).                                        *)

Raised == {x \in Ids : outcome[x] # "ok"}

\* _list_exception_items_from_job_dir refuses two trials of one name, and one the
\* run does not know.
JobRefused ==
  LET there == Raised \ gone
  IN  \/ \E x, y \in there : x # y /\ TaskName(x) = TaskName(y)
      \/ \E x \in there : Lookup(x) = None

Item(x, entry) == [trial |-> x, batch |-> entry.batch, case |-> Resolved(entry.name, entry.batch)]
FromJob  == {Item(x, Lookup(x)) : x \in Raised \ gone}
FromRows == {Item(x, [batch |-> BatchOf(x), name |-> Stem[x]]) : x \in Raised}

\* Those of the selected types; None when the request must be refused.
Chosen(all) ==
  LET available == {outcome[i.trial] : i \in all}
      wanted == IF request.types = None THEN available ELSE request.types
  IN  IF all = {} \/ wanted = {} \/ ~(wanted \subseteq available) THEN None
      ELSE {i \in all : outcome[i.trial] \in wanted}

Refuse ==
  /\ answer' = 400 /\ pc' = "done"
  /\ UNCHANGED <<items, derived, reruns>>

\* preview_harbor_yaml resolves the same scope and changes nothing.
Scope ==
  /\ pc = "scope"
  /\ LET all == IF found = "job" THEN FromJob ELSE FromRows
     IN  IF (found = "job" /\ JobRefused) \/ Chosen(all) = None THEN Refuse
         ELSE items' = Chosen(all) /\ pc' = "check" /\ UNCHANGED <<answer, derived, reruns>>
  /\ UNCHANGED <<world, env, changes>>

-----------------------------------------------------------------------------
(* The configuration.                                                       *)

Cases == {i.case : i \in items}
ScopeWorkers == {WorkerOf[i.batch] : i \in items}

\* A body with a jobs directory alone counts as none (_has_applicable_config).
Configures == request.body = "config"

\* validate_create_task_assets, _validate_executor_config, build_sync_manifest.
ConfigHolds == request.good /\ Cases \subseteq dirs /\ ScopeWorkers \subseteq usable

\* parse_rerun_harbor_yaml, before the lock, and the assets, after it.
YamlParses == request.good /\ Cases \subseteq dirs
YamlHolds  == binds /\ Cases \subseteq dirs /\ ScopeWorkers \subseteq usable

\* Mutant: the configuration is looked at when it is applied, not before.
CheckYamlOnly ==
  /\ pc = "check"
  /\ IF request.body = "yaml" /\ ~YamlParses THEN Refuse
     ELSE pc' = "derive" /\ UNCHANGED result
  /\ UNCHANGED <<world, env, changes>>

\* _parse_harbor_yaml_config and _prevalidate_config.
Check ==
  /\ pc = "check"
  /\ IF (request.body = "yaml" /\ ~YamlParses) \/ (Configures /\ ~ConfigHolds) THEN Refuse
     ELSE pc' = "derive" /\ UNCHANGED result
  /\ UNCHANGED <<world, env, changes>>

\* The derived template, with the jobs directory of the source, and the run.
Derive ==
  /\ pc = "derive"
  /\ derived' = "syncing"
  /\ pc' = IF Configures THEN "config" ELSE "batches"
  /\ UNCHANGED <<world, env, items, answer, reruns, changes>>

\* _mark_derived_rerun_failed, and the exception goes on to the answer.
Fail ==
  /\ derived' = "failed" /\ answer' = 400 /\ pc' = "done"
  /\ UNCHANGED <<items, reruns>>

\* _apply_config: the same checks once more; the jobs directory is kept.
ApplyConfig ==
  /\ pc = "config"
  /\ IF ConfigHolds THEN pc' = "batches" /\ UNCHANGED result ELSE Fail
  /\ UNCHANGED <<world, env, changes>>

\* One rerun batch for each batch that has an item.
MakeBatches ==
  /\ pc = "batches"
  /\ reruns' = {[parent |-> b, cases |-> {i.case : i \in {j \in items : j.batch = b}}] : b \in {i.batch : i \in items}}
  /\ pc' = IF request.body = "yaml" THEN "yaml" ELSE "sync"
  /\ UNCHANGED <<world, env, items, answer, derived, changes>>

\* _apply_harbor_yaml_config.
ApplyYaml ==
  /\ pc = "yaml"
  /\ IF YamlHolds THEN pc' = "sync" /\ UNCHANGED result ELSE Fail
  /\ UNCHANGED <<world, env, changes>>

StartSync ==
  /\ pc = "sync"
  /\ answer' = 201 /\ pc' = "done"
  /\ UNCHANGED <<world, env, items, derived, reruns, changes>>

Next ==
  \/ Scope \/ Check \/ Derive \/ ApplyConfig \/ MakeBatches \/ ApplyYaml \/ StartSync
  \/ Change
Spec == Init /\ [][Next]_vars

-----------------------------------------------------------------------------
(* Properties.                                                              *)

Meant == {x \in Raised \ gone : request.types = None \/ outcome[x] \in request.types}

\* An accepted rerun runs each case whose trial is there and ended in an exception
\* of the selected types, and no other, once, under the clone of the batch that ran it,
\* however the trial, the row and the dataset spell the name of the case, as long
\* as the dataset has the directories of all cases.
RerunsAreExceptions ==
  answer = 201 /\ dirs = Ids =>
    /\ \A r \in reruns : r.cases = Meant \cap ToSet(Selected[r.parent])
    /\ UNION {r.cases : r \in reruns} = Meant
    /\ \A r, s \in reruns : r.parent = s.parent => r = s

\* A request that is refused has derived no run: what can be refused is looked at
\* first.  A run derived all the same, since something went away after the check or
\* the sources of a YAML are looked at late, is not left as one in progress.
RefusedDerivesNothing ==
  answer = 400 =>
    derived = None \/ (derived = "failed" /\ (changes > 0 \/ request.body = "yaml"))

\* Refuted: a request that is refused for its YAML or its assets has derived no run.
RefusedYamlDerivesNothing == answer = 400 => derived = None

-----------------------------------------------------------------------------
(* Proofs.                                                                  *)

\* What the check has seen still holds when the configuration is applied, unless
\* something went away in between.
Checked ==
  /\ changes \in Nat
  /\ pc \in {"scope", "check", "derive"} => derived = None
  /\ pc # "done" => answer = None
  /\ pc \in {"derive", "config"} /\ Configures /\ changes = 0 => ConfigHolds
  /\ pc = "config" => Configures
  /\ pc = "yaml" => request.body = "yaml"

LEMMA StepChecked == Checked /\ RefusedDerivesNothing /\ [Next]_vars => (Checked /\ RefusedDerivesNothing)'
<1> SUFFICES ASSUME Checked, RefusedDerivesNothing, [Next]_vars
             PROVE  (Checked /\ RefusedDerivesNothing)'
  OBVIOUS
<1> USE ScopeAssumption DEF world, env, result, Checked, RefusedDerivesNothing, Configures
<1>1. CASE Scope
  <2>1. pc = "scope" /\ UNCHANGED <<request, derived, changes>>
    BY <1>1 DEF Scope, Refuse
  <2>2. pc' = "done" \/ (pc' = "check" /\ answer' = answer)
    BY <1>1 DEF Scope, Refuse
  <2>3. derived' = None /\ changes' \in Nat
    BY <2>1
  <2>4. CASE pc' = "done"
    BY <2>3, <2>4
  <2>5. CASE pc' = "check" /\ answer' = answer
    BY <2>1, <2>3, <2>5
  <2>6. QED BY <2>2, <2>4, <2>5
<1>2. CASE Check
  <2>1. pc = "check" /\ UNCHANGED <<request, dirs, usable, items, derived, changes>>
    BY <1>2 DEF Check, Refuse
  <2>2. \/ answer' = 400 /\ pc' = "done"
        \/ pc' = "derive" /\ answer' = answer /\ (Configures => ConfigHolds)
    BY <1>2 DEF Check, Refuse
  <2>3. ConfigHolds' = ConfigHolds
    BY <2>1 DEF ConfigHolds, Cases, ScopeWorkers
  <2>4. QED BY <2>1, <2>2, <2>3
<1>3. CASE Derive
  <2>1. /\ pc = "derive" /\ pc' = IF Configures THEN "config" ELSE "batches"
        /\ UNCHANGED <<request, dirs, usable, items, answer, changes>>
    BY <1>3 DEF Derive
  <2>2. ConfigHolds' = ConfigHolds
    BY <2>1 DEF ConfigHolds, Cases, ScopeWorkers
  <2>3. answer' # 400 /\ changes' \in Nat
    BY <2>1
  <2>4. QED BY <2>1, <2>2, <2>3
<1>4. CASE ApplyConfig
  <2>1. pc = "config" /\ UNCHANGED <<request, changes>>
    BY <1>4 DEF ApplyConfig
  <2>2. \/ pc' = "batches" /\ UNCHANGED <<answer, derived>>
        \/ ~ConfigHolds /\ derived' = "failed" /\ answer' = 400 /\ pc' = "done"
    BY <1>4 DEF ApplyConfig, Fail
  <2>3. QED BY <2>1, <2>2
<1>5. CASE MakeBatches
  BY <1>5 DEF MakeBatches
<1>6. CASE ApplyYaml
  <2>1. /\ pc = "yaml" /\ UNCHANGED <<request, changes>>
        /\ \/ pc' = "sync" /\ UNCHANGED <<answer, derived>>
           \/ derived' = "failed" /\ answer' = 400 /\ pc' = "done"
    BY <1>6 DEF ApplyYaml, Fail
  <2>2. QED BY <2>1
<1>7. CASE StartSync
  BY <1>7 DEF StartSync
<1>8. CASE Change
  <2>1. pc # "done" /\ changes' = changes + 1 /\ UNCHANGED <<request, pc, answer, derived>>
    BY <1>8 DEF Change
  <2>2. changes' \in Nat /\ changes' # 0
    BY <2>1
  <2>3. QED BY <2>1, <2>2
<1>9. CASE UNCHANGED vars
  BY <1>9 DEF vars, ConfigHolds, Cases, ScopeWorkers
<1>10. QED BY <1>1, <1>2, <1>3, <1>4, <1>5, <1>6, <1>7, <1>8, <1>9 DEF Next

\* A request that is refused for what could be looked at first leaves no run
\* behind (_prevalidate_config comes before the derived run): whatever the names,
\* the exceptions and the workers are.
THEOREM RefusedLeavesNothing == Spec => []RefusedDerivesNothing
<1>1. Init => Checked /\ RefusedDerivesNothing
  BY ScopeAssumption DEF Init, Checked, RefusedDerivesNothing
<1>2. QED BY <1>1, StepChecked, PTL DEF Spec

-----------------------------------------------------------------------------
(* Names that tell the cases apart.                                         *)

\* Of all that fits there is the first.
LEMMA FirstFits ==
  ASSUME NEW S, NEW list \in Seq(S), NEW set, ToSet(list) \cap set # {}
  PROVE  FirstIn(list, set) \in ToSet(list) \cap set
<1> DEFINE at == {i \in DOMAIN list : list[i] \in set}
<1>1. at \in SUBSET Nat /\ at # {}
  BY DEF ToSet
<1>2. PICK i \in at : \A j \in at : ~(<<j, i>> \in OpToRel(<, Nat))
  BY <1>1, NatLessThanWellFounded, WFMin
<1>3. \A j \in at : i <= j
  <2> SUFFICES ASSUME NEW j \in at, j < i PROVE FALSE
    BY <1>1
  <2>1. <<j, i>> \in OpToRel(<, Nat)
    BY <1>1 DEF OpToRel
  <2>2. QED BY <1>2, <2>1
<1> DEFINE k == CHOOSE i1 \in at : \A j \in at : i1 <= j
<1>4. k \in at
  BY <1>3
<1>5. FirstIn(list, set) = list[k]
  BY DEF FirstIn
<1>6. QED BY <1>4, <1>5 DEF ToSet

\* A case is of one batch.
LEMMA OneBatch ==
  ASSUME NEW x \in Ids
  PROVE  /\ BatchOf(x) \in Batches /\ BatchOf(x) \in Nat /\ x \in ToSet(Selected[BatchOf(x)])
         /\ \A b \in Batches : x \in ToSet(Selected[b]) => b = BatchOf(x)
<1>1. PICK b \in Batches : x \in ToSet(Selected[b])
  BY ScopeAssumption
<1>2. BatchOf(x) \in Batches /\ x \in ToSet(Selected[BatchOf(x)])
  BY <1>1 DEF BatchOf
<1>3. Batches \subseteq Nat
  BY ScopeAssumption DEF Batches
<1>4. QED BY <1>2, <1>3, ScopeAssumption

LEMMA ListOfBatch ==
  ASSUME NEW b \in Batches
  PROVE  Selected[b] \in Seq(Ids) /\ ToSet(Selected[b]) \subseteq Ids /\ b \in Nat
BY ScopeAssumption DEF Batches

\* The id, the stem and the name with the organisation of a case.
NamesOf(x) == {x, Stem[x], OrgName[x]}

\* The id and the stem of a case lead to its directory.
LEMMA Resolves ==
  ASSUME NamesTell, dirs = Ids, NEW x \in Ids, NEW name \in {x, Stem[x]}
  PROVE  Resolved(name, BatchOf(x)) = x
<1> DEFINE b == BatchOf(x)
           fits == {id \in dirs : Covers(name, id)}
<1>1. CASE name \in dirs
  BY <1>1 DEF Resolved, NamesTell
<1>2. CASE name \notin dirs
  <2>1. name = Stem[x] /\ Stem[x] # x
    BY <1>2
  <2>2. b \in Batches /\ x \in ToSet(Selected[b]) /\ Selected[b] \in Seq(Ids) /\ ToSet(Selected[b]) \subseteq Ids
    BY OneBatch, ListOfBatch
  <2>3. \A y \in ToSet(Selected[b]) : Covers(name, y) <=> y = x
    BY <1>2, <2>1, <2>2 DEF NamesTell, Covers
  <2>4. fits \cap ToSet(Selected[b]) = {x}
    BY <2>2, <2>3
  <2>5. FirstIn(Selected[b], fits) = x
    BY <2>2, <2>4, FirstFits
  <2>6. QED BY <1>2, <2>4, <2>5 DEF Resolved
<1>3. QED BY <1>1, <1>2

\* No name of a case is known as another one, and its id is known.
LEMMA KnownAsItself ==
  ASSUME NamesTell, dirs = Ids, NEW x \in Ids, NEW name \in NamesOf(x)
  PROVE  /\ \A b \in Batches : RowsUnder(name, b) \subseteq {x}
         /\ \A b \in Batches : Knows(name, b) => b = BatchOf(x)
         /\ Known(name) => Knows(name, BatchOf(x))
         /\ Known(x)
<1>1. ASSUME NEW b \in Batches, NEW y \in RowsUnder(name, b) PROVE y = x
  <2>1. y \in ToSet(Selected[b]) /\ y \in Ids /\ b = BatchOf(y)
    BY OneBatch, ListOfBatch DEF RowsUnder
  <2>2. Resolved(Stem[y], b) = y
    BY <2>1, Resolves
  <2>3. name = Stem[y] \/ name = y
    BY <2>2 DEF RowsUnder
  <2>4. CASE name = y
    BY <2>1, <2>4 DEF NamesOf, NamesTell
  <2>5. CASE name = Stem[y]
    BY <2>1, <2>5 DEF NamesOf, NamesTell
  <2>6. QED BY <2>3, <2>4, <2>5
<1>2. ASSUME NEW b \in Batches, Knows(name, b) PROVE b = BatchOf(x)
  <2>1. CASE name \in ToSet(Selected[b])
    <3>1. name \in Ids
      BY <2>1, ListOfBatch
    <3>2. name = x
      BY <3>1 DEF NamesOf, NamesTell
    <3>3. QED BY <2>1, <3>2, OneBatch
  <2>2. CASE RowsUnder(name, b) # {}
    <3>1. x \in ToSet(Selected[b])
      BY <1>1, <2>2 DEF RowsUnder
    <3>2. QED BY <3>1, OneBatch
  <2>3. QED BY <1>2, <2>1, <2>2 DEF Knows
<1>3. Knows(x, BatchOf(x)) /\ BatchOf(x) \in Batches
  BY OneBatch DEF Knows
<1>4. QED BY <1>1, <1>2, <1>3 DEF Known

\* What a known name stands for.
LEMMA EntryOf ==
  ASSUME NamesTell, dirs = Ids, NEW x \in Ids, NEW name \in NamesOf(x), Known(name)
  PROVE  Item(x, Entry(name)) = [trial |-> x, batch |-> BatchOf(x), case |-> x]
<1> DEFINE Least(b) == b \in Batches /\ Knows(name, b) /\ \A a \in Batches : Knows(name, a) => b <= a
           k == CHOOSE b \in Batches : Knows(name, b) /\ \A a \in Batches : Knows(name, a) => b <= a
<1>1. BatchOf(x) \in Batches /\ BatchOf(x) \in Nat /\ x \in ToSet(Selected[BatchOf(x)])
  BY OneBatch
<1>2. Knows(name, BatchOf(x)) /\ \A a \in Batches : Knows(name, a) => BatchOf(x) <= a
  BY <1>1, KnownAsItself
<1>3. k \in Batches /\ Knows(name, k)
  BY <1>1, <1>2
<1>4. k = BatchOf(x)
  BY <1>3, KnownAsItself
<1> DEFINE n == IF name \in ToSet(Selected[k]) THEN name ELSE Stem[FirstIn(Selected[k], RowsUnder(name, k))]
<1>5. Entry(name) = [batch |-> k, name |-> n]
  BY DEF Entry
<1> HIDE DEF k
<1>6. n \in {x, Stem[x]}
  <2>1. CASE name \in ToSet(Selected[k])
    <3>1. name \in Ids
      BY <1>3, <2>1, ListOfBatch
    <3>2. QED BY <2>1, <3>1 DEF NamesOf, NamesTell
  <2>2. CASE name \notin ToSet(Selected[k])
    <3>1. RowsUnder(name, k) # {} /\ RowsUnder(name, k) \subseteq {x}
      BY <1>3, <2>2, KnownAsItself DEF Knows
    <3>2. ToSet(Selected[k]) \cap RowsUnder(name, k) # {} /\ Selected[k] \in Seq(Ids)
      BY <1>3, <3>1, ListOfBatch DEF RowsUnder
    <3>3. FirstIn(Selected[k], RowsUnder(name, k)) = x
      BY <3>1, <3>2, FirstFits
    <3>4. QED BY <2>2, <3>3
  <2>3. QED BY <2>1, <2>2
<1> HIDE DEF n
<1>7. Resolved(n, k) = x
  BY <1>4, <1>6, Resolves
<1>8. QED BY <1>4, <1>5, <1>7 DEF Item

\* What the exceptions lead to when all names tell.
Own(x) == [trial |-> x, batch |-> BatchOf(x), case |-> x]

LEMMA ItemsAreOwn ==
  ASSUME NamesTell, dirs = Ids, naming \in Namings, found = "rows" => gone = {},
         found = "job" => ~JobRefused, found \in Sources,
         NEW all, all = IF found = "job" THEN FromJob ELSE FromRows
  PROVE  all = {Own(x) : x \in Raised \ gone}
<1>1. Raised \subseteq Ids
  BY DEF Raised
<1>2. CASE found = "job"
  <2>1. ASSUME NEW x \in Raised \ gone PROVE Item(x, Lookup(x)) = Own(x)
    <3>1. x \in Ids /\ TaskName(x) \in NamesOf(x) /\ x \in NamesOf(x)
      BY <1>1, ScopeAssumption DEF TaskName, NamesOf
    <3>2. Lookup(x) # None
      BY <1>2, <2>1 DEF JobRefused
    <3>3. CASE Known(TaskName(x))
      BY <3>1, <3>3, EntryOf DEF Lookup, Own
    <3>4. CASE ~Known(TaskName(x))
      <4>1. Lookup(x) = Entry(x)
        BY <3>2, <3>4 DEF Lookup
      <4>2. QED BY <3>1, <4>1, EntryOf, KnownAsItself DEF Own
    <3>5. QED BY <3>3, <3>4
  <2>2. all = {Item(x, Lookup(x)) : x \in Raised \ gone}
    BY <1>2 DEF FromJob
  <2>3. QED BY <2>1, <2>2
<1>3. CASE found # "job"
  <2>1. found = "rows"
    BY <1>3, ScopeAssumption
  <2>2. ASSUME NEW x \in Raised PROVE Item(x, [batch |-> BatchOf(x), name |-> Stem[x]]) = Own(x)
    <3>1. Resolved(Stem[x], BatchOf(x)) = x
      BY <1>1, Resolves
    <3>2. QED BY <3>1 DEF Item, Own
  <2>3. all = {Item(x, [batch |-> BatchOf(x), name |-> Stem[x]]) : x \in Raised} /\ gone = {}
    BY <1>3, <2>1 DEF FromRows
  <2>4. QED BY <2>2, <2>3
<1>4. QED BY <1>2, <1>3

-----------------------------------------------------------------------------
(* What is run again.                                                       *)

CasesUnder(is, b) == {i.case : i \in {j \in is : j.batch = b}}
RerunsOf(is) == {[parent |-> b, cases |-> CasesUnder(is, b)] : b \in {i.batch : i \in is}}

\* The items are the trials that are meant, each under its case and batch, as long
\* as no directory went away; the rerun batches are theirs.
ItemsInv ==
  /\ naming \in Namings /\ found \in Sources /\ (found = "rows" => gone = {})
  /\ dirs \subseteq Ids
  /\ pc # "done" => answer = None
  /\ pc # "scope" /\ answer # 400 /\ dirs = Ids => items = {Own(x) : x \in Meant}
  /\ pc \in {"yaml", "sync"} \/ answer = 201 => reruns = RerunsOf(items)

\* Of the trials found, those of the selected types are chosen.
LEMMA ChosenAreMeant ==
  ASSUME NEW all, all = {Own(x) : x \in Raised \ gone}, Chosen(all) # None
  PROVE  Chosen(all) = {Own(x) : x \in Meant}
<1> DEFINE available == {outcome[i.trial] : i \in all}
           wanted == IF request.types = None THEN available ELSE request.types
<1>1. Chosen(all) = {i \in all : outcome[i.trial] \in wanted}
  BY DEF Chosen
<1>2. ASSUME NEW x \in Raised \ gone
      PROVE  outcome[x] \in wanted <=> (request.types = None \/ outcome[x] \in request.types)
  <2>1. Own(x) \in all /\ Own(x).trial = x
    BY DEF Own
  <2>2. outcome[x] \in available
    BY <2>1
  <2>3. QED BY <2>2
<1> HIDE DEF wanted
<1>3. ASSUME NEW i PROVE i \in Chosen(all) <=> i \in {Own(x) : x \in Meant}
  <2>1. \A x : Own(x).trial = x
    BY DEF Own
  <2>2. i \in Chosen(all) <=> \E x \in Raised \ gone : i = Own(x) /\ outcome[x] \in wanted
    BY <1>1, <2>1
  <2>3. QED BY <1>2, <2>2 DEF Meant
<1>4. QED BY <1>3

LEMMA StepItems == NamesTell /\ ItemsInv /\ [Next]_vars => ItemsInv'
<1> SUFFICES ASSUME NamesTell, ItemsInv, [Next]_vars PROVE ItemsInv'
  OBVIOUS
<1> USE ScopeAssumption DEF world, env, result
<1>1. CASE Scope
  <2>1. pc = "scope" /\ answer = None /\ UNCHANGED <<world, env>>
    BY <1>1 DEF Scope, ItemsInv
  <2>2. PICK all : all = IF found = "job" THEN FromJob ELSE FromRows
    OBVIOUS
  <2>3. \/ answer' = 400 /\ pc' = "done"
        \/ /\ ~(found = "job" /\ JobRefused) /\ Chosen(all) # None
           /\ items' = Chosen(all) /\ pc' = "check" /\ answer' = answer
    BY <1>1, <2>2 DEF Scope, Refuse
  <2>4. CASE answer' = 400 /\ pc' = "done"
    BY <2>1, <2>4 DEF ItemsInv
  <2>5. CASE /\ ~(found = "job" /\ JobRefused) /\ Chosen(all) # None
             /\ items' = Chosen(all) /\ pc' = "check" /\ answer' = answer
    <3>1. ASSUME dirs = Ids PROVE items' = {Own(x) : x \in Meant}
      <4>1. all = {Own(x) : x \in Raised \ gone}
        BY <2>2, <2>5, <3>1, ItemsAreOwn DEF ItemsInv
      <4>2. QED BY <2>5, <4>1, ChosenAreMeant
    <3>2. Meant' = Meant
      BY <2>1 DEF Meant, Raised
    <3>3. QED BY <2>1, <2>5, <3>1, <3>2 DEF ItemsInv
  <2>6. QED BY <2>3, <2>4, <2>5
<1>2. CASE Check
  <2>1. /\ pc = "check" /\ UNCHANGED <<world, env, items, reruns>>
        /\ \/ answer' = 400 /\ pc' = "done"
           \/ pc' = "derive" /\ answer' = answer
    BY <1>2 DEF Check, Refuse
  <2>2. QED BY <2>1 DEF ItemsInv, Meant, Raised
<1>3. CASE Derive
  <2>1. /\ pc = "derive" /\ UNCHANGED <<world, env, items, answer, reruns>> /\ pc' \in {"config", "batches"}
    BY <1>3 DEF Derive
  <2>2. QED BY <2>1 DEF ItemsInv, Meant, Raised
<1>4. CASE ApplyConfig
  <2>1. /\ pc = "config" /\ UNCHANGED <<world, env, items, reruns>>
        /\ \/ answer' = 400 /\ pc' = "done"
           \/ pc' = "batches" /\ answer' = answer
    BY <1>4 DEF ApplyConfig, Fail
  <2>2. QED BY <2>1 DEF ItemsInv, Meant, Raised
<1>5. CASE MakeBatches
  <2>1. /\ pc = "batches" /\ UNCHANGED <<world, env, items, answer>> /\ pc' \in {"yaml", "sync"}
        /\ reruns' = RerunsOf(items)
    BY <1>5 DEF MakeBatches, RerunsOf, CasesUnder
  <2>2. QED BY <2>1 DEF ItemsInv, Meant, Raised
<1>6. CASE ApplyYaml
  <2>1. /\ pc = "yaml" /\ UNCHANGED <<world, env, items, reruns>>
        /\ \/ answer' = 400 /\ pc' = "done"
           \/ pc' = "sync" /\ answer' = answer
    BY <1>6 DEF ApplyYaml, Fail
  <2>2. QED BY <2>1 DEF ItemsInv, Meant, Raised
<1>7. CASE StartSync
  <2>1. pc = "sync" /\ UNCHANGED <<world, env, items, reruns>> /\ answer' = 201 /\ pc' = "done"
    BY <1>7 DEF StartSync
  <2>2. QED BY <2>1 DEF ItemsInv, Meant, Raised
<1>8. CASE Change
  <2>1. UNCHANGED <<world, pc, items, answer, reruns>> /\ dirs' \subseteq dirs
    BY <1>8 DEF Change
  <2>2. dirs' = Ids => dirs = Ids
    BY <2>1 DEF ItemsInv
  <2>3. QED BY <2>1, <2>2 DEF ItemsInv, Meant, Raised
<1>9. CASE UNCHANGED vars
  BY <1>9 DEF vars, ItemsInv, Meant, Raised
<1>10. QED BY <1>1, <1>2, <1>3, <1>4, <1>5, <1>6, <1>7, <1>8, <1>9 DEF Next

\* What an accepted rerun runs again is what the request asked for, for any cases,
\* batches and exceptions, as long as the names tell the cases apart
\* (_resolve_rerun_scope, start_rerun).
THEOREM RerunsAreMeant == ASSUME NamesTell PROVE Spec => []RerunsAreExceptions
<1>1. Init => ItemsInv
  BY ScopeAssumption DEF Init, ItemsInv
<1>2. ItemsInv => RerunsAreExceptions
  <2> SUFFICES ASSUME ItemsInv, answer = 201, dirs = Ids
               PROVE  /\ \A r \in reruns : r.cases = Meant \cap ToSet(Selected[r.parent])
                      /\ UNION {r.cases : r \in reruns} = Meant
                      /\ \A r, s \in reruns : r.parent = s.parent => r = s
    BY DEF RerunsAreExceptions
  <2>1. items = {Own(x) : x \in Meant} /\ reruns = RerunsOf(items)
    BY ScopeAssumption DEF ItemsInv
  <2>2. \A x : Own(x).batch = BatchOf(x) /\ Own(x).case = x
    BY DEF Own
  <2>3. ASSUME NEW b PROVE CasesUnder(items, b) = {x \in Meant : BatchOf(x) = b}
    BY <2>1, <2>2 DEF CasesUnder
  <2>4. ASSUME NEW x \in Meant
        PROVE  BatchOf(x) \in Batches /\ \A b \in Batches : x \in ToSet(Selected[b]) <=> BatchOf(x) = b
    BY OneBatch DEF Meant, Raised
  <2>5. ASSUME NEW r \in reruns
        PROVE  r.parent \in Batches /\ r = [parent |-> r.parent, cases |-> CasesUnder(items, r.parent)]
    <3>1. PICK b \in {i.batch : i \in items} : r = [parent |-> b, cases |-> CasesUnder(items, b)]
      BY <2>1 DEF RerunsOf
    <3>2. b \in Batches
      BY <2>1, <2>2, <2>4
    <3>3. QED BY <3>1, <3>2
  <2>6. ASSUME NEW r \in reruns PROVE r.cases = Meant \cap ToSet(Selected[r.parent])
    <3>1. r.parent \in Batches /\ r.cases = CasesUnder(items, r.parent)
      BY <2>5
    <3>2. r.cases = {x \in Meant : BatchOf(x) = r.parent}
      BY <2>3, <3>1
    <3>3. QED BY <2>4, <3>1, <3>2
  <2>7. UNION {r.cases : r \in reruns} = Meant
    <3>1. ASSUME NEW x \in Meant PROVE \E r \in reruns : x \in r.cases
      <4> DEFINE b == BatchOf(x)
                 r == [parent |-> b, cases |-> CasesUnder(items, b)]
      <4>1. b \in {i.batch : i \in items}
        BY <2>1, <2>2
      <4>2. r \in reruns
        BY <2>1, <4>1 DEF RerunsOf
      <4>3. x \in r.cases
        BY <2>3
      <4>4. QED BY <4>2, <4>3
    <3>2. QED BY <2>6, <3>1
  <2>8. ASSUME NEW r \in reruns, NEW s \in reruns, r.parent = s.parent PROVE r = s
    BY <2>5, <2>8
  <2>9. QED BY <2>6, <2>7, <2>8
<1>3. QED BY <1>1, <1>2, StepItems, PTL DEF Spec
=============================================================================
