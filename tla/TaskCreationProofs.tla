------------------------- MODULE TaskCreationProofs -------------------------
(***************************************************************************)
(* Cases are dealt once and batches are the shares, for any number of      *)
(* workers and cases, any weights and any rounding.                        *)
(***************************************************************************)
EXTENDS TaskCreation, SequenceTheorems, FiniteSetTheorems, TLAPS

\* The types the argument needs: nothing of weights, scores and remainders.
Shape ==
  /\ request.workers \in Seq(Workers)
  /\ groups \in [Places -> Seq(Nat)]
  /\ next \in Nat \ {0}
  /\ shard \in Nat \ {0}
  /\ batches \in Seq([place : Places, cases : Seq(Nat)])

IInv == Shape /\ CreationInv

LEMMA PlacesType == ASSUME Shape PROVE Places \subseteq Nat \ {0}
BY LenProperties DEF Shape, Places

\* Appending the next case to one share deals it once.
LEMMA Dealing ==
  ASSUME Shape, DealtOnce, NEW i \in Places,
         groups' = [groups EXCEPT ![i] = Append(@, next)],
         next' = next + 1, UNCHANGED request
  PROVE  groups' \in [Places -> Seq(Nat)] /\ next' \in Nat \ {0} /\ DealtOnce'
<1> USE DEF Places
<1>1. groups[i] \in Seq(Nat) /\ next \in Nat /\ next > 0 /\ Len(groups[i]) \in Nat
  BY LenProperties DEF Shape
<1>2. /\ Append(groups[i], next) \in Seq(Nat)
      /\ DOMAIN Append(groups[i], next) = 1..(Len(groups[i]) + 1)
      /\ DOMAIN groups[i] = 1..Len(groups[i])
      /\ \A p \in DOMAIN groups[i] : Append(groups[i], next)[p] = groups[i][p]
      /\ Append(groups[i], next)[Len(groups[i]) + 1] = next
  BY <1>1, AppendProperties, LenProperties
<1>3. /\ groups'[i] = Append(groups[i], next)
      /\ \A j \in Places \ {i} : groups'[j] = groups[j]
      /\ groups' \in [Places -> Seq(Nat)]
  BY <1>1, <1>2 DEF Shape
<1> DEFINE last == Len(groups[i]) + 1
<1>4. ASSUME NEW j \in Places, NEW p \in DOMAIN groups'[j]
      PROVE  \/ p \in DOMAIN groups[j] /\ groups'[j][p] = groups[j][p] /\ groups[j][p] \in 1..(next - 1)
             \/ j = i /\ p = last /\ groups'[j][p] = next
  BY <1>1, <1>2, <1>3, <1>4 DEF DealtOnce
<1>5. \A j \in Places : \A p \in DOMAIN groups[j] :
        p \in DOMAIN groups'[j] /\ groups'[j][p] = groups[j][p]
  BY <1>1, <1>2, <1>3
<1>6. last \in DOMAIN groups'[i] /\ groups'[i][last] = next
  BY <1>1, <1>2, <1>3
<1>7. ASSUME NEW k \in 1..next
      PROVE  \E j \in Places : \E p \in DOMAIN groups'[j] : groups'[j][p] = k
  <2>1. CASE k = next
    BY <1>6, <2>1
  <2>2. CASE k \in 1..(next - 1)
    BY <1>5, <2>2 DEF DealtOnce
  <2>3. QED BY <1>1, <2>1, <2>2
<1>8. \A j \in Places : \A p \in DOMAIN groups'[j] : groups'[j][p] \in 1..next
  BY <1>1, <1>4
<1>9. ASSUME NEW j \in Places, NEW l \in Places, NEW p \in DOMAIN groups'[j], NEW q \in DOMAIN groups'[l],
             groups'[j][p] = groups'[l][q]
      PROVE  j = l /\ p = q
  BY <1>1, <1>4, <1>9 DEF DealtOnce
<1>10. ASSUME NEW j \in Places, NEW p \in DOMAIN groups'[j], NEW q \in DOMAIN groups'[j], p < q
       PROVE  groups'[j][p] < groups'[j][q]
  <2>1. CASE p \in DOMAIN groups[j] /\ q \in DOMAIN groups[j]
    BY <1>5, <1>10, <2>1 DEF DealtOnce
  <2>2. CASE p \in DOMAIN groups[j] /\ j = i /\ q = last
    BY <1>1, <1>4, <1>6, <2>1, <2>2, <1>5 DEF DealtOnce
  <2>3. CASE j = i /\ p = last
    BY <1>1, <1>2, <1>3, <1>10, <2>3
  <2>4. QED BY <1>4, <2>1, <2>2, <2>3
<1>11. next' = next + 1 /\ (next + 1) - 1 = next
  BY <1>1
<1>12. DealtOnce'
  BY <1>7, <1>8, <1>9, <1>10, <1>11 DEF DealtOnce
<1>13. QED BY <1>1, <1>3, <1>11, <1>12

\* The next share becomes a batch, unless it is empty.
LEMMA Sharding ==
  ASSUME Shape, BatchesAreShares, CreateBatch
  PROVE  /\ batches' \in Seq([place : Places, cases : Seq(Nat)])
         /\ shard' \in Nat \ {0}
         /\ BatchesAreShares'
<1>1. /\ pc = "batch" /\ shard \in Places /\ shard' = shard + 1
      /\ UNCHANGED <<request, groups, pc>> /\ Places' = Places
  BY DEF CreateBatch, dealVars, Places
<1>2. shard \in Nat /\ groups[shard] \in Seq(Nat)
  BY <1>1 DEF Shape
<1> DEFINE new == [place |-> shard, cases |-> groups[shard]]
<1>3. \A k \in DOMAIN batches : batches[k].place \in Nat /\ batches[k].place < shard
  <2>1. \A k \in DOMAIN batches : batches[k] \in [place : Places, cases : Seq(Nat)]
    BY ElementOfSeq, LenProperties DEF Shape
  <2>2. QED BY <2>1, PlacesType DEF BatchesAreShares
<1>4. /\ BatchesAreShares' <=>
           /\ \A k \in DOMAIN batches' : batches'[k].cases = groups[batches'[k].place]
           /\ \A k \in DOMAIN batches' : batches'[k].place < shard + 1
           /\ \A k, l \in DOMAIN batches' : k < l => batches'[k].place < batches'[l].place
           /\ \A i \in Places : i < shard + 1 /\ groups[i] # <<>> =>
                \E k \in DOMAIN batches' : batches'[k].place = i
  BY <1>1 DEF BatchesAreShares
<1>5. CASE groups[shard] = <<>>
  <2>1. batches' = batches
    BY <1>5 DEF CreateBatch
  <2>2. \A i \in Places : i < shard + 1 /\ groups[i] # <<>> => i < shard
    BY <1>2, <1>5, PlacesType
  <2>3. \A k \in DOMAIN batches : batches[k].place < shard + 1
    BY <1>2, <1>3
  <2>4. BatchesAreShares'
    BY <1>4, <2>1, <2>2, <2>3 DEF BatchesAreShares
  <2>5. QED BY <1>1, <1>2, <2>1, <2>4 DEF Shape
<1>6. CASE groups[shard] # <<>>
  <2>1. batches' = Append(batches, new)
    BY <1>6 DEF CreateBatch
  <2>2. new \in [place : Places, cases : Seq(Nat)]
    BY <1>1, <1>2
  <2> DEFINE B == [place : Places, cases : Seq(Nat)]
  <2>3. batches \in Seq(B) /\ new \in B
    BY <2>2 DEF Shape
  <2> HIDE DEF new, B
  <2>4. /\ batches' \in Seq(B)
        /\ DOMAIN batches = 1..Len(batches) /\ Len(batches) \in Nat
        /\ DOMAIN batches' = 1..(Len(batches) + 1)
        /\ \A k \in DOMAIN batches : batches'[k] = batches[k]
        /\ batches'[Len(batches) + 1] = new
    BY <2>1, <2>3, AppendProperties, LenProperties
  <2>5. new.place = shard /\ new.cases = groups[shard]
    BY DEF new
  <2>6. \A k \in DOMAIN batches : batches[k].place \in Nat /\ batches[k].place < shard
    BY <1>3
  <2>7. \A k \in DOMAIN batches' : k \in DOMAIN batches \/ k = Len(batches) + 1
    BY <2>4
  <2>8. \A k \in DOMAIN batches' : batches'[k].cases = groups[batches'[k].place]
    BY <2>4, <2>5, <2>7 DEF BatchesAreShares
  <2>9. \A k \in DOMAIN batches' : batches'[k].place < shard + 1
    BY <1>2, <2>4, <2>5, <2>6, <2>7
  <2>10. \A k, l \in DOMAIN batches' : k < l => batches'[k].place < batches'[l].place
    <3>1. ASSUME NEW k \in DOMAIN batches', NEW l \in DOMAIN batches', k < l
          PROVE  batches'[k].place < batches'[l].place
      <4>1. k \in DOMAIN batches
        BY <2>4, <3>1
      <4>2. CASE l \in DOMAIN batches
        BY <2>4, <3>1, <4>1, <4>2 DEF BatchesAreShares
      <4>3. CASE l = Len(batches) + 1
        BY <2>4, <2>5, <2>6, <4>1, <4>3
      <4>4. QED BY <2>7, <4>2, <4>3
    <3>2. QED BY <3>1
  <2>11. \A i \in Places : i < shard + 1 /\ groups[i] # <<>> =>
           \E k \in DOMAIN batches' : batches'[k].place = i
    <3>1. ASSUME NEW i \in Places, i < shard + 1, groups[i] # <<>>
          PROVE  \E k \in DOMAIN batches' : batches'[k].place = i
      <4>1. CASE i = shard
        BY <2>4, <2>5, <4>1
      <4>2. CASE i < shard
        BY <2>4, <3>1, <4>2 DEF BatchesAreShares
      <4>3. QED BY <1>2, <3>1, <4>1, <4>2, PlacesType
    <3>2. QED BY <3>1
  <2>12. BatchesAreShares'
    BY <1>4, <2>8, <2>9, <2>10, <2>11
  <2>13. QED BY <1>1, <1>2, <2>4, <2>12 DEF B
<1>7. QED BY <1>5, <1>6

\* While cases are dealt there is no batch.
LEMMA NoBatchYet ==
  ASSUME Shape, BatchesAreShares, pc = "deal",
         UNCHANGED <<batches, shard, pc, request>>
  PROVE  BatchesAreShares'
<1>1. batches = <<>> /\ shard = 1 /\ DOMAIN batches = {}
  BY DEF BatchesAreShares
<1>2. \A i \in Places : ~(i < 1)
  BY PlacesType
<1>3. QED BY <1>1, <1>2 DEF BatchesAreShares, Places

LEMMA InitCreation == Init => IInv
<1> SUFFICES ASSUME Init PROVE IInv
  OBVIOUS
<1>1. request.workers \in Seq(Workers)
  BY CreationAssumption DEF Init
<1>2. Shape
  BY <1>1 DEF Init, Shape
<1>3. /\ \A i \in Places : groups[i] = <<>> /\ DOMAIN groups[i] = {}
      /\ next = 1 /\ shard = 1 /\ batches = <<>> /\ DOMAIN batches = {}
  BY DEF Init
<1>4. DealtOnce
  BY <1>3 DEF DealtOnce
<1>5. BatchesAreShares
  BY <1>2, <1>3, PlacesType DEF BatchesAreShares
<1>6. QED BY <1>2, <1>4, <1>5 DEF IInv, CreationInv

\* A step that leaves shares and batches alone.
LEMMA Unmoved ==
  ASSUME IInv, UNCHANGED <<request, groups, next, shard, batches>>,
         pc' \in {"validate", "template", "run", "weigh", "deal"} =>
           pc \in {"validate", "template", "run", "weigh", "deal"}
  PROVE  IInv'
BY DEF IInv, Shape, CreationInv, DealtOnce, BatchesAreShares, Places

LEMMA StepCreation == IInv /\ [Next]_vars => IInv'
<1> SUFFICES ASSUME IInv, [Next]_vars PROVE IInv'
  OBVIOUS
<1> USE DEF dealVars, outVars
<1>1. CASE Validate
  BY <1>1, Unmoved DEF Validate
<1>2. CASE CreateTemplate
  BY <1>2, Unmoved DEF CreateTemplate
<1>3. CASE CreateRun
  BY <1>3, Unmoved DEF CreateRun
<1>4. CASE Weigh
  BY <1>4, Unmoved DEF Weigh
<1>5. CASE DealCase
  <2>1. PICK i \in Places : groups' = [groups EXCEPT ![i] = Append(@, next)]
    BY <1>5 DEF DealCase, Candidates
  <2>2. /\ next' = next + 1 /\ pc = "deal"
        /\ UNCHANGED <<request, pc, shard, batches>>
    BY <1>5 DEF DealCase
  <2>3. groups' \in [Places -> Seq(Nat)] /\ next' \in Nat \ {0} /\ DealtOnce'
    BY <2>1, <2>2, Dealing DEF IInv, CreationInv
  <2>4. BatchesAreShares'
    BY <2>2, NoBatchYet DEF IInv, CreationInv
  <2>5. QED BY <2>2, <2>3, <2>4 DEF IInv, CreationInv, Shape, Places
<1>6. CASE EndDeal
  BY <1>6, Unmoved DEF EndDeal
<1>7. CASE CreateBatch
  <2>1. UNCHANGED <<request, groups, next>>
    BY <1>7 DEF CreateBatch
  <2>2. DealtOnce'
    BY <2>1 DEF IInv, CreationInv, DealtOnce, Places
  <2>3. QED BY <1>7, <2>1, <2>2, Sharding DEF IInv, CreationInv, Shape, Places
<1>8. CASE EndBatches
  BY <1>8, Unmoved DEF EndBatches
<1>9. CASE BuildManifest
  BY <1>9, Unmoved DEF BuildManifest
<1>10. CASE WriteYamls
  BY <1>10, Unmoved DEF WriteYamls
<1>11. CASE SaveJob
  BY <1>11, Unmoved DEF SaveJob
<1>12. CASE StartSync
  BY <1>12, Unmoved DEF StartSync
<1>13. CASE StorageFails
  BY <1>13, Unmoved DEF StorageFails
<1>14. CASE \E w \in Workers : DeleteWorker(w) \/ ChangeMachine(w)
  <2>1. UNCHANGED <<request, groups, next, shard, batches, pc>>
    BY <1>14 DEF DeleteWorker, ChangeMachine
  <2>2. QED BY <2>1, Unmoved
<1>15. CASE UNCHANGED vars
  BY <1>15, Unmoved DEF vars
<1>16. QED
  BY <1>1, <1>2, <1>3, <1>4, <1>5, <1>6, <1>7, <1>8, <1>9, <1>10, <1>11, <1>12, <1>13, <1>14, <1>15
  DEF Next, Handler, Answered

\* No case is dealt twice or to two workers, none that was dealt is lost, and
\* the batches are the shares, whatever the weights (create_sharded_batches).
THEOREM CasesDealtOnce == Spec => []CreationInv
<1>1. IInv => CreationInv
  BY DEF IInv
<1>2. QED BY InitCreation, StepCreation, <1>1, PTL DEF Spec

-----------------------------------------------------------------------------
(* The manifest.                                                            *)

\* Once it is built the manifest is made of the batches, which stay as they are.
Copied ==
  /\ request \in Requests
  /\ pc \in {"yaml", "save", "start", "done"} => manifest = [w \in Workers |-> ShardOf(w)]

LEMMA StepCopied == Copied /\ [Next]_vars => Copied'
<1> SUFFICES ASSUME Copied, [Next]_vars PROVE Copied'
  OBVIOUS
<1> USE DEF dealVars, outVars
<1>1. ASSUME UNCHANGED <<request, batches, manifest>>,
             pc' \in {"yaml", "save", "start", "done"} => pc \in {"yaml", "save", "start", "done"}
      PROVE  Copied'
  BY <1>1 DEF Copied, ShardOf, WorkerOf
<1>2. ASSUME pc' \notin {"yaml", "save", "start", "done"}, UNCHANGED request PROVE Copied'
  BY <1>2 DEF Copied
<1>3. CASE Validate \/ CreateTemplate \/ CreateRun \/ Weigh \/ DealCase \/ EndDeal
  BY <1>2, <1>3 DEF Validate, CreateTemplate, CreateRun, Weigh, DealCase, EndDeal
<1>4. CASE CreateBatch \/ EndBatches \/ StorageFails
  BY <1>2, <1>4 DEF CreateBatch, EndBatches, StorageFails
<1>5. CASE BuildManifest
  <2>1. UNCHANGED <<request, batches>> /\ (pc' = "refused" \/ manifest' = [w \in Workers |-> ShardOf(w)])
    BY <1>5 DEF BuildManifest
  <2>2. CASE pc' = "refused"
    BY <1>2, <2>1, <2>2
  <2>3. CASE manifest' = [w \in Workers |-> ShardOf(w)]
    BY <2>1, <2>3 DEF Copied, ShardOf, WorkerOf
  <2>4. QED BY <2>1, <2>2, <2>3
<1>6. CASE WriteYamls \/ SaveJob \/ StartSync
  BY <1>1, <1>6 DEF WriteYamls, SaveJob, StartSync
<1>7. CASE \E w \in Workers : DeleteWorker(w) \/ ChangeMachine(w)
  BY <1>1, <1>7 DEF DeleteWorker, ChangeMachine
<1>8. CASE UNCHANGED vars
  BY <1>1, <1>8 DEF vars
<1>9. QED
  BY <1>3, <1>4, <1>5, <1>6, <1>7, <1>8 DEF Next, Handler, Answered

\* When a request names no worker twice, what the sync copies to a worker is
\* what its batch selects: the dict of shards by worker loses nothing
\* (build_sync_manifest).
THEOREM ManifestIsBatches ==
  ASSUME \A q \in Requests : \A i, j \in DOMAIN q.workers : q.workers[i] = q.workers[j] => i = j
  PROVE  Spec => []ManifestMatches
<1>1. Init => Copied
  BY DEF Init, Copied
<1>2. IInv /\ Copied => ManifestMatches
  <2> SUFFICES ASSUME IInv, Copied, pc \in {"yaml", "save", "start", "done"}, NEW k \in DOMAIN batches
               PROVE  manifest[WorkerOf(batches[k])] = batches[k].cases
    BY DEF ManifestMatches
  <2>1. \A l \in DOMAIN batches :
          /\ l \in Nat /\ batches[l].place \in Places /\ WorkerOf(batches[l]) \in Workers
    <3> DEFINE B == [place : Places, cases : Seq(Nat)]
    <3>0. batches \in Seq(B) /\ \A b \in B : b.place \in Places
      BY DEF IInv, Shape
    <3> HIDE DEF B
    <3>1. \A l \in DOMAIN batches : l \in Nat /\ batches[l] \in B
      BY <3>0, ElementOfSeq, LenProperties
    <3>2. \A i \in Places : request.workers[i] \in Workers
      BY ElementOfSeq, LenProperties DEF IInv, Shape, Places
    <3>3. QED BY <3>0, <3>1, <3>2 DEF WorkerOf
  <2>2. ASSUME NEW l \in DOMAIN batches, WorkerOf(batches[l]) = WorkerOf(batches[k]) PROVE l = k
    <3>1. batches[l].place = batches[k].place
      BY <2>1, <2>2 DEF Copied, WorkerOf, Places
    <3>2. batches[k].place \in Nat /\ batches[l].place \in Nat
      BY <2>1, PlacesType DEF IInv
    <3>3. ~(l < k) /\ ~(k < l)
      BY <3>1, <3>2 DEF IInv, CreationInv, BatchesAreShares
    <3>4. QED BY <2>1, <3>3
  <2> DEFINE mine == {l \in DOMAIN batches : WorkerOf(batches[l]) = WorkerOf(batches[k])}
  <2>3. mine = {k}
    BY <2>2
  <2>4. Max(mine) = k
    BY <2>1, <2>3 DEF Max
  <2>5. ShardOf(WorkerOf(batches[k])) = batches[k].cases
    BY <2>3, <2>4 DEF ShardOf
  <2>6. QED BY <2>1, <2>5 DEF Copied
<1>3. QED BY <1>1, <1>2, StepCopied, InitCreation, StepCreation, PTL DEF Spec

-----------------------------------------------------------------------------
(* Sums and shares.                                                         *)

\* The sums of f over the parts of its domain, one element taken out at a time.
Pick(s) == CHOOSE x \in s : TRUE
Sums(f, g) ==
  g = [s \in SUBSET DOMAIN f |-> IF s = {} THEN 0 ELSE f[Pick(s)] + g[s \ {Pick(s)}]]

\* A set of numbers with 0 that has with each number the next one has all of them.
LEMMA EveryNumber ==
  ASSUME NEW T, 0 \in T, \A n \in Nat : n \in T => n + 1 \in T
  PROVE  Nat \subseteq T
<1> SUFFICES ASSUME NEW k \in Nat, k \notin T PROVE FALSE
  OBVIOUS
<1> DEFINE left == Nat \ T
<1>1. PICK n \in left : \A m \in left : ~(<<m, n>> \in OpToRel(<, Nat))
  BY NatLessThanWellFounded, WFMin
<1>2. n # 0 /\ n - 1 \in Nat /\ n - 1 < n
  OBVIOUS
<1>3. <<n - 1, n>> \in OpToRel(<, Nat)
  BY <1>2 DEF OpToRel
<1>4. n - 1 \in T
  BY <1>1, <1>2, <1>3
<1>5. QED BY <1>2, <1>4

\* A set of parts of D that has the empty one, and each part that it has without
\* the element picked, has every part of a finite D.
LEMMA EveryPart ==
  ASSUME NEW D, IsFiniteSet(D), NEW G, {} \in G,
         \A s \in SUBSET D : s # {} /\ s \ {Pick(s)} \in G => s \in G
  PROVE  SUBSET D \subseteq G
<1> DEFINE T == {n \in Nat : \A s \in SUBSET D : Cardinality(s) = n => s \in G}
<1>1. \A s \in SUBSET D : IsFiniteSet(s) /\ Cardinality(s) \in Nat /\ (Cardinality(s) = 0 <=> s = {})
  BY FS_Subset, FS_CardinalityType, FS_EmptySet
<1>2. 0 \in T
  BY <1>1
<1>3. ASSUME NEW n \in Nat, n \in T PROVE n + 1 \in T
  <2> SUFFICES ASSUME NEW s \in SUBSET D, Cardinality(s) = n + 1 PROVE s \in G
    OBVIOUS
  <2>1. s # {} /\ Pick(s) \in s
    BY <1>1 DEF Pick
  <2>2. Cardinality(s \ {Pick(s)}) = n
    BY <1>1, <2>1, FS_RemoveElement
  <2>3. QED BY <1>3, <2>1, <2>2
<1>4. Nat \subseteq T
  BY <1>2, <1>3, EveryNumber
<1>5. QED BY <1>1, <1>4

LEMMA SumsExist ==
  ASSUME NEW f, IsFiniteSet(DOMAIN f)
  PROVE  \E g : Sums(f, g)
<1> DEFINE D == DOMAIN f
           UpTo(n) == {s \in SUBSET D : Cardinality(s) <= n}
           Next1(s, g) == IF s = {} THEN 0 ELSE f[Pick(s)] + g[s \ {Pick(s)}]
           T == {n \in Nat : \E g : g = [s \in UpTo(n) |-> Next1(s, g)]}
<1>1. \A s \in SUBSET D : IsFiniteSet(s) /\ Cardinality(s) \in Nat /\ (Cardinality(s) = 0 <=> s = {})
                          /\ Cardinality(s) <= Cardinality(D)
  BY FS_Subset, FS_CardinalityType, FS_EmptySet
<1>2. 0 \in T
  <2>1. UpTo(0) = {{}}
    BY <1>1, FS_EmptySet
  <2>2. [s \in {{}} |-> 0] = [s \in UpTo(0) |-> Next1(s, [t \in {{}} |-> 0])]
    BY <2>1
  <2>3. QED BY <2>2
<1>3. ASSUME NEW n \in Nat, n \in T PROVE n + 1 \in T
  <2>1. PICK g : g = [s \in UpTo(n) |-> Next1(s, g)]
    BY <1>3
  <2> DEFINE h == [s \in UpTo(n + 1) |-> Next1(s, g)]
  <2>2. ASSUME NEW s \in UpTo(n + 1) PROVE Next1(s, h) = Next1(s, g)
    <3>1. CASE s = {}
      BY <3>1
    <3>2. CASE s # {}
      <4> DEFINE t == s \ {Pick(s)}
      <4>1. Pick(s) \in s
        BY <3>2 DEF Pick
      <4>2. Cardinality(t) = Cardinality(s) - 1
        BY <1>1, <4>1, FS_RemoveElement
      <4>3. t \in UpTo(n) /\ t \in UpTo(n + 1)
        BY <1>1, <4>2
      <4>4. h[t] = Next1(t, g) /\ g[t] = Next1(t, g)
        BY <2>1, <4>3
      <4>5. QED BY <4>4
    <3>3. QED BY <3>1, <3>2
  <2>3. h = [s \in UpTo(n + 1) |-> Next1(s, h)]
    BY <2>2
  <2> HIDE DEF h, UpTo, Next1
  <2>4. QED BY <2>3
<1>4. Cardinality(D) \in T
  BY <1>1, <1>2, <1>3, EveryNumber
<1>5. UpTo(Cardinality(D)) = SUBSET D
  BY <1>1
<1>6. QED BY <1>4, <1>5 DEF Sums

LEMMA TotalIs ==
  ASSUME NEW f, IsFiniteSet(DOMAIN f)
  PROVE  \E g : Sums(f, g) /\ Total(f) = g[DOMAIN f]
<1> DEFINE iter == CHOOSE g : g = [s \in SUBSET DOMAIN f |-> IF s = {} THEN 0 ELSE f[Pick(s)] + g[s \ {Pick(s)}]]
<1>1. Total(f) = iter[DOMAIN f]
  BY DEF Total, MapThenSumSet, MapThenFoldSet, Pick
<1>2. Sums(f, iter)
  BY SumsExist DEF Sums
<1>3. QED BY <1>1, <1>2

\* What a sum is at a part that is not empty.
LEMMA SumStep ==
  ASSUME NEW D, NEW f, DOMAIN f = D, NEW g, Sums(f, g), NEW s \in SUBSET D, s # {}
  PROVE  /\ g[s] = f[Pick(s)] + g[s \ {Pick(s)}] /\ g[{}] = 0
         /\ Pick(s) \in s /\ Pick(s) \in D /\ s \ {Pick(s)} \in SUBSET D
BY DEF Sums, Pick

LEMMA SumNat ==
  ASSUME NEW D, IsFiniteSet(D), NEW f \in [D -> Nat], NEW g, Sums(f, g)
  PROVE  \A s \in SUBSET D : g[s] \in Nat
<1> DEFINE G == {s \in SUBSET D : g[s] \in Nat}
<1>1. {} \in G
  BY DEF Sums
<1>2. ASSUME NEW s \in SUBSET D, s # {}, s \ {Pick(s)} \in G PROVE s \in G
  <2>1. g[s] = f[Pick(s)] + g[s \ {Pick(s)}] /\ Pick(s) \in D
    BY <1>2, SumStep
  <2>2. QED BY <1>2, <2>1
<1> HIDE DEF G
<1>3. SUBSET D \subseteq G
  BY <1>1, <1>2, EveryPart
<1>4. QED BY <1>3 DEF G

LEMMA TotalNat ==
  ASSUME NEW D, IsFiniteSet(D), NEW f \in [D -> Nat]
  PROVE  Total(f) \in Nat
BY TotalIs, SumNat

\* A linear relation that holds at each element holds of the totals.
Linear(D, p, a, q, b, c) == \A i \in D : p * a[i] = q * b[i] + c[i]
LinearInAll(p, a, q, b, c) == p * Total(a) = q * Total(b) + Total(c)

LEMMA TotalLinear ==
  ASSUME NEW D, IsFiniteSet(D), NEW a \in [D -> Nat], NEW b \in [D -> Nat], NEW c \in [D -> Nat],
         NEW p \in Nat, NEW q \in Nat, Linear(D, p, a, q, b, c)
  PROVE  LinearInAll(p, a, q, b, c)
<1>1. PICK ga : Sums(a, ga) /\ Total(a) = ga[D]
  BY TotalIs
<1>2. PICK gb : Sums(b, gb) /\ Total(b) = gb[D]
  BY TotalIs
<1>3. PICK gc : Sums(c, gc) /\ Total(c) = gc[D]
  BY TotalIs
<1>4. \A s \in SUBSET D : ga[s] \in Nat /\ gb[s] \in Nat /\ gc[s] \in Nat
  BY <1>1, <1>2, <1>3, SumNat
<1> DEFINE G == {s \in SUBSET D : p * ga[s] = q * gb[s] + gc[s]}
<1>5. {} \in G
  <2>1. ga[{}] = 0 /\ gb[{}] = 0 /\ gc[{}] = 0
    BY <1>1, <1>2, <1>3 DEF Sums
  <2>2. QED BY <2>1
<1>6. ASSUME NEW s \in SUBSET D, s # {}, s \ {Pick(s)} \in G PROVE s \in G
  <2> DEFINE x == Pick(s)
             t == s \ {x}
  <2>1. x \in D /\ t \in SUBSET D
    BY <1>6 DEF Pick
  <2>11. ga[s] = a[x] + ga[t]
    BY <1>1, <1>6, SumStep
  <2>6. gb[s] = b[x] + gb[t]
    BY <1>2, <1>6, SumStep
  <2>7. gc[s] = c[x] + gc[t]
    BY <1>3, <1>6, SumStep
  <2>2. p * ga[t] = q * gb[t] + gc[t] /\ p * a[x] = q * b[x] + c[x]
    BY <1>6, <2>1 DEF Linear
  <2>3. /\ ga[t] \in Nat /\ gb[t] \in Nat /\ gc[t] \in Nat
        /\ a[x] \in Nat /\ b[x] \in Nat /\ c[x] \in Nat
    BY <1>4, <2>1
  <2> HIDE DEF x, t
  <2>4. p * (a[x] + ga[t]) = p * a[x] + p * ga[t] /\ p * a[x] \in Nat /\ p * ga[t] \in Nat
    BY <2>3
  <2>5. q * (b[x] + gb[t]) = q * b[x] + q * gb[t] /\ q * b[x] \in Nat /\ q * gb[t] \in Nat
    BY <2>3
  <2>8. p * ga[s] = p * a[x] + p * ga[t] /\ q * gb[s] = q * b[x] + q * gb[t]
    BY <2>4, <2>5, <2>6, <2>11
  <2>9. p * ga[s] = q * gb[s] + gc[s]
    BY <2>2, <2>3, <2>4, <2>5, <2>7, <2>8
  <2>10. QED BY <1>6, <2>9
<1> HIDE DEF G
<1>7. D \in G
  BY <1>5, <1>6, EveryPart
<1>8. QED BY <1>1, <1>2, <1>3, <1>7 DEF G, LinearInAll

Marks(D, T) == [i \in D |-> IF i \in T THEN 1 ELSE 0]

LEMMA TotalMarks ==
  ASSUME NEW D, IsFiniteSet(D), NEW T \in SUBSET D
  PROVE  Total(Marks(D, T)) = Cardinality(T)
<1> DEFINE f == Marks(D, T)
<1>2. DOMAIN f = D
  BY DEF Marks
<1> HIDE DEF f
<1>1. PICK g : Sums(f, g) /\ Total(f) = g[D]
  BY <1>2, TotalIs
<1> DEFINE G == {s \in SUBSET D : g[s] = Cardinality(T \cap s)}
<1>3. {} \in G
  BY <1>1, FS_EmptySet DEF Sums
<1>4. ASSUME NEW s \in SUBSET D, s # {}, s \ {Pick(s)} \in G PROVE s \in G
  <2> DEFINE x == Pick(s)
  <2>1. g[s] = f[x] + g[s \ {x}] /\ x \in s /\ x \in D
    BY <1>1, <1>2, <1>4, SumStep
  <2>2. IsFiniteSet(T \cap s) /\ T \cap (s \ {x}) = (T \cap s) \ {x} /\ Cardinality(T \cap s) \in Nat
    BY FS_Subset, FS_CardinalityType
  <2>3. Cardinality(T \cap (s \ {x})) = IF x \in T \cap s THEN Cardinality(T \cap s) - 1 ELSE Cardinality(T \cap s)
    BY <2>2, FS_RemoveElement
  <2>4. f[x] = IF x \in T THEN 1 ELSE 0
    BY <2>1 DEF f, Marks
  <2>5. QED BY <1>4, <2>1, <2>2, <2>3, <2>4
<1> HIDE DEF G
<1>5. D \in G
  BY <1>3, <1>4, EveryPart
<1>6. T \cap D = T
  OBVIOUS
<1>7. QED BY <1>1, <1>2, <1>5, <1>6 DEF G, f

\* Of the ranks that an order gives to n elements, k are below k.
LEMMA Ranked ==
  ASSUME NEW D \in SUBSET Nat, IsFiniteSet(D), NEW rest \in [D -> Nat], NEW k \in 0..Cardinality(D)
  PROVE  Cardinality({i \in D : Cardinality({j \in D : Precedes(rest, j, i)}) < k}) = k
<1> DEFINE before(i) == {j \in D : Precedes(rest, j, i)}
           rank == [i \in D |-> Cardinality(before(i))]
           n == Cardinality(D)
           low == {i \in D : rank[i] < k}
<1>1. n \in Nat /\ k \in 0..n
  BY FS_CardinalityType
<1>2. ASSUME NEW i \in D PROVE IsFiniteSet(before(i)) /\ rank[i] \in 0..(n - 1)
  <2>1. before(i) \in SUBSET D /\ i \notin before(i) /\ i \in D
    BY DEF Precedes
  <2>2. IsFiniteSet(before(i)) /\ Cardinality(before(i)) \in Nat /\ Cardinality(before(i)) <= n
    BY <2>1, FS_Subset, FS_CardinalityType
  <2>3. Cardinality(before(i)) # n
    BY <2>1, FS_Subset
  <2>4. QED BY <1>1, <2>2, <2>3
<1>3. ASSUME NEW i \in D, NEW j \in D, Precedes(rest, i, j) PROVE rank[i] < rank[j]
  <2> USE DEF Precedes
  <2>4. i \in Nat /\ j \in Nat /\ rest[i] \in Nat /\ rest[j] \in Nat /\ i \in before(j) /\ i \notin before(i)
    BY <1>3
  <2>5. ASSUME NEW l \in before(i) PROVE l \in before(j)
    <3>1. l \in D /\ l \in Nat /\ rest[l] \in Nat /\ Precedes(rest, l, i)
      OBVIOUS
    <3>2. Precedes(rest, l, j)
      BY <1>3, <2>4, <3>1
    <3>3. QED BY <3>1, <3>2
  <2>1. before(i) \in SUBSET before(j) /\ i \in before(j) /\ i \notin before(i)
    BY <2>4, <2>5
  <2> USE <1>2
  <2>2. Cardinality(before(i)) <= Cardinality(before(j)) /\ Cardinality(before(i)) # Cardinality(before(j))
    BY <1>2, <2>1, FS_Subset
  <2>3. QED BY <1>2, <2>2
<1>4. ASSUME NEW i \in D, NEW j \in D, rank[i] = rank[j] PROVE i = j
  <2>1. ~Precedes(rest, i, j) /\ ~Precedes(rest, j, i)
    BY <1>2, <1>3, <1>4
  <2>2. QED BY <2>1 DEF Precedes
<1> HIDE DEF rank, n
<1>5. rank \in Injection(D, 0..(n - 1))
  <2>1. DOMAIN rank = D
    BY DEF rank
  <2>2. rank \in [D -> 0..(n - 1)]
    BY <1>2, <2>1 DEF rank
  <2>3. QED BY <1>4, <2>2 DEF Injection, IsInjective
<1>6. rank \in Surjection(D, 0..(n - 1))
  <2>1. IsFiniteSet(0..(n - 1)) /\ Cardinality(0..(n - 1)) = n
    <3>1. n - 1 \in Int /\ 0 \in Int
      BY <1>1
    <3>2. QED BY <1>1, <3>1, FS_Interval
  <2>2. Cardinality(D) = Cardinality(0..(n - 1))
    BY <2>1 DEF n
  <2>3. QED BY <1>5, <2>1, <2>2, FS_Injection
<1> DEFINE r == [i \in low |-> rank[i]]
<1>7. low \in SUBSET D /\ IsFiniteSet(low)
  BY FS_Subset
<1>8. r \in Surjection(low, 0..(k - 1))
  <2>1. \A i \in D : rank[i] \in 0..(n - 1)
    BY <1>5 DEF Injection
  <2>2. r \in [low -> 0..(k - 1)]
    <3>1. ASSUME NEW i \in low PROVE rank[i] \in 0..(k - 1)
      <4>1. rank[i] \in 0..(n - 1) /\ rank[i] < k
        BY <2>1
      <4>2. QED BY <1>1, <4>1
    <3>2. QED BY <3>1
  <2>3. ASSUME NEW m \in 0..(k - 1) PROVE \E i \in low : r[i] = m
    <3>1. m \in 0..(n - 1)
      BY <1>1
    <3>2. PICK i \in D : rank[i] = m
      BY <1>6, <3>1 DEF Surjection
    <3>3. QED BY <3>2
  <2>4. QED BY <2>2, <2>3 DEF Surjection
<1>9. r \in Injection(low, 0..(k - 1))
  BY <1>4, <1>7, <1>8 DEF Injection, IsInjective, Surjection
<1>10. Cardinality(0..(k - 1)) = k
  <2>1. k - 1 \in Int /\ 0 \in Int /\ k \in Nat
    BY <1>1
  <2>2. QED BY <2>1, FS_Interval
<1>11. Cardinality(low) = k
  BY <1>7, <1>8, <1>9, <1>10, FS_Surjection
<1>12. low = {i \in D : Cardinality(before(i)) < k}
  BY DEF rank
<1>13. QED BY <1>11, <1>12

LEMMA TotalAtLeast ==
  ASSUME NEW D, IsFiniteSet(D), NEW f \in [D -> Nat], NEW i \in D
  PROVE  Total(f) \in Nat /\ Total(f) >= f[i]
<1> DEFINE others == [j \in D |-> IF j = i THEN 0 ELSE f[j]]
           mark == Marks(D, {i})
<1>1. others \in [D -> Nat] /\ mark \in [D -> Nat] /\ f[i] \in Nat
  BY DEF Marks
<1>2. Total(mark) = 1
  BY TotalMarks, FS_Singleton
<1>3. Linear(D, 1, f, f[i], mark, others)
  BY DEF Marks, Linear
<1> HIDE DEF others, mark
<1>4. LinearInAll(1, f, f[i], mark, others)
  BY <1>1, <1>3, TotalLinear
<1>5. Total(f) \in Nat /\ Total(others) \in Nat
  BY <1>1, TotalNat
<1>6. QED BY <1>1, <1>2, <1>4, <1>5 DEF LinearInAll

LEMMA Division ==
  ASSUME NEW a \in Nat, NEW b \in Nat, b > 0
  PROVE  a \div b \in Nat /\ a % b \in 0..(b - 1) /\ a = b * (a \div b) + (a % b)
OBVIOUS

LEMMA Products ==
  ASSUME NEW a \in Nat, NEW b \in Nat, NEW c \in Nat
  PROVE  /\ a * b \in Nat /\ a * (b + 1) = a * b + a /\ a * b = b * a
         /\ (b < c => a * b + a <= a * c) /\ (b <= c => a * b <= a * c)
<1>1. a * b \in Nat /\ a * c \in Nat /\ a * (b + 1) = a * b + a /\ a * b = b * a
  OBVIOUS
<1>2. ASSUME b <= c PROVE a * b <= a * c
  <2>1. c - b \in Nat /\ a * (c - b) \in Nat /\ a * (c - b) = a * c - a * b
    BY <1>2
  <2>2. QED BY <1>1, <2>1
<1>3. ASSUME b < c PROVE a * b + a <= a * c
  <2>1. c - (b + 1) \in Nat /\ a * (c - (b + 1)) \in Nat /\ a * (c - (b + 1)) = a * c - a * (b + 1)
    BY <1>3
  <2>2. QED BY <1>1, <2>1
<1>4. QED BY <1>1, <1>2, <1>3

\* The quotas add up to the number of cases, and each is the exact share rounded
\* down or up.
LEMMA QuotasFair ==
  ASSUME IsFiniteSet(Places), Places \in SUBSET Nat, NEW w \in [Places -> Nat],
         NEW W \in Nat, W = Total(w), W > 0, request.cases \in Nat
  PROVE  /\ Quotas(w) \in [Places -> Nat]
         /\ Total(Quotas(w)) = request.cases
         /\ \A i \in Places : /\ request.cases * w[i] < (Quotas(w)[i] + 1) * W
                              /\ Quotas(w)[i] * W < request.cases * w[i] + W
<1> DEFINE C == request.cases
           floor == [i \in Places |-> (C * w[i]) \div W]
           rest  == [i \in Places |-> (C * w[i]) % W]
           left  == C - Total(floor)
           before(i) == {j \in Places : Precedes(rest, j, i)}
           low == {i \in Places : Cardinality(before(i)) < left}
           some == {i \in Places : rest[i] > 0}
<1>1. ASSUME NEW i \in Places
      PROVE  /\ floor[i] \in Nat /\ rest[i] \in 0..(W - 1) /\ rest[i] \in Nat
             /\ C * w[i] \in Nat /\ C * w[i] = W * floor[i] + rest[i]
  <2>1. C * w[i] \in Nat
    BY Products
  <2>2. QED BY <2>1, Division
<1>2. Quotas(w) = [i \in Places |-> floor[i] + (IF i \in low THEN 1 ELSE 0)]
  BY DEF Quotas
<1> HIDE DEF floor, rest, C
<1>3. floor \in [Places -> Nat] /\ rest \in [Places -> Nat] /\ C \in Nat
  BY <1>1 DEF floor, rest, C
<1>4. Total(floor) \in Nat /\ Total(rest) \in Nat
  BY <1>3, TotalNat
<1>5. C * W = W * Total(floor) + Total(rest)
  <2>1. Linear(Places, C, w, W, floor, rest)
    BY <1>1 DEF Linear
  <2>2. LinearInAll(C, w, W, floor, rest)
    BY <1>3, <2>1, TotalLinear
  <2>3. QED BY <2>2 DEF LinearInAll
<1>6. W * left = Total(rest) /\ left \in Int
  <2>1. W * left = W * C - W * Total(floor)
    BY <1>3, <1>4
  <2>2. W * C = C * W /\ W * C \in Nat /\ W * Total(floor) \in Nat
    BY <1>3, <1>4, Products
  <2>3. QED BY <1>3, <1>4, <1>5, <2>1, <2>2
<1>7. some \in SUBSET Places /\ IsFiniteSet(some) /\ Cardinality(some) \in Nat /\ Cardinality(some) <= Cardinality(Places)
      /\ Cardinality(Places) \in Nat
  BY FS_Subset, FS_CardinalityType
<1>8. Total(rest) <= W * Cardinality(some) /\ (some # {} => Total(rest) < W * Cardinality(some))
  <2> DEFINE mark == Marks(Places, some)
             slack == [i \in Places |-> IF i \in some THEN W - rest[i] ELSE 0]
  <2>1. mark \in [Places -> Nat] /\ slack \in [Places -> Nat]
    BY <1>1 DEF Marks
  <2>2. Linear(Places, W, mark, 1, rest, slack)
    BY <1>1 DEF Marks, Linear
  <2> HIDE DEF mark, slack, some
  <2>3. LinearInAll(W, mark, 1, rest, slack)
    BY <2>1, <2>2, <1>3, TotalLinear
  <2>4. Total(slack) \in Nat /\ Total(mark) = Cardinality(some)
    BY <1>7, <2>1, TotalNat, TotalMarks DEF mark
  <2>5. W * Cardinality(some) \in Nat
    BY <1>7, Products
  <2>6. ASSUME some # {} PROVE Total(slack) # 0
    <3>1. PICK i \in Places : i \in some
      BY <2>6, <1>7
    <3>2. slack[i] > 0
      BY <1>1, <3>1 DEF slack
    <3>3. Total(slack) >= slack[i] /\ slack[i] \in Nat
      BY <2>1, TotalAtLeast
    <3>4. QED BY <2>4, <3>2, <3>3
  <2>7. QED BY <1>4, <2>3, <2>4, <2>5, <2>6 DEF LinearInAll
<1> HIDE DEF left, some
<1>9. left \in 0..Cardinality(Places) /\ left <= Cardinality(some) /\ (some # {} => left < Cardinality(some))
  <2>1. left >= 0
    BY <1>4, <1>6
  <2>2. left \in Nat
    BY <1>6, <2>1
  <2>3. ASSUME left > Cardinality(some) PROVE FALSE
    <3>1. W * Cardinality(some) + W <= W * left
      BY <1>7, <2>2, <2>3, Products
    <3>2. W * Cardinality(some) \in Nat
      BY <1>7, Products
    <3>3. QED BY <1>4, <1>6, <1>8, <3>1, <3>2
  <2>4. ASSUME some # {}, left = Cardinality(some) PROVE FALSE
    BY <1>6, <1>8, <2>4, <1>4
  <2>5. QED BY <1>7, <2>2, <2>3, <2>4
<1>10. low \in SUBSET Places /\ Cardinality(low) = left
  BY <1>3, <1>9, Ranked
<1>11. ASSUME NEW i \in low PROVE rest[i] > 0
  <2> SUFFICES ASSUME rest[i] = 0 PROVE FALSE
    BY <1>3
  <2>1. i \in Places /\ Cardinality(before(i)) < left
    OBVIOUS
  <2>2. some \in SUBSET before(i)
    BY <1>3, <2>1 DEF Precedes, some
  <2>3. IsFiniteSet(before(i)) /\ Cardinality(before(i)) \in Nat
    BY FS_Subset, FS_CardinalityType
  <2>4. Cardinality(some) <= Cardinality(before(i))
    BY <2>2, <2>3, FS_Subset
  <2>5. QED BY <1>7, <1>9, <2>1, <2>3, <2>4
<1> DEFINE mark == Marks(Places, low)
<1>12. mark \in [Places -> Nat] /\ Total(mark) = left /\ \A i \in Places : mark[i] = IF i \in low THEN 1 ELSE 0
  BY <1>10, TotalMarks DEF Marks
<1> HIDE DEF low, mark
<1>13. Quotas(w) \in [Places -> Nat] /\ Linear(Places, 1, Quotas(w), 1, floor, mark)
  BY <1>2, <1>3, <1>12 DEF Linear
<1>14. Total(Quotas(w)) \in Nat /\ LinearInAll(1, Quotas(w), 1, floor, mark)
  BY <1>3, <1>12, <1>13, TotalNat, TotalLinear
<1>15. Total(Quotas(w)) = C
  BY <1>3, <1>4, <1>9, <1>12, <1>14 DEF left, LinearInAll
<1>16. ASSUME NEW i \in Places
       PROVE  C * w[i] < (Quotas(w)[i] + 1) * W /\ Quotas(w)[i] * W < C * w[i] + W
  <2> DEFINE x == C * w[i]
             f == floor[i]
  <2>1. x \in Nat /\ f \in Nat /\ x = W * f + rest[i] /\ rest[i] \in 0..(W - 1)
    BY <1>1
  <2> HIDE DEF x, f
  <2>2. /\ W * f \in Nat /\ f * W = W * f /\ (f + 1) * W = W * f + W /\ (f + 1 + 1) * W = W * f + W + W
    BY <2>1
  <2>3. CASE i \in low
    <3>1. Quotas(w)[i] = f + 1 /\ rest[i] > 0
      BY <1>2, <1>11, <2>3 DEF f
    <3>2. QED BY <2>1, <2>2, <3>1 DEF x
  <2>4. CASE i \notin low
    <3>1. Quotas(w)[i] = f
      BY <1>2, <2>1, <2>4 DEF f
    <3>2. QED BY <2>1, <2>2, <3>1 DEF x
  <2>5. QED BY <2>3, <2>4
<1>17. QED BY <1>13, <1>15, <1>16 DEF C

-----------------------------------------------------------------------------
(* The dealing.                                                             *)

\* One less of something there is.
Less(D, f, h, i) == \A j \in D : f[j] = h[j] + (IF j = i THEN 1 ELSE 0)

LEMMA OneLess ==
  ASSUME NEW D, IsFiniteSet(D), NEW f \in [D -> Nat], NEW h \in [D -> Nat], NEW i \in D, Less(D, f, h, i)
  PROVE  Total(f) = Total(h) + 1
<1> DEFINE mark == Marks(D, {i})
<1>1. mark \in [D -> Nat]
  BY DEF Marks
<1>2. Linear(D, 1, f, 1, h, mark)
  BY DEF Linear, Marks, Less
<1>3. Total(mark) = 1
  <2>1. {i} \in SUBSET D /\ Cardinality({i}) = 1
    BY FS_Singleton
  <2>2. QED BY <2>1, TotalMarks
<1> HIDE DEF mark
<1>4. LinearInAll(1, f, 1, h, mark)
  BY <1>1, <1>2, TotalLinear
<1>5. Total(f) \in Nat /\ Total(h) \in Nat
  BY <1>1, TotalNat
<1>6. QED BY <1>1, <1>3, <1>4, <1>5 DEF LinearInAll

LEMMA NoneLeft ==
  ASSUME NEW D, IsFiniteSet(D), NEW f \in [D -> Nat]
  PROVE  Total(f) = 0 <=> \A i \in D : f[i] = 0
<1>1. ASSUME Total(f) = 0, NEW i \in D PROVE f[i] = 0
  <2>1. Total(f) >= f[i] /\ f[i] \in Nat
    BY TotalAtLeast
  <2>2. QED BY <1>1, <2>1
<1>2. ASSUME \A i \in D : f[i] = 0 PROVE Total(f) = 0
  <2>1. f = Marks(D, {})
    BY <1>2 DEF Marks
  <2>2. QED BY <2>1, TotalMarks, FS_EmptySet
<1>3. QED BY <1>1, <1>2

LEMMA ScoreIs ==
  ASSUME row \in [Workers -> Row], NEW v \in Workers
  PROVE  Score(v) \in Nat /\ Score(v) >= 8
<1>1. CASE ~row[v].here
  BY <1>1 DEF Score
<1>2. CASE row[v].here
  <2> DEFINE m == row[v].machine
             override == IF m.weight = 0 THEN 10 ELSE m.weight
             a == OrOne(m.slots)
             b == 8 * OrOne(m.cpu) + AtLeast(1, m.mem)
  <2>1. m.slots \in Nat /\ m.cpu \in Nat /\ m.mem \in Nat /\ m.weight \in Nat
    BY CreationAssumption DEF Row
  <2>2. a \in Nat /\ b \in Nat /\ override \in Nat
    BY <2>1 DEF OrOne, AtLeast
  <2>3. Score(v) = AtLeast(8, a * b * override)
    BY <1>2 DEF Score
  <2> HIDE DEF a, b, override
  <2>4. a * b \in Nat
    BY <2>2
  <2>5. a * b * override \in Nat
    BY <2>2, <2>4
  <2>6. QED BY <2>3, <2>5 DEF AtLeast
<1>3. QED BY <1>1, <1>2

\* A share of n cases, where the exact one is C * w / W.
Fair(C, w, n, W) == C * w < (n + 1) * W /\ n * W < C * w + W

Dealt == {"batch", "manifest", "yaml", "save", "start", "done"}

\* What a share has and what its quota still allows is fair; the quotas are for the
\* cases that are still to be dealt, and used up when the dealing ends.
ShareInv ==
  /\ request \in Requests /\ row \in [Workers -> Row]
  /\ weights \in [Places -> Nat] /\ quotas \in [Places -> Nat]
  /\ pc \in {"template", "run", "weigh"} => Places # {}
  /\ pc \in {"validate", "template", "run", "weigh"} => next = 1 /\ \A i \in Places : groups[i] = <<>>
  /\ pc \in {"deal"} \cup Dealt =>
       /\ Total(quotas) + next = request.cases + 1
       /\ \A i \in Places : Fair(request.cases, weights[i], Len(groups[i]) + quotas[i], Total(weights))
  /\ pc \in Dealt => \A i \in Places : quotas[i] = 0
  /\ pc \in Dealt \ {"batch"} => shard \notin Places

LEMMA PlacesFinite == ASSUME Shape PROVE IsFiniteSet(Places) /\ Places \in SUBSET Nat
<1>1. Places = 1..Len(request.workers) /\ Len(request.workers) \in Nat
  BY LenProperties DEF Shape, Places
<1>2. QED BY <1>1, FS_Interval

LEMMA InitShare == Init => ShareInv
<1> SUFFICES ASSUME Init PROVE ShareInv
  OBVIOUS
<1>1. request \in Requests /\ row \in [Workers -> Row]
  BY CreationAssumption DEF Init, Row
<1>2. QED BY <1>1 DEF Init, ShareInv, Dealt

\* Nothing of the dealing moves, and the handler does not enter it.
LEMMA ShareStays ==
  ASSUME ShareInv, UNCHANGED <<request, row, weights, quotas, next, groups, shard>>,
         \/ pc' = pc \/ pc' = "refused"
         \/ pc \in {"template", "run"} /\ pc' \in {"run", "weigh"}
         \/ pc \in Dealt \ {"batch"} /\ pc' \in Dealt \ {"batch"}
  PROVE  ShareInv'
BY DEF ShareInv, Dealt, Places

LEMMA StepShare == IInv /\ ShareInv /\ [Next]_vars => ShareInv'
<1> SUFFICES ASSUME IInv, ShareInv, [Next]_vars PROVE ShareInv'
  OBVIOUS
<1> USE DEF dealVars, outVars, Dealt
<1>a. /\ IsFiniteSet(Places) /\ Places \in SUBSET Nat /\ groups \in [Places -> Seq(Nat)]
      /\ next \in Nat /\ request.cases \in Nat /\ \A i \in Places : request.workers[i] \in Workers
  <2>1. request.workers \in Seq(Workers) /\ groups \in [Places -> Seq(Nat)] /\ next \in Nat /\ request.cases \in Nat
    BY CreationAssumption DEF IInv, Shape, ShareInv
  <2>2. \A i \in Places : request.workers[i] \in Workers
    BY <2>1, LenProperties, ElementOfSeq DEF Places
  <2>3. QED BY <2>1, <2>2, PlacesFinite DEF IInv
<1>1. CASE Validate
  <2>1. UNCHANGED <<request, row, weights, quotas, next, groups, shard>> /\ pc = "validate"
    BY <1>1 DEF Validate
  <2>2. pc' = "refused" \/ (pc' = "template" /\ Places # {})
    <3>1. pc' = IF Valid THEN "template" ELSE "refused"
      BY <1>1 DEF Validate
    <3>2. ASSUME Valid PROVE Places # {}
      BY <3>2 DEF Valid
    <3>3. QED BY <3>1, <3>2
  <2>3. QED BY <2>1, <2>2 DEF ShareInv, Places
<1>2. CASE CreateTemplate \/ CreateRun
  <2>1. UNCHANGED <<request, row, weights, quotas, next, groups, shard>> /\ pc \in {"template", "run"} /\ pc' \in {"run", "weigh"}
    BY <1>2 DEF CreateTemplate, CreateRun
  <2>2. QED BY <2>1, ShareStays
<1>3. CASE Weigh
  <2>1. /\ UNCHANGED <<request, row, next, groups, shard, Places>> /\ pc = "weigh" /\ pc' = "deal"
        /\ Places # {} /\ next = 1 /\ \A i \in Places : groups[i] = <<>>
    BY <1>3 DEF Weigh, ShareInv, Places
  <2>2. PICK w : w = weights' /\ w = [i \in Places |-> Score(request.workers[i])] /\ quotas' = Quotas(w)
    BY <1>3 DEF Weigh
  <2>3. w \in [Places -> Nat] /\ \A i \in Places : w[i] >= 8
    BY <1>a, <2>2, ScoreIs DEF ShareInv
  <2>4. PICK W : W = Total(w)
    OBVIOUS
  <2>5. W \in Nat /\ W > 0
    <3>1. PICK i \in Places : TRUE
      BY <2>1
    <3>2. Total(w) \in Nat /\ Total(w) >= w[i] /\ w[i] \in Nat
      BY <1>a, <2>3, TotalAtLeast
    <3>3. QED BY <2>3, <2>4, <3>2
  <2>6. /\ Quotas(w) \in [Places -> Nat]
        /\ Total(Quotas(w)) = request.cases
        /\ \A i \in Places : Fair(request.cases, w[i], Quotas(w)[i], W)
    BY <1>a, <2>3, <2>4, <2>5, QuotasFair DEF Fair
  <2>7. \A i \in Places : Len(groups[i]) + Quotas(w)[i] = Quotas(w)[i]
    BY <2>1, <2>6, EmptySeq
  <2>8. Total(quotas)' = request.cases /\ weights' = w /\ Total(weights)' = W /\ quotas' = Quotas(w)
    BY <2>2, <2>4, <2>6
  <2>9. \A i \in Places : Fair(request.cases, weights[i], Len(groups[i]) + quotas[i], Total(weights))'
    BY <2>1, <2>6, <2>7, <2>8
  <2>10. QED BY <1>a, <2>1, <2>3, <2>6, <2>8, <2>9 DEF ShareInv
<1>4. CASE DealCase
  <2>1. /\ UNCHANGED <<request, row, weights, shard, pc, Places>> /\ pc = "deal" /\ next' = next + 1
    BY <1>4 DEF DealCase, Places
  <2>2. PICK i \in Places : /\ quotas[i] > 0
                           /\ groups' = [groups EXCEPT ![i] = Append(@, next)]
                           /\ quotas' = [quotas EXCEPT ![i] = @ - 1]
    BY <1>4 DEF DealCase, Candidates
  <2>3. PICK h : h = quotas' /\ h = [quotas EXCEPT ![i] = @ - 1]
    BY <2>2
  <2>4. h \in [Places -> Nat] /\ Total(quotas) = Total(h) + 1 /\ Total(h) \in Nat
    <3>1. quotas \in [Places -> Nat]
      BY DEF ShareInv
    <3>2. PICK q : q = quotas /\ q \in [Places -> Nat] /\ q[i] > 0
      BY <2>2, <3>1
    <3>3. h \in [Places -> Nat] /\ Less(Places, q, h, i)
      BY <2>3, <3>2 DEF Less
    <3>4. Total(q) = Total(h) + 1
      BY <1>a, <3>2, <3>3, OneLess
    <3>5. QED BY <1>a, <3>2, <3>3, <3>4, TotalNat
  <2>5. Total(quotas)' = Total(h)
    BY <2>3
  <2>6. ASSUME NEW j \in Places PROVE (Len(groups[j]) + quotas[j])' = Len(groups[j]) + quotas[j]
    <3>1. groups[j] \in Seq(Nat) /\ Len(groups[j]) \in Nat /\ quotas[j] \in Nat
      BY <1>a, LenProperties DEF ShareInv
    <3>2. CASE j # i
      BY <1>a, <2>2, <3>2 DEF ShareInv
    <3>3. CASE j = i
      <4>1. groups'[j] = Append(groups[j], next) /\ quotas'[j] = quotas[j] - 1
        BY <1>a, <2>2, <3>3 DEF ShareInv
      <4>2. Len(groups'[j]) = Len(groups[j]) + 1
        BY <1>a, <3>1, <4>1, AppendProperties
      <4>3. QED BY <3>1, <4>1, <4>2
    <3>4. QED BY <3>2, <3>3
  <2>7. \A j \in Places : Fair(request.cases, weights[j], Len(groups[j]) + quotas[j], Total(weights))'
    BY <2>1, <2>6 DEF ShareInv
  <2>8. (Total(quotas) + next = request.cases + 1)'
    BY <1>a, <2>1, <2>4, <2>5 DEF ShareInv
  <2>9. QED BY <2>1, <2>3, <2>4, <2>7, <2>8 DEF ShareInv
<1>5. CASE EndDeal
  <2>1. /\ UNCHANGED <<request, row, weights, quotas, next, groups, shard, Places>> /\ pc = "deal" /\ pc' = "batch"
        /\ next > request.cases \/ Candidates = {}
    BY <1>5 DEF EndDeal, Places
  <2>2. \A i \in Places : quotas[i] = 0
    <3>1. CASE Candidates = {}
      BY <3>1 DEF Candidates, ShareInv
    <3>2. CASE next > request.cases
      <4>1. Total(quotas) \in Nat /\ quotas \in [Places -> Nat]
        BY <1>a, TotalNat DEF ShareInv
      <4>2. Total(quotas) = 0
        BY <1>a, <2>1, <3>2, <4>1 DEF ShareInv
      <4>3. QED BY <1>a, <4>1, <4>2, NoneLeft
    <3>3. QED BY <2>1, <3>1, <3>2
  <2>3. QED BY <2>1, <2>2 DEF ShareInv
<1>6. CASE CreateBatch
  <2>1. UNCHANGED <<request, row, weights, quotas, next, groups, Places, pc>> /\ pc = "batch"
    BY <1>6 DEF CreateBatch, Places
  <2>2. QED BY <2>1 DEF ShareInv
<1>7. CASE EndBatches
  <2>1. UNCHANGED <<request, row, weights, quotas, next, groups, shard, Places>>
        /\ pc = "batch" /\ pc' = "manifest" /\ shard \notin Places
    BY <1>7 DEF EndBatches, Places
  <2>2. QED BY <2>1 DEF ShareInv
<1>8. CASE BuildManifest
  <2>1. UNCHANGED <<request, row, weights, quotas, next, groups, shard>> /\ pc = "manifest"
        /\ pc' \in {"yaml", "save", "refused"}
    BY <1>8 DEF BuildManifest
  <2>2. QED BY <2>1, ShareStays
<1>9. CASE WriteYamls \/ SaveJob \/ StartSync
  BY <1>9, ShareStays DEF WriteYamls, SaveJob, StartSync
<1>10. CASE StorageFails
  <2>1. UNCHANGED <<request, row, weights, quotas, next, groups, shard>> /\ pc' = "refused"
    BY <1>10 DEF StorageFails
  <2>2. QED BY <2>1, ShareStays
<1>11. ASSUME NEW w \in Workers, DeleteWorker(w) \/ ChangeMachine(w) PROVE ShareInv'
  <2>1. UNCHANGED <<request, weights, quotas, next, groups, shard, pc, Places>>
    BY <1>11 DEF DeleteWorker, ChangeMachine, Places
  <2>2. row' \in [Workers -> Row]
    <3>1. row \in [Workers -> Row]
      BY DEF ShareInv
    <3>2. CASE DeleteWorker(w)
      <4>1. row' = [row EXCEPT ![w].here = FALSE]
        BY <3>2 DEF DeleteWorker
      <4>2. QED BY <3>1, <4>1 DEF Row
    <3>3. CASE ChangeMachine(w)
      <4>1. PICK m \in Machines : row' = [row EXCEPT ![w].machine = m]
        BY <3>3 DEF ChangeMachine
      <4>2. QED BY <3>1, <4>1 DEF Row
    <3>4. QED BY <1>11, <3>2, <3>3
  <2>3. QED BY <2>1, <2>2 DEF ShareInv
<1>12. CASE UNCHANGED vars
  <2>1. UNCHANGED <<request, row, weights, quotas, next, groups, shard, pc>>
    BY <1>12 DEF vars
  <2>2. QED BY <2>1, ShareStays
<1>13. QED
  BY <1>1, <1>2, <1>3, <1>4, <1>5, <1>6, <1>7, <1>8, <1>9, <1>10, <1>11, <1>12 DEF Next, Handler, Answered

\* The largest remainder method is fair: each worker's share is its exact share
\* rounded down or up, for any number of workers and cases and any weights, and
\* also when workers go away or change under the request (_weighted_case_groups).
THEOREM SharesAreFair == Spec => []FairShares
<1>1. IInv /\ ShareInv => FairShares
  <2> SUFFICES ASSUME IInv, ShareInv, pc \in Dealt, NEW i \in Places
               PROVE  Fair(request.cases, weights[i], Len(groups[i]), Total(weights))
    BY DEF FairShares, Dealt, Fair
  <2>1. groups[i] \in Seq(Nat) /\ Len(groups[i]) \in Nat /\ quotas[i] = 0
    BY LenProperties DEF IInv, Shape, ShareInv
  <2>2. Len(groups[i]) + quotas[i] = Len(groups[i])
    BY <2>1
  <2>3. Fair(request.cases, weights[i], Len(groups[i]) + quotas[i], Total(weights))
    BY DEF ShareInv, Dealt
  <2>4. QED BY <2>2, <2>3
<1>2. QED BY <1>1, InitCreation, StepCreation, InitShare, StepShare, PTL DEF Spec

\* Every case of the request is in a batch once the batches are made: the quotas
\* add up to the number of cases, so none is left when the last one is used up
\* (_weighted_case_groups, create_sharded_batches).
THEOREM EveryCaseIsDealt == Spec => []CasesCovered
<1>1. IInv /\ ShareInv => CasesCovered
  <2> SUFFICES ASSUME IInv, ShareInv, pc \in Dealt \ {"batch"}, NEW c \in 1..request.cases
               PROVE  \E k \in DOMAIN batches : \E p \in DOMAIN batches[k].cases : batches[k].cases[p] = c
    BY DEF CasesCovered, Dealt
  <2>1. Places = 1..Len(request.workers) /\ Len(request.workers) \in Nat /\ shard \in Nat \ {0} /\ shard \notin Places
    BY LenProperties DEF IInv, Shape, ShareInv, Places
  <2>2. next = request.cases + 1
    <3>1. Total(quotas) = 0
      BY PlacesFinite, NoneLeft DEF IInv, ShareInv, Dealt
    <3>2. next \in Nat /\ request.cases \in Nat /\ Total(quotas) + next = request.cases + 1
      BY CreationAssumption DEF IInv, Shape, ShareInv, Dealt
    <3>3. QED BY <3>1, <3>2
  <2>3. PICK i \in Places : \E p \in DOMAIN groups[i] : groups[i][p] = c
    <3>1. request.cases \in Nat
      BY CreationAssumption DEF ShareInv
    <3>2. c \in 1..(next - 1)
      BY <2>2, <3>1
    <3>3. QED BY <3>2 DEF IInv, CreationInv, DealtOnce
  <2>4. i < shard /\ groups[i] # <<>>
    <3>1. groups[i] # <<>>
      BY <2>3, EmptySeq
    <3>2. QED BY <2>1, <3>1
  <2>5. PICK k \in DOMAIN batches : batches[k].place = i
    BY <2>4 DEF IInv, CreationInv, BatchesAreShares
  <2>6. batches[k].cases = groups[i]
    BY <2>5 DEF IInv, CreationInv, BatchesAreShares
  <2>7. QED BY <2>3, <2>6
<1>2. QED BY <1>1, InitCreation, StepCreation, InitShare, StepShare, PTL DEF Spec
=============================================================================
