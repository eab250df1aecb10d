-------------------------- MODULE HarborYamlProofs --------------------------
(***************************************************************************)
(* What holds of the paths of a batch for every file system and every      *)
(* request.                                                                *)
(***************************************************************************)
EXTENDS HarborYaml, SequenceTheorems, FiniteSetTheorems, WellFoundedInduction, TLAPS

-----------------------------------------------------------------------------
(* Paths.                                                                   *)

\* The names of directories.  (The provers do not know that a string they are shown
\* is in STRING.)
Word == STRING \cup {"dataset", "assets", "bitfun", "bitfun-cli", "config"}
Path == Seq(Word)

LEMMA PathsAre ==
  ASSUME NEW p \in Seq(STRING)
  PROVE  p \in Path
<1>1. STRING \subseteq Word
  BY DEF Word
<1>2. QED BY <1>1, SeqMonotonic DEF Path

LEMMA PrefixIs ==
  ASSUME NEW p \in Path, NEW q \in Path
  PROVE  IsPrefix(p, q) <=> Len(p) <= Len(q) /\ \A i \in 1..Len(p) : p[i] = q[i]
<1>1. ASSUME Len(p) <= Len(q)
      PROVE  /\ SubSeq(p, 1, Len(p)) \in Path /\ Len(SubSeq(p, 1, Len(p))) = Len(p)
             /\ \A i \in 1..Len(p) : SubSeq(p, 1, Len(p))[i] = p[i]
             /\ SubSeq(q, 1, Len(p)) \in Path /\ Len(SubSeq(q, 1, Len(p))) = Len(p)
             /\ \A i \in 1..Len(p) : SubSeq(q, 1, Len(p))[i] = q[i]
  BY <1>1 DEF Path
<1>2. ASSUME Len(p) <= Len(q), \A i \in 1..Len(p) : p[i] = q[i]
      PROVE  SubSeq(p, 1, Len(p)) = SubSeq(q, 1, Len(p))
  BY <1>1, <1>2, SeqEqual DEF Path
<1>3. ASSUME Len(p) <= Len(q), SubSeq(p, 1, Len(p)) = SubSeq(q, 1, Len(p))
      PROVE  \A i \in 1..Len(p) : p[i] = q[i]
  BY <1>1, <1>3
<1>4. QED BY <1>2, <1>3 DEF IsPrefix

\* Two paths above a third one lie on one line.
LEMMA PrefixesNest ==
  ASSUME NEW p \in Path, NEW q \in Path, NEW s \in Path, IsPrefix(p, s), IsPrefix(q, s), Len(p) <= Len(q)
  PROVE  IsPrefix(p, q)
<1>1. Len(q) <= Len(s) /\ Len(p) \in Nat /\ Len(q) \in Nat
  BY PrefixIs DEF Path
<1>2. \A i \in 1..Len(p) : p[i] = q[i]
  BY <1>1, PrefixIs
<1>3. QED BY <1>2, PrefixIs

LEMMA PrefixWhole ==
  ASSUME NEW p \in Path, NEW q \in Path, IsPrefix(p, q), Len(p) = Len(q)
  PROVE  p = q
<1>1. \A i \in 1..Len(p) : p[i] = q[i]
  BY PrefixIs
<1>2. QED BY <1>1, SeqEqual DEF Path

\* What is below a path, put below another one.
LEMMA AfterIs ==
  ASSUME NEW p \in Path, NEW q \in Path, IsPrefix(q, p)
  PROVE  /\ After(p, q) \in Path /\ Len(After(p, q)) = Len(p) - Len(q)
         /\ \A i \in 1..(Len(p) - Len(q)) : After(p, q)[i] = p[Len(q) + i]
         /\ q \o After(p, q) = p
<1>1. Len(q) <= Len(p) /\ Len(q) \in Nat /\ Len(p) \in Nat /\ \A i \in 1..Len(q) : q[i] = p[i]
  BY PrefixIs DEF Path
<1>2. \A i \in (Len(q) + 1)..Len(p) : p[i] \in Word
  BY <1>1 DEF Path
<1>3. /\ After(p, q) \in Path /\ Len(After(p, q)) = Len(p) - Len(q)
      /\ \A i \in 1..(Len(p) - Len(q)) : After(p, q)[i] = p[Len(q) + i]
  <2>1. /\ SubSeq(p, Len(q) + 1, Len(p)) \in Seq(Word)
        /\ Len(SubSeq(p, Len(q) + 1, Len(p))) = IF Len(q) + 1 <= Len(p) THEN Len(p) - (Len(q) + 1) + 1 ELSE 0
        /\ \A i \in 1..(Len(p) - (Len(q) + 1) + 1) : SubSeq(p, Len(q) + 1, Len(p))[i] = p[(Len(q) + 1) + i - 1]
    BY <1>1, <1>2, SubSeqProperties
  <2>2. QED BY <1>1, <2>1 DEF After, Path
<1>4. /\ q \o After(p, q) \in Path /\ Len(q \o After(p, q)) = Len(p)
      /\ \A i \in 1..Len(p) : (q \o After(p, q))[i] = IF i <= Len(q) THEN q[i] ELSE After(p, q)[i - Len(q)]
  BY <1>1, <1>3, ConcatProperties DEF Path
<1>5. \A i \in 1..Len(p) : (q \o After(p, q))[i] = p[i]
  <2> SUFFICES ASSUME NEW i \in 1..Len(p) PROVE (q \o After(p, q))[i] = p[i]
    OBVIOUS
  <2>0. i \in Nat /\ Len(q) \in Nat /\ (i <= Len(q) \/ i > Len(q))
    BY <1>1
  <2>1. CASE i <= Len(q)
    <3>1. i \in 1..Len(q)
      BY <1>1, <2>0, <2>1
    <3>2. QED BY <1>1, <1>4, <2>1, <3>1
  <2>2. CASE i > Len(q)
    <3>1. i - Len(q) \in 1..(Len(p) - Len(q)) /\ Len(q) + (i - Len(q)) = i
      BY <1>1, <2>2
    <3>2. QED BY <1>1, <1>3, <1>4, <2>2, <3>1
  <2>3. QED BY <2>0, <2>1, <2>2
<1>6. QED BY <1>3, <1>4, <1>5, SeqEqual DEF Path

LEMMA BelowIs ==
  ASSUME NEW p \in Path, NEW q \in Path
  PROVE  p \o q \in Path /\ IsPrefix(p, p \o q) /\ After(p \o q, p) = q
<1>1. PICK r \in Path : r = p \o q
  BY ConcatProperties DEF Path
<1>2. /\ Len(r) = Len(p) + Len(q) /\ Len(p) \in Nat /\ Len(q) \in Nat
      /\ \A i \in 1..(Len(p) + Len(q)) : r[i] = IF i <= Len(p) THEN p[i] ELSE q[i - Len(p)]
  BY <1>1, ConcatProperties DEF Path
<1>3. IsPrefix(p, r)
  <2>1. Len(p) <= Len(r) /\ \A i \in 1..Len(p) : p[i] = r[i]
    BY <1>2
  <2>2. QED BY <2>1, PrefixIs
<1>4. /\ After(r, p) \in Path /\ Len(After(r, p)) = Len(q)
      /\ \A i \in 1..Len(q) : After(r, p)[i] = r[Len(p) + i]
  <2>1. Len(r) - Len(p) = Len(q)
    BY <1>2
  <2>2. QED BY <1>3, <2>1, AfterIs
<1>5. \A i \in 1..Len(q) : r[Len(p) + i] = q[i]
  BY <1>2
<1>6. After(r, p) = q
  BY <1>4, <1>5, SeqEqual DEF Path
<1>7. QED BY <1>1, <1>3, <1>6

\* Of the paths above one there is a longest.
LEMMA LongestIs ==
  ASSUME NEW p \in Path, NEW S \in SUBSET Path, S # {}, \A q \in S : IsPrefix(q, p)
  PROVE  Longest(S) \in S /\ \A q \in S : Len(q) <= Len(Longest(S))
<1> DEFINE gaps == {Len(p) - Len(q) : q \in S}
<1>1. gaps # {} /\ gaps \subseteq Nat
  <2>1. \A q \in S : Len(q) \in Nat /\ Len(p) \in Nat /\ Len(q) <= Len(p)
    BY PrefixIs DEF Path
  <2>2. QED BY <2>1
<1>2. PICK g \in gaps : \A h \in gaps : <<h, g>> \notin OpToRel(<, Nat)
  BY <1>1, WFMin, NatLessThanWellFounded
<1>3. PICK q \in S : g = Len(p) - Len(q)
  BY <1>2
<1>4. \A s \in S : Len(s) <= Len(q)
  <2> SUFFICES ASSUME NEW s \in S PROVE Len(s) <= Len(q)
    OBVIOUS
  <2>1. Len(p) - Len(s) \in gaps
    OBVIOUS
  <2>2. ~(Len(p) - Len(s) < g)
    BY <1>1, <1>2, <2>1 DEF OpToRel
  <2>3. Len(p) \in Nat /\ Len(q) \in Nat /\ Len(s) \in Nat
    BY DEF Path
  <2>4. QED BY <1>3, <2>2, <2>3
<1>5. QED BY <1>3, <1>4 DEF Longest

\* Of some numbers up to a bound there is a largest.
LEMMA LargestIs ==
  ASSUME NEW N \in Nat, NEW S \in SUBSET (1..N), S # {}
  PROVE  \E i \in S : \A j \in S : j <= i
<1> DEFINE gaps == {N - i : i \in S}
<1>1. gaps # {} /\ gaps \subseteq Nat
  <2>1. \A i \in S : N - i \in Nat
    OBVIOUS
  <2>2. QED BY <2>1
<1>2. PICK g \in gaps : \A h \in gaps : <<h, g>> \notin OpToRel(<, Nat)
  BY <1>1, WFMin, NatLessThanWellFounded
<1>3. PICK i \in S : g = N - i
  BY <1>2
<1>4. \A j \in S : j <= i
  <2> SUFFICES ASSUME NEW j \in S PROVE j <= i
    OBVIOUS
  <2>1. N - j \in gaps
    OBVIOUS
  <2>2. ~(N - j < g)
    BY <1>1, <1>2, <2>1 DEF OpToRel
  <2>3. QED BY <1>3, <2>2
<1>5. QED BY <1>3, <1>4

-----------------------------------------------------------------------------
(* Where things are.                                                        *)

LEMMA RealIs ==
  ASSUME NEW p \in Path
  PROVE  Real(p) \in Path
<1>1. CASE \E l \in DOMAIN Links : IsPrefix(l, p)
  <2> DEFINE m == CHOOSE l \in DOMAIN Links : IsPrefix(l, p)
  <2>1. m \in DOMAIN Links /\ IsPrefix(m, p)
    BY <1>1
  <2>2. m \in Path /\ Links[m] \in Path
    BY <2>1, YamlAssumption, PathsAre
  <2>3. After(p, m) \in Path
    BY <2>1, <2>2, AfterIs
  <2>4. Links[m] \o After(p, m) \in Path
    BY <2>2, <2>3, BelowIs
  <2>5. QED BY <1>1, <2>4 DEF Real
<1>2. CASE ~\E l \in DOMAIN Links : IsPrefix(l, p)
  BY <1>2 DEF Real
<1>3. QED BY <1>1, <1>2

LEMMA WhereIs ==
  ASSUME NEW text \in Spelling
  PROVE  Where(text) \in Path
<1>1. Home \in Path /\ Cwd \in Path /\ text.path \in Path /\ text.root \in {"abs", "home", "rel"}
  BY YamlAssumption, PathsAre DEF Spelling
<1>2. Home \o text.path \in Path /\ Cwd \o text.path \in Path
  BY <1>1, BelowIs
<1>3. Abs(text) \in Path
  BY <1>1, <1>2 DEF Abs
<1>4. QED BY <1>3, RealIs DEF Where

\* The places below the run's directory on a worker.
Slot(dir, name) == SyncRoot \o <<dir, name>>

LEMMA SyncRootIs ==
  SyncRoot \in Path /\ SyncRoot \in Seq(Word) /\ Len(SyncRoot) \in Nat
<1>1. SyncRoot \in Path
  BY YamlAssumption, PathsAre
<1>2. QED BY <1>1 DEF Path

LEMMA PairIs ==
  ASSUME NEW S, NEW d \in S, NEW n \in S
  PROVE  /\ <<d, n>> \in Seq(S) /\ <<d>> \in Seq(S) /\ Len(<<d, n>>) = 2
         /\ <<d, n>>[1] = d /\ <<d, n>>[2] = n /\ <<d>> \o <<n>> = <<d, n>>
<1>1. <<d, n>> \in Seq(S) /\ Len(<<d, n>>) = 2 /\ <<d, n>>[1] = d /\ <<d, n>>[2] = n
  OBVIOUS
<1>2. <<d>> \in Seq(S) /\ Len(<<d>>) = 1 /\ <<d>>[1] = d /\ <<n>> \in Seq(S) /\ Len(<<n>>) = 1 /\ <<n>>[1] = n
  OBVIOUS
<1>3. /\ <<d>> \o <<n>> \in Seq(S) /\ Len(<<d>> \o <<n>>) = 2
      /\ \A i \in 1..2 : (<<d>> \o <<n>>)[i] = IF i <= 1 THEN d ELSE <<n>>[i - 1]
  BY <1>2, ConcatProperties
<1>4. \A i \in 1..2 : (<<d>> \o <<n>>)[i] = <<d, n>>[i]
  BY <1>1, <1>2, <1>3
<1>5. QED BY <1>1, <1>2, <1>3, <1>4, SeqEqual

LEMMA SlotIs ==
  ASSUME NEW d \in Word, NEW n \in Word
  PROVE  /\ Slot(d, n) \in Path /\ Len(Slot(d, n)) = Len(SyncRoot) + 2
         /\ Slot(d, n)[Len(SyncRoot) + 1] = d /\ Slot(d, n)[Len(SyncRoot) + 2] = n
         /\ Last(Slot(d, n)) = n /\ IsPrefix(SyncRoot, Slot(d, n))
<1>1. SyncRoot \in Path /\ <<d, n>> \in Path /\ Len(SyncRoot) \in Nat
  BY SyncRootIs, PairIs DEF Path
<1>2. /\ Slot(d, n) \in Path /\ Len(Slot(d, n)) = Len(SyncRoot) + 2
      /\ \A i \in 1..(Len(SyncRoot) + 2) :
           Slot(d, n)[i] = IF i <= Len(SyncRoot) THEN SyncRoot[i] ELSE <<d, n>>[i - Len(SyncRoot)]
  <2>1. Len(<<d, n>>) = 2
    BY PairIs
  <2>2. QED BY <1>1, <2>1, ConcatProperties DEF Slot, Path
<1>3. Slot(d, n)[Len(SyncRoot) + 1] = d /\ Slot(d, n)[Len(SyncRoot) + 2] = n
  <2>1. \A k \in {1, 2} : /\ Len(SyncRoot) + k \in 1..(Len(SyncRoot) + 2) /\ ~(Len(SyncRoot) + k <= Len(SyncRoot))
                         /\ (Len(SyncRoot) + k) - Len(SyncRoot) = k
    BY <1>1
  <2>2. \A k \in {1, 2} : Slot(d, n)[Len(SyncRoot) + k] = <<d, n>>[k]
    BY <1>2, <2>1
  <2>3. QED BY <2>2, PairIs
<1>4. IsPrefix(SyncRoot, Slot(d, n))
  BY <1>1, BelowIs DEF Slot
<1>5. QED BY <1>2, <1>3, <1>4 DEF Last

LEMMA SlotsDiffer ==
  ASSUME NEW d \in Word, NEW n \in Word, NEW e \in Word, NEW m \in Word, Slot(d, n) = Slot(e, m)
  PROVE  d = e /\ n = m
<1>1. /\ Slot(d, n)[Len(SyncRoot) + 1] = d /\ Slot(d, n)[Len(SyncRoot) + 2] = n
      /\ Slot(e, m)[Len(SyncRoot) + 1] = e /\ Slot(e, m)[Len(SyncRoot) + 2] = m
  BY SlotIs
<1>2. QED BY <1>1

LEMMA CaseSlot ==
  ASSUME NEW n \in Word
  PROVE  Append(DatasetDir, n) = Slot("dataset", n)
<1>0. "dataset" \in Word
  BY DEF Word
<1>1. SyncRoot \in Seq(Word) /\ <<"dataset">> \in Seq(Word) /\ <<n>> \in Seq(Word)
  BY <1>0, SyncRootIs, PairIs
<1>2. DatasetDir \in Seq(Word)
  BY <1>1, ConcatProperties DEF DatasetDir
<1>3. Append(DatasetDir, n) = (SyncRoot \o <<"dataset">>) \o <<n>>
  BY <1>2, AppendIsConcat DEF DatasetDir
<1>4. (SyncRoot \o <<"dataset">>) \o <<n>> = SyncRoot \o (<<"dataset">> \o <<n>>)
  BY <1>1, ConcatAssociative
<1>5. <<"dataset">> \o <<n>> = <<"dataset", n>>
  BY <1>0, PairIs
<1>6. QED BY <1>3, <1>4, <1>5 DEF Slot

LEMMA AssetSlot ==
  ASSUME NEW n
  PROVE  AssetPath(n) = Slot("assets", n)
  BY DEF AssetPath, Slot

\* What is copied to a slot is all that a path below it leads to.
LEMMA ContentIs ==
  ASSUME \A t \in DOMAIN copies : \E e, m \in Word : t = Slot(e, m),
         NEW d \in Word, NEW n \in Word, Slot(d, n) \in DOMAIN copies, NEW rest \in Path
  PROVE  Content(Slot(d, n) \o rest) = OnController(copies[Slot(d, n)] \o rest)
<1> DEFINE p == Slot(d, n) \o rest
           holders == {t \in DOMAIN copies : IsPrefix(t, p)}
<1>1. p \in Path /\ IsPrefix(Slot(d, n), p) /\ After(p, Slot(d, n)) = rest /\ Slot(d, n) \in Path
  BY SlotIs, BelowIs
<1>2. ASSUME NEW t \in holders PROVE t = Slot(d, n)
  <2>1. PICK e, m \in Word : t = Slot(e, m)
    BY <1>2
  <2>2. t \in Path /\ Len(t) = Len(Slot(d, n)) /\ Len(t) \in Nat /\ Slot(d, n) \in Path
    BY <2>1, SlotIs, SyncRootIs
  <2>3. IsPrefix(t, p)
    BY <1>2
  <2>4. IsPrefix(t, Slot(d, n))
    BY <1>1, <2>2, <2>3, PrefixesNest
  <2>5. QED BY <2>2, <2>4, PrefixWhole
<1>3. holders = {Slot(d, n)}
  BY <1>1, <1>2
<1>4. Longest(holders) = Slot(d, n)
  <2>1. Longest({Slot(d, n)}) = Slot(d, n)
    BY SlotIs, SyncRootIs DEF Longest
  <2>2. QED BY <1>3, <2>1
<1>5. Content(p) = [on |-> "controller", path |-> copies[Longest(holders)] \o After(p, Longest(holders))]
  BY <1>3 DEF Content
<1>6. QED BY <1>1, <1>4, <1>5 DEF OnController

LEMMA ContentAt ==
  ASSUME \A t \in DOMAIN copies : \E e, m \in Word : t = Slot(e, m),
         NEW d \in Word, NEW n \in Word, Slot(d, n) \in DOMAIN copies, copies[Slot(d, n)] \in Path
  PROVE  Content(Slot(d, n)) = OnController(copies[Slot(d, n)])
<1>1. <<>> \in Path /\ Slot(d, n) \in Path
  BY SlotIs, EmptySeq DEF Path
<1>2. Slot(d, n) \o <<>> = Slot(d, n) /\ copies[Slot(d, n)] \o <<>> = copies[Slot(d, n)]
  BY <1>1, ConcatEmptySeq DEF Path
<1>3. Content(Slot(d, n) \o <<>>) = OnController(copies[Slot(d, n)] \o <<>>)
  BY <1>1, ContentIs
<1>4. QED BY <1>2, <1>3

\* A path is rewritten by the longest source that it is at or below.
LEMMA RewriteIs ==
  ASSUME DOMAIN RewriteMap \subseteq Path, NEW p \in Path, NEW s \in Fits(p), \A q \in Fits(p) : Len(q) <= Len(s)
  PROVE  RewritePath(p) = RewriteMap[s] \o After(p, s)
<1>1. \A q \in Fits(p) : q \in Path /\ IsPrefix(q, p) /\ Len(q) \in Nat
  <2> SUFFICES ASSUME NEW q \in Fits(p) PROVE q \in Path /\ IsPrefix(q, p) /\ Len(q) \in Nat
    OBVIOUS
  <2>1. q \in Path /\ (p = q \/ IsPrefix(q, p))
    BY DEF Fits
  <2>2. IsPrefix(p, p)
    BY PrefixIs DEF Path
  <2>3. QED BY <2>1, <2>2 DEF Path
<1>2. Longest(Fits(p)) \in Fits(p) /\ Len(s) <= Len(Longest(Fits(p)))
  BY <1>1, LongestIs
<1>3. Len(Longest(Fits(p))) = Len(s)
  BY <1>1, <1>2
<1>4. Longest(Fits(p)) = s
  <2>1. IsPrefix(s, Longest(Fits(p)))
    BY <1>1, <1>2, <1>3, PrefixesNest
  <2>2. QED BY <1>1, <1>2, <1>3, <2>1, PrefixWhole
<1>5. Fits(p) # {}
  OBVIOUS
<1>6. QED BY <1>4, <1>5 DEF RewritePath

-----------------------------------------------------------------------------
(* The invariant: what each phase leaves for the next ones.                 *)

Built      == {"cases", "assets", "prepare", "running"}
Checked    == pc \in Built \cup {"build"} \/ (pc = "discover" /\ ~request.rerun)
Discovered == pc \in Built \cup {"build"} \/ (pc = "validate" /\ request.rerun)

\* The names of assets, and their sources, are told apart, and every bind source looked
\* at so far is one of them.
AssetsInv ==
  /\ assets \in Seq([source : Dirs \cup Files, name : STRING])
  /\ index \in 1..(Len(request.mounts) + 1) /\ Len(assets) < index
  /\ \A i, j \in DOMAIN assets : i # j => assets[i].name # assets[j].name /\ assets[i].source # assets[j].source
  /\ request.kind # "plain" => \A i \in Binds(request.mounts) : i < index =>
       \E a \in DOMAIN assets : assets[a].source = Where(request.mounts[i].source)

PlanInv ==
  /\ pc \notin {"parse", "refused"} =>
       IF request.kind = "tasks" THEN GoodTasks /\ plan = TasksPlan ELSE GoodDataset /\ plan = DatasetPlan
  /\ Checked => \A i \in DOMAIN plan.ids : plan.at[plan.ids[i]] \in Dirs
  /\ Discovered => index = Len(request.mounts) + 1

YamlInv ==
  pc \in Built => /\ shard \subseteq DOMAIN plan.ids
                  /\ request.kind # "plain" => yaml = BatchYaml(Selected)

CopyInv ==
  /\ pc = "assets" => copies = CaseCopies
  /\ pc \in {"prepare", "running"} => copies = Onto(AssetCopies, CaseCopies)
  /\ pc = "running" => prepared = IF request.kind = "plain" THEN ConfigYaml ELSE [yaml EXCEPT !.jobs = JobsDir]

PathsInv == request \in Requests /\ AssetsInv /\ PlanInv /\ YamlInv /\ CopyInv

LEMMA RequestIs ==
  ASSUME request \in Requests
  PROVE  /\ request.kind \in {"datasets", "tasks", "plain"} /\ request.rerun \in BOOLEAN
         /\ request.path \in Spelling /\ request.paths \in Seq(Spelling) /\ request.selected \in Seq(STRING)
         /\ request.mounts \in Seq([type : STRING, source : Spelling, target : Spelling])
         /\ request.refs \in Seq(Spelling)
  BY YamlAssumption DEF Request

\* The first free number is found.
LEMMA FreshIs ==
  ASSUME request \in Requests, AssetsInv, index \in DOMAIN request.mounts, NEW p \in Dirs \cup Files
  PROVE  FreshName(Last(p)) \in STRING \ UsedNames
<1> DEFINE N == Len(assets)
           free == {k \in 1..(N + 1) : Numbered(Last(p), k) \notin UsedNames}
<1>1. N \in Nat /\ DOMAIN assets = 1..N /\ index \in Nat /\ N < index /\ 1..(N + 1) \subseteq DOMAIN request.mounts
  <2>1. N \in Nat /\ DOMAIN assets = 1..N /\ index \in Nat /\ N < index
    BY DEF AssetsInv
  <2>2. DOMAIN request.mounts = 1..Len(request.mounts) /\ Len(request.mounts) \in Nat
    BY RequestIs
  <2>3. QED BY <2>1, <2>2
<1>2. \A k \in 1..(N + 1) : /\ Numbered(Last(p), k) \in STRING
                            /\ \A j \in 1..(N + 1) : Numbered(Last(p), k) = Numbered(Last(p), j) => k = j
  BY <1>1, NumbersAssumption
<1>3. free # {}
  <2> SUFFICES ASSUME free = {} PROVE FALSE
    OBVIOUS
  <2> DEFINE f == [k \in 1..(N + 1) |-> CHOOSE i \in 1..N : assets[i].name = Numbered(Last(p), k)]
  <2>1. \A k \in 1..(N + 1) : f[k] \in 1..N /\ assets[f[k]].name = Numbered(Last(p), k)
    <3> SUFFICES ASSUME NEW k \in 1..(N + 1) PROVE f[k] \in 1..N /\ assets[f[k]].name = Numbered(Last(p), k)
      OBVIOUS
    <3>1. Numbered(Last(p), k) \in UsedNames
      OBVIOUS
    <3>2. \E i \in 1..N : assets[i].name = Numbered(Last(p), k)
      BY <1>1, <3>1 DEF UsedNames
    <3>3. QED BY <3>2
  <2>2. f \in [1..(N + 1) -> 1..N]
    BY <2>1
  <2>3. /\ IsFiniteSet(1..(N + 1)) /\ Cardinality(1..(N + 1)) = N + 1
        /\ IsFiniteSet(1..N) /\ Cardinality(1..N) = N
    <3>1. ASSUME NEW M \in Nat PROVE IsFiniteSet(1..M) /\ Cardinality(1..M) = M
      <4>1. IsFiniteSet(1..M) /\ Cardinality(1..M) = IF 1 > M THEN 0 ELSE M - 1 + 1
        BY FS_Interval
      <4>2. QED BY <4>1
    <3>2. QED BY <1>1, <3>1
  <2>4. PICK j, k \in 1..(N + 1) : j # k /\ f[j] = f[k]
    <3>1. Cardinality(1..N) < Cardinality(1..(N + 1))
      BY <1>1, <2>3
    <3> HIDE DEF f
    <3>2. \E j, k \in 1..(N + 1) : j # k /\ f[j] = f[k]
      BY <2>2, <2>3, <3>1, FS_PigeonHole
    <3>3. QED BY <3>2
  <2>5. QED BY <1>2, <2>1, <2>4
<1>4. PICK k \in free : \A j \in 1..(k - 1) : j \notin free
  <2>1. free \subseteq Nat
    BY <1>1
  <2>2. PICK k \in free : \A j \in free : <<j, k>> \notin OpToRel(<, Nat)
    BY <1>3, <2>1, WFMin, NatLessThanWellFounded
  <2>3. \A j \in 1..(k - 1) : <<j, k>> \in OpToRel(<, Nat)
    BY <1>1 DEF OpToRel
  <2>4. QED BY <2>2, <2>3
<1>5. \A j \in 1..(k - 1) : Numbered(Last(p), j) \in UsedNames
  BY <1>1, <1>4
<1>6. PICK m \in free : FreshName(Last(p)) = Numbered(Last(p), m)
  BY <1>4, <1>5 DEF FreshName
<1>7. QED BY <1>2, <1>6

-----------------------------------------------------------------------------
(* The steps.                                                               *)

LEMMA SameRequest ==
  ASSUME request' = request
  PROVE  /\ GoodTasks' <=> GoodTasks
         /\ TasksPlan' = TasksPlan
         /\ GoodDataset' <=> GoodDataset
         /\ DatasetPlan' = DatasetPlan
<1>1. (GoodTasks' <=> GoodTasks) /\ TasksPlan' = TasksPlan
  BY DEF GoodTasks, TasksPlan, RerunTask, CommonParent, TaskPath
<1>2. (GoodDataset' <=> GoodDataset) /\ DatasetPlan' = DatasetPlan
  BY DEF GoodDataset, DatasetPlan, Named, Limited
<1>3. QED BY <1>1, <1>2

LEMMA SameBatch ==
  ASSUME UNCHANGED <<request, plan, assets, shard>>
  PROVE  /\ BatchYaml(Selected)' = BatchYaml(Selected)
         /\ CaseCopies' = CaseCopies
         /\ AssetCopies' = AssetCopies
         /\ ConfigYaml' = ConfigYaml
<1>1. Selected' = Selected
  BY DEF Selected
<1>2. RewriteMap' = RewriteMap
  BY DEF RewriteMap
<1>3. BatchYaml(Selected)' = BatchYaml(Selected)
  BY <1>1, <1>2 DEF BatchYaml, Rewrite, RewritePath, Fits
<1>4. CaseCopies' = CaseCopies /\ ConfigYaml' = ConfigYaml
  BY <1>1 DEF CaseCopies, ConfigYaml
<1>5. AssetCopies' = AssetCopies
  BY DEF AssetCopies, BindCopies, BitfunCopies
<1>6. QED BY <1>3, <1>4, <1>5

LEMMA AssetsStay ==
  ASSUME AssetsInv, UNCHANGED <<request, index, assets>>
  PROVE  AssetsInv'
  BY DEF AssetsInv, Binds

LEMMA InitPaths ==
  ASSUME Init
  PROVE  PathsInv
<1>1. request \in Requests /\ pc = "parse" /\ index = 1 /\ assets = <<>>
  BY DEF Init
<1>2. AssetsInv
  <2>1. Len(request.mounts) \in Nat /\ DOMAIN request.mounts = 1..Len(request.mounts)
    BY <1>1, RequestIs
  <2>2. 1 \in 1..(Len(request.mounts) + 1) /\ \A i \in DOMAIN request.mounts : ~(i < 1)
    BY <2>1
  <2>3. assets \in Seq([source : Dirs \cup Files, name : STRING]) /\ Len(assets) = 0 /\ DOMAIN assets = {}
    BY <1>1, EmptySeq
  <2>4. QED BY <1>1, <2>2, <2>3 DEF AssetsInv, Binds
<1>3. PlanInv /\ YamlInv /\ CopyInv
  BY <1>1 DEF PlanInv, YamlInv, CopyInv, Built, Checked, Discovered
<1>4. QED BY <1>1, <1>2, <1>3 DEF PathsInv

LEMMA ParseStep ==
  ASSUME PathsInv, Parse
  PROVE  PathsInv'
<1>1. /\ UNCHANGED <<request, shard, yaml, copies, prepared, index, assets>>
      /\ pc' \in {"discover", "validate", "refused"}
      /\ pc' = "discover" => request.rerun
      /\ pc' = "validate" => ~request.rerun
      /\ pc' # "refused" => IF request.kind = "tasks" THEN GoodTasks /\ plan' = TasksPlan
                                                      ELSE GoodDataset /\ plan' = DatasetPlan
  BY DEF Parse, Refuse
<1>2. AssetsInv'
  BY <1>1, AssetsStay DEF PathsInv
<1>3. PlanInv'
  BY <1>1, SameRequest DEF PlanInv, Built, Checked, Discovered
<1>4. YamlInv' /\ CopyInv'
  BY <1>1 DEF YamlInv, CopyInv, Built
<1>5. QED BY <1>1, <1>2, <1>3, <1>4 DEF PathsInv

LEMMA ValidateStep ==
  ASSUME PathsInv, Validate
  PROVE  PathsInv'
<1>1. /\ UNCHANGED <<request, shard, yaml, copies, prepared, plan, index, assets>>
      /\ pc = "validate" /\ pc' \in {"discover", "build", "refused"}
      /\ pc' = "discover" => ~request.rerun
      /\ pc' = "build" => request.rerun
      /\ pc' # "refused" => \A i \in DOMAIN plan.ids : plan.at[plan.ids[i]] \in Dirs
  BY DEF Validate, Refuse
<1>2. AssetsInv'
  BY <1>1, AssetsStay DEF PathsInv
<1>3. PlanInv'
  BY <1>1, SameRequest DEF PathsInv, PlanInv, Built, Checked, Discovered
<1>4. YamlInv' /\ CopyInv'
  BY <1>1 DEF YamlInv, CopyInv, Built
<1>5. QED BY <1>1, <1>2, <1>3, <1>4 DEF PathsInv

\* A bind source that is new gets a name of its own.
LEMMA AssetAdded ==
  ASSUME request \in Requests, AssetsInv, index \in DOMAIN request.mounts, NEW p \in Dirs \cup Files,
         \A i \in DOMAIN assets : assets[i].source # p,
         request' = request, index' = index + 1,
         assets' = Append(assets, [source |-> p, name |-> FreshName(Last(p))]),
         Where(request.mounts[index].source) = p
  PROVE  AssetsInv'
<1> DEFINE N == Len(assets)
           new == [source |-> p, name |-> FreshName(Last(p))]
<1>1. /\ N \in Nat /\ DOMAIN assets = 1..N /\ index \in Nat /\ N < index
      /\ DOMAIN request.mounts = 1..Len(request.mounts) /\ Len(request.mounts) \in Nat
  BY RequestIs DEF AssetsInv
<1>2. new \in [source : Dirs \cup Files, name : STRING] /\ \A i \in DOMAIN assets : assets[i].name # new.name
  BY FreshIs DEF UsedNames
<1>3. /\ assets' \in Seq([source : Dirs \cup Files, name : STRING]) /\ Len(assets') = N + 1
      /\ assets'[N + 1] = new /\ DOMAIN assets' = 1..(N + 1)
      /\ \A i \in 1..N : assets'[i] = assets[i]
  <2> HIDE DEF new
  <2>1. assets \in Seq([source : Dirs \cup Files, name : STRING]) /\ assets' = Append(assets, new)
    BY DEF AssetsInv, new
  <2>2. QED BY <1>2, <2>1, AppendProperties
<1>4. index' \in 1..(Len(request'.mounts) + 1) /\ Len(assets') < index'
  BY <1>1, <1>3
<1>5. \A i, j \in DOMAIN assets' : i # j => assets'[i].name # assets'[j].name /\ assets'[i].source # assets'[j].source
  <2>1. \A i \in DOMAIN assets' : i = N + 1 \/ i \in DOMAIN assets
    BY <1>1, <1>3
  <2>2. new.source = p
    OBVIOUS
  <2> HIDE DEF new
  <2>3. QED BY <1>1, <1>2, <1>3, <2>1, <2>2 DEF AssetsInv
<1>6. request'.kind # "plain" => \A i \in Binds(request'.mounts) : i < index' =>
        \E a \in DOMAIN assets' : assets'[a].source = Where(request'.mounts[i].source)
  <2> SUFFICES ASSUME request.kind # "plain", NEW i \in Binds(request.mounts), i < index + 1
               PROVE  \E a \in DOMAIN assets' : assets'[a].source = Where(request.mounts[i].source)
    BY DEF Binds
  <2>1. CASE i < index
    <3>1. PICK a \in DOMAIN assets : assets[a].source = Where(request.mounts[i].source)
      BY <2>1 DEF AssetsInv
    <3>2. QED BY <1>1, <1>3, <3>1
  <2>2. CASE i = index
    <3>1. N + 1 \in DOMAIN assets'
      BY <1>1, <1>3
    <3>2. QED BY <1>3, <2>2, <3>1
  <2>3. i \in Nat
    BY <1>1 DEF Binds
  <2>4. QED BY <1>1, <2>1, <2>2, <2>3
<1>7. QED BY <1>3, <1>4, <1>5, <1>6 DEF AssetsInv

LEMMA IndexMoves ==
  ASSUME request \in Requests, AssetsInv, index \in DOMAIN request.mounts,
         UNCHANGED <<request, assets>>, index' = index + 1,
         request.kind # "plain" /\ index \in Binds(request.mounts) =>
           \E a \in DOMAIN assets : assets[a].source = Where(request.mounts[index].source)
  PROVE  AssetsInv'
<1>1. /\ DOMAIN request.mounts = 1..Len(request.mounts) /\ Len(request.mounts) \in Nat
      /\ Len(assets) \in Nat /\ index \in Nat
  BY RequestIs DEF AssetsInv
<1>2. index' \in 1..(Len(request'.mounts) + 1) /\ Len(assets') < index'
  BY <1>1 DEF AssetsInv
<1>3. \A i \in DOMAIN request.mounts : i < index + 1 => i < index \/ i = index
  BY <1>1
<1>4. request'.kind # "plain" => \A i \in Binds(request'.mounts) : i < index' =>
        \E a \in DOMAIN assets' : assets'[a].source = Where(request'.mounts[i].source)
  BY <1>3 DEF AssetsInv, Binds
<1>5. QED BY <1>2, <1>4 DEF AssetsInv

LEMMA DiscoverStep ==
  ASSUME PathsInv, DiscoverMount
  PROVE  PathsInv'
<1> DEFINE mount  == request.mounts[index]
           source == Where(mount.source)
<1>1. /\ UNCHANGED <<request, shard, yaml, copies, prepared, plan>>
      /\ pc = "discover" /\ pc' \in {"discover", "refused"} /\ index \in DOMAIN request.mounts
  BY DEF DiscoverMount, Refuse
<1>2. AssetsInv'
  <2>1. CASE index' = index + 1 /\ assets' = assets /\ (mount.type # "bind" \/ request.kind = "plain")
    BY <1>1, <2>1, IndexMoves DEF PathsInv, Binds
  <2>2. CASE /\ index' = index + 1 /\ Exists(source)
             /\ assets' = IF \E i \in DOMAIN assets : assets[i].source = source THEN assets
                          ELSE Append(assets, [source |-> source, name |-> FreshName(Last(source))])
    <3>1. CASE \E i \in DOMAIN assets : assets[i].source = source
      BY <1>1, <2>2, <3>1, IndexMoves DEF PathsInv
    <3>2. CASE ~\E i \in DOMAIN assets : assets[i].source = source
      BY <1>1, <2>2, <3>2, AssetAdded DEF PathsInv, Exists
    <3>3. QED BY <3>1, <3>2
  <2>3. CASE UNCHANGED <<index, assets>>
    BY <1>1, <2>3, AssetsStay DEF PathsInv
  <2>4. QED BY <2>1, <2>2, <2>3 DEF DiscoverMount, Refuse
<1>3. PlanInv'
  BY <1>1, SameRequest DEF PathsInv, PlanInv, Built, Checked, Discovered
<1>4. YamlInv' /\ CopyInv'
  BY <1>1 DEF YamlInv, CopyInv, Built
<1>5. QED BY <1>1, <1>2, <1>3, <1>4 DEF PathsInv

LEMMA EndDiscoveryStep ==
  ASSUME PathsInv, EndDiscovery
  PROVE  PathsInv'
<1>1. /\ UNCHANGED <<request, shard, yaml, copies, prepared, plan, index, assets>>
      /\ pc = "discover" /\ pc' = (IF request.rerun THEN "validate" ELSE "build")
      /\ index \notin DOMAIN request.mounts
  BY DEF EndDiscovery
<1>2. AssetsInv'
  BY <1>1, AssetsStay DEF PathsInv
<1>3. index = Len(request.mounts) + 1
  <2>1. DOMAIN request.mounts = 1..Len(request.mounts) /\ Len(request.mounts) \in Nat
    BY RequestIs DEF PathsInv
  <2>2. QED BY <1>1, <2>1 DEF PathsInv, AssetsInv
<1>4. PlanInv'
  BY <1>1, <1>3, SameRequest DEF PathsInv, PlanInv, Built, Checked, Discovered
<1>5. YamlInv' /\ CopyInv'
  BY <1>1 DEF YamlInv, CopyInv, Built
<1>6. QED BY <1>1, <1>2, <1>4, <1>5 DEF PathsInv

LEMMA BuildStep ==
  ASSUME PathsInv, Build
  PROVE  PathsInv'
<1>1. /\ UNCHANGED <<request, copies, prepared, plan, index, assets>>
      /\ pc = "build" /\ pc' = "cases" /\ shard' \subseteq DOMAIN plan.ids
      /\ yaml' = IF request.kind = "plain" THEN NoYaml ELSE BatchYaml({plan.ids[i] : i \in shard'})
  BY DEF Build
<1>2. AssetsInv'
  BY <1>1, AssetsStay DEF PathsInv
<1>3. PlanInv'
  BY <1>1, SameRequest DEF PathsInv, PlanInv, Built, Checked, Discovered
<1>4. BatchYaml(Selected)' = BatchYaml({plan.ids[i] : i \in shard'})
  <2>1. RewriteMap' = RewriteMap
    BY <1>1 DEF RewriteMap
  <2>2. PICK ids : ids = {plan.ids[i] : i \in shard'}
    OBVIOUS
  <2>3. Selected' = ids /\ UNCHANGED <<request, plan, assets>>
    BY <1>1, <2>2 DEF Selected
  <2>4. BatchYaml(Selected)' = BatchYaml(ids)
    BY <2>1, <2>3 DEF BatchYaml, Rewrite, RewritePath, Fits
  <2>5. QED BY <2>2, <2>4
<1>5. YamlInv' /\ CopyInv'
  BY <1>1, <1>4 DEF YamlInv, CopyInv
<1>6. QED BY <1>1, <1>2, <1>3, <1>5 DEF PathsInv

LEMMA SyncStep ==
  ASSUME PathsInv, SyncCases \/ SyncAssets
  PROVE  PathsInv'
<1>1. /\ UNCHANGED <<request, plan, index, assets, shard, yaml, prepared>>
      /\ \/ pc = "cases" /\ pc' = "assets" /\ copies' = CaseCopies
         \/ pc = "assets" /\ pc' = "prepare" /\ copies' = Onto(AssetCopies, copies)
  BY DEF SyncCases, SyncAssets
<1>2. AssetsInv'
  BY <1>1, AssetsStay DEF PathsInv
<1>3. PlanInv'
  BY <1>1, SameRequest DEF PathsInv, PlanInv, Built, Checked, Discovered
<1>4. YamlInv'
  BY <1>1, SameBatch DEF PathsInv, YamlInv, Built
<1>5. CopyInv'
  <2>1. CaseCopies' = CaseCopies /\ AssetCopies' = AssetCopies
    BY <1>1, SameBatch
  <2>2. Onto(AssetCopies, CaseCopies)' = Onto(AssetCopies, CaseCopies)
    BY <2>1 DEF Onto
  <2>3. QED BY <1>1, <2>1, <2>2 DEF PathsInv, CopyInv
<1>6. QED BY <1>1, <1>2, <1>3, <1>4, <1>5 DEF PathsInv

LEMMA PrepareStep ==
  ASSUME PathsInv, PrepareFromYaml \/ PrepareFromConfig
  PROVE  PathsInv'
<1>1. /\ UNCHANGED <<request, plan, index, assets, shard, yaml, copies>>
      /\ pc = "prepare" /\ pc' \in {"running", "failed"}
      /\ pc' = "running" =>
           prepared' = IF request.kind = "plain" THEN ConfigYaml ELSE [yaml EXCEPT !.jobs = JobsDir]
  BY DEF PrepareFromYaml, PrepareFromConfig
<1>2. AssetsInv'
  BY <1>1, AssetsStay DEF PathsInv
<1>3. PlanInv'
  BY <1>1, SameRequest DEF PathsInv, PlanInv, Built, Checked, Discovered
<1>4. YamlInv'
  BY <1>1, SameBatch DEF PathsInv, YamlInv, Built
<1>5. CopyInv'
  <2>1. CaseCopies' = CaseCopies /\ AssetCopies' = AssetCopies /\ ConfigYaml' = ConfigYaml
    BY <1>1, SameBatch
  <2>2. Onto(AssetCopies, CaseCopies)' = Onto(AssetCopies, CaseCopies)
    BY <2>1 DEF Onto
  <2>3. QED BY <1>1, <2>1, <2>2 DEF PathsInv, CopyInv
<1>6. QED BY <1>1, <1>2, <1>3, <1>4, <1>5 DEF PathsInv

LEMMA PathsStep ==
  ASSUME PathsInv, [Next]_vars
  PROVE  PathsInv'
<1>1. CASE UNCHANGED vars
  <2>1. AssetsInv'
    BY <1>1, AssetsStay DEF PathsInv, vars
  <2>2. PlanInv'
    BY <1>1, SameRequest DEF PathsInv, PlanInv, Checked, Discovered, vars
  <2>3. YamlInv'
    BY <1>1, SameBatch DEF PathsInv, YamlInv, vars
  <2>4. CopyInv'
    <3>1. CaseCopies' = CaseCopies /\ AssetCopies' = AssetCopies /\ ConfigYaml' = ConfigYaml
      BY <1>1, SameBatch DEF vars
    <3>2. Onto(AssetCopies, CaseCopies)' = Onto(AssetCopies, CaseCopies)
      BY <3>1 DEF Onto
    <3>3. QED BY <1>1, <3>1, <3>2 DEF PathsInv, CopyInv, vars
  <2>5. QED BY <1>1, <2>1, <2>2, <2>3, <2>4 DEF PathsInv, vars
<1>2. CASE Ended
  BY <1>1, <1>2 DEF Ended
<1>3. QED
  BY <1>1, <1>2, ParseStep, ValidateStep, DiscoverStep, EndDiscoveryStep, BuildStep, SyncStep, PrepareStep DEF Next

-----------------------------------------------------------------------------
(* What a batch that runs was given.                                        *)

LEMMA FilesAre ==
  ASSUME NEW p \in Dirs \cup Files
  PROVE  p \in Path /\ p # <<>> /\ Len(p) \in Nat \ {0} /\ Last(p) \in STRING /\ Last(p) \in Word
<1>1. p \in Seq(STRING) /\ p # <<>>
  BY YamlAssumption
<1>2. Len(p) \in Nat \ {0} /\ p[Len(p)] \in STRING
  BY <1>1, EmptySeq
<1>3. QED BY <1>1, <1>2, PathsAre DEF Last, Word

\* What follows a directory in a path that exists is a name.
LEMMA ChildIs ==
  ASSUME NEW d \in Dirs \cup Files, NEW n, Append(d, n) \in Dirs
  PROVE  n \in STRING
<1> DEFINE S == STRING \cup {n}
<1>1. d \in Seq(STRING) /\ Append(d, n) \in Seq(STRING)
  BY YamlAssumption
<1>2. d \in Seq(S)
  BY <1>1, SeqMonotonic
<1>3. Len(Append(d, n)) = Len(d) + 1 /\ Append(d, n)[Len(d) + 1] = n /\ Len(d) \in Nat
  BY <1>2, AppendProperties
<1>4. Len(d) + 1 \in 1..Len(Append(d, n))
  BY <1>3
<1>5. QED BY <1>1, <1>3, <1>4

LEMMA TaskPathIs ==
  ASSUME request \in Requests, NEW i \in DOMAIN request.paths
  PROVE  TaskPath(i) \in Path
<1>1. request.paths[i] \in Spelling
  BY RequestIs
<1>2. QED BY <1>1, WhereIs DEF TaskPath

\* The common directory of the entries of a rerun is a path.
LEMMA CommonIs ==
  ASSUME request \in Requests, request.paths # <<>>,
         \A i \in DOMAIN request.paths : TaskPath(i) \in Dirs
  PROVE  CommonParent \in Path
<1> DEFINE above == UNION {{SubSeq(TaskPath(i), 1, k) : k \in 0..(Len(TaskPath(i)) - 1)} : i \in DOMAIN request.paths}
           shared == {p \in above : \A i \in DOMAIN request.paths : IsPrefix(p, Front(TaskPath(i)))}
<1>1. 1 \in DOMAIN request.paths
  BY RequestIs, EmptySeq
<1>2. ASSUME NEW i \in DOMAIN request.paths, NEW k \in 0..(Len(TaskPath(i)) - 1)
      PROVE  SubSeq(TaskPath(i), 1, k) \in Path /\ Len(SubSeq(TaskPath(i), 1, k)) = k
  <2>1. TaskPath(i) \in Path /\ Len(TaskPath(i)) \in Nat
    BY FilesAre
  <2>2. k \in Nat /\ k <= Len(TaskPath(i)) /\ \A j \in 1..k : TaskPath(i)[j] \in Word
    BY <2>1 DEF Path
  <2>3. /\ SubSeq(TaskPath(i), 1, k) \in Seq(Word)
        /\ Len(SubSeq(TaskPath(i), 1, k)) = IF 1 <= k THEN k - 1 + 1 ELSE 0
    BY <2>2, SubSeqProperties
  <2>4. QED BY <2>2, <2>3 DEF Path
<1>3. \A i \in DOMAIN request.paths : /\ Front(TaskPath(i)) \in Path
                                      /\ 0 \in 0..(Len(TaskPath(i)) - 1)
                                      /\ Len(TaskPath(i)) - 1 \in 0..(Len(TaskPath(i)) - 1)
  <2> SUFFICES ASSUME NEW i \in DOMAIN request.paths
               PROVE  /\ Front(TaskPath(i)) \in Path /\ 0 \in 0..(Len(TaskPath(i)) - 1)
                      /\ Len(TaskPath(i)) - 1 \in 0..(Len(TaskPath(i)) - 1)
    OBVIOUS
  <2>1. Len(TaskPath(i)) \in Nat \ {0}
    BY FilesAre
  <2>2. QED BY <1>2, <2>1 DEF Front
<1>4. shared \subseteq Path
  <2> SUFFICES ASSUME NEW p \in above PROVE p \in Path
    OBVIOUS
  <2>1. PICK i \in DOMAIN request.paths : p \in {SubSeq(TaskPath(i), 1, k) : k \in 0..(Len(TaskPath(i)) - 1)}
    OBVIOUS
  <2>2. PICK k \in 0..(Len(TaskPath(i)) - 1) : p = SubSeq(TaskPath(i), 1, k)
    BY <2>1
  <2>3. QED BY <1>2, <2>2
<1>5. SubSeq(TaskPath(1), 1, 0) \in shared
  <2>1. SubSeq(TaskPath(1), 1, 0) \in above
    BY <1>1, <1>3
  <2>2. SubSeq(TaskPath(1), 1, 0) \in Path /\ Len(SubSeq(TaskPath(1), 1, 0)) = 0
    BY <1>1, <1>2, <1>3
  <2>3. \A q \in Path : IsPrefix(SubSeq(TaskPath(1), 1, 0), q)
    <3> SUFFICES ASSUME NEW q \in Path PROVE IsPrefix(SubSeq(TaskPath(1), 1, 0), q)
      OBVIOUS
    <3>1. PICK e \in Path : e = SubSeq(TaskPath(1), 1, 0) /\ Len(e) = 0
      BY <2>2
    <3>2. Len(q) \in Nat
      BY DEF Path
    <3>3. Len(e) <= Len(q) /\ \A i \in 1..Len(e) : e[i] = q[i]
      BY <3>1, <3>2
    <3>4. IsPrefix(e, q)
      BY <3>3, PrefixIs
    <3>5. QED BY <3>1, <3>4
  <2>4. QED BY <1>3, <2>1, <2>3
<1>6. Longest(shared) \in shared
  <2>1. shared # {} /\ Front(TaskPath(1)) \in Path /\ \A q \in shared : IsPrefix(q, Front(TaskPath(1)))
    BY <1>1, <1>3, <1>5
  <2>2. QED BY <1>4, <2>1, LongestIs
<1>7. Real(Longest(shared)) \in Path
  BY <1>4, <1>6, RealIs
<1>8. QED BY <1>7 DEF CommonParent

LEMMA RefIs ==
  ASSUME PathsInv, pc \in Built
  PROVE  plan.ref \in Path
<1>1. pc \notin {"parse", "refused"} /\ request \in Requests
  BY DEF Built, PathsInv
<1>2. CASE request.kind # "tasks"
  <2>1. plan.ref = Where(request.path)
    BY <1>1, <1>2 DEF PathsInv, PlanInv, DatasetPlan
  <2>2. QED BY <1>1, <2>1, WhereIs, RequestIs
<1>3. CASE request.kind = "tasks"
  <2>1. GoodTasks /\ plan = TasksPlan
    BY <1>1, <1>3 DEF PathsInv, PlanInv
  <2>2. CASE request.rerun
    <3>1. plan.ref = CommonParent
      BY <2>1, <2>2 DEF TasksPlan
    <3>2. QED BY <1>1, <2>1, <2>2, <3>1, CommonIs DEF GoodTasks
  <2>3. CASE ~request.rerun
    <3>1. plan.ref = TaskPath(1) /\ request.paths # <<>>
      BY <2>1, <2>3 DEF TasksPlan, GoodTasks
    <3>2. 1 \in DOMAIN request.paths
      BY <1>1, <3>1, RequestIs, EmptySeq
    <3>3. QED BY <1>1, <3>1, <3>2, TaskPathIs
  <2>4. QED BY <2>2, <2>3
<1>4. QED BY <1>2, <1>3

\* The tasks of the batch are where the plan has them.
LEMMA NamedIs ==
  ASSUME PathsInv, pc \in Built, NEW n \in Selected
  PROVE  /\ n \in Word /\ n \in ToSet(plan.ids) /\ plan.at[n] \in Dirs
         /\ request.kind # "tasks" => plan.ref = Where(request.path) /\ plan.at[n] = Append(plan.ref, n)
<1>1. pc \notin {"parse", "refused"} /\ Checked /\ request \in Requests
  BY DEF Built, Checked, PathsInv
<1>2. PICK i \in DOMAIN plan.ids : n = plan.ids[i]
  BY DEF Selected, PathsInv, YamlInv
<1>3. n \in ToSet(plan.ids) /\ plan.at[n] \in Dirs
  BY <1>1, <1>2 DEF ToSet, PathsInv, PlanInv
<1>4. CASE request.kind # "tasks"
  <2>1. GoodDataset /\ plan = DatasetPlan
    BY <1>1, <1>4 DEF PathsInv, PlanInv
  <2>2. plan.ref = Where(request.path) /\ plan.ref \in Dirs
    BY <2>1 DEF DatasetPlan, GoodDataset
  <2>3. plan.at[n] = Append(plan.ref, n)
    BY <1>3, <2>1 DEF DatasetPlan
  <2>4. n \in STRING
    BY <1>3, <2>2, <2>3, ChildIs
  <2>5. QED BY <1>3, <2>2, <2>3, <2>4 DEF Word
<1>5. CASE request.kind = "tasks"
  <2>1. GoodTasks /\ plan = TasksPlan
    BY <1>1, <1>5 DEF PathsInv, PlanInv
  <2>2. CASE request.rerun
    <3>1. n \in ToSet(request.selected)
      BY <1>3, <2>1, <2>2 DEF TasksPlan
    <3>2. n \in STRING
      BY <1>1, <3>1, RequestIs DEF ToSet
    <3>3. QED BY <1>3, <1>5, <3>2 DEF Word
  <2>3. CASE ~request.rerun
    <3>1. i \in DOMAIN request.paths /\ n = Last(TaskPath(i))
      BY <1>2, <2>1, <2>3 DEF TasksPlan
    <3>2. TaskPath(i) \in Dirs \cup Files
      BY <2>1, <2>3, <3>1 DEF GoodTasks, Exists
    <3>3. QED BY <1>3, <1>5, <3>1, <3>2, FilesAre
  <2>4. QED BY <2>2, <2>3
<1>6. QED BY <1>4, <1>5

LEMMA AssetIs ==
  ASSUME PathsInv, NEW a \in DOMAIN assets
  PROVE  assets[a].source \in Dirs \cup Files /\ assets[a].source \in Path /\ assets[a].name \in Word
<1>1. assets[a].source \in Dirs \cup Files /\ assets[a].name \in STRING
  <2>1. assets \in Seq([source : Dirs \cup Files, name : STRING])
    BY DEF PathsInv, AssetsInv
  <2>2. ASSUME NEW X, NEW s \in Seq(X), NEW i \in DOMAIN s PROVE s[i] \in X
    OBVIOUS
  <2>3. assets[a] \in [source : Dirs \cup Files, name : STRING]
    BY <2>1, <2>2
  <2>4. QED BY <2>3
<1>2. QED BY <1>1, FilesAre DEF Word

LEMMA KindsDiffer ==
  {"dataset", "assets", "bitfun"} \subseteq Word /\ "dataset" # "assets" /\ "dataset" # "bitfun"
  BY DEF Word

\* The copies of the sync: each selected task and each asset, at its slot.
LEMMA CopiesAre ==
  ASSUME PathsInv, pc = "running"
  PROVE  /\ \A t \in DOMAIN copies : \E e, m \in Word : t = Slot(e, m)
         /\ \A n \in Selected : /\ Slot("dataset", n) \in DOMAIN copies
                                /\ copies[Slot("dataset", n)] = plan.at[n]
         /\ request.kind # "plain" => \A a \in DOMAIN assets :
              /\ Slot("assets", assets[a].name) \in DOMAIN copies
              /\ copies[Slot("assets", assets[a].name)] = assets[a].source
<1>1. pc \in Built /\ copies = Onto(AssetCopies, CaseCopies)
  BY DEF PathsInv, CopyInv, Built
<1>2. DOMAIN copies = DOMAIN AssetCopies \cup DOMAIN CaseCopies
  BY <1>1 DEF Onto
<1>3. DOMAIN CaseCopies = {Slot("dataset", n) : n \in Selected}
  <2>1. \A n \in Selected : Append(DatasetDir, n) = Slot("dataset", n)
    BY <1>1, NamedIs, CaseSlot
  <2>2. QED BY <2>1 DEF CaseCopies
<1>4. ASSUME NEW n \in Selected PROVE CaseCopies[Slot("dataset", n)] = plan.at[n]
  <2>1. Last(Slot("dataset", n)) = n
    BY <1>1, NamedIs, SlotIs, KindsDiffer
  <2>2. Slot("dataset", n) \in {Append(DatasetDir, m) : m \in Selected}
    BY <1>1, NamedIs, CaseSlot
  <2>3. CaseCopies[Slot("dataset", n)] = IF request.kind = "tasks" THEN plan.at[n] ELSE Append(plan.ref, n)
    BY <2>1, <2>2 DEF CaseCopies
  <2>4. QED BY <1>1, <2>3, NamedIs
<1>5. CASE request.kind # "plain"
  <2>1. AssetCopies = BindCopies /\ DOMAIN BindCopies = {Slot("assets", assets[a].name) : a \in DOMAIN assets}
    BY <1>5, AssetSlot DEF AssetCopies, BindCopies
  <2>2. ASSUME NEW a \in DOMAIN assets PROVE BindCopies[Slot("assets", assets[a].name)] = assets[a].source
    <3> DEFINE t == Slot("assets", assets[a].name)
               last == CHOOSE i \in DOMAIN assets :
                         /\ AssetPath(assets[i].name) = t
                         /\ \A j \in DOMAIN assets : AssetPath(assets[j].name) = t => j <= i
    <3>1. \A i \in DOMAIN assets : AssetPath(assets[i].name) = t => i = a
      <4> SUFFICES ASSUME NEW i \in DOMAIN assets, AssetPath(assets[i].name) = t PROVE i = a
        OBVIOUS
      <4>1. Slot("assets", assets[i].name) = Slot("assets", assets[a].name)
        BY AssetSlot
      <4>2. assets[i].name = assets[a].name
        BY <4>1, SlotsDiffer, AssetIs, KindsDiffer
      <4>3. QED BY <4>2 DEF PathsInv, AssetsInv
    <3>2. AssetPath(assets[a].name) = t /\ a <= a
      BY AssetSlot DEF PathsInv, AssetsInv
    <3>3. last = a
      BY <3>1, <3>2
    <3>4. t \in {AssetPath(assets[i].name) : i \in DOMAIN assets}
      BY <3>2
    <3>5. BindCopies[t] = assets[last].source
      BY <3>4 DEF BindCopies
    <3>6. QED BY <3>3, <3>5
  <2>3. \A t \in DOMAIN copies : \E e, m \in Word : t = Slot(e, m)
    BY <1>1, <1>2, <1>3, <2>1, NamedIs, AssetIs, KindsDiffer
  <2>4. ASSUME NEW n \in Selected
        PROVE  Slot("dataset", n) \in DOMAIN copies /\ copies[Slot("dataset", n)] = plan.at[n]
    <3>1. Slot("dataset", n) \notin DOMAIN AssetCopies
      BY <1>1, <2>1, NamedIs, AssetIs, KindsDiffer, SlotsDiffer
    <3>2. QED BY <1>1, <1>3, <1>4, <3>1 DEF Onto
  <2>5. QED BY <1>1, <2>1, <2>2, <2>3, <2>4 DEF Onto
<1>6. CASE request.kind = "plain"
  <2>1. \A t \in DOMAIN AssetCopies : \E m \in Word : t = Slot("bitfun", m)
    <3>1. CASE request.rerun
      <4>1. AssetCopies = BitfunCopies /\ {"bitfun-cli", "config"} \subseteq Word
        BY <1>6, <3>1 DEF AssetCopies, Word
      <4>2. DOMAIN BitfunCopies = {Slot("bitfun", n) : n \in {"bitfun-cli", "config"}}
        BY DEF BitfunCopies, Slot
      <4>3. QED BY <4>1, <4>2
    <3>2. CASE ~request.rerun
      <4>1. AssetCopies = <<>>
        BY <1>6, <3>2 DEF AssetCopies
      <4>2. QED BY <4>1
    <3>3. QED BY <3>1, <3>2
  <2>2. \A t \in DOMAIN copies : \E e, m \in Word : t = Slot(e, m)
    BY <1>1, <1>2, <1>3, <2>1, NamedIs, KindsDiffer
  <2>3. ASSUME NEW n \in Selected
        PROVE  Slot("dataset", n) \in DOMAIN copies /\ copies[Slot("dataset", n)] = plan.at[n]
    <3>1. Slot("dataset", n) \notin DOMAIN AssetCopies
      BY <1>1, <2>1, NamedIs, KindsDiffer, SlotsDiffer
    <3>2. QED BY <1>1, <1>3, <1>4, <3>1 DEF Onto
  <2>4. QED BY <1>6, <2>2, <2>3
<1>7. QED BY <1>5, <1>6

-----------------------------------------------------------------------------
(* Where the paths lead.                                                    *)

LEMMA MapIs ==
  ASSUME PathsInv, pc \in Built
  PROVE  /\ DOMAIN RewriteMap = {assets[a].source : a \in DOMAIN assets} \cup {plan.ref}
         /\ DOMAIN RewriteMap \subseteq Path
         /\ \A a \in DOMAIN assets : RewriteMap[assets[a].source] = Slot("assets", assets[a].name)
         /\ (\A a \in DOMAIN assets : assets[a].source # plan.ref) => RewriteMap[plan.ref] = DatasetDir
<1>1. DOMAIN RewriteMap = {assets[a].source : a \in DOMAIN assets} \cup {plan.ref}
  BY DEF RewriteMap
<1>2. DOMAIN RewriteMap \subseteq Path
  BY <1>1, RefIs, AssetIs
<1>3. ASSUME NEW a \in DOMAIN assets PROVE RewriteMap[assets[a].source] = Slot("assets", assets[a].name)
  <2> DEFINE p == assets[a].source
  <2>1. (CHOOSE i \in DOMAIN assets : assets[i].source = p) = a
    <3>1. \A i \in DOMAIN assets : assets[i].source = p => i = a
      BY DEF PathsInv, AssetsInv
    <3>2. QED BY <3>1
  <2>2. RewriteMap[p] = AssetPath(assets[CHOOSE i \in DOMAIN assets : assets[i].source = p].name)
    BY <1>1 DEF RewriteMap
  <2>3. QED BY <2>1, <2>2, AssetSlot
<1>4. (\A a \in DOMAIN assets : assets[a].source # plan.ref) => RewriteMap[plan.ref] = DatasetDir
  BY DEF RewriteMap
<1>5. QED BY <1>1, <1>2, <1>3, <1>4

\* The path of a case on the worker is left as it is.
LEMMA CaseKept ==
  ASSUME PathsInv, pc \in Built, Clear, NEW n \in Word
  PROVE  RewritePath(Slot("dataset", n)) = Slot("dataset", n)
<1> DEFINE p == Slot("dataset", n)
<1>1. p \in Path /\ IsPrefix(SyncRoot, p) /\ Len(p) = Len(SyncRoot) + 2
  BY SlotIs, KindsDiffer
<1>2. SyncRoot \in Path /\ Len(SyncRoot) \in Nat
  BY SyncRootIs
<1>3. ASSUME NEW s \in Fits(p) PROVE FALSE
  <2>1. s \in DOMAIN RewriteMap /\ s \in Path /\ Len(s) \in Nat
    BY <1>3, MapIs DEF Fits, Path
  <2>2. IsPrefix(s, p)
    <3>1. IsPrefix(p, p)
      BY <1>1, <1>2, PrefixIs
    <3>2. QED BY <1>3, <3>1 DEF Fits
  <2>3. s # <<>>
    <3>1. p # <<>>
      BY <1>1, <1>2
    <3>2. QED BY <1>3, <3>1 DEF Fits
  <2>4. CASE Len(s) <= Len(SyncRoot)
    BY <1>1, <1>2, <2>1, <2>2, <2>3, <2>4, PrefixesNest DEF Clear
  <2>5. CASE Len(SyncRoot) <= Len(s)
    BY <1>1, <1>2, <2>1, <2>2, <2>3, <2>5, PrefixesNest DEF Clear
  <2>6. QED BY <1>2, <2>1, <2>4, <2>5
<1>4. Fits(p) = {}
  BY <1>3
<1>5. QED BY <1>4 DEF RewritePath

\* Where the plan has a task is what the request may mean by it.
LEMMA MeantIs ==
  ASSUME PathsInv, pc \in Built, FromEntries, NEW n \in Selected
  PROVE  plan.at[n] \in Meant(n)
<1>1. pc \notin {"parse", "refused"} /\ request \in Requests /\ n \in ToSet(plan.ids)
  BY NamedIs DEF Built, PathsInv
<1>2. CASE request.kind # "tasks"
  BY <1>2, NamedIs DEF Meant
<1>3. CASE request.kind = "tasks"
  <2>1. GoodTasks /\ plan = TasksPlan
    BY <1>1, <1>3 DEF PathsInv, PlanInv
  <2>2. ASSUME NEW i \in DOMAIN request.paths, Last(TaskPath(i)) = n PROVE TaskPath(i) \in Meant(n)
    BY <1>3, <2>2 DEF Meant
  <2>3. CASE request.rerun
    <3> DEFINE same == {i \in DOMAIN request.paths : Last(TaskPath(i)) = n}
    <3>1. n \in ToSet(request.selected)
      BY <1>1, <2>1, <2>3 DEF TasksPlan
    <3>2. same # {}
      BY <1>3, <2>3, <3>1 DEF FromEntries
    <3>3. \E i \in same : \A j \in same : j <= i
      <4>1. same \subseteq 1..Len(request.paths) /\ Len(request.paths) \in Nat
        BY <1>1, RequestIs
      <4>2. QED BY <3>2, <4>1, LargestIs
    <3>4. RerunTask(n) = TaskPath(CHOOSE i \in same : \A j \in same : j <= i)
      BY <3>2 DEF RerunTask
    <3>5. PICK i \in same : RerunTask(n) = TaskPath(i)
      BY <3>3, <3>4
    <3>6. plan.at[n] = RerunTask(n)
      BY <2>1, <2>3, <3>1 DEF TasksPlan
    <3>7. QED BY <2>2, <3>5, <3>6
  <2>4. CASE ~request.rerun
    <3> DEFINE ids == [i \in DOMAIN request.paths |-> Last(TaskPath(i))]
    <3>1. /\ plan.ids = ids
          /\ plan.at = [m \in ToSet(ids) |-> TaskPath(CHOOSE i \in DOMAIN ids : ids[i] = m)]
      BY <2>1, <2>4 DEF TasksPlan
    <3>2. PICK i \in DOMAIN ids : ids[i] = n
      BY <1>1, <3>1 DEF ToSet
    <3>3. plan.at[n] = TaskPath(CHOOSE j \in DOMAIN ids : ids[j] = n)
      BY <1>1, <3>1
    <3>4. PICK j \in DOMAIN ids : ids[j] = n /\ plan.at[n] = TaskPath(j)
      BY <3>2, <3>3
    <3>5. QED BY <2>2, <3>4
  <2>5. QED BY <2>3, <2>4
<1>4. QED BY <1>2, <1>3

LEMMA TasksIs ==
  ASSUME PathsInv, Clear, FromEntries
  PROVE  TasksAreThere
<1> SUFFICES ASSUME pc = "running", NEW n \in Selected
             PROVE  \E p \in Meant(n) : Content(prepared.tasks[n]) = OnController(p)
  BY DEF TasksAreThere
<1>1. pc \in Built
  BY DEF Built
<1>2. n \in Word /\ plan.at[n] \in Path /\ Append(DatasetDir, n) = Slot("dataset", n)
  BY <1>1, NamedIs, FilesAre, CaseSlot
<1>3. prepared.tasks[n] = Slot("dataset", n)
  <2>1. CASE request.kind = "plain"
    <3>1. prepared = ConfigYaml
      BY <2>1 DEF PathsInv, CopyInv
    <3>2. QED BY <1>2, <3>1 DEF ConfigYaml
  <2>2. CASE request.kind # "plain"
    <3>1. prepared.tasks = BatchYaml(Selected).tasks
      <4>1. prepared = [yaml EXCEPT !.jobs = JobsDir] /\ yaml = BatchYaml(Selected)
        BY <1>1, <2>2 DEF PathsInv, CopyInv, YamlInv
      <4>2. QED BY <4>1 DEF BatchYaml
    <3>2. prepared.tasks[n] = RewritePath(Append(DatasetDir, n))
      BY <3>1 DEF BatchYaml
    <3>3. QED BY <1>1, <1>2, <3>2, CaseKept
  <2>3. QED BY <2>1, <2>2
<1>4. Content(Slot("dataset", n)) = OnController(plan.at[n])
  BY <1>2, CopiesAre, ContentAt, KindsDiffer
<1>5. QED BY <1>1, <1>3, <1>4, MeantIs

\* What a string that spells a path below an asset becomes leads to that path.
LEMMA BelowAsset ==
  ASSUME PathsInv, pc = "running", request.kind # "plain", NEW a \in DOMAIN assets, NEW text \in Spelling,
         text.root = "abs", assets[a].source \in Fits(text.path),
         \A q \in Fits(text.path) : Len(q) <= Len(assets[a].source)
  PROVE  OnWorker(Rewrite(text)) = OnController(text.path)
<1> DEFINE s == assets[a].source
           rest == After(text.path, s)
<1>1. text.path \in Path /\ s \in Path /\ assets[a].name \in Word /\ pc \in Built
  BY AssetIs, PathsAre DEF Spelling, Built
<1>2. IsPrefix(s, text.path)
  <2>1. IsPrefix(s, s)
    BY <1>1, PrefixIs DEF Path
  <2>2. QED BY <2>1 DEF Fits
<1>3. rest \in Path /\ s \o rest = text.path
  BY <1>1, <1>2, AfterIs
<1>4. RewritePath(text.path) = Slot("assets", assets[a].name) \o rest
  BY <1>1, MapIs, RewriteIs
<1>5. Rewrite(text).root = "abs" /\ Rewrite(text).path = RewritePath(text.path)
  BY DEF Rewrite, Spelling
<1>6. OnWorker(Rewrite(text)) = Content(Slot("assets", assets[a].name) \o rest)
  BY <1>4, <1>5 DEF OnWorker, Abs
<1>7. Content(Slot("assets", assets[a].name) \o rest) = OnController(s \o rest)
  <2>1. /\ \A t \in DOMAIN copies : \E e, m \in Word : t = Slot(e, m)
        /\ Slot("assets", assets[a].name) \in DOMAIN copies
        /\ copies[Slot("assets", assets[a].name)] = s
    BY CopiesAre
  <2>2. "assets" \in Word
    BY KindsDiffer
  <2> HIDE DEF s, rest
  <2>3. Content(Slot("assets", assets[a].name) \o rest)
          = OnController(copies[Slot("assets", assets[a].name)] \o rest)
    BY <1>1, <1>3, <2>1, <2>2, ContentIs
  <2>4. QED BY <2>1, <2>3
<1>8. QED BY <1>3, <1>6, <1>7

LEMMA BindsIs ==
  ASSUME PathsInv, AsResolved
  PROVE  BindsAreThere
<1> SUFFICES ASSUME pc = "running", request.kind # "plain", NEW i \in Binds(request.mounts)
             PROVE  OnWorker(prepared.mounts[i].source) = OnController(Where(request.mounts[i].source))
  BY DEF BindsAreThere
<1> DEFINE text == request.mounts[i].source
<1>1. pc \in Built /\ request \in Requests /\ i \in DOMAIN request.mounts
  BY DEF Built, PathsInv, Binds
<1>2. text \in Spelling /\ text.root = "abs" /\ Where(text) = text.path
  <2>1. ASSUME NEW X, NEW ms \in Seq(X), NEW j \in DOMAIN ms PROVE ms[j] \in X
    OBVIOUS
  <2>2. request.mounts[i] \in [type : STRING, source : Spelling, target : Spelling]
    BY <1>1, <2>1, RequestIs
  <2>3. QED BY <2>2 DEF AsResolved
<1>3. PICK a \in DOMAIN assets : assets[a].source = text.path
  <2>1. index = Len(request.mounts) + 1 /\ i < index
    <3>1. index = Len(request.mounts) + 1
      BY <1>1 DEF PathsInv, PlanInv, Discovered
    <3>2. DOMAIN request.mounts = 1..Len(request.mounts) /\ Len(request.mounts) \in Nat
      BY <1>1, RequestIs
    <3>3. QED BY <1>1, <3>1, <3>2
  <2>2. QED BY <1>2, <2>1 DEF PathsInv, AssetsInv
<1>4. prepared.mounts[i].source = Rewrite(text)
  <2>1. prepared = [yaml EXCEPT !.jobs = JobsDir] /\ yaml = BatchYaml(Selected)
    BY <1>1 DEF PathsInv, CopyInv, YamlInv
  <2>2. prepared.mounts = BatchYaml(Selected).mounts
    BY <2>1 DEF BatchYaml
  <2>3. QED BY <1>1, <2>2 DEF BatchYaml
<1>5. text.path \in Fits(text.path)
  BY <1>1, <1>3, MapIs DEF Fits
<1>6. ASSUME NEW q \in Fits(text.path) PROVE Len(q) <= Len(text.path)
  <2>1. q \in Path /\ text.path \in Path
    BY <1>1, <1>2, <1>6, MapIs, PathsAre DEF Fits, Spelling
  <2>2. q = text.path \/ IsPrefix(q, text.path)
    BY <1>6 DEF Fits
  <2>3. QED BY <2>1, <2>2, PrefixIs DEF Path
<1>7. OnWorker(Rewrite(text)) = OnController(text.path)
  BY <1>2, <1>3, <1>5, <1>6, BelowAsset
<1>8. QED BY <1>2, <1>4, <1>7

LEMMA RefsIs ==
  ASSUME PathsInv, NoneAbove
  PROVE  RefsFollow
<1> DEFINE known == {assets[i].source : i \in DOMAIN assets}
                    \cup IF request.kind = "datasets" THEN {plan.at[n] : n \in Selected} ELSE {}
<1> SUFFICES ASSUME pc = "running", request.kind # "plain", NEW i \in DOMAIN request.refs,
                    request.refs[i].root = "abs", NEW s \in known, IsPrefix(s, request.refs[i].path)
             PROVE  OnWorker(prepared.refs[i]) = OnController(request.refs[i].path)
  BY DEF RefsFollow
<1> DEFINE text == request.refs[i]
           p == text.path
<1>1. pc \in Built /\ request \in Requests /\ text \in Spelling /\ p \in Path
  <2>1. text \in Spelling
    BY RequestIs DEF PathsInv
  <2>2. QED BY <2>1, PathsAre DEF Built, PathsInv, Spelling
<1>2. prepared.refs[i] = Rewrite(text)
  <2>1. prepared = [yaml EXCEPT !.jobs = JobsDir] /\ yaml = BatchYaml(Selected)
    BY <1>1 DEF PathsInv, CopyInv, YamlInv
  <2>2. prepared.refs = BatchYaml(Selected).refs
    BY <2>1 DEF BatchYaml
  <2>3. QED BY <2>2 DEF BatchYaml
<1>3. DOMAIN RewriteMap \subseteq Path /\ plan.ref \in Path
  BY <1>1, MapIs, RefIs
<1>4. \A q \in Fits(p) : q \in Path /\ IsPrefix(q, p) /\ Len(q) \in Nat
  <2> SUFFICES ASSUME NEW q \in Fits(p) PROVE q \in Path /\ IsPrefix(q, p) /\ Len(q) \in Nat
    OBVIOUS
  <2>1. q \in Path /\ (p = q \/ IsPrefix(q, p))
    BY <1>3 DEF Fits
  <2>2. IsPrefix(p, p)
    BY <1>1, PrefixIs DEF Path
  <2>3. QED BY <2>1, <2>2 DEF Path
\* The source that is known, or the dataset it is in, is one the path may be rewritten by.
<1>5. s \in Path /\ s # <<>> /\ (s \in Fits(p) \/ (plan.ref \in Fits(p) /\ \E n \in Selected : s = plan.at[n]))
  <2>1. CASE \E a \in DOMAIN assets : s = assets[a].source
    <3>1. s \in Dirs \cup Files /\ s \in DOMAIN RewriteMap
      BY <1>1, <2>1, AssetIs, MapIs
    <3>2. QED BY <3>1, FilesAre DEF Fits
  <2>2. CASE request.kind = "datasets" /\ \E n \in Selected : s = plan.at[n]
    <3>1. PICK n \in Selected : s = plan.at[n]
      BY <2>2
    <3>2. s \in Path /\ s # <<>> /\ s = Append(plan.ref, n) /\ n \in Word
      BY <1>1, <2>2, <3>1, NamedIs, FilesAre
    <3>3. s = plan.ref \o <<n>> /\ <<n>> \in Path
      BY <1>3, <3>2, AppendIsConcat, PairIs DEF Path
    <3>4. IsPrefix(plan.ref, s) /\ Len(plan.ref) <= Len(s)
      BY <1>3, <3>3, BelowIs, PrefixIs
    <3>5. IsPrefix(plan.ref, p)
      <4>1. Len(plan.ref) \in Nat /\ Len(s) \in Nat /\ Len(p) \in Nat
        BY <1>1, <1>3, <3>2 DEF Path
      <4>2. Len(s) <= Len(p) /\ \A j \in 1..Len(s) : s[j] = p[j]
        BY <1>1, <3>2, PrefixIs
      <4>3. \A j \in 1..Len(plan.ref) : plan.ref[j] = s[j]
        BY <1>3, <3>2, <3>4, PrefixIs
      <4>4. Len(plan.ref) <= Len(p) /\ \A j \in 1..Len(plan.ref) : plan.ref[j] = p[j]
        BY <3>4, <4>1, <4>2, <4>3
      <4>5. QED BY <1>1, <1>3, <4>4, PrefixIs
    <3>6. plan.ref # <<>> /\ plan.ref \in DOMAIN RewriteMap
      <4>1. plan.ref \in Dirs
        BY <1>1, <2>2 DEF PathsInv, PlanInv, Built, DatasetPlan, GoodDataset
      <4>2. QED BY <1>1, <4>1, FilesAre, MapIs
    <3>7. QED BY <3>1, <3>2, <3>5, <3>6 DEF Fits
  <2>3. QED BY <2>1, <2>2
<1>6. PICK q \in Fits(p) : \A r \in Fits(p) : Len(r) <= Len(q)
  <2>1. Fits(p) # {}
    BY <1>5
  <2>2. QED BY <1>1, <1>4, <2>1, LongestIs
<1>7. CASE \E a \in DOMAIN assets : q = assets[a].source
  <2>1. PICK a \in DOMAIN assets : q = assets[a].source
    BY <1>7
  <2>2. OnWorker(Rewrite(text)) = OnController(p)
    BY <1>1, <1>6, <2>1, BelowAsset
  <2>3. QED BY <1>2, <2>2
<1>8. CASE ~\E a \in DOMAIN assets : q = assets[a].source
  <2>1. q = plan.ref /\ \A a \in DOMAIN assets : assets[a].source # plan.ref
    BY <1>1, <1>6, <1>8, MapIs DEF Fits
  <2>2. ~\E a \in DOMAIN assets : s = assets[a].source
    <3> SUFFICES ASSUME NEW a \in DOMAIN assets, s = assets[a].source PROVE FALSE
      OBVIOUS
    <3>1. s \in Fits(p)
      BY <1>1, <1>5, MapIs DEF Fits
    <3>2. IsPrefix(s, q)
      BY <1>1, <1>4, <1>6, <3>1, PrefixesNest
    <3>3. QED BY <2>1, <3>2 DEF NoneAbove
  <2>3. PICK n \in Selected : s = plan.at[n] /\ request.kind = "datasets"
    BY <2>2
  <2>4. n \in Word /\ s = Append(plan.ref, n) /\ s = plan.ref \o <<n>> /\ <<n>> \in Path
    BY <1>1, <1>3, <2>3, NamedIs, AppendIsConcat, PairIs DEF Path
  <2> DEFINE rest == After(p, s)
  <2>5. rest \in Path /\ p = s \o rest
    BY <1>1, <1>5, AfterIs
  <2>6. After(p, plan.ref) = <<n>> \o rest
    <3>1. p = plan.ref \o (<<n>> \o rest) /\ <<n>> \o rest \in Path
      <4>1. <<n>> \o rest \in Path
        BY <2>4, <2>5, BelowIs
      <4>2. (plan.ref \o <<n>>) \o rest = plan.ref \o (<<n>> \o rest)
        <5>1. ASSUME NEW x \in Path, NEW y \in Path, NEW z \in Path PROVE (x \o y) \o z = x \o (y \o z)
          BY ConcatAssociative DEF Path
        <5> HIDE DEF rest
        <5>2. QED BY <1>3, <2>4, <2>5, <5>1
      <4>3. QED BY <2>4, <2>5, <4>1, <4>2
    <3>2. QED BY <1>3, <3>1, BelowIs
  <2>7. RewritePath(p) = DatasetDir \o After(p, plan.ref)
    BY <1>1, <1>3, <1>6, <2>1, MapIs, RewriteIs
  <2>8. RewritePath(p) = Slot("dataset", n) \o rest
    <3>1. DatasetDir \in Path
      BY SyncRootIs, KindsDiffer, PairIs, BelowIs DEF DatasetDir, Path
    <3>2. DatasetDir \o (<<n>> \o rest) = (DatasetDir \o <<n>>) \o rest
      BY <2>4, <2>5, <3>1, ConcatAssociative DEF Path
    <3>3. DatasetDir \o <<n>> = Slot("dataset", n)
      BY <2>4, <3>1, AppendIsConcat, CaseSlot DEF Path
    <3>4. QED BY <2>6, <2>7, <3>2, <3>3
  <2>9. Rewrite(text).root = "abs" /\ Rewrite(text).path = RewritePath(p)
    BY <1>1 DEF Rewrite, Spelling
  <2>10. OnWorker(Rewrite(text)) = Content(Slot("dataset", n) \o rest)
    BY <2>8, <2>9 DEF OnWorker, Abs
  <2>11. Content(Slot("dataset", n) \o rest) = OnController(plan.at[n] \o rest)
    BY <2>4, <2>5, CopiesAre, ContentIs, KindsDiffer
  <2>12. QED BY <1>2, <2>3, <2>5, <2>10, <2>11
<1>9. QED BY <1>7, <1>8

-----------------------------------------------------------------------------
(* The theorems.                                                            *)

\* The phases a batch goes through, from the YAML to the executor, each leave what the
\* next one needs, for every file system and every request.
THEOREM PathsInvariant == Spec => []PathsInv
<1>1. Init => PathsInv
  BY InitPaths
<1>2. PathsInv /\ [Next]_vars => PathsInv'
  BY PathsStep
<1>3. QED BY <1>1, <1>2, PTL DEF Spec

\* Harbor finds each task of a batch that runs, and it is the one the request meant
\* (build_batch_harbor_yaml, _sync_cases, HarborExecutor.prepare), when nothing that is
\* rewritten is above or below the place of the copies and a rerun's cases are entries
\* of the YAML.
THEOREM TasksFound == Spec => [](Clear /\ FromEntries => TasksAreThere)
<1>1. PathsInv => (Clear /\ FromEntries => TasksAreThere)
  BY TasksIs
<1>2. QED BY <1>1, PathsInvariant, PTL

\* Each bind source leads to the copy of the file or directory the request named
\* (discover_bind_assets, rewrite_yaml_paths, _sync_bind_assets), for sources of any names
\* that repeat or are in one another, when they are spelled as they are resolved.
THEOREM BindsFound == Spec => [](AsResolved => BindsAreThere)
<1>1. PathsInv => (AsResolved => BindsAreThere)
  BY BindsIs
<1>2. QED BY <1>1, PathsInvariant, PTL

\* A string at or below a bind source or a task leads to the same file on the worker
\* (_rewrite_path_string), when no bind source is strictly above the dataset.
THEOREM RefsFound == Spec => [](NoneAbove => RefsFollow)
<1>1. PathsInv => (NoneAbove => RefsFollow)
  BY RefsIs
<1>2. QED BY <1>1, PathsInvariant, PTL
=============================================================================
