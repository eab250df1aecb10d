-------------------------- MODULE HarborJobsProofs --------------------------
(***************************************************************************)
(* What holds of the job directories for every number of runs, batches and *)
(* calls.  What is uploaded and who writes a job is proved of calls that   *)
(* overlap and are cut off; what a merge leaves behind is proved of calls  *)
(* that come one after the other, since TLC refutes it of others.          *)
(***************************************************************************)
EXTENDS HarborJobs, FiniteSetTheorems, SequenceTheorems, TLAPS

-----------------------------------------------------------------------------
(* Names.                                                                   *)

LEMMA RunOfIs ==
  ASSUME NEW r \in Runs, NEW b \in PrimaryOf(r) \cup Reruns[r]
  PROVE  RunOf(b) = r /\ b \in Batches
<1>1. b \in Batches
  BY DEF Batches
<1>2. \A s \in Runs : b \in PrimaryOf(s) \cup Reruns[s] => s = r
  BY JobsAssumption
<1>3. QED BY <1>1, <1>2 DEF RunOf

LEMMA RerunIs ==
  ASSUME NEW b \in Batches, IsRerun(b)
  PROVE  /\ RunOf(b) \in Derived /\ b \in Reruns[RunOf(b)]
         /\ ParentBatch[b] \in PrimaryOf(RunOf(b)) /\ ParentBatch[b] \in Batches
<1>1. PICK r \in Runs : b \in Reruns[r]
  BY DEF IsRerun
<1>2. RunOf(b) = r
  BY <1>1, RunOfIs
<1>3. r \in Derived
  BY <1>1, JobsAssumption DEF Derived
<1>4. ParentBatch[b] \in PrimaryOf(r)
  BY <1>1, JobsAssumption
<1>5. ParentBatch[b] \in Batches
  BY <1>4, RunOfIs
<1>6. QED BY <1>1, <1>2, <1>3, <1>4, <1>5

LEMMA CallRunIs ==
  ASSUME NEW c \in Calls
  PROVE  CallRun(c) \in Runs /\ JobOf[CallRun(c)] \in Paths /\ JobOf[CallRun(c)] \notin Batches
<1>1. c.on \in Batches \/ c.on \in Runs
  BY JobsAssumption DEF Derived
<1>2. CASE c.on \in Runs
  BY <1>2, JobsAssumption DEF CallRun, Paths
<1>3. CASE c.on \in Batches /\ c.on \notin Runs
  <2>1. PICK r \in Runs : c.on \in PrimaryOf(r) \cup Reruns[r]
    BY <1>3 DEF Batches
  <2>2. CallRun(c) = r
    BY <1>3, <2>1, RunOfIs DEF CallRun
  <2>3. QED BY <2>2, JobsAssumption DEF Paths
<1>4. QED BY <1>1, <1>2, <1>3

LEMMA TrialIs ==
  ASSUME NEW t \in Trial
  PROVE  t.by \in Batches /\ t.n \in Attempts /\ (t.case # t.by => t.case \in Cases[t.by] /\ t \in Ran(t.by, t.n))
  BY DEF Trial, Ran

LEMMA RanIs ==
  ASSUME NEW b \in Batches, NEW n \in Attempts
  PROVE  /\ Ran(b, n) \subseteq Trial /\ Nested(b, n) \in Trial
         /\ \A t \in Ran(b, n) : t.case \in Cases[b] /\ t.by = b /\ t.n = n /\ t.case # t.by
<1>1. Ran(b, n) \subseteq Trial /\ Nested(b, n) \in Trial
  <2>1. \A x \in Cases[b] : x \in UNION {Cases[d] : d \in Batches}
    OBVIOUS
  <2>2. Nested(b, n) \in Trial
    BY DEF Trial, Nested
  <2>3. ASSUME NEW x \in Cases[b] PROVE [case |-> x, by |-> b, n |-> n] \in Trial
    BY <2>1 DEF Trial
  <2>4. QED BY <2>2, <2>3 DEF Ran
<1>2. Cases[b] \cap Batches = {}
  BY JobsAssumption
<1>3. QED BY <1>1, <1>2 DEF Ran

\* The rest of a sequence.
LEMMA TailIs ==
  ASSUME NEW S, NEW s \in Seq(S), s # <<>>
  PROVE  /\ Tail(s) \in Seq(S) /\ Len(Tail(s)) = Len(s) - 1
         /\ \A i \in 1..Len(s) - 1 : Tail(s)[i] = s[i + 1]
         /\ Len(s) # 1 => Tail(s) # <<>>
         /\ Head(s) = s[1] /\ Len(s) \in Nat \ {0} /\ Head(s) \in S
<1>1. Len(s) \in Nat \ {0} /\ \A i \in 1..Len(s) : s[i] \in S
  OBVIOUS
<1>2. Tail(s) \in Seq(S) /\ Len(Tail(s)) = Len(s) - 1
  OBVIOUS
<1>3. \A i \in 1..Len(s) - 1 : Tail(s)[i] = s[i + 1]
  OBVIOUS
<1>4. Len(s) # 1 => Tail(s) # <<>>
  <2>1. Len(s) # 1 => Len(Tail(s)) # 0
    BY <1>1, <1>2
  <2>2. QED BY <2>1, EmptySeq
<1>5. Head(s) = s[1]
  OBVIOUS
<1>6. QED BY <1>1, <1>2, <1>3, <1>4, <1>5

\* What the merged job is built from: each imported job once.
LEMMA SourcesAre ==
  ASSUME NEW r \in Runs, NEW s \in Sources(r)
  PROVE  /\ s \in Seq(Pairs)
         /\ \A i \in DOMAIN s : s[i].to = JobOf[r] /\ s[i].from \in PrimaryOf(r) /\ dir[s[i].from] # None
         /\ \A i, j \in DOMAIN s : s[i].from = s[j].from => i = j
         /\ \A b \in PrimaryOf(r) : dir[b] # None => \E i \in DOMAIN s : s[i].from = b
<1> DEFINE imported == {i \in DOMAIN Primary[r] : dir[Primary[r][i]] # None}
           n == Cardinality(imported)
<1>1. Primary[r] \in Seq(PrimaryOf(r)) /\ \A i, j \in DOMAIN Primary[r] : Primary[r][i] = Primary[r][j] => i = j
  BY JobsAssumption
<1>2. imported \subseteq 1..Len(Primary[r]) /\ Len(Primary[r]) \in Nat
  BY <1>1
<1>3. n \in Nat
  <2>1. IsFiniteSet(1..Len(Primary[r]))
    BY <1>2, FS_Interval
  <2>2. IsFiniteSet(imported)
    BY <2>1, <1>2, FS_Subset
  <2>3. QED BY <2>2, FS_CardinalityType
<1> HIDE DEF n
<1>4. PICK o \in [1..n -> imported] :
        /\ \A i \in imported : \E k \in DOMAIN o : o[k] = i
        /\ \A k, l \in DOMAIN o : k < l => o[k] < o[l]
        /\ s = [k \in DOMAIN o |-> [from |-> Primary[r][o[k]], to |-> JobOf[r]]]
  BY DEF Sources, n
<1>5. DOMAIN o = 1..n /\ DOMAIN s = 1..n /\ \A k \in 1..n : o[k] \in imported
  BY <1>4
<1>6. \A k \in 1..n : s[k] = [from |-> Primary[r][o[k]], to |-> JobOf[r]]
  BY <1>4, <1>5
<1>7. \A k \in 1..n : Primary[r][o[k]] \in PrimaryOf(r) /\ dir[Primary[r][o[k]]] # None
  BY <1>5, <1>1 DEF PrimaryOf
<1>8. s \in Seq(Pairs)
  <2>0. JobOf[r] \in Paths /\ \A b \in PrimaryOf(r) : b \in Batches
    BY RunOfIs DEF Paths
  <2>1. ASSUME NEW k \in 1..n PROVE s[k] \in Pairs
    <3>1. s[k] = [from |-> Primary[r][o[k]], to |-> JobOf[r]]
      BY <1>6
    <3>2. Primary[r][o[k]] \in Batches
      BY <1>7, <2>0
    <3>3. QED BY <3>1, <3>2, <2>0 DEF Pairs
  <2>2. s \in [1..n -> Pairs]
    BY <1>4, <1>5, <2>1
  <2>3. QED BY <2>2, <1>3, SeqDef
<1>9. \A i \in DOMAIN s : s[i].to = JobOf[r] /\ s[i].from \in PrimaryOf(r) /\ dir[s[i].from] # None
  BY <1>5, <1>6, <1>7
<1>10. \A i, j \in DOMAIN s : s[i].from = s[j].from => i = j
  <2> SUFFICES ASSUME NEW i \in 1..n, NEW j \in 1..n, s[i].from = s[j].from PROVE i = j
    BY <1>5
  <2>1. o[i] = o[j]
    BY <1>5, <1>6, <1>1
  <2>2. o[i] \in Nat /\ o[j] \in Nat
    BY <1>5, <1>2
  <2>3. ~(i < j) /\ ~(j < i)
    BY <1>4, <1>5, <2>1, <2>2
  <2>4. QED BY <2>3, <1>3
<1>11. \A b \in PrimaryOf(r) : dir[b] # None => \E i \in DOMAIN s : s[i].from = b
  BY <1>4, <1>5, <1>6 DEF PrimaryOf
<1>12. QED BY <1>8, <1>9, <1>10, <1>11

-----------------------------------------------------------------------------
(* The steps.                                                               *)

Others(c)    == \A d \in Calls \ {c} : call'[d] = call[d]
Elsewhere(p) == \A q \in Paths \ {p} : dir'[q] = dir[q]
DirOK  == dir \in [Paths -> JobDir \cup {None}]
CallOK == call \in [Calls -> Work]

LEMMA CallIs ==
  ASSUME CallOK, NEW c \in Calls
  PROVE  /\ call[c] \in Work /\ At(c) \in Places /\ call[c].goal \in Goals \cup {None}
         /\ call[c].left \in Seq(Pairs) /\ call[c].todo \subseteq Trial
         /\ call[c].held \in Trial \cup {None} /\ call[c].conf \subseteq {"config"} /\ call[c].seen \subseteq Trial
         /\ call[c].left # <<>> => Here(c) \in Pairs /\ Here(c) = call[c].left[1]
<1>1. call[c] \in Work
  BY DEF CallOK
<1>2. call[c].left \in Seq(Pairs)
  BY <1>1 DEF Work
<1>3. call[c].left # <<>> => Here(c) \in Pairs /\ Here(c) = call[c].left[1]
  BY <1>2, TailIs DEF Here
<1>4. QED BY <1>1, <1>2, <1>3 DEF Work, At

LEMMA DirIs ==
  ASSUME DirOK, NEW p \in Paths
  PROVE  /\ dir[p] # None => dir[p] \in JobDir
         /\ TrialsIn(p) \subseteq Trial /\ FilesIn(p) \subseteq {"config"}
         /\ Into(p) \in JobDir /\ Into(p).trials = TrialsIn(p) /\ Into(p).files = FilesIn(p)
         /\ Into(p) # None
<1>1. NewDir \in JobDir
  BY DEF NewDir, JobDir
<1>2. Into(p) \in JobDir /\ (dir[p] # None => dir[p] \in JobDir)
  BY <1>1 DEF DirOK, Into
<1>3. None \notin JobDir
  BY JobsAssumption
<1>4. Into(p).trials = TrialsIn(p) /\ Into(p).files = FilesIn(p)
  BY DEF Into, TrialsIn, FilesIn, NewDir
<1>5. TrialsIn(p) \subseteq Trial /\ FilesIn(p) \subseteq {"config"}
  BY <1>2, <1>4 DEF JobDir
<1>6. QED BY <1>2, <1>3, <1>4, <1>5

LEMMA Becomes ==
  ASSUME CallOK, NEW c \in Calls, NEW w \in Work, call' = [call EXCEPT ![c] = w]
  PROVE  CallOK' /\ Others(c) /\ call'[c] = w /\ At(c)' = w.at
  BY DEF CallOK, Others, At

\* A call is at a place with a goal and what is left to copy.
LEMMA Does ==
  ASSUME CallOK, NEW c \in Calls, NEW place \in Places, NEW goal \in Goals \cup {None}, NEW pairs \in Seq(Pairs),
         call' = [call EXCEPT ![c] = Doing(place, goal, pairs)]
  PROVE  /\ CallOK' /\ Others(c) /\ At(c)' = place /\ call'[c] = Doing(place, goal, pairs)
         /\ call'[c].goal = goal /\ call'[c].left = pairs
         /\ call'[c].held = None /\ call'[c].todo = {} /\ call'[c].conf = {}
<1>1. Doing(place, goal, pairs) \in Work
  BY DEF Work, Doing
<1>2. CallOK' /\ Others(c) /\ call'[c] = Doing(place, goal, pairs)
  BY <1>1 DEF CallOK, Others
<1>3. QED BY <1>2 DEF At, Doing

LEMMA Goes ==
  ASSUME CallOK, NEW c \in Calls, NEW place \in Places, Goto(c, place)
  PROVE  /\ CallOK' /\ Others(c) /\ At(c)' = place /\ call'[c] = Doing(place, None, <<>>)
         /\ call'[c].goal = None /\ call'[c].left = <<>>
         /\ call'[c].held = None /\ call'[c].todo = {} /\ call'[c].conf = {}
  BY Does, EmptySeq DEF Goto

LEMMA CopyAllIs ==
  ASSUME CallOK, NEW c \in Calls, NEW goal \in Goals, NEW pairs, pairs \in Seq(Pairs), CopyAll(c, goal, pairs)
  PROVE  /\ CallOK' /\ Others(c) /\ At(c)' = "source" /\ call'[c].goal = goal /\ call'[c].left = pairs
         /\ call'[c].held = None /\ call'[c].conf = {}
<1>1. PICK place \in Places : place = "source"
  BY DEF Places
<1>2. call' = [call EXCEPT ![c] = Doing(place, goal, pairs)]
  BY <1>1 DEF CopyAll
<1>3. QED BY <1>1, <1>2, Does

LEMMA NextSourceIs ==
  ASSUME DirOK, CallOK, NEW c \in Calls, call[c].left # <<>>, NextSource(c),
         NEW p, p = Here(c).to, NEW q, q = Here(c).from
  PROVE  /\ DirOK' /\ CallOK' /\ Others(c) /\ Elsewhere(p)
         /\ At(c) = "source" /\ At(c)' = "copy" /\ call'[c].goal = call[c].goal /\ call'[c].left = call[c].left
         /\ call'[c].todo = TrialsIn(q) /\ call'[c].held = call[c].held /\ call'[c].conf = call[c].conf \cup FilesIn(q)
         /\ dir'[p] # None /\ TrialsIn(p)' = TrialsIn(p)
<1>1. p \in Paths /\ q \in Batches /\ q \in Paths
  BY CallIs DEF Pairs, Paths
<1>2. TrialsIn(q) \subseteq Trial /\ FilesIn(q) \subseteq {"config"} /\ Into(p) \in JobDir /\ Into(p) # None /\ Into(p).trials = TrialsIn(p)
  BY <1>1, DirIs
<1>3. dir' = [dir EXCEPT ![p] = Into(p)]
  BY DEF NextSource
<1>4. DirOK' /\ Elsewhere(p) /\ dir'[p] = Into(p)
  BY <1>1, <1>2, <1>3 DEF DirOK, Elsewhere
<1> DEFINE w == [call[c] EXCEPT !.at = "copy", !.todo = TrialsIn(q), !.conf = @ \cup FilesIn(q)]
<1>5. call' = [call EXCEPT ![c] = w]
  BY DEF NextSource
<1>6. w \in Work
  <2>1. call[c] \in Work /\ "copy" \in Places
    BY CallIs DEF Places
  <2>2. PICK f \in SUBSET {"config"}, ts \in SUBSET Trial : f = call[c].conf \cup FilesIn(q) /\ ts = TrialsIn(q)
    BY <1>2, CallIs
  <2>3. [call[c] EXCEPT !.at = "copy", !.todo = ts, !.conf = f] \in Work
    BY <2>1 DEF Work
  <2>4. QED BY <2>2, <2>3
<1>7. /\ w.at = "copy" /\ w.goal = call[c].goal /\ w.left = call[c].left
      /\ w.todo = TrialsIn(q) /\ w.held = call[c].held /\ w.conf = call[c].conf \cup FilesIn(q)
  BY CallIs DEF Work
<1>8. TrialsIn(p)' = TrialsIn(p)
  BY <1>2, <1>4 DEF TrialsIn
<1> HIDE DEF w
<1>9. CallOK' /\ Others(c) /\ call'[c] = w /\ At(c)' = w.at
  BY <1>5, <1>6, Becomes
<1>10. QED BY <1>2, <1>4, <1>7, <1>8, <1>9 DEF NextSource

LEMMA RemoveMatchingIs ==
  ASSUME DirOK, CallOK, NEW c \in Calls, call[c].left # <<>>, RemoveMatching(c), NEW p, p = Here(c).to
  PROVE  \E t \in call[c].todo :
         /\ DirOK' /\ CallOK' /\ Others(c) /\ Elsewhere(p)
         /\ At(c) = "copy" /\ At(c)' = "copy" /\ call'[c].goal = call[c].goal /\ call'[c].left = call[c].left
         /\ call[c].held = None /\ call'[c].todo = call[c].todo \ {t} /\ call'[c].held = t /\ call'[c].conf = call[c].conf
         /\ (dir'[p] = None) = (dir[p] = None) /\ TrialsIn(p)' = {u \in TrialsIn(p) : u.case # t.case}
<1>1. p \in Paths
  BY CallIs DEF Pairs, Paths
<1>2. PICK t \in call[c].todo :
        /\ call' = [call EXCEPT ![c].todo = @ \ {t}, ![c].held = t]
        /\ dir' = IF dir[p] = None THEN dir ELSE [dir EXCEPT ![p].trials = {u \in @ : u.case # t.case}]
  BY DEF RemoveMatching
<1> DEFINE w == [call[c] EXCEPT !.todo = @ \ {t}, !.held = t]
<1>3. call' = [call EXCEPT ![c] = w]
  BY <1>2
<1>4. /\ CallOK' /\ Others(c) /\ At(c)' = At(c) /\ call'[c].goal = call[c].goal /\ call'[c].left = call[c].left
      /\ call'[c].todo = call[c].todo \ {t} /\ call'[c].held = t /\ call'[c].conf = call[c].conf
  <2>1. call[c] \in Work /\ t \in Trial
    BY CallIs
  <2>2. w \in Work
    BY <2>1 DEF Work
  <2>3. /\ w.at = call[c].at /\ w.goal = call[c].goal /\ w.left = call[c].left
        /\ w.todo = call[c].todo \ {t} /\ w.held = t /\ w.conf = call[c].conf
    BY <2>1 DEF Work
  <2> HIDE DEF w
  <2>4. QED BY <1>3, <2>2, <2>3, Becomes DEF At
<1>5. CASE dir[p] = None
  BY <1>1, <1>2, <1>4, <1>5 DEF DirOK, Elsewhere, TrialsIn, RemoveMatching
<1>6. CASE dir[p] # None
  <2> DEFINE left == [dir[p] EXCEPT !.trials = {u \in dir[p].trials : u.case # t.case}]
  <2>1. dir[p] \in JobDir
    BY <1>1, <1>6, DirIs
  <2>2. left \in JobDir /\ left.trials = {u \in dir[p].trials : u.case # t.case}
    BY <2>1 DEF JobDir
  <2>3. dir' = [dir EXCEPT ![p] = left]
    BY <1>2, <1>6
  <2> HIDE DEF left
  <2>4. DirOK' /\ Elsewhere(p) /\ dir'[p] = left
    BY <1>1, <2>2, <2>3 DEF DirOK, Elsewhere
  <2>5. left # None
    BY <2>2, JobsAssumption
  <2>6. TrialsIn(p)' = {u \in TrialsIn(p) : u.case # t.case}
    BY <1>6, <2>2, <2>4, <2>5 DEF TrialsIn
  <2>7. QED BY <1>4, <1>6, <2>4, <2>5, <2>6 DEF RemoveMatching
<1>7. QED BY <1>5, <1>6

LEMMA CopyTrialIs ==
  ASSUME DirOK, CallOK, NEW c \in Calls, call[c].left # <<>>, CopyTrial(c),
         NEW p, p = Here(c).to, NEW q, q = Here(c).from
  PROVE  /\ DirOK' /\ CallOK' /\ Others(c) /\ Elsewhere(p)
         /\ At(c) = "copy" /\ call[c].held # None /\ call'[c].held = None
         /\ \/ /\ call[c].held \notin TrialsIn(q) \ TrialsIn(p)
               /\ Goto(c, "failed") /\ dir' = dir
            \/ /\ call[c].held \in TrialsIn(q) \ TrialsIn(p)
               /\ At(c)' = "copy" /\ call'[c].goal = call[c].goal /\ call'[c].left = call[c].left
               /\ call'[c].todo = call[c].todo /\ call'[c].conf = call[c].conf
               /\ dir'[p] # None /\ TrialsIn(p)' = TrialsIn(p) \cup {call[c].held}
<1>1. p \in Paths
  BY CallIs DEF Pairs, Paths
<1>2. CASE call[c].held \in TrialsIn(q) \ TrialsIn(p)
  <2> DEFINE more == [Into(p) EXCEPT !.trials = @ \cup {call[c].held}]
             w == [call[c] EXCEPT !.held = None]
  <2>1. dir' = [dir EXCEPT ![p] = more] /\ call' = [call EXCEPT ![c] = w]
    BY <1>2 DEF CopyTrial
  <2>2. /\ w \in Work /\ w.at = call[c].at /\ w.goal = call[c].goal /\ w.left = call[c].left
        /\ w.todo = call[c].todo /\ w.held = None /\ w.conf = call[c].conf
    BY CallIs DEF Work
  <2>3. /\ CallOK' /\ Others(c) /\ At(c)' = At(c) /\ call'[c].goal = call[c].goal /\ call'[c].left = call[c].left
        /\ call'[c].todo = call[c].todo /\ call'[c].held = None /\ call'[c].conf = call[c].conf
    <3> HIDE DEF w
    <3>1. QED BY <2>1, <2>2, Becomes DEF At
  <2>4. call[c].held \in Trial /\ Into(p) \in JobDir /\ Into(p).trials = TrialsIn(p)
    BY <1>1, CallIs, DirIs DEF CopyTrial
  <2>5. more \in JobDir /\ more.trials = TrialsIn(p) \cup {call[c].held}
    BY <2>4 DEF JobDir
  <2> HIDE DEF more
  <2>6. DirOK' /\ Elsewhere(p) /\ dir'[p] = more
    BY <1>1, <2>1, <2>5 DEF DirOK, Elsewhere
  <2>7. more # None
    BY <2>5, JobsAssumption
  <2>8. TrialsIn(p)' = TrialsIn(p) \cup {call[c].held}
    BY <2>5, <2>6, <2>7 DEF TrialsIn
  <2>9. QED BY <1>2, <2>3, <2>6, <2>7, <2>8 DEF CopyTrial
<1>3. CASE call[c].held \notin TrialsIn(q) \ TrialsIn(p)
  <2>1. Goto(c, "failed") /\ dir' = dir
    BY <1>3 DEF CopyTrial
  <2>2. QED BY <1>3, <2>1, Goes DEF CopyTrial, DirOK, Elsewhere, Places, Over
<1>4. QED BY <1>2, <1>3

LEMMA EndSourceIs ==
  ASSUME CallOK, NEW c \in Calls, call[c].left # <<>>, EndSource(c), call[c].goal # None
  PROVE  /\ CallOK' /\ Others(c) /\ dir' = dir
         /\ At(c) = "copy" /\ call[c].held = None /\ call[c].todo = {}
         /\ call'[c].goal = call[c].goal /\ call'[c].held = None /\ call'[c].conf = call[c].conf
         /\ \/ Len(call[c].left) = 1 /\ At(c)' = AfterCopy(call[c].goal) /\ call'[c].left = call[c].left
            \/ Len(call[c].left) # 1 /\ At(c)' = "source" /\ call'[c].left = Tail(call[c].left) /\ call'[c].left # <<>>
<1>1. call[c].left \in Seq(Pairs) /\ call[c].goal \in Goals \cup {None}
  BY CallIs
<1>2. Tail(call[c].left) \in Seq(Pairs) /\ (Len(call[c].left) # 1 => Tail(call[c].left) # <<>>)
  BY <1>1, TailIs
<1>3. PICK left \in Seq(Pairs), at \in Places :
        /\ left = IF Len(call[c].left) = 1 THEN call[c].left ELSE Tail(call[c].left)
        /\ at = IF Len(call[c].left) = 1 THEN AfterCopy(call[c].goal) ELSE "source"
  BY <1>1, <1>2 DEF AfterCopy, Goals, Places
<1> DEFINE w == [call[c] EXCEPT !.left = left, !.at = at]
<1>4. call' = [call EXCEPT ![c] = w]
  BY <1>3 DEF EndSource
<1>5. /\ w \in Work /\ w.at = at /\ w.goal = call[c].goal /\ w.left = left
      /\ w.held = call[c].held /\ w.conf = call[c].conf
  BY CallIs DEF Work
<1> HIDE DEF w
<1>6. CallOK' /\ Others(c) /\ call'[c] = w /\ At(c)' = w.at
  BY <1>4, <1>5, Becomes
<1>7. QED BY <1>2, <1>3, <1>5, <1>6 DEF EndSource

LEMMA GiveUpIs ==
  ASSUME DirOK, CallOK, NEW c \in Calls, GiveUp(c)
  PROVE  /\ DirOK' /\ CallOK' /\ Others(c) /\ dir' = dir
         /\ At(c)' = IF call[c].goal = "merged" THEN "remove" ELSE "done"
         /\ call'[c] = Doing(At(c)', None, <<>>)
<1>1. PICK place \in Places : place = IF call[c].goal = "merged" THEN "remove" ELSE "done"
  BY DEF Places, Over
<1>2. Goto(c, place) /\ dir' = dir
  BY <1>1 DEF GiveUp
<1>3. QED BY <1>1, <1>2, Goes DEF DirOK

LEMMA GoesOnIs ==
  ASSUME CallOK, NEW c \in Calls, GoesOn(c)
  PROVE  /\ CallOK' /\ Others(c) /\ At(c)' = AfterRemoval(c) /\ call'[c].held = None
         /\ call'[c].goal = call[c].goal /\ call'[c].left = call[c].left
         /\ call'[c] = Doing(AfterRemoval(c), call[c].goal, call[c].left)
<1>1. call[c].goal \in Goals \cup {None} /\ call[c].left \in Seq(Pairs)
  BY CallIs
<1>2. AfterRemoval(c) \in Places
  BY DEF AfterRemoval, Places, Over
<1>3. call' = [call EXCEPT ![c] = Doing(AfterRemoval(c), call[c].goal, call[c].left)]
  BY DEF GoesOn
<1>4. PICK place \in Places, goal \in Goals \cup {None}, left \in Seq(Pairs) :
        place = AfterRemoval(c) /\ goal = call[c].goal /\ left = call[c].left
  BY <1>1, <1>2
<1>5. QED BY <1>3, <1>4, Does

LEMMA ListRemovedIs ==
  ASSUME DirOK, CallOK, NEW c \in Calls, ListRemoved(c), NEW p \in Paths, p = Removed(c)
  PROVE  /\ DirOK' /\ CallOK' /\ Others(c) /\ dir' = dir /\ At(c) \in {"clear", "remove"}
         /\ call'[c].goal = call[c].goal /\ call'[c].left = call[c].left
         /\ \/ dir[p] = None /\ GoesOn(c) /\ At(c)' = AfterRemoval(c)
            \/ /\ dir[p] # None /\ At(c)' = IF At(c) = "clear" THEN "clearing" ELSE "removing"
               /\ call'[c].todo = TrialsIn(p)
               /\ call'[c].conf = IF dir[p].files # {} \/ dir[p].result # None THEN {"config"} ELSE {}
<1>1. dir' = dir /\ DirOK' /\ At(c) \in {"clear", "remove"}
  BY DEF ListRemoved, DirOK
<1>2. CASE dir[p] = None /\ GoesOn(c)
  BY <1>1, <1>2, GoesOnIs
<1>3. CASE /\ dir[p] # None
           /\ call' = [call EXCEPT ![c] =
                 [call[c] EXCEPT !.at = IF At(c) = "clear" THEN "clearing" ELSE "removing", !.todo = dir[p].trials,
                            !.conf = IF dir[p].files # {} \/ dir[p].result # None THEN {"config"} ELSE {}]]
  <2> DEFINE w == [call[c] EXCEPT !.at = IF At(c) = "clear" THEN "clearing" ELSE "removing", !.todo = dir[p].trials,
                      !.conf = IF dir[p].files # {} \/ dir[p].result # None THEN {"config"} ELSE {}]
  <2>1. call' = [call EXCEPT ![c] = w]
    BY <1>3 DEF ListRemoved
  <2>2. dir[p].trials \subseteq Trial /\ TrialsIn(p) = dir[p].trials
    BY <1>3, DirIs DEF TrialsIn
  <2>3. call[c] \in Work
    BY CallIs
  <2>4. PICK at \in Places, conf \in SUBSET {"config"} :
          /\ at = IF At(c) = "clear" THEN "clearing" ELSE "removing"
          /\ conf = IF dir[p].files # {} \/ dir[p].result # None THEN {"config"} ELSE {}
    BY DEF Places
  <2>5. w = [call[c] EXCEPT !.at = at, !.todo = dir[p].trials, !.conf = conf]
    BY <2>3, <2>4
  <2>6. /\ w \in Work /\ w.at = at /\ w.todo = dir[p].trials /\ w.conf = conf
        /\ w.goal = call[c].goal /\ w.left = call[c].left
    BY <2>2, <2>3, <2>4, <2>5 DEF Work
  <2> HIDE DEF w
  <2>7. CallOK' /\ Others(c) /\ call'[c] = w /\ At(c)' = w.at
    BY <2>1, <2>6, Becomes
  <2>8. QED BY <1>1, <1>3, <2>2, <2>4, <2>6, <2>7 DEF At
<1>4. QED BY <1>2, <1>3 DEF ListRemoved

\* A removal keeps what the call is to go on with.
SameWork(c) == At(c)' = At(c) /\ call'[c].goal = call[c].goal /\ call'[c].left = call[c].left /\ call'[c].held = call[c].held

LEMMA RemoveTrialIs ==
  ASSUME DirOK, CallOK, NEW c \in Calls, RemoveTrial(c), NEW p \in Paths, p = Removed(c)
  PROVE  \E t \in call[c].todo :
         /\ DirOK' /\ CallOK' /\ Others(c) /\ Elsewhere(p) /\ Removing(c)
         /\ \/ t \notin TrialsIn(p) /\ Goto(c, "failed") /\ dir' = dir
            \/ /\ SameWork(c) /\ call'[c].todo = call[c].todo \ {t} /\ call'[c].conf = call[c].conf
               /\ TrialsIn(p)' = TrialsIn(p) \ {t} /\ FilesIn(p)' = FilesIn(p) /\ (dir'[p] = None) = (dir[p] = None)
               /\ dir[p] # None => dir'[p].result = dir[p].result
<1>1. PICK t \in call[c].todo :
        \/ t \notin TrialsIn(p) /\ Missed(c, [call[c] EXCEPT !.todo = @ \ {t}])
        \/ /\ t \in TrialsIn(p)
           /\ dir' = [dir EXCEPT ![p].trials = @ \ {t}]
           /\ call' = [call EXCEPT ![c] = [call[c] EXCEPT !.todo = @ \ {t}]]
  BY DEF RemoveTrial
<1>2. CASE t \notin TrialsIn(p) /\ Goto(c, "failed") /\ dir' = dir
  BY <1>2, Goes DEF RemoveTrial, DirOK, Elsewhere, Places, Over
<1>3. CASE call' = [call EXCEPT ![c] = [call[c] EXCEPT !.todo = @ \ {t}]]
  <2> DEFINE w == [call[c] EXCEPT !.todo = @ \ {t}]
  <2>1. /\ w \in Work /\ w.at = call[c].at /\ w.goal = call[c].goal /\ w.left = call[c].left /\ w.held = call[c].held
        /\ w.todo = call[c].todo \ {t} /\ w.conf = call[c].conf
    BY CallIs DEF Work
  <2> HIDE DEF w
  <2>2. call' = [call EXCEPT ![c] = w]
    BY <1>3 DEF w
  <2>3. /\ CallOK' /\ Others(c) /\ SameWork(c) /\ call'[c].todo = call[c].todo \ {t} /\ call'[c].conf = call[c].conf
    BY <2>1, <2>2, Becomes DEF At, SameWork
  <2>4. CASE t \notin TrialsIn(p) /\ dir' = dir
    <3>1. TrialsIn(p)' = TrialsIn(p) \ {t} /\ FilesIn(p)' = FilesIn(p)
      BY <2>4 DEF TrialsIn, FilesIn
    <3>2. QED BY <2>3, <2>4, <3>1 DEF RemoveTrial, DirOK, Elsewhere
  <2>5. CASE t \in TrialsIn(p) /\ dir' = [dir EXCEPT ![p].trials = @ \ {t}]
    <3> DEFINE d == [dir[p] EXCEPT !.trials = @ \ {t}]
    <3>1. dir[p] # None /\ dir[p] \in JobDir
      BY <2>5, DirIs DEF TrialsIn
    <3>2. d \in JobDir /\ d.trials = dir[p].trials \ {t} /\ d.files = dir[p].files /\ d.result = dir[p].result
      BY <3>1 DEF JobDir
    <3> HIDE DEF d
    <3>3. dir' = [dir EXCEPT ![p] = d]
      BY <2>5 DEF d
    <3>4. DirOK' /\ Elsewhere(p) /\ dir'[p] = d /\ d # None
      BY <3>2, <3>3, JobsAssumption DEF DirOK, Elsewhere
    <3>5. TrialsIn(p)' = TrialsIn(p) \ {t} /\ FilesIn(p)' = FilesIn(p)
      BY <3>1, <3>2, <3>4 DEF TrialsIn, FilesIn
    <3>6. QED BY <2>3, <3>1, <3>2, <3>4, <3>5 DEF RemoveTrial
  <2>6. QED BY <1>1, <2>4, <2>5 DEF Missed
<1>4. QED BY <1>1, <1>2, <1>3 DEF Missed

LEMMA RemoveFilesIs ==
  ASSUME DirOK, CallOK, NEW c \in Calls, RemoveFiles(c), NEW p \in Paths, p = Removed(c)
  PROVE  /\ DirOK' /\ CallOK' /\ Others(c) /\ Elsewhere(p) /\ Removing(c) /\ call[c].conf # {}
         /\ \/ dir[p] = None /\ Goto(c, "failed") /\ dir' = dir
            \/ /\ SameWork(c) /\ call'[c].todo = call[c].todo /\ call'[c].conf = {}
               /\ TrialsIn(p)' = TrialsIn(p) /\ (dir'[p] = None) = (dir[p] = None) /\ FilesIn(p)' = {}
               /\ dir[p] # None => dir'[p].files = {} /\ dir'[p].result = None
<1>1. CASE dir[p] = None /\ Goto(c, "failed") /\ dir' = dir
  BY <1>1, Goes DEF RemoveFiles, DirOK, Elsewhere, Places, Over
<1>2. CASE call' = [call EXCEPT ![c] = [call[c] EXCEPT !.conf = {}]]
  <2> DEFINE w == [call[c] EXCEPT !.conf = {}]
  <2>1. /\ w \in Work /\ w.at = call[c].at /\ w.goal = call[c].goal /\ w.left = call[c].left /\ w.held = call[c].held
        /\ w.todo = call[c].todo /\ w.conf = {}
    BY CallIs DEF Work
  <2> HIDE DEF w
  <2>2. call' = [call EXCEPT ![c] = w]
    BY <1>2 DEF w
  <2>3. /\ CallOK' /\ Others(c) /\ SameWork(c) /\ call'[c].todo = call[c].todo /\ call'[c].conf = {}
    BY <2>1, <2>2, Becomes DEF At, SameWork
  <2>4. CASE dir[p] = None /\ dir' = dir
    <3>1. TrialsIn(p)' = TrialsIn(p) /\ FilesIn(p)' = {}
      BY <2>4 DEF TrialsIn, FilesIn
    <3>2. QED BY <2>3, <2>4, <3>1 DEF RemoveFiles, DirOK, Elsewhere
  <2>5. CASE dir[p] # None /\ dir' = [dir EXCEPT ![p].files = {}, ![p].result = None]
    <3> DEFINE d == [dir[p] EXCEPT !.files = {}, !.result = None]
    <3>1. dir[p] \in JobDir
      BY <2>5, DirIs
    <3>2. d \in JobDir /\ d.trials = dir[p].trials /\ d.files = {} /\ d.result = None
      BY <3>1 DEF JobDir
    <3>3. dir' = [dir EXCEPT ![p] = d]
      BY <2>5
    <3> HIDE DEF d
    <3>4. DirOK' /\ Elsewhere(p) /\ dir'[p] = d /\ d # None
      BY <3>2, <3>3, JobsAssumption DEF DirOK, Elsewhere
    <3>5. TrialsIn(p)' = TrialsIn(p) /\ FilesIn(p)' = {}
      BY <2>5, <3>2, <3>4 DEF TrialsIn, FilesIn
    <3>6. QED BY <2>3, <2>5, <3>2, <3>4, <3>5 DEF RemoveFiles
  <2>6. QED BY <2>4, <2>5 DEF RemoveFiles, Missed
<1>3. QED BY <1>1, <1>2 DEF RemoveFiles, Missed

LEMMA RemoveDirIs ==
  ASSUME DirOK, CallOK, NEW c \in Calls, RemoveDir(c), NEW p \in Paths, p = Removed(c)
  PROVE  /\ DirOK' /\ CallOK' /\ Others(c) /\ Elsewhere(p) /\ Removing(c) /\ call[c].todo = {} /\ call[c].conf = {}
         /\ \/ dir[p] = NewDir /\ dir'[p] = None /\ GoesOn(c) /\ At(c)' = AfterRemoval(c)
            \/ dir[p] # NewDir /\ Goto(c, "failed") /\ At(c)' = "failed" /\ dir' = dir
<1>1. CASE dir[p] = NewDir /\ dir' = [dir EXCEPT ![p] = None] /\ GoesOn(c)
  BY <1>1, GoesOnIs DEF RemoveDir, DirOK, Elsewhere
<1>2. CASE dir[p] # NewDir /\ Goto(c, "failed") /\ dir' = dir
  BY <1>2, Goes DEF RemoveDir, DirOK, Elsewhere, Places, Over
<1>3. QED BY <1>1, <1>2 DEF RemoveDir

LEMMA WriteConfigIs ==
  ASSUME DirOK, CallOK, NEW c \in Calls, WriteConfig(c), NEW p, p = JobOf[CallRun(c)]
  PROVE  /\ DirOK' /\ CallOK' /\ Others(c) /\ Elsewhere(p) /\ At(c) = "config"
         /\ \/ call[c].conf = {} /\ GiveUp(c) /\ dir' = dir
            \/ call[c].conf # {} /\ dir[p] = None /\ At(c)' = "failed" /\ dir' = dir /\ call'[c] = Doing("failed", None, <<>>)
            \/ /\ call[c].conf # {} /\ dir[p] # None
               /\ At(c)' = "read" /\ call'[c].goal = call[c].goal /\ call'[c].left = call[c].left /\ call'[c].held = call[c].held
               /\ dir'[p] # None /\ dir'[p].files = {"config"} /\ TrialsIn(p)' = TrialsIn(p)
<1>1. p \in Paths
  BY CallRunIs
<1>2. CASE call[c].conf = {} /\ GiveUp(c)
  BY <1>2, GiveUpIs DEF WriteConfig, Elsewhere
<1>3. CASE call[c].conf # {} /\ dir[p] = None /\ Goto(c, "failed") /\ UNCHANGED dir
  BY <1>3, Goes DEF WriteConfig, Places, Over, DirOK, Elsewhere
<1>4. CASE /\ call[c].conf # {} /\ dir[p] # None /\ dir' = [dir EXCEPT ![p].files = {"config"}]
           /\ call' = [call EXCEPT ![c].at = "read"]
  <2> DEFINE w == [call[c] EXCEPT !.at = "read"]
             d == [dir[p] EXCEPT !.files = {"config"}]
  <2>1. call' = [call EXCEPT ![c] = w] /\ dir' = [dir EXCEPT ![p] = d]
    BY <1>4
  <2>2. call[c] \in Work /\ "read" \in Places
    BY CallIs DEF Places
  <2>3. w \in Work /\ w.at = "read" /\ w.goal = call[c].goal /\ w.left = call[c].left /\ w.held = call[c].held
    BY <2>2 DEF Work
  <2>4. d \in JobDir /\ d.files = {"config"} /\ d.trials = dir[p].trials
    BY <1>1, <1>4, DirIs DEF JobDir
  <2> HIDE DEF w, d
  <2>5. CallOK' /\ Others(c) /\ call'[c] = w /\ At(c)' = w.at
    BY <2>1, <2>3, Becomes
  <2>6. DirOK' /\ Elsewhere(p) /\ dir'[p] = d /\ d # None
    BY <1>1, <2>1, <2>4, JobsAssumption DEF DirOK, Elsewhere
  <2>7. TrialsIn(p)' = TrialsIn(p)
    BY <1>4, <2>4, <2>6 DEF TrialsIn
  <2>8. QED BY <1>4, <2>3, <2>4, <2>5, <2>6, <2>7 DEF WriteConfig
<1>5. QED BY <1>2, <1>3, <1>4 DEF WriteConfig

LEMMA ReadTrialsIs ==
  ASSUME DirOK, CallOK, NEW c \in Calls, ReadTrials(c), NEW p, p = JobOf[CallRun(c)]
  PROVE  /\ DirOK' /\ CallOK' /\ Others(c) /\ Elsewhere(p) /\ At(c) = "read"
         /\ \/ ~Readable(dir[p]) /\ GiveUp(c) /\ dir' = dir
            \/ /\ Readable(dir[p]) /\ At(c)' = "write" /\ dir' = dir /\ call'[c].seen = TrialsIn(p)
               /\ call'[c].goal = call[c].goal /\ call'[c].left = call[c].left /\ call'[c].held = call[c].held
<1>1. p \in Paths
  BY CallRunIs
<1>2. CASE ~Readable(dir[p]) /\ GiveUp(c)
  BY <1>2, GiveUpIs DEF ReadTrials, Elsewhere
<1>3. CASE /\ Readable(dir[p]) /\ UNCHANGED dir
           /\ call' = [call EXCEPT ![c].at = "write", ![c].seen = TrialsIn(p)]
  <2> DEFINE w == [call[c] EXCEPT !.at = "write", !.seen = TrialsIn(p)]
  <2>1. call' = [call EXCEPT ![c] = w]
    BY <1>3
  <2>2. call[c] \in Work /\ "write" \in Places /\ TrialsIn(p) \in SUBSET Trial
    BY <1>1, CallIs, DirIs DEF Places
  <2>3. w \in Work /\ w.at = "write" /\ w.seen = TrialsIn(p)
    BY <2>2 DEF Work
  <2>4. w.goal = call[c].goal /\ w.left = call[c].left /\ w.held = call[c].held
    BY <2>2 DEF Work
  <2> HIDE DEF w
  <2>5. CallOK' /\ Others(c) /\ call'[c] = w /\ At(c)' = w.at
    BY <2>1, <2>3, Becomes
  <2>6. QED BY <1>3, <2>3, <2>4, <2>5 DEF ReadTrials, DirOK, Elsewhere
<1>4. QED BY <1>2, <1>3 DEF ReadTrials

LEMMA WriteResultIs ==
  ASSUME DirOK, CallOK, NEW c \in Calls, WriteResult(c), NEW p, p = JobOf[CallRun(c)]
  PROVE  /\ DirOK' /\ CallOK' /\ Others(c) /\ Elsewhere(p) /\ At(c) = "write"
         /\ \/ dir[p] = None /\ GiveUp(c) /\ dir' = dir
            \/ /\ At(c)' = "done" /\ call'[c] = Doing("done", None, <<>>)
               /\ dir[p] # None /\ dir'[p] # None /\ dir'[p].files = dir[p].files
               /\ TrialsIn(p)' = TrialsIn(p) /\ dir'[p].trials = dir[p].trials /\ dir'[p].result = call[c].seen
<1>1. p \in Paths
  BY CallRunIs
<1>2. CASE dir[p] = None /\ GiveUp(c)
  BY <1>2, GiveUpIs DEF WriteResult, Elsewhere
<1>3. CASE dir[p] # None /\ dir' = [dir EXCEPT ![p].result = call[c].seen] /\ Goto(c, "done")
  <2> DEFINE d == [dir[p] EXCEPT !.result = call[c].seen]
  <2>1. dir' = [dir EXCEPT ![p] = d]
    BY <1>3
  <2>2. dir[p] \in JobDir /\ call[c].seen \subseteq Trial
    BY <1>1, <1>3, DirIs, CallIs
  <2>3. d \in JobDir /\ d.files = dir[p].files /\ d.trials = dir[p].trials /\ d.result = call[c].seen
    BY <2>2 DEF JobDir
  <2> HIDE DEF d
  <2>4. CallOK' /\ Others(c) /\ At(c)' = "done" /\ call'[c] = Doing("done", None, <<>>)
    BY <1>3, Goes DEF Places, Over
  <2>5. DirOK' /\ Elsewhere(p) /\ dir'[p] = d /\ d # None
    BY <1>1, <2>1, <2>3, JobsAssumption DEF DirOK, Elsewhere
  <2>6. TrialsIn(p)' = TrialsIn(p)
    BY <1>3, <2>3, <2>5 DEF TrialsIn
  <2>7. QED BY <1>3, <2>3, <2>4, <2>5, <2>6 DEF WriteResult
<1>4. QED BY <1>2, <1>3 DEF WriteResult

LEMMA MoveImportedIs ==
  ASSUME DirOK, CallOK, NEW c \in Calls, MoveImported(c), c.on \in Batches
  PROVE  /\ DirOK' /\ CallOK' /\ Others(c) /\ Elsewhere(c.on) /\ At(c) = "move"
         /\ call'[c] = Doing(At(c)', None, <<>>) /\ At(c)' = IF IsRerun(c.on) THEN "merge" ELSE "plan"
         /\ dir'[c.on] # None
         /\ \/ dir[c.on] = None /\ dir'[c.on] = Whole(Ran(c.on, c.n))
            \/ dir[c.on] # None /\ dir'[c.on].trials = dir[c.on].trials \cup {Nested(c.on, c.n)}
<1>1. c.on \in Paths /\ c.n \in Attempts
  BY DEF Paths, Attempts
<1>2. Ran(c.on, c.n) \subseteq Trial /\ Nested(c.on, c.n) \in Trial
  BY <1>1, RanIs
<1>3. /\ CallOK' /\ Others(c) /\ At(c)' = (IF IsRerun(c.on) THEN "merge" ELSE "plan")
      /\ call'[c] = Doing(At(c)', None, <<>>)
  <2>1. PICK place \in Places : place = IF IsRerun(c.on) THEN "merge" ELSE "plan"
    BY DEF Places
  <2>2. Goto(c, place)
    BY <2>1 DEF MoveImported
  <2>3. QED BY <2>1, <2>2, Goes
<1> DEFINE d == [dir[c.on] EXCEPT !.trials = @ \cup {Nested(c.on, c.n)}]
<1>4. dir' = [dir EXCEPT ![c.on] = IF dir[c.on] = None THEN Whole(Ran(c.on, c.n)) ELSE d]
  BY DEF MoveImported
<1>5. CASE dir[c.on] = None
  <2>1. dir' = [dir EXCEPT ![c.on] = Whole(Ran(c.on, c.n))]
    BY <1>5, <1>4
  <2>2. Whole(Ran(c.on, c.n)) \in JobDir
    BY <1>2 DEF Whole, JobDir
  <2>3. DirOK' /\ Elsewhere(c.on) /\ dir'[c.on] = Whole(Ran(c.on, c.n)) /\ dir'[c.on] # None
    BY <1>1, <2>1, <2>2, JobsAssumption DEF DirOK, Elsewhere
  <2>4. QED BY <1>3, <1>5, <2>3 DEF MoveImported
<1>6. CASE dir[c.on] # None
  <2>1. dir' = [dir EXCEPT ![c.on] = d]
    BY <1>6, <1>4
  <2>2. d \in JobDir /\ d.trials = dir[c.on].trials \cup {Nested(c.on, c.n)}
    BY <1>1, <1>2, <1>6, DirIs DEF JobDir
  <2> HIDE DEF d
  <2>3. DirOK' /\ Elsewhere(c.on) /\ dir'[c.on] = d /\ d # None
    BY <1>1, <2>1, <2>2, JobsAssumption DEF DirOK, Elsewhere
  <2>4. QED BY <1>3, <1>6, <2>2, <2>3 DEF MoveImported
<1>7. QED BY <1>5, <1>6

LEMMA CopyMetadataIs ==
  ASSUME DirOK, CallOK, NEW c \in Calls, CopyMetadata(c), c.on \in Batches, NEW p \in Paths, p = ParentBatch[c.on]
  PROVE  /\ DirOK' /\ CallOK' /\ Others(c) /\ Elsewhere(p) /\ At(c) = "meta" /\ At(c)' = "check"
         /\ call'[c] = Doing("check", None, <<>>)
         /\ dir'[p] # None /\ TrialsIn(p)' = TrialsIn(p)
<1>1. CallOK' /\ Others(c) /\ At(c)' = "check" /\ call'[c] = Doing("check", None, <<>>)
  BY Goes DEF CopyMetadata, Places
<1>2. c.on \in Paths /\ Into(p) \in JobDir /\ Into(p).trials = TrialsIn(p) /\ Into(p) # None
  BY DirIs DEF Paths
<1>3. dir[c.on] # None => dir[c.on] \in JobDir
  BY <1>2, DirIs
<1>4. PICK d \in JobDir : d.trials = TrialsIn(p) /\ dir' = [dir EXCEPT ![p] = d]
  <2>1. CASE dir[c.on] = None
    BY <1>2, <2>1 DEF CopyMetadata
  <2>2. CASE dir[c.on] # None
    <3> DEFINE d == [files |-> Into(p).files \cup dir[c.on].files, trials |-> Into(p).trials,
                     result |-> IF Into(p).result = None THEN dir[c.on].result ELSE Into(p).result]
    <3>1. dir' = [dir EXCEPT ![p] = d]
      BY <2>2 DEF CopyMetadata
    <3>2. d \in JobDir /\ d.trials = TrialsIn(p)
      BY <1>2, <1>3, <2>2 DEF JobDir
    <3> HIDE DEF d
    <3>3. QED BY <3>1, <3>2
  <2>3. QED BY <2>1, <2>2
<1>5. DirOK' /\ Elsewhere(p) /\ dir'[p] = d /\ d # None
  BY <1>4, JobsAssumption DEF DirOK, Elsewhere
<1>6. QED BY <1>1, <1>4, <1>5 DEF CopyMetadata, TrialsIn

-----------------------------------------------------------------------------
(* What a call works on, and where it writes.                               *)

\* What is left to copy goes where the goal says.
Fits(c, goal, left) ==
  /\ goal = "merged" => \A i \in DOMAIN left : left[i].to = JobOf[CallRun(c)] /\ left[i].from \in PrimaryOf(CallRun(c))
  /\ goal = "final"  => IsRerun(c.on) /\ \A i \in DOMAIN left : left[i].to = JobOf[CallRun(c)]
  /\ goal = "parent" => IsRerun(c.on) /\ \A i \in DOMAIN left : left[i].to = ParentBatch[c.on]
  /\ goal = "repair" => c.on \in Runs /\ \A i \in DOMAIN left : /\ left[i].from \in Reruns[c.on]
                                                                /\ left[i].to = ParentBatch[left[i].from]

\* A place is one for calls of this kind.
Suits(c, place) ==
  /\ place \in {"clear", "clearing", "move", "update", "merge", "meta", "check"} => c.on \in Batches
  /\ place \in {"clear", "clearing", "move"} => c.kind = "archive"
  /\ place \in {"view", "start", "repair", "rows"} => c.on \in Runs
  /\ place = "start" => c.on \in Derived
  /\ place \in {"merge", "meta", "check"} => IsRerun(c.on)

Aimed(c) ==
  /\ Suits(c, At(c))
  /\ Fits(c, call[c].goal, call[c].left)
  /\ At(c) \in {"source", "copy"} => call[c].left # <<>> /\ call[c].goal # None
  /\ At(c) \in {"remove", "removing"} => (call[c].goal = "merged" /\ call[c].left # <<>>) \/ call[c].goal = None
  /\ At(c) = "source" => call[c].held = None
AllAimed == \A c \in Calls : Aimed(c)

Target(c) ==
  IF At(c) \in {"source", "copy"} THEN Here(c).to
  ELSE IF At(c) = "meta" THEN ParentBatch[c.on]
  ELSE IF At(c) \in {"clear", "clearing", "move"} THEN c.on
  ELSE JobOf[CallRun(c)]

\* A step of one call.
Steps(c) ==
  /\ DirOK' /\ CallOK' /\ Aimed(c)'
  /\ Others(c) /\ call'[c] # call[c]
  /\ Elsewhere(Target(c))

LEMMA FitsTail ==
  ASSUME NEW c \in Calls, NEW goal, NEW left \in Seq(Pairs), left # <<>>, Fits(c, goal, left)
  PROVE  Fits(c, goal, Tail(left))
<1>1. Tail(left) \in Seq(Pairs) /\ Len(Tail(left)) = Len(left) - 1 /\ \A i \in 1..Len(left) - 1 : Tail(left)[i] = left[i + 1]
  BY TailIs
<1>2. Len(left) \in Nat \ {0} /\ DOMAIN left = 1..Len(left) /\ DOMAIN Tail(left) = 1..Len(left) - 1
  BY <1>1, TailIs, LenProperties
<1>3. \A i \in DOMAIN Tail(left) : i + 1 \in DOMAIN left /\ Tail(left)[i] = left[i + 1]
  BY <1>1, <1>2
<1>4. QED BY <1>3 DEF Fits

LEMMA GoesAimed ==
  ASSUME CallOK, NEW c \in Calls, NEW place \in Places \ {"source", "copy"}, Goto(c, place), Suits(c, place)
  PROVE  CallOK' /\ Others(c) /\ At(c)' = place /\ Aimed(c)'
<1>1. CallOK' /\ Others(c) /\ At(c)' = place /\ call'[c].goal = None /\ call'[c].left = <<>>
  BY Goes
<1>2. Fits(c, None, <<>>)
  BY JobsAssumption DEF Fits, Goals
<1>3. QED BY <1>1, <1>2 DEF Aimed

LEMMA KindIs ==
  ASSUME NEW c \in Calls
  PROVE  \/ c.kind \in {"archive", "final"} /\ c.on \in Batches /\ c.on \notin Runs
         \/ c.kind \in {"view", "repair"} /\ c.on \in Runs /\ c.on \notin Batches /\ CallRun(c) = c.on
         \/ c.kind = "start" /\ c.on \in Derived /\ c.on \in Runs /\ c.on \notin Batches /\ CallRun(c) = c.on
  BY JobsAssumption DEF Derived, CallRun

LEMMA CopyingSteps ==
  ASSUME DirOK, CallOK, AllAimed, NEW c \in Calls, Copying(c)
  PROVE  Steps(c)
<1>1. Aimed(c) /\ (At(c) \in {"source", "copy"} => call[c].left # <<>> /\ call[c].goal # None)
  BY DEF AllAimed, Aimed
<1>2. PICK p, q : p = Here(c).to /\ q = Here(c).from
  OBVIOUS
<1>3. CASE NextSource(c)
  <2>1. call[c].left # <<>> /\ Target(c) = p
    BY <1>1, <1>2, <1>3 DEF NextSource, Target
  <2>2. /\ DirOK' /\ CallOK' /\ Others(c) /\ Elsewhere(p)
        /\ At(c) = "source" /\ At(c)' = "copy" /\ call'[c].goal = call[c].goal /\ call'[c].left = call[c].left
    BY <1>2, <1>3, <2>1, NextSourceIs
  <2>3. Aimed(c)'
    BY <1>1, <2>2 DEF Aimed, Suits
  <2>4. QED BY <2>1, <2>2, <2>3 DEF Steps, At
<1>4. CASE RemoveMatching(c)
  <2>1. call[c].left # <<>> /\ Target(c) = p
    BY <1>1, <1>2, <1>4 DEF RemoveMatching, Target
  <2>2. PICK t \in call[c].todo :
        /\ DirOK' /\ CallOK' /\ Others(c) /\ Elsewhere(p)
        /\ At(c) = "copy" /\ At(c)' = "copy" /\ call'[c].goal = call[c].goal /\ call'[c].left = call[c].left
        /\ call[c].held = None /\ call'[c].held = t
    BY <1>2, <1>4, <2>1, RemoveMatchingIs
  <2>3. t # None
    BY CallIs, JobsAssumption
  <2>4. Aimed(c)'
    BY <1>1, <2>2 DEF Aimed, Suits
  <2>5. QED BY <2>1, <2>2, <2>3, <2>4 DEF Steps
<1>5. CASE CopyTrial(c)
  <2>1. call[c].left # <<>> /\ Target(c) = p
    BY <1>1, <1>2, <1>5 DEF CopyTrial, Target
  <2>2. /\ DirOK' /\ CallOK' /\ Others(c) /\ Elsewhere(p)
        /\ At(c) = "copy" /\ call[c].held # None /\ call'[c].held = None
        /\ \/ Goto(c, "failed")
           \/ At(c)' = "copy" /\ call'[c].goal = call[c].goal /\ call'[c].left = call[c].left
    BY <1>2, <1>5, <2>1, CopyTrialIs
  <2>3. CASE Goto(c, "failed")
    <3>1. Aimed(c)'
      BY <2>3, GoesAimed DEF Suits, Places, Over
    <3>2. QED BY <2>1, <2>2, <3>1 DEF Steps
  <2>4. CASE At(c)' = "copy" /\ call'[c].goal = call[c].goal /\ call'[c].left = call[c].left
    <3>1. Aimed(c)'
      BY <1>1, <2>2, <2>4 DEF Aimed, Suits
    <3>2. QED BY <2>1, <2>2, <3>1 DEF Steps
  <2>5. QED BY <2>2, <2>3, <2>4
<1>6. CASE EndSource(c)
  <2>1. call[c].left # <<>> /\ call[c].goal # None /\ call[c].left \in Seq(Pairs) /\ call[c].goal \in Goals
    BY <1>1, <1>6, CallIs DEF EndSource
  <2>2. /\ CallOK' /\ Others(c) /\ dir' = dir
        /\ At(c) = "copy" /\ call'[c].goal = call[c].goal /\ call'[c].held = None
        /\ \/ At(c)' = AfterCopy(call[c].goal) /\ call'[c].left = call[c].left
           \/ At(c)' = "source" /\ call'[c].left = Tail(call[c].left) /\ call'[c].left # <<>>
    BY <1>6, <2>1, EndSourceIs
  <2>3. Fits(c, call[c].goal, call'[c].left)
    BY <1>1, <2>1, <2>2, FitsTail DEF Aimed
  <2>4. /\ At(c)' \notin {"copy", "remove", "removing"} /\ Suits(c, At(c)')
    <3>1. CASE At(c)' = "source"
      BY <3>1 DEF Suits
    <3>2. CASE At(c)' = AfterCopy(call[c].goal)
      <4>1. call[c].goal = "parent" => IsRerun(c.on) /\ c.on \in Batches
        BY <1>1, JobsAssumption, RerunIs, RunOfIs DEF Aimed, Fits, IsRerun
      <4>2. call[c].goal = "repair" => c.on \in Runs
        BY <1>1 DEF Aimed, Fits
      <4>3. \/ call[c].goal = "merged" /\ At(c)' = "config"
            \/ call[c].goal = "parent" /\ At(c)' = "meta"
            \/ call[c].goal = "final" /\ At(c)' = "read"
            \/ call[c].goal = "repair" /\ At(c)' = "rows"
        BY <2>1, <3>2 DEF AfterCopy, Goals
      <4>4. QED BY <4>1, <4>2, <4>3 DEF Suits
    <3>3. QED BY <2>2, <3>1, <3>2
  <2>5. Aimed(c)'
    BY <2>1, <2>2, <2>3, <2>4 DEF Aimed
  <2>6. DirOK' /\ Elsewhere(Target(c))
    BY <2>2 DEF DirOK, Elsewhere
  <2>7. QED BY <2>2, <2>4, <2>5, <2>6 DEF Steps, At
<1>7. QED BY <1>3, <1>4, <1>5, <1>6 DEF Copying

LEMMA GiveUpSteps ==
  ASSUME DirOK, CallOK, NEW c \in Calls, GiveUp(c), At(c) \in {"config", "read", "write"}
  PROVE  Steps(c)
<1>1. DirOK' /\ CallOK' /\ Others(c) /\ dir' = dir /\ At(c)' # At(c)
  BY GiveUpIs
<1>2. PICK place \in {"remove", "done"} : Goto(c, place)
  BY DEF GiveUp
<1>3. Aimed(c)'
  BY <1>2, GoesAimed DEF Suits, Places, Over
<1>4. QED BY <1>1, <1>3 DEF Steps, At, Elsewhere

LEMMA RemovedIs ==
  ASSUME NEW c \in Calls, At(c) \in {"clear", "clearing", "remove", "removing"}, Suits(c, At(c))
  PROVE  Removed(c) = Target(c) /\ Removed(c) \in Paths
BY CallRunIs DEF Removed, Target, Suits, Paths

LEMMA GoesOnAimed ==
  ASSUME CallOK, NEW c \in Calls, Aimed(c), At(c) \in {"clear", "clearing", "remove", "removing"}, GoesOn(c)
  PROVE  Aimed(c)' /\ At(c)' # At(c) /\ At(c)' \notin {"clear", "clearing", "remove", "removing"}
<1>1. /\ At(c)' = AfterRemoval(c) /\ call'[c].held = None
      /\ call'[c].goal = call[c].goal /\ call'[c].left = call[c].left
  BY GoesOnIs
<1>2. CASE At(c) \in {"clear", "clearing"}
  <2>1. At(c)' = "move"
    BY <1>1, <1>2 DEF AfterRemoval
  <2>2. QED BY <1>1, <1>2, <2>1 DEF Aimed, Suits
<1>3. CASE At(c) \in {"remove", "removing"} /\ call[c].goal = "merged"
  <2>1. At(c)' = "source"
    BY <1>1, <1>3 DEF AfterRemoval
  <2>2. QED BY <1>1, <1>3, <2>1, JobsAssumption DEF Aimed, Suits, Goals
<1>4. CASE At(c) \in {"remove", "removing"} /\ call[c].goal # "merged"
  <2>1. At(c)' = "done"
    BY <1>1, <1>4 DEF AfterRemoval
  <2>2. QED BY <1>1, <1>4, <2>1 DEF Aimed, Suits
<1>5. QED BY <1>2, <1>3, <1>4

LEMMA ClearingSteps ==
  ASSUME DirOK, CallOK, AllAimed, NEW c \in Calls, Clearing(c)
  PROVE  Steps(c)
<1>1. Aimed(c) /\ Suits(c, At(c))
  BY DEF AllAimed, Aimed
<1>2. At(c) \in {"clear", "clearing", "remove", "removing"}
  BY DEF Clearing, ListRemoved, RemoveTrial, RemoveFiles, RemoveDir, Removing
<1>3. PICK p \in Paths : p = Removed(c) /\ p = Target(c)
  BY <1>1, <1>2, RemovedIs
<1>4. ASSUME SameWork(c), CallOK' PROVE Aimed(c)'
  BY <1>1, <1>4 DEF Aimed, SameWork, Suits
<1>5. ASSUME Goto(c, "failed") PROVE Aimed(c)' /\ At(c)' = "failed"
  BY <1>5, GoesAimed DEF Suits, Places, Over
<1>6. CASE ListRemoved(c)
  <2>1. /\ DirOK' /\ CallOK' /\ Others(c) /\ dir' = dir /\ At(c) \in {"clear", "remove"}
        /\ call'[c].goal = call[c].goal /\ call'[c].left = call[c].left
        /\ GoesOn(c) \/ At(c)' = IF At(c) = "clear" THEN "clearing" ELSE "removing"
    BY <1>3, <1>6, ListRemovedIs
  <2>2. CASE GoesOn(c)
    BY <1>1, <1>2, <2>1, <2>2, GoesOnAimed DEF Steps, Elsewhere, At
  <2>3. CASE At(c)' = IF At(c) = "clear" THEN "clearing" ELSE "removing"
    <3>1. Aimed(c)' /\ At(c)' # At(c)
      BY <1>1, <2>1, <2>3 DEF Aimed, Suits
    <3>2. QED BY <2>1, <3>1 DEF Steps, Elsewhere, At
  <2>4. QED BY <2>1, <2>2, <2>3
<1>7. CASE RemoveTrial(c)
  <2>1. PICK t \in call[c].todo :
          /\ DirOK' /\ CallOK' /\ Others(c) /\ Elsewhere(p)
          /\ Goto(c, "failed") \/ (SameWork(c) /\ call'[c].todo = call[c].todo \ {t})
    BY <1>3, <1>7, RemoveTrialIs
  <2>2. Aimed(c)' /\ call'[c] # call[c]
    BY <1>2, <1>4, <1>5, <2>1 DEF At
  <2>3. QED BY <1>3, <2>1, <2>2 DEF Steps
<1>8. CASE RemoveFiles(c)
  <2>1. /\ DirOK' /\ CallOK' /\ Others(c) /\ Elsewhere(p)
        /\ Goto(c, "failed") \/ (SameWork(c) /\ call'[c].conf = {} /\ call[c].conf # {})
    BY <1>3, <1>8, RemoveFilesIs
  <2>2. Aimed(c)' /\ call'[c] # call[c]
    BY <1>2, <1>4, <1>5, <2>1 DEF At
  <2>3. QED BY <1>3, <2>1, <2>2 DEF Steps
<1>9. CASE RemoveDir(c)
  <2>1. DirOK' /\ CallOK' /\ Others(c) /\ Elsewhere(p) /\ (GoesOn(c) \/ Goto(c, "failed"))
    BY <1>3, <1>9, RemoveDirIs
  <2>2. Aimed(c)' /\ call'[c] # call[c]
    BY <1>1, <1>2, <1>5, <2>1, GoesOnAimed DEF At
  <2>3. QED BY <1>3, <2>1, <2>2 DEF Steps
<1>10. QED BY <1>6, <1>7, <1>8, <1>9 DEF Clearing

LEMMA MergingSteps ==
  ASSUME DirOK, CallOK, AllAimed, NEW c \in Calls, Merging(c)
  PROVE  Steps(c)
<1>1. Aimed(c)
  BY DEF AllAimed
<1>2. CallRun(c) \in Runs /\ JobOf[CallRun(c)] \in Paths
  BY CallRunIs
<1>3. CASE View(c)
  <2>1. PICK place \in {"done", "plan"} : Goto(c, place)
    BY <1>3 DEF View
  <2>2. CallOK' /\ Others(c) /\ At(c)' = place /\ Aimed(c)'
    BY <2>1, GoesAimed DEF Suits, Places, Over
  <2>3. At(c) = "view" /\ dir' = dir
    BY <1>3 DEF View
  <2>4. QED BY <2>2, <2>3 DEF Steps, At, DirOK, Elsewhere
<1>4. CASE Plan(c)
  <2>1. At(c) = "plan" /\ dir' = dir
    BY <1>4 DEF Plan
  <2>2. PICK sources \in Sources(CallRun(c)) :
          IF sources = <<>> THEN Goto(c, "done") ELSE call' = [call EXCEPT ![c] = Doing("remove", "merged", sources)]
    BY <1>4 DEF Plan
  <2>3. /\ sources \in Seq(Pairs)
        /\ \A i \in DOMAIN sources : sources[i].to = JobOf[CallRun(c)] /\ sources[i].from \in PrimaryOf(CallRun(c))
    BY <1>2, <2>2, SourcesAre
  <2>4. CASE sources = <<>>
    <3>1. CallOK' /\ Others(c) /\ At(c)' = "done" /\ Aimed(c)'
      BY <2>2, <2>4, GoesAimed DEF Suits, Places, Over
    <3>2. QED BY <2>1, <3>1 DEF Steps, At, DirOK, Elsewhere
  <2>5. CASE sources # <<>>
    <3>1. /\ CallOK' /\ Others(c) /\ At(c)' = "remove" /\ call'[c].goal = "merged" /\ call'[c].left = sources
          /\ call'[c].held = None
      <4>1. PICK place \in Places, goal \in Goals \cup {None} : place = "remove" /\ goal = "merged"
        BY DEF Places, Goals
      <4>2. call' = [call EXCEPT ![c] = Doing(place, goal, sources)]
        BY <2>2, <2>5, <4>1
      <4>3. sources \in Seq(Pairs)
        BY <2>3
      <4>4. /\ CallOK' /\ Others(c) /\ At(c)' = place /\ call'[c].goal = goal /\ call'[c].left = sources
            /\ call'[c].held = None
        BY <4>2, <4>3, Does
      <4>5. QED BY <4>1, <4>4
    <3>2. Fits(c, "merged", sources)
      BY <2>3 DEF Fits
    <3>3. "merged" # None
      BY JobsAssumption DEF Goals
    <3>4. Aimed(c)'
      BY <2>5, <3>1, <3>2, <3>3 DEF Aimed, Suits
    <3>5. QED BY <2>1, <3>1, <3>4 DEF Steps, At, DirOK, Elsewhere
  <2>6. QED BY <2>4, <2>5
<1>6. CASE WriteConfig(c)
  <2>1. /\ DirOK' /\ CallOK' /\ Others(c) /\ Elsewhere(JobOf[CallRun(c)]) /\ At(c) = "config"
        /\ \/ GiveUp(c)
           \/ call'[c] = Doing("failed", None, <<>>) /\ dir' = dir
           \/ At(c)' = "read" /\ call'[c].goal = call[c].goal /\ call'[c].left = call[c].left
    BY <1>6, WriteConfigIs
  <2>2. Target(c) = JobOf[CallRun(c)]
    BY <2>1 DEF Target
  <2>3. CASE GiveUp(c)
    BY <2>1, <2>3, GiveUpSteps
  <2>4. CASE call'[c] = Doing("failed", None, <<>>) /\ dir' = dir
    <3>1. At(c)' = "failed" /\ call'[c].goal = None /\ call'[c].left = <<>>
      BY <2>4 DEF At, Doing
    <3>2. Fits(c, None, <<>>)
      BY JobsAssumption DEF Fits, Goals
    <3>3. Aimed(c)'
      BY <3>1, <3>2 DEF Aimed, Suits
    <3>4. QED BY <2>1, <2>2, <3>1, <3>3 DEF Steps, At
  <2>5. CASE At(c)' = "read" /\ call'[c].goal = call[c].goal /\ call'[c].left = call[c].left
    <3>1. Aimed(c)'
      BY <1>1, <2>5 DEF Aimed, Suits
    <3>2. QED BY <2>1, <2>2, <2>5, <3>1 DEF Steps, At
  <2>6. QED BY <2>1, <2>3, <2>4, <2>5
<1>7. CASE ReadTrials(c)
  <2>1. /\ DirOK' /\ CallOK' /\ Others(c) /\ Elsewhere(JobOf[CallRun(c)]) /\ At(c) = "read"
        /\ \/ GiveUp(c)
           \/ At(c)' = "write" /\ call'[c].goal = call[c].goal /\ call'[c].left = call[c].left
    BY <1>7, ReadTrialsIs
  <2>2. CASE GiveUp(c)
    BY <2>1, <2>2, GiveUpSteps
  <2>3. CASE At(c)' = "write" /\ call'[c].goal = call[c].goal /\ call'[c].left = call[c].left
    <3>1. Aimed(c)'
      BY <1>1, <2>3 DEF Aimed, Suits
    <3>2. Target(c) = JobOf[CallRun(c)]
      BY <2>1 DEF Target
    <3>3. QED BY <2>1, <2>3, <3>1, <3>2 DEF Steps, At
  <2>4. QED BY <2>1, <2>2, <2>3
<1>8. CASE FinalizeFails(c)
  BY <1>8, GiveUpSteps DEF FinalizeFails
<1>9. CASE WriteResult(c)
  <2>1. /\ DirOK' /\ CallOK' /\ Others(c) /\ Elsewhere(JobOf[CallRun(c)]) /\ At(c) = "write"
        /\ GiveUp(c) \/ Goto(c, "done")
    BY <1>9, WriteResultIs DEF WriteResult
  <2>2. CASE GiveUp(c)
    BY <2>1, <2>2, GiveUpSteps
  <2>3. CASE Goto(c, "done")
    <3>1. At(c)' = "done" /\ Aimed(c)' /\ Target(c) = JobOf[CallRun(c)]
      BY <2>1, <2>3, GoesAimed DEF Suits, Target, Places, Over
    <3>2. QED BY <2>1, <3>1 DEF Steps, At
  <2>4. QED BY <2>1, <2>2, <2>3
<1>10. QED BY <1>3, <1>4, <1>6, <1>7, <1>8, <1>9 DEF Merging

LEMMA OnePair ==
  ASSUME NEW x \in Pairs
  PROVE  <<x>> \in Seq(Pairs) /\ <<x>> # <<>> /\ DOMAIN <<x>> = {1} /\ <<x>>[1] = x
<1>1. <<x>> \in Seq(Pairs) /\ Len(<<x>>) = 1 /\ <<x>>[1] = x
  OBVIOUS
<1>2. QED BY <1>1, LenProperties, EmptySeq

LEMMA HandlingSteps ==
  ASSUME DirOK, CallOK, AllAimed, NEW c \in Calls, Handling(c)
  PROVE  Steps(c)
<1>1. Aimed(c) /\ Suits(c, At(c))
  BY DEF AllAimed, Aimed
<1>2. CallRun(c) \in Runs /\ JobOf[CallRun(c)] \in Paths
  BY CallRunIs
<1>4. CASE MoveImported(c)
  <2>1. At(c) = "move" /\ c.on \in Batches
    BY <1>1, <1>4 DEF MoveImported, Suits
  <2>2. DirOK' /\ CallOK' /\ Others(c) /\ Elsewhere(c.on)
    BY <1>4, <2>1, MoveImportedIs
  <2>3. PICK place \in {"merge", "plan"} : Goto(c, place) /\ (place = "merge" => IsRerun(c.on))
    BY <1>4 DEF MoveImported
  <2>4. At(c)' = place /\ Aimed(c)'
    BY <2>1, <2>3, GoesAimed DEF Suits, Places, Over
  <2>5. QED BY <2>1, <2>2, <2>4 DEF Steps, At, Target
<1>5. CASE Update(c)
  <2>1. At(c) = "update" /\ c.on \in Batches /\ dir' = dir
    BY <1>1, <1>5 DEF Update, Suits
  <2>2. PICK place \in {"merge", "done"} : Goto(c, place) /\ (place = "merge" => IsRerun(c.on))
    BY <1>5 DEF Update
  <2>3. CallOK' /\ Others(c) /\ At(c)' = place /\ Aimed(c)'
    BY <2>1, <2>2, GoesAimed DEF Suits, Places, Over
  <2>4. QED BY <2>1, <2>3 DEF Steps, At, DirOK, Elsewhere
<1>6. CASE MergeImported(c)
  <2>1. At(c) = "merge" /\ c.on \in Batches /\ IsRerun(c.on) /\ dir' = dir
    BY <1>1, <1>6 DEF MergeImported, Suits
  <2>2. CASE CopyAll(c, "parent", <<[from |-> c.on, to |-> ParentBatch[c.on]]>>)
    <3> DEFINE left == <<[from |-> c.on, to |-> ParentBatch[c.on]]>>
    <3>1. ParentBatch[c.on] \in Paths
      BY <2>1, RerunIs DEF Paths
    <3>2. left \in Seq(Pairs) /\ left # <<>> /\ DOMAIN left = {1} /\ left[1].to = ParentBatch[c.on]
      <4>1. [from |-> c.on, to |-> ParentBatch[c.on]] \in Pairs
        BY <2>1, <3>1 DEF Pairs
      <4>2. QED BY <4>1, OnePair
    <3>3. "parent" # None /\ "parent" \in Goals /\ "source" \in Places
      BY JobsAssumption DEF Goals, Places
    <3>4. Fits(c, "parent", left)
      BY <2>1, <3>2 DEF Fits
    <3> HIDE DEF left
    <3>5. /\ CallOK' /\ Others(c) /\ At(c)' = "source" /\ call'[c].goal = "parent" /\ call'[c].left = left
          /\ call'[c].held = None
      <4>1. PICK place \in Places, goal \in Goals \cup {None} : place = "source" /\ goal = "parent"
        BY <3>3
      <4>2. call' = [call EXCEPT ![c] = Doing(place, goal, left)]
        BY <2>2, <4>1 DEF CopyAll, left
      <4>3. left \in Seq(Pairs)
        BY <3>2
      <4>4. /\ CallOK' /\ Others(c) /\ At(c)' = place /\ call'[c].goal = goal /\ call'[c].left = left
            /\ call'[c].held = None
        BY <4>2, <4>3, Does
      <4>5. QED BY <4>1, <4>4
    <3>6. Aimed(c)'
      BY <3>2, <3>3, <3>4, <3>5 DEF Aimed, Suits
    <3>7. QED BY <2>1, <3>5, <3>6 DEF Steps, At, DirOK, Elsewhere
  <2>3. ASSUME NEW place \in {"done", "check"}, Goto(c, place) PROVE Steps(c)
    <3>1. CallOK' /\ Others(c) /\ At(c)' = place /\ Aimed(c)'
      BY <2>1, <2>3, GoesAimed DEF Suits, Places, Over
    <3>2. QED BY <2>1, <3>1 DEF Steps, At, DirOK, Elsewhere
  <2>4. QED BY <1>6, <2>2, <2>3 DEF MergeImported
<1>7. CASE CopyMetadata(c)
  <2>1. At(c) = "meta" /\ c.on \in Batches /\ IsRerun(c.on) /\ ParentBatch[c.on] \in Paths
    BY <1>1, <1>7, RerunIs DEF CopyMetadata, Suits, Paths
  <2>2. DirOK' /\ CallOK' /\ Others(c) /\ Elsewhere(ParentBatch[c.on])
    BY <1>7, <2>1, CopyMetadataIs
  <2>3. At(c)' = "check" /\ Aimed(c)'
    BY <1>7, <2>1, GoesAimed DEF CopyMetadata, Suits, Places
  <2>4. QED BY <2>1, <2>2, <2>3 DEF Steps, At, Target
<1>8. CASE CheckComplete(c)
  <2>1. At(c) = "check" /\ c.on \in Batches /\ IsRerun(c.on) /\ dir' = dir
    BY <1>1, <1>8 DEF CheckComplete, Suits
  <2>2. CASE FinalCopy(c)
    <3> DEFINE left == <<[from |-> c.on, to |-> JobOf[CallRun(c)]]>>
    <3>1. left \in Seq(Pairs) /\ left # <<>> /\ DOMAIN left = {1} /\ left[1].to = JobOf[CallRun(c)]
      <4>1. [from |-> c.on, to |-> JobOf[CallRun(c)]] \in Pairs
        BY <1>2, <2>1 DEF Pairs
      <4>2. QED BY <4>1, OnePair
    <3>2. "final" # None /\ "final" \in Goals /\ "source" \in Places
      BY JobsAssumption DEF Goals, Places
    <3>3. Fits(c, "final", left)
      BY <2>1, <3>1 DEF Fits
    <3> HIDE DEF left
    <3>4. /\ CallOK' /\ Others(c) /\ At(c)' = "source" /\ call'[c].goal = "final" /\ call'[c].left = left
          /\ call'[c].held = None
      <4>1. PICK place \in Places, goal \in Goals \cup {None} : place = "source" /\ goal = "final"
        BY <3>2
      <4>2. call' = [call EXCEPT ![c] = Doing(place, goal, left)]
        BY <2>2, <4>1 DEF FinalCopy, CopyAll, left
      <4>3. left \in Seq(Pairs)
        BY <3>1
      <4>4. /\ CallOK' /\ Others(c) /\ At(c)' = place /\ call'[c].goal = goal /\ call'[c].left = left
            /\ call'[c].held = None
        BY <4>2, <4>3, Does
      <4>5. QED BY <4>1, <4>4
    <3>5. Aimed(c)'
      BY <3>1, <3>2, <3>3, <3>4 DEF Aimed, Suits
    <3>6. QED BY <2>1, <3>4, <3>5 DEF Steps, At, DirOK, Elsewhere
  <2>3. ASSUME NEW place \in {"done", "plan"}, Goto(c, place) PROVE Steps(c)
    <3>1. CallOK' /\ Others(c) /\ At(c)' = place /\ Aimed(c)'
      BY <2>3, GoesAimed DEF Suits, Places, Over
    <3>2. QED BY <2>1, <3>1 DEF Steps, At, DirOK, Elsewhere
  <2>4. QED BY <1>8, <2>2, <2>3 DEF CheckComplete
<1>9. QED BY <1>4, <1>5, <1>6, <1>7, <1>8 DEF Handling

LEMMA OtherSteps ==
  ASSUME DirOK, CallOK, AllAimed, NEW c \in Calls,
         Begin(c) \/ TimesOut(c) \/ StartRerun(c) \/ Repair(c) \/ Backfill(c)
  PROVE  Steps(c)
<1>1. Suits(c, At(c))
  BY DEF AllAimed, Aimed
<1>2. CASE Begin(c)
  <2>1. At(c) = "idle" /\ dir' = dir
    BY <1>2 DEF Begin
  <2>2. PICK place \in {"clear", "update", "view", "start", "repair"} :
          /\ Goto(c, place)
          /\ place \in {"clear", "update"} => c.kind \in {"archive", "final"}
          /\ place = "clear" => c.kind = "archive"
          /\ place \notin {"clear", "update"} => c.kind \notin {"archive", "final"} /\ place = c.kind
    <3>1. c.kind \in {"archive", "final", "view", "start", "repair"}
      BY KindIs
    <3>2. QED BY <1>2, <3>1 DEF Begin
  <2>3. Suits(c, place)
    BY <2>2, KindIs DEF Suits
  <2>4. CallOK' /\ Others(c) /\ At(c)' = place /\ Aimed(c)'
    BY <2>2, <2>3, GoesAimed DEF Places, Over
  <2>5. QED BY <2>1, <2>2, <2>4 DEF Steps, At, DirOK, Elsewhere
<1>3. CASE TimesOut(c)
  <2>1. At(c) = "idle" /\ dir' = dir /\ Goto(c, "update")
    BY <1>3 DEF TimesOut
  <2>2. Suits(c, "update")
    BY <1>3, KindIs DEF TimesOut, Suits
  <2>3. CallOK' /\ Others(c) /\ At(c)' = "update" /\ Aimed(c)'
    BY <2>1, <2>2, GoesAimed DEF Places, Over
  <2>4. QED BY <2>1, <2>3 DEF Steps, At, DirOK, Elsewhere
<1>4. CASE StartRerun(c)
  <2>1. At(c) = "start" /\ c.on \in Derived /\ c.on \in Runs
    BY <1>1, <1>4 DEF StartRerun, Suits, Derived
  <2>2. PICK place \in {"failed", "done"} : Goto(c, place)
    BY <1>4 DEF StartRerun
  <2>3. CallOK' /\ Others(c) /\ At(c)' = place /\ Aimed(c)'
    BY <2>2, GoesAimed DEF Suits, Places, Over
  <2>4. dir' = dir \/ dir' = [dir EXCEPT ![JobOf[c.on]] = dir[JobOf[Parent[c.on]]]]
    BY <1>4 DEF StartRerun, CopyHarborJob, SourceJob
  <2>5. JobOf[Parent[c.on]] \in Paths
    BY <2>1, JobsAssumption DEF Derived, Paths
  <2>6. Target(c) = JobOf[c.on]
    BY <2>1 DEF Target, CallRun
  <2>7. DirOK' /\ Elsewhere(Target(c))
    BY <2>4, <2>5, <2>6 DEF DirOK, Elsewhere
  <2>8. QED BY <2>1, <2>3, <2>7 DEF Steps, At
<1>5. CASE Repair(c)
  <2>1. At(c) = "repair" /\ c.on \in Runs /\ dir' = dir
    BY <1>1, <1>5 DEF Repair, Suits
  <2>2. CASE Goto(c, "rows")
    <3>1. CallOK' /\ Others(c) /\ At(c)' = "rows" /\ Aimed(c)'
      BY <2>1, <2>2, GoesAimed DEF Suits, Places, Over
    <3>2. QED BY <2>1, <3>1 DEF Steps, At, DirOK, Elsewhere
  <2>3. CASE ~Goto(c, "rows")
    <3>1. PICK here \in SUBSET Reruns[c.on] :
            /\ here # {}
            /\ \E order \in [1..Cardinality(here) -> here] :
                 CopyAll(c, "repair", [i \in DOMAIN order |-> [from |-> order[i], to |-> ParentBatch[order[i]]]])
      BY <1>5, <2>3 DEF Repair
    <3>2. PICK order \in [1..Cardinality(here) -> here] :
            CopyAll(c, "repair", [i \in DOMAIN order |-> [from |-> order[i], to |-> ParentBatch[order[i]]]])
      BY <3>1
    <3>3. Cardinality(here) \in Nat \ {0}
      <4>1. IsFiniteSet(here)
        BY <2>1, <3>1, JobsAssumption, FS_Subset
      <4>2. QED BY <3>1, <4>1, FS_CardinalityType, FS_EmptySet
    <3>4. PICK n \in Nat \ {0} : n = Cardinality(here)
      BY <3>3
    <3> DEFINE left == [i \in 1..n |-> [from |-> order[i], to |-> ParentBatch[order[i]]]]
    <3>5. ASSUME NEW i \in 1..n
          PROVE  left[i] \in Pairs /\ left[i].from \in Reruns[c.on] /\ left[i].to = ParentBatch[left[i].from]
      <4>1. order[i] \in Reruns[c.on]
        BY <3>2, <3>4
      <4>2. order[i] \in Batches /\ IsRerun(order[i])
        BY <2>1, <4>1, RunOfIs DEF IsRerun
      <4>3. ParentBatch[order[i]] \in Paths
        BY <4>2, RerunIs DEF Paths
      <4>4. QED BY <4>1, <4>2, <4>3 DEF Pairs
    <3>6. left \in Seq(Pairs) /\ DOMAIN left = 1..n /\ left # <<>>
      <4>1. left \in [1..n -> Pairs] /\ DOMAIN left = 1..n
        BY <3>5
      <4>2. left \in Seq(Pairs)
        BY <4>1, SeqDef
      <4>3. left # <<>>
        BY <4>1, <4>2, LenProperties, EmptySeq
      <4>4. QED BY <4>1, <4>2, <4>3
    <3>7. Fits(c, "repair", left)
      BY <2>1, <3>5, <3>6 DEF Fits
    <3>8. CopyAll(c, "repair", left)
      BY <3>2, <3>4
    <3> HIDE DEF left
    <3>9. /\ CallOK' /\ Others(c) /\ At(c)' = "source" /\ call'[c].goal = "repair" /\ call'[c].left = left
          /\ call'[c].held = None
      <4>1. PICK goal \in Goals : goal = "repair"
        BY DEF Goals
      <4>2. CopyAll(c, goal, left) /\ left \in Seq(Pairs)
        BY <3>6, <3>8, <4>1
      <4>3. QED BY <4>1, <4>2, CopyAllIs
    <3>10. "repair" # None
      BY JobsAssumption DEF Goals
    <3>11. Aimed(c)'
      BY <3>6, <3>7, <3>9, <3>10 DEF Aimed, Suits
    <3>12. QED BY <2>1, <3>9, <3>11 DEF Steps, At, DirOK, Elsewhere
  <2>4. QED BY <2>2, <2>3
<1>6. CASE Backfill(c)
  <2>1. At(c) = "rows" /\ dir' = dir
    BY <1>6 DEF Backfill
  <2>2. PICK place \in {"failed", "plan"} : Goto(c, place)
    BY <1>6 DEF Backfill
  <2>3. CallOK' /\ Others(c) /\ At(c)' = place /\ Aimed(c)'
    BY <2>2, GoesAimed DEF Suits, Places, Over
  <2>4. QED BY <2>1, <2>3 DEF Steps, At, DirOK, Elsewhere
<1>7. QED BY <1>2, <1>3, <1>4, <1>5, <1>6

\* Every step is a step of one call or stops them all, and each call keeps its aim.
LEMMA StepIs ==
  ASSUME DirOK, CallOK, AllAimed, [Next]_vars
  PROVE  /\ DirOK' /\ CallOK' /\ AllAimed'
         /\ (\E c \in Calls : Steps(c)) \/ dir' = dir
<1>1. ASSUME NEW c \in Calls, Steps(c) PROVE DirOK' /\ CallOK' /\ AllAimed'
  <2>1. \A d \in Calls \ {c} : Aimed(d)'
    BY <1>1 DEF AllAimed, Aimed, At, Steps, Others
  <2>2. QED BY <1>1, <2>1 DEF AllAimed, Steps
<1>2. CASE Crash
  <2>1. dir' = dir /\ \A c \in Calls : call'[c] = Doing("lost", None, <<>>) \/ call'[c] = call[c]
    BY <1>2 DEF Crash
  <2>2. Doing("lost", None, <<>>) \in Work
    <3>1. PICK place \in Places, goal \in Goals \cup {None} : place = "lost" /\ goal = None
      BY DEF Places, Over
    <3>2. <<>> \in Seq(Pairs)
      BY EmptySeq
    <3>3. Doing(place, goal, <<>>) \in Work
      BY <3>2 DEF Doing, Work
    <3>4. QED BY <3>1, <3>3
  <2>3. CallOK'
    <3>1. call' = [c \in Calls |-> call'[c]]
      BY <1>2 DEF Crash
    <3>2. \A c \in Calls : call'[c] \in Work
      BY <2>1, <2>2, CallIs
    <3>3. QED BY <3>1, <3>2 DEF CallOK
  <2>4. ASSUME NEW c \in Calls PROVE Aimed(c)'
    <3>1. CASE call'[c] = Doing("lost", None, <<>>)
      <4>1. At(c)' = "lost" /\ call'[c].goal = None /\ call'[c].left = <<>>
        BY <3>1 DEF At, Doing
      <4>2. Fits(c, None, <<>>)
        BY JobsAssumption DEF Fits, Goals
      <4>3. QED BY <4>1, <4>2 DEF Aimed, Suits
    <3>2. CASE call'[c] = call[c]
      BY <3>2 DEF AllAimed, Aimed, At
    <3>3. QED BY <2>1, <3>1, <3>2
  <2>5. QED BY <2>1, <2>3, <2>4 DEF AllAimed, DirOK
<1>3. CASE UNCHANGED vars
  BY <1>3 DEF vars, DirOK, CallOK, AllAimed, Aimed, At
<1>4. ASSUME NEW c \in Calls,
             \/ Begin(c) \/ TimesOut(c) \/ Clearing(c) \/ Copying(c) \/ Merging(c) \/ Handling(c)
             \/ StartRerun(c) \/ Repair(c) \/ Backfill(c)
      PROVE  Steps(c)
  BY <1>4, ClearingSteps, CopyingSteps, MergingSteps, HandlingSteps, OtherSteps
<1>5. QED BY <1>1, <1>2, <1>3, <1>4 DEF Next

-----------------------------------------------------------------------------
(* Type correctness.                                                        *)

JobsInv == TypeOK /\ AllAimed

LEMMA FirstTrialsIs ==
  ASSUME NEW r \in Runs
  PROVE  /\ FirstTrials(r) \subseteq Trial /\ 1 \in Attempts
         /\ \A b \in PrimaryOf(r) : Ran(b, 1) \subseteq Trial
<1>1. 1 \in Attempts
  BY DEF Attempts
<1>2. ASSUME NEW b \in PrimaryOf(r) PROVE Ran(b, 1) \subseteq Trial
  <2>1. b \in Batches
    BY RunOfIs
  <2>2. QED BY <1>1, <2>1, RanIs
<1>3. QED BY <1>1, <1>2 DEF FirstTrials

LEMMA LoadIs ==
  ASSUME NEW l \in Loads
  PROVE  l.merged \subseteq Runs /\ l.merged \subseteq Runs \ Derived /\ l.own \subseteq Derived
         /\ l.open \in Nat \ {0} /\ l.faults \in Nat /\ l.calls \subseteq Calls
<1>1. l.calls \subseteq Calls
  BY DEF Calls
<1>2. QED BY <1>1, JobsAssumption

LEMMA InitDirs ==
  ASSUME Init
  PROVE  DirOK
<1> DEFINE Start(p) ==
             IF \E r \in load.merged : p = JobOf[r] THEN Whole(FirstTrials(CHOOSE r \in load.merged : p = JobOf[r]))
             ELSE IF \E r \in load.merged : p \in PrimaryOf(r) THEN Whole(Ran(p, 1)) ELSE None
<1>1. dir = [p \in Paths |-> Start(p)]
  BY DEF Init
<1>2. load.merged \subseteq Runs
  BY LoadIs DEF Init
<1>3. ASSUME NEW p \in Paths PROVE Start(p) \in JobDir \cup {None}
  <2>1. CASE \E r \in load.merged : p = JobOf[r]
    <3>1. PICK r \in load.merged : Start(p) = Whole(FirstTrials(r))
      BY <2>1
    <3>2. FirstTrials(r) \subseteq Trial
      BY <1>2, <3>1, FirstTrialsIs
    <3>3. QED BY <3>1, <3>2 DEF Whole, JobDir
  <2>2. CASE ~(\E r \in load.merged : p = JobOf[r]) /\ \E r \in load.merged : p \in PrimaryOf(r)
    <3>1. PICK r \in load.merged : p \in PrimaryOf(r)
      BY <2>2
    <3>2. Ran(p, 1) \subseteq Trial
      BY <1>2, <3>1, FirstTrialsIs
    <3>3. Start(p) = Whole(Ran(p, 1))
      BY <2>2
    <3>4. QED BY <3>2, <3>3 DEF Whole, JobDir
  <2>3. QED BY <2>1, <2>2
<1> HIDE DEF Start
<1>4. QED BY <1>1, <1>3 DEF DirOK

LEMMA InitJobs ==
  ASSUME Init
  PROVE  JobsInv
<1>1. load.merged \subseteq Runs /\ load \in Loads /\ load.faults \in Nat
  BY LoadIs DEF Init
<1>2. ended \subseteq Batches
  BY <1>1, RunOfIs DEF Init
<1>3. rows \in [UNION {PrimaryOf(r) : r \in Runs} -> SUBSET (UNION {Cases[b] : b \in Batches})]
  <2>1. ASSUME NEW b \in UNION {PrimaryOf(r) : r \in Runs}
        PROVE  (IF b \in ended THEN Cases[b] ELSE {}) \in SUBSET (UNION {Cases[d] : d \in Batches})
    <3>1. b \in Batches
      BY RunOfIs
    <3>2. QED BY <3>1
  <2>2. rows = [b \in UNION {PrimaryOf(r) : r \in Runs} |-> IF b \in ended THEN Cases[b] ELSE {}]
    BY DEF Init
  <2>3. QED BY <2>1, <2>2
<1>4. ASSUME NEW c \in Calls
      PROVE  /\ call[c] \in Work /\ At(c) = "idle" /\ call[c].goal = None /\ call[c].left = <<>> /\ Aimed(c)
  <2>1. call[c] = Doing("idle", None, <<>>)
    BY DEF Init
  <2>2. PICK place \in Places, goal \in Goals \cup {None} : place = "idle" /\ goal = None
    BY DEF Places
  <2>3. <<>> \in Seq(Pairs)
    BY EmptySeq
  <2>4. Doing(place, goal, <<>>) \in Work
    BY <2>3 DEF Doing, Work
  <2>5. At(c) = "idle" /\ call[c].goal = None /\ call[c].left = <<>>
    BY <2>1 DEF At, Doing
  <2>6. Fits(c, None, <<>>)
    BY JobsAssumption DEF Fits, Goals
  <2>7. QED BY <2>1, <2>2, <2>4, <2>5, <2>6 DEF Aimed, Suits
<1>5. call \in [Calls -> Work]
  <2>1. call = [c \in Calls |-> call[c]]
    BY DEF Init
  <2>2. QED BY <1>4, <2>1
<1>6. /\ outcome \in [Runs -> {None, "running", "succeeded"}] /\ base \in [Runs -> SUBSET Trial]
      /\ last \in Calls \cup {None} /\ faults \in 0..load.faults
  BY <1>1 DEF Init
<1>7. dir \in [Paths -> JobDir \cup {None}]
  BY InitDirs DEF DirOK
<1>8. TypeOK
  BY <1>1, <1>2, <1>3, <1>5, <1>6, <1>7 DEF TypeOK
<1>9. QED BY <1>4, <1>8 DEF JobsInv, AllAimed

LEMMA FaultIs ==
  ASSUME NEW kind, TypeOK, Fault(kind)
  PROVE  load' = load /\ load' \in Loads /\ faults' \in 0..load'.faults /\ faults' # 0 /\ faults < load.faults
<1>1. load.faults \in Nat
  BY LoadIs DEF TypeOK
<1>2. QED BY <1>1 DEF Fault, TypeOK

\* What the database has.
RowsOK == /\ ended \subseteq Batches
          /\ rows \in [UNION {PrimaryOf(r) : r \in Runs} -> SUBSET (UNION {Cases[b] : b \in Batches})]
          /\ outcome \in [Runs -> {None, "running", "succeeded"}]
          /\ base \in [Runs -> SUBSET Trial]

LEMMA StartRows ==
  ASSUME TypeOK, NEW c \in Calls, c.on \in Derived, StartRerun(c)
  PROVE  RowsOK'
<1> DEFINE r == c.on
           OriginalOf(b) == Primary[Parent[r]][CHOOSE i \in DOMAIN Primary[r] : Primary[r][i] = b]
<1>1. r \in Runs /\ Parent[r] \in Runs
  BY JobsAssumption DEF Derived
<1>2. ASSUME NEW b \in PrimaryOf(r) PROVE OriginalOf(b) \in PrimaryOf(Parent[r])
  <2>1. PICK i \in DOMAIN Primary[r] : i = CHOOSE j \in DOMAIN Primary[r] : Primary[r][j] = b
    BY DEF PrimaryOf
  <2>2. Primary[r] \in Seq(PrimaryOf(r)) /\ Primary[Parent[r]] \in Seq(PrimaryOf(Parent[r]))
        /\ Len(Primary[r]) = Len(Primary[Parent[r]])
    BY <1>1, JobsAssumption DEF Derived
  <2>3. i \in DOMAIN Primary[Parent[r]]
    BY <2>1, <2>2
  <2>4. QED BY <2>1, <2>3 DEF PrimaryOf
<1>3. ended' = ended
  BY DEF StartRerun
<1>4. CASE UNCHANGED <<dir, rows, outcome, base>>
  BY <1>3, <1>4 DEF RowsOK, TypeOK
<1>5. CASE /\ rows' = [b \in DOMAIN rows |-> IF b \in PrimaryOf(r) THEN rows[OriginalOf(b)] ELSE rows[b]]
           /\ outcome' = [outcome EXCEPT ![r] = "running"]
           /\ base' = [base EXCEPT ![r] = TrialsIn(SourceJob(r))]
  <2> HIDE DEF OriginalOf
  <2>1. \A b \in DOMAIN rows : (IF b \in PrimaryOf(r) THEN rows[OriginalOf(b)] ELSE rows[b])
                                 \in SUBSET (UNION {Cases[d] : d \in Batches})
    BY <1>1, <1>2 DEF TypeOK
  <2>2. rows' \in [UNION {PrimaryOf(s) : s \in Runs} -> SUBSET (UNION {Cases[b] : b \in Batches})]
    BY <1>5, <2>1 DEF TypeOK
  <2>3. outcome' \in [Runs -> {None, "running", "succeeded"}]
    BY <1>1, <1>5 DEF TypeOK
  <2>4. TrialsIn(SourceJob(r)) \subseteq Trial
    BY <1>1, DirIs DEF TypeOK, DirOK, SourceJob, Paths
  <2>5. base' \in [Runs -> SUBSET Trial]
    BY <1>1, <1>5, <2>4 DEF TypeOK
  <2>6. QED BY <1>3, <2>2, <2>3, <2>5 DEF RowsOK, TypeOK
<1>6. QED BY <1>4, <1>5, Zenon DEF StartRerun

LEMMA BackfillRows ==
  ASSUME TypeOK, NEW c \in Calls, c.on \in Runs, Backfill(c)
  PROVE  RowsOK'
<1> DEFINE Filled(b) == \A i \in DOMAIN Primary[c.on] :
                          Primary[c.on][i] = b => \A j \in 1..i : dir[Primary[c.on][j]] # None
<1>1. rows' = [b \in DOMAIN rows |-> IF b \in PrimaryOf(c.on) /\ Filled(b) THEN CasesIn(b) ELSE rows[b]]
  BY DEF Backfill
<1>2. ended' = ended \cup {b \in PrimaryOf(c.on) : Filled(b)} \cup {b \in Reruns[c.on] : dir[b] # None}
  BY DEF Backfill
<1>3. outcome' = outcome \/ outcome' = [outcome EXCEPT ![c.on] = "succeeded"]
  BY DEF Backfill
<1> HIDE DEF Filled
<1>4. \A b \in PrimaryOf(c.on) \cup Reruns[c.on] : b \in Batches
  BY RunOfIs
<1>5. ASSUME NEW b \in PrimaryOf(c.on) PROVE CasesIn(b) \subseteq UNION {Cases[d] : d \in Batches}
  <2>1. b \in Paths
    BY <1>4 DEF Paths
  <2>2. TrialsIn(b) \subseteq Trial
    BY <2>1, DirIs DEF TypeOK, DirOK
  <2>3. \A t \in TrialsIn(b) : t.case # t.by => t.case \in Cases[t.by] /\ t.by \in Batches
    BY <2>2, TrialIs
  <2>4. QED BY <2>3 DEF CasesIn
<1>6. ended' \subseteq Batches
  BY <1>2, <1>4 DEF TypeOK
<1>7. rows' \in [UNION {PrimaryOf(s) : s \in Runs} -> SUBSET (UNION {Cases[b] : b \in Batches})]
  BY <1>1, <1>5 DEF TypeOK
<1>8. base' = base
  BY DEF Backfill
<1>9. QED BY <1>3, <1>6, <1>7, <1>8 DEF RowsOK, TypeOK

LEMMA StepJobs ==
  ASSUME JobsInv, [Next]_vars
  PROVE  JobsInv'
<1>1. DirOK /\ CallOK /\ AllAimed /\ RowsOK
  BY DEF JobsInv, TypeOK, DirOK, CallOK, RowsOK
<1>2. DirOK' /\ CallOK' /\ AllAimed'
  BY <1>1, StepIs
<1> DEFINE Kept == RowsOK' /\ last' \in Calls \cup {None} /\ load' \in Loads /\ faults' \in 0..load'.faults
<1>3. SUFFICES Kept
  BY <1>2 DEF JobsInv, TypeOK, DirOK, CallOK, RowsOK
<1>4. TypeOK /\ AllAimed
  BY DEF JobsInv
<1>5. CASE UNCHANGED vars
  BY <1>1, <1>4, <1>5 DEF vars, RowsOK, TypeOK
<1>6. CASE Crash
  BY <1>1, <1>4, <1>6, FaultIs DEF Crash, dbVars, RowsOK
<1>7. ASSUME NEW c \in Calls, Begin(c) \/ TimesOut(c) \/ FinalizeFails(c) PROVE Kept
  BY <1>1, <1>4, <1>7, FaultIs DEF Begin, TimesOut, FinalizeFails, dbVars, budget, RowsOK, TypeOK
<1>8. ASSUME NEW c \in Calls, Clearing(c) \/ Copying(c) \/ View(c) \/ Plan(c) \/ WriteConfig(c)
                              \/ ReadTrials(c) \/ WriteResult(c) \/ MoveImported(c) \/ MergeImported(c)
                              \/ CopyMetadata(c) \/ Repair(c)
      PROVE  Kept
  <2>1. UNCHANGED <<dbVars, last, budget>>
    BY <1>8 DEF Clearing, ListRemoved, RemoveTrial, RemoveFiles, RemoveDir, Copying, NextSource, RemoveMatching,
                CopyTrial, EndSource, View, Plan, WriteConfig, ReadTrials, WriteResult, MoveImported, MergeImported, CopyMetadata, Repair
  <2>2. QED BY <1>1, <1>4, <2>1 DEF dbVars, budget, RowsOK, TypeOK
<1>9. ASSUME NEW c \in Calls, Update(c) PROVE Kept
  <2>1. c.on \in Batches
    BY <1>4, <1>9 DEF AllAimed, Aimed, Suits, Update
  <2>2. ended' \subseteq Batches /\ outcome' = outcome /\ base' = base
    BY <1>1, <1>9, <2>1 DEF Update, RowsOK
  <2>3. rows' \in [UNION {PrimaryOf(r) : r \in Runs} -> SUBSET (UNION {Cases[b] : b \in Batches})]
    BY <1>1, <1>9, <2>1 DEF Update, RowsOK
  <2>4. UNCHANGED <<last, budget>>
    BY <1>9 DEF Update
  <2>5. QED BY <1>1, <1>4, <2>2, <2>3, <2>4 DEF budget, RowsOK, TypeOK
<1>10. ASSUME NEW c \in Calls, CheckComplete(c) PROVE Kept
  <2>1. CallRun(c) \in Runs
    BY CallRunIs
  <2>2. outcome' = outcome \/ outcome' = [outcome EXCEPT ![CallRun(c)] = "succeeded"]
    BY <1>10 DEF CheckComplete
  <2>3. UNCHANGED <<dir, ended, rows, base, last, budget>>
    BY <1>10 DEF CheckComplete
  <2>4. QED BY <1>1, <1>4, <2>1, <2>2, <2>3 DEF budget, RowsOK, TypeOK
<1>11. ASSUME NEW c \in Calls, StartRerun(c) PROVE Kept
  <2>1. c.on \in Derived
    BY <1>4, <1>11 DEF AllAimed, Aimed, Suits, StartRerun
  <2>2. UNCHANGED <<last, budget>>
    BY <1>11 DEF StartRerun
  <2>3. QED BY <1>4, <1>11, <2>1, <2>2, StartRows DEF budget, TypeOK
<1>12. ASSUME NEW c \in Calls, Backfill(c) PROVE Kept
  <2>1. c.on \in Runs
    BY <1>4, <1>12 DEF AllAimed, Aimed, Suits, Backfill
  <2>2. UNCHANGED <<last, budget>>
    BY <1>12 DEF Backfill
  <2>3. QED BY <1>4, <1>12, <2>1, <2>2, BackfillRows DEF budget, TypeOK
<1>13. QED BY <1>5, <1>6, <1>7, <1>8, <1>9, <1>10, <1>11, <1>12 DEF Next, Merging, Handling

\* The directories, the rows and the calls keep their shape, and a call copies only
\* where its purpose says (copy_trial_dirs and its callers), whatever calls overlap or
\* are cut off.
THEOREM JobsTypeCorrect == Spec => []TypeOK
<1>1. Init => JobsInv
  BY InitJobs
<1>2. JobsInv /\ [Next]_vars => JobsInv'
  BY StepJobs
<1>3. JobsInv => TypeOK
  BY DEF JobsInv
<1>4. QED BY <1>1, <1>2, <1>3, PTL DEF Spec

-----------------------------------------------------------------------------
(* Who writes what.                                                         *)

Originals == Runs \ Derived

\* The batches whose directories are uploaded, not copied.
Uploads == {b \in Batches : (\E r \in Originals : b \in PrimaryOf(r)) \/ IsRerun(b)}

Acts(c) == Clearing(c) \/ Copying(c) \/ Merging(c) \/ Handling(c) \/ StartRerun(c) \/ Repair(c) \/ Backfill(c)

LEMMA ActsWorking ==
  ASSUME NEW c \in Calls, Acts(c)
  PROVE  c \in Working /\ At(c) \notin Over \cup {"idle"}
<1>1. At(c) \in {"source", "copy", "view", "plan", "remove", "removing", "config", "read", "write", "clear", "clearing",
                 "move", "update", "merge", "meta", "check", "start", "repair", "rows"}
  <2>1. Copying(c) => At(c) \in {"source", "copy"}
    BY DEF Copying, NextSource, RemoveMatching, CopyTrial, EndSource
  <2>2. Merging(c) => At(c) \in {"view", "plan", "config", "read", "write"}
    BY DEF Merging, View, Plan, WriteConfig, ReadTrials, FinalizeFails, WriteResult
  <2>3. Handling(c) => At(c) \in {"move", "update", "merge", "meta", "check"}
    BY DEF Handling, MoveImported, Update, MergeImported, CopyMetadata, CheckComplete
  <2>4. StartRerun(c) \/ Repair(c) \/ Backfill(c) => At(c) \in {"start", "repair", "rows"}
    BY DEF StartRerun, Repair, Backfill
  <2>5. Clearing(c) => At(c) \in {"clear", "clearing", "remove", "removing"}
    BY DEF Clearing, ListRemoved, RemoveTrial, RemoveFiles, RemoveDir, Removing
  <2>6. QED BY <2>1, <2>2, <2>3, <2>4, <2>5 DEF Acts
<1>2. QED BY <1>1 DEF Working, Over

LEMMA ActsSteps ==
  ASSUME DirOK, CallOK, AllAimed, NEW c \in Calls, Begin(c) \/ TimesOut(c) \/ Acts(c)
  PROVE  Steps(c)
BY ClearingSteps, CopyingSteps, MergingSteps, HandlingSteps, OtherSteps DEF Acts

LEMMA ParentIsCopied ==
  ASSUME NEW b \in Batches, IsRerun(b)
  PROVE  ParentBatch[b] \notin Uploads
<1>1. PICK r \in Runs : r \in Derived /\ b \in Reruns[r] /\ ParentBatch[b] \in PrimaryOf(r)
  BY RerunIs DEF Derived
<1>2. PICK p : p = ParentBatch[b] /\ p \in PrimaryOf(r)
  BY <1>1
<1>3. \A s \in Runs : p \in PrimaryOf(s) \cup Reruns[s] => s = r
  BY <1>2, RunOfIs
<1>4. p \notin Reruns[r]
  BY <1>2, JobsAssumption
<1>5. ~IsRerun(p)
  BY <1>3, <1>4 DEF IsRerun
<1>6. QED BY <1>1, <1>2, <1>3, <1>5 DEF Uploads, Originals

LEMMA TargetIs ==
  ASSUME CallOK, NEW c \in Calls, Aimed(c)
  PROVE  \/ Target(c) = JobOf[CallRun(c)]
         \/ Target(c) \in Batches \ Uploads
         \/ Target(c) = c.on /\ c.on \in Batches /\ At(c) \in {"clear", "clearing", "move"}
<1>1. CASE At(c) \in {"source", "copy"}
  <2>1. /\ call[c].left # <<>> /\ call[c].left \in Seq(Pairs) /\ Here(c) = call[c].left[1] /\ Here(c) \in Pairs
        /\ call[c].goal \in Goals
    BY <1>1, CallIs DEF Aimed
  <2>2. 1 \in DOMAIN call[c].left /\ Target(c) = Here(c).to
    BY <1>1, <2>1, TailIs, LenProperties DEF Target
  <2>3. Fits(c, call[c].goal, call[c].left)
    BY DEF Aimed
  <2>4. CASE call[c].goal \in {"merged", "final"}
    BY <2>1, <2>2, <2>3, <2>4 DEF Fits
  <2>5. CASE call[c].goal = "parent"
    <3>1. IsRerun(c.on) /\ Target(c) = ParentBatch[c.on]
      BY <2>1, <2>2, <2>3, <2>5 DEF Fits
    <3>2. c.on \in Batches
      BY <3>1, RunOfIs DEF IsRerun
    <3>3. QED BY <3>1, <3>2, ParentIsCopied, RerunIs
  <2>6. CASE call[c].goal = "repair"
    <3>1. PICK b : b = Here(c).from /\ b \in Reruns[c.on] /\ c.on \in Runs /\ Target(c) = ParentBatch[b]
      BY <2>1, <2>2, <2>3, <2>6 DEF Fits
    <3>2. b \in Batches /\ IsRerun(b)
      BY <3>1, RunOfIs DEF IsRerun
    <3>3. QED BY <3>1, <3>2, ParentIsCopied, RerunIs
  <2>7. QED BY <2>1, <2>4, <2>5, <2>6 DEF Goals
<1>2. CASE At(c) = "meta"
  <2>1. IsRerun(c.on) /\ c.on \in Batches /\ Target(c) = ParentBatch[c.on]
    BY <1>2 DEF Aimed, Suits, Target
  <2>2. QED BY <2>1, ParentIsCopied, RerunIs
<1>3. CASE At(c) \in {"clear", "clearing", "move"}
  BY <1>3 DEF Aimed, Suits, Target
<1>4. CASE At(c) \notin {"source", "copy", "meta", "clear", "clearing", "move"}
  BY <1>4 DEF Target
<1>5. QED BY <1>1, <1>2, <1>3, <1>4

\* The step of a call which is about to put an archive in place.
LEMMA ImportStep ==
  ASSUME NEW c \in Calls, At(c) \in {"clear", "clearing", "move"}, Begin(c) \/ TimesOut(c) \/ Acts(c)
  PROVE  Clearing(c) \/ MoveImported(c)
<1>1. ~Begin(c) /\ ~TimesOut(c) /\ ~StartRerun(c) /\ ~Repair(c) /\ ~Backfill(c)
  BY DEF Begin, TimesOut, StartRerun, Repair, Backfill
<1>2. ~Copying(c)
  BY DEF Copying, NextSource, RemoveMatching, CopyTrial, EndSource
<1>3. ~Merging(c)
  BY DEF Merging, View, Plan, WriteConfig, ReadTrials, FinalizeFails, WriteResult
<1>4. ~Update(c) /\ ~MergeImported(c) /\ ~CopyMetadata(c) /\ ~CheckComplete(c)
  BY DEF Update, MergeImported, CopyMetadata, CheckComplete
<1>5. QED BY <1>1, <1>2, <1>3, <1>4 DEF Handling, Acts

\* A directory that changes is the target of a call's step.
LEMMA WriterIs ==
  ASSUME JobsInv, [Next]_vars, dir' # dir
  PROVE  \E c \in Calls : Steps(c) /\ Aimed(c) /\ (Begin(c) \/ TimesOut(c) \/ Acts(c))
<1>1. DirOK /\ CallOK /\ AllAimed
  BY DEF JobsInv, TypeOK, DirOK, CallOK
<1>2. ~Crash /\ ~UNCHANGED vars
  BY DEF Crash, vars
<1>3. PICK c \in Calls : Begin(c) \/ TimesOut(c) \/ Acts(c)
  BY <1>2 DEF Next, Acts
<1>4. Steps(c)
  BY <1>1, <1>3, ActsSteps
<1>5. QED BY <1>1, <1>3, <1>4 DEF AllAimed

\* Only the upload of its batch changes a directory that was uploaded.
LEMMA UploadStep ==
  ASSUME JobsInv, [Next]_vars, NEW b \in Uploads, dir'[b] # dir[b]
  PROVE  \E c \in Calls : /\ c.on = b /\ b \in Batches /\ c.kind = "archive" /\ At(c) \in {"clear", "clearing", "move"}
                          /\ Clearing(c) \/ MoveImported(c)
                          /\ Others(c) /\ Elsewhere(b)
<1>1. PICK c \in Calls : Steps(c) /\ Aimed(c) /\ (Begin(c) \/ TimesOut(c) \/ Acts(c))
  BY WriterIs
<1>2. b \in Batches /\ b \in Paths
  BY DEF Uploads, Paths
<1>3. Target(c) = b
  BY <1>1, <1>2 DEF Steps, Elsewhere
<1>4. JobOf[CallRun(c)] # b
  BY <1>2, CallRunIs
<1>5. c.on = b /\ At(c) \in {"clear", "clearing", "move"}
  BY <1>1, <1>3, <1>4, TargetIs DEF JobsInv, TypeOK, CallOK
<1>6. c.kind = "archive"
  BY <1>1, <1>5 DEF Aimed, Suits
<1>7. QED BY <1>1, <1>2, <1>3, <1>5, <1>6, ImportStep DEF Steps

LEMMA SourceStep ==
  ASSUME NamesApart, JobsInv, [Next]_vars, NEW r \in Originals, dir'[JobOf[r]] # dir[JobOf[r]]
  PROVE  \E c \in Calls : CallRun(c) = r /\ call'[c] # call[c]
<1>1. PICK c \in Calls : Steps(c) /\ Aimed(c)
  BY WriterIs
<1>2. r \in Runs /\ JobOf[r] \in Paths /\ JobOf[r] \notin Batches
  BY JobsAssumption DEF Originals, Paths
<1>3. Target(c) = JobOf[r]
  BY <1>1, <1>2 DEF Steps, Elsewhere
<1>4. Target(c) = JobOf[CallRun(c)]
  BY <1>1, <1>2, <1>3, TargetIs DEF JobsInv, TypeOK, CallOK
<1>5. CallRun(c) = r
  BY <1>2, <1>3, <1>4, CallRunIs DEF NamesApart
<1>6. QED BY <1>1, <1>5 DEF Steps

\* A rerun never edits, deletes or rebuilds the job it started from: merging an
\* archive, finishing, starting and repairing a rerun write the derived run's job and
\* its imported copies (copy_harbor_job, copy_trial_dirs), whatever calls overlap or
\* are cut off, when no other run has the source's directory.
THEOREM SourceIsUntouched ==
  ASSUME NamesApart
  PROVE  Spec => SourceUntouched
<1>1. Init => JobsInv
  BY InitJobs
<1>2. JobsInv /\ [Next]_vars => JobsInv'
  BY StepJobs
<1>3. JobsInv /\ [Next]_vars =>
        [\A r \in Runs \ Derived : dir'[JobOf[r]] # dir[JobOf[r]]
           => \E c \in Calls : CallRun(c) = r /\ call'[c] # call[c]]_vars
  BY SourceStep DEF Originals
<1>4. QED BY <1>1, <1>2, <1>3, PTL DEF Spec, SourceUntouched

LEMMA UploadsAre == Executed = Uploads
<1> SUFFICES ASSUME NEW b \in Batches
             PROVE  (IsRerun(b) \/ RunOf(b) \notin Derived)
                      <=> ((\E r \in Originals : b \in PrimaryOf(r)) \/ IsRerun(b))
  BY DEF Executed, Uploads
<1>1. PICK s \in Runs : b \in PrimaryOf(s) \cup Reruns[s] /\ RunOf(b) = s
  BY RunOfIs DEF Batches
<1>2. \A r \in Runs : b \in PrimaryOf(r) => RunOf(b) = r
  BY RunOfIs
<1>3. QED BY <1>1, <1>2 DEF Originals, IsRerun

\* The trials of an imported job, nested jobs aside, and whether an archive of the batch
\* is removing it or has been cut off.
Jobs(b) == {t \in dir[b].trials : t.case # t.by}
CutOff  == {"clearing", "failed", "lost"}
Cut(b)  == \E c \in Calls : c.kind = "archive" /\ c.on = b /\ At(c) \in CutOff
Partly(b) == \E n \in Attempts : Jobs(b) = Ran(b, n) \/ (Cut(b) /\ Jobs(b) \subseteq Ran(b, n))

LEMMA ImportedMeans == ImportedIsWhole <=> \A b \in Uploads : dir[b] # None => Partly(b)
BY UploadsAre, Zenon DEF ImportedIsWhole, Partly, Cut, CutOff, Jobs

LEMMA MovedIsWhole ==
  ASSUME JobsInv, NEW c \in Calls, MoveImported(c), NEW b \in Batches, c.on = b, dir[b] # None => Partly(b)
  PROVE  Partly(b)'
<1>1. /\ \/ dir[b] = None /\ dir'[b] = Whole(Ran(b, c.n))
         \/ dir[b] # None /\ dir'[b].trials = dir[b].trials \cup {Nested(b, c.n)}
      /\ Others(c) /\ At(c) = "move"
  BY MoveImportedIs DEF JobsInv, TypeOK, DirOK, CallOK
<1>2. CASE dir[b] = None /\ dir'[b] = Whole(Ran(b, c.n))
  <2>1. c.n \in Attempts
    BY DEF Attempts
  <2>2. dir'[b].trials = Ran(b, c.n) /\ \A t \in Ran(b, c.n) : t.case # t.by
    BY <1>2, <2>1, RanIs DEF Whole
  <2>3. Jobs(b)' = Ran(b, c.n)
    BY <2>2 DEF Jobs
  <2>4. QED BY <2>1, <2>3 DEF Partly
<1>3. CASE dir[b] # None /\ dir'[b].trials = dir[b].trials \cup {Nested(b, c.n)}
  <2>1. Nested(b, c.n).case = Nested(b, c.n).by
    BY DEF Nested
  <2>2. Jobs(b)' = Jobs(b)
    BY <1>3, <2>1 DEF Jobs
  <2>3. Cut(b) => Cut(b)'
    BY <1>1 DEF Cut, CutOff, Others, At
  <2>4. QED BY <1>3, <2>2, <2>3 DEF Partly
<1>4. QED BY <1>1, <1>2, <1>3

\* A removal in a step: the directory gets smaller or is gone.
LEMMA RemovalIs ==
  ASSUME JobsInv, NEW c \in Calls, Clearing(c), Removing(c), NEW p \in Paths, p = Removed(c)
  PROVE  /\ Others(c) /\ Elsewhere(p)
         /\ \/ At(c)' \in {At(c), "failed"} /\ TrialsIn(p)' \subseteq TrialsIn(p) /\ (dir'[p] = None) = (dir[p] = None)
            \/ dir'[p] = None
<1>1. DirOK /\ CallOK
  BY DEF JobsInv, TypeOK, DirOK, CallOK
<1>2. ASSUME Goto(c, "failed") PROVE At(c)' = "failed"
  BY <1>1, <1>2, Goes DEF Places, Over
<1>3. ASSUME dir' = dir PROVE TrialsIn(p)' = TrialsIn(p)
  BY <1>3 DEF TrialsIn
<1>4. CASE ListRemoved(c)
  BY <1>4 DEF ListRemoved, Removing
<1>5. CASE RemoveTrial(c)
  BY <1>1, <1>2, <1>3, <1>5, RemoveTrialIs DEF SameWork
<1>6. CASE RemoveFiles(c)
  BY <1>1, <1>2, <1>3, <1>6, RemoveFilesIs DEF SameWork
<1>7. CASE RemoveDir(c)
  BY <1>1, <1>2, <1>3, <1>7, RemoveDirIs
<1>8. QED BY <1>4, <1>5, <1>6, <1>7 DEF Clearing

\* An archive that is cut off stays so, and one that goes on has removed the directory.
LEMMA CutStays ==
  ASSUME JobsInv, [Next]_vars, NEW b \in Batches, Cut(b), dir'[b] # None
  PROVE  Cut(b)'
<1>1. PICK c \in Calls : c.kind = "archive" /\ c.on = b /\ At(c) \in CutOff
  BY DEF Cut
<1>2. SUFFICES ASSUME call'[c] # call[c] PROVE At(c)' \in CutOff
  BY <1>1 DEF Cut, At
<1>3. CASE Crash
  BY <1>2, <1>3 DEF Crash, At, Doing, CutOff
<1>4. ASSUME NEW d \in Calls, Begin(d) \/ TimesOut(d) \/ Acts(d) PROVE At(c)' \in CutOff
  <2>1. Steps(d)
    BY <1>4, ActsSteps DEF JobsInv, TypeOK, DirOK, CallOK
  <2>2. d = c
    BY <1>2, <2>1 DEF Steps, Others
  <2>3. At(c) = "clearing" /\ Acts(c)
    BY <1>1, <1>4, <2>2, ActsWorking DEF CutOff, Over, Begin, TimesOut
  <2>4. Clearing(c) /\ Removing(c)
    BY <2>3, ImportStep DEF MoveImported, Removing
  <2>5. Removed(c) = b /\ b \in Paths
    BY <1>1, <2>3 DEF Removed, Paths
  <2>6. QED BY <2>3, <2>4, <2>5, RemovalIs DEF CutOff
<1>5. CASE UNCHANGED vars
  BY <1>2, <1>5 DEF vars
<1>6. QED BY <1>3, <1>4, <1>5 DEF Next, Acts

LEMMA InitUploads ==
  ASSUME Init, NEW b \in Batches, dir[b] # None
  PROVE  dir[b] = Whole(Ran(b, 1)) /\ \E r \in load.merged : b \in PrimaryOf(r)
<1>1. b \in Paths /\ load.merged \subseteq Runs
  BY LoadIs DEF Init, Paths
<1>2. \A r \in load.merged : b # JobOf[r]
  BY <1>1, JobsAssumption
<1>3. dir[b] = IF \E r \in load.merged : b \in PrimaryOf(r) THEN Whole(Ran(b, 1)) ELSE None
  BY <1>1, <1>2 DEF Init
<1>4. QED BY <1>3

LEMMA InitImported ==
  ASSUME Init
  PROVE  ImportedIsWhole
<1> SUFFICES ASSUME NEW b \in Uploads, dir[b] # None PROVE Partly(b)
  BY ImportedMeans
<1>1. b \in Batches /\ dir[b] = Whole(Ran(b, 1))
  BY InitUploads DEF Uploads
<1>2. dir[b].trials = Ran(b, 1)
  BY <1>1 DEF Whole
<1>3. 1 \in Attempts
  BY DEF Attempts
<1>4. \A t \in Ran(b, 1) : t.case # t.by
  BY <1>1, <1>3, RanIs
<1>5. Jobs(b) = Ran(b, 1)
  BY <1>2, <1>4 DEF Jobs
<1>6. QED BY <1>3, <1>5 DEF Partly

LEMMA StepImported ==
  ASSUME JobsInv, ImportedIsWhole, [Next]_vars
  PROVE  ImportedIsWhole'
<1>1. ASSUME NEW b \in Uploads, dir'[b] # None
      PROVE  Partly(b)'
  <2>1. (dir[b] # None => Partly(b)) /\ b \in Batches /\ b \in Paths
    BY ImportedMeans DEF Uploads, Paths
  <2>2. CASE dir'[b] = dir[b]
    <3>1. Jobs(b)' = Jobs(b) /\ Partly(b)
      BY <1>1, <2>1, <2>2 DEF Jobs
    <3>2. Cut(b) => Cut(b)'
      BY <1>1, <2>1, CutStays
    <3>3. QED BY <3>1, <3>2 DEF Partly
  <2>3. CASE dir'[b] # dir[b]
    <3>1. PICK c \in Calls : /\ c.on = b /\ c.kind = "archive" /\ At(c) \in {"clear", "clearing", "move"}
                             /\ Clearing(c) \/ MoveImported(c)
      BY <2>3, UploadStep
    <3>2. CASE MoveImported(c)
      BY <2>1, <3>1, <3>2, MovedIsWhole
    <3>3. CASE Clearing(c)
      <4>1. Removing(c) /\ At(c) = "clearing"
        BY <2>3, <3>1, <3>3 DEF Clearing, ListRemoved, RemoveTrial, RemoveFiles, RemoveDir, Removing
      <4>2. Removed(c) = b
        BY <3>1, <4>1 DEF Removed
      <4>3. At(c)' \in {"clearing", "failed"} /\ TrialsIn(b)' \subseteq TrialsIn(b) /\ dir[b] # None
        BY <1>1, <2>1, <3>3, <4>1, <4>2, RemovalIs
      <4>4. dir'[b].trials \subseteq dir[b].trials
        BY <1>1, <4>3 DEF TrialsIn
      <4>5. Jobs(b)' \subseteq Jobs(b)
        BY <4>4 DEF Jobs
      <4>6. Cut(b)'
        BY <3>1, <4>3 DEF Cut, CutOff
      <4>7. PICK n \in Attempts : Jobs(b) \subseteq Ran(b, n)
        BY <2>1, <4>3 DEF Partly
      <4>8. QED BY <4>5, <4>6, <4>7 DEF Partly
    <3>4. QED BY <3>1, <3>2, <3>3
  <2>4. QED BY <2>2, <2>3
<1>2. ImportedIsWhole' <=> \A b \in Uploads : dir'[b] # None => Partly(b)'
  BY UploadsAre, Zenon DEF ImportedIsWhole, Partly, Cut, CutOff, Jobs
<1>3. QED BY <1>1, <1>2

\* An uploaded job has all the trials of one execution, or what an archive of its batch
\* that is removing it, or was cut off, has left of one: what is unpacked elsewhere is
\* moved in as one directory, and no merge copies into one that was uploaded, whatever
\* calls overlap or are cut off (/api/workers/job-archive).
THEOREM UploadsAreWhole == Spec => []ImportedIsWhole
<1>1. Init => JobsInv /\ ImportedIsWhole
  BY InitJobs, InitImported
<1>2. JobsInv /\ ImportedIsWhole /\ [Next]_vars => JobsInv' /\ ImportedIsWhole'
  BY StepJobs, StepImported
<1>3. QED BY <1>1, <1>2, PTL DEF Spec

-----------------------------------------------------------------------------
(* Calls that come one after the other.                                     *)

Alone == \A c, d \in Working : c = d

LEMMA BeginsAlone ==
  ASSUME TypeOK, load.open = 1, NEW c \in Calls, Begin(c) \/ TimesOut(c)
  PROVE  Begin(c) /\ Working = {}
<1>1. IsFiniteSet(Working)
  BY JobsAssumption, FS_Subset DEF Working
<1>2. Cardinality(Working) = 0
  <2>1. Cardinality(Working) \in Nat /\ Cardinality(Working) < 1
    BY <1>1, FS_CardinalityType DEF Begin, TimesOut
  <2>2. QED BY <2>1
<1>3. Working = {}
  BY <1>1, <1>2, FS_EmptySet
<1>4. ~TimesOut(c)
  <2> SUFFICES ASSUME TimesOut(c) PROVE FALSE
    OBVIOUS
  <2>1. PICK d \in load.calls : At(d) \notin Over \cup {"idle"}
    BY DEF TimesOut, Before
  <2>2. d \in Calls
    BY LoadIs DEF TypeOK
  <2>3. QED BY <1>3, <2>1, <2>2 DEF Working
<1>5. QED BY <1>3, <1>4

LEMMA LoadStays ==
  ASSUME [Next]_vars
  PROVE  load' = load /\ (faults' = faults \/ \E kind \in {"timeout", "crash", "finalize"} : Fault(kind))
<1> DEFINE Kept == load' = load /\ (faults' = faults \/ \E kind \in {"timeout", "crash", "finalize"} : Fault(kind))
<1>1. ASSUME NEW c \in Calls, Begin(c) \/ TimesOut(c) PROVE Kept
  BY <1>1 DEF Begin, TimesOut, budget, Fault
<1>2. ASSUME NEW c \in Calls, Copying(c) PROVE Kept
  BY <1>2 DEF Copying, NextSource, RemoveMatching, CopyTrial, EndSource, budget
<1>3. ASSUME NEW c \in Calls, Merging(c) PROVE Kept
  BY <1>3 DEF Merging, View, Plan, WriteConfig, ReadTrials, FinalizeFails, WriteResult, budget, Fault
<1>4. ASSUME NEW c \in Calls, Handling(c) PROVE Kept
  BY <1>4 DEF Handling, MoveImported, Update, MergeImported, CopyMetadata, CheckComplete, budget
<1>5. ASSUME NEW c \in Calls, StartRerun(c) \/ Repair(c) \/ Backfill(c) PROVE Kept
  BY <1>5 DEF StartRerun, Repair, Backfill, budget
<1>6. ASSUME NEW c \in Calls, Clearing(c) PROVE Kept
  BY <1>6 DEF Clearing, ListRemoved, RemoveTrial, RemoveFiles, RemoveDir, budget
<1>7. QED BY <1>1, <1>2, <1>3, <1>4, <1>5, <1>6 DEF Next, Crash, Fault, vars

LEMMA FaultsStay ==
  ASSUME TypeOK, [Next]_vars, faults # 0
  PROVE  faults' # 0
BY LoadStays, FaultIs

\* With one call at a time, a step is of the call at work, or begins one when none is.
LEMMA StepAlone ==
  ASSUME JobsInv, load.open = 1, Alone, [Next]_vars
  PROVE  /\ Alone' /\ load' = load
         /\ \/ UNCHANGED vars
            \/ Crash
            \/ \E c \in Calls : Begin(c) /\ Working = {} /\ Others(c)
            \/ \E c \in Working : /\ Acts(c) /\ Steps(c) /\ Aimed(c)
                                  /\ \A d \in Calls \ {c} : d \notin Working /\ d \notin Working'
<1>0. DirOK /\ CallOK /\ AllAimed /\ TypeOK /\ load' = load
  BY LoadStays DEF JobsInv, TypeOK, DirOK, CallOK
<1>1. CASE UNCHANGED vars
  BY <1>0, <1>1 DEF vars, Alone, Working, At
<1>2. CASE Crash
  <2>1. \A c \in Calls : c \in Working => At(c)' = "lost"
    BY <1>2 DEF Crash, At, Doing
  <2>2. \A c \in Calls : c \notin Working => At(c)' = At(c)
    BY <1>2 DEF Crash, At
  <2>3. Working' = {}
    BY <2>1, <2>2 DEF Working, Over
  <2>4. QED BY <1>0, <1>2, <2>3 DEF Alone
<1>3. ASSUME NEW c \in Calls, Begin(c) \/ TimesOut(c)
      PROVE  Begin(c) /\ Working = {} /\ Others(c) /\ Alone'
  <2>1. Begin(c) /\ Working = {}
    BY <1>0, <1>3, BeginsAlone
  <2>2. Others(c)
    BY <1>0, <1>3, OtherSteps DEF Steps
  <2>3. Working' \subseteq {c}
    BY <2>1, <2>2 DEF Others, Working, At
  <2>4. QED BY <2>1, <2>2, <2>3 DEF Alone
<1>4. ASSUME NEW c \in Calls, Acts(c)
      PROVE  /\ Acts(c) /\ Steps(c) /\ Aimed(c) /\ c \in Working /\ Alone'
             /\ \A d \in Calls \ {c} : d \notin Working /\ d \notin Working'
  <2>1. Steps(c)
    BY <1>0, <1>4, ActsSteps
  <2>2. c \in Working
    BY <1>4, ActsWorking
  <2>3. \A d \in Calls \ {c} : d \notin Working /\ d \notin Working'
    BY <2>1, <2>2 DEF Alone, Steps, Others, Working, At
  <2>4. Working' \subseteq {c}
    BY <2>3 DEF Working
  <2>5. QED BY <1>0, <1>4, <2>1, <2>2, <2>3, <2>4 DEF Alone, AllAimed
<1>5. QED BY <1>0, <1>1, <1>2, <1>3, <1>4 DEF Next, Acts

\* What one call may rely on while no other is at work: an imported job has all the trials
\* of an execution, but for what an archive is removing or a fault has left, what is removed
\* is what was listed, and what is copied replaces what was there.
BeingRemoved(b) == faults # 0 \/ \E c \in Calls : At(c) = "clearing" /\ c.on = b
ImportedJob(b) == \E n \in Attempts : dir[b] = Whole(Ran(b, n)) \/ (BeingRemoved(b) /\ TrialsIn(b) \subseteq Ran(b, n))
Imported  == \A b \in Uploads : dir[b] # None => ImportedJob(b)
Moving(c) == At(c) = "move" => dir[c.on] = None
Removal(c) == Removing(c) => /\ dir[Removed(c)] # None /\ call[c].todo = TrialsIn(Removed(c))
                             /\ call[c].conf = {} => FilesIn(Removed(c)) = {} /\ dir[Removed(c)].result = None
Holds(c)  == At(c) = "copy" /\ call[c].held # None => \A u \in TrialsIn(Here(c).to) : u.case # call[c].held.case
CallInv(c) == Moving(c) /\ Removal(c) /\ Holds(c)
AloneInv  == Alone /\ Imported /\ NoCaseTwice /\ \A c \in Calls : CallInv(c)
OneByOne  == load.open = 1
JobsAlone == OneByOne => AloneInv

Shrinks == \A p \in Paths : TrialsIn(p)' \subseteq TrialsIn(p)

LEMMA TargetShrinks ==
  ASSUME NEW q, Elsewhere(q), TrialsIn(q)' \subseteq TrialsIn(q)
  PROVE  Shrinks
<1>1. ASSUME NEW p \in Paths PROVE TrialsIn(p)' \subseteq TrialsIn(p)
  <2>1. CASE p = q
    BY <2>1
  <2>2. CASE p # q
    BY <2>2 DEF Elsewhere, TrialsIn
  <2>3. QED BY <2>1, <2>2
<1>2. QED BY <1>1 DEF Shrinks

LEMMA SameShrinks ==
  ASSUME dir' = dir
  PROVE  Shrinks
  BY DEF Shrinks, TrialsIn

LEMMA ShrinksKeeps ==
  ASSUME NoCaseTwice, Shrinks
  PROVE  NoCaseTwice'
  BY DEF NoCaseTwice, Shrinks

Keeps(c) == NoCaseTwice' /\ CallInv(c)'

LEMMA PlaceKeeps ==
  ASSUME NoCaseTwice, Shrinks, NEW c \in Calls, At(c)' \notin {"move", "copy", "clearing", "removing"}
  PROVE  Keeps(c)
  BY ShrinksKeeps DEF Keeps, CallInv, Moving, Removal, Removing, Holds

\* A removal of a call that is alone goes through.
Clears(c, p) ==
  \/ At(c) \in {"clear", "remove"} /\ dir' = dir /\ dir[p] = None /\ GoesOn(c)
  \/ /\ At(c) \in {"clear", "remove"} /\ dir' = dir /\ dir[p] # None
     /\ At(c)' = IF At(c) = "clear" THEN "clearing" ELSE "removing"
  \/ /\ Removing(c) /\ At(c)' = At(c) /\ dir'[p] # None /\ TrialsIn(p)' \subseteq TrialsIn(p)
  \/ /\ Removing(c) /\ dir'[p] = None /\ GoesOn(c)

LEMMA ClearingIs ==
  ASSUME JobsInv, NEW c \in Calls, Clearing(c), Removal(c), NEW p \in Paths, p = Removed(c)
  PROVE  /\ Others(c) /\ Elsewhere(p) /\ Removal(c)' /\ Clears(c, p)
         /\ call'[c].goal = call[c].goal /\ call'[c].left = call[c].left
<1>1. DirOK /\ CallOK /\ AllAimed
  BY DEF JobsInv, TypeOK, DirOK, CallOK
<1>2. /\ GoesOn(c) => /\ Others(c) /\ At(c)' = AfterRemoval(c)
                      /\ call'[c].goal = call[c].goal /\ call'[c].left = call[c].left
      /\ At(c)' = AfterRemoval(c) => Removal(c)'
  BY <1>1, GoesOnIs DEF Removal, Removing, AfterRemoval
<1>3. ASSUME At(c)' = At(c), Removing(c) PROVE Removed(c)' = p
  BY <1>3 DEF Removed, Removing
<1>4. CASE ListRemoved(c)
  <2>1. /\ Others(c) /\ dir' = dir /\ At(c) \in {"clear", "remove"}
        /\ call'[c].goal = call[c].goal /\ call'[c].left = call[c].left
        /\ \/ dir[p] = None /\ GoesOn(c)
           \/ /\ dir[p] # None /\ At(c)' = IF At(c) = "clear" THEN "clearing" ELSE "removing"
              /\ call'[c].todo = TrialsIn(p)
              /\ call'[c].conf = IF dir[p].files # {} \/ dir[p].result # None THEN {"config"} ELSE {}
    BY <1>1, <1>4, ListRemovedIs
  <2>2. CASE dir[p] = None /\ GoesOn(c)
    BY <1>2, <2>1, <2>2 DEF Elsewhere, Clears
  <2>3. CASE /\ dir[p] # None /\ At(c)' = IF At(c) = "clear" THEN "clearing" ELSE "removing"
             /\ call'[c].todo = TrialsIn(p)
             /\ call'[c].conf = IF dir[p].files # {} \/ dir[p].result # None THEN {"config"} ELSE {}
    <3>1. Removed(c)' = p
      BY <2>1, <2>3 DEF Removed
    <3>2. Removal(c)'
      BY <2>1, <2>3, <3>1 DEF Removal, TrialsIn, FilesIn
    <3>3. QED BY <2>1, <2>3, <3>2 DEF Elsewhere, Clears
  <2>4. QED BY <2>1, <2>2, <2>3
<1>5. CASE RemoveTrial(c)
  <2>1. /\ dir[p] # None /\ call[c].todo = TrialsIn(p) /\ Removing(c)
        /\ call[c].conf = {} => FilesIn(p) = {} /\ dir[p].result = None
    BY <1>5 DEF Removal, RemoveTrial
  <2>2. PICK t \in call[c].todo :
          /\ Others(c) /\ Elsewhere(p)
          /\ SameWork(c) /\ call'[c].todo = call[c].todo \ {t} /\ call'[c].conf = call[c].conf
          /\ TrialsIn(p)' = TrialsIn(p) \ {t} /\ FilesIn(p)' = FilesIn(p) /\ (dir'[p] = None) = (dir[p] = None)
          /\ dir[p] # None => dir'[p].result = dir[p].result
    BY <1>1, <1>5, <2>1, RemoveTrialIs
  <2>3. Removed(c)' = p
    BY <1>3, <2>1, <2>2 DEF SameWork
  <2>4. Removal(c)'
    BY <2>1, <2>2, <2>3 DEF Removal
  <2>5. QED BY <2>1, <2>2, <2>4 DEF Clears, SameWork
<1>6. CASE RemoveFiles(c)
  <2>1. dir[p] # None /\ call[c].todo = TrialsIn(p) /\ Removing(c)
    BY <1>6 DEF Removal, RemoveFiles
  <2>2. /\ Others(c) /\ Elsewhere(p)
        /\ SameWork(c) /\ call'[c].todo = call[c].todo /\ call'[c].conf = {}
        /\ TrialsIn(p)' = TrialsIn(p) /\ (dir'[p] = None) = (dir[p] = None) /\ FilesIn(p)' = {}
        /\ dir[p] # None => dir'[p].files = {} /\ dir'[p].result = None
    BY <1>1, <1>6, <2>1, RemoveFilesIs
  <2>3. Removed(c)' = p
    BY <1>3, <2>1, <2>2 DEF SameWork
  <2>4. Removal(c)'
    BY <2>1, <2>2, <2>3 DEF Removal
  <2>5. QED BY <2>1, <2>2, <2>4 DEF Clears, SameWork
<1>7. CASE RemoveDir(c)
  <2>1. /\ dir[p] # None /\ TrialsIn(p) = {} /\ Removing(c) /\ FilesIn(p) = {} /\ dir[p].result = None
    BY <1>7 DEF Removal, RemoveDir
  <2>2. dir[p] \in JobDir
    BY <1>1, <2>1, DirIs
  <2>3. dir[p] = NewDir
    BY <2>1, <2>2 DEF JobDir, NewDir, TrialsIn, FilesIn
  <2>4. Others(c) /\ Elsewhere(p) /\ dir'[p] = None /\ GoesOn(c) /\ At(c)' = AfterRemoval(c)
    BY <1>1, <1>7, <2>3, RemoveDirIs
  <2>5. QED BY <1>2, <2>1, <2>4 DEF Clears
<1>8. QED BY <1>4, <1>5, <1>6, <1>7 DEF Clearing

LEMMA ClearingKeeps ==
  ASSUME JobsInv, NoCaseTwice, NEW c \in Calls, Removal(c), Clearing(c)
  PROVE  Keeps(c)
<1>1. Aimed(c) /\ CallOK /\ At(c) \in {"clear", "clearing", "remove", "removing"}
  BY DEF JobsInv, AllAimed, TypeOK, CallOK, Clearing, ListRemoved, RemoveTrial, RemoveFiles, RemoveDir, Removing
<1>2. PICK p \in Paths : p = Removed(c)
  BY <1>1, RemovedIs DEF Aimed
<1>3. Elsewhere(p) /\ Removal(c)' /\ Clears(c, p)
  BY <1>2, ClearingIs
<1>4. Shrinks
  <2>1. TrialsIn(p)' \subseteq TrialsIn(p)
    BY <1>3 DEF Clears, TrialsIn
  <2>2. QED BY <1>3, <2>1, TargetShrinks
<1>5. ASSUME GoesOn(c) PROVE At(c)' = AfterRemoval(c)
  BY <1>1, <1>5, GoesOnIs
<1>6. At(c)' # "copy"
  BY <1>1, <1>3, <1>5 DEF Clears, AfterRemoval
<1>7. Moving(c)'
  <2> SUFFICES ASSUME At(c)' = "move" PROVE dir'[c.on] = None
    BY DEF Moving
  <2>1. GoesOn(c) /\ dir'[p] = None
    BY <1>1, <1>3 DEF Clears
  <2>2. p = c.on
    BY <1>1, <1>2, <1>5, <2>1 DEF AfterRemoval, Removed
  <2>3. QED BY <2>1, <2>2
<1>8. QED BY <1>3, <1>4, <1>6, <1>7, ShrinksKeeps DEF Keeps, CallInv, Holds

LEMMA CopyingKeeps ==
  ASSUME JobsInv, NoCaseTwice, NEW c \in Calls, Moving(c), Holds(c), Copying(c)
  PROVE  Keeps(c)
<1>1. DirOK /\ CallOK /\ Aimed(c)
  BY DEF JobsInv, TypeOK, DirOK, CallOK, AllAimed
<1>2. PICK p, q : p = Here(c).to /\ q = Here(c).from
  OBVIOUS
<1>3. At(c) \in {"source", "copy"}
  BY DEF Copying, NextSource, RemoveMatching, CopyTrial, EndSource
<1>4. call[c].left # <<>> /\ call[c].goal # None
  BY <1>1, <1>3 DEF Aimed
<1>5. p \in Paths
  BY <1>1, <1>2, <1>4, CallIs DEF Pairs
<1>6. CASE NextSource(c)
  <2>1. /\ Elsewhere(p) /\ TrialsIn(p)' = TrialsIn(p) /\ At(c) = "source" /\ At(c)' = "copy"
        /\ call'[c].held = call[c].held
    BY <1>1, <1>2, <1>4, <1>6, NextSourceIs
  <2>2. call'[c].held = None
    BY <1>1, <2>1 DEF Aimed
  <2>3. Shrinks
    BY <2>1, TargetShrinks
  <2>4. QED BY <2>1, <2>2, <2>3, ShrinksKeeps DEF Keeps, CallInv, Moving, Removal, Removing, Holds
<1>7. CASE RemoveMatching(c)
  <2>1. PICK t \in call[c].todo :
          /\ Elsewhere(p) /\ At(c)' = "copy" /\ call'[c].left = call[c].left /\ call'[c].held = t
          /\ TrialsIn(p)' = {u \in TrialsIn(p) : u.case # t.case}
    BY <1>1, <1>2, <1>4, <1>7, RemoveMatchingIs
  <2>2. Shrinks
    BY <2>1, TargetShrinks
  <2>3. (Here(c).to)' = p
    BY <1>2, <2>1 DEF Here
  <2>4. Holds(c)'
    BY <2>1, <2>3 DEF Holds
  <2>5. QED BY <2>1, <2>2, <2>4, ShrinksKeeps DEF Keeps, CallInv, Moving, Removal, Removing
<1>8. CASE CopyTrial(c)
  <2>1. /\ Elsewhere(p) /\ At(c) = "copy" /\ call[c].held # None /\ call'[c].held = None
        /\ \/ Goto(c, "failed") /\ dir' = dir
           \/ At(c)' = "copy" /\ TrialsIn(p)' = TrialsIn(p) \cup {call[c].held}
    BY <1>1, <1>2, <1>4, <1>8, CopyTrialIs
  <2>2. CASE Goto(c, "failed") /\ dir' = dir
    <3>1. At(c)' = "failed"
      BY <1>1, <2>2, Goes DEF Places, Over
    <3>2. QED BY <2>2, <3>1, SameShrinks, PlaceKeeps
  <2>3. CASE At(c)' = "copy" /\ TrialsIn(p)' = TrialsIn(p) \cup {call[c].held}
    <3>1. \A u \in TrialsIn(p) : u.case # call[c].held.case
      BY <1>2, <2>1 DEF Holds
    <3>2. \A t, u \in TrialsIn(p)' : t.case = u.case => t = u
      BY <1>5, <2>3, <3>1 DEF NoCaseTwice
    <3>3. \A d \in Paths \ {p} : TrialsIn(d)' = TrialsIn(d)
      BY <2>1 DEF Elsewhere, TrialsIn
    <3>4. NoCaseTwice'
      BY <3>2, <3>3 DEF NoCaseTwice
    <3>5. QED BY <2>1, <2>3, <3>4 DEF Keeps, CallInv, Moving, Removal, Removing, Holds
  <2>4. QED BY <2>1, <2>2, <2>3
<1>9. CASE EndSource(c)
  <2>1. dir' = dir /\ (At(c)' = AfterCopy(call[c].goal) \/ At(c)' = "source")
    BY <1>1, <1>4, <1>9, EndSourceIs
  <2>2. call[c].goal \in Goals
    BY <1>1, <1>4, CallIs
  <2>3. At(c)' \notin {"move", "copy", "clearing", "removing"}
    BY <2>1, <2>2 DEF AfterCopy, Goals
  <2>4. QED BY <2>1, <2>3, SameShrinks, PlaceKeeps
<1>10. QED BY <1>6, <1>7, <1>8, <1>9 DEF Copying

LEMMA GiveUpKeeps ==
  ASSUME JobsInv, NoCaseTwice, NEW c \in Calls, GiveUp(c)
  PROVE  Keeps(c)
<1>1. dir' = dir /\ At(c)' \in {"done", "remove"}
  BY GiveUpIs DEF JobsInv, TypeOK, DirOK, CallOK
<1>2. QED BY <1>1, SameShrinks, PlaceKeeps

LEMMA MergingKeeps ==
  ASSUME JobsInv, NoCaseTwice, NEW c \in Calls, Merging(c)
  PROVE  Keeps(c)
<1>1. DirOK /\ CallOK
  BY DEF JobsInv, TypeOK, DirOK, CallOK
<1>2. PICK p : p = JobOf[CallRun(c)]
  OBVIOUS
<1>3. CASE View(c)
  <2>1. PICK place \in {"done", "plan"} : Goto(c, place) /\ dir' = dir
    BY <1>3 DEF View
  <2>2. At(c)' = place
    BY <1>1, <2>1, Goes DEF Places, Over
  <2>3. QED BY <2>1, <2>2, SameShrinks, PlaceKeeps
<1>4. CASE Plan(c)
  <2>1. dir' = dir /\ \E s : call' = [call EXCEPT ![c] = Doing("done", None, s)] \/ call' = [call EXCEPT ![c] = Doing("remove", "merged", s)]
    BY <1>4 DEF Plan, Goto
  <2>2. At(c)' \in {"done", "remove"}
    BY <1>1, <2>1 DEF At, Doing, CallOK
  <2>3. QED BY <2>1, <2>2, SameShrinks, PlaceKeeps
<1>6. CASE WriteConfig(c)
  <2>1. /\ Elsewhere(p)
        /\ \/ GiveUp(c)
           \/ At(c)' = "failed" /\ dir' = dir
           \/ At(c)' = "read" /\ TrialsIn(p)' = TrialsIn(p)
    BY <1>1, <1>2, <1>6, WriteConfigIs
  <2>2. CASE At(c)' = "failed" /\ dir' = dir
    BY <2>2, SameShrinks, PlaceKeeps
  <2>3. CASE At(c)' = "read" /\ TrialsIn(p)' = TrialsIn(p)
    BY <2>1, <2>3, TargetShrinks, PlaceKeeps
  <2>4. QED BY <2>1, <2>2, <2>3, GiveUpKeeps
<1>7. CASE ReadTrials(c)
  <2>1. GiveUp(c) \/ (At(c)' = "write" /\ dir' = dir)
    BY <1>1, <1>2, <1>7, ReadTrialsIs
  <2>2. CASE At(c)' = "write" /\ dir' = dir
    BY <2>2, SameShrinks, PlaceKeeps
  <2>3. QED BY <2>1, <2>2, GiveUpKeeps
<1>8. CASE FinalizeFails(c)
  BY <1>8, GiveUpKeeps DEF FinalizeFails
<1>9. CASE WriteResult(c)
  <2>1. /\ Elsewhere(p)
        /\ GiveUp(c) \/ (At(c)' = "done" /\ TrialsIn(p)' = TrialsIn(p))
    BY <1>1, <1>2, <1>9, WriteResultIs
  <2>2. CASE At(c)' = "done" /\ TrialsIn(p)' = TrialsIn(p)
    BY <2>1, <2>2, TargetShrinks, PlaceKeeps
  <2>3. QED BY <2>1, <2>2, GiveUpKeeps
<1>10. QED BY <1>3, <1>4, <1>6, <1>7, <1>8, <1>9 DEF Merging

LEMMA HandlingKeeps ==
  ASSUME JobsInv, NoCaseTwice, NEW c \in Calls, Moving(c), Handling(c)
  PROVE  Keeps(c)
<1>1. DirOK /\ CallOK /\ Suits(c, At(c))
  BY DEF JobsInv, TypeOK, DirOK, CallOK, AllAimed, Aimed
<1>3. CASE MoveImported(c)
  <2>1. At(c) = "move" /\ c.on \in Batches /\ c.on \in Paths /\ c.n \in Attempts
    BY <1>1, <1>3 DEF MoveImported, Suits, Paths, Attempts
  <2>2. dir[c.on] = None
    BY <2>1 DEF Moving
  <2>3. Elsewhere(c.on) /\ dir'[c.on] # None /\ dir'[c.on] = Whole(Ran(c.on, c.n)) /\ At(c)' \in {"merge", "plan"}
    BY <1>1, <1>3, <2>1, <2>2, MoveImportedIs
  <2>4. TrialsIn(c.on)' = Ran(c.on, c.n)
    BY <2>3 DEF TrialsIn, Whole
  <2>5. \A t, u \in TrialsIn(c.on)' : t.case = u.case => t = u
    BY <2>4 DEF Ran
  <2>6. \A d \in Paths \ {c.on} : TrialsIn(d)' = TrialsIn(d)
    BY <2>3 DEF Elsewhere, TrialsIn
  <2>7. NoCaseTwice'
    BY <2>5, <2>6 DEF NoCaseTwice
  <2>8. QED BY <2>3, <2>7 DEF Keeps, CallInv, Moving, Removal, Removing, Holds
<1>4. CASE Update(c)
  <2>1. PICK place \in {"merge", "done"} : Goto(c, place) /\ dir' = dir
    BY <1>4 DEF Update
  <2>2. At(c)' = place
    BY <1>1, <2>1, Goes DEF Places, Over
  <2>3. QED BY <2>1, <2>2, SameShrinks, PlaceKeeps
<1>5. CASE MergeImported(c)
  <2>1. dir' = dir /\ \E g, s : \E place \in {"source", "done", "check"} : call' = [call EXCEPT ![c] = Doing(place, g, s)]
    BY <1>5 DEF MergeImported, CopyAll, Goto
  <2>2. At(c)' \in {"source", "done", "check"}
    BY <1>1, <2>1 DEF At, Doing, CallOK
  <2>3. QED BY <2>1, <2>2, SameShrinks, PlaceKeeps
<1>6. CASE CopyMetadata(c)
  <2>1. PICK p : p = ParentBatch[c.on]
    OBVIOUS
  <2>2. IsRerun(c.on) /\ c.on \in Batches /\ p \in Paths
    BY <1>1, <1>6, <2>1, RerunIs DEF CopyMetadata, Suits, Paths
  <2>3. Elsewhere(p) /\ At(c)' = "check" /\ TrialsIn(p)' = TrialsIn(p)
    BY <1>1, <1>6, <2>1, <2>2, CopyMetadataIs
  <2>4. QED BY <2>3, TargetShrinks, PlaceKeeps
<1>7. CASE CheckComplete(c)
  <2>1. dir' = dir /\ \E g, s : \E place \in {"source", "done", "plan"} : call' = [call EXCEPT ![c] = Doing(place, g, s)]
    BY <1>7 DEF CheckComplete, FinalCopy, CopyAll, Goto
  <2>2. At(c)' \in {"source", "done", "plan"}
    BY <1>1, <2>1 DEF At, Doing, CallOK
  <2>3. QED BY <2>1, <2>2, SameShrinks, PlaceKeeps
<1>8. QED BY <1>3, <1>4, <1>5, <1>6, <1>7 DEF Handling

LEMMA OtherKeeps ==
  ASSUME JobsInv, NoCaseTwice, NEW c \in Calls, Begin(c) \/ StartRerun(c) \/ Repair(c) \/ Backfill(c)
  PROVE  Keeps(c)
<1>1. DirOK /\ CallOK /\ Suits(c, At(c))
  BY DEF JobsInv, TypeOK, DirOK, CallOK, AllAimed, Aimed
<1>2. CASE Begin(c)
  <2>1. c.kind \in {"archive", "final", "view", "start", "repair"}
    BY KindIs
  <2>2. PICK place \in {"clear", "update", "view", "start", "repair"} : Goto(c, place) /\ dir' = dir
    BY <1>2, <2>1 DEF Begin
  <2>3. At(c)' = place
    BY <1>1, <2>2, Goes DEF Places, Over
  <2>4. QED BY <2>2, <2>3, SameShrinks, PlaceKeeps
<1>3. CASE StartRerun(c)
  <2>1. c.on \in Derived /\ c.on \in Runs /\ Parent[c.on] \in Runs
    BY <1>1, <1>3, JobsAssumption DEF StartRerun, Suits, Derived
  <2>2. PICK place \in {"failed", "done"} : Goto(c, place)
    BY <1>3 DEF StartRerun
  <2>3. At(c)' = place
    BY <1>1, <2>2, Goes DEF Places, Over
  <2>4. CASE dir' = dir
    BY <2>3, <2>4, SameShrinks, PlaceKeeps
  <2>5. CASE dir' = [dir EXCEPT ![JobOf[c.on]] = dir[JobOf[Parent[c.on]]]]
    <3>1. JobOf[c.on] \in Paths /\ JobOf[Parent[c.on]] \in Paths
      BY <2>1 DEF Paths
    <3>2. \A p \in Paths : TrialsIn(p)' = TrialsIn(p) \/ TrialsIn(p)' = TrialsIn(JobOf[Parent[c.on]])
      BY <1>1, <2>5, <3>1 DEF DirOK, TrialsIn
    <3>3. NoCaseTwice'
      BY <3>1, <3>2 DEF NoCaseTwice
    <3>4. QED BY <2>3, <3>3 DEF Keeps, CallInv, Moving, Removal, Removing, Holds
  <2>6. QED BY <1>3, <2>4, <2>5 DEF StartRerun, CopyHarborJob, SourceJob
<1>4. CASE Repair(c)
  <2>1. dir' = dir /\ \E g, s : \E place \in {"source", "rows"} : call' = [call EXCEPT ![c] = Doing(place, g, s)]
    BY <1>4 DEF Repair, CopyAll, Goto
  <2>2. At(c)' \in {"source", "rows"}
    BY <1>1, <2>1 DEF At, Doing, CallOK
  <2>3. QED BY <2>1, <2>2, SameShrinks, PlaceKeeps
<1>5. CASE Backfill(c)
  <2>1. PICK place \in {"plan", "failed"} : Goto(c, place) /\ dir' = dir
    BY <1>5 DEF Backfill
  <2>2. At(c)' = place
    BY <1>1, <2>1, Goes DEF Places, Over
  <2>3. QED BY <2>1, <2>2, SameShrinks, PlaceKeeps
<1>6. QED BY <1>2, <1>3, <1>4, <1>5

LEMMA ImportedStep ==
  ASSUME JobsInv, Imported, \A c \in Calls : Moving(c) /\ Removal(c), [Next]_vars
  PROVE  Imported'
<1>0. DirOK /\ CallOK /\ AllAimed /\ TypeOK
  BY DEF JobsInv, TypeOK, DirOK, CallOK
<1>1. SUFFICES ASSUME NEW b \in Uploads, dir'[b] # None PROVE ImportedJob(b)'
  BY DEF Imported, Uploads, Originals
<1>2. b \in Batches /\ b \in Paths /\ (dir[b] # None => ImportedJob(b))
  BY DEF Imported, Uploads, Paths
<1>3. CASE dir'[b] = dir[b]
  <2>1. ImportedJob(b) /\ TrialsIn(b)' = TrialsIn(b)
    BY <1>1, <1>2, <1>3 DEF TrialsIn
  <2>2. BeingRemoved(b) => BeingRemoved(b)'
    <3> SUFFICES ASSUME NEW c \in Calls, At(c) = "clearing", c.on = b, faults' = 0 PROVE At(c)' = "clearing"
      BY <1>0, FaultsStay DEF BeingRemoved
    <3>1. ~Crash
      BY <1>0, FaultIs DEF Crash
    <3>2. CASE UNCHANGED vars
      BY <3>2 DEF vars, At
    <3>3. ASSUME NEW d \in Calls, Begin(d) \/ TimesOut(d) \/ Acts(d) PROVE At(c)' = "clearing"
      <4>1. Steps(d)
        BY <1>0, <3>3, ActsSteps
      <4>2. CASE d # c
        BY <4>1, <4>2 DEF Steps, Others, At
      <4>3. CASE d = c
        <5>1. Clearing(c)
          BY <3>3, <4>3, ImportStep DEF MoveImported
        <5>2. Removed(c) = b
          BY DEF Removed
        <5>3. Clears(c, b)
          BY <1>2, <5>1, <5>2, ClearingIs
        <5>4. QED BY <1>1, <5>3 DEF Clears
      <4>4. QED BY <4>2, <4>3
    <3>4. QED BY <3>1, <3>2, <3>3 DEF Next, Acts
  <2>3. QED BY <1>3, <2>1, <2>2 DEF ImportedJob
<1>4. CASE dir'[b] # dir[b]
  <2>1. PICK c \in Calls : /\ c.on = b /\ At(c) \in {"clear", "clearing", "move"}
                           /\ Clearing(c) \/ MoveImported(c)
    BY <1>4, UploadStep
  <2>2. CASE Clearing(c)
    <3>1. At(c) \in {"clear", "clearing"} /\ Removed(c) = b
      BY <2>1, <2>2 DEF Clearing, ListRemoved, RemoveTrial, RemoveFiles, RemoveDir, Removing, Removed
    <3>2. Clears(c, b)
      BY <1>2, <2>2, <3>1, ClearingIs
    <3>3. Removing(c) /\ At(c)' = At(c) /\ TrialsIn(b)' \subseteq TrialsIn(b)
      BY <1>1, <1>4, <3>2 DEF Clears
    <3>4. BeingRemoved(b)'
      BY <2>1, <3>1, <3>3 DEF BeingRemoved, Removing
    <3>5. dir[b] # None
      BY <3>1, <3>3 DEF Removal
    <3>6. PICK n \in Attempts : TrialsIn(b) \subseteq Ran(b, n)
      <4>1. PICK n \in Attempts : dir[b] = Whole(Ran(b, n)) \/ TrialsIn(b) \subseteq Ran(b, n)
        BY <1>2, <3>5 DEF ImportedJob
      <4>2. dir[b] = Whole(Ran(b, n)) => TrialsIn(b) = Ran(b, n)
        BY <3>5 DEF TrialsIn, Whole
      <4>3. QED BY <4>1, <4>2
    <3>7. QED BY <3>3, <3>4, <3>6 DEF ImportedJob
  <2>3. CASE MoveImported(c)
    <3>1. dir[b] = None
      BY <2>1, <2>3 DEF Moving, MoveImported
    <3>2. dir'[b] = Whole(Ran(b, c.n))
      BY <1>0, <1>2, <2>1, <2>3, <3>1, MoveImportedIs
    <3>3. c.n \in Attempts
      BY DEF Attempts
    <3>4. QED BY <3>2, <3>3 DEF ImportedJob
  <2>4. QED BY <2>1, <2>2, <2>3
<1>5. QED BY <1>3, <1>4

LEMMA AloneStep ==
  ASSUME JobsInv, load.open = 1, AloneInv, [Next]_vars
  PROVE  AloneInv'
<1>1. Alone /\ Imported /\ NoCaseTwice /\ \A c \in Calls : CallInv(c)
  BY DEF AloneInv
<1>2. Alone' /\ Imported'
  BY <1>1, StepAlone, ImportedStep DEF CallInv
<1>3. ASSUME NEW d \in Calls, d \notin Working' PROVE CallInv(d)'
  BY <1>3 DEF Working, CallInv, Moving, Removal, Removing, Holds, Over
<1>4. SUFFICES NoCaseTwice' /\ \A d \in Working' : CallInv(d)'
  <2>1. \A d \in Calls : CallInv(d)'
    BY <1>3, <1>4
  <2>2. QED BY <1>2, <1>4, <2>1 DEF AloneInv
<1>5. CASE UNCHANGED vars
  <2>1. NoCaseTwice'
    BY <1>1, <1>5 DEF vars, NoCaseTwice, TrialsIn
  <2>2. ASSUME NEW d \in Calls PROVE CallInv(d)'
    BY <1>1, <1>5 DEF vars, CallInv, Moving, Removal, Removing, Removed, Holds, At, TrialsIn, FilesIn, Here
  <2>3. QED BY <2>1, <2>2 DEF Working
<1>6. CASE Crash
  <2>1. dir' = dir
    BY <1>6 DEF Crash
  <2>2. \A c \in Calls : c \in Working => At(c)' = "lost"
    BY <1>6 DEF Crash, At, Doing
  <2>3. \A c \in Calls : c \notin Working => At(c)' = At(c)
    BY <1>6 DEF Crash, At
  <2>4. Working' = {}
    BY <2>2, <2>3 DEF Working, Over
  <2>5. QED BY <1>1, <2>1, <2>4, SameShrinks, ShrinksKeeps
<1>7. ASSUME NEW c \in Calls, Begin(c), Working = {}, Others(c)
      PROVE  NoCaseTwice' /\ \A d \in Working' : CallInv(d)'
  <2>1. Keeps(c)
    BY <1>1, <1>7, OtherKeeps
  <2>2. Working' \subseteq {c}
    BY <1>7 DEF Others, Working, At
  <2>3. QED BY <2>1, <2>2 DEF Keeps
<1>8. ASSUME NEW c \in Working, Acts(c), \A d \in Calls \ {c} : d \notin Working'
      PROVE  NoCaseTwice' /\ \A d \in Working' : CallInv(d)'
  <2>1. c \in Calls
    BY DEF Working
  <2>2. Keeps(c)
    BY <1>1, <1>8, <2>1, ClearingKeeps, CopyingKeeps, MergingKeeps, HandlingKeeps, OtherKeeps DEF Acts, CallInv
  <2>3. Working' \subseteq {c}
    BY <1>8 DEF Working
  <2>4. QED BY <2>2, <2>3 DEF Keeps
<1>9. QED BY <1>1, <1>5, <1>6, <1>7, <1>8, StepAlone

LEMMA InitAlone ==
  ASSUME CasesApart, Init
  PROVE  AloneInv
<1>1. load.merged \subseteq Runs /\ DirOK
  BY LoadIs, InitDirs DEF Init
<1>2. Working = {}
  BY DEF Init, Working, At, Doing
<1>3. \A c \in Calls : CallInv(c)
  BY <1>2 DEF Working, CallInv, Moving, Removal, Removing, Holds, Over
<1>4. Imported
  <2>1. ASSUME NEW b \in Uploads, dir[b] # None PROVE dir[b] = Whole(Ran(b, 1))
    BY <2>1, InitUploads DEF Uploads
  <2>2. 1 \in Attempts
    BY DEF Attempts
  <2>3. QED BY <2>1, <2>2 DEF Imported, ImportedJob
<1>5. NoCaseTwice
  <2> SUFFICES ASSUME NEW p \in Paths, NEW t \in TrialsIn(p), NEW u \in TrialsIn(p), t.case = u.case PROVE t = u
    BY DEF NoCaseTwice
  <2>1. CASE p \in Batches
    <3>1. dir[p] # None
      BY DEF TrialsIn
    <3>2. dir[p] = Whole(Ran(p, 1))
      BY <2>1, <3>1, InitUploads
    <3>3. t \in Ran(p, 1) /\ u \in Ran(p, 1)
      BY <3>1, <3>2 DEF TrialsIn, Whole
    <3>4. QED BY <3>3 DEF Ran
  <2>2. CASE p \notin Batches
    <3>1. \A r \in load.merged : p \notin PrimaryOf(r)
      BY <1>1, <2>2, RunOfIs
    <3>2. dir[p] = IF \E r \in load.merged : p = JobOf[r]
                   THEN Whole(FirstTrials(CHOOSE r \in load.merged : p = JobOf[r])) ELSE None
      BY <3>1 DEF Init
    <3>3. dir[p] # None
      BY DEF TrialsIn
    <3>4. PICK r \in load.merged : dir[p] = Whole(FirstTrials(r))
      BY <3>2, <3>3
    <3>5. t \in FirstTrials(r) /\ u \in FirstTrials(r) /\ r \in Runs
      BY <1>1, <3>3, <3>4 DEF TrialsIn, Whole
    <3>6. PICK b, d : b \in PrimaryOf(r) /\ d \in PrimaryOf(r) /\ t \in Ran(b, 1) /\ u \in Ran(d, 1)
      BY <3>5 DEF FirstTrials
    <3>7. b = d
      BY <3>5, <3>6 DEF CasesApart, Ran
    <3>8. QED BY <3>6, <3>7 DEF Ran
  <2>3. QED BY <2>1, <2>2
<1>6. QED BY <1>2, <1>3, <1>4, <1>5 DEF AloneInv, Alone

LEMMA JobsAloneStep ==
  ASSUME JobsInv, JobsAlone, [Next]_vars
  PROVE  JobsAlone'
BY AloneStep, LoadStays DEF JobsAlone, OneByOne

\* What comes in replaces what was there (_remove_matching_trial_dirs before copytree,
\* the imported directory removed before an archive is moved in): no directory ever
\* has two trials of a case, when calls come one after the other, cut off or not, and
\* no case is in two batches of a run.
THEOREM NoCaseIsTwice ==
  ASSUME CasesApart
  PROVE  Spec => [](OneByOne => NoCaseTwice)
<1>1. Init => JobsInv /\ JobsAlone
  BY InitJobs, InitAlone DEF JobsAlone
<1>2. JobsInv /\ JobsAlone /\ [Next]_vars => JobsInv' /\ JobsAlone'
  BY StepJobs, JobsAloneStep
<1>3. JobsAlone => (OneByOne => NoCaseTwice)
  BY DEF JobsAlone, AloneInv
<1>4. QED BY <1>1, <1>2, <1>3, PTL DEF Spec

-----------------------------------------------------------------------------
(* The merged job of an original run is built.                              *)

Of(bs)      == UNION {TrialsIn(b) : b \in bs}
Uploaded(r) == Of(PrimaryOf(r))
\* There is nothing to build the job from: no trial, or no configuration.
Vain(r)    == Uploaded(r) = {} \/ \A b \in PrimaryOf(r) : FilesIn(b) = {}
Settled(r) == ~Vain(r) => IsWhole(dir[JobOf[r]]) /\ dir[JobOf[r]].trials = Uploaded(r)

\* The sources that are left, and what came from the others.
Left(c)   == {call[c].left[i].from : i \in DOMAIN call[c].left}
Built(c)  == Of(PrimaryOf(CallRun(c)) \ Left(c))
Bare(c)   == \A b \in PrimaryOf(CallRun(c)) \ Left(c) : FilesIn(b) = {}
Listed(c) ==
  /\ \A i, j \in DOMAIN call[c].left : call[c].left[i].from = call[c].left[j].from => i = j
  /\ \A i \in DOMAIN call[c].left : dir[call[c].left[i].from] # None

\* The old job is removed: the new one is to be built, or has been given up.
Empties(c) == At(c) \in {"remove", "removing"} /\ call[c].goal = "merged"
GaveUp(c)  == At(c) \in {"remove", "removing"} /\ call[c].goal = None
Lists(c)   == At(c) \in {"source", "copy"} \/ Empties(c)
Excused(c) == Vain(CallRun(c)) \/ (faults # 0 /\ last # c)

Rebuilds == {"plan", "remove", "removing", "source", "copy", "config", "read", "write"}
Building(c) ==
  LET job == JobOf[CallRun(c)]
      from == Here(c).from
  IN  /\ Lists(c) => Listed(c)
      /\ Empties(c) => Built(c) = {} /\ Bare(c)
      /\ GaveUp(c) => Excused(c)
      /\ At(c) = "source" => TrialsIn(job) = Built(c) /\ (call[c].conf = {} => Bare(c))
      /\ At(c) = "copy" =>
           /\ dir[job] # None /\ (call[c].conf = {} => Bare(c) /\ FilesIn(from) = {})
           /\ call[c].todo \subseteq TrialsIn(from)
           /\ call[c].held \in (TrialsIn(from) \ call[c].todo) \cup {None}
           /\ TrialsIn(job) = Built(c) \cup (TrialsIn(from) \ (call[c].todo \cup {call[c].held}))
      /\ At(c) \in {"config", "read", "write"} => dir[job] # None /\ TrialsIn(job) = Uploaded(CallRun(c))
      /\ At(c) = "config" /\ call[c].conf = {} => Vain(CallRun(c))
      /\ At(c) \in {"read", "write"} => dir[job].files # {}
      /\ At(c) = "write" => call[c].seen = Uploaded(CallRun(c))

\* The imported jobs of a run have no job in them, and no two trials of one case.
Sourced(r) ==
  /\ \A b \in PrimaryOf(r) : \A t \in TrialsIn(b) : t.case # t.by
  /\ \A b, d \in PrimaryOf(r) : \A t \in TrialsIn(b), u \in TrialsIn(d) : t.case = u.case => t = u /\ b = d

Ground(c) ==
  /\ JobsInv /\ Sourced(CallRun(c)) /\ Building(c) /\ Removal(c)
  /\ At(c) \in {"source", "copy"} => call[c].goal = "merged"
Rebuilt(c) == Building(c)' /\ (At(c)' \in Rebuilds \/ Settled(CallRun(c))' \/ (faults' # 0 /\ last' # c))

\* What a call on an original run does not do.
LEMMA OriginalCallIs ==
  ASSUME JobsInv, NEW c \in Calls, CallRun(c) \in Originals
  PROVE  /\ ~IsRerun(c.on) /\ c.on \notin Derived /\ (c.on \in Runs => Reruns[c.on] = {} /\ CallRun(c) = c.on)
         /\ At(c) \notin {"merge", "meta", "check", "start"}
         /\ At(c) \in {"source", "copy"} => call[c].goal = "merged"
         /\ c.on \in Batches => c.on \in PrimaryOf(CallRun(c))
<1>1. CallOK /\ Aimed(c)
  BY DEF JobsInv, TypeOK, CallOK, AllAimed
<1>2. ~IsRerun(c.on)
  <2> SUFFICES ASSUME IsRerun(c.on) PROVE FALSE
    OBVIOUS
  <2>1. c.on \in Batches
    BY RunOfIs DEF IsRerun
  <2>2. CallRun(c) = RunOf(c.on)
    BY <2>1, JobsAssumption DEF CallRun
  <2>3. QED BY <2>1, <2>2, RerunIs DEF Originals
<1>3. c.on \notin Derived /\ (c.on \in Runs => Reruns[c.on] = {} /\ CallRun(c) = c.on)
  BY JobsAssumption DEF CallRun, Originals, Derived
<1>4. At(c) \notin {"merge", "meta", "check", "start"}
  BY <1>1, <1>2, <1>3 DEF Aimed, Suits
<1>5. ASSUME At(c) \in {"source", "copy"} PROVE call[c].goal = "merged"
  <2>1. call[c].left # <<>> /\ call[c].goal \in Goals /\ call[c].left \in Seq(Pairs)
    BY <1>1, <1>5, CallIs DEF Aimed
  <2>2. 1 \in DOMAIN call[c].left
    BY <2>1, TailIs, LenProperties
  <2>3. Fits(c, call[c].goal, call[c].left)
    BY <1>1 DEF Aimed
  <2>4. call[c].goal # "final" /\ call[c].goal # "parent"
    BY <1>2, <2>3 DEF Fits
  <2>5. call[c].goal # "repair"
    BY <1>3, <2>2, <2>3 DEF Fits
  <2>6. QED BY <2>1, <2>4, <2>5 DEF Goals
<1>6. c.on \in Batches => c.on \in PrimaryOf(CallRun(c))
  <2> SUFFICES ASSUME c.on \in Batches PROVE c.on \in PrimaryOf(CallRun(c))
    OBVIOUS
  <2>1. PICK r \in Runs : c.on \in PrimaryOf(r) \cup Reruns[r]
    BY DEF Batches
  <2>2. CallRun(c) = r
    BY <2>1, RunOfIs, JobsAssumption DEF CallRun
  <2>3. QED BY <1>2, <2>1, <2>2 DEF IsRerun
<1>7. QED BY <1>2, <1>3, <1>4, <1>5, <1>6

\* What is imported for an original run has its batch's trials, one of a case.
LEMMA ImportedIs ==
  ASSUME JobsInv, AloneInv, NEW r \in Originals, NEW b \in PrimaryOf(r)
  PROVE  /\ b \in Uploads /\ b \in Batches /\ b \in Paths
         /\ dir[b] = None => TrialsIn(b) = {}
         /\ \A t \in TrialsIn(b) : t.by = b /\ t.case \in Cases[b] /\ t.case # t.by
<1>1. b \in Uploads /\ b \in Batches /\ b \in Paths
  BY RunOfIs DEF Uploads, Originals, Paths
<1>2. ASSUME dir[b] # None PROVE \A t \in TrialsIn(b) : t.by = b /\ t.case \in Cases[b] /\ t.case # t.by
  <2>1. PICK n \in Attempts : dir[b] = Whole(Ran(b, n)) \/ TrialsIn(b) \subseteq Ran(b, n)
    BY <1>1, <1>2 DEF AloneInv, Imported, ImportedJob
  <2>2. TrialsIn(b) \subseteq Ran(b, n)
    BY <1>2, <2>1 DEF TrialsIn, Whole
  <2>3. QED BY <1>1, <2>2, RanIs
<1>3. dir[b] = None => TrialsIn(b) = {}
  BY DEF TrialsIn
<1>4. QED BY <1>1, <1>2, <1>3

LEMMA OneCase ==
  ASSUME CasesApart, JobsInv, AloneInv, NEW r \in Originals, NEW b \in PrimaryOf(r), NEW d \in PrimaryOf(r),
         NEW t \in TrialsIn(b), NEW u \in TrialsIn(d), t.case = u.case
  PROVE  t = u /\ b = d
<1>1. t.case \in Cases[b] /\ u.case \in Cases[d] /\ b \in Paths
  BY ImportedIs
<1>2. b = d
  BY <1>1 DEF CasesApart, Originals
<1>3. QED BY <1>1, <1>2 DEF AloneInv, NoCaseTwice

LEMMA OriginalGround ==
  ASSUME CasesApart, JobsInv, AloneInv, NEW c \in Calls, CallRun(c) \in Originals, Building(c)
  PROVE  Ground(c)
<1>1. PICK r \in Originals : r = CallRun(c)
  OBVIOUS
<1>2. Sourced(r)
  BY ImportedIs, OneCase DEF Sourced
<1>3. QED BY <1>1, <1>2, OriginalCallIs DEF Ground, AloneInv, CallInv

\* The imported jobs stay when another directory is written.
LEMMA ImportedStays ==
  ASSUME NEW r \in Runs, NEW p, p \notin Batches, Elsewhere(p)
  PROVE  /\ \A b \in PrimaryOf(r) : dir'[b] = dir[b] /\ TrialsIn(b)' = TrialsIn(b) /\ FilesIn(b)' = FilesIn(b)
         /\ Uploaded(r)' = Uploaded(r) /\ Vain(r)' = Vain(r)
<1>1. ASSUME NEW b \in PrimaryOf(r)
      PROVE  dir'[b] = dir[b] /\ TrialsIn(b)' = TrialsIn(b) /\ FilesIn(b)' = FilesIn(b)
  <2>1. b \in Batches /\ b \in Paths
    BY RunOfIs DEF Paths
  <2>2. dir'[b] = dir[b]
    BY <2>1 DEF Elsewhere
  <2>3. QED BY <2>2 DEF TrialsIn, FilesIn
<1>2. Uploaded(r)' = Uploaded(r)
  BY <1>1 DEF Uploaded, Of
<1>3. QED BY <1>1, <1>2 DEF Vain

LEMMA BuiltStays ==
  ASSUME NEW c \in Calls, call'[c].left = call[c].left,
         \A b \in PrimaryOf(CallRun(c)) : dir'[b] = dir[b] /\ TrialsIn(b)' = TrialsIn(b) /\ FilesIn(b)' = FilesIn(b)
  PROVE  Built(c)' = Built(c) /\ (Bare(c) => Bare(c)') /\ Left(c)' = Left(c) /\ Here(c)' = Here(c)
<1>1. Left(c)' = Left(c) /\ Here(c)' = Here(c)
  BY DEF Left, Here
<1>2. QED BY <1>1 DEF Built, Bare, Of

\* What is left to copy comes from batches of the run.
LEMMA LeftIs ==
  ASSUME JobsInv, NEW c \in Calls, Lists(c), call[c].goal = "merged"
  PROVE  /\ call[c].left \in Seq(Pairs) /\ call[c].left # <<>>
         /\ Here(c) = call[c].left[1] /\ 1 \in DOMAIN call[c].left /\ DOMAIN call[c].left = 1..Len(call[c].left)
         /\ \A i \in DOMAIN call[c].left : /\ call[c].left[i].to = JobOf[CallRun(c)]
                                           /\ call[c].left[i].from \in PrimaryOf(CallRun(c))
         /\ Here(c).to = JobOf[CallRun(c)] /\ Here(c).from \in PrimaryOf(CallRun(c)) /\ Here(c).from \in Left(c)
<1>1. CallOK /\ Aimed(c)
  BY DEF JobsInv, TypeOK, CallOK, AllAimed
<1>2. call[c].left \in Seq(Pairs) /\ call[c].left # <<>> /\ Here(c) = call[c].left[1]
  BY <1>1, CallIs, JobsAssumption DEF Aimed, Lists, Empties, Goals
<1>3. 1 \in DOMAIN call[c].left /\ DOMAIN call[c].left = 1..Len(call[c].left)
  BY <1>2, TailIs, LenProperties
<1>4. Fits(c, "merged", call[c].left)
  BY <1>1 DEF Aimed
<1>5. \A i \in DOMAIN call[c].left : /\ call[c].left[i].to = JobOf[CallRun(c)]
                                     /\ call[c].left[i].from \in PrimaryOf(CallRun(c))
  BY <1>4 DEF Fits
<1>6. QED BY <1>1, <1>2, <1>3, <1>5 DEF Left

LEMMA ListedStays ==
  ASSUME JobsInv, NEW c \in Calls, Lists(c), call[c].goal = "merged", Listed(c),
         call'[c].left = call[c].left, \A b \in PrimaryOf(CallRun(c)) : dir'[b] = dir[b]
  PROVE  Listed(c)'
  BY LeftIs DEF Listed

LEMMA PlanRebuilt ==
  ASSUME NEW c \in Calls, Ground(c), Plan(c)
  PROVE  Rebuilt(c)
<1>1. PICK r \in Runs : r = CallRun(c)
  BY CallRunIs
<1>2. CallOK /\ dir' = dir
  BY DEF Ground, JobsInv, TypeOK, CallOK, Plan
<1>3. PICK sources \in Sources(r) :
        IF sources = <<>> THEN Goto(c, "done") ELSE call' = [call EXCEPT ![c] = Doing("remove", "merged", sources)]
  BY <1>1 DEF Plan
<1>4. /\ sources \in Seq(Pairs)
      /\ \A i \in DOMAIN sources : dir[sources[i].from] # None
      /\ \A i, j \in DOMAIN sources : sources[i].from = sources[j].from => i = j
      /\ \A b \in PrimaryOf(r) : dir[b] # None => \E i \in DOMAIN sources : sources[i].from = b
  BY <1>2, SourcesAre
<1>5. \A b \in PrimaryOf(r) : /\ TrialsIn(b)' = TrialsIn(b) /\ FilesIn(b)' = FilesIn(b)
                              /\ dir[b] = None => TrialsIn(b) = {} /\ FilesIn(b) = {}
  BY <1>2 DEF TrialsIn, FilesIn
<1>6. CASE sources = <<>>
  <2>1. At(c)' = "done"
    BY <1>2, <1>3, <1>6, Goes DEF Places, Over
  <2>2. \A b \in PrimaryOf(r) : TrialsIn(b)' = {}
    BY <1>4, <1>5, <1>6
  <2>3. Uploaded(r)' = {}
    BY <2>2 DEF Uploaded, Of
  <2>4. Settled(r)'
    BY <2>3 DEF Settled, Vain
  <2>5. QED BY <1>1, <2>1, <2>4 DEF Rebuilt, Building, Lists, Empties, GaveUp
<1>7. CASE sources # <<>>
  <2>1. At(c)' = "remove" /\ call'[c].left = sources /\ call'[c].goal = "merged" /\ "merged" # None
    BY <1>2, <1>3, <1>7, JobsAssumption DEF At, Doing, CallOK, Goals
  <2>2. Listed(c)'
    BY <1>2, <1>4, <2>1 DEF Listed
  <2>3. \A b \in PrimaryOf(r) : b \notin Left(c)' => TrialsIn(b)' = {} /\ FilesIn(b)' = {}
    BY <1>4, <1>5, <2>1 DEF Left
  <2>4. Built(c)' = {} /\ Bare(c)'
    BY <1>1, <2>3 DEF Built, Bare, Of
  <2>5. QED BY <2>1, <2>2, <2>4 DEF Rebuilt, Building, Rebuilds, GaveUp
<1>8. QED BY <1>6, <1>7

LEMMA ClearingRebuilt ==
  ASSUME NEW c \in Calls, Ground(c), Clearing(c)
  PROVE  \/ At(c) \in {"remove", "removing"} /\ Rebuilt(c)
         \/ At(c) \in {"clear", "clearing"} /\ At(c)' \in {"clearing", "move"} /\ Building(c)'
<1>1. PICK r \in Runs : r = CallRun(c)
  BY CallRunIs
<1>2. /\ DirOK /\ CallOK /\ Aimed(c) /\ Suits(c, At(c)) /\ None \notin Goals
      /\ last' = last /\ faults' = faults /\ At(c) \in {"clear", "clearing", "remove", "removing"}
  BY JobsAssumption DEF Ground, JobsInv, TypeOK, DirOK, CallOK, AllAimed, Aimed, budget,
                        Clearing, ListRemoved, RemoveTrial, RemoveFiles, RemoveDir, Removing
<1>3. PICK p \in Paths : p = Removed(c)
  BY <1>2, RemovedIs
<1>4. Elsewhere(p) /\ Clears(c, p) /\ call'[c].goal = call[c].goal /\ call'[c].left = call[c].left
  BY <1>3, ClearingIs DEF Ground
<1>5. GoesOn(c) => At(c)' = AfterRemoval(c)
  BY <1>2, GoesOnIs
<1>6. CASE At(c) \in {"clear", "clearing"}
  <2>1. At(c)' \in {"clearing", "move"}
    BY <1>4, <1>5, <1>6 DEF Clears, AfterRemoval, Removing
  <2>2. QED BY <1>6, <2>1 DEF Building, Lists, Empties, GaveUp
<1>7. CASE At(c) \in {"remove", "removing"}
  <2>1. p = JobOf[r] /\ p \notin Batches
    BY <1>1, <1>3, <1>7, CallRunIs DEF Removed
  <2>2. /\ \A b \in PrimaryOf(r) : dir'[b] = dir[b] /\ TrialsIn(b)' = TrialsIn(b) /\ FilesIn(b)' = FilesIn(b)
        /\ Vain(r)' = Vain(r)
    BY <1>4, <2>1, ImportedStays
  <2>3. CASE call[c].goal = "merged"
    <3>1. Lists(c) /\ Listed(c) /\ Built(c) = {} /\ Bare(c)
      BY <1>7, <2>3 DEF Ground, Building, Lists, Empties
    <3>2. Built(c)' = {} /\ Bare(c)' /\ Listed(c)'
      BY <1>1, <1>4, <2>2, <2>3, <3>1, BuiltStays, ListedStays DEF Ground
    <3>3. \/ At(c)' = "removing"
          \/ At(c)' = "source" /\ dir'[p] = None
      BY <1>4, <1>5, <1>7, <2>3 DEF Clears, AfterRemoval, Removing
    <3>4. dir'[p] = None => TrialsIn(p)' = {}
      BY DEF TrialsIn
    <3>5. call'[c].goal # None
      BY <1>2, <1>4, <2>3 DEF Goals
    <3>6. QED BY <1>1, <1>7, <2>1, <3>2, <3>3, <3>4, <3>5 DEF Rebuilt, Building, Rebuilds, GaveUp
  <2>4. CASE call[c].goal = None
    <3>1. Vain(r) \/ (faults # 0 /\ last # c)
      BY <1>1, <1>7, <2>4 DEF Ground, Building, GaveUp, Excused
    <3>2. Vain(r)' \/ (faults' # 0 /\ last' # c)
      BY <1>2, <2>2, <3>1
    <3>3. At(c)' \in {"removing", "done"} /\ call'[c].goal # "merged"
      BY <1>2, <1>4, <1>5, <1>7, <2>4 DEF Clears, AfterRemoval, Removing, Goals
    <3>4. Building(c)'
      BY <1>1, <3>2, <3>3 DEF Building, Lists, Empties, Excused
    <3>5. At(c)' \in Rebuilds \/ Settled(r)' \/ (faults' # 0 /\ last' # c)
      BY <3>2, <3>3 DEF Rebuilds, Settled
    <3>6. QED BY <1>1, <1>7, <3>4, <3>5 DEF Rebuilt
  <2>5. QED BY <1>2, <1>7, <2>3, <2>4 DEF Aimed
<1>8. QED BY <1>2, <1>6, <1>7

\* While the trials of a source are copied: what is there, whose they are.
LEMMA CopyingIs ==
  ASSUME NEW c \in Calls, Ground(c), At(c) \in {"source", "copy"}, NEW r, r = CallRun(c), NEW p, p = JobOf[r],
         NEW q, q = Here(c).from
  PROVE  /\ DirOK /\ CallOK /\ r \in Runs /\ p \in Paths /\ p \notin Batches
         /\ call[c].left # <<>> /\ call[c].goal = "merged" /\ call[c].goal # None /\ Listed(c)
         /\ p = Here(c).to /\ q \in PrimaryOf(r) /\ q \in Left(c) /\ q # p
         /\ dir[q] # None /\ None \notin TrialsIn(q)
         /\ \A u \in Built(c) : u \notin TrialsIn(q) /\ \E b \in PrimaryOf(r) : u \in TrialsIn(b)
<1>1. DirOK /\ CallOK /\ JobsInv /\ Sourced(r) /\ r \in Runs /\ call[c].goal = "merged"
  BY CallRunIs DEF Ground, JobsInv, TypeOK, DirOK, CallOK
<1>2. p \in Paths /\ p \notin Batches
  BY CallRunIs
<1>3. /\ call[c].left # <<>> /\ p = Here(c).to /\ q \in PrimaryOf(r) /\ q \in Left(c)
      /\ Here(c) = call[c].left[1] /\ 1 \in DOMAIN call[c].left
  BY <1>1, LeftIs DEF Lists
<1>4. Listed(c)
  BY DEF Ground, Building, Lists
<1>5. dir[q] # None
  BY <1>3, <1>4 DEF Listed
<1>6. q \in Batches /\ q \in Paths
  BY <1>1, <1>3, <1>5, RunOfIs DEF Sourced, Paths
<1>7. None \notin TrialsIn(q) /\ call[c].goal # None
  BY <1>1, <1>3, <1>6, DirIs, JobsAssumption DEF Goals
<1>8. ASSUME NEW u \in Built(c) PROVE u \notin TrialsIn(q) /\ \E b \in PrimaryOf(r) : u \in TrialsIn(b)
  <2>1. PICK b \in PrimaryOf(r) : b \notin Left(c) /\ u \in TrialsIn(b)
    BY DEF Built, Of
  <2>2. b # q
    BY <1>3, <2>1
  <2>3. QED BY <1>1, <1>3, <2>1, <2>2 DEF Sourced
<1>9. QED BY <1>1, <1>2, <1>3, <1>4, <1>5, <1>6, <1>7, <1>8

LEMMA NextSourceRebuilt ==
  ASSUME NEW c \in Calls, Ground(c), NextSource(c)
  PROVE  Rebuilt(c)
<1>1. PICK r, p, q : r = CallRun(c) /\ p = JobOf[r] /\ q = Here(c).from
  OBVIOUS
<1>2. At(c) = "source"
  BY DEF NextSource
<1>3. /\ DirOK /\ CallOK /\ r \in Runs /\ p \in Paths /\ p \notin Batches
      /\ call[c].left # <<>> /\ call[c].goal # None /\ Listed(c)
      /\ p = Here(c).to /\ q \in PrimaryOf(r) /\ call[c].goal = "merged"
  BY <1>1, <1>2, CopyingIs
<1>4. /\ Elsewhere(p) /\ At(c)' = "copy" /\ call'[c].left = call[c].left
      /\ call'[c].todo = TrialsIn(q) /\ call'[c].held = call[c].held /\ call'[c].conf = call[c].conf \cup FilesIn(q)
      /\ dir'[p] # None /\ TrialsIn(p)' = TrialsIn(p)
  BY <1>1, <1>3, NextSourceIs
<1>5. call'[c].held = None
  BY <1>2, <1>4 DEF Ground, JobsInv, AllAimed, Aimed
<1>6. \A b \in PrimaryOf(r) : dir'[b] = dir[b] /\ TrialsIn(b)' = TrialsIn(b) /\ FilesIn(b)' = FilesIn(b)
  BY <1>3, <1>4, ImportedStays
<1>7. Built(c)' = Built(c) /\ Here(c)' = Here(c) /\ Listed(c)' /\ (Bare(c) => Bare(c)')
  BY <1>1, <1>2, <1>3, <1>4, <1>6, BuiltStays, ListedStays DEF Ground, Lists
<1>8. TrialsIn(p) = Built(c) /\ (call[c].conf = {} => Bare(c))
  BY <1>1, <1>2 DEF Ground, Building
<1>9. /\ call'[c].conf = {} => Bare(c)' /\ FilesIn(q)' = {}
      /\ TrialsIn(q)' = TrialsIn(q)
      /\ TrialsIn(p)' = Built(c)' \cup (TrialsIn(q)' \ (call'[c].todo \cup {call'[c].held}))
  BY <1>3, <1>4, <1>6, <1>7, <1>8
<1>10. QED BY <1>1, <1>4, <1>5, <1>7, <1>9 DEF Rebuilt, Building, Rebuilds, Empties, GaveUp

LEMMA RemoveMatchingRebuilt ==
  ASSUME NEW c \in Calls, Ground(c), RemoveMatching(c)
  PROVE  Rebuilt(c)
<1>1. PICK r, p, q : r = CallRun(c) /\ p = JobOf[r] /\ q = Here(c).from
  OBVIOUS
<1>2. At(c) = "copy" /\ call[c].held = None
  BY DEF RemoveMatching
<1>3. /\ DirOK /\ CallOK /\ r \in Runs /\ p \in Paths /\ p \notin Batches
      /\ call[c].left # <<>> /\ Listed(c)
      /\ p = Here(c).to /\ q \in PrimaryOf(r) /\ None \notin TrialsIn(q) /\ call[c].goal = "merged"
      /\ \A u \in Built(c) : u \notin TrialsIn(q) /\ \E b \in PrimaryOf(r) : u \in TrialsIn(b)
  BY <1>1, <1>2, CopyingIs
<1>4. PICK t \in call[c].todo :
        /\ Elsewhere(p) /\ At(c)' = "copy" /\ call'[c].left = call[c].left
        /\ call'[c].todo = call[c].todo \ {t} /\ call'[c].held = t /\ call'[c].conf = call[c].conf
        /\ (dir'[p] = None) = (dir[p] = None) /\ TrialsIn(p)' = {u \in TrialsIn(p) : u.case # t.case}
  BY <1>1, <1>3, RemoveMatchingIs
<1>5. \A b \in PrimaryOf(r) : dir'[b] = dir[b] /\ TrialsIn(b)' = TrialsIn(b) /\ FilesIn(b)' = FilesIn(b)
  BY <1>3, <1>4, ImportedStays
<1>6. Built(c)' = Built(c) /\ Here(c)' = Here(c) /\ Listed(c)' /\ (Bare(c) => Bare(c)')
  BY <1>1, <1>2, <1>3, <1>4, <1>5, BuiltStays, ListedStays DEF Ground, Lists
<1>7. /\ dir[p] # None /\ (call[c].conf = {} => Bare(c) /\ FilesIn(q) = {}) /\ call[c].todo \subseteq TrialsIn(q)
      /\ TrialsIn(p) = Built(c) \cup (TrialsIn(q) \ call[c].todo)
  BY <1>1, <1>2, <1>3 DEF Ground, Building
<1>8. t \in TrialsIn(q)
  BY <1>4, <1>7
<1>9. ASSUME NEW u \in TrialsIn(p) PROVE u.case # t.case
  <2> SUFFICES ASSUME u.case = t.case PROVE FALSE
    OBVIOUS
  <2>1. PICK b \in PrimaryOf(r) : u \in TrialsIn(b)
    BY <1>3, <1>7
  <2>2. u = t
    BY <1>1, <1>3, <1>8, <2>1 DEF Ground, Sourced
  <2>3. u \notin Built(c)
    BY <1>3, <1>8, <2>2
  <2>4. QED BY <1>4, <1>7, <2>2, <2>3
<1>10. TrialsIn(p)' = TrialsIn(p) /\ TrialsIn(q)' = TrialsIn(q) /\ FilesIn(q)' = FilesIn(q)
  BY <1>3, <1>4, <1>5, <1>9
<1>11. /\ call'[c].todo \subseteq TrialsIn(q)' /\ call'[c].held \in (TrialsIn(q)' \ call'[c].todo)
       /\ TrialsIn(p)' = Built(c)' \cup (TrialsIn(q)' \ (call'[c].todo \cup {call'[c].held}))
  BY <1>4, <1>6, <1>7, <1>8, <1>10
<1>12. QED BY <1>1, <1>4, <1>6, <1>7, <1>10, <1>11 DEF Rebuilt, Building, Rebuilds, Empties, GaveUp

LEMMA CopyTrialRebuilt ==
  ASSUME NEW c \in Calls, Ground(c), CopyTrial(c)
  PROVE  Rebuilt(c)
<1>1. PICK r, p, q : r = CallRun(c) /\ p = JobOf[r] /\ q = Here(c).from
  OBVIOUS
<1>2. At(c) = "copy" /\ call[c].held # None
  BY DEF CopyTrial
<1>3. /\ DirOK /\ CallOK /\ r \in Runs /\ p \in Paths /\ p \notin Batches
      /\ call[c].left # <<>> /\ Listed(c)
      /\ p = Here(c).to /\ q \in PrimaryOf(r) /\ None \notin TrialsIn(q) /\ call[c].goal = "merged"
      /\ \A u \in Built(c) : u \notin TrialsIn(q)
  BY <1>1, <1>2, CopyingIs
<1>4. /\ dir[p] # None /\ (call[c].conf = {} => Bare(c) /\ FilesIn(q) = {}) /\ call[c].todo \subseteq TrialsIn(q)
      /\ call[c].held \in TrialsIn(q) \ call[c].todo
      /\ TrialsIn(p) = Built(c) \cup (TrialsIn(q) \ (call[c].todo \cup {call[c].held}))
  BY <1>1, <1>2 DEF Ground, Building
<1>5. call[c].held \in TrialsIn(q) \ TrialsIn(p)
  BY <1>3, <1>4
<1>6. /\ Elsewhere(p) /\ At(c)' = "copy" /\ call'[c].left = call[c].left /\ call'[c].held = None
      /\ call'[c].todo = call[c].todo /\ call'[c].conf = call[c].conf
      /\ dir'[p] # None /\ TrialsIn(p)' = TrialsIn(p) \cup {call[c].held}
  BY <1>1, <1>3, <1>5, CopyTrialIs
<1>7. \A b \in PrimaryOf(r) : dir'[b] = dir[b] /\ TrialsIn(b)' = TrialsIn(b) /\ FilesIn(b)' = FilesIn(b)
  BY <1>3, <1>6, ImportedStays
<1>8. Built(c)' = Built(c) /\ Here(c)' = Here(c) /\ Listed(c)' /\ (Bare(c) => Bare(c)')
  BY <1>1, <1>2, <1>3, <1>6, <1>7, BuiltStays, ListedStays DEF Ground, Lists
<1>9. TrialsIn(q)' = TrialsIn(q) /\ FilesIn(q)' = FilesIn(q)
  BY <1>3, <1>7
<1>10. TrialsIn(p)' = Built(c)' \cup (TrialsIn(q)' \ (call'[c].todo \cup {call'[c].held}))
  BY <1>3, <1>4, <1>6, <1>8, <1>9
<1>11. QED BY <1>1, <1>4, <1>6, <1>8, <1>9, <1>10 DEF Rebuilt, Building, Rebuilds, Empties, GaveUp

LEMMA EndSourceRebuilt ==
  ASSUME NEW c \in Calls, Ground(c), EndSource(c)
  PROVE  Rebuilt(c)
<1>1. PICK r, p, q, left : r = CallRun(c) /\ p = JobOf[r] /\ q = Here(c).from /\ left = call[c].left
  OBVIOUS
<1>2. At(c) = "copy" /\ call[c].held = None /\ call[c].todo = {} /\ dir' = dir
  BY DEF EndSource
<1>3. /\ DirOK /\ CallOK /\ r \in Runs
      /\ call[c].left # <<>> /\ call[c].goal = "merged" /\ call[c].goal # None /\ Listed(c)
      /\ q \in PrimaryOf(r) /\ q \in Left(c) /\ None \notin TrialsIn(q)
  BY <1>1, <1>2, CopyingIs
<1>4. dir[p] # None /\ (call[c].conf = {} => Bare(c) /\ FilesIn(q) = {}) /\ TrialsIn(p) = Built(c) \cup TrialsIn(q)
  BY <1>1, <1>2, <1>3 DEF Ground, Building
<1>5. /\ left \in Seq(Pairs) /\ left # <<>> /\ q = left[1].from /\ 1 \in DOMAIN left /\ DOMAIN left = 1..Len(left)
      /\ \A i \in DOMAIN left : left[i].from \in PrimaryOf(r)
  BY <1>1, <1>2, <1>3, LeftIs DEF Ground, Lists
<1>6. /\ call'[c].conf = call[c].conf
      /\ \/ Len(left) = 1 /\ At(c)' = AfterCopy("merged") /\ call'[c].left = left
         \/ Len(left) # 1 /\ At(c)' = "source" /\ call'[c].left = Tail(left)
  BY <1>1, <1>3, EndSourceIs
<1>7. \A x : TrialsIn(x)' = TrialsIn(x) /\ FilesIn(x)' = FilesIn(x)
  BY <1>2 DEF TrialsIn, FilesIn
<1>8. CASE Len(left) = 1 /\ At(c)' = AfterCopy("merged")
  <2>1. At(c)' = "config"
    BY <1>8 DEF AfterCopy
  <2>2. Left(c) = {q}
    BY <1>1, <1>5, <1>8 DEF Left
  <2>3. Uploaded(r) = Built(c) \cup TrialsIn(q)
    BY <1>1, <1>3, <2>2 DEF Uploaded, Built, Of
  <2>4. Uploaded(r)' = Uploaded(r)
    BY <1>7 DEF Uploaded, Of
  <2>5. call'[c].conf = {} => Vain(r)'
    BY <1>1, <1>4, <1>6, <1>7, <2>2 DEF Vain, Bare
  <2>6. QED BY <1>1, <1>2, <1>4, <1>7, <2>1, <2>3, <2>4, <2>5 DEF Rebuilt, Building, Rebuilds, Lists, Empties, GaveUp
<1>9. CASE Len(left) # 1 /\ At(c)' = "source" /\ call'[c].left = Tail(left)
  <2>1. /\ Tail(left) \in Seq(Pairs) /\ Len(Tail(left)) = Len(left) - 1 /\ Len(left) \in Nat \ {0}
        /\ \A i \in 1..Len(left) - 1 : Tail(left)[i] = left[i + 1]
    BY <1>5, TailIs
  <2>2. DOMAIN Tail(left) = 1..Len(left) - 1
    BY <2>1, LenProperties
  <2>3. \A i \in DOMAIN Tail(left) : i + 1 \in DOMAIN left /\ Tail(left)[i].from = left[i + 1].from
    BY <1>5, <2>1, <2>2
  <2>4. \A i, j \in DOMAIN left : left[i].from = left[j].from => i = j
    BY <1>1, <1>3 DEF Listed
  <2>5. Left(c)' = Left(c) \ {q}
    <3>1. \A i \in DOMAIN left : i # 1 => i - 1 \in DOMAIN Tail(left) /\ Tail(left)[i - 1].from = left[i].from
      BY <1>5, <2>1, <2>2
    <3>2. \A i \in DOMAIN Tail(left) : Tail(left)[i].from # q
      <4> SUFFICES ASSUME NEW i \in DOMAIN Tail(left), Tail(left)[i].from = q PROVE FALSE
        OBVIOUS
      <4>1. i + 1 \in DOMAIN left /\ left[i + 1].from = left[1].from /\ i \in Nat \ {0}
        BY <1>5, <2>2, <2>3
      <4>2. i + 1 = 1
        BY <1>5, <2>4, <4>1
      <4>3. QED BY <4>1, <4>2
    <3>3. Left(c) = {left[i].from : i \in DOMAIN left} /\ Left(c)' = {Tail(left)[i].from : i \in DOMAIN Tail(left)}
      BY <1>1, <1>9 DEF Left
    <3>4. ASSUME NEW x, x \in Left(c)' PROVE x \in Left(c) \ {q}
      <4>1. PICK i \in DOMAIN Tail(left) : x = Tail(left)[i].from
        BY <3>3, <3>4
      <4>2. i + 1 \in DOMAIN left /\ x = left[i + 1].from /\ x # q
        BY <2>3, <3>2, <4>1
      <4>3. QED BY <3>3, <4>2
    <3>5. ASSUME NEW x, x \in Left(c) \ {q} PROVE x \in Left(c)'
      <4>1. PICK i \in DOMAIN left : x = left[i].from /\ i # 1
        BY <1>5, <3>3, <3>5
      <4>2. i - 1 \in DOMAIN Tail(left) /\ Tail(left)[i - 1].from = x
        BY <3>1, <4>1
      <4>3. QED BY <3>3, <4>2
    <3>6. QED BY <3>4, <3>5
  <2>6. Listed(c)'
    <3>1. \A i, j \in DOMAIN Tail(left) : Tail(left)[i].from = Tail(left)[j].from => i = j
      <4> SUFFICES ASSUME NEW i \in DOMAIN Tail(left), NEW j \in DOMAIN Tail(left),
                          Tail(left)[i].from = Tail(left)[j].from PROVE i = j
        OBVIOUS
      <4>1. i + 1 = j + 1
        BY <2>3, <2>4
      <4>2. QED BY <2>2, <4>1
    <3>2. \A i \in DOMAIN Tail(left) : dir'[Tail(left)[i].from] # None
      BY <1>1, <1>2, <1>3, <2>3 DEF Listed
    <3>3. QED BY <1>9, <3>1, <3>2 DEF Listed
  <2>7. Built(c)' = Built(c) \cup TrialsIn(q)
    BY <1>1, <1>3, <1>7, <2>5 DEF Built, Of
  <2>8. call'[c].conf = {} => Bare(c)'
    BY <1>4, <1>6, <1>7, <2>5 DEF Bare
  <2>9. QED BY <1>1, <1>4, <1>7, <1>9, <2>6, <2>7, <2>8 DEF Rebuilt, Building, Rebuilds, Empties, GaveUp
<1>10. QED BY <1>6, <1>8, <1>9

\* The places at which nothing has been built yet, or all of it.
LEMMA ElsewhereBuilding ==
  ASSUME NEW c \in Calls, At(c)' \notin {"remove", "removing", "source", "copy", "config", "read", "write"}
  PROVE  Building(c)'
  BY DEF Building, Lists, Empties, GaveUp

\* A call that gives up had nothing to build from, or a fault made it.
LEMMA GiveUpRebuilt ==
  ASSUME NEW c \in Calls, Ground(c), GiveUp(c), Excused(c)'
  PROVE  Rebuilt(c)
<1>1. /\ call'[c] = Doing(At(c)', None, <<>>) /\ At(c)' \in {"remove", "done"}
      /\ None # "merged"
  BY GiveUpIs, JobsAssumption DEF Ground, JobsInv, TypeOK, DirOK, CallOK, Goals
<1>2. call'[c].goal = None
  BY <1>1 DEF Doing
<1>3. Building(c)'
  BY <1>1, <1>2 DEF Building, Lists, Empties
<1>4. At(c)' \in Rebuilds \/ Settled(CallRun(c))' \/ (faults' # 0 /\ last' # c)
  BY <1>1 DEF Rebuilds, Settled, Excused
<1>5. QED BY <1>3, <1>4 DEF Rebuilt

LEMMA WriteConfigRebuilt ==
  ASSUME NEW c \in Calls, Ground(c), WriteConfig(c)
  PROVE  Rebuilt(c)
<1>1. PICK r \in Runs, p \in {JobOf[CallRun(c)]} : r = CallRun(c) /\ p = JobOf[r]
  BY CallRunIs
<1>2. At(c) = "config" /\ DirOK /\ CallOK /\ p \notin Batches
  BY <1>1, CallRunIs DEF WriteConfig, Ground, JobsInv, TypeOK, DirOK, CallOK
<1>3. dir[p] # None /\ TrialsIn(p) = Uploaded(r) /\ (call[c].conf = {} => Vain(r))
  BY <1>1, <1>2 DEF Ground, Building
<1>4. /\ Elsewhere(p)
      /\ \/ call[c].conf = {} /\ GiveUp(c)
         \/ /\ At(c)' = "read" /\ dir'[p] # None /\ dir'[p].files = {"config"}
            /\ TrialsIn(p)' = TrialsIn(p)
  BY <1>1, <1>2, <1>3, WriteConfigIs
<1>5. Uploaded(r)' = Uploaded(r) /\ Vain(r)' = Vain(r)
  BY <1>2, <1>4, ImportedStays
<1>6. CASE call[c].conf = {} /\ GiveUp(c)
  BY <1>1, <1>3, <1>5, <1>6, GiveUpRebuilt DEF Excused
<1>7. CASE At(c)' = "read" /\ dir'[p] # None /\ dir'[p].files = {"config"} /\ TrialsIn(p)' = TrialsIn(p)
  BY <1>1, <1>3, <1>5, <1>7 DEF Rebuilt, Building, Rebuilds, Lists, Empties, GaveUp
<1>8. QED BY <1>4, <1>6, <1>7

LEMMA ReadTrialsRebuilt ==
  ASSUME NEW c \in Calls, Ground(c), ReadTrials(c)
  PROVE  Rebuilt(c)
<1>1. PICK r \in Runs, p \in {JobOf[CallRun(c)]} : r = CallRun(c) /\ p = JobOf[r]
  BY CallRunIs
<1>2. At(c) = "read" /\ DirOK /\ CallOK /\ p \notin Batches
  BY <1>1, CallRunIs DEF ReadTrials, Ground, JobsInv, TypeOK, DirOK, CallOK
<1>3. dir[p] # None /\ dir[p].files # {} /\ TrialsIn(p) = Uploaded(r)
  BY <1>1, <1>2 DEF Ground, Building
<1>4. /\ Elsewhere(p)
      /\ \/ ~Readable(dir[p]) /\ GiveUp(c)
         \/ At(c)' = "write" /\ dir' = dir /\ call'[c].seen = TrialsIn(p)
  BY <1>1, <1>2, ReadTrialsIs
<1>5. Uploaded(r)' = Uploaded(r)
  BY <1>2, <1>4, ImportedStays
<1>6. CASE ~Readable(dir[p]) /\ GiveUp(c)
  <2>1. \A t \in Uploaded(r) : t.case # t.by
    BY <1>1 DEF Ground, Sourced, Uploaded, Of
  <2>2. dir[p].trials = Uploaded(r)
    BY <1>3 DEF TrialsIn
  <2>3. Uploaded(r)' = {}
    BY <1>3, <1>5, <1>6, <2>1, <2>2 DEF Readable
  <2>4. QED BY <1>1, <1>6, <2>3, GiveUpRebuilt DEF Excused, Vain
<1>7. CASE At(c)' = "write" /\ dir' = dir /\ call'[c].seen = TrialsIn(p)
  <2>1. TrialsIn(p)' = TrialsIn(p)
    BY <1>7 DEF TrialsIn
  <2>2. QED BY <1>1, <1>3, <1>5, <1>7, <2>1 DEF Rebuilt, Building, Rebuilds, Lists, Empties, GaveUp
<1>8. QED BY <1>4, <1>6, <1>7

LEMMA WriteResultRebuilt ==
  ASSUME NEW c \in Calls, Ground(c), WriteResult(c)
  PROVE  Rebuilt(c)
<1>1. PICK r \in Runs, p \in {JobOf[CallRun(c)]} : r = CallRun(c) /\ p = JobOf[r]
  BY CallRunIs
<1>2. At(c) = "write" /\ DirOK /\ CallOK /\ p \notin Batches
  BY <1>1, CallRunIs DEF WriteResult, Ground, JobsInv, TypeOK, DirOK, CallOK
<1>3. dir[p] # None /\ dir[p].files # {} /\ TrialsIn(p) = Uploaded(r) /\ call[c].seen = Uploaded(r)
  BY <1>1, <1>2 DEF Ground, Building
<1>4. /\ Elsewhere(p) /\ At(c)' = "done" /\ dir'[p] # None /\ dir'[p].files = dir[p].files
      /\ dir'[p].trials = dir[p].trials /\ dir'[p].result = call[c].seen
  BY <1>1, <1>2, <1>3, WriteResultIs
<1>5. Uploaded(r)' = Uploaded(r) /\ dir[p].trials = Uploaded(r)
  BY <1>2, <1>3, <1>4, ImportedStays DEF TrialsIn
<1>6. Settled(r)'
  BY <1>1, <1>3, <1>4, <1>5 DEF Settled, Vain, IsWhole
<1>7. QED BY <1>1, <1>4, <1>6, ElsewhereBuilding DEF Rebuilt

LEMMA FinalizeFailsRebuilt ==
  ASSUME NEW c \in Calls, Ground(c), FinalizeFails(c)
  PROVE  Rebuilt(c)
<1>1. faults' # 0 /\ last' = None /\ None # c
  BY FaultIs, JobsAssumption DEF FinalizeFails, Ground, JobsInv
<1>2. Excused(c)'
  BY <1>1 DEF Excused
<1>3. QED BY <1>2, GiveUpRebuilt DEF FinalizeFails

LEMMA ViewRebuilt ==
  ASSUME NEW c \in Calls, Ground(c), CallRun(c) \in Originals, View(c)
  PROVE  Rebuilt(c)
<1>1. c.on \notin Derived /\ CallOK
  BY OriginalCallIs DEF Ground, JobsInv, TypeOK, CallOK
<1>2. Goto(c, "plan")
  BY <1>1 DEF View
<1>3. At(c)' = "plan"
  BY <1>1, <1>2, Goes DEF Places
<1>4. QED BY <1>3, ElsewhereBuilding DEF Rebuilt, Rebuilds

\* What a call on an original run does before it builds, or instead.
LEMMA HandlingBuilding ==
  ASSUME NEW c \in Calls, Ground(c), CallRun(c) \in Originals, Handling(c) \/ StartRerun(c) \/ Repair(c) \/ Backfill(c)
  PROVE  /\ Building(c)'
         /\ \/ At(c) = "move" /\ At(c)' = "plan"
            \/ At(c) \in {"update", "repair", "rows"} /\ dir' = dir
<1>1. /\ ~IsRerun(c.on) /\ (c.on \in Runs => Reruns[c.on] = {}) /\ CallOK /\ DirOK /\ Suits(c, At(c))
      /\ At(c) \notin {"merge", "meta", "check", "start"}
  BY OriginalCallIs DEF Ground, JobsInv, TypeOK, CallOK, DirOK, AllAimed, Aimed
<1>3. CASE MoveImported(c)
  <2>1. At(c) = "move" /\ Goto(c, "plan")
    BY <1>1, <1>3 DEF MoveImported
  <2>2. At(c)' = "plan"
    BY <1>1, <2>1, Goes DEF Places
  <2>3. QED BY <2>1, <2>2, ElsewhereBuilding
<1>4. CASE Update(c)
  <2>1. At(c) = "update" /\ dir' = dir /\ Goto(c, "done")
    BY <1>1, <1>4 DEF Update
  <2>2. At(c)' = "done"
    BY <1>1, <2>1, Goes DEF Places, Over
  <2>3. QED BY <2>1, <2>2, ElsewhereBuilding
<1>5. CASE Repair(c)
  <2>1. At(c) = "repair" /\ c.on \in Runs /\ dir' = dir
    BY <1>1, <1>5 DEF Repair, Suits
  <2>2. Goto(c, "rows")
    BY <1>1, <1>5, <2>1 DEF Repair
  <2>3. At(c)' = "rows"
    BY <1>1, <2>2, Goes DEF Places
  <2>4. QED BY <2>1, <2>3, ElsewhereBuilding
<1>6. CASE Backfill(c)
  <2>1. PICK place \in {"plan", "failed"} : Goto(c, place) /\ dir' = dir /\ At(c) = "rows"
    BY <1>6 DEF Backfill
  <2>2. At(c)' = place
    BY <1>1, <2>1, Goes DEF Places, Over
  <2>3. QED BY <2>1, <2>2, ElsewhereBuilding
<1>7. ~MergeImported(c) /\ ~CopyMetadata(c) /\ ~CheckComplete(c) /\ ~StartRerun(c)
  BY <1>1 DEF MergeImported, CopyMetadata, CheckComplete, StartRerun
<1>8. QED BY <1>3, <1>4, <1>5, <1>6, <1>7 DEF Handling

\* A step of the call at work, on an original run: it goes on building, or has built.
LEMMA ActsBuilding ==
  ASSUME NEW c \in Calls, Ground(c), CallRun(c) \in Originals, Acts(c)
  PROVE  /\ Building(c)'
         /\ At(c) \in Rebuilds \cup {"view"} => Rebuilt(c)
         /\ At(c) \in {"clear", "clearing", "move"} => At(c)' \in Rebuilds \cup {"clearing", "move"}
         /\ At(c) \notin Rebuilds \cup {"view", "clear", "clearing", "move"} => dir' = dir
<1>1. CASE Copying(c)
  <2>1. Rebuilt(c) /\ At(c) \in Rebuilds
    BY <1>1, NextSourceRebuilt, RemoveMatchingRebuilt, CopyTrialRebuilt, EndSourceRebuilt
       DEF Copying, NextSource, RemoveMatching, CopyTrial, EndSource, Rebuilds
  <2>2. QED BY <2>1 DEF Rebuilt, Rebuilds
<1>2. CASE Merging(c)
  <2>1. Rebuilt(c)
    BY <1>2, ViewRebuilt, PlanRebuilt, WriteConfigRebuilt, ReadTrialsRebuilt, FinalizeFailsRebuilt, WriteResultRebuilt
       DEF Merging
  <2>2. At(c) \in Rebuilds \cup {"view"}
    BY <1>2 DEF Merging, View, Plan, WriteConfig, ReadTrials, FinalizeFails, WriteResult, Rebuilds
  <2>3. QED BY <2>1, <2>2 DEF Rebuilt, Rebuilds
<1>3. CASE Clearing(c)
  BY <1>3, ClearingRebuilt DEF Rebuilt, Rebuilds
<1>4. CASE Handling(c) \/ StartRerun(c) \/ Repair(c) \/ Backfill(c)
  BY <1>4, HandlingBuilding DEF Rebuilds
<1>5. QED BY <1>1, <1>2, <1>3, <1>4 DEF Acts

BuildInv == OneByOne => \A c \in Calls : CallRun(c) \in Originals => Building(c)

\* The job of each original run is complete, or its call is about to make it so.
KeptInv ==
  OneByOne /\ faults = 0 =>
    \A r \in Originals : Settled(r) \/ \E c \in Calls : CallRun(c) = r /\ At(c) \in Rebuilds \cup {"clearing", "move"}

\* So is the job that was looked at last, whatever faults there were before.
ViewInv ==
  OneByOne /\ last # None =>
    /\ Working \subseteq {last}
    /\ last.kind = "view" /\ last.on \in Originals => At(last) \in Rebuilds \cup {"view"} \/ Settled(last.on)

MergeInv == JobsInv /\ JobsAlone /\ BuildInv /\ KeptInv /\ ViewInv

\* Quiet calls have no part in a merge.
LEMMA NotWorking ==
  ASSUME NEW c \in Calls, c \notin Working
  PROVE  At(c) \notin Rebuilds \cup {"move", "view", "clear", "clearing"}
  BY DEF Working, Over, Rebuilds

LEMMA SettledStays ==
  ASSUME dir' = dir, NEW r, Settled(r)
  PROVE  Settled(r)'
<1>1. Uploaded(r)' = Uploaded(r) /\ Vain(r)' = Vain(r)
  BY DEF Uploaded, Vain, Of, TrialsIn, FilesIn
<1>2. QED BY <1>1 DEF Settled

\* The job of an original run and what was uploaded for it stay when a call on another run steps.
LEMMA OtherSettledStays ==
  ASSUME NamesApart, JobsInv, [Next]_vars, NEW r \in Originals, Settled(r), NEW c \in Calls, CallRun(c) # r,
         Others(c), \A d \in Calls \ {c} : d \notin Working
  PROVE  Settled(r)'
<1>1. r \in Runs
  BY DEF Originals
<1>2. dir'[JobOf[r]] = dir[JobOf[r]]
  <2> SUFFICES ASSUME dir'[JobOf[r]] # dir[JobOf[r]] PROVE FALSE
    OBVIOUS
  <2>1. PICK d \in Calls : CallRun(d) = r /\ call'[d] # call[d]
    BY SourceStep
  <2>2. QED BY <2>1 DEF Others
<1>3. ASSUME NEW b \in PrimaryOf(r) PROVE TrialsIn(b)' = TrialsIn(b) /\ FilesIn(b)' = FilesIn(b)
  <2>1. b \in Uploads /\ b \in Batches
    BY <1>1, RunOfIs DEF Uploads, Originals
  <2>2. dir'[b] = dir[b]
    <3> SUFFICES ASSUME dir'[b] # dir[b] PROVE FALSE
      OBVIOUS
    <3>1. PICK d \in Calls : d.on = b /\ (Clearing(d) \/ MoveImported(d))
      BY <2>1, UploadStep
    <3>2. d \in Working
      BY <3>1, ActsWorking DEF Acts, Handling
    <3>3. d.on \notin Runs
      BY <2>1, <3>1, JobsAssumption
    <3>4. CallRun(d) = r
      BY <1>1, <3>1, <3>3, RunOfIs DEF CallRun
    <3>5. QED BY <3>2, <3>4
  <2>3. QED BY <2>2 DEF TrialsIn, FilesIn
<1>4. Uploaded(r)' = Uploaded(r)
  BY <1>3 DEF Uploaded, Of
<1>5. Vain(r)' = Vain(r)
  BY <1>3, <1>4 DEF Vain
<1>6. QED BY <1>2, <1>4, <1>5 DEF Settled

\* No step takes a fault back.
LEMMA NoFault ==
  ASSUME JobsInv, [Next]_vars, faults' = 0
  PROVE  faults = 0 /\ ~Crash
<1>1. TypeOK
  BY DEF JobsInv
<1>2. faults = 0
  BY <1>1, FaultsStay
<1>3. QED BY <1>1, <1>2, FaultIs DEF Crash

\* The request that began last, but for a fault.
LEMMA LastIs ==
  ASSUME NEW c \in Calls, Acts(c)
  PROVE  (last' = last /\ ~FinalizeFails(c)) \/ last' = None
<1>1. CASE Copying(c) \/ Clearing(c) \/ Handling(c) \/ StartRerun(c) \/ Repair(c) \/ Backfill(c)
  <2>1. At(c) # "read"
    BY <1>1 DEF Copying, NextSource, RemoveMatching, CopyTrial, EndSource, Handling, MoveImported, Clearing, ListRemoved, RemoveTrial, RemoveFiles, RemoveDir, Removing,
                Update, MergeImported, CopyMetadata, CheckComplete, StartRerun, Repair, Backfill
  <2>2. last' = last
    BY <1>1 DEF Copying, NextSource, RemoveMatching, CopyTrial, EndSource, Handling, MoveImported, Clearing, ListRemoved, RemoveTrial, RemoveFiles, RemoveDir, Removing,
                Update, MergeImported, CopyMetadata, CheckComplete, StartRerun, Repair, Backfill
  <2>3. QED BY <2>1, <2>2 DEF FinalizeFails
<1>2. CASE Merging(c)
  BY <1>2 DEF Merging, View, Plan, WriteConfig, ReadTrials, FinalizeFails, WriteResult
<1>3. QED BY <1>1, <1>2, Zenon DEF Acts

LEMMA BuildStep ==
  ASSUME CasesApart, JobsInv, JobsAlone, BuildInv, [Next]_vars
  PROVE  BuildInv'
<1>1. load' = load
  BY LoadStays
<1>2. SUFFICES ASSUME OneByOne, NEW d \in Calls, CallRun(d) \in Originals PROVE Building(d)'
  BY <1>1 DEF BuildInv, OneByOne
<1>3. AloneInv /\ Building(d)
  BY <1>2 DEF JobsAlone, BuildInv
<1>4. CASE d \notin Working'
  <2>1. At(d)' \notin {"remove", "removing", "source", "copy", "config", "read", "write"}
    BY <1>4 DEF Working, Over
  <2>2. QED BY <2>1, ElsewhereBuilding
<1>5. CASE UNCHANGED vars
  <2>1. dir' = dir /\ call' = call /\ last' = last /\ faults' = faults
    BY <1>5 DEF vars
  <2>2. Building(d)' = Building(d)
    BY <2>1 DEF Building, Listed, Lists, Empties, GaveUp, Excused, Vain, Built, Bare, Left, Of, Uploaded,
                  TrialsIn, FilesIn, At, Here
  <2>3. QED BY <1>3, <2>2
<1>6. CASE Crash
  <2>1. d \in Working => At(d)' = "lost"
    BY <1>6 DEF Crash, At, Doing
  <2>2. d \notin Working => At(d)' = At(d)
    BY <1>6 DEF Crash, At
  <2>3. d \notin Working'
    BY <2>1, <2>2 DEF Working, Over
  <2>4. QED BY <1>4, <2>3
<1>7. ASSUME NEW c \in Calls, Begin(c), Working = {}, Others(c) PROVE Building(d)'
  <2>1. CASE d = c
    <3>1. c.kind \in {"archive", "final", "view", "start", "repair"}
      BY KindIs
    <3>2. PICK place \in {"clear", "update", "view", "start", "repair"} : Goto(c, place)
      BY <1>7, <3>1 DEF Begin
    <3>3. At(c)' = place
      BY <3>2, Goes DEF Places, Over, JobsInv, TypeOK, CallOK
    <3>4. QED BY <2>1, <3>3, ElsewhereBuilding
  <2>2. CASE d # c
    BY <1>4, <1>7, <2>2 DEF Others, Working, At
  <2>3. QED BY <2>1, <2>2
<1>8. ASSUME NEW c \in Working, Acts(c), \A e \in Calls \ {c} : e \notin Working' PROVE Building(d)'
  <2>1. CASE d = c
    BY <1>2, <1>3, <1>8, <2>1, ActsBuilding, OriginalGround DEF Working
  <2>2. CASE d # c
    BY <1>4, <1>8, <2>2
  <2>3. QED BY <2>1, <2>2
<1>9. Alone /\ load.open = 1
  BY <1>2, <1>3 DEF AloneInv, OneByOne
<1>10. QED BY <1>5, <1>6, <1>7, <1>8, <1>9, StepAlone

LEMMA KeptStep ==
  ASSUME CasesApart, NamesApart, MergeInv, [Next]_vars
  PROVE  KeptInv'
<1>1. JobsInv /\ JobsAlone /\ BuildInv /\ KeptInv /\ load' = load
  BY LoadStays DEF MergeInv
<1> DEFINE Kept(r) == Settled(r) \/ \E c \in Calls : CallRun(c) = r /\ At(c) \in Rebuilds \cup {"clearing", "move"}
<1>2. SUFFICES ASSUME OneByOne, faults' = 0, NEW r \in Originals PROVE Kept(r)'
  BY <1>1 DEF KeptInv, OneByOne
<1>3. faults = 0 /\ ~Crash
  BY <1>1, <1>2, NoFault
<1>4. AloneInv /\ Alone /\ Kept(r) /\ load.open = 1
  BY <1>1, <1>2, <1>3 DEF JobsAlone, KeptInv, OneByOne, AloneInv
<1>5. CASE UNCHANGED vars
  <2>1. dir' = dir /\ call' = call
    BY <1>5 DEF vars
  <2>2. QED BY <1>4, <2>1, SettledStays DEF At
<1>6. ASSUME NEW c \in Calls, Begin(c), Working = {} PROVE Kept(r)'
  <2>1. Settled(r)
    BY <1>4, <1>6, NotWorking
  <2>2. dir' = dir
    BY <1>6 DEF Begin
  <2>3. Settled(r)'
    BY <2>1, <2>2, SettledStays
  <2>4. QED BY <2>3
<1>7. ASSUME NEW c \in Working, Acts(c), Steps(c), \A d \in Calls \ {c} : d \notin Working PROVE Kept(r)'
  <2>1. c \in Calls
    BY DEF Working
  <2>2. CASE CallRun(c) # r
    <3>1. Settled(r)
      BY <1>4, <1>7, <2>2, NotWorking
    <3>2. Settled(r)'
      BY <1>1, <1>7, <2>1, <2>2, <3>1, OtherSettledStays DEF Steps
    <3>3. QED BY <3>2
  <2>3. CASE CallRun(c) = r
    <3>1. Ground(c)
      BY <1>1, <1>2, <1>4, <2>1, <2>3, OriginalGround DEF BuildInv
    <3>2. /\ At(c) \in Rebuilds \cup {"view"} => Rebuilt(c)
          /\ At(c) \in {"clear", "clearing", "move"} => At(c)' \in Rebuilds \cup {"clearing", "move"}
          /\ At(c) \notin Rebuilds \cup {"view", "clear", "clearing", "move"} => dir' = dir
      BY <1>2, <1>3, <1>7, <2>1, <2>3, <3>1, ActsBuilding
    <3>3. CASE At(c) \in Rebuilds \cup {"view"}
      BY <1>2, <2>1, <2>3, <3>2, <3>3 DEF Rebuilt
    <3>4. CASE At(c) \in {"clear", "clearing", "move"}
      BY <2>1, <2>3, <3>2, <3>4
    <3>5. CASE At(c) \notin Rebuilds \cup {"view", "clear", "clearing", "move"}
      <4>1. Settled(r)
        BY <1>4, <1>7, <3>5, NotWorking
      <4>2. Settled(r)'
        BY <3>2, <3>5, <4>1, SettledStays
      <4>3. QED BY <4>2
    <3>6. QED BY <3>3, <3>4, <3>5
  <2>4. QED BY <2>2, <2>3
<1> HIDE DEF Kept
<1>8. QED BY <1>1, <1>3, <1>4, <1>5, <1>6, <1>7, StepAlone

\* What is said of the last request, of a request that is it.
Seen(c) == c.kind = "view" /\ c.on \in Originals => At(c) \in Rebuilds \cup {"view"} \/ Settled(c.on)

LEMMA LastSeen ==
  ASSUME NEW c, last' = c, Working' \subseteq {c}, Seen(c)'
  PROVE  ViewInv'
<1>1. c.kind = "view" /\ c.on \in Originals => At(c)' \in Rebuilds \cup {"view"} \/ Settled(c.on)'
  BY DEF Seen
<1>2. QED BY <1>1 DEF ViewInv, Settled, Vain, Uploaded, Of, TrialsIn, FilesIn, IsWhole, At

LEMMA ViewStep ==
  ASSUME CasesApart, NamesApart, MergeInv, [Next]_vars
  PROVE  ViewInv'
<1>1. JobsInv /\ JobsAlone /\ BuildInv /\ ViewInv /\ load' = load /\ CallOK
  BY LoadStays DEF MergeInv, JobsInv, TypeOK, CallOK
<1>2. SUFFICES ASSUME OneByOne, last' # None PROVE ViewInv'
  BY <1>1 DEF ViewInv, OneByOne
<1>3. AloneInv /\ Alone /\ load.open = 1
  BY <1>1, <1>2 DEF JobsAlone, OneByOne, AloneInv
<1>4. ASSUME NEW c, c = last PROVE last # None => Working \subseteq {c} /\ Seen(c)
  BY <1>1, <1>2, <1>4 DEF ViewInv, Seen
<1>5. CASE UNCHANGED vars
  <2>1. PICK c : c = last
    OBVIOUS
  <2>2. dir' = dir /\ call' = call /\ last' = c
    BY <1>5, <2>1 DEF vars
  <2>3. Working' = Working /\ At(c)' = At(c)
    BY <2>2 DEF Working, At
  <2>4. Working \subseteq {c} /\ Seen(c)
    BY <1>2, <1>4, <2>1, <2>2
  <2>5. Seen(c)'
    BY <2>2, <2>3, <2>4, SettledStays DEF Seen
  <2>6. QED BY <2>2, <2>3, <2>4, <2>5, LastSeen
<1>6. ~Crash
  BY <1>2 DEF Crash
<1>7. ASSUME NEW c \in Calls, Begin(c), Working = {}, Others(c) PROVE ViewInv'
  <2>1. last' = c
    BY <1>7 DEF Begin
  <2>2. Working' \subseteq {c}
    BY <1>7 DEF Others, Working, At
  <2>3. ASSUME c.kind = "view" PROVE At(c)' = "view"
    <3>1. Goto(c, "view")
      BY <1>7, <2>3 DEF Begin
    <3>2. QED BY <1>1, <3>1, Goes DEF Places
  <2>4. Seen(c)'
    BY <2>3 DEF Seen
  <2>5. QED BY <2>1, <2>2, <2>4, LastSeen
<1>8. ASSUME NEW c \in Working, Acts(c), \A d \in Calls \ {c} : d \notin Working' PROVE ViewInv'
  <2>1. c \in Calls
    BY DEF Working
  <2>2. last' = last /\ ~FinalizeFails(c)
    BY <1>2, <1>8, <2>1, LastIs
  <2>3. PICK d : d = last
    OBVIOUS
  <2>4. c = d /\ Seen(c)
    BY <1>2, <1>4, <2>2, <2>3
  <2>5. Working' \subseteq {c}
    BY <1>8 DEF Working
  <2>6. ASSUME c.kind = "view", c.on \in Originals PROVE At(c)' \in Rebuilds \cup {"view"} \/ Settled(c.on)'
    <3>1. CallRun(c) = c.on /\ c.on \notin Batches
      BY <2>1, <2>6, KindIs
    <3>2. Ground(c)
      BY <1>1, <1>2, <1>3, <2>1, <2>6, <3>1, OriginalGround DEF BuildInv
    <3>3. /\ At(c) \in Rebuilds \cup {"view"} => Rebuilt(c)
          /\ At(c) \notin Rebuilds \cup {"view", "clear", "clearing", "move"} => dir' = dir
      BY <1>8, <2>1, <2>2, <2>6, <3>1, <3>2, ActsBuilding
    <3>4. At(c) \notin {"clear", "clearing", "move"}
      BY <1>1, <2>1, <3>1 DEF JobsInv, AllAimed, Aimed, Suits
    <3>5. CASE At(c) \in Rebuilds \cup {"view"}
      BY <2>2, <2>3, <2>4, <3>1, <3>3, <3>5 DEF Rebuilt
    <3>6. CASE At(c) \notin Rebuilds \cup {"view"}
      <4>1. Settled(c.on) /\ dir' = dir
        BY <2>4, <2>6, <3>3, <3>4, <3>6 DEF Seen
      <4>2. QED BY <4>1, SettledStays
    <3>7. QED BY <3>5, <3>6
  <2>7. Seen(c)'
    BY <2>6 DEF Seen
  <2>8. QED BY <2>2, <2>3, <2>4, <2>5, <2>7, LastSeen
<1>9. QED BY <1>1, <1>3, <1>5, <1>6, <1>7, <1>8, StepAlone

LEMMA InitMerge ==
  ASSUME CasesApart, NamesApart, Init
  PROVE  MergeInv
<1>1. JobsInv /\ JobsAlone
  BY InitJobs, InitAlone DEF JobsAlone
<1>2. \A c \in Calls : At(c) = "idle"
  BY DEF Init, At, Doing
<1>3. BuildInv
  BY <1>2 DEF BuildInv, Building, Lists, Empties, GaveUp
<1>4. ViewInv
  BY DEF Init, ViewInv
<1>5. ASSUME NEW r \in Originals PROVE Settled(r)
  <2>1. r \in Runs /\ JobOf[r] \in Paths /\ load.merged \subseteq Runs
    BY LoadIs DEF Init, Originals, Paths
  <2>2. CASE r \in load.merged
    <3>1. (CHOOSE s \in load.merged : JobOf[r] = JobOf[s]) = r
      BY <2>1, <2>2 DEF NamesApart
    <3>2. dir[JobOf[r]] = Whole(FirstTrials(r))
      BY <2>1, <2>2, <3>1 DEF Init
    <3>3. ASSUME NEW b \in PrimaryOf(r) PROVE TrialsIn(b) = Ran(b, 1)
      <4>1. b \in Batches /\ b \in Paths
        BY <2>1, RunOfIs DEF Paths
      <4>2. \A s \in load.merged : b # JobOf[s]
        BY <2>1, <4>1, JobsAssumption
      <4>3. dir[b] = Whole(Ran(b, 1))
        BY <2>2, <4>1, <4>2 DEF Init
      <4>4. dir[b] # None
        <5>1. Whole(Ran(b, 1)) \in JobDir
          BY <2>1, FirstTrialsIs DEF Whole, JobDir
        <5>2. QED BY <4>3, <5>1, JobsAssumption
      <4>5. QED BY <4>3, <4>4 DEF TrialsIn, Whole
    <3>4. Uploaded(r) = FirstTrials(r)
      BY <3>3 DEF Uploaded, Of, FirstTrials
    <3>5. dir[JobOf[r]] # None
      <4>1. Whole(FirstTrials(r)) \in JobDir
        BY <2>1, FirstTrialsIs DEF Whole, JobDir
      <4>2. QED BY <3>2, <4>1, JobsAssumption
    <3>6. QED BY <3>2, <3>4, <3>5 DEF Settled, Vain, IsWhole, Whole
  <2>3. CASE r \notin load.merged
    <3>1. ASSUME NEW b \in PrimaryOf(r) PROVE TrialsIn(b) = {}
      <4>1. b \in Batches
        BY <2>1, RunOfIs
      <4>2. dir[b] = None
        <5> SUFFICES ASSUME dir[b] # None PROVE FALSE
          OBVIOUS
        <5>1. PICK s \in load.merged : b \in PrimaryOf(s)
          BY <4>1, InitUploads
        <5>2. s = r
          BY <2>1, <5>1, RunOfIs
        <5>3. QED BY <2>3, <5>2
      <4>3. QED BY <4>2 DEF TrialsIn
    <3>2. Uploaded(r) = {}
      BY <3>1 DEF Uploaded, Of
    <3>3. QED BY <3>2 DEF Settled, Vain
  <2>4. QED BY <2>2, <2>3
<1>6. KeptInv
  BY <1>5 DEF KeptInv
<1>7. QED BY <1>1, <1>3, <1>4, <1>6 DEF MergeInv

LEMMA MergeStep ==
  ASSUME CasesApart, NamesApart, MergeInv, [Next]_vars
  PROVE  MergeInv'
<1>1. JobsInv /\ JobsAlone /\ BuildInv
  BY DEF MergeInv
<1>2. JobsInv' /\ JobsAlone' /\ BuildInv'
  BY <1>1, StepJobs, JobsAloneStep, BuildStep
<1>3. QED BY <1>2, KeptStep, ViewStep DEF MergeInv

\* When nothing is at work, the merged job of an original run has exactly the trials
\* its batches have uploaded and a result that counts them, for any number of batches,
\* executions, reruns and viewers, when calls come one after the other and none is cut
\* off: every archive makes _rebuild_merged_job_for_run build it anew, and no other
\* run's call touches it (write_merged_job, harbor_finalize_job_result.py).
THEOREM MergedJobIsWhole ==
  ASSUME CasesApart, NamesApart
  PROVE  Spec => []MergedIsWhole
<1>1. Init => MergeInv
  BY InitMerge
<1>2. MergeInv /\ [Next]_vars => MergeInv'
  BY MergeStep
<1>3. ASSUME MergeInv PROVE MergedIsWhole
  <2> SUFFICES ASSUME Quiet, Calm, NEW r \in Originals, Uploaded(r) # {}
               PROVE  IsWhole(dir[JobOf[r]]) /\ dir[JobOf[r]].trials = Uploaded(r)
    BY DEF MergedIsWhole, Uploaded, Of, Originals
  <2>1. \A c \in Calls : At(c) \notin Rebuilds \cup {"clearing", "move"}
    BY NotWorking DEF Quiet
  <2>2. Settled(r) /\ JobsInv /\ AloneInv /\ faults = 0
    BY <1>3, <2>1 DEF MergeInv, KeptInv, JobsAlone, Calm, OneByOne
  <2>3. PICK b \in PrimaryOf(r) : TrialsIn(b) # {}
    BY DEF Uploaded, Of
  <2>4. dir[b] = Whole(TrialsIn(b)) /\ dir[b] # None
    <3>1. b \in Uploads /\ dir[b] # None
      BY <2>2, <2>3, ImportedIs
    <3>2. PICK k \in Attempts : dir[b] = Whole(Ran(b, k))
      BY <2>1, <2>2, <3>1 DEF AloneInv, Imported, ImportedJob, BeingRemoved
    <3>3. QED BY <3>1, <3>2 DEF TrialsIn, Whole
  <2>5. FilesIn(b) # {}
    BY <2>4 DEF FilesIn, Whole
  <2>6. QED BY <2>2, <2>5 DEF Settled, Vain
<1>4. QED BY <1>1, <1>2, <1>3, PTL DEF Spec

\* Opening the viewer on an original run builds its job from all that was uploaded and is
\* still there, whatever calls were cut off before (_rebuild_merged_jobs), when calls come
\* one after the other.
THEOREM ViewingRepairs ==
  ASSUME CasesApart, NamesApart
  PROVE  Spec => [](OneByOne => ViewRepairs)
<1>1. Init => MergeInv
  BY InitMerge
<1>2. MergeInv /\ [Next]_vars => MergeInv'
  BY MergeStep
<1>3. ASSUME MergeInv, OneByOne PROVE ViewRepairs
  <2> SUFFICES ASSUME last # None, last.kind = "view", At(last) = "done", last.on \notin Derived PROVE Settled(last.on)
    BY DEF ViewRepairs, Settled, Vain, Uploaded, Of
  <2>1. last \in Calls
    BY <1>3 DEF MergeInv, JobsInv, TypeOK
  <2>2. last.on \in Originals
    BY <2>1, KindIs DEF Originals
  <2>3. At(last) \notin Rebuilds \cup {"view"}
    BY DEF Rebuilds
  <2>4. QED BY <1>3, <2>2, <2>3 DEF MergeInv, ViewInv
<1>4. MergeInv => (OneByOne => ViewRepairs)
  BY <1>3
<1>5. QED BY <1>1, <1>2, <1>4, PTL DEF Spec

=============================================================================
