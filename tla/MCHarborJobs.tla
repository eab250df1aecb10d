---------------------------- MODULE MCHarborJobs ----------------------------
(***************************************************************************)
(* One original run of two batches, the run derived from it by a rerun,    *)
(* and a second original run that may have the same name.                  *)
(***************************************************************************)
EXTENDS HarborJobs

OneRun == {"run"}
TwoNames == {"run", "other"}
WithRerun == {"run", "rerun"}
MCParent == [r \in Runs |-> IF r = "rerun" THEN "run" ELSE None]
MCPrimary == [r \in Runs |-> CASE r = "run" -> <<"b1", "b2">> [] r = "rerun" -> <<"c1", "c2">> [] OTHER -> <<"o1">>]
MCReruns == [r \in Runs |-> IF r = "rerun" THEN {"x1", "x2"} ELSE {}]
MCParentBatch == [b \in {"x1", "x2"} |-> IF b = "x1" THEN "c1" ELSE "c2"]
MCCases == [b \in {"b1", "b2", "c1", "c2", "o1", "x1", "x2"} |->
              CASE b \in {"b1", "c1", "o1"} -> {"k1", "k2"} [] b = "x1" -> {"k1"} [] OTHER -> {"k3"}]
OwnNames == [r \in Runs |-> CASE r = "run" -> "job" [] r = "rerun" -> "job-rerun" [] OTHER -> "job-2"]
SameName == [r \in Runs |-> IF r = "rerun" THEN "job-rerun" ELSE "job"]

Request(kinds, on, ns) == [kind : kinds, on : on, n : ns]
Ends(on) == Request({"archive", "final"}, on, {1})

\* The first batch of the run is executed twice.
OriginalCalls == Ends({"b1", "b2"}) \cup Request({"archive"}, {"b1"}, {2}) \cup Request({"view"}, {"run"}, {1})
TwoArchives   == Ends({"b1", "b2"})
NamedCalls    == Ends({"b1", "o1"})
StartCalls    == Request({"start"}, {"rerun"}, {1})
RerunCalls    == StartCalls \cup Ends({"x1", "x2"}) \cup Request({"archive"}, {"x1"}, {2})
                  \cup Request({"view"}, {"run", "rerun"}, {1})
OverlapCalls  == StartCalls \cup Ends({"x1"}) \cup Request({"archive"}, {"x1"}, {2})
                  \cup Request({"repair"}, {"rerun"}, {1})
BothArchives  == StartCalls \cup Ends({"x1", "x2"})
RepairCalls   == Ends({"b1", "b2"}) \cup Request({"view"}, {"run"}, {1, 2}) \cup Request({"repair"}, {"run"}, {1})
RepairedRerun == BothArchives \cup Request({"repair"}, {"rerun"}, {1})

\* A batch of the source is executed again before, during or after the rerun.
AgainCalls    == StartCalls \cup Ends({"x1"}) \cup Request({"archive"}, {"b1"}, {2}) \cup Request({"view"}, {"run"}, {1})
\* A batch is executed twice, with a view and a fault in between.
CutCalls      == Ends({"b1", "b2"}) \cup Request({"archive"}, {"b1"}, {2}) \cup Request({"view"}, {"run"}, {1, 2})

Load(calls, open, kinds, bound, merged, own) ==
  [calls |-> calls, open |-> open, kinds |-> kinds, faults |-> bound, merged |-> merged, own |-> own]
AllLoads == {Load(OriginalCalls, 1, {}, 0, {}, {}), Load(RerunCalls, 1, {}, 0, {"run"}, {}),
             Load(AgainCalls, 1, {}, 0, {"run"}, {}),
             Load(OverlapCalls, 2, {"timeout", "crash"}, 1, {"run"}, {}),
             Load(BothArchives, 1, {}, 0, {"run"}, {"rerun"}),
             Load(RepairCalls, 1, {"crash", "finalize"}, 2, {}, {}),
             Load(CutCalls, 1, {"crash"}, 1, {}, {})}
OneByOne(calls) == {Load(calls, 1, {}, 0, {"run"}, {})}
RepairLoads == OneByOne(RepairedRerun)
SameNameLoads == {Load(NamedCalls, 1, {}, 0, {}, {})}
OverlapLoads == {Load(TwoArchives, 2, {}, 0, {}, {}), Load(BothArchives, 2, {}, 0, {"run"}, {}),
                 Load(BothArchives, 1, {}, 0, {"run"}, {"rerun"}),
                 Load(Request({"archive"}, {"b1"}, {2}) \cup Request({"view"}, {"run"}, {1}), 2, {}, 0, {"run"}, {})}

\* What the theorems assume holds of one run per name, and not of the other.
ASSUME JobOf = OwnNames => CasesApart /\ NamesApart
ASSUME "other" \in Runs /\ JobOf = SameName => ~NamesApart
=============================================================================
