--------------------------- MODULE MCTaskCreation ---------------------------
EXTENDS TaskCreation

\* One that reports nothing, a small and a large machine with little weight.
SomeMachines == {[slots |-> 0, cpu |-> 0, mem |-> 0, weight |-> 0, root |-> FALSE],
                 [slots |-> 2, cpu |-> 4, mem |-> 8, weight |-> 10, root |-> TRUE],
                 [slots |-> 4, cpu |-> 8, mem |-> 16, weight |-> 5, root |-> TRUE]}
TwoMachines == {[slots |-> 0, cpu |-> 0, mem |-> 0, weight |-> 0, root |-> FALSE],
                [slots |-> 3, cpu |-> 4, mem |-> 8, weight |-> 10, root |-> TRUE]}

\* Plain requests for all workers, YAML requests for lists of at most two of
\* them, and a request that names a worker twice.
Distinct(s) == \A i, j \in DOMAIN s : s[i] = s[j] => i = j
Lists(k)  == {s \in [1..k -> Workers] : Distinct(s)}
AskedFor(lists, cases, yaml) == [workers : lists, cases : cases, yaml : yaml]
Order     == CHOOSE s \in Lists(Cardinality(Workers)) : TRUE
Mixed     == AskedFor({Order}, {4, 7}, {FALSE})
             \cup AskedFor({<<>>, <<Order[2]>>, <<Order[2], Order[1]>>}, {0, 1, 3}, {TRUE})
Repeated  == AskedFor({s \in [1..2 -> Workers] : ~Distinct(s)}, {3}, {FALSE})
=============================================================================
