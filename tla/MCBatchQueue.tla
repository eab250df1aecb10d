---------------------------- MODULE MCBatchQueue ----------------------------
(***************************************************************************)
(* Small instances of BatchQueue: two workers, one of which may have two  *)
(* daemons; batches preferred by one of them, or by nobody.                *)
(***************************************************************************)
EXTENDS BatchQueue, TLC
CONSTANTS w1, w2, d1, d2, d3, r1, r2

\* One batch of a worker and one of the shared queue.
HalfPreferred == <<w1, None>>
HalfRun == <<r1, r1>>

\* Three batches, of two runs, of a worker with two slots; the other only polls.
PinnedPreferred == <<w1, w1, w1>>
PinnedRun == <<r1, r2, r1>>

\* A single batch of the shared queue, or of one worker.
SharedPreferred == <<None>>
OnePreferred == <<w1>>
OneRun == <<r1>>

OneSlot == [d \in Daemons |-> 1]
UnevenSlots == [d \in Daemons |-> IF d = d1 THEN 2 ELSE 1]

\* The last of the daemons is the other worker's; the first two are one worker's.
ServedByName == [d \in Daemons |-> IF d = d3 THEN w2 ELSE w1]

\* The two daemons of w1 are alike.
Alike == Permutations({d1, d2})
=============================================================================
