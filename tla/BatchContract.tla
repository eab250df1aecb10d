--------------------------- MODULE BatchContract ---------------------------
(***************************************************************************)
(* What the platform promises about a batch, and nothing of how: its row   *)
(* in the controller's database walks                                      *)
(*   absent -> (pending_sync ->) queued -> running -> succeeded | failed   *)
(* with pending_sync -> sync_failed as the only other exit; the worker it  *)
(* is handed to is chosen once; the finish time appears with the final     *)
(* status.  BatchQueue is shown to implement it when no call is lost.      *)
(***************************************************************************)
CONSTANTS
  Batches, Workers, None,
  Allowed   \* the workers a batch may be handed to

VARIABLE row

Initial == {"pending_sync", "queued"}
Final   == {"succeeded", "failed"}
Status  == {"absent", "running", "sync_failed"} \cup Initial \cup Final

Blank == [status |-> "absent", assigned |-> None, done |-> FALSE]

Init == row = [b \in Batches |-> Blank]

Create(b) ==
  /\ row[b].status = "absent"
  /\ \E s \in Initial : row' = [row EXCEPT ![b].status = s]

\* The asset sync promotes or fails all the waiting batches of a worker in
\* one statement, so the promise is stated for any set of waiting batches.
SettleSync(S, s) ==
  /\ S # {}
  /\ \A b \in S : row[b].status = "pending_sync"
  /\ row' = [b \in Batches |-> IF b \in S THEN [row[b] EXCEPT !.status = s] ELSE row[b]]

HandOut(b, w) ==
  /\ row[b].status = "queued"
  /\ w \in Allowed[b]
  /\ row' = [row EXCEPT ![b] = [@ EXCEPT !.status = "running", !.assigned = w]]

Finish(b, s) ==
  /\ row[b].status = "running"
  /\ row' = [row EXCEPT ![b] = [status |-> s, assigned |-> @.assigned, done |-> TRUE]]

Next ==
  \/ \E b \in Batches : Create(b)
  \/ \E S \in SUBSET Batches, s \in {"queued", "sync_failed"} : SettleSync(S, s)
  \/ \E b \in Batches, w \in Workers : HandOut(b, w)
  \/ \E b \in Batches, s \in Final : Finish(b, s)

Spec == Init /\ [][Next]_row
=============================================================================
