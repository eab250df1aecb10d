------------------------ MODULE MCWorkerLifecycle ------------------------
(* Small instances of WorkerLifecycle; requests of a kind are alike.      *)
EXTENDS WorkerLifecycle, TLC

NoWorker   == <<>>
OneWorker  == <<CHOOSE w \in Workers : TRUE>>
Symmetric  == Permutations(ProvisionJobs) \cup Permutations(UpdateJobs)
                \cup Permutations(Cancels) \cup Permutations(Deletes)
=============================================================================
