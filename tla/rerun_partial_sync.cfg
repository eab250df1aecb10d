\* The copy to one worker fails while the other runs its batch.
CONSTANTS
  Original = orig
  None = none
  Requests = {r1, r2}
  Workers = {w1, w2}
  HasManifest = TRUE
  CollectJobs = TRUE
  FaultKinds = {"sync"}
  MaxFaults = 1
SPECIFICATION Spec
INVARIANTS OneRerunInProgress
SYMMETRY Symmetric
CHECK_DEADLOCK FALSE
