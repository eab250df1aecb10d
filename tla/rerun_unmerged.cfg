\* Two batches end at the same time.
CONSTANTS
  Original = orig
  None = none
  Requests = {r1}
  Workers = {w1, w2}
  HasManifest = TRUE
  CollectJobs = FALSE
  FaultKinds = {}
  MaxFaults = 0
SPECIFICATION Spec
INVARIANTS FinishedIsMerged
SYMMETRY Symmetric
CHECK_DEADLOCK FALSE
