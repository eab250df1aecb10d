\* The rerun of one case passes.
CONSTANTS
  Original = orig
  None = none
  Requests = {r1}
  Workers = {w1}
  HasManifest = TRUE
  CollectJobs = TRUE
  FaultKinds = {}
  MaxFaults = 0
SPECIFICATION Spec
INVARIANTS ExceptionIsReplaced
SYMMETRY Symmetric
CHECK_DEADLOCK FALSE
