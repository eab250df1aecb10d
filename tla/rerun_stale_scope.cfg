\* A rerun of a rerun that is ending.
CONSTANTS
  Original = orig
  None = none
  Requests = {r1, r2}
  Workers = {w1}
  HasManifest = TRUE
  CollectJobs = TRUE
  FaultKinds = {}
  MaxFaults = 0
SPECIFICATION Spec
PROPERTIES ScopeIsErrored
CHECK_DEADLOCK FALSE
