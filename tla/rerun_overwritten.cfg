\* The sync thread ends after the batches.
CONSTANTS
  Original = orig
  None = none
  Requests = {r1}
  Workers = {w1}
  HasManifest = TRUE
  CollectJobs = TRUE
  FaultKinds = {}
  MaxFaults = 0
SPECIFICATION Spec
PROPERTIES OutcomeIsFinal
SYMMETRY Symmetric
CHECK_DEADLOCK FALSE
