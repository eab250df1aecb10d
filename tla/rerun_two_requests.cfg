\* Two reruns, of the original run or one of the other, without manifest and
\* uploads, with one fault.
CONSTANTS
  Original = orig
  None = none
  Requests = {r1, r2}
  Workers = {w1}
  HasManifest = FALSE
  CollectJobs = FALSE
  FaultKinds = {"start", "paths", "timeout", "crash"}
  MaxFaults = 1
SPECIFICATION Spec
INVARIANTS OneSyncing SucceededIsTrue
PROPERTIES OriginalUntouched
SYMMETRY Symmetric
CHECK_DEADLOCK FALSE
