\* One rerun over two workers, two faults of any kind.
CONSTANTS
  Original = orig
  None = none
  Requests = {r1}
  Workers = {w1, w2}
  HasManifest = TRUE
  CollectJobs = TRUE
  FaultKinds = {"start", "sync", "nocases", "timeout", "crash"}
  MaxFaults = 2
SPECIFICATION FairSpec
INVARIANTS RerunInv NoTrialTwice
PROPERTIES TrialsNeverLost EveryRerunEnds
CHECK_DEADLOCK FALSE
