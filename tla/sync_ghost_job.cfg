\* A restart leaves the job shown as running.
CONSTANTS
  Workers = {w1}
  HasBind = FALSE
  MaxFaults = 1
SPECIFICATION Spec
INVARIANTS ShownRunningRuns
CHECK_DEADLOCK FALSE
