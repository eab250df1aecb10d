SPECIFICATION Spec
CHECK_DEADLOCK FALSE
CONSTANTS
  Selected <- Apart
  WorkerOf <- MCWorkerOf
  Sorted <- MCSorted
  Stem <- OwnStems
  OrgName <- MCOrgName
  Within <- MCWithin
  Types = {"timeout", "unknown"}
  Namings = {"id", "org", "stem"}
  Sources = {"job", "rows"}
  MaxGone = 1
  Bodies = {"none", "config", "yaml"}
  MaxChanges = 1
  None = None
INVARIANTS
  RerunsAreExceptions
  RefusedDerivesNothing
