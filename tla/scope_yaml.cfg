SPECIFICATION Spec
CHECK_DEADLOCK FALSE
CONSTANTS
  Selected <- Apart
  WorkerOf <- MCWorkerOf
  Sorted <- MCSorted
  Stem <- OwnStems
  OrgName <- MCOrgName
  Within <- MCWithin
  Types = {"timeout"}
  Namings = {"id"}
  Sources = {"job"}
  MaxGone = 0
  Bodies = {"yaml"}
  MaxChanges = 0
  None = None
INVARIANTS
  RefusedYamlDerivesNothing
