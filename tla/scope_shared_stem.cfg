SPECIFICATION Spec
CHECK_DEADLOCK FALSE
CONSTANTS
  Selected <- Together
  WorkerOf <- MCWorkerOf
  Sorted <- MCSorted
  Stem <- SharedStem
  OrgName <- MCOrgName
  Within <- MCWithin
  Types = {"timeout"}
  Namings = {"stem"}
  Sources = {"rows"}
  MaxGone = 0
  Bodies = {"none"}
  MaxChanges = 0
  None = None
INVARIANTS
  RerunsAreExceptions
