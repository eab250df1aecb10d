SPECIFICATION Spec
CHECK_DEADLOCK FALSE
CONSTANTS
  Runs <- WithRerun
  Parent <- MCParent
  Primary <- MCPrimary
  Reruns <- MCReruns
  ParentBatch <- MCParentBatch
  Cases <- MCCases
  JobOf <- OwnNames
  Loads <- RepairLoads
  None = None
INVARIANTS
  NoCaseDropped
