SPECIFICATION Spec
CHECK_DEADLOCK FALSE
CONSTANTS
  Runs <- TwoNames
  Parent <- MCParent
  Primary <- MCPrimary
  Reruns <- MCReruns
  ParentBatch <- MCParentBatch
  Cases <- MCCases
  JobOf <- SameName
  Loads <- SameNameLoads
  None = None
INVARIANTS
  MergedIsWhole
