SPECIFICATION Spec
CHECK_DEADLOCK FALSE
CONSTANTS
  Runs <- WithRerun
  Parent <- MCParent
  Primary <- MCPrimary
  Reruns <- MCReruns
  ParentBatch <- MCParentBatch
  Cases <- MCCases
  JobOf <- OwnNames
  Loads <- AllLoads
  None = None
INVARIANTS
  MergedIsWhole
  NoCaseTwice
  FinalIsWhole
  ImportedIsWhole
  ViewRepairs
PROPERTIES
  SourceUntouched
