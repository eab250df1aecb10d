CONSTANTS
  Workers = {w1, w2, w3}
  Machines <- SomeMachines
  Requests <- Mixed
  Reaches = {"alias", "none"}
  FaultKinds = {"delete", "change", "storage"}
  MaxFaults = 2
SPECIFICATION Spec
INVARIANTS CreationInv ManifestMatches CasesCovered FairShares
