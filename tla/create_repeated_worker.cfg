CONSTANTS
  Workers = {w1, w2}
  Machines <- TwoMachines
  Requests <- Repeated
  Reaches = {"local"}
  FaultKinds = {}
  MaxFaults = 0
SPECIFICATION Spec
INVARIANTS WorkersGetTheirCases
