\* Two workers are provisioned at the same time.
CONSTANTS
  Workers = {w1, w2}
  ProvisionJobs = {p1, p2}
  UpdateJobs = {}
  Cancels = {}
  Deletes = {}
  Registered <- NoWorker
  Tunnel = TRUE
  Fresh = FALSE
  Targets = {"aeo"}
  Work = FALSE
  MaxRequests = 4
  MaxBusy = 4
  FaultKinds = {}
  MaxFaults = 0
  None = none
SPECIFICATION Spec
INVARIANTS TunnelsAreRecorded
SYMMETRY Symmetric
CHECK_DEADLOCK FALSE
