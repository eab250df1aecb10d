\* The restarted daemon does not come up.
CONSTANTS
  Workers = {w1}
  ProvisionJobs = {}
  UpdateJobs = {u1}
  Cancels = {}
  Deletes = {}
  Registered <- OneWorker
  Tunnel = FALSE
  Fresh = FALSE
  Targets = {"aeo"}
  Work = FALSE
  MaxRequests = 4
  MaxBusy = 4
  FaultKinds = {"nostart"}
  MaxFaults = 1
  None = none
SPECIFICATION Spec
INVARIANTS SucceededIsServed
SYMMETRY Symmetric
CHECK_DEADLOCK FALSE
