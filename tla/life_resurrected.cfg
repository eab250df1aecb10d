\* The stopped daemon registers once more after the delete.
CONSTANTS
  Workers = {w1}
  ProvisionJobs = {}
  UpdateJobs = {}
  Cancels = {}
  Deletes = {d1}
  Registered <- OneWorker
  Tunnel = FALSE
  Fresh = FALSE
  Targets = {"aeo"}
  Work = FALSE
  MaxRequests = 4
  MaxBusy = 4
  FaultKinds = {}
  MaxFaults = 0
  None = none
SPECIFICATION Spec
PROPERTIES DeletedIsGone
SYMMETRY Symmetric
CHECK_DEADLOCK FALSE
