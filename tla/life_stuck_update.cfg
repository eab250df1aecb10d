\* An update of a worker that never registered.
CONSTANTS
  Workers = {w1}
  ProvisionJobs = {p1}
  UpdateJobs = {u1}
  Cancels = {}
  Deletes = {}
  Registered <- NoWorker
  Tunnel = FALSE
  Fresh = FALSE
  Targets = {"aeo"}
  Work = FALSE
  MaxRequests = 4
  MaxBusy = 4
  FaultKinds = {}
  MaxFaults = 0
  None = none
SPECIFICATION Spec
INVARIANTS ThreadsRecord
CHECK_DEADLOCK FALSE
