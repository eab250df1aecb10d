\* Requests one after the other on two workers behind tunnels, one of them registered at the start.
CONSTANTS
  Workers = {w1, w2}
  ProvisionJobs = {p1}
  UpdateJobs = {u1}
  Cancels = {c1}
  Deletes = {d1}
  Registered <- OneWorker
  Tunnel = TRUE
  Fresh = TRUE
  Targets = {"aeo", "harbor"}
  Work = TRUE
  MaxRequests = 4
  MaxBusy = 1
  FaultKinds = {"ssh", "nostart", "restart"}
  MaxFaults = 1
  None = none
SPECIFICATION Spec
INVARIANTS TunnelsAreRecorded
CHECK_DEADLOCK FALSE
