\* Two update requests pass the test before either has its row and each starts a daemon, a
\* batch is claimed between the test and the stop, and the stopped daemon is in its last
\* pass while code is pulled.
CONSTANTS
  Workers = {w1}
  ProvisionJobs = {}
  UpdateJobs = {u1, u2}
  Cancels = {}
  Deletes = {}
  Registered <- OneWorker
  Tunnel = FALSE
  Fresh = FALSE
  Targets = {"aeo"}
  Work = TRUE
  MaxRequests = 4
  MaxBusy = 4
  FaultKinds = {}
  MaxFaults = 0
  None = none
SPECIFICATION Spec
INVARIANTS OneUpdate OneDaemon PullsAreQuiet UpdateSparesBatches
SYMMETRY Symmetric
CHECK_DEADLOCK FALSE
