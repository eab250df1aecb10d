\* Three of two provisions, an update, a cancel and a delete of one worker, two in progress
\* at a time, with a failing ssh command, a daemon that does not start or a restart.
CONSTANTS
  Workers = {w1}
  ProvisionJobs = {p1, p2}
  UpdateJobs = {u1}
  Cancels = {c1}
  Deletes = {d1}
  Registered <- NoWorker
  Tunnel = FALSE
  Fresh = FALSE
  Targets = {"harbor"}
  Work = FALSE
  MaxRequests = 3
  MaxBusy = 2
  FaultKinds = {"ssh", "nostart", "restart"}
  MaxFaults = 1
  None = none
SPECIFICATION FairSpec
INVARIANTS LifecycleInv OneProvision PullsFollowStop
PROPERTIES EveryJobEnds
CHECK_DEADLOCK FALSE
