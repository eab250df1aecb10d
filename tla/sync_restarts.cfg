\* Two workers with bind assets; two restarts of the controller or failures of the creating handler.
CONSTANTS
  Workers = {w1, w2}
  HasBind = TRUE
  MaxFaults = 2
SPECIFICATION FairSpec
INVARIANTS SyncInv RunnableHasFiles OutcomeIsTrue
PROPERTIES StepsNeverGoBack CleansOnlyWhenOver SyncSettles
CHECK_DEADLOCK FALSE
