\* The protocol when no call is lost and no daemon dies.
CONSTANTS
  None = None
  w1 = w1
  w2 = w2
  d1 = d1
  d2 = d2
  d3 = d3
  r1 = r1
  r2 = r2
  Workers = {w1, w2}
  Daemons = {d1, d3}
  Serves <- ServedByName
  Runs = {r1, r2}
  NumBatches = 3
  Preferred <- PinnedPreferred
  RunOf <- PinnedRun
  Slots <- UnevenSlots
  Disableable = {w1}
  MaxFaults = 0
SPECIFICATION FairSpec
INVARIANTS RunningIsHeld
PROPERTIES KeepsContract EveryQueuedBatchFinishes
