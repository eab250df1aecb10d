\* A disabled worker is still given a batch.
CONSTANTS
  None = None
  w1 = w1
  w2 = w2
  d1 = d1
  d2 = d2
  d3 = d3
  r1 = r1
  r2 = r2
  Workers = {w1}
  Daemons = {d1}
  Serves <- ServedByName
  Runs = {r1, r2}
  NumBatches = 1
  Preferred <- OnePreferred
  RunOf <- OneRun
  Slots <- OneSlot
  Disableable = {w1}
  MaxFaults = 0
SPECIFICATION Spec
PROPERTIES DisabledSelectsNothing
