\* Two workers claim the same shared batch.
CONSTANTS
  None = None
  w1 = w1
  w2 = w2
  d1 = d1
  d2 = d2
  d3 = d3
  r1 = r1
  r2 = r2
  Workers = {w1, w2}
  Daemons = {d1, d3}
  Serves <- ServedByName
  Runs = {r1, r2}
  NumBatches = 1
  Preferred <- SharedPreferred
  RunOf <- OneRun
  Slots <- OneSlot
  Disableable = {}
  MaxFaults = 0
SPECIFICATION Spec
INVARIANTS HeldByOne
