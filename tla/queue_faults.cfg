\* Routing and at-most-once start under lost, late and repeated calls.
CONSTANTS
  None = None
  w1 = w1
  w2 = w2
  d1 = d1
  d2 = d2
  d3 = d3
  r1 = r1
  r2 = r2
  Workers = {w1, w2}
  Daemons = {d1, d2, d3}
  Serves <- ServedByName
  Runs = {r1}
  NumBatches = 2
  Preferred <- HalfPreferred
  RunOf <- HalfRun
  Slots <- OneSlot
  Disableable = {}
  MaxFaults = 2
SYMMETRY Alike
SPECIFICATION Spec
INVARIANTS DispatchInv RoutedToPreferred StartedAtMostOnce
PROPERTIES SyncGate
