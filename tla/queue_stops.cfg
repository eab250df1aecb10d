\* A late running heartbeat reopens a finished batch; a daemon that was told to
\* stop and its replacement start one batch twice.
CONSTANTS
  None = None
  w1 = w1
  w2 = w2
  d1 = d1
  d2 = d2
  d3 = d3
  r1 = r1
  r2 = r2
  Workers = {w1}
  Daemons = {d1, d2}
  Serves <- ServedByName
  Runs = {r1, r2}
  NumBatches = 1
  Preferred <- OnePreferred
  RunOf <- OneRun
  Slots <- OneSlot
  Disableable = {}
  MaxFaults = 2
SPECIFICATION Spec
INVARIANTS NeverStartedTwice
PROPERTIES TerminalIsFinal
