\* A terminal run is left uncleaned.
CONSTANTS
  Workers = {w1, w2}
  HasBind = FALSE
  MaxFaults = 0
SPECIFICATION FairSpec
PROPERTIES TerminalRunIsCleaned
CHECK_DEADLOCK FALSE
