SPECIFICATION FairSpec
CONSTANTS
  Run = {1}
  Batches = {2}
  Endless = {1}
  NoRun = none
PROPERTIES
  CancelStops
CHECK_DEADLOCK FALSE
