SPECIFICATION FairSpec
CONSTANTS
  Run = {1}
  Batches = {2}
  Endless = {}
  NoRun = none
INVARIANTS
  ClosingTells
CHECK_DEADLOCK FALSE
