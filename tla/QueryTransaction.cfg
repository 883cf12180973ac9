SPECIFICATION FairSpec
CONSTANTS
  Run = {1, 2}
  Batches = {2}
  Endless = {}
  NoRun = none
PROPERTIES
  NoInheritedTransaction
CHECK_DEADLOCK FALSE
