SPECIFICATION FairSpec
CONSTANTS
  Run = {1, 2}
  Batches = {2}
  Endless = {}
  NoRun = none
INVARIANTS
  TypeOK
  NoPartialSuccess
PROPERTIES
  KeepsContract
  OwnTransaction
  QuietHandover
  InterruptsOwn
  RunsEnd
CHECK_DEADLOCK FALSE
