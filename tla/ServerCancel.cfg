CONSTANTS
  Lease = {1, 2}
  Batches = 1
  NoQuery = NoQuery
SPECIFICATION FairSpec
INVARIANT TypeOK
PROPERTIES KillsOwn OwnTransaction QuietHandover CancelStops
CHECK_DEADLOCK FALSE
