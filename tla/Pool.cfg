SPECIFICATION MCSpec
CONSTANTS
  Request = {1, 2, 3}
  Size = 2
  Preloaded = pre
  NoAdapter = none
  Fragile = {1}
INVARIANTS
  TypeOK
  PermitsAccounted
  LeaseExclusive
  BoundedConnections
  NoOrphan
PROPERTIES
  KeepsPromise
  AcquireEnds
  CloseClosesAll
CHECK_DEADLOCK FALSE
