SPECIFICATION MCSpec
CONSTANTS
  Store = {1, 2}
  Entry = {11, 12, 13}
  MaxEntries = 1
  TrimEvery = 2
  OldRows = 2
  Nobody = nobody
INVARIANTS
  TypeOK
  RetentionBound
PROPERTIES
  KeepsLog
  LockReleased
CHECK_DEADLOCK FALSE
