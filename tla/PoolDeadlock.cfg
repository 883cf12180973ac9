SPECIFICATION MCSpec
CONSTANTS
  Request = {1, 2}
  Size = 1
  Preloaded = pre
  NoAdapter = none
  Fragile = {1}
PROPERTIES
  EveryAcquireEnds
CHECK_DEADLOCK FALSE
