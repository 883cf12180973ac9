CONSTANTS
  Name = {o1, o2}
  Query = {1, 2}
  Reader = {c1, c2}
  Batches = 1
  Changes = 1
  DuckObjects = 1
  Nobody = Nobody
  DuckCalls = 1
SPECIFICATION Spec
INVARIANTS TypeOK RowsComplete
PROPERTIES ExactAnswer NeverBackwards
CHECK_DEADLOCK FALSE
SYMMETRY Symmetry
