CONSTANTS
  Conn = {k1, k2}
  Query = {q1, q2}
  Rows = 3
  Limits = {0, 2}
  Nobody = Nobody
SPECIFICATION Spec
INVARIANTS TypeOK SpinnerEnds SessionsAccounted HistoryOwn GridHonest
CHECK_DEADLOCK FALSE
SYMMETRY Symmetry
