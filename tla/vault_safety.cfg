SPECIFICATION Spec
CONSTANTS
  Walk = {w1, w2}
  Erasure = {e1, e2}
  v1 = v1
  v2 = v2
  Value = {v1, v2}
  Place = {p1, p2}
  c1 = c1
  c2 = c2
  Container = {c1, c2}
  Subject = {s1, s2}
  None = None
  Setup <- MCSetup
SYMMETRY Symmetry
CHECK_DEADLOCK FALSE
INVARIANTS TokenMeansItsValue ErasureReaches ErasedIsGone
PROPERTIES SparesNamesakes
