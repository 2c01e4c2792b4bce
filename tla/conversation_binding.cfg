SPECIFICATION Spec
CONSTANTS
  Handler = {h1, h2}
  Claw = {c1, c2}
  None = None
  MaxUpdates = 2
  MaxBatches = 2
  MaxFailures = 0
INVARIANTS BoundOnce
