SPECIFICATION Spec
CONSTANTS
  Handler = {h1, h2}
  Claw = {c1, c2, c3}
  None = None
  MaxUpdates = 2
  MaxBatches = 3
  MaxFailures = 1
SYMMETRY Symmetry
INVARIANTS ThreadIsSequence NothingIsSkipped AskedInOrder
