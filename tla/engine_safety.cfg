SPECIFICATION Spec
CONSTANTS
  Worker = {w1, w2}
  Run = {r1}
  Task = {t1, t2}
  Lease = {l1, l2, l3}
  None = None
  AttemptLimits = {0, 2}
  LeaseTtl = 2
  RetryDelay = 1
  MaxSlices = 2
  MaxStall = 1
  MaxCrashes = 1
SYMMETRY Symmetry
INVARIANTS ExclusiveLease OneLiveTask SettledRunHasNoWork
PROPERTIES OnlyHolderEndsLease RunIsOneChain
