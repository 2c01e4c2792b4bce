SPECIFICATION FairSpec
CONSTANTS
  Worker = {w1, w2}
  Run = {r1}
  Task = {t1}
  Lease = {l1, l2, l3}
  None = None
  AttemptLimits = {}
  LeaseTtl = 2
  RetryDelay = 1
  MaxSlices = 1
  MaxStall = 1
  MaxCrashes = 1

PROPERTY LeasesAreRecovered
