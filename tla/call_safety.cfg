SPECIFICATION Spec
CONSTANTS
  Caller = {c1, c2}
  Token = {k1, k2, k3}
  None = None
  Verdict = {"allow", "deny", "stop"}
  LeaseTtl = 1
  MaxStall = 1
  MaxCrashes = 1
SYMMETRY Symmetry
INVARIANTS OnlyConsented AtMostOnce OneAnswer
