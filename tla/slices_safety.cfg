SPECIFICATION Spec
CONSTANTS
  Worker = {w1, w2}
  Run = {r1, r2}
  First = r1
  Id = {i1, i2}
  Args = {a1, a2}
  None = None
  Setup <- MCSetup
  Verdict = {"allow", "deny", "park", "throw"}
SYMMETRY Symmetry
CHECK_DEADLOCK FALSE
INVARIANT TranscriptIsWhole
INVARIANT AnswersMatchTheirCalls
INVARIANT OncePerCall
INVARIANT DueSliceIsRunnable
PROPERTY SlicesMakeProgress
