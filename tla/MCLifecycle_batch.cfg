SPECIFICATION Spec
CONSTANTS
  r1 = r1
  r2 = r2
  c1 = c1
  c2 = c2
  Runs <- TwoRuns
  Submitters <- TwoSubmitters
  MaxSessions = 1
  MaxCancels = 0
  MaxMishaps = 0
  Expires = FALSE
SYMMETRY Symmetry
INVARIANTS
  RefundedBatchFailed
CHECK_DEADLOCK FALSE
