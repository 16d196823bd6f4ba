SPECIFICATION Spec
CONSTANTS
  r1 = r1
  r2 = r2
  c1 = c1
  c2 = c2
  Runs <- OneRun
  Submitters <- OneSubmitter
  MaxSessions = 2
  MaxCancels = 0
  MaxMishaps = 3
  Expires = TRUE
INVARIANTS
  
  ObservedIsEvidence
CHECK_DEADLOCK FALSE
