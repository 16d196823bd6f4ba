SPECIFICATION FairSpec
CONSTANTS
  r1 = r1
  r2 = r2
  c1 = c1
  c2 = c2
  Runs <- OneRun
  Submitters <- OneSubmitter
  MaxSessions = 1
  MaxCancels = 1
  MaxMishaps = 1
  Expires = TRUE
INVARIANTS
  AcknowledgedMeansStopped
PROPERTIES
  ImplementsContract
  EndsArrive
  CancellationReturns
CHECK_DEADLOCK FALSE
