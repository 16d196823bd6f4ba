CONSTANTS
  r1 = r1
  r2 = r2
  c1 = c1
  Runs = {r1}
  Callers = {c1}
  StartTime <- MCStartTime
  MaxTime = 0
  MaxSessions = 3
  MaxNotifiers = 1
  MaxQueuedRuns = 1
  OnFailedRegistered = FALSE
  ResumeBinding = TRUE
SPECIFICATION Spec
INVARIANTS
  WorkIsKept
  CallersAreServed
PROPERTIES
  FirstCauseWins
  JoinedCancelMeansGone
  ImplementsCustody
