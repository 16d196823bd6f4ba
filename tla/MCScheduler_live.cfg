CONSTANTS
  r1 = r1
  r2 = r2
  c1 = c1
  Runs = {r2}
  Callers = {c1}
  StartTime <- MCStartTime
  MaxTime = 1
  MaxSessions = 2
  MaxNotifiers = 1
  MaxQueuedRuns = 1
  OnFailedRegistered = TRUE
  ResumeBinding = FALSE
SPECIFICATION FairSpec
INVARIANTS
  ShutdownLeavesNothing
  LoopIsSound
PROPERTIES
  CallsReturn
  DueRunDispatched
