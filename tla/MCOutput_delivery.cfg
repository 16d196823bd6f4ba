CONSTANTS
  r1 = r1
  Runs = {r1}
  Data = {1, 2}
  RunCharge = 2
  FrameCharge = 1
  SpoolBytes = 9
  SpoolRuns = 2
  RunBytes = 6
  RunFrames = 2
  KeepBytes = 3
  KeepFrames = 2
  StoreBytes = 7
  PassFrames = 1
  Credentials = {"enrolled", "unenrolled", "plaintext"}
  MaxSessions = 3
  MaxMishaps = 2
SPECIFICATION FairSpec
INVARIANTS
  
  EndsAgree
  ChargesAreExact
PROPERTIES
  ImplementsLog
  FinishedIsSettled
CHECK_DEADLOCK FALSE
