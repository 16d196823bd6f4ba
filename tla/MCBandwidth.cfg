CONSTANTS
  e1 = e1
  Executors = {e1}
  Works = {1, 2}
  Versions = {0, 1, 2}
  Requests <- MCRequests
  MaxSessions = 2
  MaxChanges = 2
  MaxFaults = 1
SPECIFICATION FairSpec

  
PROPERTIES
  NothingGoesBack
  OwedIsDone
CHECK_DEADLOCK FALSE
