SPECIFICATION FairSpec
CONSTANTS
  MaxSessions = 2
  LeaseDuration = 2
  RequestTimeout = 1
  c1 = c1
  Certs = {c1}
  Enforced = TRUE
  MaxWork = 1
  MaxForks = 1
  MaxChanges = 1
INVARIANTS
  SessionsAreSerial
  AuthorityEnds
PROPERTIES
  SessionsEnd
