SPECIFICATION FairSpec
CONSTANTS
  ChainLength = 3
  DisclosureDelay = 2
  Lead = 1
  Seeded = TRUE
  r1 = r1
  Runs = {r1}
  Slots = {1, 2}
  MaxGenerations = 2
  MaxFaults = 1

  
PROPERTIES
  ChainsAreKept
  KeysArrive
CHECK_DEADLOCK FALSE
