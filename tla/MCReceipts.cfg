CONSTANTS
    e1 = e1
    e2 = e2
    t1 = t1
    Receipts = {e1, e2}
    Transactions = {t1}
    Says <- MCSays
    Nobody = Nobody
    NoCursor = NoCursor
    MaxHeight = 3
    MaxMishaps = 2
SPECIFICATION FairListenerSpec
INVARIANTS
  ReceiptsAreHonest
PROPERTIES
  
  ReceiptIsRecorded
CHECK_DEADLOCK FALSE
