CONSTANTS
    o1 = o1
    o2 = o2
    c1 = c1
    Ticker = Ticker
    Orders = {o1, o2}
    Price <- MCPrice
    Callers = {c1}
    ReconcileLimit = 1
    MaxTransfers = 2
SPECIFICATION FairSpec
INVARIANTS
  MoneyIsExact
  
PROPERTIES
  ImplementsLedger
  TransfersAreResolved
CHECK_DEADLOCK FALSE
