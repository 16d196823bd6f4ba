CONSTANTS
    e1 = e1
    e2 = e2
    e3 = e3
    da = da
    db = db
    r1 = r1
    r2 = r2
    r3 = r3
    r4 = r4
    r5 = r5
    Destinations = {da, db}
    Runs = {r1, r2, r3, r4, r5}
    Owner <- MCOwner
    Route <- MCRoute
    Floor <- MCFloor
    Ceil <- MCCeil
    Start <- MCStart
    Timeout <- MCTimeout
    Grace = 1
    Granularity = 2
    MaxDuration = 7
    ExecCapacity <- MCExecCapacity
    DefaultCap = 2
    Governed = {da}
    Limits = {1, 3}
    LastSlot = 2
    MaxTime = 2
SPECIFICATION CapacitySpec
INVARIANTS
  ReservationsAreExact
  BooksAreExact
  PromisesAreKept
CHECK_DEADLOCK FALSE
