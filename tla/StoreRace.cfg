SPECIFICATION Spec
CONSTANTS
    Procs = {p1, p2}
    Pointers = {i1, i2}
    Operations = {o1, o2}
    Names = {1, 2}
    i1 = i1
    i2 = i2
    o1 = o1
    o2 = o2
    None = None
    MaxTime = 2
    MaxCalls <- MCCalls
    MaxChanges <- MCChanges
    Worlds <- StoreRaceWorlds
    Runs <- MCRuns
    Requests <- MCRequests
    NetworkOf <- MCNetwork
    ClassOf <- MCClass
CHECK_DEADLOCK FALSE
PROPERTY ReceiptRowsKept
