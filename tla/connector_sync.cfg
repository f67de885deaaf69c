SPECIFICATION Spec
CONSTANTS
    w1 = w1
    w2 = w2
    a = a
    b = b
    NoPrice = NoPrice
    Delisted = Delisted
    NoTime = NoTime
    NeverRequested = NeverRequested
    Items = {1, 2}
    Prices = {a, b}
    PageSize = 1
    MaxChanges = 2
    Workers = {w1, w2}
    Schedules <- DeltaOnly
    MaxTime = 1
    LastChange = 0
    MaxJobs = 1
    MaxFaults = 1
SYMMETRY Symmetry
INVARIANTS
    MintedOnce
    PricesMoveForward
    WatermarkCovers
    
\* The clock, the supplier and the jobs come to an end.
CHECK_DEADLOCK FALSE
