SPECIFICATION Spec
CONSTANTS
    o1 = o1
    o2 = o2
    nobody = nobody
    t1 = t1
    t2 = t2
    NoGtin = NoGtin
    Principals = {o1, o2}
    Operators = {o1, o2}
    ScopesOf <- Granted
    Tasks = {t1, t2}
    Products = {1, 2}
    Gtins = {}
    MaxCanonicals = 2
    Rate = 2
    Cost = 3
    Burst = 3
    MaxWait = 5
    Strangers = {nobody}
    PageSize = 1
    MaxTime = 2
    MaxFaults = 1
SYMMETRY Symmetry
INVARIANTS
    
    
    JournalNamesOperator
    
\* Time and requests run out.
CHECK_DEADLOCK FALSE
