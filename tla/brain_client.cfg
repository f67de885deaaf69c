SPECIFICATION FairSpec
CONSTANTS
    c1 = c1
    c2 = c2
    NoSid = 0
    Callers = {c1, c2}
    Sids = {1, 2, 3, 4}
    Rate = 2
    Cost = 1
    Ttl = 2
INVARIANTS
    SingleFlight
    SpeedLimit
PROPERTIES
    CallsEnd
