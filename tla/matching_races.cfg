SPECIFICATION Spec
CONSTANTS
    p1 = p1
    p2 = p2
    g1 = g1
    s1 = s1
    s2 = s2
    NoGtin = NoGtin
    Products = {p1, p2}
    Gtins = {g1}
    MaxCanonicals = 3
    Requests = {s1, s2}
    MaxRequests = 7
SYMMETRY Symmetry
INVARIANTS
    PendingIsQuiet
    DecisionsAreLogged
    OneCanonicalPerGtin
\* The requests of a behaviour are used up.
CHECK_DEADLOCK FALSE
