SPECIFICATION Spec
CONSTANTS
    p1 = p1
    p2 = p2
    g1 = g1
    NoGtin = NoGtin
    NoCanonicalId = 0
    Products = {p1, p2}
    Gtins = {g1}
    MaxCanonicals = 2
    CanonicalIds = {1, 2}
    MaxFaults = 2
    Attempts = 2
    ProductsFirst = TRUE
SYMMETRY Symmetry
INVARIANTS
    SearchFollowsCatalog
    
\* Products and requests run out.
CHECK_DEADLOCK FALSE
