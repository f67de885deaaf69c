SPECIFICATION FairSpec
CONSTANTS
    p1 = p1
    p2 = p2
    g1 = g1
    NoGtin = NoGtin
    NoCanonicalId = 0
    Products = {p1}
    Gtins = {g1}
    MaxCanonicals = 3
    CanonicalIds = {1, 2, 3}
    MaxFaults = 1
    Attempts = 4
    ProductsFirst = FALSE
INVARIANTS
    CatalogFollowsMatching
PROPERTIES
    Converges
\* Products and requests run out.
CHECK_DEADLOCK FALSE
