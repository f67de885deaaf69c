SPECIFICATION Spec
CONSTANTS
    p1 = p1
    p2 = p2
    g1 = g1
    NoGtin = NoGtin
    NoCanonicalId = 0
    Products = {p1, p2}
    Gtins = {g1}
    MaxCanonicals = 2
    CanonicalIds = {1, 2}
    MaxFaults = 1
    Attempts = 4
    ProductsFirst = TRUE
SYMMETRY Symmetry
INVARIANTS
    CardsHaveOnlyMembers
\* Products and requests run out.
CHECK_DEADLOCK FALSE
