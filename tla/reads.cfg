SPECIFICATION Spec
CONSTANTS
    Keys = {1, 2, 3, 4}
    Limits = {1, 2}
    Moments = {0, 1, 2, 3}
    DayLength = 2
    Documents = {1, 2, 3}
    Pools = {2, 3}
    Sizes = {1, 3}
    Unit = 238266
    Products = {1, 2, 3}
    Canonicals = {7}
    Offers = {1, 2, 3, 4}
    ProductOf <- FourOffers
    unpriced = unpriced
    Quotes <- FewQuotes
    Unpriced = unpriced
    MaxMembers = 2
    NotLinked = NotLinked
    NotCatalogued = NotCatalogued
INVARIANTS
    ListingIsComplete
    StatsAreOrdered
    FusionKeepsAgreement
    CheapestWhenQuiet
\* The one read ends.
CHECK_DEADLOCK FALSE
