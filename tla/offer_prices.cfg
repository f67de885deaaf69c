SPECIFICATION Spec
CONSTANTS
    o1 = o1
    r1 = r1
    r2 = r2
    NoPrice = NoPrice
    NoRate = NoRate
    NoOffer = NoOffer
    NoTerms = NoTerms
    Offers = {o1}
    Requests = {r1, r2}
    Prices <- MCPrices
    Discounts = {5}
    Markups = {0}
    Rates = {NoRate, 200}
    Scale = 10
    MaxTime = 3
    MaxParked = 1
SYMMETRY Symmetry
INVARIANTS
    AnnouncedIsStored
    SerialPricesAreCurrent
    LatestPriceStands
    HistoryIsComplete
\* Prices and requests run out.
CHECK_DEADLOCK FALSE
