---------------------------- MODULE PriceHistory ----------------------------
(***************************************************************************)
(* The price-history service: two series of points per offer, each written *)
(* by a consumer of its own (services/price-history:                       *)
(* adapters/repository.py).  Points are keyed by offer and time.           *)
(***************************************************************************)
EXTENDS Naturals

CONSTANTS Offers, Prices, EffectivePrices

VARIABLES pricePoints,      \* pricePoints[o]: the raw points of o
          effectivePoints   \* effectivePoints[o]: its effective-price points

historyVars == <<pricePoints, effectivePoints>>

HistoryTypeOK ==
    /\ pricePoints \in [Offers -> SUBSET [ts : Nat, price : Prices]]
    /\ effectivePoints \in [Offers -> SUBSET [ts : Nat, effective : EffectivePrices]]

HistoryInit ==
    /\ pricePoints = [o \in Offers |-> {}]
    /\ effectivePoints = [o \in Offers |-> {}]

\* A point is added unless there is one of its time.
WithPoint(points, point) ==
    IF \E q \in points : q.ts = point.ts THEN points ELSE points \cup {point}

AppendPricePoint(o, price, at) ==
    /\ pricePoints' = [pricePoints EXCEPT ![o] =
                          WithPoint(@, [ts |-> at, price |-> price])]
    /\ UNCHANGED effectivePoints

AppendEffectivePoint(o, effective, at) ==
    /\ effectivePoints' = [effectivePoints EXCEPT ![o] =
                              WithPoint(@, [ts |-> at, effective |-> effective])]
    /\ UNCHANGED pricePoints
=============================================================================
