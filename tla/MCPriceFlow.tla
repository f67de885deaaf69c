----------------------------- MODULE MCPriceFlow -----------------------------
(* Instances of PriceFlow for TLC: a price in UAH and one in euros, terms    *)
(* with and without a discount and a rate.                                   *)
EXTENDS PriceFlow, TLC

CONSTANTS o1, r1, r2

MCPrices ==
    {[base |-> 20, currency |-> UAH, uah |-> NoPrice],
     [base |-> 1, currency |-> "EUR", uah |-> NoPrice]}

Symmetry == Permutations(Requests)
=============================================================================
