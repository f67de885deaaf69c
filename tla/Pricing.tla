------------------------------- MODULE Pricing -------------------------------
(***************************************************************************)
(* The pricing engine (services/offer: domain/pricing.py): a supplier's    *)
(* price under an account's financial terms, as one UAH price.             *)
(*                                                                         *)
(* Money is a number of storage units (0.0001 UAH), discounts, markups and *)
(* rates are whole numbers of 1/Scale.  Decimal's 28 digits are taken for  *)
(* exact.                                                                  *)
(***************************************************************************)
EXTENDS Integers

CONSTANTS Prices,      \* supplier prices: [base, currency, uah]
          Discounts, Markups, Rates,   \* what an account's terms may hold
          NoPrice,     \* cannot be expressed in UAH
          NoRate,      \* no FX rate is configured
          Scale        \* the denominator of discounts, markups and rates

UAH == "UAH"

Terms == [discount : Discounts, markup : Markups, fx : Rates]

DefaultTerms == [discount |-> 0, markup |-> 0, fx |-> NoRate]

\* n / d, as quantize rounds it: to the nearest, halves to the even neighbour.
HalfEven(n, d) ==
    LET q == n \div d
        r == 2 * (n % d)
        up == r > d \/ (r = d /\ q % 2 = 1)
    IN  IF up THEN q + 1 ELSE q

\* _base_in_uah, in 1/Scale units.
BaseInUah(price, terms) ==
    CASE price.currency = UAH -> price.base * Scale
      [] price.currency # UAH /\ terms.fx # NoRate -> price.base * terms.fx
      [] price.currency # UAH /\ terms.fx = NoRate /\ price.uah # NoPrice ->
            price.uah * Scale
      [] OTHER -> NoPrice

EffectivePrice(price, terms) ==
    LET base == BaseInUah(price, terms)
    IN  IF base = NoPrice THEN NoPrice
        ELSE HalfEven(base * (Scale - terms.discount) * (Scale + terms.markup),
                      Scale * Scale * Scale)

EffectivePrices ==
    {EffectivePrice(p, t) : p \in Prices, t \in Terms \cup {DefaultTerms}}
=============================================================================
