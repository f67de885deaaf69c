----------------------------- MODULE SupplierFeed -----------------------------
(***************************************************************************)
(* A supplier as the connector sees it: products that appear, change price *)
(* and disappear, listed in pages by product id, and the list of those     *)
(* modified since a time.  External: the code is the Brain API's; what is  *)
(* assumed of it is what connector.py relies on.                           *)
(***************************************************************************)
EXTENDS Naturals, FiniteSets, Sequences

CONSTANTS Items,        \* product ids, numbers
          Prices,       \* usable prices
          NoPrice,      \* listed without a usable price
          Delisted,     \* not in the catalogue any more
          PageSize,     \* settings.page_size
          MaxChanges    \* bound: changes of the supplier's catalogue

VARIABLES now,          \* the clock, in seconds
          catalogue     \* catalogue[i]: the versions of product i, the last is current

ASSUME SupplierAssumption ==
    /\ Items \subseteq Nat /\ IsFiniteSet(Items)
    /\ NoPrice \notin Prices /\ Delisted \notin Prices /\ NoPrice # Delisted
    /\ PageSize \in Nat \ {0} /\ MaxChanges \in Nat

Versions == [price : Prices \cup {NoPrice, Delisted}, at : Nat]

SupplierTypeOK ==
    /\ now \in Nat
    /\ catalogue \in [Items -> Seq(Versions)]

SupplierInit ==
    /\ now = 0
    /\ catalogue \in [Items -> {<<>>} \cup {<<[price |-> p, at |-> 0]>> : p \in Prices}]

Latest(i) == Len(catalogue[i])
Price(i, v) == catalogue[i][v].price
Listed(i) == Latest(i) > 0 /\ Price(i, Latest(i)) # Delisted
Sold == {i \in Items : Listed(i)}

Changes == {c \in Items \X (1..MaxChanges) : c[2] <= Latest(c[1])}

\* A product appears, changes its price, loses it, or disappears.
Change(i, price) ==
    /\ Cardinality(Changes) < MaxChanges
    /\ price # Delisted \/ Listed(i)
    /\ Latest(i) > 0 => price # Price(i, Latest(i))
    /\ catalogue' = [catalogue EXCEPT ![i] = Append(@, [price |-> price, at |-> now])]
    /\ UNCHANGED now

\* The products of a list at the offsets of one page: the offset counts the rows
\* of the list as it is when the page is asked for.
Page(list, offset) ==
    {i \in list : Cardinality({j \in list : j < i}) \in offset..(offset + PageSize - 1)}

\* modified_products: what is sold and has changed since then, that second included.
ModifiedSince(since) == {i \in Sold : catalogue[i][Latest(i)].at >= since}
=============================================================================
