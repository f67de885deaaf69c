------------------------------ MODULE AgentTools ------------------------------
(***************************************************************************)
(* The tools of the MCP gateway that answer from several services          *)
(* (services/mcp-gateway: tools.py): the best offer of a canonical         *)
(* product, which may come from a search.  Each request sees the catalog,  *)
(* or the offers of one product, as they are by then.                      *)
(*                                                                         *)
(* The offer service picks a product's cheapest offer by effective price;  *)
(* the tool compares the products' picks by the price before terms.        *)
(***************************************************************************)
EXTENDS Integers, FiniteSets, FiniteSetsExt

CONSTANTS Products,     \* supplier products, numbered in the order of their ids
          Canonicals,
          Offers, ProductOf,   \* ProductOf[o]: the product that offer o prices
          Quotes,       \* [uah, effective]: what an offer may cost, before and under terms
          Unpriced,     \* instead of either, if it cannot be expressed in UAH
          MaxMembers,   \* the page of members the tool asks for
          NotLinked,    \* instead of a canonical: the product has none ...
          NotCatalogued   \* ... or is not known yet

ASSUME ToolsAssumption ==
    /\ Products \subseteq Nat
    /\ IsFiniteSet(Products)
    /\ ProductOf \in [Offers -> Products]
    /\ Quotes \subseteq [uah : Int \cup {Unpriced}, effective : Int \cup {Unpriced}]
    /\ [uah |-> Unpriced, effective |-> Unpriced] \in Quotes
    /\ Unpriced \notin Int
    /\ MaxMembers \in Nat \ {0}

VARIABLES canonicalOf,   \* the catalog: the canonical of each product
          quotes,        \* the offer service: quotes[o]
          tool           \* the call being answered

toolVars == <<canonicalOf, quotes, tool>>

NoOffer == [offer |-> "none"]

NotCalled == [phase |-> "not called"]

\* todo: products whose best offer is still to be asked for.  best: the cheapest so
\* far.  of: the members when the list was asked for, and quiet: nothing changed since.
Calls ==
    [phase : {"hit", "asking", "answered"}, canonical : Canonicals,
     todo : SUBSET Products, best : [offer : Offers, uah : Int] \cup {NoOffer},
     of : SUBSET Products, quiet : BOOLEAN]

ToolsTypeOK ==
    /\ canonicalOf \in [Products -> Canonicals \cup {NotLinked, NotCatalogued}]
    /\ quotes \in [Offers -> Quotes]
    /\ tool = NotCalled \/ tool \in Calls

-----------------------------------------------------------------------------
(* What the services answer.                                               *)

Members(c) == {p \in Products : canonicalOf[p] = c}

\* list_products: the first page, in the order of the ids.
ListMembers(c) == {p \in Members(c) : Cardinality({q \in Members(c) : q < p}) < MaxMembers}

OffersOf(p) == {o \in Offers : ProductOf[o] = p}

Priced(p) == {o \in OffersOf(p) : quotes[o].effective # Unpriced}

\* best_offer_for_product; of equal prices the database may give either.
BestOffers(p) ==
    {o \in Priced(p) : \A q \in Priced(p) : quotes[o].effective <= quotes[q].effective}

-----------------------------------------------------------------------------
(* The tools.                                                              *)

Called(phase, c, products) ==
    [phase |-> phase, canonical |-> c, todo |-> products, best |-> NoOffer,
     of |-> Members(c), quiet |-> TRUE]

\* best_price_for_query: the search's first hit, any canonical.
AskBestPrice(c) ==
    /\ tool = NotCalled
    /\ tool' = Called("hit", c, {})
    /\ UNCHANGED <<canonicalOf, quotes>>

\* best_offer_for_canonical begins: its members are listed.
AskBestOfferForCanonical(c) ==
    /\ tool = NotCalled \/ (tool.phase = "hit" /\ tool.canonical = c)
    /\ tool' = Called("asking", c, ListMembers(c))
    /\ UNCHANGED <<canonicalOf, quotes>>

\* Mutant of Cheaper: the latest candidate stays.
NotDearer(candidate, best) ==
    candidate # Unpriced /\ (best = NoOffer \/ candidate # best.uah)

\* A candidate without a price before terms is passed over.
Cheaper(candidate, best) ==
    candidate # Unpriced /\ (best = NoOffer \/ candidate < best.uah)

\* The members are asked one by one, in the order of their ids.
AskMember ==
    /\ tool.phase = "asking"
    /\ tool.todo # {}
    /\ LET p == Min(tool.todo)
       IN  \/ /\ Priced(p) = {}
              /\ tool' = [tool EXCEPT !.todo = @ \ {p}]
           \/ \E o \in BestOffers(p) :
                 tool' = [tool EXCEPT
                     !.todo = @ \ {p},
                     !.best = IF Cheaper(quotes[o].uah, tool.best)
                              THEN [offer |-> o, uah |-> quotes[o].uah] ELSE @]
    /\ UNCHANGED <<canonicalOf, quotes>>

AnswerTool ==
    /\ tool.phase = "asking"
    /\ tool.todo = {}
    /\ tool' = [tool EXCEPT !.phase = "answered"]
    /\ UNCHANGED <<canonicalOf, quotes>>

-----------------------------------------------------------------------------
(* The services go on.                                                     *)

Disturb == tool' = [tool EXCEPT !.quiet = FALSE]

\* The catalog learns of a product, or its link moves.
Relink(p, c) ==
    /\ tool.phase \in {"hit", "asking"}
    /\ canonicalOf[p] # c
    /\ canonicalOf' = [canonicalOf EXCEPT ![p] = c]
    /\ Disturb
    /\ UNCHANGED quotes

\* An offer's price or its account's terms change.
Requote(o, quote) ==
    /\ tool.phase \in {"hit", "asking"}
    /\ quotes[o] # quote
    /\ quotes' = [quotes EXCEPT ![o] = quote]
    /\ Disturb
    /\ UNCHANGED canonicalOf
=============================================================================
