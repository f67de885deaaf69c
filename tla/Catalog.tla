------------------------------- MODULE Catalog -------------------------------
(***************************************************************************)
(* The tables of the catalog service and its two handlers                  *)
(* (services/catalog: events/handlers.py, adapters/repository.py).  The    *)
(* two consumers run concurrently in one process (consumer.py), each       *)
(* handling one event at a time: while the link handler has read what it   *)
(* builds a card from, the product handler may commit.                     *)
(*                                                                         *)
(* A product is discovered once (connector-brain emits nothing for one it  *)
(* knows), so its row never changes, and build_canonical_card is a         *)
(* function of the members' rows (domain/canonical.py): a card is the set  *)
(* of products it was built from.                                          *)
(***************************************************************************)
EXTENDS Naturals, Sequences

CONSTANTS Products,     \* supplier product ids
          CanonicalIds,   \* canonical product ids
          NoCanonicalId   \* no canonical product

ASSUME CatalogAssumption == NoCanonicalId \notin CanonicalIds

VARIABLES products,       \* the products that are ingested
          productLinks,   \* productLinks[p]: the canonical p is mapped to
          cards,          \* cards[c]: the products c's card was built from
          updates,        \* updates[c]: c's catalog.product.updated events, in order
          handling        \* the link handler's open transaction

catalogVars == <<products, productLinks, cards, updates, handling>>

\* A card that was never built.
NoCard == {}

Cards == SUBSET Products

NotHandling == [product |-> "none"]

Handling ==
    [product : Products, canonical : CanonicalIds,
     todo : Seq(CanonicalIds), built : [CanonicalIds -> Cards]]

CatalogTypeOK ==
    /\ products \in SUBSET Products
    /\ productLinks \in [Products -> CanonicalIds \cup {NoCanonicalId}]
    /\ cards \in [CanonicalIds -> Cards]
    /\ updates \in [CanonicalIds -> Seq(Cards \ {NoCard})]
    /\ handling \in Handling \cup {NotHandling}

CatalogInit ==
    /\ products = {}
    /\ productLinks = [p \in Products |-> NoCanonicalId]
    /\ cards = [c \in CanonicalIds |-> NoCard]
    /\ updates = [c \in CanonicalIds |-> <<>>]
    /\ handling = NotHandling

-----------------------------------------------------------------------------
\* What c's card is built from when the links are l: the ingested ones of its members.
Merged(c, l) == {p \in products : l[p] = c}

\* Mutant of UpsertProduct: a product whose link came first is taken for known.
UpsertUnlinked(p) ==
    /\ products' = IF productLinks[p] = NoCanonicalId THEN products \cup {p} ELSE products
    /\ UNCHANGED <<productLinks, cards, updates, handling>>

\* upsert_supplier_product; no card is rebuilt.
UpsertProduct(p) ==
    /\ products' = products \cup {p}
    /\ UNCHANGED <<productLinks, cards, updates, handling>>

\* The link handler begins: the mapping is set (and flushed before the reads that
\* follow), then the card of the canonical is to be rebuilt, and that of the
\* previous one when the event names it.
SetCanonicalLink(p, c, previous) ==
    /\ handling = NotHandling
    /\ handling' = [product |-> p, canonical |-> c,
                    todo |-> <<c>> \o IF previous = NoCanonicalId THEN <<>> ELSE <<previous>>,
                    built |-> [d \in CanonicalIds |-> NoCard]]
    /\ UNCHANGED <<products, productLinks, cards, updates>>

\* Mutant of RebuildCard: the mapping just set is not flushed before the read.
RebuildCardUnflushed ==
    /\ handling # NotHandling
    /\ handling.todo # <<>>
    /\ LET c == Head(handling.todo)
       IN  handling' = [handling EXCEPT !.todo = Tail(@), !.built[c] = Merged(c, productLinks)]
    /\ UNCHANGED <<products, productLinks, cards, updates>>

\* rebuild_canonical_card: the members are read as they are at this moment.
RebuildCard ==
    /\ handling # NotHandling
    /\ handling.todo # <<>>
    /\ LET c == Head(handling.todo)
           flushed == [productLinks EXCEPT ![handling.product] = handling.canonical]
       IN  handling' = [handling EXCEPT !.todo = Tail(@), !.built[c] = Merged(c, flushed)]
    /\ UNCHANGED <<products, productLinks, cards, updates>>

\* Mutant of CommitLink: a mapping is inserted, and never updated.
CommitLinkInserted ==
    /\ handling # NotHandling
    /\ handling.todo = <<>>
    /\ productLinks' = [productLinks EXCEPT ![handling.product] =
          IF @ = NoCanonicalId THEN handling.canonical ELSE @]
    /\ cards' = [c \in CanonicalIds |->
          IF handling.built[c] # NoCard THEN handling.built[c] ELSE cards[c]]
    /\ updates' = [c \in CanonicalIds |->
          IF handling.built[c] # NoCard THEN Append(updates[c], handling.built[c]) ELSE updates[c]]
    /\ handling' = NotHandling
    /\ UNCHANGED products

\* The transaction commits: the mapping, the cards and their events.  A canonical
\* without ingested members keeps the card it has, and announces nothing.
CommitLink ==
    /\ handling # NotHandling
    /\ handling.todo = <<>>
    /\ productLinks' = [productLinks EXCEPT ![handling.product] = handling.canonical]
    /\ cards' = [c \in CanonicalIds |->
          IF handling.built[c] # NoCard THEN handling.built[c] ELSE cards[c]]
    /\ updates' = [c \in CanonicalIds |->
          IF handling.built[c] # NoCard THEN Append(updates[c], handling.built[c]) ELSE updates[c]]
    /\ handling' = NotHandling
    /\ UNCHANGED products

\* The transaction is rolled back: the handler raised or the process died.
AbandonLink ==
    /\ handling # NotHandling
    /\ handling' = NotHandling
    /\ UNCHANGED <<products, productLinks, cards, updates>>
=============================================================================
