----------------------------- MODULE SearchIndex -----------------------------
(***************************************************************************)
(* The tables of the search service and its two handlers                   *)
(* (services/search: events/handlers.py, adapters/repository.py,           *)
(* adapters/canonical_repository.py): a document per supplier product and  *)
(* one per canonical card, each overwritten by the latest event and never  *)
(* removed.  Embeddings and search texts are functions of the row.         *)
(***************************************************************************)
EXTENDS Naturals

CONSTANTS Products,     \* supplier product ids
          CanonicalIds,   \* canonical product ids
          NoDocument    \* not indexed

VARIABLES productDocs,    \* the products that are indexed
          canonicalDocs   \* canonicalDocs[c]: the card of c that is indexed

searchVars == <<productDocs, canonicalDocs>>

SearchInit ==
    /\ productDocs = {}
    /\ canonicalDocs = [c \in CanonicalIds |-> NoDocument]

IndexDocument(p) ==
    /\ productDocs' = productDocs \cup {p}
    /\ UNCHANGED canonicalDocs

\* Mutant of IndexCanonicalDocument: a document is inserted, and never updated.
InsertCanonicalDocument(c, card) ==
    /\ canonicalDocs' = [canonicalDocs EXCEPT ![c] = IF @ = NoDocument THEN card ELSE @]
    /\ UNCHANGED productDocs

IndexCanonicalDocument(c, card) ==
    /\ canonicalDocs' = [canonicalDocs EXCEPT ![c] = card]
    /\ UNCHANGED productDocs
=============================================================================
