----------------------------- MODULE CatalogFlow -----------------------------
(***************************************************************************)
(* From a supplier's product and an operator's decision to the card and    *)
(* the search document: matching, the catalog and the search service, each *)
(* at its own pace.                                                        *)
(*                                                                         *)
(* Matching is its abstract specification, Curation.  Topics are what      *)
(* EventPipeline proves of them: the events of a key arrive in order, each *)
(* is applied once, and an event is parked on the dead-letter topic only   *)
(* after Attempts failures, to be replayed by an operator at any later     *)
(* time.  Offsets are counted per key.                                     *)
(***************************************************************************)
EXTENDS Catalog

CONSTANTS Gtins, NoGtin, MaxCanonicals,   \* of MatchingTables
          MaxFaults,      \* bound: failures of the link handler
          Attempts,       \* failures after which an event is dead-lettered
          ProductsFirst   \* whether the catalog ingests a product before its link

ASSUME FlowAssumption ==
    /\ CanonicalIds = 1..MaxCanonicals
    /\ NoCanonicalId = 0
    /\ MaxFaults \in Nat
    /\ Attempts \in Nat \ {0}
    /\ ProductsFirst \in BOOLEAN

VARIABLES links, canon, emitted, log,   \* matching
          productDocs, canonicalDocs,   \* search
          discovered,   \* the products whose discovery event is published
          linkOffset,   \* linkOffset[p]: link events of p the catalog is past
          parked,       \* dead-lettered link events: a product and a position
          taken,        \* the link event the catalog is handling
          indexOffset,  \* indexOffset[c]: updates of c the search service is past
          faults        \* failures still to come

Decisions == INSTANCE Curation

Search == INSTANCE SearchIndex WITH NoDocument <- NoCard

matching == <<links, canon, emitted, log>>

delivery == <<discovered, linkOffset, parked, taken, indexOffset, faults>>

flowVars == <<matching, catalogVars, productDocs, canonicalDocs, delivery>>

NothingTaken == <<>>

FlowTypeOK ==
    /\ CatalogTypeOK
    /\ Decisions!TablesTypeOK
    /\ productDocs \in SUBSET Products
    /\ canonicalDocs \in [CanonicalIds -> Cards]
    /\ discovered \in SUBSET Products
    /\ linkOffset \in [Products -> Nat]
    /\ parked \in SUBSET (Products \X (Nat \ {0}))
    /\ taken = NothingTaken \/ taken \in Products \X (Nat \ {0})
    /\ indexOffset \in [CanonicalIds -> Nat]
    /\ faults \in 0..MaxFaults

Init ==
    /\ Decisions!Init
    /\ CatalogInit
    /\ Search!SearchInit
    /\ discovered = {}
    /\ linkOffset = [p \in Products |-> 0]
    /\ parked = {}
    /\ taken = NothingTaken
    /\ indexOffset = [c \in CanonicalIds |-> 0]
    /\ faults = MaxFaults

-----------------------------------------------------------------------------
\* The connector meets a product for the first time.
Discover(p) ==
    /\ p \notin discovered
    /\ discovered' = discovered \cup {p}
    /\ UNCHANGED <<matching, catalogVars, productDocs, canonicalDocs,
                   linkOffset, parked, taken, indexOffset, faults>>

\* Matching handles a discovery, or an operator decides.
Decide ==
    /\ \/ \E p \in Products :
             \/ Decisions!Confirm(p)
             \/ Decisions!Reject(p)
             \/ \E g \in Gtins \cup {NoGtin} :
                   \/ p \in discovered /\ Decisions!Discover(p, g)
                   \/ Decisions!CreateNew(p, g)
       \/ \E c, d \in CanonicalIds : Decisions!Merge(c, d)
    /\ UNCHANGED <<catalogVars, productDocs, canonicalDocs, delivery>>

IngestProduct(p) ==
    /\ p \in discovered \ products
    /\ UpsertProduct(p)
    /\ UNCHANGED <<matching, productDocs, canonicalDocs, delivery>>

IndexProduct(p) ==
    /\ p \in discovered \ productDocs
    /\ Search!IndexDocument(p)
    /\ UNCHANGED <<matching, catalogVars, delivery>>

\* The i-th link event of p.  Matching's events never name the canonical a product
\* leaves.
Handle(p, i) ==
    /\ SetCanonicalLink(p, emitted[p][i], NoCanonicalId)
    /\ taken' = <<p, i>>
    /\ UNCHANGED <<matching, productDocs, canonicalDocs,
                   discovered, linkOffset, parked, indexOffset, faults>>

\* The next link event of p is taken ...
TakeLink(p) ==
    /\ linkOffset[p] < Len(emitted[p])
    /\ ProductsFirst => p \in products
    /\ Handle(p, linkOffset[p] + 1)

\* ... or one that was parked and is replayed.
ReplayLink == \E e \in parked : Handle(e[1], e[2])

Rebuild ==
    /\ RebuildCard
    /\ UNCHANGED <<matching, productDocs, canonicalDocs, delivery>>

\* The consumer is past the event it has taken.
Past ==
    LET p == taken[1]
        i == taken[2]
    IN  IF i > linkOffset[p]
        THEN linkOffset' = [linkOffset EXCEPT ![p] = i] /\ UNCHANGED parked
        ELSE parked' = parked \ {taken} /\ UNCHANGED linkOffset

FinishLink ==
    /\ CommitLink
    /\ Past
    /\ taken' = NothingTaken
    /\ UNCHANGED <<matching, productDocs, canonicalDocs, discovered, indexOffset, faults>>

\* The handler fails, and the event is taken again.
FailLink ==
    /\ faults > 0
    /\ faults' = faults - 1
    /\ AbandonLink
    /\ taken' = NothingTaken
    /\ UNCHANGED <<matching, productDocs, canonicalDocs,
                   discovered, linkOffset, parked, indexOffset>>

\* The handler fails as often as it may, and the event is dead-lettered.
ParkLink ==
    /\ faults >= Attempts
    /\ faults' = faults - Attempts
    /\ AbandonLink
    /\ linkOffset' = [linkOffset EXCEPT ![taken[1]] = IF taken[2] > @ THEN taken[2] ELSE @]
    /\ parked' = parked \cup {taken}
    /\ taken' = NothingTaken
    /\ UNCHANGED <<matching, productDocs, canonicalDocs, discovered, indexOffset>>

IndexCard(c) ==
    /\ indexOffset[c] < Len(updates[c])
    /\ Search!IndexCanonicalDocument(c, updates[c][indexOffset[c] + 1])
    /\ indexOffset' = [indexOffset EXCEPT ![c] = @ + 1]
    /\ UNCHANGED <<matching, catalogVars, discovered, linkOffset, parked, taken, faults>>

Next ==
    \/ \E p \in Products :
          Discover(p) \/ IngestProduct(p) \/ IndexProduct(p) \/ TakeLink(p)
    \/ \E c \in CanonicalIds : IndexCard(c)
    \/ Decide
    \/ ReplayLink
    \/ Rebuild
    \/ FinishLink
    \/ FailLink
    \/ ParkLink

Spec == Init /\ [][Next]_flowVars

\* The consumers run for ever (compose.yaml, restart: unless-stopped); suppliers,
\* operators and faults need not.
Fairness ==
    /\ \A p \in Products :
          WF_flowVars(IngestProduct(p)) /\ WF_flowVars(IndexProduct(p)) /\ WF_flowVars(TakeLink(p))
    /\ \A c \in CanonicalIds : WF_flowVars(IndexCard(c))
    /\ WF_flowVars(Rebuild)
    /\ WF_flowVars(FinishLink)

FairSpec == Spec /\ Fairness

-----------------------------------------------------------------------------
\* The catalog is past every link event of p.
LinksDone(p) ==
    /\ linkOffset[p] = Len(emitted[p])
    /\ \A e \in parked : e[1] # p

\* Every event has been handled.
Quiet ==
    /\ products = discovered
    /\ productDocs = discovered
    /\ \A p \in Products : LinksDone(p)
    /\ handling = NotHandling
    /\ \A c \in CanonicalIds : indexOffset[c] = Len(updates[c])

\* The catalog's mapping becomes matching's: once the events of a product are
\* handled, it names the canonical of a decided link, and none for a link that still
\* waits for an operator (events.md section 2: the order of a key is guaranteed).
CatalogFollowsMatching ==
    \A p \in Products : LinksDone(p) =>
        /\ links[p].status \in {"auto", "confirmed"} => productLinks[p] = links[p].canonical
        /\ links[p].status \in {"none", "pending_review"} => productLinks[p] = NoCanonicalId

\* The index becomes the catalog (ADR-0012: catalog.product.updated is the single
\* source of truth of the card for search).
SearchFollowsCatalog ==
    \A c \in CanonicalIds : indexOffset[c] = Len(updates[c]) => canonicalDocs[c] = cards[c]

\* A linked, ingested product is on the card of its canonical (models.py: a link
\* that arrives before its product "is never lost (no ordering dependency between
\* the two consumers)").
NoMemberIsMissing ==
    Quiet => \A p \in Products :
        productLinks[p] # NoCanonicalId /\ p \in products => p \in cards[productLinks[p]]

\* A card lists no product that has moved to another canonical (README.md of the
\* catalog: "on merge/split the previous canonical is rebuilt too").
CardsHaveOnlyMembers ==
    Quiet => \A c \in CanonicalIds : \A p \in cards[c] : productLinks[p] = c

\* Whatever happens, the three services come to agree: in the end every event is
\* handled, and the mapping and the index are what matching and the catalog have.
Converges == <>[](Quiet /\ CatalogFollowsMatching /\ SearchFollowsCatalog)
=============================================================================
