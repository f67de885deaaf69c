------------------------------- MODULE Listing -------------------------------
(***************************************************************************)
(* A client walks through one of the platform's lists, page by page, while *)
(* rows come and go.  A row is its key: ids are ULIDs, times are times; a  *)
(* row may commit after one with a greater key.                            *)
(***************************************************************************)
EXTENDS Paging, Sequences

CONSTANTS Keys,     \* bound: keys of the rows there may ever be
          Limits    \* the page sizes clients ask for

ASSUME ListingAssumption ==
    /\ Keys \subseteq Nat \ {0}
    /\ IsFiniteSet(Keys)
    /\ Limits \subseteq Nat \ {0}

VARIABLES rows,   \* the rows of the list that match the client's filter
          walk    \* the walk under way: its endpoint, page size, cursor, what it
                  \* has been given, and which rows were there all the time

listingVars == <<rows, walk>>

\* A list: in which direction it is read, and whether a row can leave it.
List(newestFirst, shrinks) == [newestFirst |-> newestFirst, shrinks |-> shrinks]

\* The catalog's products; those of one canonical change when a link moves.
SupplierProducts == List(FALSE, TRUE)

\* The catalog's cards are never deleted, matching's canonicals by a merge.
CanonicalCards == List(FALSE, FALSE)

CanonicalProducts == List(FALSE, TRUE)

ProductOffers == List(FALSE, FALSE)

PricePoints == List(FALSE, FALSE)

\* Documents that match a query, by id and not by relevance.
LexicalMatches == List(FALSE, TRUE)

DecisionJournal == List(TRUE, FALSE)

\* An endpoint: its list, and the greatest page it gives.
Endpoint(list, most) == [list |-> list, most |-> most]

ListSupplierProducts == Endpoint(SupplierProducts, 200)

ListCanonicalCards == Endpoint(CanonicalCards, 200)

ListCanonicalProducts == Endpoint(CanonicalProducts, 200)

ListOffers == Endpoint(ProductOffers, 200)

GetPriceHistory == Endpoint(PricePoints, 1000)

SearchProducts == Endpoint(LexicalMatches, 100)

ListDecisions == Endpoint(DecisionJournal, 200)

Endpoints == {ListSupplierProducts, ListCanonicalCards, ListCanonicalProducts, ListOffers,
              GetPriceHistory, SearchProducts, ListDecisions}

Walks == [endpoint : Endpoints, limit : Nat \ {0}, cursor : Keys \cup {Start, End},
          given : Seq(Keys), steady : SUBSET Keys]

NotWalking == [cursor |-> End, given |-> <<>>, steady |-> {}]

ListingTypeOK ==
    /\ rows \in SUBSET Keys
    /\ walk = NotWalking \/ walk \in Walks

ListingInit ==
    /\ rows \in SUBSET Keys
    /\ walk = NotWalking

-----------------------------------------------------------------------------
\* A client starts at the first page.
StartWalk(endpoint, limit) ==
    /\ walk = NotWalking
    /\ limit <= endpoint.most
    /\ walk' = [endpoint |-> endpoint, limit |-> limit, cursor |-> Start,
                given |-> <<>>, steady |-> rows]
    /\ UNCHANGED rows

PageOf(list, cursor, limit) ==
    IF list.newestFirst THEN PageDown(rows, cursor, limit) ELSE PageUp(rows, cursor, limit)

Precedes(list, j, k) == IF list.newestFirst THEN j > k ELSE j < k

InOrder(list, keys) ==
    CHOOSE s \in [1..Cardinality(keys) -> keys] :
        \A i, n \in DOMAIN s : i < n => Precedes(list, s[i], s[n])

\* The next page: one statement, and so one state of the table.
NextPage ==
    /\ walk.cursor # End
    /\ LET page == PageOf(walk.endpoint.list, walk.cursor, walk.limit)
       IN  walk' = [walk EXCEPT !.cursor = page.next,
                                !.given = @ \o InOrder(walk.endpoint.list, page.items)]
    /\ UNCHANGED rows

\* Others write: a row is inserted or begins to match ...
AddRow(k) ==
    /\ walk.cursor # End
    /\ k \in Keys \ rows
    /\ rows' = rows \cup {k}
    /\ UNCHANGED walk

\* ... or it ceases to.
RemoveRow(k) ==
    /\ walk.cursor # End
    /\ walk.endpoint.list.shrinks
    /\ k \in rows
    /\ rows' = rows \ {k}
    /\ walk' = [walk EXCEPT !.steady = @ \ {k}]
=============================================================================
