------------------------------- MODULE ReadFlow -------------------------------
(***************************************************************************)
(* What clients read while the services go on writing: a walk through a    *)
(* list, the statistics of an offer's prices, a hybrid search, or a tool   *)
(* that asks several services.  A read holds no lock and no snapshot from  *)
(* one statement to the next; one client reads, and what the writers do    *)
(* between its steps is left open.                                         *)
(***************************************************************************)
EXTENDS Listing, PriceReads, HybridSearch, AgentTools

VARIABLE reader   \* which of the four reads it is

vars == <<listingVars, priceReadVars, search, toolVars, reader>>

ReadTypeOK ==
    /\ ListingTypeOK
    /\ HybridTypeOK
    /\ ToolsTypeOK
    /\ PriceReadsTypeOK
    /\ reader \in {"walk", "stats", "search", "tool"}

\* Whatever has been written before: each table the reader is going to look at.
Init ==
    /\ walk = NotWalking
    /\ search = NotSearching
    /\ tool = NotCalled
    /\ stats = NotAsked
    /\ reader \in {"walk", "stats", "search", "tool"}
    /\ rows \in IF reader = "walk" THEN SUBSET Keys ELSE {{}}
    /\ points \in IF reader = "stats" THEN SUBSET Moments ELSE {{}}
    /\ canonicalOf \in IF reader = "tool"
                       THEN [Products -> Canonicals \cup {NotLinked, NotCatalogued}]
                       ELSE {[p \in Products |-> NotCatalogued]}
    /\ quotes \in IF reader = "tool" THEN [Offers -> Quotes]
                  ELSE {[o \in Offers |-> [uah |-> Unpriced, effective |-> Unpriced]]}

-----------------------------------------------------------------------------
Walk ==
    /\ reader = "walk"
    /\ \/ \E endpoint \in Endpoints, limit \in Limits : StartWalk(endpoint, limit)
       \/ NextPage
       \/ \E k \in Keys : AddRow(k) \/ RemoveRow(k)
    /\ UNCHANGED <<search, toolVars, priceReadVars, reader>>

Statistics ==
    /\ reader = "stats"
    /\ \/ \E daily \in BOOLEAN, from, to \in Moments : AskStats(daily, from, to)
       \/ Aggregate
       \/ LastPrice
       \/ \E t \in Moments : AppendPoint(t)
    /\ UNCHANGED <<listingVars, search, toolVars, reader>>

Search ==
    /\ reader = "search"
    /\ \/ \E limit \in Sizes, pool \in Pools, sparse, reranked \in BOOLEAN :
             AskHybrid(limit, pool, sparse, reranked)
       \/ \E ranking \in AllRankings : Retrieve(ranking)
       \/ AnswerHybrid
    /\ UNCHANGED <<listingVars, toolVars, priceReadVars, reader>>

Tool ==
    /\ reader = "tool"
    /\ \/ \E c \in Canonicals : AskBestPrice(c) \/ AskBestOfferForCanonical(c)
       \/ AskMember
       \/ AnswerTool
       \/ \E p \in Products, c \in Canonicals \cup {NotLinked} : Relink(p, c)
       \/ \E o \in Offers, quote \in Quotes : Requote(o, quote)
    /\ UNCHANGED <<listingVars, search, priceReadVars, reader>>

Next == Walk \/ Statistics \/ Search \/ Tool

Spec == Init /\ [][Next]_vars

-----------------------------------------------------------------------------
\* Whoever walks a list to its end has been given, in order and none twice, every
\* row that was there from the first page to the last (pagination.py:5).
ListingIsComplete ==
    walk # NotWalking /\ walk.cursor = End =>
        /\ walk.steady \subseteq ToSet(walk.given)
        /\ \A i, j \in DOMAIN walk.given : i < j =>
              IF walk.endpoint.list.newestFirst
              THEN walk.given[i] > walk.given[j] ELSE walk.given[i] < walk.given[j]

\* The last price of a range, or of a day, is at least as late as every price that
\* its count, least and greatest are made of, and is there if they are: whatever is
\* appended between the two statements.
StatsAreOrdered ==
    stats # NotAsked /\ stats.phase = "answered" =>
        \A b \in DOMAIN stats.counted : \A t \in stats.counted[b] :
            /\ stats.last[b] # None
            /\ stats.last[b] >= t
            /\ InRange({stats.last[b]}) # {}

\* A document that every retriever which brings another one ranks before it.
AgreedBefore(d, e) ==
    \A i \in DOMAIN search.rankings : e \in ToSet(search.rankings[i]) =>
        /\ d \in ToSet(search.rankings[i])
        /\ Place(search.rankings[i], d) < Place(search.rankings[i], e)

\* A search gives as many hits as were found and asked for, none twice, and fusion
\* never turns round what the retrievers agree on (fusion.py:6): the better document
\* comes before the worse, and is not the one that is cut off.
FusionKeepsAgreement ==
    search # NotSearching /\ search.phase = "answered" =>
        LET found == Found(search.rankings)
            hits == ToSet(search.hits)
        IN  /\ IsInjective(search.hits)
            /\ hits \subseteq found
            /\ Len(search.hits) = Min({search.limit, search.pool, Cardinality(found)})
            /\ ~search.reranked => \A d \in found, e \in hits :
                  d # e /\ AgreedBefore(d, e) =>
                      d \in hits /\ Place(search.hits, d) < Place(search.hits, e)

\* The two prices tell the same: they are there together, and order offers alike.
PricesAgree ==
    /\ \A o \in Offers : quotes[o].uah = Unpriced <=> quotes[o].effective = Unpriced
    /\ \A o, p \in Offers :
          Unpriced \notin {quotes[o].effective, quotes[p].effective} =>
              (quotes[o].effective <= quotes[p].effective <=> quotes[o].uah <= quotes[p].uah)

\* If nothing changes during a call, the answer is the cheapest offer of all members,
\* and there is one if any is priced (tools.py:140).  Not so if terms order offers
\* otherwise than prices do, or if there are more members than the tool lists.
CheapestWhenQuiet ==
    tool # NotCalled /\ tool.phase = "answered" /\ tool.quiet
    /\ PricesAgree /\ Cardinality(tool.of) <= MaxMembers =>
        LET priced == UNION {Priced(p) : p \in tool.of}
        IN  /\ tool.best = NoOffer <=> priced = {}
            /\ tool.best # NoOffer =>
                  /\ tool.best.offer \in priced
                  /\ \A o \in priced : tool.best.uah <= quotes[o].uah
=============================================================================
