----------------------------- MODULE HybridSearch -----------------------------
(***************************************************************************)
(* Hybrid search (services/search: api/routes.py, domain/fusion.py), over  *)
(* supplier products or over canonical ones.  Each retriever is a          *)
(* statement of its own, which ranks the documents as they are indexed by  *)
(* then: what one returns says nothing of what the next will, except that  *)
(* no document comes twice.                                                *)
(*                                                                         *)
(* Scores are sums of 1/(RrfK + rank), counted here in units of 1/Unit, in *)
(* which they are exact: the order of documents of equal score, which the  *)
(* rounding of the code's sums of three may swap, is that of sorted().     *)
(***************************************************************************)
EXTENDS Naturals, FiniteSets, FiniteSetsExt, Sequences, SequencesExt

CONSTANTS Documents,
          Pools,    \* candidates asked of each retriever
          Sizes,    \* hits asked for
          Unit      \* a common multiple of every RrfK + rank

VARIABLE search   \* the search being answered

RrfK == 60

ASSUME HybridAssumption ==
    /\ IsFiniteSet(Documents)
    /\ Pools \subseteq Nat \ {0}
    /\ Sizes \subseteq Nat \ {0}
    /\ Unit \in Nat \ {0}
    /\ \A pool \in Pools : \A rank \in 1..pool : Unit % (RrfK + rank) = 0

AllRankings ==
    {r \in UNION {[1..n -> Documents] : n \in 0..Cardinality(Documents)} : IsInjective(r)}

\* What a retriever asked for pool candidates may return.
Rankings(pool) == {r \in AllRankings : Len(r) <= pool}

NotSearching == [phase |-> "not searching"]

\* sparse: a third retriever is configured, the learned-sparse one.  reranked: the
\* candidates are scored once more by a cross-encoder.
Searches(pool) ==
    [phase : {"retrieving", "answered"}, limit : Sizes, pool : {pool},
     sparse : BOOLEAN, reranked : BOOLEAN,
     rankings : Seq(Rankings(pool)), hits : Seq(Documents)]

HybridTypeOK == search = NotSearching \/ \E pool \in Pools : search \in Searches(pool)

HybridInit == search = NotSearching

-----------------------------------------------------------------------------
(* Reciprocal rank fusion.                                                 *)

\* The place of d in a list that has it, from one.
Place(ranking, d) == CHOOSE n \in DOMAIN ranking : ranking[n] = d

Found(rankings) == UNION {ToSet(rankings[i]) : i \in DOMAIN rankings}

\* 1/(RrfK + rank) from the i-th retriever, if it brings d.
Share(rankings, i, d) ==
    IF i \in DOMAIN rankings /\ d \in ToSet(rankings[i])
    THEN Unit \div (RrfK + Place(rankings[i], d)) ELSE 0

\* There are two retrievers, or three.
Score(rankings, d) == Share(rankings, 1, d) + Share(rankings, 2, d) + Share(rankings, 3, d)

\* The first retriever that brings d, and the order in which documents are first seen.
FirstWith(rankings, d) == Min({i \in DOMAIN rankings : d \in ToSet(rankings[i])})

SeenBefore(rankings, d, e) ==
    LET i == FirstWith(rankings, d)
        j == FirstWith(rankings, e)
    IN  i < j \/ (i = j /\ Place(rankings[i], d) < Place(rankings[j], e))

\* Mutant of RanksBefore: sorted() without reverse.
RanksBeforeAscending(rankings, d, e) ==
    \/ Score(rankings, d) < Score(rankings, e)
    \/ Score(rankings, d) = Score(rankings, e) /\ SeenBefore(rankings, d, e)

\* The highest score first; sorted() is stable, so equal ones stay as first seen.
RanksBefore(rankings, d, e) ==
    \/ Score(rankings, d) > Score(rankings, e)
    \/ Score(rankings, d) = Score(rankings, e) /\ SeenBefore(rankings, d, e)

\* The n-th document is the one that n - 1 others come before.
Fuse(rankings) ==
    [n \in 1..Cardinality(Found(rankings)) |->
        CHOOSE d \in Found(rankings) :
            Cardinality({e \in Found(rankings) : RanksBefore(rankings, e, d)}) = n - 1]

First(s, n) == SubSeq(s, 1, Min({n, Len(s)}))

-----------------------------------------------------------------------------
AskHybrid(limit, pool, sparse, reranked) ==
    /\ search = NotSearching
    /\ search' = [phase |-> "retrieving", limit |-> limit, pool |-> pool,
                  sparse |-> sparse, reranked |-> reranked,
                  rankings |-> <<>>, hits |-> <<>>]

Retrievers == IF search.sparse THEN 3 ELSE 2

\* The next retriever's statement: lexical, semantic, learned-sparse.
Retrieve(ranking) ==
    /\ search.phase = "retrieving"
    /\ Len(search.rankings) < Retrievers
    /\ ranking \in Rankings(search.pool)
    /\ search' = [search EXCEPT !.rankings = Append(@, ranking)]

\* What the reranker makes of the candidates: any order, or their own if there is none.
Reranked(candidates) ==
    IF search.reranked
    THEN {r \in [DOMAIN candidates -> ToSet(candidates)] : IsInjective(r)}
    ELSE {candidates}

\* The fused candidates are cut to the pool, reranked, and cut to the limit.
AnswerHybrid ==
    /\ search.phase = "retrieving"
    /\ Len(search.rankings) = Retrievers
    /\ \E ranked \in Reranked(First(Fuse(search.rankings), search.pool)) :
          search' = [search EXCEPT !.phase = "answered", !.hits = First(ranked, search.limit)]
=============================================================================
