----------------------------- MODULE PriceReads -----------------------------
(***************************************************************************)
(* The statistics of an offer's prices (services/price-history), for a     *)
(* whole range or day by day.  They are two statements, each of which sees *)
(* what is committed by then: the aggregate first, the last price after    *)
(* it.                                                                     *)
(***************************************************************************)
EXTENDS Integers, FiniteSets, FiniteSetsExt

CONSTANTS Moments,    \* bound: times of price points, numbers
          DayLength

ASSUME PriceReadsAssumption ==
    /\ Moments \subseteq Nat
    /\ IsFiniteSet(Moments)
    /\ DayLength \in Nat \ {0}

VARIABLES points,   \* the times of the offer's points
          stats     \* the request being answered

priceReadVars == <<points, stats>>

\* daily: a bucket for each day, or one for all.  counted and last are by bucket.
NotAsked == [phase |-> "not asked"]

Day(t) == t \div DayLength

Days == {Day(t) : t \in Moments}

Buckets(daily) == IF daily THEN Days ELSE {0}

InBucket(daily, b, t) == daily => Day(t) = b

None == -1

Requests(daily) ==
    [phase : {"asked", "counted", "answered"}, daily : {daily},
     from : Moments, to : Moments,
     counted : [Buckets(daily) -> SUBSET Moments],
     last : [Buckets(daily) -> Moments \cup {None}]]

PriceReadsTypeOK ==
    /\ points \in SUBSET Moments
    /\ stats = NotAsked \/ \E daily \in BOOLEAN : stats \in Requests(daily)

PriceReadsInit ==
    /\ points \in SUBSET Moments
    /\ stats = NotAsked

-----------------------------------------------------------------------------
\* _apply_range: both ends belong to it.
InRange(S) == {t \in S : stats.from <= t /\ t <= stats.to}

AskStats(daily, from, to) ==
    /\ stats = NotAsked
    /\ stats' = [phase |-> "asked", daily |-> daily, from |-> from, to |-> to,
                 counted |-> [b \in Buckets(daily) |-> {}],
                 last |-> [b \in Buckets(daily) |-> None]]
    /\ UNCHANGED points

\* The points a bucket's count, least, greatest and average price are made of.
Grouped == [b \in Buckets(stats.daily) |->
    {t \in InRange(points) : InBucket(stats.daily, b, t)}]

Latest == [b \in Buckets(stats.daily) |->
    IF Grouped[b] = {} THEN None ELSE Max(Grouped[b])]

Aggregate ==
    /\ stats.phase = "asked"
    /\ stats' = [stats EXCEPT !.phase = "counted", !.counted = Grouped]
    /\ UNCHANGED points

\* Mutant of LastPrice: the order is not reversed.
LastPriceAscending ==
    /\ stats.phase = "counted"
    /\ stats' = [stats EXCEPT !.phase = "answered",
          !.last = [b \in Buckets(stats.daily) |->
              IF Grouped[b] = {} THEN None ELSE Min(Grouped[b])]]
    /\ UNCHANGED points

LastPrice ==
    /\ stats.phase = "counted"
    /\ stats' = [stats EXCEPT !.phase = "answered", !.last = Latest]
    /\ UNCHANGED points

\* A point is appended meanwhile, of any time: replayed events are late.
AppendPoint(t) ==
    /\ stats.phase \in {"asked", "counted"}
    /\ t \in Moments \ points
    /\ points' = points \cup {t}
    /\ UNCHANGED stats
=============================================================================
