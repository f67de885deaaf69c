------------------------------- MODULE Gateway -------------------------------
(***************************************************************************)
(* The API gateway (services/api-gateway): which operation needs which     *)
(* scope and goes to which service, the order of the checks a request      *)
(* passes, and the token bucket of each principal.                         *)
(*                                                                         *)
(* A bucket holds tokens in units of which a request costs Cost and a      *)
(* second brings back Rate: a rate below one request a second is a Cost    *)
(* above Rate.                                                             *)
(***************************************************************************)
EXTENDS Naturals, FiniteSets, FiniteSetsExt

CONSTANTS Principals,   \* subjects the gateway knows a token of
          ScopesOf,     \* ScopesOf[p]: the scopes of p's token
          Rate, Cost, Burst

Scopes == {"catalog:read", "offers:read", "prices:read", "matching:curate",
           "search:read", "sync:read", "accounts:financial:read"}

ASSUME GatewayAssumption ==
    /\ ScopesOf \in [Principals -> SUBSET Scopes]
    /\ Rate \in Nat \ {0}
    /\ Cost \in Nat \ {0}
    /\ Burst \in Nat
    /\ Burst >= Cost

VARIABLES buckets,   \* buckets[p]: tokens left when p was last seen
          now        \* seconds

gatewayVars == <<buckets, now>>

BucketTypeOK ==
    /\ buckets \in [Principals -> [tokens : 0..Burst, last : Nat]]
    /\ \A p \in Principals : buckets[p].last <= now
    /\ now \in Nat

\* A principal that was never seen has a full bucket.
GatewayInit ==
    /\ buckets = [p \in Principals |-> [tokens |-> Burst, last |-> 0]]
    /\ now = 0

-----------------------------------------------------------------------------
(* The surface.  operator says that the route passes the principal on as   *)
(* the operator who decides (X-Operator-Id).                               *)

Route(op, service, verb, scope) ==
    [op |-> op, service |-> service, verb |-> verb, scope |-> scope, operator |-> FALSE]

Decides(op) ==
    [op |-> op, service |-> "matching", verb |-> "POST", scope |-> "matching:curate",
     operator |-> TRUE]

CatalogRoutes ==
    {Route(op, "catalog", "GET", "catalog:read") : op \in {"listProducts", "getProduct"}}

OfferRoutes ==
    {Route(op, "offer", "GET", "offers:read") : op \in {"listProductOffers", "getBestOffer"}}

PriceRoutes ==
    {Route(op, "price_history", "GET", "prices:read") :
        op \in {"getOfferPriceHistory", "getOfferPriceStats", "getOfferPriceDaily"}}

SearchRoutes ==
    {Route(op, "search", "POST", "search:read") :
        op \in {"hybridSearch", "canonicalHybridSearch"}}

CanonicalRoutes ==
    {Route(op, "catalog", "GET", "catalog:read") :
        op \in {"listCanonicalProducts", "getCanonicalProduct"}}
    \cup {Decides("mergeCanonicalProducts")}

QueueRoutes ==
    {Route(op, "matching", "GET", "matching:curate") :
        op \in {"getCurationStats", "getCurationQueue", "getCurationDecisions"}}

\* Mutant of DecisionRoutes: one of them does not pass the principal on.
DecisionRoutesAnonymous ==
    {Decides("confirmCurationLink"), Decides("rejectCurationLink"),
     Route("createNewCanonical", "matching", "POST", "matching:curate")}

DecisionRoutes ==
    {Decides(op) : op \in {"confirmCurationLink", "rejectCurationLink", "createNewCanonical"}}

SyncRoutes ==
    {Route("getSyncAccounts", "sync_orchestrator", "GET", "sync:read"),
     Route("triggerSync", "sync_orchestrator", "POST", "sync:read")}

Routes ==
    UNION {CatalogRoutes, OfferRoutes, PriceRoutes, SearchRoutes, CanonicalRoutes,
           QueueRoutes, DecisionRoutes, SyncRoutes}

Operations == {r.op : r \in Routes}

RouteOf == [op \in Operations |-> CHOOSE r \in Routes : r.op = op]

-----------------------------------------------------------------------------
(* The bucket.                                                             *)

Refilled(p) == Min({Burst, buckets[p].tokens + (now - buckets[p].last) * Rate})

Allowed(p) == Refilled(p) >= Cost

\* Mutant of RetryAfter: the seconds rounded down.
RetryAfterFloor(p) == Max({1, (Cost - Refilled(p)) \div Rate})

\* Seconds until a request of p is allowed, when it was not.
RetryAfter(p) == Max({1, (Cost - Refilled(p) + Rate - 1) \div Rate})

\* allow(): the bucket is written back, with the tokens spent if there are enough.
Spend(p) ==
    buckets' = [buckets EXCEPT ![p] =
        [tokens |-> IF Allowed(p) THEN Refilled(p) - Cost ELSE Refilled(p), last |-> now]]

-----------------------------------------------------------------------------
(* The checks, in their order: the token, the scope, and only then the     *)
(* bucket, which a refused request does not touch.                         *)

Authenticated(p) == p \in Principals

Scoped(p, op) == Authenticated(p) /\ RouteOf[op].scope \in ScopesOf[p]

Refuse(p, op) == ~Scoped(p, op) /\ UNCHANGED gatewayVars

Limit(p, op) ==
    /\ Scoped(p, op) /\ ~Allowed(p)
    /\ Spend(p)
    /\ UNCHANGED now

Admit(p, op) ==
    /\ Scoped(p, op) /\ Allowed(p)
    /\ Spend(p)
    /\ UNCHANGED now
=============================================================================
