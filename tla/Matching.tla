------------------------------ MODULE Matching ------------------------------
(***************************************************************************)
(* The matching service at work: discovery handlers and curation requests, *)
(* each a READ COMMITTED transaction that first reads and checks, and      *)
(* later writes what it decided from what it read.  Requests are served    *)
(* concurrently by one asyncio process (api/deps.py: a session each), and  *)
(* the discovery consumer is another process.                              *)
(*                                                                         *)
(* The event id the handler records is left out: EventConsumer is about it *)
(* (and a second handling finds the link anyway).                          *)
(***************************************************************************)
EXTENDS MatchingTables

CONSTANTS Requests,     \* transactions that can be open at a time
          MaxRequests   \* bound: transactions ever begun

ASSUME RequestsAssumption == MaxRequests \in Nat

VARIABLES job,        \* job[s]: what the open transaction s has read
          budget      \* transactions that may still be begun

matchingVars == <<links, canon, emitted, log, job, budget>>

Idle == [op |-> "idle"]

Job ==
    [op : {"link"}, product : Products, gtin : Gtins \cup {NoGtin},
        candidate : Canonicals \cup {NoCanonical}]
    \cup [op : {"confirm", "reject"}, product : Products, canonical : Canonicals]
    \cup [op : {"create"}, product : Products, gtin : Gtins \cup {NoGtin}]
    \cup [op : {"merge"}, target : Canonicals, source : Canonicals]
    \cup [op : {"move"}, target : Canonicals, source : Canonicals,
            moved : SUBSET Products, announce : SUBSET Products]

TypeOK ==
    /\ TablesTypeOK
    /\ job \in [Requests -> Job \cup {Idle}]
    /\ budget \in 0..MaxRequests

Init ==
    /\ TablesInit
    /\ job = [s \in Requests |-> Idle]
    /\ budget = MaxRequests

-----------------------------------------------------------------------------
(* The first half of a transaction: it reads, checks and goes on, or answers *)
(* with an error (404, 409) or a no-op and is over without a trace.          *)

Begin(s, j) ==
    /\ job[s] = Idle
    /\ budget > 0
    /\ budget' = budget - 1
    /\ job' = [job EXCEPT ![s] = j]
    /\ UNCHANGED tables

\* The canonicals a discovered product may be linked to: the carrier of its GTIN,
\* or whichever embedding is nearest; none when there is none, or none near enough.
Candidates(gtin) ==
    IF gtin = NoGtin THEN {c \in Canonicals : Exists(c)} \cup {NoCanonical}
    ELSE IF Carriers(gtin) = {} THEN {NoCanonical} ELSE Carriers(gtin)

BeginDiscover(s, p, gtin) ==
    /\ ~Linked(p)
    /\ \E c \in Candidates(gtin) :
          Begin(s, [op |-> "link", product |-> p, gtin |-> gtin, candidate |-> c])

\* Mutants of BeginConfirm and BeginReject: no 409 for the opposite decision.
BeginConfirmRejected(s, p) ==
    /\ Linked(p)
    /\ links[p].status # "confirmed"
    /\ Begin(s, [op |-> "confirm", product |-> p, canonical |-> links[p].canonical])

BeginRejectConfirmed(s, p) ==
    /\ Linked(p)
    /\ links[p].status # "rejected"
    /\ Begin(s, [op |-> "reject", product |-> p, canonical |-> links[p].canonical])

BeginConfirm(s, p) ==
    /\ Linked(p)
    /\ links[p].status \notin {"rejected", "confirmed"}
    /\ Begin(s, [op |-> "confirm", product |-> p, canonical |-> links[p].canonical])

BeginReject(s, p) ==
    /\ Linked(p)
    /\ links[p].status \notin {"confirmed", "rejected"}
    /\ Begin(s, [op |-> "reject", product |-> p, canonical |-> links[p].canonical])

BeginCreateNew(s, p, gtin) ==
    /\ Linked(p)
    /\ links[p].status # "confirmed"
    /\ GtinFree(gtin)
    /\ Begin(s, [op |-> "create", product |-> p, gtin |-> gtin])

\* The two canonicals are looked up ...
BeginMerge(s, target, source) ==
    /\ target # source
    /\ Exists(target)
    /\ Exists(source)
    /\ Begin(s, [op |-> "merge", target |-> target, source |-> source])

\* ... and then the links of the source.
ReadLinks(s) ==
    /\ job[s].op = "merge"
    /\ LET j == job[s]
           moved == LinksOf(j.source)
       IN  job' = [job EXCEPT ![s] = [op |-> "move", target |-> j.target, source |-> j.source,
                                     moved |-> moved, announce |-> Announced(moved)]]
    /\ UNCHANGED <<links, canon, emitted, log, budget>>

-----------------------------------------------------------------------------
(* The second half: flush and commit.                                       *)

End(s) == job' = [job EXCEPT ![s] = Idle] /\ UNCHANGED budget

CommitDiscover(s) ==
    /\ job[s].op = "link"
    /\ InsertLink(job[s].product, job[s].gtin, job[s].candidate)
    /\ End(s)

CommitConfirm(s) ==
    /\ job[s].op = "confirm"
    /\ WriteConfirm(job[s].product, job[s].canonical)
    /\ End(s)

CommitReject(s) ==
    /\ job[s].op = "reject"
    /\ WriteReject(job[s].product, job[s].canonical)
    /\ End(s)

CommitCreateNew(s) ==
    /\ job[s].op = "create"
    /\ WriteCreateNew(job[s].product, job[s].gtin)
    /\ End(s)

CommitMerge(s) ==
    /\ job[s].op = "move"
    /\ WriteMerge(job[s].target, job[s].source, job[s].moved, job[s].announce)
    /\ End(s)

\* The transaction is rolled back: a constraint refuses the write, the database
\* fails, the process dies, the client is gone.
Rollback(s) ==
    /\ job[s] # Idle
    /\ End(s)
    /\ UNCHANGED tables

Next ==
    \E s \in Requests :
        \/ \E p \in Products :
              \/ BeginConfirm(s, p)
              \/ BeginReject(s, p)
              \/ \E g \in Gtins \cup {NoGtin} : BeginDiscover(s, p, g) \/ BeginCreateNew(s, p, g)
        \/ \E c, d \in Canonicals : BeginMerge(s, c, d)
        \/ ReadLinks(s)
        \/ CommitDiscover(s)
        \/ CommitConfirm(s)
        \/ CommitReject(s)
        \/ CommitCreateNew(s)
        \/ CommitMerge(s)
        \/ Rollback(s)

Spec == Init /\ [][Next]_matchingVars

-----------------------------------------------------------------------------
(* Properties that hold however the transactions interleave.                *)

\* Nothing is announced of a product whose link waits for an operator
\* (handlers.py: "no event is emitted until confirmation"), not even by a merge
\* that read the link before or after it was staged.
PendingIsQuiet ==
    \A p \in Products : links[p].status \in {"none", "pending_review"} => emitted[p] = <<>>

Decided(p, actions) == \E d \in log : d.action \in actions /\ d.product = p

\* A link an operator confirmed or rejected has its entry in the journal, and
\* every announcement but a first, automatic one names a canonical some entry
\* names (decision_log: every confirm, reject, create-new and merge is one row).
DecisionsAreLogged ==
    \A p \in Products :
        /\ links[p].status = "confirmed" =>
              emitted[p] # <<>> /\ Decided(p, {"confirm", "create_new"})
        /\ links[p].status = "rejected" => Decided(p, {"reject"})
        /\ \A i \in DOMAIN emitted[p] :
              i > 1 => \E d \in log : d.action # "reject" /\ d.canonical = emitted[p][i]

\* Two handlers, or a handler and an operator, never make two canonicals of one
\* GTIN, whatever both of them looked up before.
OneCanonicalPerGtin == \A g \in Gtins : Cardinality(Carriers(g)) <= 1

-----------------------------------------------------------------------------
(* Properties that need the transactions to take turns.                     *)

\* A confirmed link stays confirmed (curation.py: "a confirmed link cannot be
\* rejected").
ConfirmedIsFinal ==
    [][\A p \in Products :
          links[p].status = "confirmed" => links'[p].status = "confirmed"]_matchingVars

\* A link names a canonical that exists: a merge leaves none behind on the source
\* (routes.py: "every supplier-product link on the source is repointed to the
\* target, then the source is removed").
LinksHaveCanonical == \A p \in Products : Linked(p) => Exists(links[p].canonical)

\* The last event of a linked product names the canonical it is linked to, so that
\* the catalog ends with the links matching has (routes.py: re-emitted on a merge
\* "so the catalog rebuilds against the target").
AnnouncedIsCurrent ==
    \A p \in Products :
        links[p].status \in {"auto", "confirmed"} =>
            emitted[p] # <<>> /\ emitted[p][Len(emitted[p])] = links[p].canonical

\* One transaction at a time decides on what is, not on what was.
Atomic == INSTANCE Curation

DecidesAtomically == Atomic!Spec
=============================================================================
