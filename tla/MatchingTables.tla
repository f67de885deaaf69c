--------------------------- MODULE MatchingTables ---------------------------
(***************************************************************************)
(* The tables of the matching service and what its transactions write to   *)
(* them (services/matching: adapters/repository.py and the write halves of *)
(* events/handlers.py, api/curation.py and api/routes.py).                 *)
(*                                                                         *)
(* Every operator here is the committed effect of one transaction.  There  *)
(* are no foreign keys and no version columns: an UPDATE sets the columns  *)
(* the transaction changed, whatever the row has become since it was read. *)
(* Of a canonical product only its status and GTIN matter, of a link the   *)
(* canonical it names and its status.                                      *)
(***************************************************************************)
EXTENDS Naturals, Sequences, FiniteSets

CONSTANTS Products,       \* supplier product ids
          Gtins,          \* GTINs a product or an operator may bring
          NoGtin,         \* no GTIN
          MaxCanonicals   \* bound: canonical products ever created

ASSUME TablesAssumption ==
    /\ NoGtin \notin Gtins
    /\ MaxCanonicals \in Nat

VARIABLES links,      \* links[p]: the row of product_link for p
          canon,      \* canon[c]: the row of canonical_product for c
          emitted,    \* emitted[p]: canonicals of p's link.confirmed events, in order
          log         \* the decision log

tables == <<links, canon, emitted, log>>

Canonicals == 1..MaxCanonicals

NoCanonical == 0

LinkStatus == {"auto", "pending_review", "confirmed", "rejected"}

Link == [canonical : Canonicals, status : LinkStatus]

NoLink == [canonical |-> NoCanonical, status |-> "none"]

CanonicalRow ==
    [status : {"unborn", "draft", "confirmed", "gone"}, gtin : Gtins \cup {NoGtin}]

Decision ==
    [action : {"confirm", "reject", "create_new"}, product : Products, canonical : Canonicals]
        \cup [action : {"merge"}, canonical : Canonicals]

TablesTypeOK ==
    /\ links \in [Products -> Link \cup {NoLink}]
    /\ canon \in [Canonicals -> CanonicalRow]
    /\ emitted \in [Products -> Seq(Canonicals)]
    /\ log \in SUBSET Decision

TablesInit ==
    /\ links = [p \in Products |-> NoLink]
    /\ canon = [c \in Canonicals |-> [status |-> "unborn", gtin |-> NoGtin]]
    /\ emitted = [p \in Products |-> <<>>]
    /\ log = {}

-----------------------------------------------------------------------------
Linked(p) == links[p].status # "none"

Exists(c) == canon[c].status \in {"draft", "confirmed"}

\* find_canonical_by_gtin: the canonicals that carry g.
Carriers(g) == {c \in Canonicals : Exists(c) /\ canon[c].gtin = g}

\* The unique constraint on canonical_product.gtin admits one more row with g.
GtinFree(g) == g = NoGtin \/ Carriers(g) = {}

\* Ids are ULIDs minted in order.
IsFresh(c) ==
    /\ canon[c].status = "unborn"
    /\ \A d \in Canonicals : d < c => canon[d].status # "unborn"

\* links_for_canonical.
LinksOf(c) == {p \in Products : Linked(p) /\ links[p].canonical = c}

\* Mutant of Announced: a merge re-emits for every link it moves.
AnnouncedAll(S) == S

\* _EMITTED_STATUSES: the links of the products S that were announced already.
Announced(S) == {p \in S : links[p].status \in {"auto", "confirmed"}}

-----------------------------------------------------------------------------
\* Mutant of CreateCanonical: no unique constraint on the GTIN.
CreateCanonicalUnchecked(c, status, gtin) ==
    /\ IsFresh(c)
    /\ canon' = [canon EXCEPT ![c] = [status |-> status, gtin |-> gtin]]

CreateCanonical(c, status, gtin) ==
    /\ GtinFree(gtin)
    /\ IsFresh(c)
    /\ canon' = [canon EXCEPT ![c] = [status |-> status, gtin |-> gtin]]

\* The event names the canonical c.
Announce(p, c) == emitted' = [emitted EXCEPT ![p] = Append(@, c)]

RecordDecision(action, p, c) ==
    log' = log \cup {[action |-> action, product |-> p, canonical |-> c]}

\* The discovery handler inserts p's link (primary key: there is none yet).
\* candidate is the canonical it found: with a GTIN the link is automatic and
\* announced, without one it waits for an operator.
InsertLink(p, gtin, candidate) ==
    /\ ~Linked(p)
    /\ \E c \in Canonicals :
          /\ IF candidate = NoCanonical
             THEN CreateCanonical(c, IF gtin = NoGtin THEN "draft" ELSE "confirmed", gtin)
             ELSE c = candidate /\ UNCHANGED canon
          /\ links' = [links EXCEPT ![p] =
                [canonical |-> c, status |-> IF gtin = NoGtin THEN "pending_review" ELSE "auto"]]
          /\ IF gtin = NoGtin THEN UNCHANGED emitted ELSE Announce(p, c)
    /\ UNCHANGED log

\* confirm_link: c is the canonical of the link as it was read.
WriteConfirm(p, c) ==
    /\ links' = [links EXCEPT ![p].status = "confirmed"]
    /\ canon' = IF canon[c].status = "draft"
                THEN [canon EXCEPT ![c].status = "confirmed"] ELSE canon
    /\ RecordDecision("confirm", p, c)
    /\ Announce(p, c)

\* reject_link.
WriteReject(p, c) ==
    /\ links' = [links EXCEPT ![p].status = "rejected"]
    /\ RecordDecision("reject", p, c)
    /\ UNCHANGED <<canon, emitted>>

\* Mutant of WriteCreateNew: the event names the candidate that was refused.
WriteCreateNewStale(p, gtin) ==
    \E c \in Canonicals :
        /\ CreateCanonical(c, "confirmed", gtin)
        /\ links' = [links EXCEPT ![p] = [canonical |-> c, status |-> "confirmed"]]
        /\ RecordDecision("create_new", p, c)
        /\ Announce(p, links[p].canonical)

\* create_new_canonical.
WriteCreateNew(p, gtin) ==
    \E c \in Canonicals :
        /\ CreateCanonical(c, "confirmed", gtin)
        /\ links' = [links EXCEPT ![p] = [canonical |-> c, status |-> "confirmed"]]
        /\ RecordDecision("create_new", p, c)
        /\ Announce(p, c)

\* Mutants of WriteMerge: links not announced stay; the merge is not logged.
WriteMergeAnnounced(target, source, moved, announce) ==
    /\ links' = [p \in Products |->
          IF p \in announce THEN [links[p] EXCEPT !.canonical = target] ELSE links[p]]
    /\ emitted' = [p \in Products |->
          IF p \in announce THEN Append(emitted[p], target) ELSE emitted[p]]
    /\ canon' = [canon EXCEPT ![source].status = "gone"]
    /\ log' = log \cup {[action |-> "merge", canonical |-> target]}

WriteMergeUnlogged(target, source, moved, announce) ==
    /\ links' = [p \in Products |->
          IF p \in moved THEN [links[p] EXCEPT !.canonical = target] ELSE links[p]]
    /\ emitted' = [p \in Products |->
          IF p \in announce THEN Append(emitted[p], target) ELSE emitted[p]]
    /\ canon' = [canon EXCEPT ![source].status = "gone"]
    /\ UNCHANGED log

\* merge_canonical_products: moved are the links it read on the source, announce
\* those of them that were announced before.  Deleting a row that is gone already
\* is no error.
WriteMerge(target, source, moved, announce) ==
    /\ links' = [p \in Products |->
          IF p \in moved THEN [links[p] EXCEPT !.canonical = target] ELSE links[p]]
    /\ emitted' = [p \in Products |->
          IF p \in announce THEN Append(emitted[p], target) ELSE emitted[p]]
    /\ canon' = [canon EXCEPT ![source].status = "gone"]
    /\ log' = log \cup {[action |-> "merge", canonical |-> target]}
=============================================================================
