------------------------------ MODULE Curation ------------------------------
(***************************************************************************)
(* What the matching service promises its operators: every decision is     *)
(* taken on the links and canonicals as they are, at one instant.          *)
(***************************************************************************)
EXTENDS MatchingTables

Init == TablesInit

\* A product is discovered: it is linked by its GTIN, or to a suggestion.
Discover(p, gtin) ==
    \/ gtin # NoGtin /\ \E c \in Carriers(gtin) : InsertLink(p, gtin, c)
    \/ gtin = NoGtin /\ \E c \in Canonicals : Exists(c) /\ InsertLink(p, gtin, c)
    \/ InsertLink(p, gtin, NoCanonical)

Confirm(p) ==
    /\ links[p].status \in {"auto", "pending_review"}
    /\ WriteConfirm(p, links[p].canonical)

Reject(p) ==
    /\ links[p].status \in {"auto", "pending_review"}
    /\ WriteReject(p, links[p].canonical)

CreateNew(p, gtin) ==
    /\ Linked(p)
    /\ links[p].status # "confirmed"
    /\ WriteCreateNew(p, gtin)

Merge(target, source) ==
    /\ target # source
    /\ Exists(target)
    /\ Exists(source)
    /\ WriteMerge(target, source, LinksOf(source), Announced(LinksOf(source)))

Next ==
    \/ \E p \in Products :
          \/ Confirm(p)
          \/ Reject(p)
          \/ \E g \in Gtins \cup {NoGtin} : Discover(p, g) \/ CreateNew(p, g)
    \/ \E c, d \in Canonicals : Merge(c, d)

Spec == Init /\ [][Next]_tables
=============================================================================
