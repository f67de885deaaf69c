--------------------------- MODULE MCCurationDesk ---------------------------
(***************************************************************************)
(* Small desks for TLC.                                                    *)
(***************************************************************************)
EXTENDS CurationDesk, TLC

CONSTANTS o1, o2, nobody, t1, t2

\* Two operators who may curate and look at products, and nothing else.
Granted == [p \in {o1, o2} |-> {"matching:curate", "catalog:read"}]

Symmetry == Permutations({o1, o2}) \cup Permutations({t1, t2})
=============================================================================
