------------------------------ MODULE MCSyncFlow ------------------------------
(* Instances of SyncFlow for TLC: an account with a delta entry, alone or    *)
(* with a full one at twice the interval.                                    *)
EXTENDS SyncFlow, TLC

CONSTANTS w1, w2, a, b

Everything == {"products", "offers"}
DeltaOnly == <<[kind |-> Everything, mode |-> "delta", interval |-> 1]>>
DeltaAndFull == <<[kind |-> Everything, mode |-> "delta", interval |-> 1],
                  [kind |-> Everything, mode |-> "full", interval |-> 2]>>

Symmetry == Permutations(Workers) \cup Permutations(Prices)
=============================================================================
