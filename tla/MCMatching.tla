----------------------------- MODULE MCMatching -----------------------------
(* Instances of Matching for TLC.                                           *)
EXTENDS Matching, TLC

CONSTANTS p1, p2, g1, s1, s2

Symmetry == Permutations(Products) \cup Permutations(Requests)
=============================================================================
