---------------------------- MODULE MCCatalogFlow ----------------------------
(* Instances of CatalogFlow for TLC.                                        *)
EXTENDS CatalogFlow, TLC

CONSTANTS p1, p2, g1

Symmetry == Permutations(Products)
=============================================================================
