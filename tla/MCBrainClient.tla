----------------------------- MODULE MCBrainClient -----------------------------
(* Instances of BrainClient for TLC.                                          *)
EXTENDS BrainClient, TLC

CONSTANTS c1, c2
=============================================================================
