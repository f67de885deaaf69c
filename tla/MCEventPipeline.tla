--------------------------- MODULE MCEventPipeline ---------------------------
(* Instances of EventPipeline for TLC.                                      *)
EXTENDS EventPipeline, TLC

CONSTANTS e1, e2, e3, r1, r2, c1, c2
=============================================================================
