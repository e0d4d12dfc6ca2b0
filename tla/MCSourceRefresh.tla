--------------------------- MODULE MCSourceRefresh ---------------------------
(* Instances of SourceRefresh for TLC: two subscriptions. *)
EXTENDS SourceRefresh

CONSTANTS s1, s2
==============================================================================
