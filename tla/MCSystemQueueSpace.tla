------------------------- MODULE MCSystemQueueSpace -------------------------
(* Small instances of SystemQueueSpace for TLC: three size classes.        *)
EXTENDS SystemQueueSpace
=============================================================================
