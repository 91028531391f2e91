---------------------- MODULE MCActionControlElements ----------------------
(* Small instances of ActionControlElements for TLC.                       *)
EXTENDS ActionControlElements
=============================================================================
