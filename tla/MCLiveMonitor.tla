--------------------------- MODULE MCLiveMonitor ---------------------------
(* Small instances of LiveMonitor for TLC.                                 *)
EXTENDS LiveMonitor
=============================================================================
