---------------------------- MODULE MCStationInput ----------------------------
(* StationInput with interchangeable clients.                              *)
EXTENDS StationInput, TLC

Interchangeable == Permutations(Clients)
=============================================================================
