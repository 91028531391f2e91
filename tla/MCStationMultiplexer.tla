----------------------- MODULE MCStationMultiplexer -----------------------
(* Small instances of StationMultiplexer for TLC.                          *)
EXTENDS StationMultiplexer, TLC

Interchangeable == Permutations(Clients)
=============================================================================
