------------------------- MODULE MCMachineSnapshot -------------------------
(***************************************************************************)
(* Two diskettes, three kinds of retained operations; the smallest images  *)
(* of the geometries the probe knows, and a volume of two sectors with two *)
(* keys each.                                                              *)
(***************************************************************************)
EXTENDS MachineSnapshot, TLC

CONSTANTS A, B

MCGeometries ==
    {[label |-> l, bytes |-> b, sectors |-> SectorsFor(b),
      heads |-> IF b = 128 THEN 1 ELSE 2, cylinders |-> 4] :
        l \in {128, 256}, b \in {128, 256, 512, 1024}}

Keys == [1 .. 2 -> 0 .. 2]

(* Volumes whose four keys ascend.                                         *)
MCVolumes ==
    {<<k[1] \o k[2], k[3] \o k[4]>> :
        k \in {k \in [1 .. 4 -> Keys] : \A i \in 1 .. 3 : Number(k[i]) <= Number(k[i + 1])}}

Request(command, modifier, sector, count) ==
    [command |-> command, modifier |-> modifier, sector |-> sector, count |-> count,
     fill |-> 1, buffer |-> << <<2, 2, 2, 2>>, <<0, 1, 2, 0>>, <<1, 1, 1, 1>> >>,
     argument |-> <<0, 0>>, first |-> 0, last |-> 2, gap |-> 0]

MCSearches ==
    {[Request("scan", "high or equal", 1, 2) EXCEPT !.argument = k] : k \in Keys}

MCTransfers ==
    {Request("write", m, s, n) : m \in {"fill", "wrap", "buffer"}, s \in 0 .. 3, n \in 1 .. 3}

(* The properties of writes, of operations and of the display each have a  *)
(* workload that stirs them.                                               *)
MCWorkloads ==
    {<<"diskette", {"diskettes"}>>, <<"disk", {"operations", "diskettes"}>>,
     <<"disk", {"client"}>>}

Interchangeable == Permutations({A, B})
=============================================================================
