------------------------- MODULE MCResourceQueues -------------------------
(* Small instances of ResourceQueues for TLC: the first task runs a job.   *)
EXTENDS ResourceQueues

CONSTANTS T1, J1

RunsJob == [j \in {J1} |-> T1]

Shared(levels) == [lv : levels, ext : {FALSE}]
Plainly == Shared({2, 3})
(* Level 1 with and without the extended bit.                             *)
Extended == [lv : {2}, ext : BOOLEAN]
=============================================================================
