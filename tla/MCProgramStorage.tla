------------------------- MODULE MCProgramStorage -------------------------
(***************************************************************************)
(* An ordinary module, two of the transient area and one with a private    *)
(* core of two pages, which inherits nothing.  Cells are interchangeable,  *)
(* and so are the two transients.  The extents of the task work area are   *)
(* two ordinary ones and the one csipl makes.                              *)
(***************************************************************************)
EXTENDS ProgramStorage, TaskWorkArea

CONSTANTS c1, c2, c3, ordinary, overlay, another, private, low, high

MCModules == {ordinary, overlay, another, private}

MCCorePages == [m \in MCModules |-> IF m = private THEN 2 ELSE 1]

MCLoadWindow == [m \in MCModules \cup {Region} |-> IF m = Region THEN high ELSE low]

MCSpaceForms ==
    {[system |-> FALSE, pinned |-> TRUE, mapped |-> FALSE],
     [system |-> TRUE, pinned |-> FALSE, mapped |-> TRUE]}

MCExtents ==
    << [base |-> 1, first |-> 2, sectors |-> 6], [base |-> 3, first |-> 9, sectors |-> 4],
       [base |-> 254, first |-> 14, sectors |-> 2] >>

Interchangeable == Permutations(Cells) \cup Permutations({overlay, another})

(* Work areas and swap areas on the disk: no sector is given twice or      *)
(* lost, runs join, a request is met whenever an extent can meet it, what  *)
(* is given back is blank, and a checkpoint restores what is free.         *)
WorkAreasAreRight == arena.next > 1 => WorkAreasHold
=============================================================================
