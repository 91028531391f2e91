---------------------------- MODULE MCTapeDrive ----------------------------
(* Small instances of TapeDrive for TLC: a folder tape, blank at first,    *)
(* and a SIMH tape that carries the IPL data set with its two labels.      *)
EXTENDS TapeDrive

IplItems ==
    <<Volume("v1"), Block("HDR1", IplDataSet), Block("HDR2", ""), Mark,
      Data("b1"), Data("b2"), Mark,
      Block("EOF1", IplDataSet), Block("EOF2", ""), Mark, Mark>>

MCInitialItems == [c \in Cartridges |-> IF c = "folder" THEN BlankTape("v1") ELSE IplItems]

MCSpaceCounts == {-1}

(* One of the two is mounted read-only.                                    *)
MCProtectedSets == {{c} : c \in Cartridges}
=============================================================================
