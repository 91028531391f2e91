-------------------------- MODULE MCTaskDispatcher --------------------------
(* Model checking of TaskDispatcher: the command task and two of lower     *)
(* priority, one of them with a bias.  What the tasks run are the          *)
(* instructions of MspInstructions and the programs of BasicAssist.        *)
EXTENDS TaskDispatcher, MspInstructions, BasicAssist

CONSTANTS t9, t2, t3, signal, own

MCTasks == {t9, t2, t3}
MCTwo == {t9, t2}

MCInitialPriority == [t \in Tasks |-> IF t = t9 THEN 8 ELSE 4]
MCBias == [t \in Tasks |-> IF t = t2 THEN 1 ELSE 0]

(* The processor computes what its instructions are for, at the edges of   *)
(* their fields (MainStorageProcessor.cpp): binary and decimal results and *)
(* their conditions are those of whole numbers, A and S, L and ST undo     *)
(* each other, a condition and its opposite exclude each other, and an     *)
(* instruction that is cut off changes no condition and no register.       *)
InstructionsAreRight == current # None => InstructionsHold

(* A BASIC program does what it says (BasicAssist.cpp): its numbers are    *)
(* rounded once and rightly, loops, subroutines and conditions go on where *)
(* they ought to whatever the length of a burst and whether a transfer is  *)
(* cached, array elements lie apart, strings keep to their capacity, and   *)
(* the stack stays in its bounds.                                          *)
BasicIsRight == current # None => BasicHolds
=============================================================================
