--------------------------- MODULE SavedDataSets ---------------------------
(* What a tape drive promises a procedure that saves and restores data     *)
(* sets: a tape is the list of the data sets saved on it; a save adds one  *)
(* at the end when it is complete and disturbs none before it; a restore   *)
(* that is complete has moved exactly what was saved; what is in the drive *)
(* reaches the host when the tape is unloaded, as a whole.  Of a procedure *)
(* the operator disturbs by moving the tape under it less is promised: its *)
(* save may cost data sets from one on to the end of the tape in the drive *)
(* and its restore may give other blocks; no other tape, nothing the host  *)
(* has and no data set ahead of that one changes, and the procedures after *)
(* it are as good as ever.                                                 *)
EXTENDS Sequences, SequencesExt

CONSTANTS
    Cartridges,
    Fragile,    \* tapes that an interrupted unload, or a write over their
                \* volume label, may cost
    NoTape,
    Lost        \* what a tape that no longer opens holds

VARIABLES
    store,      \* per tape: the data sets on the host, or Lost
    mounted,    \* the tape in the drive
    tape,       \* the data sets on the tape in the drive
    labelled,   \* it still begins with its volume label
    marred,     \* the tapes written at a place the operator chose
    session     \* what the guest is doing and the blocks moved so far

Quiet == [op |-> "none", ds |-> "", blocks |-> <<>>, done |-> FALSE, disturbed |-> FALSE]

Init ==
    /\ \A c \in Cartridges : store[c] # Lost
    /\ mounted = NoTape /\ tape = <<>> /\ labelled = TRUE /\ marred = {} /\ session = Quiet

Moved(final) == [ds |-> session.ds, blocks |-> session.blocks, final |-> final]
Finalized == SelectSeq(tape, LAMBDA saved : saved.final)
Complete == session' = [session EXCEPT !.done = TRUE]
Persisted ==
    IF mounted = NoTape THEN store
    ELSE [store EXCEPT ![mounted] = IF mounted \in Fragile /\ ~labelled THEN Lost ELSE tape]

Begin ==
    /\ session.op = "none" /\ session'.op \in {"save", "restore"}
    /\ session'.blocks = <<>> /\ ~session'.done /\ ~session'.disturbed
    /\ UNCHANGED <<store, mounted, tape>>

Transfer ==
    /\ session.op \in {"save", "restore"} /\ ~session.done
    /\ session # session' /\ session' = [session EXCEPT !.blocks = session'.blocks]
    /\ IsPrefix(session.blocks, session'.blocks)
    /\ UNCHANGED <<store, mounted, tape>>

(* A save starts behind the last finalized data set; it takes the volume   *)
(* label of a tape that was cut off right behind it for an unfinished file.*)
Reclaim ==
    /\ session.op = "save" /\ ~session.done /\ UNCHANGED <<mounted, session>>
    /\ tape' = Finalized /\ UNCHANGED store
    /\ UNCHANGED labelled \/ (mounted \in marred /\ Finalized = <<>>)

Save ==
    /\ session.op = "save" /\ ~session.done /\ Complete
    /\ mounted # NoTape /\ tape' = Append(tape, Moved(FALSE))
    /\ UNCHANGED <<store, mounted>>

Finalize ==
    /\ session.op = "save" /\ session.done /\ UNCHANGED <<mounted, session>>
    /\ tape # <<>> /\ tape' = [tape EXCEPT ![Len(tape)].final = TRUE] /\ UNCHANGED store

Restore ==
    /\ session.op = "restore" /\ ~session.done /\ Complete
    /\ \/ session.disturbed
       \/ \E final \in BOOLEAN : Contains(tape, Moved(final))
    /\ UNCHANGED <<store, mounted, tape>>

(* What a write at some place of the tape leaves of it: the data sets that *)
(* end before the place, the last of them closed by another file or not;   *)
(* at load point not even the volume label.                                *)
Kept(n, final) ==
    IF n = 0 THEN <<>> ELSE [SubSeq(tape, 1, n) EXCEPT ![n].final = final]
Remnants == {Kept(n, final) : n \in 0..Len(tape), final \in BOOLEAN}

(* The operator moves the tape under the procedure in progress.            *)
Disturb ==
    /\ session.op # "none" /\ session' = [session EXCEPT !.disturbed = TRUE]
    /\ UNCHANGED <<store, mounted, tape>>

(* The operator writes a tape mark where the head is.                      *)
WriteMark ==
    /\ session' = IF session.op = "none" THEN session ELSE [session EXCEPT !.disturbed = TRUE]
    /\ mounted # NoTape /\ tape' \in Remnants /\ labelled' \in {labelled, tape' # <<>>}
    /\ UNCHANGED <<store, mounted>>

(* A disturbed save writes where the head was left.                        *)
Spoil ==
    /\ session.op = "save" /\ session.disturbed
    /\ session' = [session EXCEPT !.blocks = session'.blocks, !.done = session'.done]
    /\ IsPrefix(session.blocks, session'.blocks) /\ (session.done => session'.done)
    /\ \/ tape' \in Remnants
       \/ /\ tape' # <<>> /\ Last(tape').ds = session.ds
          /\ Front(tape') \in Remnants
    /\ labelled' \in {labelled, tape' # <<>>}
    /\ UNCHANGED <<store, mounted>>

Erase ==
    /\ session.op = "none" /\ session'.op = "init" /\ session'.done
    /\ mounted # NoTape /\ tape' = <<>> /\ labelled' = TRUE
    /\ UNCHANGED <<store, mounted>>

(* The procedure ends, by its own unload or otherwise.                     *)
Leave ==
    /\ session.op # "none" /\ session' = Quiet
    /\ UNCHANGED <<mounted, tape>>
    /\ store' \in {store, Persisted}

(* A save whose tape is exchanged between two of its writes goes on.       *)
Mount(c) ==
    /\ mounted' = c
    /\ \/ UNCHANGED session
       \/ session.op = "save" /\ session' = [session EXCEPT !.disturbed = TRUE]
    /\ store[c] # Lost /\ store' = Persisted /\ tape' = store'[c] /\ labelled' = TRUE

Unmount ==
    /\ mounted # NoTape /\ mounted' = NoTape /\ UNCHANGED session
    /\ tape' = <<>> /\ labelled' = TRUE /\ store' = Persisted

Format(c) ==
    /\ c # mounted /\ UNCHANGED <<mounted, session>>
    /\ store' = [store EXCEPT ![c] = <<>>] /\ UNCHANGED tape

(* A new machine starts from what the host has.                            *)
Restart(c) ==
    /\ mounted' = c
    /\ \/ session' = Quiet
       \/ /\ session'.op = "restore" /\ session'.blocks = <<>>
          /\ ~session'.done /\ ~session'.disturbed
    /\ store[c] # Lost /\ tape' = store[c] /\ labelled' = TRUE /\ UNCHANGED store

(* The simulator ends, perhaps in the middle of an unload.                 *)
End ==
    /\ mounted' = NoTape /\ tape' = <<>> /\ labelled' = TRUE /\ session' = Quiet
    /\ \/ store' \in {store, Persisted}
       \/ mounted \in Fragile /\ store' = [store EXCEPT ![mounted] = Lost]

Next ==
    \/ /\ \/ Begin \/ Transfer \/ Save \/ Finalize \/ Restore \/ Leave \/ Disturb
          \/ \E c \in Cartridges : Format(c)
       /\ UNCHANGED <<labelled, marred>>
    \/ /\ \/ Reclaim \/ Erase \/ Unmount \/ End
          \/ \E c \in Cartridges : Mount(c) \/ Restart(c)
       /\ UNCHANGED marred
    \/ marred' = marred \cup {mounted} /\ (WriteMark \/ Spoil)
    \/ UNCHANGED marred /\ Spoil

Spec == Init /\ [][Next]_<<store, mounted, tape, labelled, marred, session>>
=============================================================================
