----------------------------- MODULE TapeDrive -----------------------------
(* The tape drive (VirtualTape): the commands a guest issues through       *)
(* SVC 46, the cartridge in the drive, and what the two kinds of host      *)
(* representation keep on disk.  The guest's procedures (save a data set,  *)
(* restore one, initialise a tape, reload from an IPL tape) issue one      *)
(* command at a time and go by its completion code; between two commands   *)
(* the operator may list, mount, unload, move or mark the tape, the job    *)
(* may be cancelled and the simulator may end.                             *)
EXTENDS TapeMedium

CONSTANTS
    Cartridges,     \* the tapes, one host path each
    FolderTapes,    \* those kept as a folder; the others are SIMH files
    NoTape,         \* no cartridge in the drive
    Lost,           \* what a tape that no longer opens holds
    InitialItems,   \* what each tape holds at first
    DataSets,       \* the names the guest saves data sets under
    IplDataSet,     \* the data set an IPL tape starts with
    Blocks,         \* the contents of a data block
    VolumeIds,      \* the volume serials TAPEINIT writes
    MaxBlocks,      \* bound: blocks of one data set the guest saves
    MaxRead,        \* bound: blocks a restore accepts
    MaxItems,       \* bound: items on a tape
    SpaceCounts,    \* bound: how far the operator spaces
    MaxBroken,      \* bound: saves broken off between two of their writes,
                    \* procedures the operator moves or exchanges the tape
                    \* under, and tape marks the operator writes
    ProtectedSets,  \* bound: which tapes may be the ones mounted read-only
    OperatorWaits   \* the operator initialises no tape that is in the
                    \* drive, mounts it no second time while it has pending
                    \* writes, and starts no machine again over it

ASSUME TapeConstants ==
    /\ FolderTapes \subseteq Cartridges
    /\ NoTape \notin Cartridges
    /\ IplDataSet \notin DataSets
    /\ {MaxBlocks, MaxRead, MaxItems} \subseteq Nat
    /\ OperatorWaits \in BOOLEAN

VARIABLES
    drive,      \* the drive and the image of the cartridge in it
    folder,     \* per folder tape: manifest and blobs on disk
    tap,        \* per SIMH tape: the records of the file on disk
    guest,      \* the procedure the guest runs, what it has moved, and
                \* whether the operator has moved the tape under it
    marred,     \* history: the tapes the operator has marked, or a procedure
                \* has written after the operator moved the tape under it
    protected,  \* bound: the tapes that are always mounted read-only
    broken      \* bound: see MaxBroken

bounds == <<protected, broken>>
vars == <<drive, folder, tap, guest, marred, bounds>>

-----------------------------------------------------------------------------
(* Labels.  The first label of a group carries the data set's name.        *)

HeaderKinds == <<"HDR1", "HDR2", "UHL1", "UHL2">>
TrailerOf == [HDR1 |-> "EOF1", HDR2 |-> "EOF2", UHL1 |-> "UTL1", UHL2 |-> "UTL2"]
Data(b) == Block("data", b)
Volume(v) == Block("VOL1", v)
HeaderGroup(ds) ==
    [n \in 1..4 |-> Block(HeaderKinds[n], IF n = 1 THEN ds ELSE "")]
TrailerGroup(headers) ==
    [n \in DOMAIN headers |-> Block(TrailerOf[headers[n].kind], headers[n].name)]

(* A fresh volume: VOL1 and two tape marks.                                *)
BlankTape(v) == <<Volume(v), Mark, Mark>>

-----------------------------------------------------------------------------
(* The host's copies of a tape.                                            *)

Missing == <<Block("missing", "")>>

(* How the manifest describes a tape file: a file of labels by what they   *)
(* say, any other by the number of its blocks.                             *)
KnownLabels == {"VOL1", "HDR1", "HDR2", "EOF1", "EOF2"}
Described(file) ==
    IF file # <<>> /\ file # Missing /\ file[1].kind \in KnownLabels
    THEN file
    ELSE [n \in DOMAIN file |-> Block(IF file = Missing THEN "missing" ELSE "data", "")]

FolderOf(v, items) ==
    LET files == TapeFiles(items)
    IN [volume   |-> v,
        manifest |-> [n \in DOMAIN files |-> Described(files[n])],
        blobs    |-> files]

Unreadable == [volume |-> "", manifest |-> <<Missing>>, blobs |-> <<>>]

(* FolderTapeBackend::open and validateTapeFolder.                         *)
FolderOpens(f) ==
    /\ \A n \in DOMAIN f.manifest :
          n \in DOMAIN f.blobs /\ f.manifest[n] = Described(f.blobs[n]) /\ f.blobs[n] # Missing
    /\ f.manifest # <<>>
    /\ f.blobs[1] # <<>> /\ f.blobs[1][1] = Volume(f.volume)

(* FolderTapeBackend::load: one tape mark closes every file.               *)
FolderItems(f) == FlattenSeq([n \in DOMAIN f.manifest |-> f.blobs[n] \o <<Mark>>])

Opens(c) == c \in FolderTapes => FolderOpens(folder[c])
ItemsOn(c) == IF c \in FolderTapes THEN FolderItems(folder[c]) ELSE tap[c]

Ready(d) == d.mounted # NoTape /\ d.loaded

(* flush: a folder keeps the volume its manifest names.                    *)
Pending(d) == Ready(d) /\ d.dirty
FlushedFolder(d) ==
    IF Pending(d) /\ d.mounted \in FolderTapes
    THEN [folder EXCEPT ![d.mounted] = FolderOf(@.volume, d.items)]
    ELSE folder
FlushedTap(d) ==
    IF Pending(d) /\ d.mounted \notin FolderTapes
    THEN [tap EXCEPT ![d.mounted] = d.items]
    ELSE tap

(* What a process that ends inside a flush leaves.  A SIMH file is         *)
(* replaced as a whole.  In a folder the blobs are removed one by one, in  *)
(* the order of the directory, the new ones renamed one by one, and the    *)
(* manifest is rewritten last.                                             *)
InterruptedFolders(f, new) ==
    {f, new}
    \cup {[f EXCEPT !.blobs = [n \in DOMAIN f.blobs |-> IF n \in gone THEN Missing ELSE f.blobs[n]]] :
            gone \in SUBSET DOMAIN f.blobs}
    \cup {[f EXCEPT !.blobs = SubSeq(new.blobs, 1, n)] : n \in DOMAIN new.blobs}
    \cup {Unreadable}

-----------------------------------------------------------------------------
(* Commands.  Each gives the drive as it leaves it, the completion code    *)
(* and the blocks moved to the guest.                                      *)

Ok == 0
EndOfDataSet == 2
Error == 4
EndOfFile == 5

(* The block read last: only an HDR1 is ever looked at again.              *)
NoLabel == Block("none", "")
Latest(block) == IF block.kind = "HDR1" THEN block ELSE NoLabel

Answer(d, code, got) == [drive |-> d, code |-> code, got |-> got]

(* No session is left: no labels retained, no reload under way.            *)
SessionClosed(d) == [d EXCEPT !.active = <<>>, !.reload = FALSE]

(* Mutant: a write is not remembered.                                      *)
Wrote_Forgotten(d, place, written) ==
    [d EXCEPT !.items = Overwritten(d.items, place, written),
              !.head = place + Len(written)]

(* Items written at a place, everything ahead of it erased.                *)
Wrote(d, place, written) ==
    [d EXCEPT !.items = Overwritten(d.items, place, written),
              !.head = place + Len(written),
              !.dirty = TRUE]

(* 12: VOL1 at load point and two marks.                                   *)
InitializeStandard(d, v) ==
    LET rewound == [SessionClosed(d) EXCEPT !.head = 0]
    IN IF d.readOnly
       THEN Answer(rewound, Error, <<>>)
       ELSE Answer([Wrote(rewound, 0, BlankTape(v)) EXCEPT !.head = 0], Ok, <<>>)

(* 13 modifier 03: rewind and return VOL1.                                 *)
ReadVolumeLabels(d) ==
    LET rewound == [SessionClosed(d) EXCEPT !.head = Advanced(d.items, 0)]
    IN IF d.items # <<>> /\ d.items[1].kind = "VOL1"
       THEN Answer([rewound EXCEPT !.last = NoLabel], Ok, <<d.items[1]>>)
       ELSE Answer(rewound, Error, <<>>)

(* 16: find a data set and stand on its first data block.  What was        *)
(* matched counts once a mark closes the labels.                           *)
FindDataSet(d, ds) ==
    LET hits  == {i \in DOMAIN d.items : d.items[i] = Block("HDR1", ds)}
        hit   == Min(hits)
        mark  == EndOf(d.items, hit)
        group == SubSeq(d.items, hit, mark - 1)
        blocks == {i \in DOMAIN d.items : ~IsMark(d.items[i])}
        found == hits # {} /\ mark <= Len(d.items)
    IN IF found
       THEN LET there == [d EXCEPT !.head = mark, !.last = Latest(d.items[mark - 1]), !.reload = FALSE]
            IN IF Len(group) > 6 THEN Answer(there, Error, <<>>)
               ELSE Answer([there EXCEPT !.active = group], Ok, <<>>)
       ELSE Answer([d EXCEPT !.head = Len(d.items), !.reload = FALSE,
                             !.last = IF blocks = {} THEN @ ELSE Latest(d.items[Max(blocks)])],
                   EndOfFile, <<>>)

(* 14: back over the mark the head stands behind, then the four labels and *)
(* the mark that closes them.                                              *)
WriteHeaderLabels(d, ds) ==
    LET back == SpaceFiles(d.items, d.head, -1)
    IN IF d.readOnly \/ back.spaced # 1
       THEN Answer(d, Error, <<>>)
       ELSE Answer([Wrote(d, back.head, HeaderGroup(ds) \o <<Mark>>) EXCEPT
                       !.active = HeaderGroup(ds), !.reload = FALSE],
                   Ok, <<>>)

(* 18 and 21: one block at the head, whatever stands there.                *)
WriteData(d, b) ==
    IF d.readOnly THEN Answer(d, Error, <<>>)
    ELSE Answer(Wrote(d, d.head, <<Data(b)>>), Ok, <<>>)

(* How many of the labels ahead are the expected ones.                     *)
Agreeing(ahead, expected) ==
    Max({n \in 0..Min({Len(expected), Len(ahead)}) :
            SubSeq(ahead, 1, n) = SubSeq(expected, 1, n)})

(* 19, reading: HDR1 has been read; accept the labels behind it.           *)
AcceptHeaders(d) ==
    LET ahead == [k \in 1..(Len(d.items) - d.head) |-> d.items[d.head + k].kind]
        n    == Agreeing(ahead, <<"HDR2", "UHL1", "UHL2">>)
        past == Advanced(d.items, d.head + n)
        last == IF n = 0 THEN d.last ELSE NoLabel
    IN IF ReadResult(d.items, d.head + n) = "TapeMark" /\ n \in {1, 3}
       THEN Answer([d EXCEPT !.head = past, !.last = last,
                             !.active = <<d.last>> \o SubSeq(d.items, d.head + 1, d.head + n)],
                   Ok, <<>>)
       ELSE Answer([d EXCEPT !.head = past, !.last = last, !.active = <<>>], Error, <<>>)

(* 19, writing: a mark, the trailers made from the retained labels, a mark.*)
FinishDataSet(d) ==
    CASE d.active = <<>> /\ d.last.kind = "HDR1" -> AcceptHeaders(d)
      [] ~(d.active = <<>> /\ d.last.kind = "HDR1") /\ (Len(d.active) # 4 \/ d.readOnly)
           -> Answer(d, Error, <<>>)
      [] ~(d.active = <<>> /\ d.last.kind = "HDR1") /\ Len(d.active) = 4 /\ ~d.readOnly
           -> Answer(Wrote(d, d.head, <<Mark>> \o TrailerGroup(d.active) \o <<Mark>>), Ok, <<>>)

(* 1B: the second mark, and the end of the session.                        *)
FinalizeVolume(d) ==
    IF Len(d.active) # 4 \/ d.readOnly THEN Answer(d, Error, <<>>)
    ELSE Answer(SessionClosed(Wrote(d, d.head, <<Mark>>)), Ok, <<>>)

(* Mutant: the trailers are not compared.                                  *)
FinishReadDataSet_AnyTrailers(d, code) ==
    IF Len(d.active) \notin {2, 4} THEN Answer(d, Error, <<>>)
    ELSE Answer(SessionClosed([d EXCEPT !.head = Advanced(d.items, d.head)]), code, <<>>)

(* The data ended at a mark: the trailers must answer the retained labels. *)
FinishReadDataSet(d, code) ==
    LET expected == TrailerGroup(d.active)
        n        == Agreeing(SubSeq(d.items, d.head + 1, Len(d.items)), expected)
        past     == [d EXCEPT !.head = Advanced(d.items, d.head + n),
                              !.last = IF n = 0 THEN @ ELSE NoLabel]
    IN CASE Len(d.active) \notin {2, 4} -> Answer(d, Error, <<>>)
         [] Len(d.active) \in {2, 4} /\ n = Len(expected)
              /\ ReadResult(d.items, d.head + n) = "TapeMark"
              -> Answer(SessionClosed(past), code, <<>>)
         [] Len(d.active) \in {2, 4}
              /\ ~(n = Len(expected) /\ ReadResult(d.items, d.head + n) = "TapeMark")
              -> Answer(past, Error, <<>>)

(* 22: a block, or the end of the data set.                                *)
ReadDataAlt(d) ==
    LET past == [d EXCEPT !.head = Advanced(d.items, d.head)]
    IN CASE ReadResult(d.items, d.head) = "Ok"
              -> Answer([past EXCEPT !.last = Latest(d.items[d.head + 1])], Ok, <<d.items[d.head + 1]>>)
         [] ReadResult(d.items, d.head) = "TapeMark" -> FinishReadDataSet(past, EndOfDataSet)
         [] ReadResult(d.items, d.head) = "EndOfData" -> Answer(past, EndOfFile, <<>>)

(* 13 modifier 00 with two labels retained: the whole data set, then, on   *)
(* the second call, its trailers.                                          *)
ReloadData(d) ==
    LET got  == RestOfFile(d.items, d.head)
        mark == EndOf(d.items, d.head)
        past == [d EXCEPT !.head = Min({mark, Len(d.items)}),
                          !.last = IF got = <<>> THEN @ ELSE Latest(got[Len(got)])]
    IN CASE Len(d.active) # 2 -> Answer(d, Error, <<>>)
         [] Len(d.active) = 2 /\ d.reload -> FinishReadDataSet(d, Ok)
         [] Len(d.active) = 2 /\ ~d.reload /\ mark <= Len(d.items) /\ got # <<>>
              -> Answer([past EXCEPT !.reload = TRUE], Ok, got)
         [] Len(d.active) = 2 /\ ~d.reload /\ ~(mark <= Len(d.items) /\ got # <<>>)
              -> Answer(past, Error, <<>>)

-----------------------------------------------------------------------------
(* The guest's procedures.                                                 *)

NoJob == [job |-> "none", ds |-> "", step |-> "", data |-> <<>>, disturbed |-> FALSE]
EmptyDrive ==
    [mounted |-> NoTape, readOnly |-> FALSE, items |-> <<>>, head |-> 0,
     loaded |-> FALSE, dirty |-> FALSE, active |-> <<>>, reload |-> FALSE,
     last |-> NoLabel]

Init ==
    /\ drive = EmptyDrive
    /\ folder = [c \in FolderTapes |-> FolderOf(InitialItems[c][1].name, InitialItems[c])]
    /\ tap = [c \in Cartridges \ FolderTapes |-> InitialItems[c]]
    /\ guest = NoJob
    /\ marred = {} /\ protected \in ProtectedSets /\ broken = 0

At(job, step) == guest.job = job /\ guest.step = step
Onward(step) == [guest EXCEPT !.step = step]

(* execute: an empty or unloaded drive answers not-ready.                  *)
Executed(answer) == IF Ready(drive) THEN answer ELSE Answer(drive, Error, <<>>)

(* One command: its completion code decides whether the procedure goes on. *)
Issue(answer, expected, then) ==
    /\ drive' = answer.drive
    /\ guest' = IF answer.code = expected THEN then ELSE NoJob
    /\ marred' = IF guest.disturbed /\ answer.drive.items # drive.items
                 THEN marred \cup {drive.mounted} ELSE marred
    /\ UNCHANGED <<folder, tap, bounds>>

(* A procedure starts with its first command.                              *)
Start(job, ds, step) ==
    [job |-> job, ds |-> ds, step |-> step, data |-> <<>>, disturbed |-> FALSE]

(* loadPhase1FromTape: the first data set must be the IPL data set; the    *)
(* tape is left at load point.                                             *)
CarriesPhase1(items) ==
    LET headers == {i \in DOMAIN items : items[i].kind = "HDR1"}
        mark    == EndOf(items, Min(headers))
    IN /\ headers # {}
       /\ items[Min(headers)].name = IplDataSet
       /\ \E i \in Min(headers)..(mark - 1) : items[i].kind = "HDR2"
       /\ mark <= Len(items)
       /\ RestOfFile(items, mark) # <<>>
Mounted(c) ==
    [EmptyDrive EXCEPT !.mounted = c, !.readOnly = c \in protected,
                       !.items = ItemsOn(c), !.loaded = TRUE]

(* `ipl` builds a new machine around the tape as the host has it.  `boot`  *)
(* starts the same machine again with the drive as it is.  Either ends the *)
(* job that runs (EndJob) and what was in the drive is not unloaded.       *)
BeginReload ==
    /\ guest = NoJob
    /\ \/ \E c \in Cartridges : Opens(c) /\ drive' = Mounted(c)
       \/ ~OperatorWaits /\ Ready(drive) /\ drive' = [drive EXCEPT !.head = 0]
    /\ guest' = IF CarriesPhase1(drive'.items)
                THEN Start("reload", IplDataSet, "volume")
                ELSE NoJob
    /\ UNCHANGED <<folder, tap, marred, bounds>>

(* Save: 13, 16 until the name is not found, 14, 21 per block, 19, 1B.     *)
SaveVolume ==
    /\ guest = NoJob
    /\ \E ds \in DataSets :
          Issue(Executed(ReadVolumeLabels(drive)), Ok, Start("save", ds, "find"))
SaveFind == At("save", "find") /\ Issue(Executed(FindDataSet(drive, guest.ds)), EndOfFile, Onward("labels"))
SaveLabels ==
    /\ At("save", "labels")
    /\ SpaceFiles(drive.items, drive.head, -1).head + MaxBlocks + 12 <= MaxItems
    /\ Issue(Executed(WriteHeaderLabels(drive, guest.ds)), Ok, Onward("data"))
SaveBlock ==
    /\ At("save", "data") /\ Len(guest.data) < MaxBlocks
    /\ \E b \in Blocks :
          Issue(Executed(WriteData(drive, b)), Ok, [guest EXCEPT !.data = Append(@, Data(b))])
SaveFinish ==
    /\ At("save", "data") /\ guest.data # <<>>
    /\ Issue(Executed(FinishDataSet(drive)), Ok, Onward("final"))
SaveFinal == At("save", "final") /\ Issue(Executed(FinalizeVolume(drive)), Ok, Onward("done"))

(* Restore: 16, then 22 until the end of the data set.                     *)
RestoreFind ==
    /\ guest = NoJob
    /\ \E ds \in DataSets :
          Issue(Executed(FindDataSet(drive, ds)), Ok, Start("restore", ds, "data"))
RestoreBlock ==
    /\ At("restore", "data")
    /\ Len(guest.data) = MaxRead => ReadResult(drive.items, drive.head) # "Ok"
    /\ LET answer == Executed(ReadDataAlt(drive))
       IN IF answer.code = EndOfDataSet
          THEN Issue(answer, EndOfDataSet, Onward("done"))
          ELSE Issue(answer, Ok, [guest EXCEPT !.data = @ \o answer.got])

InitialiseLabel ==
    /\ guest = NoJob
    /\ \E v \in VolumeIds :
          Issue(Executed(InitializeStandard(drive, v)), Ok, Start("init", "", "done"))

(* Reload: 22 for VOL1, 22 for HDR1, 19, then 13 twice.                    *)
ReloadLabel(step, kind, next) ==
    /\ At("reload", step)
    /\ LET answer == Executed(ReadDataAlt(drive))
       IN Issue(answer, Ok,
                IF answer.got # <<>> /\ answer.got[1].kind = kind THEN Onward(next) ELSE NoJob)
ReloadVolume == ReloadLabel("volume", "VOL1", "header")
ReloadHeader == ReloadLabel("header", "HDR1", "open")
ReloadOpen == At("reload", "open") /\ Issue(Executed(FinishDataSet(drive)), Ok, Onward("load"))
ReloadLoad ==
    /\ At("reload", "load")
    /\ LET answer == Executed(ReloadData(drive))
       IN Issue(answer, Ok, [guest EXCEPT !.step = "close", !.data = answer.got])
ReloadClose == At("reload", "close") /\ Issue(Executed(ReloadData(drive)), Ok, Onward("done"))

MidSave == guest.job = "save" /\ guest.step \in {"data", "final"}
Counted(counts) ==
    /\ counts => broken < MaxBroken
    /\ broken' = IF counts THEN broken + 1 ELSE broken
BreaksOff == Counted(MidSave)

(* What the operator does to the tape under a procedure.                   *)
Disturbed == IF guest = NoJob THEN NoJob ELSE [guest EXCEPT !.disturbed = TRUE]

(* 27: pending writes reach the host and the cartridge goes offline.       *)
Unloaded(d) ==
    LET items == IF Pending(d) /\ d.mounted \in FolderTapes
                 THEN FolderItems(FlushedFolder(d)[d.mounted]) ELSE d.items
    IN [SessionClosed(d) EXCEPT !.items = items, !.head = Min({d.head, Len(items)}),
                                !.loaded = FALSE, !.dirty = FALSE]
EndUnloading ==
    /\ guest.step = "done" /\ guest' = NoJob /\ UNCHANGED <<marred, bounds>>
    /\ folder' = FlushedFolder(drive) /\ tap' = FlushedTap(drive)
    /\ drive' = IF Ready(drive) THEN Unloaded(drive) ELSE drive

(* The procedure ends without unloading, or its job is cancelled.          *)
EndJob ==
    /\ guest # NoJob /\ guest' = NoJob
    /\ BreaksOff /\ UNCHANGED <<drive, folder, tap, marred, protected>>

-----------------------------------------------------------------------------
(* The operator's `tape` commands and the end of the simulator.            *)

(* load: the guest's procedure is not told that the tape was exchanged.    *)
OperatorLoad(c) ==
    /\ OperatorWaits => ~(c = drive.mounted /\ Pending(drive))
    /\ Opens(c)
    /\ drive' = [Mounted(c) EXCEPT !.last = drive.last]
    /\ folder' = FlushedFolder(drive) /\ tap' = FlushedTap(drive)
    /\ guest' = IF MidSave THEN Disturbed ELSE guest
    /\ BreaksOff /\ UNCHANGED <<marred, protected>>

OperatorUnload ==
    /\ drive.mounted # NoTape
    /\ drive' = [EmptyDrive EXCEPT !.last = drive.last]
    /\ folder' = FlushedFolder(drive) /\ tap' = FlushedTap(drive)
    /\ BreaksOff /\ UNCHANGED <<guest, marred, protected>>

(* vtoc and files: inspectTape reads the whole tape and spaces back.  A    *)
(* cartridge that is offline is spun up and down again.                    *)
Inspect ==
    /\ drive.mounted # NoTape
    /\ drive' = [drive EXCEPT !.head =
          IF drive.loaded
          THEN RestoreTapePosition(drive.items, ReadPosition(drive.items, drive.head)).head
          ELSE Len(drive.items)]
    /\ UNCHANGED <<folder, tap, guest, marred, bounds>>

(* rewind and space, whatever the guest is doing with the tape.            *)
OperatorMove ==
    /\ Ready(drive)
    /\ \E count \in SpaceCounts :
          drive' \in {[drive EXCEPT !.head = 0],
                      [drive EXCEPT !.head = SpaceFiles(drive.items, @, count).head],
                      [drive EXCEPT !.head = SpaceRecords(drive.items, @, count).head]}
    /\ guest' = Disturbed
    /\ Counted(guest # NoJob) /\ UNCHANGED <<folder, tap, marred, protected>>

(* mark: writes at the head and erases what is ahead of it.                *)
OperatorMark ==
    /\ Ready(drive) /\ ~drive.readOnly /\ drive.head < MaxItems
    /\ drive' = Wrote(drive, drive.head, <<Mark>>)
    /\ guest' = Disturbed /\ marred' = marred \cup {drive.mounted}
    /\ Counted(TRUE) /\ UNCHANGED <<folder, tap, protected>>

(* tape init on a tape that is not in the drive.                           *)
OperatorInit(c, v) ==
    /\ c \notin protected
    /\ OperatorWaits => c # drive.mounted
    /\ IF c \in FolderTapes
       THEN folder' = [folder EXCEPT ![c] = FolderOf(v, BlankTape(v))] /\ UNCHANGED tap
       ELSE tap' = [tap EXCEPT ![c] = BlankTape(v)] /\ UNCHANGED folder
    /\ UNCHANGED <<drive, guest, marred, bounds>>

(* The process ends, after the job that ran (EndJob) and perhaps while the *)
(* drive flushes; a folder that no longer opens counts as unreadable.      *)
SimulatorEnds ==
    /\ guest = NoJob
    /\ LET new == FlushedFolder(drive)
           c   == drive.mounted
       IN folder' \in IF new = folder THEN {folder}
                      ELSE {[folder EXCEPT ![c] = IF FolderOpens(f) THEN f ELSE Unreadable] :
                               f \in InterruptedFolders(folder[c], new[c])}
    /\ tap' \in {tap, FlushedTap(drive)}
    /\ drive' = EmptyDrive /\ UNCHANGED <<guest, marred, bounds>>

Next ==
    \/ BeginReload \/ SaveVolume \/ SaveFind \/ SaveLabels \/ SaveBlock \/ SaveFinish \/ SaveFinal
    \/ RestoreFind \/ RestoreBlock \/ InitialiseLabel
    \/ ReloadVolume \/ ReloadHeader \/ ReloadOpen \/ ReloadLoad \/ ReloadClose
    \/ EndUnloading \/ EndJob
    \/ \E c \in Cartridges : OperatorLoad(c)
    \/ \E c \in Cartridges, v \in VolumeIds : OperatorInit(c, v)
    \/ OperatorUnload \/ Inspect \/ OperatorMove \/ OperatorMark \/ SimulatorEnds

Spec == Init /\ [][Next]_vars

-----------------------------------------------------------------------------
(* The saved data sets of a tape: a file with header labels, the data, and *)
(* the trailers that answer those headers; final once another file is      *)
(* behind them.  The bound variables make TLC compute each list once.      *)
Headers(file) ==
    SubSeq(file, SelectInSeq(file, LAMBDA block : block.kind = "HDR1"), Len(file))
WholeIn(files, closed) ==
    SelectSeq([n \in DOMAIN files |-> n],
              LAMBDA n : /\ n + 2 < Len(files) \/ (n + 2 = Len(files) /\ closed)
                         /\ \E block \in Range(files[n]) : block.kind = "HDR1"
                         /\ files[n + 2] = TrailerGroup(Headers(files[n])))
DataSetAt(files, n) ==
    [ds |-> Headers(files[n])[1].name, blocks |-> files[n + 1], final |-> n + 2 < Len(files)]
Catalog(medium) ==
    LET Files == {<<TapeFiles(items), items # <<>> /\ IsMark(Last(items))>> : items \in {medium}}
        Found == {[files |-> f[1], at |-> WholeIn(f[1], f[2])] : f \in Files}
        Lists == {[k \in DOMAIN w.at |-> DataSetAt(w.files, w.at[k])] : w \in Found}
    IN CHOOSE list \in Lists : TRUE

(* A tape without its volume label at load point is flushed like any       *)
(* other, and the folder made of it does not open again.                   *)
WillOpen(d) ==
    d.mounted \in FolderTapes =>
        d.items # <<>> /\ d.items[1] = Volume(folder[d.mounted].volume)

Saved == INSTANCE SavedDataSets WITH
    Fragile <- FolderTapes,
    store   <- [c \in Cartridges |-> IF Opens(c) THEN Catalog(ItemsOn(c)) ELSE Lost],
    mounted <- drive.mounted,
    tape    <- Catalog(drive.items),
    labelled <- WillOpen(drive),
    session <- [op     |-> IF guest.job = "reload" THEN "restore" ELSE guest.job,
                ds     |-> guest.ds,
                blocks |-> guest.data,
                done   |-> guest.step \in {"final", "done"},
                disturbed |-> guest.disturbed]

-----------------------------------------------------------------------------
(* Checkpoints.  The media member of a checkpoint holds the files of the   *)
(* tape's directory; a machine built from it mounts them and spaces to the *)
(* saved position.                                                         *)
RestoredTape(d) ==
    IF d.mounted \in FolderTapes /\ FolderOpens(folder[d.mounted])
    THEN LET items    == FolderItems(folder[d.mounted])
             restored == RestoreTapePosition(items, ReadPosition(d.items, d.head))
         IN [ok |-> restored.ok, items |-> items, head |-> restored.head]
    ELSE [ok |-> FALSE, items |-> <<>>, head |-> 0]

-----------------------------------------------------------------------------
(* Properties                                                              *)

(* Every variable has a value of its type.                                 *)
TypeOK ==
    /\ drive.mounted \in Cartridges \cup {NoTape}
    /\ drive.head \in 0..Len(drive.items)
    /\ {drive.readOnly, drive.loaded, drive.dirty, drive.reload} \subseteq BOOLEAN
    /\ DOMAIN folder = FolderTapes /\ DOMAIN tap = Cartridges \ FolderTapes
    /\ guest.job \in {"none", "save", "restore", "init", "reload"}

(* A tape in the drive without pending writes shows what its host copy     *)
(* holds: every path that changes one of them changes the other.           *)
CleanIsOnHost ==
    drive.mounted # NoTape /\ ~drive.dirty => drive.items = ItemsOn(drive.mounted)

(* A checkpoint taken with a folder tape that has no pending writes, and   *)
(* whose volume label was not written over, brings back the same tape at   *)
(* the same place.                                                         *)
CleanFolderRestores ==
    drive.mounted \in FolderTapes /\ ~drive.dirty /\ WillOpen(drive) =>
        RestoredTape(drive) = [ok |-> TRUE, items |-> drive.items, head |-> drive.head]

(* Without pending writes nothing of the tape is in the drive only, for    *)
(* the operator who exchanges it and for a checkpoint.                     *)
CleanTapeIsSafe == CleanIsOnHost /\ CleanFolderRestores

(* A checkpoint taken with a tape in the drive can be restored             *)
(* (docs/tape-folder-format.md: TAP supports saved-position restore).      *)
CheckpointRestores == drive.mounted # NoTape => RestoredTape(drive).ok

(* TapeBackend.h: listing the tape in the drive moves neither its head nor *)
(* its contents, wherever the head is.                                     *)
InspectKeepsPosition ==
    [][Inspect /\ drive.loaded => UNCHANGED drive]_vars

(* The drive, its two representations and the procedures implement a store *)
(* of whole data sets.                                                     *)
KeepsDataSets == Saved!Spec
=============================================================================
