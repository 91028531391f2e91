--------------------------- MODULE MachineSnapshot ---------------------------
(***************************************************************************)
(* `snapshot save` and `snapshot load` (MachineSnapshot.cpp) around a      *)
(* machine with a fixed disk, a diskette drive, a display station and      *)
(* operations that await an answer of the host: what a checkpoint holds,   *)
(* what it refuses to hold, what a load replaces and in which order, and   *)
(* who may meanwhile touch the image files.                                *)
(*                                                                         *)
(* A medium's content is one value.  A save runs while the guest does not  *)
(* (it is handed to the guest's thread), in two steps, between which the   *)
(* station's client, another emulator on the same image and a crash of     *)
(* this one may come.                                                      *)
(***************************************************************************)
EXTENDS Integers, DisketteMedium, FixedDisk

CONSTANTS
    Diskettes,      \* the operator's diskette images
    Operations,     \* kinds of operations that await the host
    Captured,       \* the kinds a checkpoint keeps
    Modes,          \* how the operator attaches the fixed disk
    Workloads,      \* bound: the medium a behaviour's guest writes on, and
                    \* whether it issues operations, has a client, and the
                    \* operator brings diskettes
    Geometries, Volumes, Searches, Transfers,   \* inputs of the media operators
    None

Values == 0 .. 1

Contents == Values \cup {None}

MediaSets == [disk : Values, diskette : Contents]

Runtimes ==
    [waits : SUBSET Operations, knows : Contents,
     processor : [aces : SUBSET Operations, present : BOOLEAN],
     devices : [retained : SUBSET Operations]]

Checkpoints ==
    [powered : BOOLEAN, writable : BOOLEAN, disk : Values, diskette : Contents,
     runtime : {None} \cup Runtimes]

ASSUME SnapshotAssumption ==
    /\ Captured \subseteq Operations
    /\ Modes \subseteq {"rw", "ro", "overlay"}
    /\ Workloads \subseteq {"disk", "diskette"} \X SUBSET {"operations", "client", "diskettes"}
    /\ "media" \notin Diskettes /\ None \notin Diskettes
    /\ None \notin {"disk", "media"} /\ None \notin Values /\ None \notin MediaSets
    /\ None \notin Checkpoints

(* Geometries of images, and volumes of one size of sectors with searches  *)
(* of ascending keys and writes of what their buffers hold.                *)
ASSUME MediaAssumption ==
    /\ \A g \in Geometries : IsImage(g)
    /\ \A v \in Volumes :
          /\ v # <<>> /\ IsVolume(v, Len(v[1]))
          /\ \A r \in Searches : IsSearch(v, Len(v[1]), r)
    /\ \A r \in Transfers : IsWrite(r)

VARIABLES
    written,        \* the medium this behaviour's guest writes on
    busy,           \* bound: what else happens in it, of Workloads
    disk,           \* the content of the operator's fixed disk image
    diskettes,      \* the content of each diskette image
    media,          \* the directory of media the session has unpacked, or None
    lock,           \* the image's lock file: free, us, other or stale
    definition,     \* the machine definition: volume, mode and diskette
    machine,        \* the constructed machine, or None
    station,        \* the station's backend: attached, and a power-off to tell
    saving,         \* the checkpoint under construction, or None
    snapshot,       \* the checkpoint file: None or a checkpoint
    missed,         \* history: what the machine was never told of, the writes
                    \* of others, what a save left out, a hang-up
    missedSaved     \* history: what the checkpoint is silent about

files == <<written, busy, disk, diskettes, media>>

histories == <<missed, missedSaved>>

vars == <<files, lock, definition, machine, station, saving, snapshot, histories>>

images == <<files, histories>>

AllTold == [writes |-> FALSE, hangUp |-> FALSE]

Unconfigured == [volume |-> None, mode |-> "ro", diskette |-> None]

Vacant == [attached |-> FALSE, powerOff |-> FALSE]

DiskContent(volume) == IF volume = "media" THEN media.disk ELSE disk

DisketteContent(d) == IF d = "media" THEN media.diskette ELSE diskettes[d]

Init ==
    /\ \E w \in Workloads : written = w[1] /\ busy = w[2]
    /\ disk = 0
    /\ diskettes = [d \in Diskettes |-> 0]
    /\ media = None
    /\ lock = "free"
    /\ definition = Unconfigured
    /\ machine = None
    /\ station = Vacant
    /\ saving = None
    /\ snapshot = None
    /\ missed = AllTold /\ missedSaved = AllTold

Idle == saving = None

Constructed == machine # None /\ Idle

-----------------------------------------------------------------------------
(* The definition and the construction of a machine from it.  The backend  *)
(* of a writable image takes the image's lock; an unpacked image is new    *)
(* and nobody else's.                                                      *)
DiskUnlocked(d) == ~(d.volume = "disk" /\ d.mode = "rw") \/ lock = "free"

LockedBy(d, held) == IF d.volume = "disk" /\ d.mode = "rw" THEN "us" ELSE held

Released == IF machine # None /\ lock = "us" THEN "free" ELSE lock

Fresh(d) ==
    [volume |-> d.volume, mode |-> d.mode, overlay |-> None,
     drive |-> d.diskette, changed |-> FALSE,
     knows |-> None,
     waits |-> {}, aces |-> {}, retained |-> {}, present |-> FALSE]

WithDisk(d, mode) == [d EXCEPT !.volume = "disk", !.mode = mode]

WithMode(d, mode) == [d EXCEPT !.mode = mode]

WithDiskette(d, diskette) == [d EXCEPT !.diskette = diskette]

AttachDisk(mode) ==
    /\ Idle /\ machine = None
    /\ definition' = WithDisk(definition, mode)
    /\ UNCHANGED <<images, lock, machine, station, saving, snapshot>>

SetMode(mode) ==
    /\ Idle /\ machine = None
    /\ definition' = WithMode(definition, mode)
    /\ UNCHANGED <<images, lock, machine, station, saving, snapshot>>

(* A bug to tell from the code: the image is opened without its lock.      *)
ConstructMachine_Unlocked ==
    /\ Idle /\ machine = None /\ definition.volume # None
    /\ machine' = Fresh(definition)
    /\ UNCHANGED <<images, lock, definition, station, saving, snapshot>>

ConstructMachine ==
    /\ Idle /\ machine = None /\ definition.volume # None
    /\ DiskUnlocked(definition)
    /\ machine' = Fresh(definition)
    /\ lock' = LockedBy(definition, lock)
    /\ UNCHANGED <<images, definition, station, saving, snapshot>>

ReleaseMachine ==
    /\ Constructed
    /\ machine' = None
    /\ lock' = Released
    /\ missed' = AllTold
    /\ UNCHANGED <<files, definition, station, saving, snapshot, missedSaved>>

(* A drive that had a diskette latches the exchange for the guest.         *)
Inserted(m, d) == [m EXCEPT !.drive = d, !.changed = @ \/ m.drive # None]

Ejected(m) == IF m.drive = None THEN m ELSE [m EXCEPT !.drive = None, !.changed = TRUE]

AttachDiskette(d) ==
    /\ Idle /\ "diskettes" \in busy
    /\ definition' = WithDiskette(definition, d)
    /\ machine' = IF machine = None THEN None ELSE Inserted(machine, d)
    /\ UNCHANGED <<images, lock, station, saving, snapshot>>

DetachDiskette ==
    /\ Idle
    /\ definition' = WithDiskette(definition, None)
    /\ machine' = IF machine = None THEN None ELSE Ejected(machine)
    /\ UNCHANGED <<images, lock, station, saving, snapshot>>

(* The monitor's `diskette insert|eject` and the guest's eject command do  *)
(* not reach the definition.                                               *)
Insert(d) ==
    /\ Constructed /\ "diskettes" \in busy
    /\ machine' = Inserted(machine, d)
    /\ UNCHANGED <<images, lock, definition, station, saving, snapshot>>

Eject ==
    /\ Constructed /\ machine.drive # None
    /\ machine' = Ejected(machine)
    /\ UNCHANGED <<images, lock, definition, station, saving, snapshot>>

Configuration ==
    \/ \E mode \in Modes : AttachDisk(mode) \/ SetMode(mode)
    \/ ConstructMachine \/ ReleaseMachine
    \/ \E d \in Diskettes : AttachDiskette(d) \/ Insert(d)
    \/ DetachDiskette \/ Eject

-----------------------------------------------------------------------------
(* The guest.  In a behaviour it writes on one of the two media, and what  *)
(* it wrote there last is what it knows.                                   *)
Knowing(m, value) == [m EXCEPT !.knows = value]

Overlaid(m, value) == [m EXCEPT !.overlay = value, !.knows = value]

GuestWritesDisk(value) ==
    /\ Constructed /\ machine.mode # "ro" /\ written = "disk"
    /\ IF machine.mode = "overlay"
       THEN /\ machine' = Overlaid(machine, value)
            /\ UNCHANGED <<disk, media>>
       ELSE /\ machine' = Knowing(machine, value)
            /\ IF machine.volume = "media"
               THEN media' = [disk |-> value, diskette |-> media.diskette] /\ UNCHANGED disk
               ELSE disk' = value /\ UNCHANGED media
    /\ missed' = [writes |-> FALSE, hangUp |-> missed.hangUp]
    /\ UNCHANGED <<written, busy, diskettes, lock, definition, station, saving, snapshot, missedSaved>>

(* An empty drive is not ready, and one whose diskette was exchanged       *)
(* refuses everything but a recalibrate.                                   *)
DriveReady == machine.drive # None /\ ~machine.changed

GuestWritesDiskette(value) ==
    /\ Constructed /\ written = "diskette" /\ DriveReady
    /\ machine' = Knowing(machine, value)
    /\ IF machine.drive = "media"
       THEN media' = [disk |-> media.disk, diskette |-> value] /\ UNCHANGED diskettes
       ELSE diskettes' = [diskettes EXCEPT ![machine.drive] = value] /\ UNCHANGED media
    /\ missed' = [writes |-> FALSE, hangUp |-> missed.hangUp]
    /\ UNCHANGED <<written, busy, disk, lock, definition, station, saving, snapshot, missedSaved>>

(* Completion 41 on everything else brings the guest to a recalibrate,     *)
(* after which it reads the labels anew.                                   *)
Recalibrated(m) == [m EXCEPT !.changed = FALSE, !.knows = IF written = "diskette" THEN None ELSE @]

GuestRecalibrates ==
    /\ Constructed /\ machine.drive # None /\ machine.changed
    /\ machine' = Recalibrated(machine)
    /\ UNCHANGED <<images, lock, definition, station, saving, snapshot>>

(* An operation the device retains: its I/O block waits in the guest's     *)
(* storage, the control processor keeps the element to post, the device    *)
(* set what to complete.                                                   *)
Issued(m, op) ==
    [m EXCEPT !.waits = @ \cup {op}, !.aces = @ \cup {op}, !.retained = @ \cup {op}]

Ended(m, op) ==
    [m EXCEPT !.waits = @ \ {op}, !.aces = @ \ {op}, !.retained = @ \ {op}]

GuestIssues(op) ==
    /\ Constructed /\ op \notin machine.waits /\ "operations" \in busy
    /\ machine' = Issued(machine, op)
    /\ UNCHANGED <<images, lock, definition, station, saving, snapshot>>

OperationEnds(op) ==
    /\ Constructed /\ op \in machine.retained \cap machine.aces
    /\ machine' = Ended(machine, op)
    /\ UNCHANGED <<images, lock, definition, station, saving, snapshot>>

(* The station: its client comes and goes at any time; the guest hears of  *)
(* it at a boundary of the live loop.                                      *)
ClientConnects ==
    /\ ~station.attached /\ "client" \in busy
    /\ station' = [attached |-> TRUE, powerOff |-> station.powerOff]
    /\ UNCHANGED <<images, lock, definition, machine, saving, snapshot>>

ClientLeaves ==
    /\ station.attached
    /\ station' = [attached |-> FALSE, powerOff |-> TRUE]
    /\ UNCHANGED <<images, lock, definition, machine, saving, snapshot>>

Powered(m, on) == [m EXCEPT !.present = on]

GuestPowersOn ==
    /\ Constructed /\ station.attached /\ ~station.powerOff /\ ~machine.present
    /\ machine' = Powered(machine, TRUE)
    /\ UNCHANGED <<images, lock, definition, station, saving, snapshot>>

GuestPowersOff ==
    /\ Constructed /\ station.powerOff
    /\ machine' = Powered(machine, FALSE)
    /\ station' = [attached |-> station.attached, powerOff |-> FALSE]
    /\ missed' = [writes |-> missed.writes, hangUp |-> FALSE]
    /\ UNCHANGED <<files, lock, definition, saving, snapshot, missedSaved>>

Guest ==
    \/ \E value \in Values : GuestWritesDisk(value) \/ GuestWritesDiskette(value)
    \/ GuestRecalibrates
    \/ \E op \in Operations : GuestIssues(op) \/ OperationEnds(op)
    \/ GuestPowersOn \/ GuestPowersOff

Client == ClientConnects \/ ClientLeaves

-----------------------------------------------------------------------------
(* Another emulator on the same image, which obeys the lock of a fixed     *)
(* disk; diskettes have none, so it writes them at any time.  And the      *)
(* operator, who removes a lock file whose holder is gone.                 *)
OtherOpens ==
    /\ lock = "free"
    /\ lock' = "other"
    /\ UNCHANGED <<images, definition, machine, station, saving, snapshot>>

OtherWrites ==
    /\ lock = "other" /\ written = "disk"
    /\ disk' = 1 - disk
    /\ UNCHANGED <<written, busy, diskettes, media, lock, definition, machine, station, saving, snapshot,
                   histories>>

OtherWritesDiskette(d) ==
    /\ written = "diskette"
    /\ diskettes' = [diskettes EXCEPT ![d] = 1 - @]
    /\ missed' = [writes |-> missed.writes \/ (machine # None /\ machine.drive = d),
                  hangUp |-> missed.hangUp]
    /\ UNCHANGED <<written, busy, disk, media, lock, definition, machine, station, saving, snapshot,
                   missedSaved>>

OtherCloses ==
    /\ lock = "other"
    /\ lock' = "free"
    /\ UNCHANGED <<images, definition, machine, station, saving, snapshot>>

RemoveLock ==
    /\ lock = "stale"
    /\ lock' = "free"
    /\ UNCHANGED <<images, definition, machine, station, saving, snapshot>>

Crash ==
    /\ media' = None
    /\ lock' = IF lock = "us" THEN "stale" ELSE lock
    /\ definition' = Unconfigured
    /\ machine' = None
    /\ station' = Vacant
    /\ saving' = None
    /\ missed' = AllTold
    /\ UNCHANGED <<written, busy, disk, diskettes, snapshot, missedSaved>>

Host ==
    \/ OtherOpens \/ OtherWrites \/ OtherCloses
    \/ \E d \in Diskettes : OtherWritesDiskette(d)
    \/ RemoveLock \/ Crash

-----------------------------------------------------------------------------
(* `snapshot save`.  What cannot be captured is refused: a screen being    *)
(* saved at the terminal, a PUT whose invite awaits an answer, a live      *)
(* client.                                                                 *)
(* A bug to tell from the code: a screen being saved is let pass.          *)
MaySave_AnyOperation ==
    /\ definition.volume # None
    /\ machine # None => ~station.attached

(* A bug to tell from the code: the stations are not asked.                *)
MaySave_AnyClient ==
    /\ definition.volume # None
    /\ machine # None => machine.retained \cap {"screen", "put"} = {}

MaySave ==
    /\ definition.volume # None
    /\ machine # None => /\ machine.retained \cap {"screen", "put"} = {}
                         /\ ~station.attached

DriveSaved ==
    IF machine # None /\ machine.drive # None THEN machine.drive ELSE definition.diskette

(* The image behind the definition, the diskette in the drive or else the  *)
(* definition's, and whether the image may be written.                     *)
MediaSaved ==
    [powered |-> machine # None,
     writable |-> IF machine # None THEN machine.mode = "rw" ELSE definition.mode = "rw",
     disk |-> DiskContent(definition.volume),
     diskette |-> IF DriveSaved = None THEN None ELSE DisketteContent(DriveSaved),
     runtime |-> None]

(* The three parts of the machine that must agree after a load: storage    *)
(* and registers, the control processor's own tables, the device set's.    *)
CapturedProcessor(m) == [aces |-> m.aces, present |-> m.present]

CapturedDevices(m) == [retained |-> m.retained \cap Captured]

Runtime(m) ==
    [waits |-> m.waits, knows |-> m.knows,
     processor |-> CapturedProcessor(m), devices |-> CapturedDevices(m)]

WithRuntime(checkpoint, m) == [checkpoint EXCEPT !.runtime = Runtime(m)]

BeginSave ==
    /\ Idle /\ MaySave
    /\ saving' = MediaSaved
    /\ UNCHANGED <<images, lock, definition, machine, station, snapshot>>

(* Nothing in a checkpoint holds an overlay, an exchange of diskettes or a *)
(* hang-up the guest has still to be told of, nor what the machine had     *)
(* missed before.                                                          *)
Silent ==
    IF machine = None THEN AllTold
    ELSE [writes |-> missed.writes \/ IF written = "disk" THEN machine.overlay # None
                                      ELSE machine.changed,
          hangUp |-> missed.hangUp \/ station.powerOff]

EndSave ==
    /\ ~Idle
    /\ snapshot' = IF machine = None THEN saving
                   ELSE WithRuntime(saving, machine)
    /\ missedSaved' = Silent
    /\ saving' = None
    /\ UNCHANGED <<files, missed, lock, definition, machine, station>>

(* The temporary file is removed.                                          *)
SaveFails ==
    /\ ~Idle
    /\ saving' = None
    /\ UNCHANGED <<images, lock, definition, machine, station, snapshot>>

Save == BeginSave \/ EndSave \/ SaveFails

-----------------------------------------------------------------------------
(* `snapshot load`.                                                        *)

(* The file is read to its end first: a short one is refused there.  A     *)
(* save leaves none, because it renames the whole file into its place.     *)
Readable == snapshot # None

(* A bug to tell from the code: the session takes the new directory for    *)
(* its own before it deletes the one it owns.                              *)
Unpacked_Deleted(s) == None

Unpacked(s) == [disk |-> s.disk, diskette |-> s.diskette]

DefinitionSaved(s) ==
    [volume |-> "media", mode |-> IF s.writable THEN "rw" ELSE "ro",
     diskette |-> IF s.diskette = None THEN None ELSE "media"]

MemoryRestored(m, r) ==
    [m EXCEPT !.waits = r.waits, !.knows = r.knows, !.aces = {}, !.retained = {}]

ProcessorRestored(m, r) ==
    [m EXCEPT !.aces = r.processor.aces, !.present = r.processor.present]

DevicesRestored(m, r) == [m EXCEPT !.retained = r.devices.retained]

(* Storage first, because restoring it resets what the other two hold.     *)
Restored(m, r) ==
    DevicesRestored(ProcessorRestored(MemoryRestored(m, r), r), r)

(* The new media are unpacked and the whole file read before anything is   *)
(* given up; then the machine, the listeners and the old media go, the     *)
(* definition is replaced and the machine built and filled.  A host        *)
(* failure after that leaves the definition and its media, and no machine. *)
LoadSnapshot(succeeds) ==
    /\ Idle /\ Readable
    /\ media' = Unpacked(snapshot)
    /\ lock' = Released
    /\ definition' = DefinitionSaved(snapshot)
    /\ machine' = IF snapshot.powered /\ succeeds
                  THEN Restored(Fresh(definition'), snapshot.runtime) ELSE None
    /\ station' = Vacant
    /\ missed' = IF machine' = None THEN AllTold ELSE missedSaved
    /\ UNCHANGED <<written, busy, disk, diskettes, saving, snapshot, missedSaved>>

Load == \E succeeds \in BOOLEAN : LoadSnapshot(succeeds)

Next == Configuration \/ Guest \/ Client \/ Host \/ Save \/ Load

Spec == Init /\ [][Next]_vars

-----------------------------------------------------------------------------
(* What the guest last wrote on the fixed disk, or on the diskette since   *)
(* it was last told of an exchange, is what it would read there now.       *)
GuestReadsItsWrites ==
    machine # None /\ machine.knows # None =>
        IF written = "disk"
        THEN machine.knows = IF machine.overlay # None THEN machine.overlay
                             ELSE DiskContent(machine.volume)
        ELSE machine.drive # None /\ ~machine.changed =>
                 machine.knows = DisketteContent(machine.drive)

(* It is so over other emulators, exchanges of media, crashes, and loads   *)
(* of a checkpoint taken at another time, with these exceptions, until the *)
(* guest writes again: another emulator wrote on the diskette in the       *)
(* drive, or the machine was loaded from a save of an overlay volume or of *)
(* a drive whose exchange the guest had not been told of (DiskBackend.cpp: *)
(* 83-161, VirtualDiskette.cpp:66-122, MachineSnapshot.cpp:397-400).       *)
GuestSeesItsWrites == missed.writes \/ GuestReadsItsWrites

(* Whatever an I/O block in the guest's storage waits for has the element  *)
(* that will be posted and the device that will complete it, also after a  *)
(* load: nothing else would ever end the wait (MachineSnapshot.cpp:         *)
(* 361-364, As36Checkpoint.cpp:238-244, 248-266, DeviceSet.cpp:183-264).   *)
NoOrphanWait ==
    machine # None => machine.aces = machine.waits /\ machine.waits \subseteq machine.retained

(* A display the guest takes for powered on has a client, or a power-off   *)
(* the guest has still to be told of.                                      *)
EveryHangUpReaches ==
    machine # None /\ machine.present => station.attached \/ station.powerOff

(* It is so over saves, loads and crashes with one exception, until the    *)
(* guest powers the display off: the machine was loaded from a save made   *)
(* while a hang-up was still to be told, which the save neither holds nor  *)
(* is refused for (MachineSnapshot.cpp:365-372, SimulatorSession.cpp:1215).*)
PresentIsAttached == missed.hangUp \/ EveryHangUpReaches

(* The media the definition and the machine refer to exist: a save or a    *)
(* load that breaks off at any point costs none (MachineSnapshot.cpp:      *)
(* 381-413, 418-453, SimulatorSession.cpp:1213-1239).                      *)
NothingLost ==
    /\ definition.volume = "media" => media # None
    /\ definition.diskette = "media" => media # None /\ media.diskette # None
    /\ machine # None =>
          /\ machine.volume = "media" => media # None
          /\ machine.drive = "media" => media # None /\ media.diskette # None

(* The media operators on the instance's inputs.                           *)
TransfersAreRight ==
    /\ \A g \in Geometries : Linear(g) /\ WholeTransfers(g)
    /\ \A v \in Volumes, r \in Searches : FindsLeast(v, r)
    /\ \A v \in Volumes, r \in Transfers : WritesExactly(v, r)

(* Whatever the guest of a machine asks its media for: the records of a    *)
(* diskette are one line of bytes whatever their length, a transfer moves  *)
(* whole records of the area it may reach, a scan finds what a search      *)
(* finds, and a write changes its sectors only (DisketteBackend.cpp:       *)
(* 72-95, VirtualDiskette.cpp:205-378, VirtualFixedDisk.cpp:136-297).      *)
MediaTransfers == machine # None => TransfersAreRight
=============================================================================
