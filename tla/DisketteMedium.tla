--------------------------- MODULE DisketteMedium ---------------------------
(***************************************************************************)
(* The geometry of a physical sector image of a System/36 diskette, and    *)
(* what one read or write command moves (DisketteBackend.cpp,              *)
(* VirtualDiskette.cpp).                                                   *)
(*                                                                         *)
(* A geometry is a record: label (bytes of a sector of the label track),   *)
(* bytes and sectors (of a data track), heads and cylinders.  A position   *)
(* is a record of a cylinder, a head and a record number from 1.           *)
(***************************************************************************)
EXTENDS Integers, Sequences, FiniteSetsExt

LabelSectorsPerTrack == 26

BackLabelBytes == 256

At(c, h, r) == [cylinder |-> c, head |-> h, record |-> r]

TrackSectors(g, c) == IF c = 0 THEN LabelSectorsPerTrack ELSE g.sectors

TrackSectorBytes(g, c, h) ==
    CASE c # 0 -> g.bytes
      [] c = 0 /\ h = 0 -> g.label
      [] OTHER -> BackLabelBytes

TrackBytes(g, c, h) == TrackSectors(g, c) * TrackSectorBytes(g, c, h)

CylinderZeroBytes(g) ==
    LabelSectorsPerTrack * (g.label + IF g.heads > 1 THEN BackLabelBytes ELSE 0)

TotalBytes(g) ==
    CylinderZeroBytes(g) + (g.cylinders - 1) * g.heads * g.sectors * g.bytes

(* A bug to tell from the code: every track counted as a data track.       *)
TrackOffset_AllAlike(g, c, h) == (c * g.heads + h) * g.sectors * g.bytes

TrackOffset(g, c, h) ==
    (IF c > 0 THEN CylinderZeroBytes(g) + (c - 1) * g.heads * g.sectors * g.bytes ELSE 0)
        + MapThenSumSet(LAMBDA k : TrackBytes(g, c, k), 0 .. h - 1)

RecordOffset(g, p) ==
    TrackOffset(g, p.cylinder, p.head)
        + (p.record - 1) * TrackSectorBytes(g, p.cylinder, p.head)

IsValid(g, p) ==
    /\ p.cylinder \in 0 .. g.cylinders - 1
    /\ p.head \in 0 .. g.heads - 1
    /\ p.record \in 1 .. TrackSectors(g, p.cylinder)

LastSequentialCylinder(g) == g.cylinders - 3

LastSequentialSector(g) == LastSequentialCylinder(g) * g.heads * g.sectors

(* Sequential sector address s, from 1, on the cylinders behind the label  *)
(* track, and whether the address is one of the volume's.                  *)
SequentialToRecord(g, s) ==
    LET within == (s - 1) % (g.sectors * g.heads)
    IN  At(1 + (s - 1) \div (g.sectors * g.heads), within \div g.sectors,
           (within % g.sectors) + 1)

Sequential(g, s) ==
    s >= 1 /\ SequentialToRecord(g, s).cylinder <= LastSequentialCylinder(g)

(* The record after p: the track first, then the head, then the cylinder.  *)
(* One past the last cylinder the answer is no longer valid.               *)
Following(g, p) ==
    IF p.record < TrackSectors(g, p.cylinder) THEN [p EXCEPT !.record = @ + 1]
    ELSE IF p.head + 1 < g.heads THEN At(p.cylinder, p.head + 1, 1)
    ELSE At(p.cylinder + 1, 0, 1)

(* The label track holds the volume label in sectors of 128 or of 256      *)
(* bytes (found is the size it is found at, or 0), and the label the       *)
(* length of a data record.                                                *)
SectorsFor(bytes) ==
    CASE bytes = 1024 -> 8 [] bytes = 512 -> 15 [] OTHER -> 26

(* The geometry an image of that many bytes has, as a set of at most one.  *)
Probe(found, bytes, length) ==
    IF found = 0 \/ bytes \notin {128, 256, 512, 1024} THEN {}
    ELSE LET one == [label |-> found, bytes |-> bytes, sectors |-> SectorsFor(bytes),
                     heads |-> IF bytes = 128 THEN 1 ELSE 2, cylinders |-> 1]
             rest == length - CylinderZeroBytes(one)
             per == one.heads * one.sectors * one.bytes
         IN  IF rest < 0 \/ rest % per # 0 THEN {}
             ELSE {[one EXCEPT !.cylinders = 1 + rest \div per]}

(* The geometries of images.                                               *)
IsImage(g) ==
    /\ g \in [label : {128, 256}, bytes : {128, 256, 512, 1024}, sectors : Nat, heads : Nat,
              cylinders : Nat \ {0}]
    /\ g.sectors = SectorsFor(g.bytes)
    /\ g.heads = IF g.bytes = 128 THEN 1 ELSE 2

-----------------------------------------------------------------------------
(* A read or a write of n records of that many bytes, at position p or at  *)
(* a sequential address.                                                   *)

Run(g, p, n) ==
    LET run[i \in 1 .. n] == IF i = 1 THEN p ELSE Following(g, run[i - 1]) IN run

Nothing(code, residual) == [code |-> code, moved |-> <<>>, residual |-> residual]

(* Completion 43 where a track's sectors cannot hold the record, 44 behind *)
(* the volume's last record, whichever the walk meets first.               *)
Walked(g, p, n, bytes) ==
    LET run == Run(g, p, n)
        small == {i \in 1 .. n : TrackSectorBytes(g, run[i].cylinder, run[i].head) < bytes}
        off == {i \in 2 .. n : run[i].cylinder >= g.cylinders}
    IN  IF off \cup small = {} THEN [code |-> "complete", moved |-> run, residual |-> "all"]
        ELSE IF off = {} \/ (small # {} /\ Min(small) < Min(off))
        THEN Nothing("end of track", "unset")
        ELSE Nothing("end of volume", "unset")

Placed(g, p, n, bytes) ==
    IF ~IsValid(g, p) \/ TrackSectorBytes(g, p.cylinder, p.head) < bytes
    THEN Nothing("permanent error", "unset")
    ELSE Walked(g, p, n, bytes)

(* A sequential transfer that would run past the last sequential sector    *)
(* moves nothing when its records are of 1024 bytes, and says that all was *)
(* moved; one that starts past it says how much was not.                   *)
SequentialTransfer(g, s, n, bytes) ==
    IF s >= 1 /\ s + n - 1 > LastSequentialSector(g) /\ bytes = 1024
    THEN Nothing("complete", "all")
    ELSE IF s >= 1 /\ ~Sequential(g, s) THEN Nothing("complete", n - 1)
    ELSE IF s < 1 THEN Nothing("permanent error", "unset")
    ELSE Placed(g, SequentialToRecord(g, s), n, bytes)
-----------------------------------------------------------------------------
(* The records of an image, walked in transfer order, lie end to end from  *)
(* its first byte to its last, the sequential addresses number the records *)
(* of the cylinders between the label track and the two spare ones in that *)
(* order, and the probe of an image finds the geometry it was written in   *)
(* (DisketteBackend.cpp:72-171, 296-306: two linearisations and a third    *)
(* arithmetic that must all agree with the export tool's).                 *)
Linear(g) ==
    LET Last == At(g.cylinders - 1, g.heads - 1, TrackSectors(g, g.cylinders - 1))
        Valid == {p \in [cylinder : 0 .. g.cylinders - 1, head : 0 .. g.heads - 1,
                         record : 1 .. LabelSectorsPerTrack] : IsValid(g, p)}
        End(p) == RecordOffset(g, p) + TrackSectorBytes(g, p.cylinder, p.head)
    IN  /\ RecordOffset(g, At(0, 0, 1)) = 0
        /\ \A p \in Valid : RecordOffset(g, Following(g, p)) = End(p)
        /\ End(Last) = TotalBytes(g)
        /\ ~IsValid(g, Following(g, Last))
        /\ SequentialToRecord(g, 1) = At(1, 0, 1)
        /\ \A s \in 1 .. LastSequentialSector(g) :
              /\ Sequential(g, s)
              /\ SequentialToRecord(g, s + 1) = Following(g, SequentialToRecord(g, s))
        /\ ~Sequential(g, LastSequentialSector(g) + 1)
        /\ Probe(g.label, g.bytes, TotalBytes(g)) = {g}

(* A transfer moves all of its records or none, every record that moves is *)
(* one of the volume's and long enough, and a sequential transfer of       *)
(* 1024-byte records never reaches the spare cylinders.                    *)
WholeTransfers(g) ==
    \A s \in 0 .. LastSequentialSector(g) + 2, n \in 1 .. 3, bytes \in {128, g.bytes} :
        LET t == SequentialTransfer(g, s, n, bytes)
        IN  /\ Len(t.moved) \in {0, n}
            /\ \A i \in 1 .. Len(t.moved) :
                  /\ IsValid(g, t.moved[i])
                  /\ TrackSectorBytes(g, t.moved[i].cylinder, t.moved[i].head) >= bytes
                  /\ t.moved[i] = SequentialToRecord(g, s + i - 1)
                  /\ bytes = 1024 => t.moved[i].cylinder <= LastSequentialCylinder(g)
=============================================================================
