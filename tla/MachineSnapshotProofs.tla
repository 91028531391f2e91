------------------------ MODULE MachineSnapshotProofs ------------------------
(***************************************************************************)
(* Proofs about the media, for images and volumes of any size; and about   *)
(* saving and loading a machine, for any diskettes and any kinds of        *)
(* retained operations.  The parts a checkpoint holds are related to one   *)
(* another as those of the machine are (CheckpointsAgree), and while a     *)
(* save is on its way its two halves belong to one machine (SaveAgrees);   *)
(* each theorem adds what it needs of both.                                *)
(***************************************************************************)
EXTENDS MachineSnapshot, SequenceTheorems, WellFoundedInduction, TLAPS

-----------------------------------------------------------------------------
(* Diskette images.                                                        *)

(* The tracks ahead of one of at most two.                                 *)
LEMMA TracksAhead ==
    ASSUME NEW g, NEW c, TrackBytes(g, c, 0) \in Int
    PROVE  /\ MapThenSumSet(LAMBDA k : TrackBytes(g, c, k), 0 .. -1) = 0
           /\ MapThenSumSet(LAMBDA k : TrackBytes(g, c, k), 0 .. 0) = TrackBytes(g, c, 0)
<1> DEFINE T(k) == TrackBytes(g, c, k)
           Step(f, s) == IF s = {} THEN 0
                         ELSE T(CHOOSE x \in s : TRUE) + f[s \ {CHOOSE x \in s : TRUE}]
           Sums(S) == CHOOSE f : f = [s \in SUBSET S |-> Step(f, s)]
<1>1. ASSUME NEW S
      PROVE MapThenSumSet(LAMBDA k : TrackBytes(g, c, k), S) = Sums(S)[S]
  BY Zenon DEF MapThenSumSet, MapThenFoldSet
<1>2. ASSUME NEW S, NEW a, S = {} \/ S = {0}, a = IF S = {} THEN 0 ELSE T(0)
      PROVE  Sums(S)[S] = a
  <2> DEFINE f == [s \in SUBSET S |-> IF s = {} THEN 0 ELSE T(0)]
  <2>1. f = [s \in SUBSET S |-> Step(f, s)]
    <3>1. ASSUME NEW s \in SUBSET S PROVE f[s] = Step(f, s)
      <4>1. CASE s = {}
        BY <4>1
      <4>2. CASE s # {}
        <5>1. s = {0}
          BY <1>2, <4>2
        <5>2. (CHOOSE x \in s : TRUE) = 0
          BY <5>1
        <5>3. f[s \ {0}] = 0 /\ f[s] = T(0)
          BY <5>1
        <5>4. T(0) + 0 = T(0)
          OBVIOUS
        <5> HIDE DEF f, T
        <5> QED BY <4>2, <5>2, <5>3, <5>4
      <4> QED BY <4>1, <4>2
    <3> HIDE DEF Step
    <3> QED BY <3>1
  <2>2. Sums(S) = [s \in SUBSET S |-> Step(Sums(S), s)]
    <3> HIDE DEF f, Step
    <3> QED BY <2>1
  <2>3. Sums(S)[S] = Step(Sums(S), S)
    <3> HIDE DEF Sums, Step
    <3> QED BY <2>2
  <2>4. CASE S = {}
    BY <1>2, <2>3, <2>4
  <2>5. CASE S = {0}
    <3>1. (CHOOSE x \in S : TRUE) = 0 /\ S \ {0} = {} /\ S # {}
      BY <2>5
    <3>2. Sums(S)[{}] = Step(Sums(S), {})
      <4>1. {} \in SUBSET S
        OBVIOUS
      <4> HIDE DEF Sums, Step
      <4> QED BY <2>2, <4>1
    <3>3. Step(Sums(S), {}) = 0
      OBVIOUS
    <3>4. Step(Sums(S), S) = T(0) + Sums(S)[{}]
      <4> HIDE DEF Sums, T
      <4> QED BY <3>1
    <3>5. T(0) + 0 = T(0)
      OBVIOUS
    <3> HIDE DEF Sums, T, Step
    <3> QED BY <1>2, <2>3, <3>1, <3>2, <3>3, <3>4, <3>5
  <2> QED BY <1>2, <2>4, <2>5
<1>3. 0 .. -1 = {} /\ 0 .. 0 = {0}
  OBVIOUS
<1>4. Sums({})[{}] = 0 /\ Sums({0})[{0}] = T(0)
  <2>1. {0} # {}
    OBVIOUS
  <2> HIDE DEF Sums, T
  <2> QED BY <1>2, <2>1
<1>5. /\ MapThenSumSet(LAMBDA k : TrackBytes(g, c, k), {}) = 0
      /\ MapThenSumSet(LAMBDA k : TrackBytes(g, c, k), {0}) = TrackBytes(g, c, 0)
  <2> HIDE DEF Sums
  <2> QED BY <1>1, <1>4, Zenon
<1> QED BY <1>3, <1>5, Zenon

(* The four ways a data track may be written.                              *)
Tracks(g) ==
    \/ g.bytes = 128 /\ g.sectors = 26 /\ g.heads = 1
    \/ g.bytes = 256 /\ g.sectors = 26 /\ g.heads = 2
    \/ g.bytes = 512 /\ g.sectors = 15 /\ g.heads = 2
    \/ g.bytes = 1024 /\ g.sectors = 8 /\ g.heads = 2

(* The numbers of an image.                                                *)
LEMMA ImageIs ==
    ASSUME NEW g, IsImage(g)
    PROVE  /\ Tracks(g) /\ g.label \in {128, 256} /\ g.cylinders \in Nat /\ g.cylinders >= 1
  BY DEF IsImage, Tracks, SectorsFor

(* The parts of a position.                                                *)
LEMMA PlaceIs ==
    ASSUME NEW c, NEW h, NEW r
    PROVE  /\ At(c, h, r).cylinder = c /\ At(c, h, r).head = h /\ At(c, h, r).record = r
  BY DEF At

(* Where a record of the label track begins, and one of a data track.      *)
LEMMA RecordOffsetIs ==
    ASSUME NEW g, IsImage(g), NEW p, p.cylinder \in Nat, p.head \in 0 .. g.heads - 1,
           p.record \in Nat
    PROVE  /\ p.cylinder = 0 /\ p.head = 0 => RecordOffset(g, p) = (p.record - 1) * g.label
           /\ p.cylinder = 0 /\ p.head = 1 =>
                RecordOffset(g, p) = 26 * g.label + (p.record - 1) * 256
           /\ p.cylinder > 0 /\ p.head = 0 =>
                RecordOffset(g, p) = CylinderZeroBytes(g)
                    + (p.cylinder - 1) * g.heads * g.sectors * g.bytes + (p.record - 1) * g.bytes
           /\ p.cylinder > 0 /\ p.head = 1 =>
                RecordOffset(g, p) = CylinderZeroBytes(g)
                    + (p.cylinder - 1) * g.heads * g.sectors * g.bytes
                    + g.sectors * g.bytes + (p.record - 1) * g.bytes
<1>1. Tracks(g) /\ g.label \in {128, 256}
  BY ImageIs
<1>2. p.head \in {0, 1}
  BY <1>1 DEF Tracks
<1> DEFINE c == p.cylinder
           h == p.head
           Ahead == MapThenSumSet(LAMBDA k : TrackBytes(g, c, k), 0 .. h - 1)
           Start == IF c > 0 THEN CylinderZeroBytes(g) + (c - 1) * g.heads * g.sectors * g.bytes
                    ELSE 0
<1>3. TrackBytes(g, c, 0) = IF c = 0 THEN 26 * g.label ELSE g.sectors * g.bytes
  BY DEF TrackBytes, TrackSectors, TrackSectorBytes, LabelSectorsPerTrack
<1>4. TrackBytes(g, c, 0) \in Int
  BY <1>1, <1>3 DEF Tracks
<1>5. Ahead = IF h = 0 THEN 0 ELSE TrackBytes(g, c, 0)
  <2>1. h = 0 => h - 1 = -1
    OBVIOUS
  <2>2. h = 1 => h - 1 = 0
    OBVIOUS
  <2>3. /\ MapThenSumSet(LAMBDA k : TrackBytes(g, c, k), 0 .. -1) = 0
        /\ MapThenSumSet(LAMBDA k : TrackBytes(g, c, k), 0 .. 0) = TrackBytes(g, c, 0)
    BY <1>4, TracksAhead, Zenon
  <2>4. CASE h = 0
    BY <2>1, <2>3, <2>4, Zenon
  <2>5. CASE h = 1
    <3>1. h # 0
      BY <2>5
    <3> QED BY <2>2, <2>3, <2>5, <3>1, Zenon
  <2> QED BY <1>2, <2>4, <2>5
<1>6. TrackOffset(g, c, h) = Start + Ahead
  BY Zenon DEF TrackOffset
<1>7. RecordOffset(g, p) = Start + Ahead + (p.record - 1) * TrackSectorBytes(g, c, h)
  BY <1>6 DEF RecordOffset
<1>8. CylinderZeroBytes(g) \in Nat
  BY <1>1 DEF CylinderZeroBytes, Tracks, LabelSectorsPerTrack, BackLabelBytes
<1> HIDE DEF Ahead
<1>9. CASE c = 0
  <2>1. Start = 0
    BY <1>9
  <2>2. TrackSectorBytes(g, c, h) = IF h = 0 THEN g.label ELSE 256
    BY <1>9 DEF TrackSectorBytes, BackLabelBytes
  <2> QED BY <1>1, <1>2, <1>3, <1>5, <1>7, <1>9, <2>1, <2>2
<1>10. CASE c > 0
  <2>1. TrackSectorBytes(g, c, h) = g.bytes
    BY <1>10 DEF TrackSectorBytes
  <2>2. Start \in Int
    BY <1>1, <1>8 DEF Tracks
  <2>3. Start = CylinderZeroBytes(g) + (c - 1) * g.heads * g.sectors * g.bytes
    BY <1>10
  <2> DEFINE s == Start
  <2>4. RecordOffset(g, p) = s + (IF h = 0 THEN 0 ELSE g.sectors * g.bytes) + (p.record - 1) * g.bytes
    BY <1>3, <1>5, <1>7, <1>10, <2>1
  <2>5. g.sectors * g.bytes \in Int /\ (p.record - 1) * g.bytes \in Int
    BY <1>1 DEF Tracks
  <2> HIDE DEF s
  <2>6. CASE h = 0
    <3>1. RecordOffset(g, p) = s + (p.record - 1) * g.bytes
      BY <2>2, <2>4, <2>5, <2>6 DEF s
    <3> QED BY <1>10, <2>3, <2>6, <3>1 DEF s
  <2>7. CASE h = 1
    BY <1>10, <2>3, <2>4, <2>7 DEF s
  <2> QED BY <1>2, <2>6, <2>7
<1> QED BY <1>9, <1>10

Positions == [cylinder : Nat, head : Nat, record : Nat]

(* Where the record after a position is.                                   *)
LEMMA FollowingIs ==
    ASSUME NEW g, NEW p \in Positions
    PROVE  LET q == Following(g, p) IN
           /\ q \in [cylinder : Nat, head : Nat, record : Nat]
           /\ p.record < TrackSectors(g, p.cylinder) =>
                 q.cylinder = p.cylinder /\ q.head = p.head /\ q.record = p.record + 1
           /\ ~(p.record < TrackSectors(g, p.cylinder)) /\ p.head + 1 < g.heads =>
                 q.cylinder = p.cylinder /\ q.head = p.head + 1 /\ q.record = 1
           /\ ~(p.record < TrackSectors(g, p.cylinder)) /\ ~(p.head + 1 < g.heads) =>
                 q.cylinder = p.cylinder + 1 /\ q.head = 0 /\ q.record = 1
  BY DEF Following, At, Positions

(* The sizes of the tracks, with no case left open.                        *)
LEMMA SizesAre ==
    ASSUME NEW g, NEW c, NEW h
    PROVE  /\ TrackSectors(g, c) = IF c = 0 THEN 26 ELSE g.sectors
           /\ TrackSectorBytes(g, c, h) = IF c # 0 THEN g.bytes ELSE IF h = 0 THEN g.label ELSE 256
           /\ CylinderZeroBytes(g) = 26 * (g.label + IF g.heads > 1 THEN 256 ELSE 0)
<1>1. TrackSectors(g, c) = IF c = 0 THEN 26 ELSE g.sectors
  BY DEF TrackSectors, LabelSectorsPerTrack
<1>5. CylinderZeroBytes(g) = 26 * (g.label + IF g.heads > 1 THEN 256 ELSE 0)
  BY DEF CylinderZeroBytes, LabelSectorsPerTrack, BackLabelBytes
<1>6. TrackSectorBytes(g, c, h) = IF c # 0 THEN g.bytes ELSE IF h = 0 THEN g.label ELSE 256
  <2>1. CASE c # 0
    BY <2>1 DEF TrackSectorBytes
  <2>2. CASE c = 0 /\ h = 0
    BY <2>2 DEF TrackSectorBytes
  <2>3. CASE c = 0 /\ h # 0
    BY <2>3 DEF TrackSectorBytes, BackLabelBytes
  <2> QED BY <2>1, <2>2, <2>3
<1> QED BY <1>1, <1>5, <1>6

(* The same in numbers, for each way.                                      *)
LEMMA OffsetNumbers ==
    ASSUME NEW g, IsImage(g), NEW p \in Positions, p.head < g.heads
    PROVE  /\ p.head \in {0, 1} /\ g.label \in {128, 256}
           /\ p.cylinder = 0 /\ p.head = 0 => RecordOffset(g, p) = (p.record - 1) * g.label
           /\ p.cylinder = 0 /\ p.head = 1 =>
                RecordOffset(g, p) = 26 * g.label + (p.record - 1) * 256
           /\ p.cylinder > 0 /\ g.bytes = 128 =>
                RecordOffset(g, p) = 26 * g.label + 3328 * (p.cylinder - 1) + 128 * (p.record - 1)
           /\ p.cylinder > 0 /\ g.bytes = 256 =>
                RecordOffset(g, p) = 26 * g.label + 6656 + 13312 * (p.cylinder - 1)
                                     + 6656 * p.head + 256 * (p.record - 1)
           /\ p.cylinder > 0 /\ g.bytes = 512 =>
                RecordOffset(g, p) = 26 * g.label + 6656 + 15360 * (p.cylinder - 1)
                                     + 7680 * p.head + 512 * (p.record - 1)
           /\ p.cylinder > 0 /\ g.bytes = 1024 =>
                RecordOffset(g, p) = 26 * g.label + 6656 + 16384 * (p.cylinder - 1)
                                     + 8192 * p.head + 1024 * (p.record - 1)
<1>1. Tracks(g) /\ g.label \in {128, 256}
  BY ImageIs
<1>2. p.cylinder \in Nat /\ p.head \in 0 .. g.heads - 1 /\ p.record \in Nat /\ p.head \in {0, 1}
  BY <1>1 DEF Positions, Tracks
<1>3. CylinderZeroBytes(g) = 26 * (g.label + IF g.heads > 1 THEN 256 ELSE 0)
  BY SizesAre
<1> DEFINE c == p.cylinder
           h == p.head
           r == p.record
           o == RecordOffset(g, p)
           z == CylinderZeroBytes(g)
<1>4. /\ c = 0 /\ h = 0 => o = (r - 1) * g.label
      /\ c = 0 /\ h = 1 => o = 26 * g.label + (r - 1) * 256
      /\ c > 0 /\ h = 0 => o = z + (c - 1) * g.heads * g.sectors * g.bytes + (r - 1) * g.bytes
      /\ c > 0 /\ h = 1 => o = z + (c - 1) * g.heads * g.sectors * g.bytes
                               + g.sectors * g.bytes + (r - 1) * g.bytes
  BY <1>2, RecordOffsetIs
<1>5. c \in Nat /\ h \in {0, 1} /\ r \in Nat
  BY <1>2
<1>6. z = 26 * g.label + (IF g.heads > 1 THEN 6656 ELSE 0)
  BY <1>1, <1>3
<1> HIDE DEF c, h, r, o, z
<1>7. c > 0 /\ g.bytes = 128 => o = 26 * g.label + 3328 * (c - 1) + 128 * (r - 1)
  <2> SUFFICES ASSUME c > 0, g.bytes = 128 PROVE o = 26 * g.label + 3328 * (c - 1) + 128 * (r - 1)
    OBVIOUS
  <2>1. g.sectors = 26 /\ g.heads = 1
    BY <1>1 DEF Tracks
  <2>2. h = 0
    BY <1>2, <2>1 DEF h
  <2> QED BY <1>1, <1>4, <1>5, <1>6, <2>1, <2>2
<1>8. c > 0 /\ g.bytes = 256 => o = 26 * g.label + 6656 + 13312 * (c - 1) + 6656 * h + 256 * (r - 1)
  <2> SUFFICES ASSUME c > 0, g.bytes = 256
               PROVE  o = 26 * g.label + 6656 + 13312 * (c - 1) + 6656 * h + 256 * (r - 1)
    OBVIOUS
  <2>1. g.sectors = 26 /\ g.heads = 2
    BY <1>1 DEF Tracks
  <2> QED BY <1>1, <1>4, <1>5, <1>6, <2>1
<1>9. c > 0 /\ g.bytes = 512 => o = 26 * g.label + 6656 + 15360 * (c - 1) + 7680 * h + 512 * (r - 1)
  <2> SUFFICES ASSUME c > 0, g.bytes = 512
               PROVE  o = 26 * g.label + 6656 + 15360 * (c - 1) + 7680 * h + 512 * (r - 1)
    OBVIOUS
  <2>1. g.sectors = 15 /\ g.heads = 2
    BY <1>1 DEF Tracks
  <2> QED BY <1>1, <1>4, <1>5, <1>6, <2>1
<1>10. c > 0 /\ g.bytes = 1024 => o = 26 * g.label + 6656 + 16384 * (c - 1) + 8192 * h + 1024 * (r - 1)
  <2> SUFFICES ASSUME c > 0, g.bytes = 1024
               PROVE  o = 26 * g.label + 6656 + 16384 * (c - 1) + 8192 * h + 1024 * (r - 1)
    OBVIOUS
  <2>1. g.sectors = 8 /\ g.heads = 2
    BY <1>1 DEF Tracks
  <2> QED BY <1>1, <1>4, <1>5, <1>6, <2>1
<1> QED BY <1>1, <1>2, <1>4, <1>7, <1>8, <1>9, <1>10 DEF c, h, r, o

(* Each record begins where the one before it ends.                        *)
LEMMA EndToEnd ==
    ASSUME NEW g, IsImage(g), NEW p \in Positions, IsValid(g, p)
    PROVE  RecordOffset(g, Following(g, p))
               = RecordOffset(g, p) + TrackSectorBytes(g, p.cylinder, p.head)
<1> DEFINE q == Following(g, p)
           S == TrackSectors(g, p.cylinder)
           B == TrackSectorBytes(g, p.cylinder, p.head)
<1>1. Tracks(g) /\ g.label \in {128, 256} /\ g.cylinders \in Nat
  BY ImageIs
<1>3. /\ S = IF p.cylinder = 0 THEN 26 ELSE g.sectors
      /\ B = IF p.cylinder # 0 THEN g.bytes ELSE IF p.head = 0 THEN g.label ELSE 256
  BY SizesAre
<1>2. /\ p.cylinder \in Nat /\ p.head \in Nat /\ p.record \in Nat
      /\ p.head < g.heads /\ p.record >= 1 /\ p.record <= S
  BY <1>1, <1>3 DEF IsValid, Tracks, Positions
<1>4. q \in Positions
  BY FollowingIs DEF Positions
<1>5. /\ p.record < S => q.cylinder = p.cylinder /\ q.head = p.head /\ q.record = p.record + 1
      /\ ~(p.record < S) /\ p.head + 1 < g.heads =>
            q.cylinder = p.cylinder /\ q.head = p.head + 1 /\ q.record = 1
      /\ ~(p.record < S) /\ ~(p.head + 1 < g.heads) =>
            q.cylinder = p.cylinder + 1 /\ q.head = 0 /\ q.record = 1
  BY FollowingIs
<1> HIDE DEF q, S, B
<1>6. q.head < g.heads
  BY <1>1, <1>2, <1>5 DEF Tracks
<1> DEFINE l == g.label
           b == g.bytes
           c == p.cylinder
           h == p.head
           r == p.record
           o == RecordOffset(g, p)
           cq == q.cylinder
           hq == q.head
           rq == q.record
           oq == RecordOffset(g, q)
<1>7. /\ c \in Nat /\ h \in {0, 1} /\ r \in Nat /\ r >= 1 /\ r <= S
      /\ cq \in Nat /\ hq \in {0, 1} /\ rq \in Nat /\ l \in {128, 256}
      /\ b \in {128, 256, 512, 1024} /\ h < g.heads
  BY <1>1, <1>2, <1>4, <1>6, OffsetNumbers DEF Positions, Tracks
<1>8. /\ c = 0 /\ h = 0 => o = (r - 1) * l
      /\ c = 0 /\ h = 1 => o = 26 * l + (r - 1) * 256
      /\ c > 0 /\ b = 128 => o = 26 * l + 3328 * (c - 1) + 128 * (r - 1)
      /\ c > 0 /\ b = 256 => o = 26 * l + 6656 + 13312 * (c - 1) + 6656 * h + 256 * (r - 1)
      /\ c > 0 /\ b = 512 => o = 26 * l + 6656 + 15360 * (c - 1) + 7680 * h + 512 * (r - 1)
      /\ c > 0 /\ b = 1024 => o = 26 * l + 6656 + 16384 * (c - 1) + 8192 * h + 1024 * (r - 1)
  BY <1>2, OffsetNumbers
<1>9. /\ cq = 0 /\ hq = 0 => oq = (rq - 1) * l
      /\ cq = 0 /\ hq = 1 => oq = 26 * l + (rq - 1) * 256
      /\ cq > 0 /\ b = 128 => oq = 26 * l + 3328 * (cq - 1) + 128 * (rq - 1)
      /\ cq > 0 /\ b = 256 => oq = 26 * l + 6656 + 13312 * (cq - 1) + 6656 * hq + 256 * (rq - 1)
      /\ cq > 0 /\ b = 512 => oq = 26 * l + 6656 + 15360 * (cq - 1) + 7680 * hq + 512 * (rq - 1)
      /\ cq > 0 /\ b = 1024 =>
            oq = 26 * l + 6656 + 16384 * (cq - 1) + 8192 * hq + 1024 * (rq - 1)
  BY <1>4, <1>6, OffsetNumbers
<1>10. /\ r < S => cq = c /\ hq = h /\ rq = r + 1
       /\ ~(r < S) /\ h + 1 < g.heads => cq = c /\ hq = h + 1 /\ rq = 1
       /\ ~(r < S) /\ ~(h + 1 < g.heads) => cq = c + 1 /\ hq = 0 /\ rq = 1
  BY <1>5
<1>11. /\ S = IF c = 0 THEN 26 ELSE g.sectors
       /\ B = IF c # 0 THEN b ELSE IF h = 0 THEN l ELSE 256
  BY <1>3
<1>12. \/ b = 128 /\ g.sectors = 26 /\ g.heads = 1
       \/ b = 256 /\ g.sectors = 26 /\ g.heads = 2
       \/ b = 512 /\ g.sectors = 15 /\ g.heads = 2
       \/ b = 1024 /\ g.sectors = 8 /\ g.heads = 2
  BY <1>1 DEF Tracks
<1> HIDE DEF l, b, c, h, r, o, cq, hq, rq, oq
<1>13. ASSUME l = 128 \/ l = 256 PROVE oq = o + B
  <2>1. CASE c = 0 /\ r < S
    BY <1>7, <1>8, <1>9, <1>10, <1>11, <1>13, <2>1
  <2>2. CASE c = 0 /\ ~(r < S) /\ h + 1 < g.heads
    BY <1>7, <1>8, <1>9, <1>10, <1>11, <1>12, <1>13, <2>2
  <2>3. CASE c = 0 /\ ~(r < S) /\ ~(h + 1 < g.heads)
    BY <1>7, <1>8, <1>9, <1>10, <1>11, <1>12, <1>13, <2>3
  <2>4. CASE c > 0 /\ b = 128
    BY <1>7, <1>8, <1>9, <1>10, <1>11, <1>12, <2>4
  <2>5. CASE c > 0 /\ b = 256
    BY <1>7, <1>8, <1>9, <1>10, <1>11, <1>12, <2>5
  <2>6. CASE c > 0 /\ b = 512
    BY <1>7, <1>8, <1>9, <1>10, <1>11, <1>12, <2>6
  <2>7. CASE c > 0 /\ b = 1024
    BY <1>7, <1>8, <1>9, <1>10, <1>11, <1>12, <2>7
  <2> QED BY <1>7, <2>1, <2>2, <2>3, <2>4, <2>5, <2>6, <2>7
<1>14. oq = o + B
  BY <1>7, <1>13
<1> QED BY <1>14 DEF o, oq, q, B

(* The sequential addresses count the records of the data tracks, and the  *)
(* last ones are those of the last cylinder but two.                       *)
LEMMA SequentialParts ==
    ASSUME NEW g, IsImage(g), NEW s \in Nat, s >= 1
    PROVE  LET p == SequentialToRecord(g, s)
               q == SequentialToRecord(g, s + 1)
           IN  /\ p.cylinder \in Nat /\ p.cylinder >= 1 /\ p.head \in Nat /\ p.head < g.heads
               /\ p.record \in 1 .. g.sectors
               /\ p.record < g.sectors =>
                     q.cylinder = p.cylinder /\ q.head = p.head /\ q.record = p.record + 1
               /\ ~(p.record < g.sectors) /\ p.head + 1 < g.heads =>
                     q.cylinder = p.cylinder /\ q.head = p.head + 1 /\ q.record = 1
               /\ ~(p.record < g.sectors) /\ ~(p.head + 1 < g.heads) =>
                     q.cylinder = p.cylinder + 1 /\ q.head = 0 /\ q.record = 1
               /\ s <= (g.cylinders - 3) * g.heads * g.sectors <=> p.cylinder <= g.cylinders - 3
<1> DEFINE C(t) == 1 + (t - 1) \div (g.sectors * g.heads)
           H(t) == ((t - 1) % (g.sectors * g.heads)) \div g.sectors
           R(t) == (((t - 1) % (g.sectors * g.heads)) % g.sectors) + 1
<1>1. Tracks(g)
  BY ImageIs
<1>2. g.cylinders \in Nat
  BY ImageIs
<1>3. SUFFICES
        /\ C(s) \in Nat /\ C(s) >= 1 /\ H(s) \in Nat /\ H(s) < g.heads /\ R(s) \in 1 .. g.sectors
        /\ R(s) < g.sectors => C(s + 1) = C(s) /\ H(s + 1) = H(s) /\ R(s + 1) = R(s) + 1
        /\ ~(R(s) < g.sectors) /\ H(s) + 1 < g.heads =>
              C(s + 1) = C(s) /\ H(s + 1) = H(s) + 1 /\ R(s + 1) = 1
        /\ ~(R(s) < g.sectors) /\ ~(H(s) + 1 < g.heads) =>
              C(s + 1) = C(s) + 1 /\ H(s + 1) = 0 /\ R(s + 1) = 1
        /\ s <= (g.cylinders - 3) * g.heads * g.sectors <=> C(s) <= g.cylinders - 3
  <2>1. ASSUME NEW t
        PROVE  /\ SequentialToRecord(g, t).cylinder = C(t)
               /\ SequentialToRecord(g, t).head = H(t)
               /\ SequentialToRecord(g, t).record = R(t)
    <3>1. SequentialToRecord(g, t) = At(C(t), H(t), R(t))
      BY Zenon DEF SequentialToRecord
    <3> HIDE DEF C, H, R
    <3> QED BY <3>1, PlaceIs
  <2> HIDE DEF C, H, R
  <2> QED BY <2>1
<1>4. CASE g.bytes = 128
  <2>1. g.sectors = 26 /\ g.heads = 1
    BY <1>1, <1>4 DEF Tracks
  <2>2. g.sectors * g.heads = 26
    BY <2>1
  <2>3. ASSUME NEW t
        PROVE  /\ C(t) = 1 + (t - 1) \div 26 /\ H(t) = ((t - 1) % 26) \div 26
               /\ R(t) = (((t - 1) % 26) % 26) + 1
    <3> DEFINE m == g.sectors * g.heads
               k == g.sectors
    <3>1. m = 26 /\ k = 26
      BY <2>1, <2>2
    <3>2. /\ C(t) = 1 + (t - 1) \div m /\ H(t) = ((t - 1) % m) \div k
          /\ R(t) = (((t - 1) % m) % k) + 1
      OBVIOUS
    <3> HIDE DEF m, k, C, H, R
    <3> QED BY <3>1, <3>2
  <2> HIDE DEF C, H, R
  <2>4. /\ C(s) \in Nat /\ C(s) >= 1 /\ H(s) \in Nat /\ H(s) < 1 /\ R(s) \in 1 .. 26
        /\ R(s) < 26 => C(s + 1) = C(s) /\ H(s + 1) = H(s) /\ R(s + 1) = R(s) + 1
        /\ ~(R(s) < 26) /\ H(s) + 1 < 1 =>
              C(s + 1) = C(s) /\ H(s + 1) = H(s) + 1 /\ R(s + 1) = 1
        /\ ~(R(s) < 26) /\ ~(H(s) + 1 < 1) =>
              C(s + 1) = C(s) + 1 /\ H(s + 1) = 0 /\ R(s + 1) = 1
    <3> DEFINE Q == (s - 1) \div 26
               W == (s - 1) % 26
               J == W \div 26
               K == W % 26
    <3>1. Q \in Nat /\ W \in 0 .. 25 /\ s = 26 * Q + W + 1
      OBVIOUS
    <3>2. /\ W + 1 < 26 => (s + 1 - 1) \div 26 = Q /\ (s + 1 - 1) % 26 = W + 1
          /\ ~(W + 1 < 26) => (s + 1 - 1) \div 26 = Q + 1 /\ (s + 1 - 1) % 26 = 0
      <4> HIDE DEF Q, W
      <4> QED BY <3>1
    <3>3. C(s) = 1 + Q /\ H(s) = J /\ R(s) = K + 1
      BY <2>3
    <3> HIDE DEF Q, W
    <3>4. J \in 0 .. 0 /\ K \in 0 .. 25 /\ W = 26 * J + K
      BY <3>1
    <3>5. /\ C(s + 1) = 1 + (s + 1 - 1) \div 26 /\ H(s + 1) = ((s + 1 - 1) % 26) \div 26
          /\ R(s + 1) = (((s + 1 - 1) % 26) % 26) + 1
      BY <2>3
    <3> HIDE DEF J, K
    <3>6. CASE K + 1 < 26
      <4>1. (W + 1) \div 26 = J /\ (W + 1) % 26 = K + 1 /\ W + 1 < 26
        BY <3>1, <3>4, <3>6
      <4> QED BY <3>1, <3>2, <3>3, <3>4, <3>5, <3>6, <4>1
    <3>7. CASE ~(K + 1 < 26) /\ J + 1 < 1
      <4>1. (W + 1) \div 26 = J + 1 /\ (W + 1) % 26 = 0 /\ W + 1 < 26
        BY <3>1, <3>4, <3>7
      <4> QED BY <3>1, <3>2, <3>3, <3>4, <3>5, <3>7, <4>1
    <3>8. CASE ~(K + 1 < 26) /\ ~(J + 1 < 1)
      <4>1. ~(W + 1 < 26) /\ 0 \div 26 = 0 /\ 0 % 26 = 0
        BY <3>1, <3>4, <3>8
      <4> QED BY <3>1, <3>2, <3>3, <3>4, <3>5, <3>8, <4>1
    <3> QED BY <3>6, <3>7, <3>8
  <2>5. s <= (g.cylinders - 3) * 26 <=> C(s) <= g.cylinders - 3
    BY <1>2, <2>3
  <2>6. (g.cylinders - 3) * g.heads * g.sectors = (g.cylinders - 3) * 26
    BY <1>2, <2>1
  <2> QED BY <2>1, <2>4, <2>5, <2>6
<1>5. CASE g.bytes = 256
  <2>1. g.sectors = 26 /\ g.heads = 2
    BY <1>1, <1>5 DEF Tracks
  <2>2. g.sectors * g.heads = 52
    BY <2>1
  <2>3. ASSUME NEW t
        PROVE  /\ C(t) = 1 + (t - 1) \div 52 /\ H(t) = ((t - 1) % 52) \div 26
               /\ R(t) = (((t - 1) % 52) % 26) + 1
    <3> DEFINE m == g.sectors * g.heads
               k == g.sectors
    <3>1. m = 52 /\ k = 26
      BY <2>1, <2>2
    <3>2. /\ C(t) = 1 + (t - 1) \div m /\ H(t) = ((t - 1) % m) \div k
          /\ R(t) = (((t - 1) % m) % k) + 1
      OBVIOUS
    <3> HIDE DEF m, k, C, H, R
    <3> QED BY <3>1, <3>2
  <2> HIDE DEF C, H, R
  <2>4. /\ C(s) \in Nat /\ C(s) >= 1 /\ H(s) \in Nat /\ H(s) < 2 /\ R(s) \in 1 .. 26
        /\ R(s) < 26 => C(s + 1) = C(s) /\ H(s + 1) = H(s) /\ R(s + 1) = R(s) + 1
        /\ ~(R(s) < 26) /\ H(s) + 1 < 2 =>
              C(s + 1) = C(s) /\ H(s + 1) = H(s) + 1 /\ R(s + 1) = 1
        /\ ~(R(s) < 26) /\ ~(H(s) + 1 < 2) =>
              C(s + 1) = C(s) + 1 /\ H(s + 1) = 0 /\ R(s + 1) = 1
    <3> DEFINE Q == (s - 1) \div 52
               W == (s - 1) % 52
               J == W \div 26
               K == W % 26
    <3>1. Q \in Nat /\ W \in 0 .. 51 /\ s = 52 * Q + W + 1
      OBVIOUS
    <3>2. /\ W + 1 < 52 => (s + 1 - 1) \div 52 = Q /\ (s + 1 - 1) % 52 = W + 1
          /\ ~(W + 1 < 52) => (s + 1 - 1) \div 52 = Q + 1 /\ (s + 1 - 1) % 52 = 0
      <4> HIDE DEF Q, W
      <4> QED BY <3>1
    <3>3. C(s) = 1 + Q /\ H(s) = J /\ R(s) = K + 1
      BY <2>3
    <3> HIDE DEF Q, W
    <3>4. J \in 0 .. 1 /\ K \in 0 .. 25 /\ W = 26 * J + K
      BY <3>1
    <3>5. /\ C(s + 1) = 1 + (s + 1 - 1) \div 52 /\ H(s + 1) = ((s + 1 - 1) % 52) \div 26
          /\ R(s + 1) = (((s + 1 - 1) % 52) % 26) + 1
      BY <2>3
    <3> HIDE DEF J, K
    <3>6. CASE K + 1 < 26
      <4>1. (W + 1) \div 26 = J /\ (W + 1) % 26 = K + 1 /\ W + 1 < 52
        BY <3>1, <3>4, <3>6
      <4> QED BY <3>1, <3>2, <3>3, <3>4, <3>5, <3>6, <4>1
    <3>7. CASE ~(K + 1 < 26) /\ J + 1 < 2
      <4>1. (W + 1) \div 26 = J + 1 /\ (W + 1) % 26 = 0 /\ W + 1 < 52
        BY <3>1, <3>4, <3>7
      <4> QED BY <3>1, <3>2, <3>3, <3>4, <3>5, <3>7, <4>1
    <3>8. CASE ~(K + 1 < 26) /\ ~(J + 1 < 2)
      <4>1. ~(W + 1 < 52) /\ 0 \div 26 = 0 /\ 0 % 26 = 0
        BY <3>1, <3>4, <3>8
      <4> QED BY <3>1, <3>2, <3>3, <3>4, <3>5, <3>8, <4>1
    <3> QED BY <3>6, <3>7, <3>8
  <2>5. s <= (g.cylinders - 3) * 52 <=> C(s) <= g.cylinders - 3
    BY <1>2, <2>3
  <2>6. (g.cylinders - 3) * g.heads * g.sectors = (g.cylinders - 3) * 52
    BY <1>2, <2>1
  <2> QED BY <2>1, <2>4, <2>5, <2>6
<1>6. CASE g.bytes = 512
  <2>1. g.sectors = 15 /\ g.heads = 2
    BY <1>1, <1>6 DEF Tracks
  <2>2. g.sectors * g.heads = 30
    BY <2>1
  <2>3. ASSUME NEW t
        PROVE  /\ C(t) = 1 + (t - 1) \div 30 /\ H(t) = ((t - 1) % 30) \div 15
               /\ R(t) = (((t - 1) % 30) % 15) + 1
    <3> DEFINE m == g.sectors * g.heads
               k == g.sectors
    <3>1. m = 30 /\ k = 15
      BY <2>1, <2>2
    <3>2. /\ C(t) = 1 + (t - 1) \div m /\ H(t) = ((t - 1) % m) \div k
          /\ R(t) = (((t - 1) % m) % k) + 1
      OBVIOUS
    <3> HIDE DEF m, k, C, H, R
    <3> QED BY <3>1, <3>2
  <2> HIDE DEF C, H, R
  <2>4. /\ C(s) \in Nat /\ C(s) >= 1 /\ H(s) \in Nat /\ H(s) < 2 /\ R(s) \in 1 .. 15
        /\ R(s) < 15 => C(s + 1) = C(s) /\ H(s + 1) = H(s) /\ R(s + 1) = R(s) + 1
        /\ ~(R(s) < 15) /\ H(s) + 1 < 2 =>
              C(s + 1) = C(s) /\ H(s + 1) = H(s) + 1 /\ R(s + 1) = 1
        /\ ~(R(s) < 15) /\ ~(H(s) + 1 < 2) =>
              C(s + 1) = C(s) + 1 /\ H(s + 1) = 0 /\ R(s + 1) = 1
    <3> DEFINE Q == (s - 1) \div 30
               W == (s - 1) % 30
               J == W \div 15
               K == W % 15
    <3>1. Q \in Nat /\ W \in 0 .. 29 /\ s = 30 * Q + W + 1
      OBVIOUS
    <3>2. /\ W + 1 < 30 => (s + 1 - 1) \div 30 = Q /\ (s + 1 - 1) % 30 = W + 1
          /\ ~(W + 1 < 30) => (s + 1 - 1) \div 30 = Q + 1 /\ (s + 1 - 1) % 30 = 0
      <4> HIDE DEF Q, W
      <4> QED BY <3>1
    <3>3. C(s) = 1 + Q /\ H(s) = J /\ R(s) = K + 1
      BY <2>3
    <3> HIDE DEF Q, W
    <3>4. J \in 0 .. 1 /\ K \in 0 .. 14 /\ W = 15 * J + K
      BY <3>1
    <3>5. /\ C(s + 1) = 1 + (s + 1 - 1) \div 30 /\ H(s + 1) = ((s + 1 - 1) % 30) \div 15
          /\ R(s + 1) = (((s + 1 - 1) % 30) % 15) + 1
      BY <2>3
    <3> HIDE DEF J, K
    <3>6. CASE K + 1 < 15
      <4>1. (W + 1) \div 15 = J /\ (W + 1) % 15 = K + 1 /\ W + 1 < 30
        BY <3>1, <3>4, <3>6
      <4> QED BY <3>1, <3>2, <3>3, <3>4, <3>5, <3>6, <4>1
    <3>7. CASE ~(K + 1 < 15) /\ J + 1 < 2
      <4>1. (W + 1) \div 15 = J + 1 /\ (W + 1) % 15 = 0 /\ W + 1 < 30
        BY <3>1, <3>4, <3>7
      <4> QED BY <3>1, <3>2, <3>3, <3>4, <3>5, <3>7, <4>1
    <3>8. CASE ~(K + 1 < 15) /\ ~(J + 1 < 2)
      <4>1. ~(W + 1 < 30) /\ 0 \div 15 = 0 /\ 0 % 15 = 0
        BY <3>1, <3>4, <3>8
      <4> QED BY <3>1, <3>2, <3>3, <3>4, <3>5, <3>8, <4>1
    <3> QED BY <3>6, <3>7, <3>8
  <2>5. s <= (g.cylinders - 3) * 30 <=> C(s) <= g.cylinders - 3
    BY <1>2, <2>3
  <2>6. (g.cylinders - 3) * g.heads * g.sectors = (g.cylinders - 3) * 30
    BY <1>2, <2>1
  <2> QED BY <2>1, <2>4, <2>5, <2>6
<1>7. CASE g.bytes = 1024
  <2>1. g.sectors = 8 /\ g.heads = 2
    BY <1>1, <1>7 DEF Tracks
  <2>2. g.sectors * g.heads = 16
    BY <2>1
  <2>3. ASSUME NEW t
        PROVE  /\ C(t) = 1 + (t - 1) \div 16 /\ H(t) = ((t - 1) % 16) \div 8
               /\ R(t) = (((t - 1) % 16) % 8) + 1
    <3> DEFINE m == g.sectors * g.heads
               k == g.sectors
    <3>1. m = 16 /\ k = 8
      BY <2>1, <2>2
    <3>2. /\ C(t) = 1 + (t - 1) \div m /\ H(t) = ((t - 1) % m) \div k
          /\ R(t) = (((t - 1) % m) % k) + 1
      OBVIOUS
    <3> HIDE DEF m, k, C, H, R
    <3> QED BY <3>1, <3>2
  <2> HIDE DEF C, H, R
  <2>4. /\ C(s) \in Nat /\ C(s) >= 1 /\ H(s) \in Nat /\ H(s) < 2 /\ R(s) \in 1 .. 8
        /\ R(s) < 8 => C(s + 1) = C(s) /\ H(s + 1) = H(s) /\ R(s + 1) = R(s) + 1
        /\ ~(R(s) < 8) /\ H(s) + 1 < 2 =>
              C(s + 1) = C(s) /\ H(s + 1) = H(s) + 1 /\ R(s + 1) = 1
        /\ ~(R(s) < 8) /\ ~(H(s) + 1 < 2) =>
              C(s + 1) = C(s) + 1 /\ H(s + 1) = 0 /\ R(s + 1) = 1
    <3> DEFINE Q == (s - 1) \div 16
               W == (s - 1) % 16
               J == W \div 8
               K == W % 8
    <3>1. Q \in Nat /\ W \in 0 .. 15 /\ s = 16 * Q + W + 1
      OBVIOUS
    <3>2. /\ W + 1 < 16 => (s + 1 - 1) \div 16 = Q /\ (s + 1 - 1) % 16 = W + 1
          /\ ~(W + 1 < 16) => (s + 1 - 1) \div 16 = Q + 1 /\ (s + 1 - 1) % 16 = 0
      <4> HIDE DEF Q, W
      <4> QED BY <3>1
    <3>3. C(s) = 1 + Q /\ H(s) = J /\ R(s) = K + 1
      BY <2>3
    <3> HIDE DEF Q, W
    <3>4. J \in 0 .. 1 /\ K \in 0 .. 7 /\ W = 8 * J + K
      BY <3>1
    <3>5. /\ C(s + 1) = 1 + (s + 1 - 1) \div 16 /\ H(s + 1) = ((s + 1 - 1) % 16) \div 8
          /\ R(s + 1) = (((s + 1 - 1) % 16) % 8) + 1
      BY <2>3
    <3> HIDE DEF J, K
    <3>6. CASE K + 1 < 8
      <4>1. (W + 1) \div 8 = J /\ (W + 1) % 8 = K + 1 /\ W + 1 < 16
        BY <3>1, <3>4, <3>6
      <4> QED BY <3>1, <3>2, <3>3, <3>4, <3>5, <3>6, <4>1
    <3>7. CASE ~(K + 1 < 8) /\ J + 1 < 2
      <4>1. (W + 1) \div 8 = J + 1 /\ (W + 1) % 8 = 0 /\ W + 1 < 16
        BY <3>1, <3>4, <3>7
      <4> QED BY <3>1, <3>2, <3>3, <3>4, <3>5, <3>7, <4>1
    <3>8. CASE ~(K + 1 < 8) /\ ~(J + 1 < 2)
      <4>1. ~(W + 1 < 16) /\ 0 \div 8 = 0 /\ 0 % 8 = 0
        BY <3>1, <3>4, <3>8
      <4> QED BY <3>1, <3>2, <3>3, <3>4, <3>5, <3>8, <4>1
    <3> QED BY <3>6, <3>7, <3>8
  <2>5. s <= (g.cylinders - 3) * 16 <=> C(s) <= g.cylinders - 3
    BY <1>2, <2>3
  <2>6. (g.cylinders - 3) * g.heads * g.sectors = (g.cylinders - 3) * 16
    BY <1>2, <2>1
  <2> QED BY <2>1, <2>4, <2>5, <2>6
<1> HIDE DEF C, H, R
<1> QED BY <1>1, <1>4, <1>5, <1>6, <1>7 DEF Tracks

(* The next sequential address is the next record.                         *)
LEMMA SequentialFollows ==
    ASSUME NEW g, IsImage(g), NEW s \in Nat, s >= 1
    PROVE  /\ SequentialToRecord(g, s) \in Positions
           /\ SequentialToRecord(g, s).cylinder >= 1
           /\ SequentialToRecord(g, s + 1) = Following(g, SequentialToRecord(g, s))
           /\ Sequential(g, s) <=> s <= LastSequentialSector(g)
           /\ IsValid(g, SequentialToRecord(g, s)) <=>
                 SequentialToRecord(g, s).cylinder < g.cylinders
<1> DEFINE p == SequentialToRecord(g, s)
           q == SequentialToRecord(g, s + 1)
           f == Following(g, p)
<1>1. /\ p.cylinder \in Nat /\ p.cylinder >= 1 /\ p.head \in Nat /\ p.head < g.heads
      /\ p.record \in 1 .. g.sectors
      /\ p.record < g.sectors =>
            q.cylinder = p.cylinder /\ q.head = p.head /\ q.record = p.record + 1
      /\ ~(p.record < g.sectors) /\ p.head + 1 < g.heads =>
            q.cylinder = p.cylinder /\ q.head = p.head + 1 /\ q.record = 1
      /\ ~(p.record < g.sectors) /\ ~(p.head + 1 < g.heads) =>
            q.cylinder = p.cylinder + 1 /\ q.head = 0 /\ q.record = 1
      /\ s <= (g.cylinders - 3) * g.heads * g.sectors <=> p.cylinder <= g.cylinders - 3
  BY SequentialParts
<1>2. /\ s + 1 \in Nat /\ s + 1 >= 1
  OBVIOUS
<1>3. /\ q.cylinder \in Nat /\ q.head \in Nat /\ q.record \in 1 .. g.sectors
  BY <1>2, SequentialParts
<1>4. Tracks(g) /\ g.cylinders \in Nat
  BY ImageIs
<1>5. g.sectors \in Nat /\ g.heads \in Nat
  BY <1>4 DEF Tracks
<1>6. p \in [cylinder : Nat, head : Nat, record : Nat] /\ q \in [cylinder : Nat, head : Nat, record : Nat]
  <2>1. ASSUME NEW t
        PROVE  /\ SequentialToRecord(g, t) = [cylinder |-> SequentialToRecord(g, t).cylinder,
                     head |-> SequentialToRecord(g, t).head,
                     record |-> SequentialToRecord(g, t).record]
    BY DEF SequentialToRecord, At
  <2> DEFINE P == SequentialToRecord(g, s)
             Q == SequentialToRecord(g, s + 1)
  <2>2. P = [cylinder |-> P.cylinder, head |-> P.head, record |-> P.record]
    BY <2>1
  <2>3. Q = [cylinder |-> Q.cylinder, head |-> Q.head, record |-> Q.record]
    BY <2>1
  <2> HIDE DEF P, Q
  <2>4. P.cylinder \in Nat /\ P.head \in Nat /\ P.record \in Nat
    BY <1>1, <1>5 DEF P
  <2>5. Q.cylinder \in Nat /\ Q.head \in Nat /\ Q.record \in Nat
    BY <1>3, <1>5 DEF Q
  <2>6. P \in [cylinder : Nat, head : Nat, record : Nat]
    BY <2>2, <2>4
  <2>7. Q \in [cylinder : Nat, head : Nat, record : Nat]
    BY <2>3, <2>5
  <2> QED BY <2>6, <2>7 DEF P, Q
<1>7. p \in Positions
  BY <1>6 DEF Positions
<1>8. TrackSectors(g, p.cylinder) = g.sectors
  <2> HIDE DEF p, q
  <2>1. p.cylinder # 0
    BY <1>1
  <2> QED BY <2>1, SizesAre
<1> HIDE DEF p, q
<1>9. f \in [cylinder : Nat, head : Nat, record : Nat] /\ f = q
  <2>1. /\ f \in [cylinder : Nat, head : Nat, record : Nat]
        /\ p.record < g.sectors =>
              f.cylinder = p.cylinder /\ f.head = p.head /\ f.record = p.record + 1
        /\ ~(p.record < g.sectors) /\ p.head + 1 < g.heads =>
              f.cylinder = p.cylinder /\ f.head = p.head + 1 /\ f.record = 1
        /\ ~(p.record < g.sectors) /\ ~(p.head + 1 < g.heads) =>
              f.cylinder = p.cylinder + 1 /\ f.head = 0 /\ f.record = 1
    BY <1>7, <1>8, FollowingIs
  <2> HIDE DEF f
  <2>2. f.cylinder = q.cylinder /\ f.head = q.head /\ f.record = q.record
    BY <1>1, <2>1
  <2> QED BY <1>6, <2>1, <2>2
<1>10. Sequential(g, s) <=> s <= LastSequentialSector(g)
  BY <1>1 DEF Sequential, LastSequentialSector, LastSequentialCylinder, p
<1>11. IsValid(g, p) <=> p.cylinder < g.cylinders
  BY <1>1, <1>4, <1>5, <1>8 DEF IsValid
<1> QED BY <1>1, <1>7, <1>9, <1>10, <1>11 DEF p, q, f

(* The cylinders of an image are all it holds.                             *)
LEMMA TotalIs ==
    ASSUME NEW g, IsImage(g)
    PROVE  LET Last == At(g.cylinders - 1, g.heads - 1, TrackSectors(g, g.cylinders - 1))
           IN  /\ RecordOffset(g, Last) + TrackSectorBytes(g, Last.cylinder, Last.head)
                    = TotalBytes(g)
               /\ ~IsValid(g, Following(g, Last))
<1> DEFINE c == g.cylinders - 1
           h == g.heads - 1
           S == TrackSectors(g, c)
           Last == At(c, h, S)
           q == Following(g, Last)
           o == RecordOffset(g, Last)
           b == g.bytes
           l == g.label
           B == TrackSectorBytes(g, c, h)
<1>1. Tracks(g) /\ g.label \in {128, 256} /\ g.cylinders \in Nat /\ g.cylinders >= 1
  BY ImageIs
<1>2. Last.cylinder = c /\ Last.head = h /\ Last.record = S
  BY PlaceIs
<1>3. /\ S = IF c = 0 THEN 26 ELSE g.sectors
      /\ B = IF c # 0 THEN g.bytes ELSE IF h = 0 THEN g.label ELSE 256
      /\ CylinderZeroBytes(g) = 26 * (g.label + IF g.heads > 1 THEN 256 ELSE 0)
  <2> HIDE DEF c, h
  <2> QED BY SizesAre
<1>4. c \in Nat /\ h \in {0, 1} /\ S \in Nat /\ h < g.heads /\ g.heads \in Nat
  BY <1>1, <1>3 DEF Tracks
<1>5. Last \in Positions
  <2>1. Last = [cylinder |-> c, head |-> h, record |-> S]
    BY DEF At
  <2> HIDE DEF Last, c, h, S
  <2>2. h \in Nat
    BY <1>4
  <2> QED BY <1>4, <2>1, <2>2 DEF Positions
<1>6. /\ c = 0 /\ h = 0 => o = (S - 1) * l
      /\ c = 0 /\ h = 1 => o = 26 * l + (S - 1) * 256
      /\ c > 0 /\ b = 128 => o = 26 * l + 3328 * (c - 1) + 128 * (S - 1)
      /\ c > 0 /\ b = 256 => o = 26 * l + 6656 + 13312 * (c - 1) + 6656 * h + 256 * (S - 1)
      /\ c > 0 /\ b = 512 => o = 26 * l + 6656 + 15360 * (c - 1) + 7680 * h + 512 * (S - 1)
      /\ c > 0 /\ b = 1024 => o = 26 * l + 6656 + 16384 * (c - 1) + 8192 * h + 1024 * (S - 1)
  <2> HIDE DEF Last, c, h, S
  <2>1. Last.head < g.heads
    BY <1>2, <1>4
  <2>2. /\ Last.cylinder = 0 /\ Last.head = 0 => o = (Last.record - 1) * l
        /\ Last.cylinder = 0 /\ Last.head = 1 => o = 26 * l + (Last.record - 1) * 256
        /\ Last.cylinder > 0 /\ b = 128 =>
             o = 26 * l + 3328 * (Last.cylinder - 1) + 128 * (Last.record - 1)
        /\ Last.cylinder > 0 /\ b = 256 =>
             o = 26 * l + 6656 + 13312 * (Last.cylinder - 1) + 6656 * Last.head + 256 * (Last.record - 1)
        /\ Last.cylinder > 0 /\ b = 512 =>
             o = 26 * l + 6656 + 15360 * (Last.cylinder - 1) + 7680 * Last.head + 512 * (Last.record - 1)
        /\ Last.cylinder > 0 /\ b = 1024 =>
             o = 26 * l + 6656 + 16384 * (Last.cylinder - 1) + 8192 * Last.head + 1024 * (Last.record - 1)
    BY <1>5, <2>1, OffsetNumbers
  <2> HIDE DEF o, b, l
  <2> QED BY <1>2, <2>2
<1>7. TotalBytes(g) = CylinderZeroBytes(g) + c * g.heads * g.sectors * b
  BY DEF TotalBytes
<1>8. o + B = TotalBytes(g)
  <2>1. l \in {128, 256} /\ c \in Nat /\ h \in {0, 1} /\ h = g.heads - 1
    BY <1>1, <1>4
  <2> HIDE DEF o, c, h, S, B, Last, l
  <2>2. CylinderZeroBytes(g) = 26 * l + IF h = 1 THEN 6656 ELSE 0
    BY <1>1, <1>3, <2>1 DEF l, Tracks
  <2>3. CASE b = 128
    <3>1. g.sectors = 26 /\ g.heads = 1
      BY <1>1, <2>3 DEF Tracks
    <3> QED BY <1>3, <1>6, <1>7, <2>1, <2>2, <2>3, <3>1 DEF l
  <2>4. CASE b = 256
    <3>1. g.sectors = 26 /\ g.heads = 2
      BY <1>1, <2>4 DEF Tracks
    <3> QED BY <1>3, <1>6, <1>7, <2>1, <2>2, <2>4, <3>1 DEF l
  <2>5. CASE b = 512
    <3>1. g.sectors = 15 /\ g.heads = 2
      BY <1>1, <2>5 DEF Tracks
    <3> QED BY <1>3, <1>6, <1>7, <2>1, <2>2, <2>5, <3>1 DEF l
  <2>6. CASE b = 1024
    <3>1. g.sectors = 8 /\ g.heads = 2
      BY <1>1, <2>6 DEF Tracks
    <3> QED BY <1>3, <1>6, <1>7, <2>1, <2>2, <2>6, <3>1 DEF l
  <2> QED BY <1>1, <2>3, <2>4, <2>5, <2>6 DEF Tracks
<1>9. q.cylinder = Last.cylinder + 1
  <2>1. ~(Last.record < TrackSectors(g, Last.cylinder)) /\ ~(Last.head + 1 < g.heads)
    <3> HIDE DEF Last
    <3> QED BY <1>2, <1>4
  <2> HIDE DEF Last
  <2> QED BY <1>5, <2>1, FollowingIs
<1>10. ~IsValid(g, q)
  <2> HIDE DEF q, Last
  <2> QED BY <1>1, <1>2, <1>9 DEF IsValid
<1>11. TrackSectorBytes(g, Last.cylinder, Last.head) = B
  <2> HIDE DEF Last, c, h
  <2> QED BY <1>2
<1>12. RecordOffset(g, Last) + TrackSectorBytes(g, Last.cylinder, Last.head) = TotalBytes(g)
  <2> HIDE DEF Last, B, c, h
  <2> QED BY <1>8, <1>11
<1> QED BY <1>10, <1>12, Zenon

(* The size of an image is the size of one geometry only.                  *)
LEMMA ProbeFinds ==
    ASSUME NEW g, IsImage(g)
    PROVE  Probe(g.label, g.bytes, TotalBytes(g)) = {g}
<1> DEFINE one == [label |-> g.label, bytes |-> g.bytes, sectors |-> SectorsFor(g.bytes),
                   heads |-> IF g.bytes = 128 THEN 1 ELSE 2, cylinders |-> 1]
           rest == TotalBytes(g) - CylinderZeroBytes(one)
           per == one.heads * one.sectors * one.bytes
<1>1. Tracks(g) /\ g.label \in {128, 256} /\ g.cylinders \in Nat /\ g.cylinders >= 1
  BY ImageIs
<1>2. /\ one = [label |-> g.label, bytes |-> g.bytes, sectors |-> g.sectors, heads |-> g.heads,
                cylinders |-> 1]
      /\ g = [label |-> g.label, bytes |-> g.bytes, sectors |-> g.sectors, heads |-> g.heads,
              cylinders |-> g.cylinders]
  BY DEF IsImage
<1>3. /\ rest = (g.cylinders - 1) * g.heads * g.sectors * g.bytes
      /\ per = g.heads * g.sectors * g.bytes
  <2>1. /\ one.label = g.label /\ one.heads = g.heads /\ one.sectors = g.sectors
        /\ one.bytes = g.bytes
    <3> DEFINE O == one
    <3>1. O = [label |-> g.label, bytes |-> g.bytes, sectors |-> g.sectors, heads |-> g.heads,
               cylinders |-> 1]
      BY <1>2
    <3> HIDE DEF O
    <3>2. O.label = g.label /\ O.heads = g.heads /\ O.sectors = g.sectors /\ O.bytes = g.bytes
      BY <3>1
    <3> QED BY <3>2 DEF O
  <2> HIDE DEF one
  <2>2. CylinderZeroBytes(one) = CylinderZeroBytes(g)
    BY <2>1, SizesAre
  <2>3. CylinderZeroBytes(g) \in Int
    BY <1>1, SizesAre
  <2>4. (g.cylinders - 1) * g.heads * g.sectors * g.bytes \in Int
    BY <1>1 DEF Tracks
  <2>5. TotalBytes(g) = CylinderZeroBytes(g) + (g.cylinders - 1) * g.heads * g.sectors * g.bytes
    BY DEF TotalBytes
  <2>6. per = g.heads * g.sectors * g.bytes
    BY <2>1
  <2> QED BY <2>2, <2>3, <2>4, <2>5, <2>6
<1>4. ~(g.label = 0 \/ g.bytes \notin {128, 256, 512, 1024})
  BY <1>1 DEF Tracks
<1>5. Probe(g.label, g.bytes, TotalBytes(g)) =
        IF rest < 0 \/ rest % per # 0 THEN {} ELSE {[one EXCEPT !.cylinders = 1 + rest \div per]}
  <2> HIDE DEF rest, per, one
  <2> QED BY <1>4 DEF Probe, rest, per, one
<1> SUFFICES (rest < 0) = FALSE /\ rest % per = 0 /\ 1 + rest \div per = g.cylinders
  <2>1. [one EXCEPT !.cylinders = g.cylinders] = g
    <3> DEFINE O == one
    <3>1. O = [label |-> g.label, bytes |-> g.bytes, sectors |-> g.sectors, heads |-> g.heads,
               cylinders |-> 1]
      BY <1>2
    <3> HIDE DEF O
    <3>2. [O EXCEPT !.cylinders = g.cylinders]
            = [label |-> g.label, bytes |-> g.bytes, sectors |-> g.sectors, heads |-> g.heads,
               cylinders |-> g.cylinders]
      BY <3>1
    <3> QED BY <1>2, <3>2 DEF O
  <2> HIDE DEF rest, per, one
  <2> QED BY <1>5, <2>1
<1>6. CASE g.bytes = 128
  <2>1. g.sectors = 26 /\ g.heads = 1
    BY <1>1, <1>6 DEF Tracks
  <2>2. per = 3328 /\ rest = (g.cylinders - 1) * 3328
    BY <1>1, <1>3, <1>6, <2>1
  <2>3. ((g.cylinders - 1) * 3328) % 3328 = 0 /\ ((g.cylinders - 1) * 3328) \div 3328 = g.cylinders - 1
        /\ (g.cylinders - 1) * 3328 >= 0
    BY <1>1
  <2> HIDE DEF rest, per
  <2>4. (rest < 0) = FALSE /\ rest % per = 0 /\ rest \div per = g.cylinders - 1
    BY <1>1, <2>2, <2>3
  <2> QED BY <1>1, <2>4
<1>7. CASE g.bytes = 256
  <2>1. g.sectors = 26 /\ g.heads = 2
    BY <1>1, <1>7 DEF Tracks
  <2>2. per = 13312 /\ rest = (g.cylinders - 1) * 13312
    BY <1>1, <1>3, <1>7, <2>1
  <2>3. ((g.cylinders - 1) * 13312) % 13312 = 0 /\ ((g.cylinders - 1) * 13312) \div 13312 = g.cylinders - 1
        /\ (g.cylinders - 1) * 13312 >= 0
    BY <1>1
  <2> HIDE DEF rest, per
  <2>4. (rest < 0) = FALSE /\ rest % per = 0 /\ rest \div per = g.cylinders - 1
    BY <1>1, <2>2, <2>3
  <2> QED BY <1>1, <2>4
<1>8. CASE g.bytes = 512
  <2>1. g.sectors = 15 /\ g.heads = 2
    BY <1>1, <1>8 DEF Tracks
  <2>2. per = 15360 /\ rest = (g.cylinders - 1) * 15360
    BY <1>1, <1>3, <1>8, <2>1
  <2>3. ((g.cylinders - 1) * 15360) % 15360 = 0 /\ ((g.cylinders - 1) * 15360) \div 15360 = g.cylinders - 1
        /\ (g.cylinders - 1) * 15360 >= 0
    BY <1>1
  <2> HIDE DEF rest, per
  <2>4. (rest < 0) = FALSE /\ rest % per = 0 /\ rest \div per = g.cylinders - 1
    BY <1>1, <2>2, <2>3
  <2> QED BY <1>1, <2>4
<1>9. CASE g.bytes = 1024
  <2>1. g.sectors = 8 /\ g.heads = 2
    BY <1>1, <1>9 DEF Tracks
  <2>2. per = 16384 /\ rest = (g.cylinders - 1) * 16384
    BY <1>1, <1>3, <1>9, <2>1
  <2>3. ((g.cylinders - 1) * 16384) % 16384 = 0 /\ ((g.cylinders - 1) * 16384) \div 16384 = g.cylinders - 1
        /\ (g.cylinders - 1) * 16384 >= 0
    BY <1>1
  <2> HIDE DEF rest, per
  <2>4. (rest < 0) = FALSE /\ rest % per = 0 /\ rest \div per = g.cylinders - 1
    BY <1>1, <2>2, <2>3
  <2> QED BY <1>1, <2>4
<1> HIDE DEF rest, per
<1> QED BY <1>1, <1>6, <1>7, <1>8, <1>9 DEF Tracks

(* The records of every image lie end to end, whatever the number of its   *)
(* cylinders, and the two linearisations, the sequential addresses and the *)
(* probe agree about them (DisketteBackend.cpp:72-171, 296-306).           *)
THEOREM ImagesAreLinear == \A g : IsImage(g) => Linear(g)
<1> SUFFICES ASSUME NEW g, IsImage(g) PROVE Linear(g)
  OBVIOUS
<1> DEFINE Last == At(g.cylinders - 1, g.heads - 1, TrackSectors(g, g.cylinders - 1))
           Valid == {p \in [cylinder : 0 .. g.cylinders - 1, head : 0 .. g.heads - 1,
                            record : 1 .. LabelSectorsPerTrack] : IsValid(g, p)}
           End(p) == RecordOffset(g, p) + TrackSectorBytes(g, p.cylinder, p.head)
           L == LastSequentialSector(g)
<1>1. Tracks(g) /\ g.label \in {128, 256} /\ g.cylinders \in Nat /\ g.cylinders >= 1
  BY ImageIs
<1>2. RecordOffset(g, At(0, 0, 1)) = 0
  <2> DEFINE p == At(0, 0, 1)
  <2>1. p.cylinder = 0 /\ p.head = 0 /\ p.record = 1 /\ p \in Positions
    BY DEF At, Positions
  <2> HIDE DEF p
  <2>2. p.head < g.heads
    BY <1>1, <2>1 DEF Tracks
  <2>3. RecordOffset(g, p) = (p.record - 1) * g.label
    BY <2>1, <2>2, OffsetNumbers
  <2> QED BY <1>1, <2>1, <2>3 DEF p
<1>3. \A p \in Valid : RecordOffset(g, Following(g, p)) = End(p)
  <2> SUFFICES ASSUME NEW p \in Valid PROVE RecordOffset(g, Following(g, p)) = End(p)
    OBVIOUS
  <2>1. p \in Positions /\ IsValid(g, p)
    <3>1. g.heads \in Nat
      BY <1>1 DEF Tracks
    <3> QED BY <1>1, <3>1 DEF Positions, LabelSectorsPerTrack
  <2> QED BY <2>1, EndToEnd
<1>4. End(Last) = TotalBytes(g) /\ ~IsValid(g, Following(g, Last))
  BY TotalIs
<1>5. SequentialToRecord(g, 1) = At(1, 0, 1)
  <2> DEFINE m == g.sectors * g.heads
             k == g.sectors
  <2>1. m \in Nat /\ m > 0 /\ k \in Nat /\ k > 0
    BY <1>1 DEF Tracks
  <2>2. SequentialToRecord(g, 1) = At(1 + (1 - 1) \div m, ((1 - 1) % m) \div k, (((1 - 1) % m) % k) + 1)
    BY DEF SequentialToRecord
  <2> HIDE DEF m, k
  <2>3. 1 - 1 = 0 /\ 0 \div m = 0 /\ 0 % m = 0 /\ 0 \div k = 0 /\ 0 % k = 0
    BY <2>1
  <2>4. 1 + 0 = 1 /\ 0 + 1 = 1
    OBVIOUS
  <2> QED BY <2>2, <2>3, <2>4
<1>6. \A s \in 1 .. L : /\ Sequential(g, s)
                        /\ SequentialToRecord(g, s + 1) = Following(g, SequentialToRecord(g, s))
  <2> SUFFICES ASSUME NEW s \in 1 .. L
               PROVE  /\ Sequential(g, s)
                      /\ SequentialToRecord(g, s + 1) = Following(g, SequentialToRecord(g, s))
    OBVIOUS
  <2>1. L \in Int
    BY <1>1 DEF LastSequentialSector, LastSequentialCylinder, Tracks
  <2>2. s \in Nat /\ s >= 1 /\ s <= L
    BY <2>1
  <2> QED BY <2>2, SequentialFollows
<1>7. ~Sequential(g, L + 1)
  <2>1. L \in Int
    BY <1>1 DEF LastSequentialSector, LastSequentialCylinder, Tracks
  <2> HIDE DEF L
  <2>2. CASE L + 1 >= 1
    <3>1. L + 1 \in Nat /\ L + 1 >= 1 /\ ~(L + 1 <= L)
      BY <2>1, <2>2
    <3>2. Sequential(g, L + 1) <=> L + 1 <= LastSequentialSector(g)
      BY <3>1, SequentialFollows
    <3> QED BY <3>1, <3>2 DEF L
  <2>3. CASE ~(L + 1 >= 1)
    BY <2>3 DEF Sequential
  <2> QED BY <2>2, <2>3
<1>8. Probe(g.label, g.bytes, TotalBytes(g)) = {g}
  BY ProbeFinds
<1> HIDE DEF Last, Valid, End, L
<1> QED BY <1>2, <1>3, <1>4, <1>5, <1>6, <1>7, <1>8 DEF Linear, Last, Valid, End, L

(* The records of a sequential transfer, while it asks for at most three.  *)
LEMMA SequentialRun ==
    ASSUME NEW g, IsImage(g), NEW s \in Nat, s >= 1, NEW n \in 1 .. 3
    PROVE  Run(g, SequentialToRecord(g, s), n)
               = [i \in 1 .. n |-> SequentialToRecord(g, s + i - 1)]
<1> DEFINE p == SequentialToRecord(g, s)
           One(f, i) == IF i = 1 THEN p ELSE Following(g, f[i - 1])
           run == CHOOSE f : f = [i \in 1 .. n |-> One(f, i)]
           t == [i \in 1 .. n |-> SequentialToRecord(g, s + i - 1)]
<1>1. Run(g, p, n) = run
  BY Zenon DEF Run
<1>2. \A i \in 1 .. n : s + i - 1 \in Nat /\ s + i - 1 >= 1 /\ i \in Nat
  OBVIOUS
<1>3. t = [i \in 1 .. n |-> One(t, i)]
  <2>1. ASSUME NEW i \in 1 .. n PROVE t[i] = One(t, i)
    <3>1. CASE i = 1
      <4>1. s + 1 - 1 = s
        OBVIOUS
      <4> QED BY <3>1, <4>1
    <3>2. CASE i # 1
      <4>1. i - 1 \in 1 .. n /\ s + (i - 1) - 1 \in Nat /\ s + (i - 1) - 1 >= 1
            /\ s + (i - 1) - 1 + 1 = s + i - 1
        BY <3>2
      <4>2. t[i - 1] = SequentialToRecord(g, s + (i - 1) - 1)
        BY <4>1
      <4>3. SequentialToRecord(g, s + (i - 1) - 1 + 1) = Following(g, SequentialToRecord(g, s + (i - 1) - 1))
        BY <4>1, SequentialFollows
      <4>4. t[i] = SequentialToRecord(g, s + i - 1)
        OBVIOUS
      <4> HIDE DEF t
      <4> QED BY <3>2, <4>1, <4>2, <4>3, <4>4
    <3> QED BY <3>1, <3>2
  <2> HIDE DEF One, p
  <2> QED BY <2>1
<1>4. run = [i \in 1 .. n |-> One(run, i)]
  <2> HIDE DEF One, t
  <2> QED BY <1>3
<1>5. \A i \in 1 .. n : run[i] = One(run, i)
  <2> HIDE DEF One, run
  <2> QED BY <1>4
<1> HIDE DEF run
<1>6. run[1] = t[1]
  <2>1. 1 \in 1 .. n /\ s + 1 - 1 = s
    OBVIOUS
  <2> QED BY <1>5, <2>1
<1>7. ASSUME NEW i \in 1 .. n, i > 1, run[i - 1] = t[i - 1] PROVE run[i] = t[i]
  <2>1. t[i] = One(t, i)
    <3> HIDE DEF t, One
    <3> QED BY <1>3
  <2>2. run[i] = One(run, i)
    BY <1>5
  <2>3. i # 1
    BY <1>7
  <2> HIDE DEF t
  <2> QED BY <1>7, <2>1, <2>2, <2>3
<1>8. ASSUME NEW i \in 1 .. n PROVE run[i] = t[i]
  <2> HIDE DEF t
  <2>1. CASE i = 1
    BY <1>6, <2>1
  <2>2. CASE i = 2
    <3>1. 2 - 1 = 1 /\ 2 > 1
      OBVIOUS
    <3> QED BY <1>6, <1>7, <2>2, <3>1
  <2>3. CASE i = 3
    <3>1. 2 - 1 = 1 /\ 3 - 1 = 2 /\ 2 > 1 /\ 3 > 1 /\ 2 \in 1 .. n
      BY <2>3
    <3>2. run[2] = t[2]
      BY <1>6, <1>7, <3>1
    <3> QED BY <1>7, <2>3, <3>1, <3>2
  <2> QED BY <2>1, <2>2, <2>3
<1>9. run = t
  <2>1. t = [i \in 1 .. n |-> t[i]]
    OBVIOUS
  <2>2. run = [i \in 1 .. n |-> run[i]]
    <3> HIDE DEF One
    <3> QED BY <1>4, <1>5
  <2> HIDE DEF t
  <2> QED BY <1>8, <2>1, <2>2
<1> QED BY <1>1, <1>9

(* Its cylinders are the volume's.                                         *)
LEMMA SequentialCylinders ==
    ASSUME NEW g, IsImage(g), NEW s \in Nat, s >= 1, s <= LastSequentialSector(g), NEW i \in 0 .. 2
    PROVE  SequentialToRecord(g, s + i).cylinder <= g.cylinders - 2
<1>1. Tracks(g) /\ g.cylinders \in Nat
  BY ImageIs
<1>2. LastSequentialSector(g) = (g.cylinders - 3) * g.heads * g.sectors
  BY DEF LastSequentialSector, LastSequentialCylinder
<1> DEFINE q == SequentialToRecord(g, s + i)
           m == g.sectors * g.heads
<1>3. q.cylinder = 1 + (s + i - 1) \div m
  <2>1. q.cylinder = 1 + ((s + i) - 1) \div (g.sectors * g.heads)
    BY DEF SequentialToRecord, At
  <2> QED BY <2>1
<1> DEFINE d == q.cylinder
           c == g.cylinders
           j == s + i - 1
<1>4. j \in Nat /\ s <= (c - 3) * g.heads * g.sectors /\ j <= s + 1 /\ d = 1 + j \div m /\ c \in Nat
  BY <1>1, <1>2, <1>3
<1> HIDE DEF d, c, j
<1>5. CASE g.bytes = 128
  <2>1. g.sectors = 26 /\ g.heads = 1 /\ m = 26
    BY <1>1, <1>5 DEF Tracks
  <2>2. s <= (c - 3) * 26
    BY <1>4, <2>1
  <2>3. d = 1 + j \div 26
    <3> HIDE DEF m
    <3> QED BY <1>4, <2>1
  <2> QED BY <1>4, <2>2, <2>3 DEF d, c
<1>6. CASE g.bytes = 256
  <2>1. g.sectors = 26 /\ g.heads = 2 /\ m = 52
    BY <1>1, <1>6 DEF Tracks
  <2>2. s <= (c - 3) * 52
    BY <1>4, <2>1
  <2>3. d = 1 + j \div 52
    <3> HIDE DEF m
    <3> QED BY <1>4, <2>1
  <2> QED BY <1>4, <2>2, <2>3 DEF d, c
<1>7. CASE g.bytes = 512
  <2>1. g.sectors = 15 /\ g.heads = 2 /\ m = 30
    BY <1>1, <1>7 DEF Tracks
  <2>2. s <= (c - 3) * 30
    BY <1>4, <2>1
  <2>3. d = 1 + j \div 30
    <3> HIDE DEF m
    <3> QED BY <1>4, <2>1
  <2> QED BY <1>4, <2>2, <2>3 DEF d, c
<1>8. CASE g.bytes = 1024
  <2>1. g.sectors = 8 /\ g.heads = 2 /\ m = 16
    BY <1>1, <1>8 DEF Tracks
  <2>2. s <= (c - 3) * 16
    BY <1>4, <2>1
  <2>3. d = 1 + j \div 16
    <3> HIDE DEF m
    <3> QED BY <1>4, <2>1
  <2> QED BY <1>4, <2>2, <2>3 DEF d, c
<1> QED BY <1>1, <1>5, <1>6, <1>7, <1>8 DEF Tracks

(* A transfer from or to any image of at most three records moves all of   *)
(* them or none, each long enough and in the place its sequential address  *)
(* has, and never one of the spare cylinders by records of 1024 bytes      *)
(* (VirtualDiskette.cpp:205-378).                                          *)
THEOREM ImagesMoveWholeTransfers == \A g : IsImage(g) => WholeTransfers(g)
<1> SUFFICES ASSUME NEW g, IsImage(g),
                    NEW s \in 0 .. LastSequentialSector(g) + 2, NEW n \in 1 .. 3,
                    NEW bytes \in {128, g.bytes}
             PROVE  LET t == SequentialTransfer(g, s, n, bytes)
                    IN  /\ Len(t.moved) \in {0, n}
                        /\ \A i \in 1 .. Len(t.moved) :
                              /\ IsValid(g, t.moved[i])
                              /\ TrackSectorBytes(g, t.moved[i].cylinder, t.moved[i].head) >= bytes
                              /\ t.moved[i] = SequentialToRecord(g, s + i - 1)
                              /\ bytes = 1024 => t.moved[i].cylinder <= LastSequentialCylinder(g)
  BY DEF WholeTransfers
<1> DEFINE t == SequentialTransfer(g, s, n, bytes)
           L == LastSequentialSector(g)
           p == SequentialToRecord(g, s)
           run == [i \in 1 .. n |-> SequentialToRecord(g, s + i - 1)]
           Good == /\ Len(t.moved) \in {0, n}
                   /\ \A i \in 1 .. Len(t.moved) :
                         /\ IsValid(g, t.moved[i])
                         /\ TrackSectorBytes(g, t.moved[i].cylinder, t.moved[i].head) >= bytes
                         /\ t.moved[i] = SequentialToRecord(g, s + i - 1)
                         /\ bytes = 1024 => t.moved[i].cylinder <= LastSequentialCylinder(g)
<1> SUFFICES Good
  OBVIOUS
<1>1. Tracks(g) /\ g.cylinders \in Nat /\ L \in Int /\ g.bytes \in {128, 256, 512, 1024}
  BY ImageIs DEF LastSequentialSector, LastSequentialCylinder, Tracks
<1>2. s \in Nat
  BY <1>1
<1>3. ASSUME t.moved = <<>> PROVE Good
  <2>1. Len(<<>>) = 0 /\ 1 .. 0 = {}
    OBVIOUS
  <2> HIDE DEF t
  <2> QED BY <1>3, <2>1
<1>4. \A code, residual : Nothing(code, residual).moved = <<>>
  BY DEF Nothing
<1>5. CASE s >= 1 /\ s + n - 1 > L /\ bytes = 1024
  <2>1. t = Nothing("complete", "all")
    BY <1>5 DEF SequentialTransfer
  <2>2. t.moved = <<>>
    <3> HIDE DEF t
    <3> QED BY <1>4, <2>1
  <2> HIDE DEF Good, t
  <2> QED BY <1>3, <2>2
<1>6. CASE ~(s >= 1 /\ s + n - 1 > L /\ bytes = 1024) /\ (s < 1 \/ ~Sequential(g, s))
  <2>1. t = Nothing("complete", n - 1) \/ t = Nothing("permanent error", "unset")
    <3>1. CASE s < 1
      <4>1. ~(s >= 1)
        BY <1>2, <3>1
      <4> QED BY <3>1, <4>1, Zenon DEF SequentialTransfer
    <3>2. CASE s >= 1 /\ ~Sequential(g, s)
      BY <1>6, <3>2, Zenon DEF SequentialTransfer
    <3> HIDE DEF t, L, Good
    <3>3. s < 1 \/ s >= 1
      BY <1>2
    <3> QED BY <1>6, <3>1, <3>2, <3>3, Zenon
  <2>2. t.moved = <<>>
    <3> HIDE DEF t
    <3> QED BY <1>4, <2>1
  <2> HIDE DEF Good, t
  <2> QED BY <1>3, <2>2
<1>7. CASE ~(s >= 1 /\ s + n - 1 > L /\ bytes = 1024) /\ ~(s < 1 \/ ~Sequential(g, s))
  <2>1. s >= 1 /\ s <= L
    BY <1>2, <1>7, SequentialFollows
  <2>2. t = Placed(g, p, n, bytes)
    BY <1>7, <2>1, Zenon DEF SequentialTransfer
  <2>3. ASSUME NEW i \in 1 .. n
        PROVE  LET q == SequentialToRecord(g, s + i - 1) IN
               /\ q \in Positions /\ q.cylinder >= 1 /\ q.cylinder < g.cylinders /\ IsValid(g, q)
               /\ TrackSectorBytes(g, q.cylinder, q.head) = g.bytes
               /\ bytes = 1024 => q.cylinder <= LastSequentialCylinder(g)
    <3> DEFINE k == s + i - 1
               q == SequentialToRecord(g, k)
    <3>1. k \in Nat /\ k >= 1 /\ i - 1 \in 0 .. 2 /\ k = s + (i - 1)
      BY <1>2, <2>1
    <3>2. q.cylinder <= g.cylinders - 2
      <4>1. SequentialToRecord(g, s + (i - 1)).cylinder <= g.cylinders - 2
        BY <1>2, <2>1, <3>1, SequentialCylinders
      <4> HIDE DEF k
      <4> QED BY <3>1, <4>1
    <3>3. /\ q \in Positions /\ q.cylinder >= 1
          /\ Sequential(g, k) <=> k <= LastSequentialSector(g)
          /\ IsValid(g, q) <=> q.cylinder < g.cylinders
      <4> HIDE DEF k
      <4> QED BY <3>1, SequentialFollows
    <3>4. q.cylinder \in Nat
      <4> HIDE DEF q
      <4> QED BY <3>3 DEF Positions
    <3>5. bytes = 1024 => k <= L
      BY <1>1, <1>2, <1>7, <2>1
    <3>6. bytes = 1024 => q.cylinder <= LastSequentialCylinder(g)
      <4> HIDE DEF k
      <4> QED BY <3>3, <3>5 DEF Sequential
    <3> HIDE DEF q, k
    <3>7. q.cylinder < g.cylinders /\ q.cylinder # 0
      BY <1>1, <3>2, <3>3, <3>4
    <3>8. TrackSectorBytes(g, q.cylinder, q.head) = g.bytes
      BY <3>7, SizesAre
    <3> QED BY <3>3, <3>6, <3>7, <3>8 DEF q, k
  <2>4. p = SequentialToRecord(g, s + 1 - 1) /\ 1 \in 1 .. n
    <3>1. s = s + 1 - 1
      BY <1>2
    <3> QED BY <3>1
  <2>5. IsValid(g, p) /\ TrackSectorBytes(g, p.cylinder, p.head) = g.bytes
    BY <2>3, <2>4
  <2>6. g.bytes >= bytes /\ bytes \in Nat /\ g.bytes \in Nat /\ ~(g.bytes < bytes)
    BY <1>1
  <2>7. t = Walked(g, p, n, bytes)
    <3> HIDE DEF t, p
    <3>1. Placed(g, p, n, bytes) = Walked(g, p, n, bytes)
      BY <2>5, <2>6, Zenon DEF Placed
    <3> QED BY <2>2, <3>1
  <2>8. Run(g, p, n) = run
    <3>1. s \in Nat /\ s >= 1 /\ n \in 1 .. 3
      BY <1>2, <2>1
    <3>2. Run(g, SequentialToRecord(g, s), n)
             = [i \in 1 .. n |-> SequentialToRecord(g, s + i - 1)]
      BY <3>1, SequentialRun, Zenon
    <3> QED BY <3>2, Zenon
  <2> DEFINE small == {i \in 1 .. n : TrackSectorBytes(g, run[i].cylinder, run[i].head) < bytes}
             off == {i \in 2 .. n : run[i].cylinder >= g.cylinders}
  <2>9. \A i \in 1 .. n : /\ run[i] = SequentialToRecord(g, s + i - 1)
                          /\ run[i].cylinder \in Nat /\ run[i].cylinder < g.cylinders
                          /\ TrackSectorBytes(g, run[i].cylinder, run[i].head) = g.bytes
    <3>1. \A i \in 1 .. n : run[i] = SequentialToRecord(g, s + i - 1)
      OBVIOUS
    <3> HIDE DEF run
    <3> QED BY <2>3, <3>1 DEF Positions
  <2> HIDE DEF run
  <2>10. small = {} /\ off = {}
    <3>1. \A i \in 2 .. n : i \in 1 .. n
      OBVIOUS
    <3> QED BY <1>1, <2>6, <2>9, <3>1
  <2>11. off \cup small = {}
    BY <2>10
  <2>12. t = [code |-> "complete", moved |-> run, residual |-> "all"]
    <3> HIDE DEF t, p
    <3> QED BY <2>7, <2>8, <2>11, Zenon DEF Walked
  <2>13. t.moved = run
    <3> HIDE DEF t
    <3> QED BY <2>12
  <2>14. Len(run) = n
    BY DEF run
  <2> HIDE DEF t
  <2>15. Len(t.moved) = n
    BY <2>13, <2>14
  <2> SUFFICES ASSUME NEW i \in 1 .. n
               PROVE  /\ IsValid(g, run[i])
                      /\ TrackSectorBytes(g, run[i].cylinder, run[i].head) >= bytes
                      /\ run[i] = SequentialToRecord(g, s + i - 1)
                      /\ bytes = 1024 => run[i].cylinder <= LastSequentialCylinder(g)
    BY <2>13, <2>15
  <2> QED BY <2>3, <2>6, <2>9
<1> HIDE DEF Good, t, L
<1> QED BY <1>5, <1>6, <1>7

(* Whatever the probe makes of an image file is the geometry of an image,  *)
(* so that what holds for images holds for every diskette the program ever *)
(* opens (DisketteBackend.cpp:97-171).                                     *)
THEOREM ProbeFindsImages ==
    \A found \in {0, 128, 256}, bytes \in Nat, length \in Nat :
        \A g \in Probe(found, bytes, length) : IsImage(g)
<1> SUFFICES ASSUME NEW found \in {0, 128, 256}, NEW bytes \in Nat, NEW length \in Nat,
                    NEW g \in Probe(found, bytes, length)
             PROVE  IsImage(g)
  OBVIOUS
<1> DEFINE one == [label |-> found, bytes |-> bytes, sectors |-> SectorsFor(bytes),
                   heads |-> IF bytes = 128 THEN 1 ELSE 2, cylinders |-> 1]
           rest == length - CylinderZeroBytes(one)
           per == one.heads * one.sectors * one.bytes
<1>1. found \in {128, 256} /\ bytes \in {128, 256, 512, 1024}
  BY DEF Probe
<1>2. SectorsFor(bytes) \in {8, 15, 26}
  BY <1>1 DEF SectorsFor
<1>3. /\ one.heads \in {1, 2} /\ one.sectors \in {8, 15, 26} /\ one.bytes \in {128, 256, 512, 1024}
  BY <1>1, <1>2
<1>4. rest \in Int
  <2>1. CylinderZeroBytes(one) = 26 * (found + IF one.heads > 1 THEN 256 ELSE 0)
    BY Zenon DEF CylinderZeroBytes, LabelSectorsPerTrack, BackLabelBytes
  <2>2. CylinderZeroBytes(one) \in Int
    <3>1. found \in Int
      BY <1>1
    <3> HIDE DEF one
    <3> QED BY <2>1, <3>1
  <2> HIDE DEF one
  <2> QED BY <2>2
<1>5. per \in Nat \ {0}
  BY <1>3
<1>6. rest >= 0 /\ g = [one EXCEPT !.cylinders = 1 + rest \div per]
  <2>1. g \in IF rest < 0 \/ rest % per # 0 THEN {}
              ELSE {[one EXCEPT !.cylinders = 1 + rest \div per]}
    <3>1. ~(found = 0 \/ bytes \notin {128, 256, 512, 1024})
      BY <1>1
    <3>2. Probe(found, bytes, length) =
             IF found = 0 \/ bytes \notin {128, 256, 512, 1024} THEN {}
             ELSE IF rest < 0 \/ rest % per # 0 THEN {}
             ELSE {[one EXCEPT !.cylinders = 1 + rest \div per]}
      BY Zenon DEF Probe
    <3> HIDE DEF one, rest, per
    <3> QED BY <3>1, <3>2
  <2> HIDE DEF one, rest, per
  <2> QED BY <1>4, <2>1
<1> HIDE DEF rest, per
<1>7. 1 + rest \div per \in Nat \ {0}
  BY <1>4, <1>5, <1>6
<1> DEFINE cylinders == 1 + rest \div per
<1> HIDE DEF cylinders
<1>8. g = [label |-> found, bytes |-> bytes, sectors |-> SectorsFor(bytes),
           heads |-> IF bytes = 128 THEN 1 ELSE 2, cylinders |-> cylinders]
  BY <1>6 DEF cylinders
<1>9. cylinders \in Nat \ {0}
  BY <1>7 DEF cylinders
<1> QED BY <1>1, <1>2, <1>8, <1>9 DEF IsImage

-----------------------------------------------------------------------------
(* Fixed disk volumes.                                                     *)

(* The parts of an outcome.                                                *)
LEMMA OutcomeIs ==
    ASSUME NEW code, NEW work, NEW volume, NEW buffer, NEW place
    PROVE  LET o == Outcome(code, work, volume, buffer, place)
           IN  /\ o.code = code /\ o.work = work /\ o.volume = volume /\ o.buffer = buffer
               /\ o.place = place
  BY DEF Outcome

(* What a write writes is one sector for each it counts.                   *)
LEMMA SourceIs ==
    ASSUME NEW r, IsWrite(r), NEW b
    PROVE  /\ Source(r, b) = [i \in 1 .. r.count |-> Source(r, b)[i]]
           /\ Len(Source(r, b)) = r.count
<1>1. /\ r.count \in Nat /\ r.buffer \in Seq(Seq(Bytes)) /\ 1 - 1 = 0
  BY DEF IsWrite, Requests
<1>2. CASE r.modifier = "fill"
  <2>1. Source(r, b) = [i \in 1 .. r.count |-> [x \in 1 .. b |-> r.fill]]
    BY <1>2 DEF Source
  <2> QED BY <1>1, <2>1
<1>3. CASE r.modifier = "wrap"
  <2>1. Source(r, b) = [i \in 1 .. r.count |-> r.buffer[1]]
    BY <1>3 DEF Source
  <2> QED BY <1>1, <2>1
<1>4. CASE r.modifier \notin {"fill", "wrap"}
  <2>1. Source(r, b) = SubSeq(r.buffer, 1, r.count)
    BY <1>4, Zenon DEF Source
  <2>2. SubSeq(r.buffer, 1, r.count) = [i \in 1 .. r.count |-> r.buffer[i]]
    BY <1>1
  <2> QED BY <1>1, <2>1, <2>2
<1> QED BY <1>2, <1>3, <1>4

(* Every write, of any length and on a volume of any size, changes the     *)
(* sectors it names and no other, and a read gives back what it wrote      *)
(* (VirtualFixedDisk.cpp:247-297).                                         *)
THEOREM EveryWriteIsExact ==
    \A volume, bytes, r : IsVolume(volume, bytes) /\ IsWrite(r) => WritesExactly(volume, r)
<1> SUFFICES ASSUME NEW volume, NEW bytes, NEW r, IsVolume(volume, bytes), IsWrite(r),
                    NEW writable \in BOOLEAN
             PROVE  LET out == Execute(volume, writable, r)
                    IN  /\ \A s \in DOMAIN volume :
                              out.volume[s] # volume[s] =>
                                  out.code = 0 /\ writable /\ s \in r.sector .. LastOf(r)
                        /\ out.code = 0 =>
                              Execute(out.volume, FALSE, [r EXCEPT !.command = "read"]).buffer
                                  = Source(r, Len(volume[1]))
  BY DEF WritesExactly
<1> DEFINE out == Execute(volume, writable, r)
           read == [r EXCEPT !.command = "read"]
           new == Written(volume, r)
           last == r.sector + r.count - 1
           src == Source(r, bytes)
<1>1. /\ r.sector \in Nat /\ r.count \in Nat /\ r.command = "write"
      /\ read.command = "read" /\ read.sector = r.sector /\ read.count = r.count
  BY DEF IsWrite, Requests
<1>2. LastOf(r) = last /\ LastOf(read) = last
  BY <1>1 DEF LastOf
<1>3. volume \in Seq(Seq(Bytes)) /\ Len(volume) \in Nat /\ DOMAIN volume = 1 .. Len(volume)
  BY DEF IsVolume
<1>4. src = [i \in 1 .. r.count |-> src[i]]
  BY SourceIs
<1> DEFINE Good(o) == /\ \A s \in DOMAIN volume :
                              o.volume[s] # volume[s] =>
                                  o.code = 0 /\ writable /\ s \in r.sector .. LastOf(r)
                      /\ o.code = 0 => Execute(o.volume, FALSE, read).buffer
                                          = Source(r, Len(volume[1]))
<1> SUFFICES Good(out)
  OBVIOUS
<1>5. CASE r.sector \notin DOMAIN volume \/ last > Len(volume) \/ ~writable
  <2>1. out = Outcome(4, r.sector, volume, r.buffer, 0)
    <3> HIDE DEF last
    <3> QED BY <1>1, <1>2, <1>5 DEF Execute
  <2>2. out.code = 4 /\ out.volume = volume
    BY <2>1, OutcomeIs
  <2>3. 4 # 0
    OBVIOUS
  <2> HIDE DEF out, read
  <2> QED BY <2>2, <2>3
<1>6. CASE ~(r.sector \notin DOMAIN volume \/ last > Len(volume) \/ ~writable)
  <2>1. out = Outcome(0, LastOf(r), new, r.buffer, 0)
    <3> HIDE DEF last, new
    <3> QED BY <1>1, <1>2, <1>6 DEF Execute, new
  <2>2. out.code = 0 /\ out.volume = new
    BY <2>1, OutcomeIs
  <2>3. \A s \in DOMAIN volume : Len(volume[s]) = bytes
    BY DEF IsVolume
  <2>4. new = [s \in 1 .. Len(volume) |->
                  IF s \in r.sector .. last THEN src[s - r.sector + 1] ELSE volume[s]]
    BY <1>2, <1>3, <2>3 DEF Written
  <2>5. DOMAIN new = 1 .. Len(volume) /\ Len(new) = Len(volume)
    <3> DEFINE N == new
    <3>1. N = [s \in 1 .. Len(volume) |->
                  IF s \in r.sector .. last THEN src[s - r.sector + 1] ELSE volume[s]]
      BY <2>4
    <3> HIDE DEF N, src, last
    <3>2. DOMAIN N = 1 .. Len(volume)
      BY <3>1
    <3>3. Len(N) = Len(volume)
      BY <1>3, <3>2
    <3> QED BY <3>2, <3>3 DEF N
  <2> HIDE DEF new, src
  <2>6. Execute(new, FALSE, read) = Outcome(0, last, new, SubSeq(new, r.sector, last), 0)
    <3>1. r.sector \in DOMAIN new /\ ~(last > Len(new)) /\ r.sector # 0
      BY <1>3, <1>6, <2>5
    <3> HIDE DEF read, last
    <3> QED BY <1>1, <1>2, <3>1 DEF Execute
  <2>7. Execute(new, FALSE, read).buffer = SubSeq(new, r.sector, last)
    <3> HIDE DEF read, last
    <3> DEFINE sub == SubSeq(new, r.sector, last)
    <3> HIDE DEF sub
    <3>1. Outcome(0, last, new, sub, 0).buffer = sub
      BY OutcomeIs
    <3> QED BY <2>6, <3>1, Zenon DEF sub
  <2>8. SubSeq(new, r.sector, last) = [i \in 1 .. r.count |-> new[r.sector + i - 1]]
    <3>1. last - r.sector + 1 = r.count /\ last \in Int
      BY <1>1
    <3> DEFINE sub == SubSeq(new, r.sector, last)
               S == {new[k] : k \in r.sector .. last}
    <3> HIDE DEF last
    <3>2. \A k \in r.sector .. last : new[k] \in S
      OBVIOUS
    <3>3. /\ sub \in Seq(S)
          /\ Len(sub) = IF r.sector <= last THEN last - r.sector + 1 ELSE 0
          /\ \A i \in 1 .. (last - r.sector + 1) : sub[i] = new[r.sector + i - 1]
      <4> HIDE DEF S
      <4> QED BY <1>1, <3>1, <3>2, SubSeqProperties
    <3>4. Len(sub) = r.count
      BY <1>1, <3>1, <3>3 DEF last
    <3> HIDE DEF sub, S
    <3>5. sub = [i \in 1 .. r.count |-> sub[i]]
      BY <3>3, <3>4
    <3> QED BY <3>1, <3>3, <3>5 DEF sub
  <2>9. \A i \in 1 .. r.count : new[r.sector + i - 1] = src[i]
    <3> SUFFICES ASSUME NEW i \in 1 .. r.count PROVE new[r.sector + i - 1] = src[i]
      OBVIOUS
    <3>1. /\ r.sector + i - 1 \in 1 .. Len(volume) /\ r.sector + i - 1 \in r.sector .. last
          /\ (r.sector + i - 1) - r.sector + 1 = i
      <4>1. r.sector \in 1 .. Len(volume) /\ last <= Len(volume)
        BY <1>1, <1>3, <1>6
      <4> DEFINE lo == r.sector
                 L == Len(volume)
                 c == r.count
      <4>2. lo \in Nat /\ lo >= 1 /\ L \in Nat /\ c \in Nat /\ i \in 1 .. c /\ lo + c - 1 <= L
        <5> HIDE DEF L
        <5> QED BY <1>1, <1>3, <4>1 DEF L
      <4> HIDE DEF lo, L, c
      <4>3. /\ lo + i - 1 \in 1 .. L /\ lo + i - 1 \in lo .. (lo + c - 1)
            /\ (lo + i - 1) - lo + 1 = i
        BY <4>2
      <4> QED BY <4>3 DEF lo, L, c
    <3> HIDE DEF last
    <3> QED BY <2>4, <3>1
  <2>10. SubSeq(new, r.sector, last) = src
    BY <1>4, <2>8, <2>9
  <2>11. src = Source(r, Len(volume[1]))
    <3>1. 1 \in DOMAIN volume
      BY <1>1, <1>3, <1>6
    <3> QED BY <2>3, <3>1 DEF src
  <2>12. \A s \in DOMAIN volume : new[s] # volume[s] => s \in r.sector .. LastOf(r)
    <3> HIDE DEF last
    <3> QED BY <1>2, <1>3, <2>4
  <2> HIDE DEF out, read, last
  <2> QED BY <1>6, <2>2, <2>7, <2>10, <2>11, <2>12
<1> HIDE DEF Good, out
<1> QED BY <1>5, <1>6

(* A set of numbers has a least one.                                       *)
LEMMA LeastIsIt ==
    ASSUME NEW T, T \subseteq Nat, T # {}
    PROVE  Min(T) \in T /\ \A y \in T : Min(T) <= y
<1>1. IsWellFoundedOn(OpToRel(<, Nat), Nat)
  BY NatLessThanWellFounded
<1>2. PICK x \in T : \A y \in T : ~(<<y, x>> \in OpToRel(<, Nat))
  BY <1>1, WFMin
<1>3. \A y \in T : ~(y < x)
  BY <1>2 DEF OpToRel
<1>4. \A y \in T : x <= y
  BY <1>3
<1> QED BY <1>4 DEF Min

(* What holds at the first number, and at each one after one where it      *)
(* holds, holds at every number.                                           *)
LEMMA StepByStep ==
    ASSUME NEW n \in Nat, NEW H, 0 \in H, \A i \in 1 .. n : i - 1 \in H => i \in H
    PROVE  \A i \in 0 .. n : i \in H
<1> DEFINE T == {i \in 0 .. n : i \notin H}
<1>1. SUFFICES ASSUME T # {} PROVE FALSE
  OBVIOUS
<1>2. T \subseteq Nat
  OBVIOUS
<1> DEFINE x == Min(T)
<1>3. x \in T /\ \A y \in T : x <= y
  <2> HIDE DEF T
  <2> QED BY <1>1, <1>2, LeastIsIt
<1> HIDE DEF x
<1>4. x \in 1 .. n
  <2>1. x # 0 /\ x \in 0 .. n
    BY <1>3
  <2> QED BY <2>1
<1>5. x - 1 \notin T /\ x - 1 \in 0 .. n
  <2>1. ~(x <= x - 1)
    BY <1>4
  <2> HIDE DEF T
  <2> QED BY <1>3, <1>4, <2>1
<1> QED BY <1>3, <1>4, <1>5

(* The value of a key, prefix by prefix.                                   *)
Prefixes(key, f) ==
    /\ f \in [0 .. Len(key) -> Nat]
    /\ f[0] = 0
    /\ \A i \in 1 .. Len(key) : f[i] = 256 * f[i - 1] + key[i]

(* The number of a key is the last of those of its prefixes.               *)
LEMMA NumberIs ==
    ASSUME NEW key \in Seq(Bytes)
    PROVE  \E f : Prefixes(key, f) /\ Number(key) = f[Len(key)]
<1> DEFINE n == Len(key)
           One(f, i) == IF i = 0 THEN 0 ELSE 256 * f[i - 1] + key[i]
           up == CHOOSE f : f = [i \in 0 .. n |-> One(f, i)]
<1>1. Number(key) = up[n]
  BY Zenon DEF Number
<1>2. n \in Nat /\ \A i \in 1 .. n : key[i] \in Nat
  <2>1. n \in Nat
    OBVIOUS
  <2>2. \A i \in 1 .. n : key[i] \in Bytes
    BY ElementOfSeq
  <2>3. Bytes \subseteq Nat
    BY DEF Bytes
  <2> HIDE DEF n
  <2> QED BY <2>1, <2>2, <2>3
<1> HIDE DEF n
<1> DEFINE H == {m \in Nat : \E f \in [0 .. n -> Nat] : \A i \in 0 .. m : i <= n => f[i] = One(f, i)}
<1>3. 0 \in H
  <2> DEFINE f == [i \in 0 .. n |-> 0]
  <2>1. f \in [0 .. n -> Nat] /\ \A i \in 0 .. 0 : i <= n => f[i] = One(f, i)
    BY <1>2
  <2> HIDE DEF f, One
  <2> QED BY <2>1
<1>4. ASSUME NEW m \in 1 .. n, m - 1 \in H PROVE m \in H
  <2>1. PICK f \in [0 .. n -> Nat] : \A i \in 0 .. (m - 1) : i <= n => f[i] = One(f, i)
    BY <1>4
  <2> DEFINE v == 256 * f[m - 1] + key[m]
             h == [i \in 0 .. n |-> IF i = m THEN v ELSE f[i]]
  <2>2. v \in Nat
    BY <1>2
  <2>3. h \in [0 .. n -> Nat]
    <3> HIDE DEF v
    <3> QED BY <2>2
  <2>4. ASSUME NEW i \in 0 .. m PROVE h[i] = One(h, i)
    <3>1. CASE i = m
      <4>1. i # 0 /\ i - 1 \in 0 .. n /\ i - 1 # m /\ i \in 0 .. n
        BY <1>2, <3>1
      <4>2. h[i] = v /\ h[i - 1] = f[i - 1]
        BY <3>1, <4>1
      <4> HIDE DEF h
      <4> QED BY <3>1, <4>1, <4>2
    <3>2. CASE i = 0
      <4>1. 0 \in 0 .. (m - 1) /\ 0 # m /\ 0 \in 0 .. n /\ 0 <= n
        BY <1>2
      <4>2. f[0] = 0
        BY <2>1, <4>1
      <4>3. h[0] = f[0]
        BY <4>1
      <4> HIDE DEF h
      <4> QED BY <3>2, <4>2, <4>3
    <3>3. CASE i # 0 /\ i # m
      <4>1. /\ i \in 0 .. (m - 1) /\ i - 1 \in 0 .. n /\ i - 1 # m /\ i \in 0 .. n /\ i <= n
        BY <1>2, <3>3
      <4>2. f[i] = 256 * f[i - 1] + key[i]
        BY <2>1, <3>3, <4>1
      <4>3. h[i] = f[i] /\ h[i - 1] = f[i - 1]
        BY <3>3, <4>1
      <4> HIDE DEF h
      <4> QED BY <3>3, <4>2, <4>3
    <3> QED BY <3>1, <3>2, <3>3
  <2>5. m \in Nat
    BY <1>2
  <2>6. \A i \in 0 .. m : i <= n => h[i] = One(h, i)
    BY <2>4
  <2> HIDE DEF h, One
  <2> QED BY <2>3, <2>5, <2>6
<1>5. n \in H
  <2> HIDE DEF H
  <2>1. \A i \in 0 .. n : i \in H
    BY <1>2, <1>3, <1>4, StepByStep
  <2> QED BY <1>2, <2>1
<1>6. PICK f \in [0 .. n -> Nat] : \A i \in 0 .. n : f[i] = One(f, i)
  <2>1. PICK f \in [0 .. n -> Nat] : \A i \in 0 .. n : i <= n => f[i] = One(f, i)
    BY <1>5
  <2>2. \A i \in 0 .. n : i <= n
    BY <1>2
  <2> HIDE DEF One
  <2> QED BY <2>1, <2>2
<1>7. f = [i \in 0 .. n |-> One(f, i)]
  <2> HIDE DEF One
  <2>1. f = [i \in 0 .. n |-> f[i]]
    OBVIOUS
  <2> QED BY <1>6, <2>1
<1>8. up = [i \in 0 .. n |-> One(up, i)]
  <2> HIDE DEF One
  <2> QED BY <1>7
<1>9. \A i \in 0 .. n : up[i] = One(up, i)
  <2> HIDE DEF One, up
  <2> QED BY <1>8
<1> HIDE DEF up
<1>10. up[0] = 0 /\ \A i \in 1 .. n : up[i] = 256 * up[i - 1] + key[i]
  <2>1. 0 \in 0 .. n /\ \A i \in 1 .. n : i \in 0 .. n /\ i # 0
    BY <1>2
  <2> QED BY <1>9, <2>1
<1> DEFINE K == {i \in Nat : up[i] \in Nat}
<1>11. \A i \in 0 .. n : i \in K
  <2>1. 0 \in K
    BY <1>10
  <2>2. \A i \in 1 .. n : i - 1 \in K => i \in K
    <3> SUFFICES ASSUME NEW i \in 1 .. n, i - 1 \in K PROVE i \in K
      OBVIOUS
    <3>1. /\ i \in Nat /\ up[i - 1] \in Nat /\ key[i] \in Nat
          /\ up[i] = 256 * up[i - 1] + key[i]
      BY <1>2, <1>10
    <3> DEFINE x == up[i - 1]
               y == key[i]
    <3> HIDE DEF x, y
    <3>2. 256 * x + y \in Nat
      BY <3>1 DEF x, y
    <3> QED BY <3>1, <3>2 DEF x, y
  <2> HIDE DEF K
  <2> QED BY <1>2, <2>1, <2>2, StepByStep
<1>12. up \in [0 .. n -> Nat]
  <2>1. up = [i \in 0 .. n |-> up[i]]
    <3> HIDE DEF One
    <3> QED BY <1>8, <1>9
  <2> QED BY <1>11, <2>1
<1>13. Prefixes(key, up)
  BY <1>10, <1>12 DEF Prefixes, n
<1> QED BY <1>1, <1>13 DEF n

(* Of two keys of one length, the one whose first unlike byte is the       *)
(* greater is the greater number.                                          *)
LEMMA GreaterKey ==
    ASSUME NEW k \in Seq(Bytes), NEW a \in Seq(Bytes), Len(k) = Len(a)
    PROVE  /\ (\A j \in 1 .. Len(a) : k[j] = a[j]) => Number(k) = Number(a)
           /\ \A m \in 1 .. Len(a) :
                 (\A j \in 1 .. (m - 1) : k[j] = a[j]) /\ k[m] > a[m] => Number(k) > Number(a)
<1> DEFINE n == Len(a)
<1>1. PICK f : Prefixes(k, f) /\ Number(k) = f[n]
  BY NumberIs
<1>2. PICK h : Prefixes(a, h) /\ Number(a) = h[n]
  BY NumberIs
<1>3. /\ n \in Nat /\ \A j \in 1 .. n : k[j] \in 0 .. 255 /\ a[j] \in 0 .. 255
  <2>1. n \in Nat
    OBVIOUS
  <2>2. \A j \in 1 .. n : k[j] \in Bytes /\ a[j] \in Bytes
    BY ElementOfSeq
  <2> QED BY <2>1, <2>2 DEF Bytes
<1>4. /\ f \in [0 .. n -> Nat] /\ h \in [0 .. n -> Nat] /\ f[0] = 0 /\ h[0] = 0
      /\ \A i \in 1 .. n : f[i] = 256 * f[i - 1] + k[i] /\ h[i] = 256 * h[i - 1] + a[i]
  BY <1>1, <1>2 DEF Prefixes
<1> HIDE DEF n
<1> DEFINE Like(i) == \A j \in 1 .. i : k[j] = a[j]
           H == {i \in Nat : /\ Like(i) => f[i] = h[i]
                             /\ \A m \in 1 .. i : Like(m - 1) /\ k[m] > a[m] => f[i] > h[i]}
<1>5. 0 \in H
  BY <1>4
<1>6. ASSUME NEW i \in 1 .. n, i - 1 \in H PROVE i \in H
  <2>1. /\ Like(i - 1) => f[i - 1] = h[i - 1]
        /\ \A m \in 1 .. (i - 1) : Like(m - 1) /\ k[m] > a[m] => f[i - 1] > h[i - 1]
    BY <1>6
  <2>2. /\ i \in Nat /\ f[i - 1] \in Nat /\ h[i - 1] \in Nat /\ k[i] \in 0 .. 255 /\ a[i] \in 0 .. 255
        /\ f[i] = 256 * f[i - 1] + k[i] /\ h[i] = 256 * h[i - 1] + a[i]
    BY <1>3, <1>4
  <2> DEFINE F == f[i - 1]
             E == h[i - 1]
             x == k[i]
             y == a[i]
  <2>5. F \in Nat /\ E \in Nat /\ x \in 0 .. 255 /\ y \in 0 .. 255
    BY <2>2
  <2>6. f[i] = 256 * F + x /\ h[i] = 256 * E + y
    BY <2>2
  <2> HIDE DEF F, E, x, y
  <2>7. F > E \/ (F = E /\ x > y) => 256 * F + x > 256 * E + y
    BY <2>5
  <2>3. ASSUME Like(i) PROVE f[i] = h[i]
    <3>1. Like(i - 1) /\ k[i] = a[i]
      BY <2>3
    <3> HIDE DEF Like
    <3> QED BY <2>1, <2>2, <3>1
  <2>4. ASSUME NEW m \in 1 .. i, Like(m - 1), k[m] > a[m] PROVE f[i] > h[i]
    <3>1. CASE m = i
      <4> HIDE DEF Like
      <4>1. f[i - 1] = h[i - 1]
        BY <2>1, <2>4, <3>1
      <4> QED BY <2>4, <2>6, <2>7, <3>1, <4>1 DEF F, E, x, y
    <3>2. CASE m # i
      <4> HIDE DEF Like
      <4>1. m \in 1 .. (i - 1)
        BY <3>2
      <4>2. f[i - 1] > h[i - 1]
        BY <2>1, <2>4, <4>1
      <4> QED BY <2>6, <2>7, <4>2 DEF F, E
    <3> QED BY <3>1, <3>2
  <2> HIDE DEF Like
  <2> QED BY <2>2, <2>3, <2>4
<1>7. n \in H
  <2> HIDE DEF H
  <2>1. \A i \in 0 .. n : i \in H
    BY <1>3, <1>5, <1>6, StepByStep
  <2> QED BY <1>3, <2>1
<1> QED BY <1>1, <1>2, <1>7 DEF n

(* The first unlike byte decides, as for the numbers.                      *)
LEMMA CompareIs ==
    ASSUME NEW k \in Seq(Bytes), NEW a \in Seq(Bytes), Len(k) = Len(a)
    PROVE  /\ Number(k) \in Nat /\ Number(a) \in Nat
           /\ Compare(k, a) >= 0 <=> Number(k) >= Number(a)
           /\ Compare(k, a) = 0 <=> Number(k) = Number(a)
<1> DEFINE n == Len(a)
           unlike == {i \in 1 .. n : k[i] # a[i]}
           m == Min(unlike)
<1>1. n \in Nat /\ DOMAIN a = 1 .. n
  OBVIOUS
<1>2. \A j \in 1 .. n : k[j] \in 0 .. 255 /\ a[j] \in 0 .. 255
  <2>1. \A j \in 1 .. n : k[j] \in Bytes /\ a[j] \in Bytes
    BY ElementOfSeq
  <2> QED BY <2>1 DEF Bytes
<1>3. Number(k) \in Nat /\ Number(a) \in Nat
  <2>1. ASSUME NEW key \in Seq(Bytes) PROVE Number(key) \in Nat
    <3>1. PICK f : Prefixes(key, f) /\ Number(key) = f[Len(key)]
      BY NumberIs
    <3>2. Len(key) \in Nat
      OBVIOUS
    <3> QED BY <3>1, <3>2 DEF Prefixes
  <2> QED BY <2>1
<1>4. Compare(k, a) = IF unlike = {} THEN 0 ELSE k[m] - a[m]
  BY <1>1, Zenon DEF Compare
<1>5. /\ (\A j \in 1 .. n : k[j] = a[j]) => Number(k) = Number(a)
      /\ \A i \in 1 .. n :
            (\A j \in 1 .. (i - 1) : k[j] = a[j]) /\ k[i] > a[i] => Number(k) > Number(a)
      /\ \A i \in 1 .. n :
            (\A j \in 1 .. (i - 1) : a[j] = k[j]) /\ a[i] > k[i] => Number(a) > Number(k)
  BY GreaterKey
<1> HIDE DEF n
<1>6. CASE unlike = {}
  <2>1. \A j \in 1 .. n : k[j] = a[j]
    BY <1>6
  <2> HIDE DEF unlike
  <2> QED BY <1>3, <1>4, <1>5, <1>6, <2>1
<1>7. CASE unlike # {}
  <2>1. m \in unlike /\ \A y \in unlike : m <= y
    <3>1. unlike \subseteq Nat
      OBVIOUS
    <3> HIDE DEF unlike
    <3> QED BY <1>7, <3>1, LeastIsIt
  <2> HIDE DEF m
  <2>2. m \in 1 .. n /\ k[m] # a[m] /\ \A j \in 1 .. (m - 1) : k[j] = a[j]
    <3>1. m \in 1 .. n /\ k[m] # a[m]
      BY <2>1
    <3>2. ASSUME NEW j \in 1 .. (m - 1) PROVE k[j] = a[j]
      <4>1. j \in 1 .. n /\ ~(m <= j)
        BY <1>1, <3>1
      <4> QED BY <2>1, <4>1
    <3> QED BY <3>1, <3>2
  <2>3. Compare(k, a) = k[m] - a[m]
    <3> HIDE DEF unlike
    <3> QED BY <1>4, <1>7
  <2>4. k[m] \in 0 .. 255 /\ a[m] \in 0 .. 255
    BY <1>2, <2>2
  <2> DEFINE x == k[m]
             y == a[m]
  <2>5. x \in 0 .. 255 /\ y \in 0 .. 255 /\ x # y /\ Compare(k, a) = x - y
    BY <2>2, <2>3, <2>4
  <2>6. /\ x > y => Number(k) > Number(a)
        /\ y > x => Number(a) > Number(k)
    BY <1>5, <2>2
  <2> HIDE DEF x, y
  <2> QED BY <1>3, <2>5, <2>6
<1> QED BY <1>3, <1>6, <1>7

(* The places where a search of sectors of that many bytes compares.       *)
Places(r, bytes) ==
    {p \in 0 .. bytes - Len(r.argument) :
        /\ p >= r.first /\ p <= r.last
        /\ (p - r.first) % (Len(r.argument) + r.gap) = 0}

(* A least pair of places has the least of the numbers.                    *)
LeastPair(S, P, f, x, high, s0, p0) ==
    /\ S \subseteq Nat /\ P \subseteq Nat /\ x \in Nat /\ s0 \in S /\ p0 \in P
    /\ \A s \in S, p \in P : f[s][p] \in Nat
    /\ \A s, t \in S, p, q \in P : s < t \/ (s = t /\ p <= q) => f[s][p] <= f[t][q]
    /\ \A m : m \in high <=> m >= x /\ \E s \in S, p \in P : m = f[s][p]
    /\ f[s0][p0] >= x
    /\ \A s \in S, p \in P : f[s][p] >= x => s0 <= s
    /\ \A p \in P : f[s0][p] >= x => p0 <= p

(* A least pair of places has the least of the numbers.                    *)
LEMMA AscendingLeast ==
    \A S, P, f, x, high, s0, p0 :
        LeastPair(S, P, f, x, high, s0, p0) =>
            /\ Min(high) = f[s0][p0]
            /\ x \in high <=> f[s0][p0] = x
            /\ f[s0][p0] \in high
<1> SUFFICES ASSUME NEW S, NEW P, NEW f, NEW x, NEW high, NEW s0, NEW p0,
                    LeastPair(S, P, f, x, high, s0, p0)
             PROVE  /\ Min(high) = f[s0][p0]
                    /\ x \in high <=> f[s0][p0] = x
                    /\ f[s0][p0] \in high
  OBVIOUS
<1> USE DEF LeastPair
<1>1. f[s0][p0] \in high
  OBVIOUS
<1>2. ASSUME NEW m \in high PROVE m \in Nat /\ f[s0][p0] <= m
  <2>1. PICK s \in S, p \in P : m = f[s][p] /\ m >= x
    OBVIOUS
  <2>2. s0 <= s /\ s \in Nat /\ s0 \in Nat /\ p \in Nat /\ p0 \in Nat
    BY <2>1
  <2>3. CASE s0 = s
    BY <2>1, <2>2, <2>3
  <2>4. CASE s0 # s
    <3>1. s0 < s
      BY <2>2, <2>4
    <3> QED BY <2>1, <3>1
  <2> QED BY <2>3, <2>4
<1>3. high \subseteq Nat /\ high # {}
  BY <1>1, <1>2
<1>4. Min(high) \in high /\ \A y \in high : Min(high) <= y
  BY <1>3, LeastIsIt
<1> DEFINE v == f[s0][p0]
           m == Min(high)
<1>5. m \in Nat /\ v \in Nat /\ m <= v /\ v <= m
  BY <1>1, <1>2, <1>3, <1>4
<1> HIDE DEF v, m
<1>6. m = v
  BY <1>5
<1>7. x \in high => v <= x
  BY <1>2 DEF v
<1>8. v >= x /\ (v = x => x \in high)
  BY <1>1 DEF v
<1> QED BY <1>1, <1>5, <1>6, <1>7, <1>8 DEF m, v

(* What a search is made of.                                               *)
LEMMA SearchParts ==
    ASSUME NEW volume, NEW bytes, NEW r, IsVolume(volume, bytes), IsSearch(volume, bytes, r)
    PROVE  /\ r.argument \in Seq(Bytes)
           /\ Len(r.argument) \in Nat /\ Len(r.argument) >= 1
           /\ r.first \in Nat /\ r.last \in Nat /\ r.gap \in Nat
           /\ r.sector \in Nat /\ r.sector >= 1 /\ r.sector # 0
           /\ LastOf(r) \in Int
           /\ Len(volume) \in Nat
           /\ LastOf(r) <= Len(volume)
           /\ r.sector \in DOMAIN volume /\ ~Unusable(volume, r)
           /\ bytes \in Nat /\ Len(volume[1]) = bytes
           /\ \A s \in r.sector .. LastOf(r) :
                 s \in Nat /\ volume[s] \in Seq(Bytes) /\ Len(volume[s]) = bytes
<1> DEFINE lo == r.sector
           a == r.argument
           L == Len(volume)
           last == LastOf(r)
<1>1. lo \in Nat /\ r.count \in Nat /\ a \in Seq(Bytes)
      /\ r.first \in Nat /\ r.last \in Nat /\ r.gap \in Nat
  BY DEF IsSearch, Requests
<1>2. Len(a) \in Nat /\ Len(a) >= 1
  <2>1. Len(a) \in Nat
    BY <1>1, LenProperties
  <2>2. Len(a) >= 1
    BY DEF IsSearch
  <2> QED BY <2>1, <2>2
<1>3. last \in Int
  BY <1>1 DEF LastOf
<1>4. volume \in Seq(Seq(Bytes))
  BY DEF IsVolume
<1>5. L \in Nat /\ DOMAIN volume = 1 .. L
  BY <1>4
<1>6. lo \in DOMAIN volume /\ last <= L
  BY DEF IsSearch
<1> HIDE DEF lo, L, last
<1>7. lo \in 1 .. L
  BY <1>5, <1>6, Zenon
<1>8. lo >= 1 /\ lo # 0 /\ 1 \in 1 .. L
  BY <1>5, <1>7
<1>9. ASSUME NEW s \in 1 .. L PROVE volume[s] \in Seq(Bytes) /\ Len(volume[s]) = bytes
  <2>1. s \in DOMAIN volume
    BY <1>5, Zenon
  <2>2. volume[s] \in Seq(Bytes)
    BY <1>4, <1>9, ElementOfSeq DEF L
  <2> QED BY <2>1, <2>2 DEF IsVolume
<1>10. bytes \in Nat /\ Len(volume[1]) = bytes
  <2>1. volume[1] \in Seq(Bytes) /\ Len(volume[1]) = bytes
    BY <1>8, <1>9
  <2>2. Len(volume[1]) \in Nat
    BY <2>1, LenProperties
  <2> QED BY <2>1, <2>2
<1>11. ~Unusable(volume, r)
  <2>1. Len(volume[lo]) = bytes
    BY <1>7, <1>9
  <2>2. r.first + Len(a) <= bytes /\ r.modifier = "high or equal"
    BY DEF IsSearch
  <2> DEFINE f == r.first
             n == Len(a)
  <2>3. f \in Nat /\ n \in Nat
    BY <1>1, <1>2
  <2>7. f + n <= bytes
    BY <2>2, Zenon
  <2> HIDE DEF f, n
  <2>4. ~(f + n > bytes)
    BY <1>10, <2>3, <2>7
  <2>5. Unusable(volume, r) <=>
          \/ r.modifier \notin {"equal", "low or equal", "high or equal"}
          \/ f + n > Len(volume[lo])
    BY Zenon DEF Unusable, f, n, lo
  <2>6. r.modifier \in {"equal", "low or equal", "high or equal"}
    BY <2>2
  <2> QED BY <2>1, <2>4, <2>5, <2>6
<1>12. ASSUME NEW s \in lo .. last PROVE s \in Nat /\ s \in 1 .. L
  BY <1>1, <1>3, <1>5, <1>6, <1>8
<1> QED BY <1>1, <1>2, <1>3, <1>5, <1>6, <1>8, <1>9, <1>10, <1>11, <1>12 DEF lo, L, last

(* The keys it compares, and what each comparison says.                    *)
LEMMA SearchCompares ==
    ASSUME NEW volume, NEW bytes, NEW r, IsVolume(volume, bytes), IsSearch(volume, bytes, r),
           NEW s \in r.sector .. LastOf(r), NEW p \in Places(r, bytes)
    PROVE  LET k == KeyAt(volume[s], p, Len(r.argument))
           IN  /\ Number(k) \in Nat /\ Number(r.argument) \in Nat
               /\ Compare(k, r.argument) >= 0 <=> Number(k) >= Number(r.argument)
               /\ Compare(k, r.argument) = 0 <=> Number(k) = Number(r.argument)
<1> DEFINE a == r.argument
           n == Len(a)
           sector == volume[s]
           k == KeyAt(sector, p, n)
<1>1. /\ a \in Seq(Bytes) /\ n \in Nat /\ n >= 1 /\ bytes \in Nat
      /\ sector \in Seq(Bytes) /\ Len(sector) = bytes
  BY SearchParts
<1>2. p \in 0 .. bytes - n
  BY DEF Places
<1> HIDE DEF n, sector
<1>3. p \in Nat /\ p + n <= bytes
  BY <1>1, <1>2
<1>4. p + 1 \in Int /\ p + n \in Int /\ p + 1 <= p + n /\ (p + n) - (p + 1) + 1 = n
  BY <1>1, <1>3
<1>5. ASSUME NEW i \in (p + 1) .. (p + n) PROVE sector[i] \in Bytes
  <2>1. i \in 1 .. Len(sector)
    BY <1>1, <1>3
  <2> QED BY <1>1, <2>1, ElementOfSeq
<1>6. SubSeq(sector, p + 1, p + n) \in Seq(Bytes) /\ Len(SubSeq(sector, p + 1, p + n)) = n
  BY <1>4, <1>5, SubSeqProperties
<1>7. k \in Seq(Bytes) /\ Len(k) = n
  BY <1>6 DEF KeyAt
<1> HIDE DEF k
<1> QED BY <1>1, <1>7, CompareIs DEF n, k, sector

(* Every sector is searched at the same places.                            *)
LEMMA SearchPlaces ==
    ASSUME NEW volume, NEW bytes, NEW r, IsVolume(volume, bytes), IsSearch(volume, bytes, r)
    PROVE  KeyPlaces(r, bytes) = Places(r, bytes) /\ Places(r, bytes) \subseteq Nat
<1> DEFINE n == Len(r.argument)
           f == r.first
           l == r.last
<1>1. n \in Nat /\ bytes \in Nat /\ f \in Nat /\ l \in Nat
  BY SearchParts
<1>2. ASSUME NEW p
      PROVE p \in KeyPlaces(r, bytes) <=> p \in f .. l /\ (p - f) % (n + r.gap) = 0 /\ p + n <= bytes
  BY Zenon DEF KeyPlaces
<1>3. ASSUME NEW p
      PROVE p \in Places(r, bytes)
              <=> p \in 0 .. bytes - n /\ p >= f /\ p <= l /\ (p - f) % (n + r.gap) = 0
  BY Zenon DEF Places
<1> HIDE DEF n, f, l
<1>4. ASSUME NEW p
      PROVE p \in f .. l /\ p + n <= bytes <=> p \in 0 .. bytes - n /\ p >= f /\ p <= l
  BY <1>1
<1>5. ASSUME NEW p PROVE p \in KeyPlaces(r, bytes) <=> p \in Places(r, bytes)
  BY <1>2, <1>3, <1>4, Zenon
<1>6. Places(r, bytes) \subseteq Nat
  BY <1>1, <1>3
<1> QED BY <1>5, <1>6, Zenon

(* The parts of what a search has to find.                                 *)
SearchWords(volume, r, n, Q, keys, high, out) ==
    /\ n = Len(r.argument)
    /\ Q = {p \in 0 .. Len(volume[1]) - n :
               /\ p >= r.first /\ p <= r.last
               /\ (p - r.first) % (n + r.gap) = 0}
    /\ keys = {KeyAt(volume[s], p, n) : s \in r.sector .. LastOf(r), p \in Q}
    /\ high = {m \in {Number(k) : k \in keys} : m >= Number(r.argument)}
    /\ out = Execute(volume, FALSE, r)

(* A search finds what it should if these parts are so related.            *)
LEMMA FindsWhen ==
    \A volume, r, n, Q, keys, high, out :
        SearchWords(volume, r, n, Q, keys, high, out) =>
            (FindsLeast(volume, r) <=>
              IF high = {} THEN out.code = 2 /\ out.work = LastOf(r)
              ELSE /\ out.buffer = <<volume[out.work]>>
                   /\ Number(KeyAt(out.buffer[1], out.place - n + 1, n)) = Min(high)
                   /\ out.code = IF Number(r.argument) \in high THEN 4 ELSE 0)
  BY DEF FindsLeast, SearchWords

(* Every scan for "high or equal" of ascending keys, over any number of    *)
(* sectors and whatever the length of the keys and the gap between them,   *)
(* stops at the least key not below its argument                           *)
(* (VirtualFixedDisk.cpp:136-225).                                         *)
THEOREM EverySearchFindsLeast ==
    \A volume, bytes, r :
        IsVolume(volume, bytes) /\ IsSearch(volume, bytes, r) => FindsLeast(volume, r)
<1> SUFFICES ASSUME NEW volume, NEW bytes, NEW r, IsVolume(volume, bytes), IsSearch(volume, bytes, r)
             PROVE  FindsLeast(volume, r)
  OBVIOUS
<1> DEFINE a == r.argument
           n == Len(a)
           last == LastOf(r)
           S == r.sector .. last
           P == Places(r, bytes)
           x == Number(a)
           f == [s \in S |-> [p \in P |-> Number(KeyAt(volume[s], p, n))]]
           Q == {p \in 0 .. Len(volume[1]) - n :
                    /\ p >= r.first /\ p <= r.last
                    /\ (p - r.first) % (n + r.gap) = 0}
           keys == {KeyAt(volume[s], p, n) : s \in S, p \in Q}
           high == {m \in {Number(k) : k \in keys} : m >= x}
           out == Execute(volume, FALSE, r)
           Hits(s) == {p \in KeyPlaces(r, Len(volume[s])) :
                          Hit(r.modifier, Compare(KeyAt(volume[s], p, n), a))}
           found == {s \in S : Hits(s) # {}}
           s0 == Min(found)
           p0 == Min(Hits(s0))
           Good(o) == IF high = {} THEN o.code = 2 /\ o.work = last
                      ELSE /\ o.buffer = <<volume[o.work]>>
                           /\ Number(KeyAt(o.buffer[1], o.place - n + 1, n)) = Min(high)
                           /\ o.code = IF x \in high THEN 4 ELSE 0
<1>1. SUFFICES Good(out)
  <2>1. SearchWords(volume, r, n, Q, keys, high, out)
    BY DEF SearchWords
  <2> HIDE DEF n, Q, keys, high, out
  <2> QED BY <2>1, FindsWhen
<1>2. /\ S \subseteq Nat /\ P \subseteq Nat /\ Q = P /\ n \in Nat
      /\ \A s \in S : KeyPlaces(r, Len(volume[s])) = P
  <2>1. /\ n \in Nat /\ Len(volume[1]) = bytes
        /\ \A s \in S : s \in Nat /\ Len(volume[s]) = bytes
    BY SearchParts
  <2>2. KeyPlaces(r, bytes) = P /\ P \subseteq Nat
    BY SearchPlaces
  <2>3. Q = P
    BY <2>1, Zenon DEF Places
  <2> HIDE DEF S, P, Q, n
  <2> QED BY <2>1, <2>2, <2>3
<1>3. ASSUME NEW s \in S, NEW p \in P
      PROVE  /\ f[s][p] = Number(KeyAt(volume[s], p, n))
             /\ f[s][p] \in Nat /\ x \in Nat
             /\ Compare(KeyAt(volume[s], p, n), a) >= 0 <=> f[s][p] >= x
             /\ Compare(KeyAt(volume[s], p, n), a) = 0 <=> f[s][p] = x
  <2>1. f[s][p] = Number(KeyAt(volume[s], p, n))
    <3> HIDE DEF S, P, n
    <3> QED OBVIOUS
  <2> HIDE DEF f
  <2> QED BY <2>1, SearchCompares
<1>4. \A s, t \in S, p, q \in P : s < t \/ (s = t /\ p <= q) => f[s][p] <= f[t][q]
  <2>1. \A s, t \in S, p, q \in P : s < t \/ (s = t /\ p <= q) =>
           Number(KeyAt(volume[s], p, n)) <= Number(KeyAt(volume[t], q, n))
    BY SearchPlaces DEF IsSearch
  <2> HIDE DEF S, P, n, f
  <2> QED BY <1>3, <2>1
<1>5. ASSUME NEW s \in S, NEW p PROVE p \in Hits(s) <=> p \in P /\ f[s][p] >= x
  <2>1. r.modifier = "high or equal"
    BY DEF IsSearch
  <2>2. ASSUME NEW sign PROVE Hit(r.modifier, sign) <=> sign >= 0
    BY <2>1 DEF Hit
  <2>3. p \in Hits(s) <=> p \in P /\ Hit(r.modifier, Compare(KeyAt(volume[s], p, n), a))
    <3> HIDE DEF P, S, n, a
    <3> QED BY <1>2
  <2> HIDE DEF Hits, P, S, n, a, f, x
  <2> QED BY <1>3, <2>2, <2>3
<1>6. ASSUME NEW m PROVE m \in high <=> m >= x /\ \E s \in S, p \in P : m = f[s][p]
  <2>1. m \in high <=> m >= x /\ \E s \in S, p \in Q : m = Number(KeyAt(volume[s], p, n))
    <3>1. ASSUME NEW k PROVE k \in keys <=> \E s \in S, p \in Q : k = KeyAt(volume[s], p, n)
      <4> HIDE DEF Q, S, n
      <4> QED OBVIOUS
    <3> HIDE DEF keys, Q, S, n, x
    <3>2. m \in high <=> m >= x /\ \E k \in keys : m = Number(k)
      OBVIOUS
    <3> HIDE DEF high
    <3> QED BY <3>1, <3>2
  <2> HIDE DEF high, P, Q, S, n, x, f
  <2> QED BY <1>2, <1>3, <2>1
<1>7. out = IF found = {} THEN Outcome(2, last, volume, r.buffer, 0)
            ELSE Outcome(IF Compare(KeyAt(volume[s0], p0, n), a) = 0 THEN 4 ELSE 0,
                         s0, volume, <<volume[s0]>>, p0 + n - 1)
  <2>1. out = Scan(volume, r)
    <3>1. /\ r.sector \in DOMAIN volume /\ ~(LastOf(r) > Len(volume))
          /\ ~Unusable(volume, r)
      <4>1. ~Unusable(volume, r) /\ r.sector \in DOMAIN volume /\ last \in Int /\ Len(volume) \in Nat /\ last <= Len(volume)
        BY SearchParts
      <4> DEFINE L == Len(volume)
      <4> HIDE DEF last, L
      <4>2. ~(last > L)
        BY <4>1 DEF L
      <4> QED BY <4>1, <4>2 DEF last, L
    <3>2. r.command = "scan"
      BY DEF IsSearch
    <3> QED BY <3>1, <3>2 DEF Execute
  <2> QED BY <2>1, Zenon DEF Scan
<1>8. CASE found = {}
  <2>1. \A s \in S, p \in P : ~(f[s][p] >= x)
    <3> HIDE DEF S, P, f, x, Hits
    <3> QED BY <1>5, <1>8
  <2>2. high = {}
    <3> HIDE DEF S, P, f, x, high
    <3> QED BY <1>6, <2>1
  <2>3. out = Outcome(2, last, volume, r.buffer, 0)
    <3> HIDE DEF found, out
    <3> QED BY <1>7, <1>8
  <2>4. out.code = 2 /\ out.work = last
    <3> HIDE DEF out, last, found, high
    <3> QED BY <2>3 DEF Outcome
  <2> HIDE DEF out, high, last
  <2> QED BY <2>2, <2>4
<1>9. CASE found # {}
  <2>1. s0 \in found /\ \A y \in found : s0 <= y
    <3>1. found \subseteq Nat
      <4> HIDE DEF S, Hits
      <4> QED BY <1>2
    <3> HIDE DEF found
    <3> QED BY <1>9, <3>1, LeastIsIt
  <2> HIDE DEF s0
  <2>2. s0 \in S /\ Hits(s0) # {}
    <3> HIDE DEF S, Hits
    <3> QED BY <2>1
  <2>3. p0 \in Hits(s0) /\ \A q \in Hits(s0) : p0 <= q
    <3>1. Hits(s0) \subseteq Nat
      <4> HIDE DEF S, Hits, P, f, x
      <4> QED BY <1>2, <1>5, <2>2
    <3> HIDE DEF Hits
    <3> QED BY <2>2, <3>1, LeastIsIt
  <2> HIDE DEF p0
  <2>4. p0 \in P /\ f[s0][p0] >= x /\ \A q \in P : f[s0][q] >= x => p0 <= q
    <3> HIDE DEF S, Hits, P, f, x
    <3> QED BY <1>5, <2>2, <2>3
  <2>5. ASSUME NEW s \in S, NEW p \in P, f[s][p] >= x PROVE s0 <= s
    <3>1. s \in found
      <4>1. p \in Hits(s)
        <5> HIDE DEF S, Hits, P, f, x
        <5> QED BY <1>5, <2>5
      <4> HIDE DEF S, Hits, P
      <4> QED BY <4>1
    <3> HIDE DEF found
    <3> QED BY <2>1, <3>1
  <2>6. Min(high) = f[s0][p0] /\ (x \in high <=> f[s0][p0] = x) /\ f[s0][p0] \in high
    <3>1. x \in Nat
      <4> HIDE DEF S, P, f, x
      <4> QED BY <1>3, <2>2, <2>4
    <3>2. \A s \in S, p \in P : f[s][p] \in Nat
      <4> HIDE DEF S, P, f, x
      <4> QED BY <1>3
    <3>3. LeastPair(S, P, f, x, high, s0, p0)
      <4> HIDE DEF S, P, f, x, high
      <4> QED BY <1>2, <1>4, <1>6, <2>2, <2>4, <2>5, <3>1, <3>2 DEF LeastPair
    <3> HIDE DEF S, P, f, x, high
    <3> QED BY <3>3, AscendingLeast
  <2>7. out = Outcome(IF Compare(KeyAt(volume[s0], p0, n), a) = 0 THEN 4 ELSE 0,
                      s0, volume, <<volume[s0]>>, p0 + n - 1)
    <3> HIDE DEF found, out
    <3> QED BY <1>7, <1>9
  <2>8. /\ out.code = IF Compare(KeyAt(volume[s0], p0, n), a) = 0 THEN 4 ELSE 0
        /\ out.work = s0 /\ out.buffer = <<volume[s0]>> /\ out.place = p0 + n - 1
    <3> HIDE DEF out, last, found, high, n, a
    <3> QED BY <2>7 DEF Outcome
  <2>9. /\ Compare(KeyAt(volume[s0], p0, n), a) = 0 <=> f[s0][p0] = x
        /\ f[s0][p0] = Number(KeyAt(volume[s0], p0, n))
    <3> HIDE DEF S, P, f, x
    <3> QED BY <1>3, <2>2, <2>4
  <2> HIDE DEF out, high, last, f, x
  <2>10. out.code = IF x \in high THEN 4 ELSE 0
    BY <2>6, <2>8, <2>9
  <2>11. out.buffer = <<volume[out.work]>> /\ out.buffer[1] = volume[s0]
    BY <2>8
  <2>12. out.place - n + 1 = p0
    <3>1. p0 \in Nat /\ n \in Nat /\ out.place = p0 + n - 1
      <4> HIDE DEF P, n
      <4> QED BY <1>2, <2>4, <2>8
    <3> HIDE DEF n
    <3> QED BY <3>1
  <2>13. Number(KeyAt(out.buffer[1], out.place - n + 1, n)) = Min(high)
    <3> HIDE DEF n
    <3> QED BY <2>6, <2>9, <2>11, <2>12, Zenon
  <2>14. high # {}
    BY <2>6
  <2> QED BY <2>10, <2>11, <2>13, <2>14
<1> HIDE DEF found, out, Good
<1> QED BY <1>8, <1>9

(* Whatever the guest asks its media for, at any time and on media of any  *)
(* size, is done as it should be: the whole of MediaTransfers, without the *)
(* bounds of the instance's inputs.                                        *)
THEOREM MediaTransfersHolds == Spec => []MediaTransfers
<1>1. \A g \in Geometries : Linear(g) /\ WholeTransfers(g)
  BY MediaAssumption, ImagesAreLinear, ImagesMoveWholeTransfers
<1>2. \A v \in Volumes, r \in Searches : FindsLeast(v, r)
  BY MediaAssumption, EverySearchFindsLeast
<1>3. \A v \in Volumes, r \in Transfers : WritesExactly(v, r)
  BY MediaAssumption, EveryWriteIsExact
<1>4. MediaTransfers
  BY <1>1, <1>2, <1>3 DEF MediaTransfers, TransfersAreRight
<1> QED BY <1>4, PTL

-----------------------------------------------------------------------------
(* Saving and loading.                                                     *)

VolumeNames == {None, "disk", "media"}

Drives == {None, "media"} \cup Diskettes

Definitions == [volume : VolumeNames, mode : {"rw", "ro", "overlay"}, diskette : Drives]

Machines ==
    [volume : {"disk", "media"}, mode : {"rw", "ro", "overlay"}, overlay : Contents,
     drive : Drives, changed : BOOLEAN, knows : Contents, waits : SUBSET Operations,
     aces : SUBSET Operations, retained : SUBSET Operations, present : BOOLEAN]

TypeOK ==
    /\ written \in {"disk", "diskette"}
    /\ disk \in Values /\ diskettes \in [Diskettes -> Values]
    /\ media \in {None} \cup MediaSets
    /\ lock \in {"free", "us", "other", "stale"}
    /\ definition \in Definitions
    /\ machine \in {None} \cup Machines
    /\ station \in [attached : BOOLEAN, powerOff : BOOLEAN]
    /\ saving \in {None} \cup Checkpoints
    /\ snapshot \in {None} \cup Checkpoints
    /\ missed \in [writes : BOOLEAN, hangUp : BOOLEAN]
    /\ missedSaved \in [writes : BOOLEAN, hangUp : BOOLEAN]

(* The definition and the machine refer to media that exist.               *)
MediaExist ==
    /\ definition.volume = "media" => media # None
    /\ definition.diskette = "media" => media # None /\ media.diskette # None
    /\ machine # None =>
          /\ machine.volume = definition.volume /\ machine.mode = definition.mode
          /\ machine.drive = "media" => media # None /\ media.diskette # None

(* A save is of a machine that stays as it is until the save has ended.    *)
SaveAgrees ==
    saving # None => /\ saving.powered <=> machine # None
                     /\ saving.runtime = None
                     /\ definition.volume # None

CheckpointsAgree ==
    snapshot # None /\ snapshot.powered => snapshot.runtime \in Runtimes

SnapshotInv == TypeOK /\ MediaExist /\ SaveAgrees /\ CheckpointsAgree

WaitsInv ==
    /\ NoOrphanWait
    /\ saving # None /\ machine # None => machine.retained \cap {"screen", "put"} = {}
    /\ snapshot # None /\ snapshot.powered =>
          /\ snapshot.runtime.processor.aces = snapshot.runtime.waits
          /\ snapshot.runtime.waits \subseteq snapshot.runtime.devices.retained

(* What is lost of a hang-up is lost by a save, and remembered.            *)
PresenceInv ==
    /\ PresentIsAttached
    /\ saving # None /\ machine # None /\ machine.present => station.powerOff \/ missed.hangUp
    /\ snapshot # None /\ snapshot.powered /\ snapshot.runtime.processor.present =>
          missedSaved.hangUp

(* A machine without an overlay writes the image, which is its own then.   *)
Undisturbed ==
    machine # None =>
        /\ machine.mode = "overlay" /\ written = "disk" /\ machine.knows # None =>
              machine.overlay = machine.knows
        /\ machine.mode # "overlay" => machine.overlay = None
        /\ machine.volume = "disk" /\ machine.mode = "rw" => lock = "us"
        /\ machine.volume = "disk" /\ machine.mode = "ro" /\ written = "disk" =>
              machine.knows = None
        /\ machine.drive = None /\ ~machine.changed /\ written = "diskette" /\ ~missed.writes =>
              machine.knows = None

(* What a save and a checkpoint hold is what the guest knows by then.       *)
SavedAsKnown ==
    /\ saving # None /\ machine # None /\ machine.knows # None /\ ~missed.writes
          /\ (IF written = "disk" THEN machine.overlay = None ELSE ~machine.changed) =>
          machine.knows = IF written = "disk" THEN saving.disk ELSE saving.diskette
    /\ snapshot # None /\ snapshot.powered /\ snapshot.runtime.knows # None
          /\ ~missedSaved.writes =>
          snapshot.runtime.knows =
              IF written = "disk" THEN snapshot.disk ELSE snapshot.diskette

WritesInv == GuestSeesItsWrites /\ Undisturbed /\ SavedAsKnown

-----------------------------------------------------------------------------
(* What each operator does to the parts of a machine, of a definition and  *)
(* of a checkpoint.                                                        *)
(* A machine with the given parts.                                         *)
MachineOf(volume, mode, overlay, drive, changed, knows, waits, aces, retained,
          present) ==
    [volume |-> volume, mode |-> mode, overlay |-> overlay, drive |-> drive,
     changed |-> changed, knows |-> knows, waits |-> waits, aces |-> aces,
     retained |-> retained, present |-> present]

LEMMA MachineOfIs ==
    ASSUME NEW volume \in {"disk", "media"}, NEW mode \in {"rw", "ro", "overlay"},
           NEW overlay \in Contents, NEW drive \in Drives, NEW changed \in BOOLEAN,
           NEW knows \in Contents, NEW waits \in SUBSET Operations,
           NEW aces \in SUBSET Operations, NEW retained \in SUBSET Operations,
           NEW present \in BOOLEAN
    PROVE  MachineOf(volume, mode, overlay, drive, changed, knows, waits, aces,
                     retained,
                     present) \in Machines
BY DEF MachineOf, Machines

LEMMA KnowingIs ==
    ASSUME NEW m \in Machines, NEW value \in Contents
    PROVE  /\ Knowing(m, value) \in Machines
           /\ Knowing(m, value) =
                  MachineOf(m.volume, m.mode, m.overlay, m.drive, m.changed,
                         value, m.waits, m.aces, m.retained, m.present)
<1>1. Knowing(m, value) \in Machines
    BY DEF Knowing, Machines, Runtimes, Drives, Contents
<1>2. /\ Knowing(m, value).volume = m.volume /\ Knowing(m, value).mode = m.mode
      /\ Knowing(m, value).overlay = m.overlay /\ Knowing(m, value).drive = m.drive
      /\ Knowing(m, value).changed = m.changed /\ Knowing(m, value).knows = value
      /\ Knowing(m, value).waits = m.waits /\ Knowing(m, value).aces = m.aces
      /\ Knowing(m, value).retained = m.retained
      /\ Knowing(m, value).present = m.present
    BY Zenon DEF Knowing, Machines
<1> QED
    BY <1>1, <1>2 DEF Machines, MachineOf

LEMMA OverlaidIs ==
    ASSUME NEW m \in Machines, NEW value \in Contents
    PROVE  /\ Overlaid(m, value) \in Machines
           /\ Overlaid(m, value) =
                  MachineOf(m.volume, m.mode, value, m.drive, m.changed,
                         value, m.waits, m.aces, m.retained, m.present)
<1>1. Overlaid(m, value) \in Machines
    BY DEF Overlaid, Machines, Runtimes, Drives, Contents
<1>2. /\ Overlaid(m, value).volume = m.volume /\ Overlaid(m, value).mode = m.mode
      /\ Overlaid(m, value).overlay = value /\ Overlaid(m, value).drive = m.drive
      /\ Overlaid(m, value).changed = m.changed /\ Overlaid(m, value).knows = value
      /\ Overlaid(m, value).waits = m.waits /\ Overlaid(m, value).aces = m.aces
      /\ Overlaid(m, value).retained = m.retained
      /\ Overlaid(m, value).present = m.present
    BY Zenon DEF Overlaid, Machines
<1> QED
    BY <1>1, <1>2 DEF Machines, MachineOf

LEMMA InsertedIs ==
    ASSUME NEW m \in Machines, NEW d \in Diskettes
    PROVE  /\ Inserted(m, d) \in Machines
           /\ Inserted(m, d) =
                  MachineOf(m.volume, m.mode, m.overlay, d, (m.changed \/
                         m.drive # None), m.knows, m.waits, m.aces, m.retained,
                         m.present)
<1>1. Inserted(m, d) \in Machines
    BY DEF Inserted, Machines, Runtimes, Drives, Contents
<1>2. /\ Inserted(m, d).volume = m.volume /\ Inserted(m, d).mode = m.mode
      /\ Inserted(m, d).overlay = m.overlay /\ Inserted(m, d).drive = d
      /\ Inserted(m, d).changed = (m.changed \/ m.drive # None)
      /\ Inserted(m, d).knows = m.knows
      /\ Inserted(m, d).waits = m.waits /\ Inserted(m, d).aces = m.aces
      /\ Inserted(m, d).retained = m.retained /\ Inserted(m, d).present = m.present
    BY Zenon DEF Inserted, Machines
<1> QED
    BY <1>1, <1>2 DEF Machines, MachineOf

LEMMA RecalibratedIs ==
    ASSUME NEW m \in Machines
    PROVE  /\ Recalibrated(m) \in Machines
           /\ Recalibrated(m) =
                  MachineOf(m.volume, m.mode, m.overlay, m.drive, FALSE, (IF
                         written = "diskette" THEN None ELSE m.knows), m.waits,
                         m.aces, m.retained, m.present)
<1>1. Recalibrated(m) \in Machines
    BY DEF Recalibrated, Machines, Runtimes, Drives, Contents
<1>2. /\ Recalibrated(m).volume = m.volume /\ Recalibrated(m).mode = m.mode
      /\ Recalibrated(m).overlay = m.overlay /\ Recalibrated(m).drive = m.drive
      /\ Recalibrated(m).changed = FALSE
      /\ Recalibrated(m).knows = (IF written = "diskette" THEN None ELSE m.knows)
      /\ Recalibrated(m).waits = m.waits /\ Recalibrated(m).aces = m.aces
      /\ Recalibrated(m).retained = m.retained /\ Recalibrated(m).present = m.present
    BY Zenon DEF Recalibrated, Machines
<1> QED
    BY <1>1, <1>2 DEF Machines, MachineOf

LEMMA IssuedIs ==
    ASSUME NEW m \in Machines, NEW op \in Operations
    PROVE  /\ Issued(m, op) \in Machines
           /\ Issued(m, op) =
                  MachineOf(m.volume, m.mode, m.overlay, m.drive, m.changed,
                         m.knows, m.waits \cup {op}, m.aces \cup {op}, m.retained
                         \cup {op}, m.present)
<1>1. Issued(m, op) \in Machines
    BY DEF Issued, Machines, Runtimes, Drives, Contents
<1>2. /\ Issued(m, op).volume = m.volume /\ Issued(m, op).mode = m.mode
      /\ Issued(m, op).overlay = m.overlay /\ Issued(m, op).drive = m.drive
      /\ Issued(m, op).changed = m.changed /\ Issued(m, op).knows = m.knows
      /\ Issued(m, op).waits = m.waits \cup {op}
      /\ Issued(m, op).aces = m.aces \cup {op}
      /\ Issued(m, op).retained = m.retained \cup {op}
      /\ Issued(m, op).present = m.present
    BY Zenon DEF Issued, Machines
<1> QED
    BY <1>1, <1>2 DEF Machines, MachineOf

LEMMA EndedIs ==
    ASSUME NEW m \in Machines, NEW op \in Operations
    PROVE  /\ Ended(m, op) \in Machines
           /\ Ended(m, op) =
                  MachineOf(m.volume, m.mode, m.overlay, m.drive, m.changed,
                         m.knows, m.waits \ {op}, m.aces \ {op}, m.retained \ {op},
                         m.present)
<1>1. Ended(m, op) \in Machines
    BY DEF Ended, Machines, Runtimes, Drives, Contents
<1>2. /\ Ended(m, op).volume = m.volume /\ Ended(m, op).mode = m.mode
      /\ Ended(m, op).overlay = m.overlay /\ Ended(m, op).drive = m.drive
      /\ Ended(m, op).changed = m.changed /\ Ended(m, op).knows = m.knows
      /\ Ended(m, op).waits = m.waits \ {op} /\ Ended(m, op).aces = m.aces \ {op}
      /\ Ended(m, op).retained = m.retained \ {op} /\ Ended(m, op).present = m.present
    BY Zenon DEF Ended, Machines
<1> QED
    BY <1>1, <1>2 DEF Machines, MachineOf

LEMMA PoweredIs ==
    ASSUME NEW m \in Machines, NEW on \in BOOLEAN
    PROVE  /\ Powered(m, on) \in Machines
           /\ Powered(m, on) =
                  MachineOf(m.volume, m.mode, m.overlay, m.drive, m.changed,
                         m.knows, m.waits, m.aces, m.retained, on)
<1>1. Powered(m, on) \in Machines
    BY DEF Powered, Machines, Runtimes, Drives, Contents
<1>2. /\ Powered(m, on).volume = m.volume /\ Powered(m, on).mode = m.mode
      /\ Powered(m, on).overlay = m.overlay /\ Powered(m, on).drive = m.drive
      /\ Powered(m, on).changed = m.changed /\ Powered(m, on).knows = m.knows
      /\ Powered(m, on).waits = m.waits /\ Powered(m, on).aces = m.aces
      /\ Powered(m, on).retained = m.retained /\ Powered(m, on).present = on
    BY Zenon DEF Powered, Machines
<1> QED
    BY <1>1, <1>2 DEF Machines, MachineOf

LEMMA MemoryRestoredIs ==
    ASSUME NEW m \in Machines, NEW r \in Runtimes
    PROVE  /\ MemoryRestored(m, r) \in Machines
           /\ MemoryRestored(m, r) =
                  MachineOf(m.volume, m.mode, m.overlay, m.drive, m.changed,
                         r.knows, r.waits, {}, {}, m.present)
<1>1. MemoryRestored(m, r) \in Machines
    BY DEF MemoryRestored, Machines, Runtimes, Drives, Contents
<1>2. /\ MemoryRestored(m, r).volume = m.volume /\ MemoryRestored(m, r).mode = m.mode
      /\ MemoryRestored(m, r).overlay = m.overlay
      /\ MemoryRestored(m, r).drive = m.drive
      /\ MemoryRestored(m, r).changed = m.changed
      /\ MemoryRestored(m, r).knows = r.knows
      /\ MemoryRestored(m, r).waits = r.waits /\ MemoryRestored(m, r).aces = {}
      /\ MemoryRestored(m, r).retained = {} /\ MemoryRestored(m, r).present = m.present
    BY Zenon DEF MemoryRestored, Machines
<1> QED
    BY <1>1, <1>2 DEF Machines, MachineOf

LEMMA ProcessorRestoredIs ==
    ASSUME NEW m \in Machines, NEW r \in Runtimes
    PROVE  /\ ProcessorRestored(m, r) \in Machines
           /\ ProcessorRestored(m, r) =
                  MachineOf(m.volume, m.mode, m.overlay, m.drive, m.changed,
                         m.knows, m.waits, r.processor.aces, m.retained,
                         r.processor.present)
<1>1. ProcessorRestored(m, r) \in Machines
    BY DEF ProcessorRestored, Machines, Runtimes, Drives, Contents
<1>2. /\ ProcessorRestored(m, r).volume = m.volume
      /\ ProcessorRestored(m, r).mode = m.mode
      /\ ProcessorRestored(m, r).overlay = m.overlay
      /\ ProcessorRestored(m, r).drive = m.drive
      /\ ProcessorRestored(m, r).changed = m.changed
      /\ ProcessorRestored(m, r).knows = m.knows
      /\ ProcessorRestored(m, r).waits = m.waits
      /\ ProcessorRestored(m, r).aces = r.processor.aces
      /\ ProcessorRestored(m, r).retained = m.retained
      /\ ProcessorRestored(m, r).present = r.processor.present
    BY Zenon DEF ProcessorRestored, Machines
<1> QED
    BY <1>1, <1>2 DEF Machines, MachineOf

LEMMA DevicesRestoredIs ==
    ASSUME NEW m \in Machines, NEW r \in Runtimes
    PROVE  /\ DevicesRestored(m, r) \in Machines
           /\ DevicesRestored(m, r) =
                  MachineOf(m.volume, m.mode, m.overlay, m.drive, m.changed,
                         m.knows, m.waits, m.aces, r.devices.retained, m.present)
<1>1. DevicesRestored(m, r) \in Machines
    BY DEF DevicesRestored, Machines, Runtimes, Drives, Contents
<1>2. /\ DevicesRestored(m, r).volume = m.volume /\ DevicesRestored(m, r).mode = m.mode
      /\ DevicesRestored(m, r).overlay = m.overlay
      /\ DevicesRestored(m, r).drive = m.drive
      /\ DevicesRestored(m, r).changed = m.changed
      /\ DevicesRestored(m, r).knows = m.knows
      /\ DevicesRestored(m, r).waits = m.waits /\ DevicesRestored(m, r).aces = m.aces
      /\ DevicesRestored(m, r).retained = r.devices.retained
      /\ DevicesRestored(m, r).present = m.present
    BY Zenon DEF DevicesRestored, Machines
<1> QED
    BY <1>1, <1>2 DEF Machines, MachineOf

LEMMA WithDiskIs ==
    ASSUME NEW d \in Definitions, NEW mode \in {"rw", "ro", "overlay"}
    PROVE  /\ WithDisk(d, mode) \in Definitions
           /\ WithDisk(d, mode) = [volume |-> "disk", mode |-> mode,
                                   diskette |-> d.diskette]
<1>1. WithDisk(d, mode) \in Definitions
    BY DEF WithDisk, Definitions, VolumeNames
<1>2. WithDisk(d, mode).volume = "disk" /\ WithDisk(d,
      mode).mode = mode /\ WithDisk(d, mode).diskette = d.diskette
    BY Zenon DEF WithDisk, Definitions
<1> QED
    BY <1>1, <1>2 DEF Definitions

LEMMA WithModeIs ==
    ASSUME NEW d \in Definitions, NEW mode \in {"rw", "ro", "overlay"}
    PROVE  /\ WithMode(d, mode) \in Definitions
           /\ WithMode(d, mode) = [volume |-> d.volume, mode |-> mode,
                                   diskette |-> d.diskette]
<1>1. WithMode(d, mode) \in Definitions
    BY DEF WithMode, Definitions, VolumeNames
<1>2. WithMode(d, mode).volume = d.volume /\ WithMode(d,
      mode).mode = mode /\ WithMode(d, mode).diskette = d.diskette
    BY Zenon DEF WithMode, Definitions
<1> QED
    BY <1>1, <1>2 DEF Definitions

LEMMA WithDisketteIs ==
    ASSUME NEW d \in Definitions, NEW diskette \in Drives
    PROVE  /\ WithDiskette(d, diskette) \in Definitions
           /\ WithDiskette(d, diskette) = [volume |-> d.volume, mode |-> d.mode,
                                           diskette |-> diskette]
<1>1. WithDiskette(d, diskette) \in Definitions
    BY DEF WithDiskette, Definitions, VolumeNames
<1>2. WithDiskette(d, diskette).volume = d.volume /\ WithDiskette(d,
      diskette).mode = d.mode /\ WithDiskette(d, diskette).diskette = diskette
    BY Zenon DEF WithDiskette, Definitions
<1> QED
    BY <1>1, <1>2 DEF Definitions

LEMMA RuntimeIs ==
    ASSUME NEW m \in Machines
    PROVE  Runtime(m) \in Runtimes
BY SnapshotAssumption DEF Runtime, CapturedProcessor, CapturedDevices, Machines,
   Runtimes

LEMMA WithRuntimeIs ==
    ASSUME NEW c \in Checkpoints, NEW m \in Machines
    PROVE  /\ WithRuntime(c, m) \in Checkpoints
           /\ WithRuntime(c, m) =
                  [powered |-> c.powered, writable |-> c.writable, disk |-> c.disk,
                   diskette |-> c.diskette, runtime |-> Runtime(m)]
<1>1. WithRuntime(c, m) \in Checkpoints
    BY RuntimeIs DEF WithRuntime, Checkpoints
<1>2. /\ WithRuntime(c, m).powered = c.powered
      /\ WithRuntime(c, m).writable = c.writable
      /\ WithRuntime(c, m).disk = c.disk /\ WithRuntime(c, m).diskette = c.diskette
      /\ WithRuntime(c, m).runtime = Runtime(m)
    BY Zenon DEF WithRuntime, Checkpoints
<1> QED
    BY <1>1, <1>2 DEF Checkpoints

LEMMA FreshIs ==
    ASSUME NEW d \in Definitions, d.volume # None
    PROVE  /\ Fresh(d) \in Machines
           /\ Fresh(d) = MachineOf(d.volume, d.mode, None, d.diskette, FALSE, None,
                                   {}, {}, {}, FALSE)
BY DEF Fresh, MachineOf, Machines, Definitions, VolumeNames, Contents

LEMMA RestoredIs ==
    ASSUME NEW d \in Definitions, d.volume # None, NEW r \in Runtimes
    PROVE  /\ Restored(Fresh(d), r) \in Machines
           /\ Restored(Fresh(d), r) =
                  MachineOf(d.volume, d.mode, None, d.diskette, FALSE, r.knows, r.waits,
                            r.processor.aces, r.devices.retained, r.processor.present)
<1> DEFINE m0 == Fresh(d)
           m1 == MemoryRestored(m0, r)
           m2 == ProcessorRestored(m1, r)
           m3 == DevicesRestored(m2, r)
<1>1. /\ m0 = MachineOf(d.volume, d.mode, None, d.diskette, FALSE, None, {}, {},
                        {}, FALSE)
      /\ m0 \in Machines
    BY FreshIs
<1>2. Restored(Fresh(d), r) = m3
    BY DEF Restored
<1> HIDE DEF m0
<1>3. m1 = MachineOf(m0.volume, m0.mode, m0.overlay, m0.drive, m0.changed, r.knows,
                     r.waits, {}, {}, m0.present)
    BY <1>1, MemoryRestoredIs
<1>4. m1 \in Machines
  <2>1. r.waits \in SUBSET Operations /\ r.knows \in Contents
    BY DEF Runtimes
  <2>2. /\ m0.volume \in {"disk", "media"} /\ m0.mode \in {"rw", "ro", "overlay"}
        /\ m0.overlay \in Contents /\ m0.drive \in Drives
        /\ m0.changed \in BOOLEAN /\ m0.present \in BOOLEAN
    BY <1>1 DEF Machines
  <2>3. {} \in SUBSET Operations
    OBVIOUS
  <2> QED
    BY <1>3, <2>1, <2>2, <2>3, MachineOfIs
<1> HIDE DEF m1
<1>5. m2 = MachineOf(m1.volume, m1.mode, m1.overlay, m1.drive, m1.changed, m1.knows,
                     m1.waits, r.processor.aces, m1.retained, r.processor.present)
    BY <1>4, ProcessorRestoredIs
<1>6. m2 \in Machines
    BY <1>4, <1>5 DEF MachineOf, Machines, Runtimes
<1> HIDE DEF m2
<1>7. m3 = MachineOf(m2.volume, m2.mode, m2.overlay, m2.drive, m2.changed, m2.knows,
                     m2.waits, m2.aces, r.devices.retained, m2.present)
    BY <1>6, DevicesRestoredIs
<1> QED
    BY <1>1, <1>2, <1>3, <1>5, <1>6, <1>7, DevicesRestoredIs DEF MachineOf

LEMMA DefinitionSavedIs ==
    ASSUME NEW c \in Checkpoints
    PROVE  DefinitionSaved(c) \in Definitions /\ Unpacked(c) \in MediaSets
BY DEF DefinitionSaved, Unpacked, Definitions, MediaSets, Checkpoints, VolumeNames,
   Drives

LEMMA EjectedIs ==
    ASSUME NEW m \in Machines
    PROVE  /\ Ejected(m) \in Machines
           /\ Ejected(m) =
                  MachineOf(m.volume, m.mode, m.overlay, None,
                            m.changed \/ m.drive # None,
                            m.knows, m.waits, m.aces, m.retained, m.present)
<1>1. CASE m.drive = None
    BY <1>1 DEF Ejected, Machines, MachineOf
<1>2. CASE m.drive # None
  <2>1. Ejected(m) \in Machines
    BY <1>2 DEF Ejected, Machines, Drives
  <2>2. /\ Ejected(m).volume = m.volume /\ Ejected(m).mode = m.mode
        /\ Ejected(m).overlay = m.overlay /\ Ejected(m).drive = None
        /\ Ejected(m).changed /\ Ejected(m).knows = m.knows
        /\ Ejected(m).waits = m.waits /\ Ejected(m).aces = m.aces
        /\ Ejected(m).retained = m.retained /\ Ejected(m).present = m.present
    BY <1>2, Zenon DEF Ejected, Machines
  <2> QED
    BY <1>2, <2>1, <2>2 DEF Machines, MachineOf
<1> QED
    BY <1>1, <1>2

USE SnapshotAssumption DEF vars, images, files, histories, AllTold, Values, Unconfigured, Vacant, DiskContent,
      DisketteContent, Idle, Constructed, DiskUnlocked, LockedBy, Released,
            DriveReady, MaySave, Readable, MachineOf

LEMMA MediaSavedIs ==
    ASSUME TypeOK, MediaExist, definition.volume # None
    PROVE  /\ MediaSaved \in Checkpoints
           /\ MediaSaved.powered <=> machine # None
           /\ MediaSaved.runtime = None
<1>1. DiskContent(definition.volume) \in Values
    BY DEF TypeOK, MediaExist, MediaSets
<1>2. DriveSaved \in Drives /\ (DriveSaved = "media" => media # None)
    BY DEF TypeOK, MediaExist, Machines, Definitions, DriveSaved
<1>3. DriveSaved # None => DisketteContent(DriveSaved) \in Contents
    BY <1>2 DEF TypeOK, MediaSets, Drives, Contents
<1> QED
    BY <1>1, <1>3 DEF MediaSaved, Checkpoints, Contents

-----------------------------------------------------------------------------
LEMMA SnapshotStep ==
    ASSUME SnapshotInv, [Next]_vars
    PROVE  SnapshotInv'
<1> USE DEF SnapshotInv
<1>1. ASSUME NEW mode \in Modes, AttachDisk(mode)
      PROVE  SnapshotInv'
  <2>1. TypeOK'
    <3>1. definition \in Definitions /\ mode \in {"rw", "ro", "overlay"}
        BY DEF TypeOK
    <3>2. definition' \in Definitions
        BY <1>1, <3>1, WithDiskIs DEF AttachDisk
    <3> QED
        BY <1>1, <3>2 DEF TypeOK, AttachDisk
  <2>2. MediaExist'
    <3>1. definition \in Definitions /\ machine' = None /\ media' = media
        BY <1>1 DEF TypeOK, AttachDisk
    <3>2. mode \in {"rw", "ro", "overlay"}
        BY SnapshotAssumption
    <3>3. definition' = [volume |-> "disk", mode |-> mode,
                         diskette |-> definition.diskette]
        BY <1>1, <3>1, <3>2, WithDiskIs, Zenon DEF AttachDisk
    <3> QED
        BY <3>1, <3>3 DEF MediaExist
  <2>3. SaveAgrees'
    BY <1>1, WithDiskIs DEF TypeOK, AttachDisk, SaveAgrees, MediaExist
  <2>4. CheckpointsAgree'
    BY <1>1, WithDiskIs DEF TypeOK, AttachDisk, CheckpointsAgree, MediaExist,
       SaveAgrees
  <2> QED
    BY <2>1, <2>2, <2>3, <2>4
<1>2. ASSUME NEW mode \in Modes, SetMode(mode)
      PROVE  SnapshotInv'
  <2>1. TypeOK'
    BY <1>2, WithModeIs DEF TypeOK, SetMode
  <2>2. MediaExist'
    <3>1. definition \in Definitions /\ machine' = None /\ media' = media
        BY <1>2 DEF TypeOK, SetMode
    <3>2. mode \in {"rw", "ro", "overlay"}
        BY SnapshotAssumption
    <3>3. definition' = [volume |-> definition.volume, mode |-> mode,
                         diskette |-> definition.diskette]
        BY <1>2, <3>1, <3>2, WithModeIs, Zenon DEF SetMode
    <3> QED
        BY <3>1, <3>3 DEF MediaExist
  <2>3. SaveAgrees'
    BY <1>2, WithModeIs DEF TypeOK, SetMode, SaveAgrees, MediaExist
  <2>4. CheckpointsAgree'
    BY <1>2, WithModeIs DEF TypeOK, SetMode, CheckpointsAgree, MediaExist,
       SaveAgrees
  <2> QED
    BY <2>1, <2>2, <2>3, <2>4
<1>3. ASSUME ConstructMachine
      PROVE  SnapshotInv'
    BY <1>3, FreshIs DEF TypeOK, ConstructMachine, MediaExist, SaveAgrees,
       CheckpointsAgree
<1>4. ASSUME ReleaseMachine
      PROVE  SnapshotInv'
    BY <1>4 DEF TypeOK, ReleaseMachine, MediaExist, SaveAgrees, CheckpointsAgree
<1>5. ASSUME NEW d \in Diskettes, AttachDiskette(d)
      PROVE  SnapshotInv'
    BY <1>5, WithDisketteIs, InsertedIs DEF TypeOK, AttachDiskette, Drives,
       MediaExist, SaveAgrees, CheckpointsAgree
<1>6. ASSUME DetachDiskette
      PROVE  SnapshotInv'
    BY <1>6, WithDisketteIs, EjectedIs DEF TypeOK, DetachDiskette, Drives,
       MediaExist, SaveAgrees, CheckpointsAgree
<1>7. ASSUME NEW d \in Diskettes, Insert(d)
      PROVE  SnapshotInv'
    BY <1>7, InsertedIs DEF TypeOK, Insert, MediaExist, SaveAgrees, CheckpointsAgree
<1>8. ASSUME Eject
      PROVE  SnapshotInv'
    BY <1>8, EjectedIs DEF TypeOK, Eject, MediaExist, SaveAgrees, CheckpointsAgree
<1>9. ASSUME NEW value \in Values, GuestWritesDisk(value)
      PROVE  SnapshotInv'
  <2>1. TypeOK'
    <3>1. machine \in Machines /\ value \in Contents
        BY <1>9 DEF TypeOK, GuestWritesDisk, Contents
    <3>2. machine' \in Machines
        BY <1>9, <3>1, OverlaidIs, KnowingIs DEF GuestWritesDisk
    <3>3. machine.volume = "media" => media \in MediaSets
        BY <1>9 DEF TypeOK, MediaExist, GuestWritesDisk
    <3>4. media' \in {None} \cup MediaSets /\ disk' \in Values
        BY <1>9, <3>3 DEF TypeOK, GuestWritesDisk, MediaSets
    <3> QED
        BY <1>9, <3>2, <3>4 DEF TypeOK, GuestWritesDisk
  <2>2. MediaExist'
    BY <1>9, OverlaidIs, KnowingIs DEF TypeOK, GuestWritesDisk, MediaSets,
       Contents, Machines, MediaExist, SaveAgrees
  <2>3. SaveAgrees'
    BY <1>9, OverlaidIs, KnowingIs DEF TypeOK, GuestWritesDisk, MediaSets,
       Contents, Machines, SaveAgrees, MediaExist
  <2>4. CheckpointsAgree'
    BY <1>9, OverlaidIs, KnowingIs DEF TypeOK, GuestWritesDisk, MediaSets,
       Contents, Machines, CheckpointsAgree, MediaExist, SaveAgrees
  <2> QED
    BY <2>1, <2>2, <2>3, <2>4
<1>10. ASSUME NEW value \in Values, GuestWritesDiskette(value)
      PROVE  SnapshotInv'
  <2>1. TypeOK'
    <3>1. machine \in Machines /\ value \in Contents /\ machine.drive # None
        BY <1>10 DEF TypeOK, GuestWritesDiskette, Contents
    <3>2. machine' \in Machines
        BY <1>10, <3>1, KnowingIs DEF GuestWritesDiskette
    <3>3. machine.drive = "media" => media \in MediaSets
        BY <1>10 DEF TypeOK, MediaExist, GuestWritesDiskette
    <3>4. media' \in {None} \cup MediaSets
        BY <1>10, <3>3 DEF TypeOK, GuestWritesDiskette, MediaSets, Contents
    <3>5. diskettes' \in [Diskettes -> Values]
        BY <1>10 DEF TypeOK, GuestWritesDiskette
    <3> QED
        BY <1>10, <3>2, <3>4, <3>5 DEF TypeOK, GuestWritesDiskette
  <2>2. MediaExist'
    BY <1>10, KnowingIs DEF TypeOK, GuestWritesDiskette, MediaSets, Contents,
       Machines, Drives, MediaExist, SaveAgrees
  <2>3. SaveAgrees'
    BY <1>10, KnowingIs DEF TypeOK, GuestWritesDiskette, MediaSets, Contents,
       Machines, Drives, SaveAgrees, MediaExist
  <2>4. CheckpointsAgree'
    BY <1>10, KnowingIs DEF TypeOK, GuestWritesDiskette, MediaSets, Contents,
       Machines, Drives, CheckpointsAgree, MediaExist, SaveAgrees
  <2> QED
    BY <2>1, <2>2, <2>3, <2>4
<1>11. ASSUME GuestRecalibrates
      PROVE  SnapshotInv'
    BY <1>11, RecalibratedIs DEF TypeOK, GuestRecalibrates, MediaExist,
       SaveAgrees, CheckpointsAgree
<1>12. ASSUME NEW op \in Operations, GuestIssues(op)
      PROVE  SnapshotInv'
    BY <1>12, IssuedIs DEF TypeOK, GuestIssues, MediaExist, SaveAgrees,
       CheckpointsAgree
<1>13. ASSUME NEW op \in Operations, OperationEnds(op)
      PROVE  SnapshotInv'
    BY <1>13, EndedIs DEF TypeOK, OperationEnds, MediaExist, SaveAgrees,
       CheckpointsAgree
<1>14. ASSUME GuestPowersOn
      PROVE  SnapshotInv'
  <2>1. TypeOK'
    BY <1>14, PoweredIs DEF TypeOK, GuestPowersOn
  <2>2. MediaExist'
    <3>1. machine \in Machines /\ machine # None /\ UNCHANGED <<media, definition>>
        BY <1>14 DEF TypeOK, GuestPowersOn
    <3>2. PICK on \in BOOLEAN : machine' = Powered(machine, on)
        BY <1>14 DEF GuestPowersOn
    <3>3. machine' = MachineOf(machine.volume, machine.mode, machine.overlay,
                               machine.drive,
                               machine.changed, machine.knows, machine.waits,
                                     machine.aces,
                               machine.retained, on)
        BY <3>1, <3>2, PoweredIs, Zenon
    <3> QED
        BY <3>1, <3>3 DEF MediaExist
  <2>3. SaveAgrees'
    BY <1>14, PoweredIs DEF TypeOK, GuestPowersOn, SaveAgrees, MediaExist
  <2>4. CheckpointsAgree'
    BY <1>14, PoweredIs DEF TypeOK, GuestPowersOn, CheckpointsAgree, MediaExist,
       SaveAgrees
  <2> QED
    BY <2>1, <2>2, <2>3, <2>4
<1>15. ASSUME GuestPowersOff
      PROVE  SnapshotInv'
  <2>1. TypeOK'
    BY <1>15, PoweredIs DEF TypeOK, GuestPowersOff
  <2>2. MediaExist'
    <3>1. machine \in Machines /\ machine # None /\ UNCHANGED <<media, definition>>
        BY <1>15 DEF TypeOK, GuestPowersOff
    <3>2. PICK on \in BOOLEAN : machine' = Powered(machine, on)
        BY <1>15 DEF GuestPowersOff
    <3>3. machine' = MachineOf(machine.volume, machine.mode, machine.overlay,
                               machine.drive,
                               machine.changed, machine.knows, machine.waits,
                                     machine.aces,
                               machine.retained, on)
        BY <3>1, <3>2, PoweredIs, Zenon
    <3> QED
        BY <3>1, <3>3 DEF MediaExist
  <2>3. SaveAgrees'
    BY <1>15, PoweredIs DEF TypeOK, GuestPowersOff, SaveAgrees, MediaExist
  <2>4. CheckpointsAgree'
    BY <1>15, PoweredIs DEF TypeOK, GuestPowersOff, CheckpointsAgree,
       MediaExist, SaveAgrees
  <2> QED
    BY <2>1, <2>2, <2>3, <2>4
<1>16. ASSUME ClientConnects
      PROVE  SnapshotInv'
    BY <1>16 DEF TypeOK, ClientConnects, MediaExist, SaveAgrees, CheckpointsAgree
<1>17. ASSUME ClientLeaves
      PROVE  SnapshotInv'
    BY <1>17 DEF TypeOK, ClientLeaves, MediaExist, SaveAgrees, CheckpointsAgree
<1>18. ASSUME OtherOpens
      PROVE  SnapshotInv'
    BY <1>18 DEF TypeOK, OtherOpens, MediaExist, SaveAgrees, CheckpointsAgree
<1>19. ASSUME OtherWrites
      PROVE  SnapshotInv'
    BY <1>19 DEF TypeOK, OtherWrites, MediaExist, SaveAgrees, CheckpointsAgree
<1>20. ASSUME OtherCloses
      PROVE  SnapshotInv'
    BY <1>20 DEF TypeOK, OtherCloses, MediaExist, SaveAgrees, CheckpointsAgree
<1>21. ASSUME RemoveLock
      PROVE  SnapshotInv'
    BY <1>21 DEF TypeOK, RemoveLock, MediaExist, SaveAgrees, CheckpointsAgree
<1>22. ASSUME Crash
      PROVE  SnapshotInv'
  <2>1. TypeOK'
    <3>1. definition' \in Definitions /\ station' \in [attached : BOOLEAN,
                                                       powerOff : BOOLEAN]
        BY <1>22 DEF Crash, Definitions, VolumeNames, Drives
    <3> QED
        BY <1>22, <3>1 DEF TypeOK, Crash
  <2>2. MediaExist'
    BY <1>22 DEF TypeOK, Crash, MediaExist, SaveAgrees
  <2>3. SaveAgrees'
    BY <1>22 DEF TypeOK, Crash, SaveAgrees, MediaExist
  <2>4. CheckpointsAgree'
    BY <1>22 DEF TypeOK, Crash, CheckpointsAgree, MediaExist, SaveAgrees
  <2> QED
    BY <2>1, <2>2, <2>3, <2>4
<1>23. ASSUME BeginSave
      PROVE  SnapshotInv'
    BY <1>23, MediaSavedIs DEF TypeOK, BeginSave, MediaSaved, MediaExist,
       SaveAgrees, CheckpointsAgree
<1>24. ASSUME EndSave
      PROVE  SnapshotInv'
    BY <1>24, WithRuntimeIs, RuntimeIs DEF TypeOK, EndSave, Silent, AllTold, MediaExist,
       SaveAgrees, CheckpointsAgree
<1>25. ASSUME SaveFails
      PROVE  SnapshotInv'
    BY <1>25 DEF TypeOK, SaveFails, MediaExist, SaveAgrees, CheckpointsAgree
<1>26. ASSUME NEW succeeds \in BOOLEAN, LoadSnapshot(succeeds)
      PROVE  SnapshotInv'
  <2>1. TypeOK'
    <3>1. snapshot \in Checkpoints
        BY <1>26 DEF TypeOK, LoadSnapshot
    <3>2. /\ definition' \in Definitions /\ definition'.volume # None
          /\ media' \in MediaSets
        BY <1>26, <3>1, DefinitionSavedIs DEF LoadSnapshot, DefinitionSaved
    <3>3. snapshot.powered => snapshot.runtime \in Runtimes
        BY <1>26, <3>1, SnapshotAssumption DEF CheckpointsAgree, LoadSnapshot
    <3>4. machine' \in {None} \cup Machines
        BY <1>26, <3>2, <3>3, RestoredIs DEF LoadSnapshot
    <3>5. station' \in [attached : BOOLEAN,
                        powerOff : BOOLEAN] /\ lock' \in {"free", "us", "other",
                              "stale"}
        BY <1>26 DEF LoadSnapshot, TypeOK
    <3> QED
        BY <1>26, <3>2, <3>4, <3>5 DEF TypeOK, LoadSnapshot
  <2>2. MediaExist'
    BY <1>26, RestoredIs, DefinitionSavedIs DEF TypeOK, LoadSnapshot,
       Checkpoints, MediaExist, SaveAgrees, DefinitionSaved, Unpacked,
       CheckpointsAgree, MediaSets, Definitions
  <2>3. SaveAgrees'
    BY <1>26, RestoredIs, DefinitionSavedIs DEF TypeOK, LoadSnapshot,
       Checkpoints, SaveAgrees, MediaExist
  <2>4. CheckpointsAgree'
    BY <1>26, RestoredIs, DefinitionSavedIs DEF TypeOK, LoadSnapshot,
       Checkpoints, CheckpointsAgree, MediaExist, SaveAgrees
  <2> QED
    BY <2>1, <2>2, <2>3, <2>4
<1>28. ASSUME NEW d \in Diskettes, OtherWritesDiskette(d)
      PROVE  SnapshotInv'
    BY <1>28 DEF TypeOK, OtherWritesDiskette, MediaExist, SaveAgrees, CheckpointsAgree
<1>27. ASSUME UNCHANGED vars
      PROVE  SnapshotInv'
    BY <1>27 DEF TypeOK, MediaExist, SaveAgrees, CheckpointsAgree
<1> QED
    BY <1>1, <1>2, <1>3, <1>4, <1>5, <1>6, <1>7, <1>8, <1>9, <1>10, <1>11,
       <1>12, <1>13, <1>14, <1>15, <1>16, <1>17, <1>18, <1>19, <1>20, <1>21,
       <1>22, <1>23, <1>24, <1>25, <1>26, <1>27, <1>28
    DEF Next, Configuration, Guest, Client, Host, Save, Load

(* The media the definition and the machine refer to exist, a save under   *)
(* way is of the machine that is there, and every checkpoint of a powered  *)
(* machine holds a machine's state.                                        *)
THEOREM SnapshotInvHolds == Spec => []SnapshotInv
<1>1. Init => SnapshotInv
  <2> SUFFICES ASSUME Init PROVE SnapshotInv
    OBVIOUS
  <2>1. TypeOK
    BY DEF Init, TypeOK, Definitions, VolumeNames, Drives
  <2>2. MediaExist /\ SaveAgrees /\ CheckpointsAgree
    BY DEF Init, MediaExist, SaveAgrees, CheckpointsAgree
  <2> QED
    BY <2>1, <2>2 DEF SnapshotInv
<1>2. SnapshotInv /\ [Next]_vars => SnapshotInv'
    BY SnapshotStep
<1> QED
    BY <1>1, <1>2, PTL DEF Spec

(* No save and no load, broken off at whatever point or followed by a      *)
(* crash, costs the checkpoint or a medium that something still refers to  *)
(* (MachineSnapshot.cpp:381-453, SimulatorSession.cpp:1213-1239).          *)
THEOREM NothingLostHolds == Spec => []NothingLost
<1>1. SnapshotInv => NothingLost
    BY DEF SnapshotInv, TypeOK, MediaExist, NothingLost
<1> QED
    BY <1>1, SnapshotInvHolds, PTL

-----------------------------------------------------------------------------
(* The operations a checkpoint does not keep are the two a save is refused *)
(* for: this is what keeps an answer coming for every wait.                *)
LEMMA WaitsInvStep ==
    ASSUME WaitsInv, SnapshotInv, SnapshotInv', [Next]_vars,
           Operations \ Captured \subseteq {"screen", "put"}
    PROVE  WaitsInv'
<1> USE DEF SnapshotInv
<1>1. ASSUME NEW mode \in Modes, AttachDisk(mode)
      PROVE  WaitsInv'
    BY <1>1, WithDiskIs DEF TypeOK, SaveAgrees, MediaExist, CheckpointsAgree,
       WaitsInv, NoOrphanWait, AttachDisk
<1>2. ASSUME NEW mode \in Modes, SetMode(mode)
      PROVE  WaitsInv'
    BY <1>2, WithModeIs DEF TypeOK, SaveAgrees, MediaExist, CheckpointsAgree,
       WaitsInv, NoOrphanWait, SetMode
<1>3. ASSUME ConstructMachine
      PROVE  WaitsInv'
  <2>1. /\ definition \in Definitions /\ definition.volume # None
        /\ machine' = Fresh(definition)
        /\ saving = None /\ UNCHANGED <<saving, snapshot>>
    BY <1>3 DEF TypeOK, ConstructMachine
  <2>2. machine'.waits = {} /\ machine'.aces = {}
    BY <2>1, FreshIs
  <2> QED
    BY <2>1, <2>2 DEF WaitsInv, NoOrphanWait
<1>4. ASSUME ReleaseMachine
      PROVE  WaitsInv'
    BY <1>4 DEF WaitsInv, NoOrphanWait, ReleaseMachine
<1>5. ASSUME NEW d \in Diskettes, AttachDiskette(d)
      PROVE  WaitsInv'
  <2>1. /\ saving = None /\ UNCHANGED <<saving, snapshot>>
        /\ machine' = IF machine = None THEN None ELSE Inserted(machine, d)
    BY <1>5 DEF AttachDiskette
  <2>2. machine # None =>
            /\ machine' \in Machines /\ machine'.waits = machine.waits
            /\ machine'.aces = machine.aces /\ machine'.retained = machine.retained
    BY <2>1, InsertedIs DEF TypeOK
  <2> QED
    BY <2>1, <2>2 DEF WaitsInv, NoOrphanWait
<1>6. ASSUME DetachDiskette
      PROVE  WaitsInv'
    BY <1>6, WithDisketteIs, EjectedIs DEF TypeOK, SaveAgrees, MediaExist,
       CheckpointsAgree, WaitsInv, NoOrphanWait, DetachDiskette
<1>7. ASSUME NEW d \in Diskettes, Insert(d)
      PROVE  WaitsInv'
  <2>1. machine \in Machines /\ machine # None
    BY <1>7 DEF TypeOK, Insert
  <2>2. machine' = MachineOf(machine.volume, machine.mode, machine.overlay, d,
                             (machine.changed \/ machine.drive # None),
                             machine.knows, machine.waits, machine.aces,
                             machine.retained, machine.present)
    BY <1>7, <2>1, InsertedIs, Zenon DEF Insert
  <2>3. saving = None /\ UNCHANGED <<saving, snapshot>>
    BY <1>7 DEF Insert
  <2> QED
    BY <2>1, <2>2, <2>3 DEF WaitsInv, NoOrphanWait
<1>8. ASSUME Eject
      PROVE  WaitsInv'
    BY <1>8, EjectedIs DEF TypeOK, SaveAgrees, MediaExist, CheckpointsAgree,
       WaitsInv, NoOrphanWait, Eject
<1>9. ASSUME NEW value \in Values, GuestWritesDisk(value)
      PROVE  WaitsInv'
  <2>1. machine \in Machines /\ machine # None /\ value \in Contents
    BY <1>9 DEF TypeOK, GuestWritesDisk, Contents
  <2>2. machine' = MachineOf(machine.volume, machine.mode,
                             IF machine.mode = "overlay" THEN value ELSE machine.overlay,
                             machine.drive, machine.changed, value, machine.waits,
                             machine.aces, machine.retained, machine.present)
    <3>1. CASE machine.mode = "overlay"
      <4>1. machine' = Overlaid(machine, value)
        BY <1>9, <3>1, Zenon DEF GuestWritesDisk
      <4> QED
        BY <2>1, <3>1, <4>1, OverlaidIs
    <3>2. CASE machine.mode # "overlay"
      <4>1. machine' = Knowing(machine, value)
        BY <1>9, <3>2, Zenon DEF GuestWritesDisk
      <4> QED
        BY <2>1, <3>2, <4>1, KnowingIs
    <3> QED
      BY <3>1, <3>2
  <2>3. saving = None /\ UNCHANGED <<saving, snapshot>>
    BY <1>9 DEF GuestWritesDisk
  <2> QED
    BY <2>1, <2>2, <2>3 DEF WaitsInv, NoOrphanWait
<1>10. ASSUME NEW value \in Values, GuestWritesDiskette(value)
      PROVE  WaitsInv'
  <2>1. machine \in Machines /\ machine # None
    BY <1>10 DEF TypeOK, GuestWritesDiskette
  <2>2. machine' = MachineOf(machine.volume, machine.mode, machine.overlay,
                             machine.drive, machine.changed, value, machine.waits,
                             machine.aces, machine.retained, machine.present)
    BY <1>10, <2>1, KnowingIs, Zenon DEF GuestWritesDiskette, Contents
  <2>3. saving = None /\ UNCHANGED <<saving, snapshot>>
    BY <1>10 DEF GuestWritesDiskette
  <2> QED
    BY <2>1, <2>2, <2>3 DEF WaitsInv, NoOrphanWait
<1>11. ASSUME GuestRecalibrates
      PROVE  WaitsInv'
    BY <1>11, RecalibratedIs DEF TypeOK, SaveAgrees, MediaExist,
       CheckpointsAgree, WaitsInv, NoOrphanWait, GuestRecalibrates
<1>12. ASSUME NEW op \in Operations, GuestIssues(op)
      PROVE  WaitsInv'
  <2>1. machine \in Machines /\ machine # None
    BY <1>12 DEF TypeOK, GuestIssues
  <2>2. machine' = MachineOf(machine.volume, machine.mode, machine.overlay,
                             machine.drive, machine.changed, machine.knows,
                             machine.waits \cup {op}, machine.aces \cup {op},
                             machine.retained \cup {op}, machine.present)
    BY <1>12, <2>1, IssuedIs, Zenon DEF GuestIssues
  <2>3. saving = None /\ UNCHANGED <<saving, snapshot>>
    BY <1>12 DEF GuestIssues
  <2> QED
    BY <2>1, <2>2, <2>3 DEF WaitsInv, NoOrphanWait
<1>13. ASSUME NEW op \in Operations, OperationEnds(op)
      PROVE  WaitsInv'
  <2>1. machine \in Machines /\ machine # None
    BY <1>13 DEF TypeOK, OperationEnds
  <2>2. machine' = MachineOf(machine.volume, machine.mode, machine.overlay,
                             machine.drive, machine.changed, machine.knows,
                             machine.waits \ {op}, machine.aces \ {op},
                             machine.retained \ {op}, machine.present)
    BY <1>13, <2>1, EndedIs, Zenon DEF OperationEnds
  <2>3. saving = None /\ UNCHANGED <<saving, snapshot>>
    BY <1>13 DEF OperationEnds
  <2>4. op \in machine.retained \cap machine.aces
    BY <1>13 DEF OperationEnds
  <2> QED
    BY <2>1, <2>2, <2>3, <2>4 DEF WaitsInv, NoOrphanWait
<1>14. ASSUME GuestPowersOn
      PROVE  WaitsInv'
  <2>1. machine \in Machines /\ machine # None
    BY <1>14 DEF TypeOK, GuestPowersOn
  <2>2. machine' = MachineOf(machine.volume, machine.mode, machine.overlay,
                             machine.drive, machine.changed, machine.knows,
                             machine.waits, machine.aces, machine.retained, TRUE)
    BY <1>14, <2>1, PoweredIs, Zenon DEF GuestPowersOn
  <2>3. saving = None /\ UNCHANGED <<saving, snapshot>>
    BY <1>14 DEF GuestPowersOn
  <2> QED
    BY <2>1, <2>2, <2>3 DEF WaitsInv, NoOrphanWait
<1>15. ASSUME GuestPowersOff
      PROVE  WaitsInv'
  <2>1. machine \in Machines /\ machine # None
    BY <1>15 DEF TypeOK, GuestPowersOff
  <2>2. machine' = MachineOf(machine.volume, machine.mode, machine.overlay,
                             machine.drive, machine.changed, machine.knows,
                             machine.waits, machine.aces, machine.retained, FALSE)
    BY <1>15, <2>1, PoweredIs, Zenon DEF GuestPowersOff
  <2>3. saving = None /\ UNCHANGED <<saving, snapshot>>
    BY <1>15 DEF GuestPowersOff
  <2> QED
    BY <2>1, <2>2, <2>3 DEF WaitsInv, NoOrphanWait
<1>16. ASSUME ClientConnects
      PROVE  WaitsInv'
    BY <1>16 DEF TypeOK, SaveAgrees, MediaExist, CheckpointsAgree, WaitsInv,
       NoOrphanWait, ClientConnects
<1>17. ASSUME ClientLeaves
      PROVE  WaitsInv'
    BY <1>17 DEF TypeOK, SaveAgrees, MediaExist, CheckpointsAgree, WaitsInv,
       NoOrphanWait, ClientLeaves
<1>18. ASSUME OtherOpens
      PROVE  WaitsInv'
    BY <1>18 DEF TypeOK, SaveAgrees, MediaExist, CheckpointsAgree, WaitsInv,
       NoOrphanWait, OtherOpens
<1>19. ASSUME OtherWrites
      PROVE  WaitsInv'
    BY <1>19 DEF TypeOK, SaveAgrees, MediaExist, CheckpointsAgree, WaitsInv,
       NoOrphanWait, OtherWrites
<1>20. ASSUME OtherCloses
      PROVE  WaitsInv'
    BY <1>20 DEF TypeOK, SaveAgrees, MediaExist, CheckpointsAgree, WaitsInv,
       NoOrphanWait, OtherCloses
<1>21. ASSUME RemoveLock
      PROVE  WaitsInv'
    BY <1>21 DEF TypeOK, SaveAgrees, MediaExist, CheckpointsAgree, WaitsInv,
       NoOrphanWait, RemoveLock
<1>22. ASSUME Crash
      PROVE  WaitsInv'
    BY <1>22 DEF TypeOK, SaveAgrees, MediaExist, CheckpointsAgree, WaitsInv,
       NoOrphanWait, Crash
<1>23. ASSUME BeginSave
      PROVE  WaitsInv'
    BY <1>23, MediaSavedIs DEF TypeOK, SaveAgrees, MediaExist, CheckpointsAgree,
       WaitsInv, NoOrphanWait, BeginSave
<1>24. ASSUME EndSave
      PROVE  WaitsInv'
  <2>1. machine' = machine /\ saving' = None
    BY <1>24 DEF EndSave
  <2>2. NoOrphanWait'
    BY <2>1 DEF WaitsInv, NoOrphanWait
  <2>3. CASE machine = None
    BY <1>24, <2>1, <2>2, <2>3 DEF EndSave, SaveAgrees, WaitsInv
  <2>4. CASE machine # None
    <3>1. /\ machine \in Machines /\ saving \in Checkpoints
          /\ snapshot' = WithRuntime(saving, machine)
      BY <1>24, <2>4 DEF EndSave, TypeOK
    <3>2. snapshot'.runtime = Runtime(machine)
      BY <3>1, WithRuntimeIs
    <3>3. /\ machine.aces = machine.waits /\ machine.waits \subseteq machine.retained
          /\ machine.retained \cap {"screen", "put"} = {}
          /\ machine.waits \subseteq Operations
      BY <1>24, <2>4, <3>1 DEF EndSave, WaitsInv, NoOrphanWait, Machines
    <3>4. machine.waits \subseteq machine.retained \cap Captured
      BY <3>3
    <3> QED
      BY <2>1, <2>2, <3>2, <3>3, <3>4 DEF WaitsInv, Runtime,
         CapturedProcessor, CapturedDevices
  <2> QED
    BY <2>3, <2>4
<1>25. ASSUME SaveFails
      PROVE  WaitsInv'
    BY <1>25 DEF TypeOK, SaveAgrees, MediaExist, CheckpointsAgree, WaitsInv,
       NoOrphanWait, SaveFails
<1>26. ASSUME NEW succeeds \in BOOLEAN, LoadSnapshot(succeeds)
      PROVE  WaitsInv'
    BY <1>26, RestoredIs, DefinitionSavedIs DEF TypeOK, SaveAgrees, MediaExist,
       CheckpointsAgree, WaitsInv, NoOrphanWait, LoadSnapshot, DefinitionSaved
<1>28. ASSUME NEW d \in Diskettes, OtherWritesDiskette(d)
      PROVE  WaitsInv'
    BY <1>28 DEF TypeOK, SaveAgrees, MediaExist, CheckpointsAgree, WaitsInv,
       NoOrphanWait, OtherWritesDiskette
<1>27. ASSUME UNCHANGED vars
      PROVE  WaitsInv'
    BY <1>27 DEF TypeOK, SaveAgrees, MediaExist, CheckpointsAgree, WaitsInv,
       NoOrphanWait
<1> QED
    BY <1>1, <1>2, <1>3, <1>4, <1>5, <1>6, <1>7, <1>8, <1>9, <1>10, <1>11,
       <1>12, <1>13, <1>14, <1>15, <1>16, <1>17, <1>18, <1>19, <1>20, <1>21,
       <1>22, <1>23, <1>24, <1>25, <1>26, <1>27, <1>28
    DEF Next, Configuration, Guest, Client, Host, Save, Load

(* Every wait has its element and its device, also after any load, if what *)
(* is not captured is what a save is refused for (MachineSnapshot.cpp:     *)
(* 361-364, DeviceSet.cpp:183-264).                                        *)
THEOREM NoOrphanWaitHolds ==
    Operations \ Captured \subseteq {"screen", "put"} /\ Spec => []NoOrphanWait
<1> DEFINE Refused == Operations \ Captured \subseteq {"screen", "put"}
<1>1. Init => WaitsInv
    BY DEF Init, WaitsInv, NoOrphanWait
<1>2. Refused /\ WaitsInv /\ SnapshotInv /\ SnapshotInv' /\ [Next]_vars => WaitsInv'
    BY WaitsInvStep
<1>3. WaitsInv => NoOrphanWait
    BY DEF WaitsInv
<1> HIDE DEF Refused
<1>4. CASE Refused
    BY <1>1, <1>2, <1>3, <1>4, SnapshotInvHolds, PTL DEF Spec
<1> QED
    BY <1>4 DEF Refused

-----------------------------------------------------------------------------
LEMMA PresenceInvStep ==
    ASSUME PresenceInv, SnapshotInv, SnapshotInv', [Next]_vars
    PROVE  PresenceInv'
<1> USE DEF SnapshotInv
<1>1. ASSUME NEW mode \in Modes, AttachDisk(mode)
      PROVE  PresenceInv'
    BY <1>1, WithDiskIs DEF TypeOK, SaveAgrees, MediaExist, CheckpointsAgree,
       PresenceInv, PresentIsAttached, EveryHangUpReaches, AttachDisk
<1>2. ASSUME NEW mode \in Modes, SetMode(mode)
      PROVE  PresenceInv'
    BY <1>2, WithModeIs DEF TypeOK, SaveAgrees, MediaExist, CheckpointsAgree,
       PresenceInv, PresentIsAttached, EveryHangUpReaches, SetMode
<1>3. ASSUME ConstructMachine
      PROVE  PresenceInv'
    BY <1>3, FreshIs DEF TypeOK, SaveAgrees, MediaExist, CheckpointsAgree,
       PresenceInv, PresentIsAttached, EveryHangUpReaches, ConstructMachine
<1>4. ASSUME ReleaseMachine
      PROVE  PresenceInv'
    BY <1>4 DEF TypeOK, SaveAgrees, MediaExist, CheckpointsAgree, PresenceInv,
       PresentIsAttached, EveryHangUpReaches, ReleaseMachine
<1>5. ASSUME NEW d \in Diskettes, AttachDiskette(d)
      PROVE  PresenceInv'
    BY <1>5, WithDisketteIs, InsertedIs DEF TypeOK, SaveAgrees, MediaExist,
       CheckpointsAgree, PresenceInv, PresentIsAttached, EveryHangUpReaches, AttachDiskette
<1>6. ASSUME DetachDiskette
      PROVE  PresenceInv'
    BY <1>6, WithDisketteIs, EjectedIs DEF TypeOK, SaveAgrees, MediaExist,
       CheckpointsAgree, PresenceInv, PresentIsAttached, EveryHangUpReaches, DetachDiskette
<1>7. ASSUME NEW d \in Diskettes, Insert(d)
      PROVE  PresenceInv'
    BY <1>7, InsertedIs DEF TypeOK, SaveAgrees, MediaExist, CheckpointsAgree,
       PresenceInv, PresentIsAttached, EveryHangUpReaches, Insert
<1>8. ASSUME Eject
      PROVE  PresenceInv'
    BY <1>8, EjectedIs DEF TypeOK, SaveAgrees, MediaExist, CheckpointsAgree,
       PresenceInv, PresentIsAttached, EveryHangUpReaches, Eject
<1>9. ASSUME NEW value \in Values, GuestWritesDisk(value)
      PROVE  PresenceInv'
  <2>1. machine \in Machines /\ machine # None /\ value \in Contents
    BY <1>9 DEF TypeOK, GuestWritesDisk, Contents
  <2>2. machine' = MachineOf(machine.volume, machine.mode,
                             IF machine.mode = "overlay" THEN value ELSE machine.overlay,
                             machine.drive, machine.changed, value, machine.waits,
                             machine.aces, machine.retained, machine.present)
    <3>1. CASE machine.mode = "overlay"
      <4>1. machine' = Overlaid(machine, value)
        BY <1>9, <3>1, Zenon DEF GuestWritesDisk
      <4> QED
        BY <2>1, <3>1, <4>1, OverlaidIs
    <3>2. CASE machine.mode # "overlay"
      <4>1. machine' = Knowing(machine, value)
        BY <1>9, <3>2, Zenon DEF GuestWritesDisk
      <4> QED
        BY <2>1, <3>2, <4>1, KnowingIs
    <3> QED
      BY <3>1, <3>2
  <2>3. saving = None /\ UNCHANGED <<station, saving, snapshot, missedSaved>> /\ missed'.hangUp = missed.hangUp
    BY <1>9 DEF GuestWritesDisk
  <2> QED
    BY <2>1, <2>2, <2>3 DEF PresenceInv, PresentIsAttached, EveryHangUpReaches
<1>10. ASSUME NEW value \in Values, GuestWritesDiskette(value)
      PROVE  PresenceInv'
  <2>1. machine \in Machines /\ machine # None
    BY <1>10 DEF TypeOK, GuestWritesDiskette
  <2>2. machine' = MachineOf(machine.volume, machine.mode, machine.overlay,
                             machine.drive, machine.changed, value, machine.waits,
                             machine.aces, machine.retained, machine.present)
    BY <1>10, <2>1, KnowingIs, Zenon DEF GuestWritesDiskette, Contents
  <2>3. saving = None /\ UNCHANGED <<station, saving, snapshot, missedSaved>> /\ missed'.hangUp = missed.hangUp
    BY <1>10 DEF GuestWritesDiskette
  <2> QED
    BY <2>1, <2>2, <2>3 DEF PresenceInv, PresentIsAttached, EveryHangUpReaches
<1>11. ASSUME GuestRecalibrates
      PROVE  PresenceInv'
    BY <1>11, RecalibratedIs DEF TypeOK, SaveAgrees, MediaExist,
       CheckpointsAgree, PresenceInv, PresentIsAttached, EveryHangUpReaches, GuestRecalibrates
<1>12. ASSUME NEW op \in Operations, GuestIssues(op)
      PROVE  PresenceInv'
    BY <1>12, IssuedIs DEF TypeOK, SaveAgrees, MediaExist, CheckpointsAgree,
       PresenceInv, PresentIsAttached, EveryHangUpReaches, GuestIssues
<1>13. ASSUME NEW op \in Operations, OperationEnds(op)
      PROVE  PresenceInv'
    BY <1>13, EndedIs DEF TypeOK, SaveAgrees, MediaExist, CheckpointsAgree,
       PresenceInv, PresentIsAttached, EveryHangUpReaches, OperationEnds
<1>14. ASSUME GuestPowersOn
      PROVE  PresenceInv'
    BY <1>14, PoweredIs DEF TypeOK, SaveAgrees, MediaExist, CheckpointsAgree,
       PresenceInv, PresentIsAttached, EveryHangUpReaches, GuestPowersOn
<1>15. ASSUME GuestPowersOff
      PROVE  PresenceInv'
  <2>1. machine \in Machines /\ machine # None
    BY <1>15 DEF TypeOK, GuestPowersOff
  <2>2. machine' = MachineOf(machine.volume, machine.mode, machine.overlay,
                             machine.drive, machine.changed, machine.knows,
                             machine.waits, machine.aces, machine.retained, FALSE)
    BY <1>15, <2>1, PoweredIs, Zenon DEF GuestPowersOff
  <2>3. saving = None /\ UNCHANGED <<saving, snapshot, missedSaved>>
    BY <1>15 DEF GuestPowersOff
  <2>4. machine'.present = FALSE
    BY <2>2
  <2>5. PresentIsAttached'
    BY <2>4 DEF PresentIsAttached, EveryHangUpReaches
  <2> QED
    BY <2>3, <2>5 DEF PresenceInv
<1>16. ASSUME ClientConnects
      PROVE  PresenceInv'
    BY <1>16 DEF TypeOK, SaveAgrees, MediaExist, CheckpointsAgree, PresenceInv,
       PresentIsAttached, EveryHangUpReaches, ClientConnects
<1>17. ASSUME ClientLeaves
      PROVE  PresenceInv'
    BY <1>17 DEF TypeOK, SaveAgrees, MediaExist, CheckpointsAgree, PresenceInv,
       PresentIsAttached, EveryHangUpReaches, ClientLeaves
<1>18. ASSUME OtherOpens
      PROVE  PresenceInv'
    BY <1>18 DEF TypeOK, SaveAgrees, MediaExist, CheckpointsAgree, PresenceInv,
       PresentIsAttached, EveryHangUpReaches, OtherOpens
<1>19. ASSUME OtherWrites
      PROVE  PresenceInv'
    BY <1>19 DEF TypeOK, SaveAgrees, MediaExist, CheckpointsAgree, PresenceInv,
       PresentIsAttached, EveryHangUpReaches, OtherWrites
<1>20. ASSUME OtherCloses
      PROVE  PresenceInv'
    BY <1>20 DEF TypeOK, SaveAgrees, MediaExist, CheckpointsAgree, PresenceInv,
       PresentIsAttached, EveryHangUpReaches, OtherCloses
<1>21. ASSUME RemoveLock
      PROVE  PresenceInv'
    BY <1>21 DEF TypeOK, SaveAgrees, MediaExist, CheckpointsAgree, PresenceInv,
       PresentIsAttached, EveryHangUpReaches, RemoveLock
<1>22. ASSUME Crash
      PROVE  PresenceInv'
    BY <1>22 DEF TypeOK, SaveAgrees, MediaExist, CheckpointsAgree, PresenceInv,
       PresentIsAttached, EveryHangUpReaches, Crash
<1>23. ASSUME BeginSave
      PROVE  PresenceInv'
    BY <1>23, MediaSavedIs DEF TypeOK, SaveAgrees, MediaExist, CheckpointsAgree,
       PresenceInv, PresentIsAttached, EveryHangUpReaches, BeginSave
<1>24. ASSUME EndSave
      PROVE  PresenceInv'
    BY <1>24, WithRuntimeIs, RuntimeIs DEF TypeOK, SaveAgrees, MediaExist,
       CheckpointsAgree, PresenceInv, PresentIsAttached, EveryHangUpReaches, EndSave, Silent, AllTold, Runtime,
       CapturedProcessor, CapturedDevices
<1>25. ASSUME SaveFails
      PROVE  PresenceInv'
    BY <1>25 DEF TypeOK, SaveAgrees, MediaExist, CheckpointsAgree, PresenceInv,
       PresentIsAttached, EveryHangUpReaches, SaveFails
<1>26. ASSUME NEW succeeds \in BOOLEAN, LoadSnapshot(succeeds)
      PROVE  PresenceInv'
    BY <1>26, RestoredIs, DefinitionSavedIs DEF TypeOK, SaveAgrees, MediaExist,
       CheckpointsAgree, PresenceInv, PresentIsAttached, EveryHangUpReaches, LoadSnapshot,
       DefinitionSaved
<1>28. ASSUME NEW d \in Diskettes, OtherWritesDiskette(d)
      PROVE  PresenceInv'
    BY <1>28 DEF TypeOK, SaveAgrees, MediaExist, CheckpointsAgree, PresenceInv,
       PresentIsAttached, EveryHangUpReaches, OtherWritesDiskette
<1>27. ASSUME UNCHANGED vars
      PROVE  PresenceInv'
    BY <1>27 DEF TypeOK, SaveAgrees, MediaExist, CheckpointsAgree, PresenceInv,
       PresentIsAttached, EveryHangUpReaches
<1> QED
    BY <1>1, <1>2, <1>3, <1>4, <1>5, <1>6, <1>7, <1>8, <1>9, <1>10, <1>11,
       <1>12, <1>13, <1>14, <1>15, <1>16, <1>17, <1>18, <1>19, <1>20, <1>21,
       <1>22, <1>23, <1>24, <1>25, <1>26, <1>27, <1>28
    DEF Next, Configuration, Guest, Client, Host, Save, Load

(* A display the guest takes for powered on has a client or a power-off to *)
(* deliver, unless the machine was loaded from a save made while the guest *)
(* had still to be told of a hang-up (MachineSnapshot.cpp:365-372,         *)
(* SimulatorSession.cpp:1215).                                             *)
THEOREM PresentIsAttachedHolds == Spec => []PresentIsAttached
<1>1. Init => PresenceInv
    BY DEF Init, PresenceInv, PresentIsAttached, EveryHangUpReaches
<1>2. PresenceInv /\ SnapshotInv /\ SnapshotInv' /\ [Next]_vars => PresenceInv'
    BY PresenceInvStep
<1>3. PresenceInv => PresentIsAttached
    BY DEF PresenceInv
<1> QED
    BY <1>1, <1>2, <1>3, SnapshotInvHolds, PTL DEF Spec

-----------------------------------------------------------------------------
(* A diskette goes in or out: the drive latches the exchange.              *)
LEMMA ExchangeKeepsWrites ==
    ASSUME TypeOK, WritesInv, machine \in Machines, machine # None, saving = None,
           NEW d \in {None} \cup Diskettes,
           machine' = MachineOf(machine.volume, machine.mode, machine.overlay, d,
                                machine.changed \/ machine.drive # None, machine.knows,
                                machine.waits, machine.aces, machine.retained,
                                machine.present),
           UNCHANGED <<written, disk, diskettes, media, lock, saving, snapshot,
                       missed, missedSaved>>
    PROVE  WritesInv'
<1>1. GuestSeesItsWrites'
  <2>1. CASE written = "disk"
    BY <2>1 DEF WritesInv, GuestSeesItsWrites, GuestReadsItsWrites
  <2>2. CASE written # "disk" /\ (machine.changed \/ machine.drive # None)
    BY <2>2 DEF GuestSeesItsWrites, GuestReadsItsWrites
  <2>3. CASE written # "disk" /\ ~(machine.changed \/ machine.drive # None)
    BY <2>3 DEF WritesInv, GuestSeesItsWrites, GuestReadsItsWrites, Undisturbed, TypeOK
  <2> QED
    BY <2>1, <2>2, <2>3
<1>2. Undisturbed'
    BY DEF WritesInv, Undisturbed
<1>3. SavedAsKnown'
    BY DEF WritesInv, SavedAsKnown
<1> QED
    BY <1>1, <1>2, <1>3 DEF WritesInv

LEMMA WritesInvStep ==
    ASSUME WritesInv, SnapshotInv, SnapshotInv', [Next]_vars
    PROVE  WritesInv'
<1> USE DEF SnapshotInv
<1>1. ASSUME NEW mode \in Modes, AttachDisk(mode)
      PROVE  WritesInv'
  <2>1. definition'.mode = mode
    <3>1. mode \in {"rw", "ro", "overlay"} /\ definition \in Definitions
      BY SnapshotAssumption DEF TypeOK
    <3> QED
      BY <1>1, <3>1, WithDiskIs DEF AttachDisk
  <2>2. machine' = None /\ saving' = None /\ UNCHANGED <<written, snapshot, missedSaved>>
    BY <1>1 DEF AttachDisk
  <2>3. GuestSeesItsWrites' /\ Undisturbed'
    BY <2>2 DEF GuestSeesItsWrites, GuestReadsItsWrites, Undisturbed
  <2>4. SavedAsKnown'
    BY <2>2 DEF WritesInv, SavedAsKnown
  <2> QED
    BY <2>1, <2>3, <2>4 DEF WritesInv
<1>2. ASSUME NEW mode \in Modes, SetMode(mode)
      PROVE  WritesInv'
  <2>1. definition'.mode = mode
    <3>1. mode \in {"rw", "ro", "overlay"} /\ definition \in Definitions
      BY SnapshotAssumption DEF TypeOK
    <3> QED
      BY <1>2, <3>1, WithModeIs DEF SetMode
  <2>2. machine' = None /\ saving' = None /\ UNCHANGED <<written, snapshot, missedSaved>>
    BY <1>2 DEF SetMode
  <2>3. GuestSeesItsWrites' /\ Undisturbed'
    BY <2>2 DEF GuestSeesItsWrites, GuestReadsItsWrites, Undisturbed
  <2>4. SavedAsKnown'
    BY <2>2 DEF WritesInv, SavedAsKnown
  <2> QED
    BY <2>1, <2>3, <2>4 DEF WritesInv
<1>3. ASSUME ConstructMachine
      PROVE  WritesInv'
    BY <1>3, FreshIs DEF TypeOK, SaveAgrees, MediaExist, CheckpointsAgree,
       WritesInv, SavedAsKnown, GuestSeesItsWrites, GuestReadsItsWrites, Undisturbed,
       ConstructMachine
<1>4. ASSUME ReleaseMachine
      PROVE  WritesInv'
    BY <1>4 DEF TypeOK, SaveAgrees, MediaExist, CheckpointsAgree, WritesInv,
       SavedAsKnown, GuestSeesItsWrites, GuestReadsItsWrites, Undisturbed, ReleaseMachine
<1>5. ASSUME NEW d \in Diskettes, AttachDiskette(d)
      PROVE  WritesInv'
  <2>1. definition'.mode = definition.mode
    BY <1>5, WithDisketteIs DEF TypeOK, AttachDiskette, Drives
  <2>2. saving = None /\ UNCHANGED <<written, disk, diskettes, media, lock, saving,
             snapshot, missed, missedSaved>>
    BY <1>5 DEF AttachDiskette
  <2>3. CASE machine = None
    BY <1>5, <2>1, <2>2, <2>3 DEF AttachDiskette, WritesInv, GuestSeesItsWrites, GuestReadsItsWrites,
       Undisturbed, SavedAsKnown
  <2>4. CASE machine # None
    <3>1. machine \in Machines /\ machine' = Inserted(machine, d)
      BY <1>5, <2>4 DEF TypeOK, AttachDiskette
    <3> QED
      BY <2>1, <2>2, <2>4, <3>1, InsertedIs, ExchangeKeepsWrites
  <2> QED
    BY <2>3, <2>4
<1>6. ASSUME DetachDiskette
      PROVE  WritesInv'
  <2>1. definition'.mode = definition.mode
    BY <1>6, WithDisketteIs DEF TypeOK, DetachDiskette, Drives
  <2>2. saving = None /\ UNCHANGED <<written, disk, diskettes, media, lock, saving,
             snapshot, missed, missedSaved>>
    BY <1>6 DEF DetachDiskette
  <2>3. CASE machine = None
    BY <1>6, <2>1, <2>2, <2>3 DEF DetachDiskette, WritesInv, GuestSeesItsWrites, GuestReadsItsWrites,
       Undisturbed, SavedAsKnown
  <2>4. CASE machine # None
    <3>1. machine \in Machines /\ machine' = Ejected(machine)
      BY <1>6, <2>4 DEF TypeOK, DetachDiskette
    <3> QED
      BY <2>1, <2>2, <2>4, <3>1, EjectedIs, ExchangeKeepsWrites
  <2> QED
    BY <2>3, <2>4
<1>7. ASSUME NEW d \in Diskettes, Insert(d)
      PROVE  WritesInv'
  <2>1. machine \in Machines /\ machine # None /\ machine' = Inserted(machine, d)
    BY <1>7 DEF TypeOK, Insert
  <2>2. saving = None /\ UNCHANGED <<written, disk, diskettes, media, lock,
             definition, saving, snapshot, missed, missedSaved>>
    BY <1>7 DEF Insert
  <2> QED
    BY <2>1, <2>2, InsertedIs, ExchangeKeepsWrites
<1>8. ASSUME Eject
      PROVE  WritesInv'
  <2>1. machine \in Machines /\ machine # None /\ machine' = Ejected(machine)
    BY <1>8 DEF TypeOK, Eject
  <2>2. saving = None /\ UNCHANGED <<written, disk, diskettes, media, lock,
             definition, saving, snapshot, missed, missedSaved>>
    BY <1>8 DEF Eject
  <2> QED
    BY <2>1, <2>2, EjectedIs, ExchangeKeepsWrites
<1>9. ASSUME NEW value \in Values, GuestWritesDisk(value)
      PROVE  WritesInv'
  <2>1. machine \in Machines /\ machine # None /\ value \in Contents
    BY <1>9 DEF TypeOK, GuestWritesDisk, Contents
  <2>2. machine' = MachineOf(machine.volume, machine.mode,
                             IF machine.mode = "overlay" THEN value ELSE machine.overlay,
                             machine.drive, machine.changed, value, machine.waits,
                             machine.aces, machine.retained, machine.present)
    <3>1. CASE machine.mode = "overlay"
      <4>1. machine' = Overlaid(machine, value)
        BY <1>9, <3>1, Zenon DEF GuestWritesDisk
      <4> QED
        BY <2>1, <3>1, <4>1, OverlaidIs
    <3>2. CASE machine.mode # "overlay"
      <4>1. machine' = Knowing(machine, value)
        BY <1>9, <3>2, Zenon DEF GuestWritesDisk
      <4> QED
        BY <2>1, <3>2, <4>1, KnowingIs
    <3> QED
      BY <3>1, <3>2
  <2>3. saving = None /\ UNCHANGED <<written, lock, definition, saving, snapshot, missedSaved>>
    BY <1>9 DEF GuestWritesDisk
  <2>4. /\ written = "disk" /\ machine.mode # "ro"
        /\ machine.mode # "overlay" => machine.mode = "rw" /\ machine.overlay = None
    BY <1>9, <2>1 DEF GuestWritesDisk, WritesInv, Undisturbed, Machines
  <2>5. machine.mode # "overlay" => DiskContent(machine.volume)' = value
    BY <1>9, <2>1, <2>2, <2>4 DEF GuestWritesDisk, Machines
  <2>6. GuestSeesItsWrites'
    BY <2>1, <2>2, <2>3, <2>4, <2>5, SnapshotAssumption DEF GuestSeesItsWrites, GuestReadsItsWrites
  <2>7. Undisturbed'
    BY <2>1, <2>2, <2>3, <2>4 DEF WritesInv, Undisturbed
  <2>8. SavedAsKnown'
    BY <2>3 DEF WritesInv, SavedAsKnown
  <2> QED
    BY <2>3, <2>6, <2>7, <2>8 DEF WritesInv
<1>10. ASSUME NEW value \in Values, GuestWritesDiskette(value)
      PROVE  WritesInv'
  <2>1. /\ machine \in Machines /\ machine # None /\ value \in Contents
        /\ written = "diskette" /\ machine.drive # None
    BY <1>10 DEF TypeOK, GuestWritesDiskette, Contents
  <2>2. machine' = MachineOf(machine.volume, machine.mode, machine.overlay,
                             machine.drive,
                             machine.changed, value, machine.waits, machine.aces,
                             machine.retained, machine.present)
    BY <1>10, <2>1, KnowingIs, Zenon DEF GuestWritesDiskette
  <2>3. saving = None /\ UNCHANGED <<written, lock, definition, saving, snapshot, missedSaved>>
    BY <1>10 DEF GuestWritesDiskette
  <2>4. DisketteContent(machine.drive)' = value
    BY <1>10, <2>1, <2>2 DEF GuestWritesDiskette, Machines, Drives, TypeOK
  <2>5. GuestSeesItsWrites'
    BY <2>1, <2>2, <2>3, <2>4 DEF GuestSeesItsWrites, GuestReadsItsWrites
  <2>6. Undisturbed'
    BY <2>1, <2>2, <2>3 DEF WritesInv, Undisturbed
  <2>7. SavedAsKnown'
    BY <2>3 DEF WritesInv, SavedAsKnown
  <2> QED
    BY <2>3, <2>5, <2>6, <2>7 DEF WritesInv
<1>11. ASSUME GuestRecalibrates
      PROVE  WritesInv'
    BY <1>11, RecalibratedIs DEF TypeOK, SaveAgrees, MediaExist,
       CheckpointsAgree, WritesInv, SavedAsKnown, GuestSeesItsWrites, GuestReadsItsWrites,
       Undisturbed, GuestRecalibrates
<1>12. ASSUME NEW op \in Operations, GuestIssues(op)
      PROVE  WritesInv'
    BY <1>12, IssuedIs DEF TypeOK, SaveAgrees, MediaExist, CheckpointsAgree,
       WritesInv, SavedAsKnown, GuestSeesItsWrites, GuestReadsItsWrites, Undisturbed, GuestIssues
<1>13. ASSUME NEW op \in Operations, OperationEnds(op)
      PROVE  WritesInv'
    BY <1>13, EndedIs DEF TypeOK, SaveAgrees, MediaExist, CheckpointsAgree,
       WritesInv, SavedAsKnown, GuestSeesItsWrites, GuestReadsItsWrites, Undisturbed, OperationEnds
<1>14. ASSUME GuestPowersOn
      PROVE  WritesInv'
  <2>1. machine \in Machines /\ machine # None
    BY <1>14 DEF TypeOK, GuestPowersOn
  <2>2. machine' = MachineOf(machine.volume, machine.mode, machine.overlay,
                             machine.drive,
                             machine.changed, machine.knows, machine.waits,
                                   machine.aces,
                             machine.retained, TRUE)
    BY <1>14, <2>1, PoweredIs, Zenon DEF GuestPowersOn
  <2>3. saving = None /\ UNCHANGED <<written, disk, diskettes, media, lock,
             definition, saving, snapshot, missed, missedSaved>>
    BY <1>14 DEF GuestPowersOn
  <2> QED
    BY <2>1, <2>2, <2>3 DEF WritesInv, GuestSeesItsWrites, GuestReadsItsWrites, Undisturbed, SavedAsKnown
<1>15. ASSUME GuestPowersOff
      PROVE  WritesInv'
  <2>1. machine \in Machines /\ machine # None
    BY <1>15 DEF TypeOK, GuestPowersOff
  <2>2. machine' = MachineOf(machine.volume, machine.mode, machine.overlay,
                             machine.drive,
                             machine.changed, machine.knows, machine.waits,
                                   machine.aces,
                             machine.retained, FALSE)
    BY <1>15, <2>1, PoweredIs, Zenon DEF GuestPowersOff
  <2>3. /\ saving = None /\ missed'.writes = missed.writes
        /\ UNCHANGED <<written, disk, diskettes, media, lock, definition, saving,
                       snapshot, missedSaved>>
    BY <1>15 DEF GuestPowersOff
  <2> QED
    BY <2>1, <2>2, <2>3 DEF WritesInv, GuestSeesItsWrites, GuestReadsItsWrites, Undisturbed, SavedAsKnown
<1>16. ASSUME ClientConnects
      PROVE  WritesInv'
    BY <1>16 DEF TypeOK, SaveAgrees, MediaExist, CheckpointsAgree, WritesInv,
       SavedAsKnown, GuestSeesItsWrites, GuestReadsItsWrites, Undisturbed, ClientConnects
<1>17. ASSUME ClientLeaves
      PROVE  WritesInv'
    BY <1>17 DEF TypeOK, SaveAgrees, MediaExist, CheckpointsAgree, WritesInv,
       SavedAsKnown, GuestSeesItsWrites, GuestReadsItsWrites, Undisturbed, ClientLeaves
<1>18. ASSUME OtherOpens
      PROVE  WritesInv'
    BY <1>18 DEF TypeOK, SaveAgrees, MediaExist, CheckpointsAgree, WritesInv,
       SavedAsKnown, GuestSeesItsWrites, GuestReadsItsWrites, Undisturbed, OtherOpens
<1>19. ASSUME OtherWrites
      PROVE  WritesInv'
  <2>1. /\ lock = "other" /\ written = "disk"
        /\ UNCHANGED <<written, media, lock, definition, machine, saving, snapshot,
                       missed, missedSaved>>
    BY <1>19 DEF OtherWrites
  <2>2. machine # None /\ machine.knows # None =>
            machine.volume = "media" \/ machine.overlay = machine.knows
    BY <2>1 DEF WritesInv, Undisturbed, TypeOK, Machines
  <2>3. GuestSeesItsWrites'
    BY <2>1, <2>2 DEF WritesInv, GuestSeesItsWrites, GuestReadsItsWrites
  <2> QED
    BY <2>1, <2>3 DEF WritesInv, Undisturbed, SavedAsKnown
<1>20. ASSUME OtherCloses
      PROVE  WritesInv'
    BY <1>20 DEF TypeOK, SaveAgrees, MediaExist, CheckpointsAgree, WritesInv,
       SavedAsKnown, GuestSeesItsWrites, GuestReadsItsWrites, Undisturbed, OtherCloses
<1>21. ASSUME RemoveLock
      PROVE  WritesInv'
    BY <1>21 DEF TypeOK, SaveAgrees, MediaExist, CheckpointsAgree, WritesInv,
       SavedAsKnown, GuestSeesItsWrites, GuestReadsItsWrites, Undisturbed, RemoveLock
<1>22. ASSUME Crash
      PROVE  WritesInv'
    BY <1>22 DEF TypeOK, SaveAgrees, MediaExist, CheckpointsAgree, WritesInv,
       SavedAsKnown, GuestSeesItsWrites, GuestReadsItsWrites, Undisturbed, Crash
<1>23. ASSUME BeginSave
      PROVE  WritesInv'
  <2>1. /\ saving' = MediaSaved
        /\ UNCHANGED <<written, disk, diskettes, media, lock, definition, machine,
                   snapshot, missed, missedSaved>>
    BY <1>23 DEF BeginSave
  <2>2. GuestSeesItsWrites' /\ Undisturbed'
    BY <2>1 DEF WritesInv, GuestSeesItsWrites, GuestReadsItsWrites, Undisturbed
  <2>3. machine # None /\ machine.knows # None /\ written = "disk" /\ ~missed.writes
            /\ machine.overlay = None => machine.knows = MediaSaved.disk
    BY DEF WritesInv, GuestSeesItsWrites, GuestReadsItsWrites, Undisturbed, MediaExist, MediaSaved
  <2>4. machine # None /\ machine.knows # None /\ written # "disk" /\ ~missed.writes
            /\ ~machine.changed => machine.knows = MediaSaved.diskette
    BY <2>1 DEF WritesInv, GuestSeesItsWrites, GuestReadsItsWrites, Undisturbed, MediaSaved,
       DriveSaved, TypeOK
  <2>5. SavedAsKnown'
    BY <2>1, <2>3, <2>4 DEF WritesInv, SavedAsKnown
  <2> QED
    BY <2>1, <2>2, <2>5 DEF WritesInv
<1>24. ASSUME EndSave
      PROVE  WritesInv'
  <2>1. /\ saving \in Checkpoints /\ saving # None /\ saving' = None
        /\ UNCHANGED <<written, disk, diskettes, media, lock, machine, missed>>
        /\ saving.powered <=> machine # None
    BY <1>24 DEF EndSave, TypeOK, SaveAgrees
  <2>2. GuestSeesItsWrites' /\ Undisturbed'
    BY <2>1 DEF WritesInv, GuestSeesItsWrites, GuestReadsItsWrites, Undisturbed
  <2>3. CASE machine = None
    <3>1. snapshot' = saving
      BY <1>24, <2>3 DEF EndSave
    <3> QED
      BY <2>1, <2>2, <2>3, <3>1 DEF WritesInv, SavedAsKnown
  <2>4. CASE machine # None
    <3>1. snapshot' = WithRuntime(saving, machine) /\ machine \in Machines
      BY <1>24, <2>4 DEF EndSave, TypeOK
    <3>2. /\ snapshot'.disk = saving.disk /\ snapshot'.diskette = saving.diskette
          /\ snapshot'.runtime.knows = machine.knows
      BY <2>1, <3>1, WithRuntimeIs, RuntimeIs DEF Runtime
    <3>3. missedSaved'.writes = (missed.writes \/ IF written = "disk" THEN machine.overlay # None
                                                   ELSE machine.changed)
      BY <1>24, <2>4 DEF EndSave, Silent
    <3>4. SavedAsKnown'
      BY <2>1, <2>4, <3>2, <3>3 DEF WritesInv, SavedAsKnown
    <3> QED
      BY <2>2, <3>4 DEF WritesInv
  <2> QED
    BY <2>3, <2>4
<1>25. ASSUME SaveFails
      PROVE  WritesInv'
    BY <1>25 DEF TypeOK, SaveAgrees, MediaExist, CheckpointsAgree, WritesInv,
       SavedAsKnown, GuestSeesItsWrites, GuestReadsItsWrites, Undisturbed, SaveFails
<1>26. ASSUME NEW succeeds \in BOOLEAN, LoadSnapshot(succeeds)
      PROVE  WritesInv'
  <2>1. /\ saving' = None /\ snapshot' = snapshot /\ written' = written
        /\ missedSaved' = missedSaved
        /\ machine' # None => missed' = missedSaved
        /\ snapshot \in Checkpoints /\ snapshot # None
        /\ media' = Unpacked(snapshot) /\ definition' = DefinitionSaved(snapshot)
    BY <1>26 DEF LoadSnapshot, TypeOK
  <2>2. /\ definition' \in Definitions /\ definition'.volume = "media"
        /\ definition'.mode # "overlay"
        /\ definition'.diskette = IF snapshot.diskette = None THEN None ELSE "media"
    BY <2>1, DefinitionSavedIs DEF DefinitionSaved
  <2>3. SavedAsKnown'
    BY <2>1 DEF WritesInv, SavedAsKnown
  <2>4. CASE machine' = None
    BY <2>1, <2>2, <2>3, <2>4 DEF WritesInv, GuestSeesItsWrites, GuestReadsItsWrites, Undisturbed
  <2>5. CASE machine' # None
    <3> DEFINE r == snapshot.runtime
    <3>1. snapshot.powered /\ machine' = Restored(Fresh(definition'), r)
      BY <1>26, <2>5 DEF LoadSnapshot
    <3>2. r \in Runtimes
      BY <2>1, <3>1 DEF CheckpointsAgree
    <3>3. machine' = MachineOf(definition'.volume, definition'.mode, None,
                               definition'.diskette, FALSE, r.knows, r.waits,
                               r.processor.aces, r.devices.retained,
                                     r.processor.present)
      BY <2>2, <3>1, <3>2, RestoredIs
    <3>4. missed' = missedSaved /\ (r.knows # None /\ ~missedSaved.writes =>
          r.knows = IF written = "disk" THEN snapshot.disk ELSE snapshot.diskette)
      BY <2>1, <2>5, <3>1 DEF WritesInv, SavedAsKnown
    <3> HIDE DEF r
    <3>5. GuestSeesItsWrites'
      BY <2>1, <2>2, <3>3, <3>4 DEF GuestSeesItsWrites, GuestReadsItsWrites, Unpacked
    <3>6. Undisturbed'
      BY <2>1, <2>2, <3>3, <3>4 DEF Undisturbed
    <3> QED
      BY <2>2, <2>3, <3>5, <3>6 DEF WritesInv
  <2> QED
    BY <2>4, <2>5
<1>28. ASSUME NEW d \in Diskettes, OtherWritesDiskette(d)
      PROVE  WritesInv'
  <2>1. /\ written = "diskette"
        /\ UNCHANGED <<written, media, lock, machine, saving, snapshot, missedSaved>>
        /\ missed'.writes = (missed.writes \/ (machine # None /\ machine.drive = d))
        /\ \A e \in Diskettes : e # d => diskettes'[e] = diskettes[e]
    BY <1>28 DEF OtherWritesDiskette, TypeOK
  <2>2. GuestSeesItsWrites'
    BY <2>1 DEF WritesInv, GuestSeesItsWrites, GuestReadsItsWrites, TypeOK, Machines, Drives
  <2>3. Undisturbed'
    BY <2>1 DEF WritesInv, Undisturbed
  <2>4. SavedAsKnown'
    BY <2>1 DEF WritesInv, SavedAsKnown
  <2> QED
    BY <2>2, <2>3, <2>4 DEF WritesInv
<1>27. ASSUME UNCHANGED vars
      PROVE  WritesInv'
    BY <1>27 DEF TypeOK, SaveAgrees, MediaExist, CheckpointsAgree, WritesInv,
       SavedAsKnown, GuestSeesItsWrites, GuestReadsItsWrites, Undisturbed
<1> QED
    BY <1>1, <1>2, <1>3, <1>4, <1>5, <1>6, <1>7, <1>8, <1>9, <1>10, <1>11,
       <1>12, <1>13, <1>14, <1>15, <1>16, <1>17, <1>18, <1>19, <1>20, <1>21,
       <1>22, <1>23, <1>24, <1>25, <1>26, <1>27, <1>28
    DEF Next, Configuration, Guest, Client, Host, Save, Load

(* The guest reads what it wrote last, over locks, crashes, exchanges and  *)
(* loads, unless another emulator wrote on the diskette in the drive since *)
(* then, or the machine was loaded from a save of an overlay volume or of  *)
(* a drive whose exchange the guest had not been told of (DiskBackend.cpp: *)
(* 83-161, DisketteBackend.cpp:185-219, MachineSnapshot.cpp:397-400).      *)
THEOREM GuestSeesItsWritesHolds == Spec => []GuestSeesItsWrites
<1>1. Init => WritesInv
    BY DEF Init, WritesInv, GuestSeesItsWrites, GuestReadsItsWrites, Undisturbed, SavedAsKnown
<1>2. WritesInv /\ SnapshotInv /\ SnapshotInv' /\ [Next]_vars => WritesInv'
    BY WritesInvStep
<1>3. WritesInv => GuestSeesItsWrites
    BY DEF WritesInv
<1> QED
    BY <1>1, <1>2, <1>3, SnapshotInvHolds, PTL DEF Spec
=============================================================================
