----------------------------- MODULE GuestHeap -----------------------------
(***************************************************************************)
(* The allocator of the system queue space                                 *)
(* (src/Processors/ControlStorage/GuestHeap.cpp): a binary buddy allocator *)
(* over a pool of guest storage.  Offsets and lengths are in units of the  *)
(* granularity, 16 bytes; every size rule of the code gives the same       *)
(* answer for a byte count and for that count rounded up to whole units.   *)
(*                                                                         *)
(* A heap is a record:                                                     *)
(*   span     bytes_, the committed length                                 *)
(*   free     free_, the offsets on the free lists and their lengths       *)
(*   filed    class_, the offsets filed under each size class              *)
(*   journal  allocated_, the assigned extents and their allocation ids    *)
(*   used     used_                                                        *)
(*   ids      allocationSequence_                                          *)
(* Loops of the code are functions of the length or class that has been    *)
(* reached.                                                                *)
(***************************************************************************)
EXTENDS Integers, FiniteSetsExt

CONSTANTS
    Classes,    \* kClasses: twelve; class k holds blocks of Power[k] units
    RoundTo,    \* 256 bytes: sixteen units
    Header,     \* kHeaderBytes: seven units
    Initial,    \* initialBytes_: 3584 units, ending on a segment boundary
    Segment,    \* 64 KB: 4096 units
    Ceiling,    \* maximumHigh_ - low_
    TrackIds    \* FALSE when nobody tells allocations apart: every id is 0

(* kGranularity << k.                                                      *)
Power[k \in 0..Classes] == IF k = 0 THEN 1 ELSE 2 * Power[k - 1]

ASSUME GeometryAssumption ==
    /\ Classes \in Nat \ {0} /\ RoundTo \in Nat \ {0} /\ Header \in Nat \ {0}
    /\ Segment = Power[Classes]
    /\ Initial \in (Header + 1)..(Segment - 1)
    /\ Ceiling \in Nat /\ Ceiling >= Initial
    /\ (Ceiling - Initial) % Segment = 0
    /\ TrackIds \in BOOLEAN

Largest == Power[Classes - 1]

Id(n) == IF TrackIds THEN n ELSE 0

Lengths == 1..Segment

(* [from, from + length) and everything a set of extents covers.           *)
Run(from, length) == from..(from + length - 1)
Covered(extents)  == UNION {Run(e.off, e.len) : e \in extents}

FreeUnits(h) == UNION {Run(o, h.free[o]) : o \in DOMAIN h.free}

(* The first unit of each segment committed later belongs to the heap.     *)
SegmentPrefixes(h) == {Initial + i * Segment : i \in 0..((h.span - Initial) \div Segment - 1)}

Capacity(h) == h.span - Header - Cardinality(SegmentPrefixes(h))

(* The 64 KB page an offset lies in: the initial segment is its own page.  *)
SegmentOf(off) == IF off < Initial THEN 0 ELSE 1 + (off - Initial) \div Segment

-----------------------------------------------------------------------------
(* Size classes.                                                           *)

PowersOfTwo == {Power[k] : k \in 0..Classes}

IsPowerOfTwo(n) == n \in PowersOfTwo

(* No length above a segment is ever assigned or queued; as for those      *)
(* above the last class, the index is that past the last class.            *)
ClassOf == [n \in Lengths |-> Min({k \in 0..Classes : Power[k] >= n \/ k = Classes})]

ClassIndex(n) == IF n \in Lengths THEN ClassOf[n] ELSE Classes

RoundedSize(n) ==
    LET c == Power[ClassIndex(n)]
    IN  IF c >= n + RoundTo THEN RoundTo * ((n + RoundTo - 1) \div RoundTo) ELSE c

-----------------------------------------------------------------------------
(* The free lists.                                                         *)

Dequeue(h, offs) ==
    [h EXCEPT !.free  = [o \in DOMAIN h.free \ offs |-> h.free[o]],
              !.filed = [k \in 0..Classes |->
                           h.filed[k] \ {o \in offs : ClassIndex(h.free[o]) = k}]]

(* blocks is a function from offsets to lengths.                           *)
Insert(h, blocks) ==
    [h EXCEPT !.free  = [o \in DOMAIN h.free \cup DOMAIN blocks |->
                           IF o \in DOMAIN blocks THEN blocks[o] ELSE h.free[o]],
              !.filed = [k \in 0..Classes |->
                           h.filed[k] \cup {o \in DOMAIN blocks : ClassIndex(blocks[o]) = k}]]

(* The length reached while the block above is free and the length is not  *)
(* a power of two.                                                         *)
Absorbed(h, off, size) ==
    LET reach[s \in 1..h.span] ==
            IF IsPowerOfTwo(s) \/ off + s \notin DOMAIN h.free
            THEN s
            ELSE reach[s + h.free[off + s]]
    IN  reach[size]

(* A length that stays odd is filed as a descending run of powers of two.  *)
Chunk(n) == Min({Power[ClassIndex(n \div 2 + 1)], Largest})

Decomposition(off, size) ==
    LET left[n \in 0..size] == IF n = 0 THEN {} ELSE {n} \cup left[n - Chunk(n)]
    IN  [o \in {(off + size) - n : n \in left[size]} |-> Chunk((off + size) - o)]

(* A XOR S.                                                                *)
Buddy(off, size) ==
    IF (off \div size) % 2 = 0 THEN off + size ELSE off - size

(* Where the block of class k starts that off is in, after merging up from *)
(* class first.                                                            *)
Base(off, first) ==
    LET at[k \in 0..(Classes - 1)] ==
            IF k <= first THEN off
            ELSE Min({at[k - 1], Buddy(at[k - 1], Power[k - 1])})
    IN  at

(* Fault: a free buddy is merged whatever its length.                      *)
Merged_AnyLength(h, off, first) ==
    LET at    == Base(off, first)
        stays(k) == Buddy(at[k], Power[k]) \notin DOMAIN h.free
        last  == Min({k \in first..(Classes - 1) : k = Classes - 1 \/ stays(k)})
    IN  [off |-> at[last], len |-> Power[last]]

(* The block merged while the buddy is free and of the same length.        *)
Merged(h, off, first) ==
    LET at    == Base(off, first)
        stays(k) == LET buddy == Buddy(at[k], Power[k])
                    IN  ~(/\ buddy > 0 /\ buddy < h.span
                          /\ buddy \in DOMAIN h.free
                          /\ h.free[buddy] = Power[k])
        last  == Min({k \in first..(Classes - 1) : k = Classes - 1 \/ stays(k)})
    IN  [off |-> at[last], len |-> Power[last]]

(* The free elements a run has taken in.                                   *)
Within(h, off, len) == {o \in DOMAIN h.free : off <= o /\ o < off + len}

(* enqueue: absorb upwards, then merge a power of two with its buddies, or *)
(* decompose.                                                              *)
Enqueue(h, off, size) ==
    LET grown == Absorbed(h, off, size)
        h1    == Dequeue(h, Within(h, off, grown))
        whole == Merged(h1, off, ClassIndex(grown))
        h2    == Dequeue(h1, Within(h1, whole.off, whole.len))
    IN  IF IsPowerOfTwo(grown)
        THEN Insert(h2, [o \in {whole.off} |-> whole.len])
        ELSE Insert(h1, Decomposition(off, grown))

EmptyHeap(span) ==
    [span |-> span, free |-> [o \in {} |-> 0], filed |-> [k \in 0..Classes |-> {}],
     journal |-> {}, used |-> 0, ids |-> 0]

(* The constructor's state, and reset's.                                   *)
NewHeap == Enqueue(EmptyHeap(Initial), Header, Initial - Header)

-----------------------------------------------------------------------------
(* Assign.  A result is [heap, at]; at = 0 is a refusal.                   *)

CanServe(h, first) == \E k \in first..(Classes - 1) : h.filed[k] # {}

(* Fault: the first unit of the segment is not kept back.                  *)
ExtendHeap_NoPrefix(h) ==
    IF h.span + Segment > Ceiling THEN h
    ELSE Enqueue([h EXCEPT !.span = @ + Segment], h.span, Segment - 1)

(* Commit the next segment, all of it but its first unit.                  *)
ExtendHeap(h) ==
    IF h.span + Segment > Ceiling THEN h
    ELSE Enqueue([h EXCEPT !.span = @ + Segment], h.span + 1, Segment - 1)

(* Take the lowest block of the lowest class that has one.                 *)
AllocateFromLists(h, first, size) ==
    LET k   == Min({c \in first..(Classes - 1) : h.filed[c] # {}})
        off == Min(h.filed[k])
        h1  == Dequeue(h, {off})
        h2  == IF Power[k] > size THEN Enqueue(h1, off + size, Power[k] - size) ELSE h1
    IN  [heap |-> [h2 EXCEPT !.used    = @ + size,
                             !.ids     = Id(@ + 1),
                             !.journal = @ \cup {[off |-> off, len |-> size, id |-> Id(h.ids + 1)]}],
         at   |-> off]

Allocate(h, n) ==
    LET first == ClassIndex(n)
        pool  == IF first = Classes \/ CanServe(h, first) THEN h ELSE ExtendHeap(h)
    IN  IF first < Classes /\ CanServe(pool, first)
        THEN AllocateFromLists(pool, first, RoundedSize(n))
        ELSE [heap |-> pool, at |-> 0]

-----------------------------------------------------------------------------
(* Free.                                                                   *)

(* The checks that make free return without doing anything.                *)
FreeRefused(h, off, len) ==
    \/ len <= 0
    \/ off \in SegmentPrefixes(h)
    \/ SegmentOf(off) # SegmentOf(off + len - 1)
    \/ off < 0 \/ off + len > h.span
    \/ off \in DOMAIN h.free

(* Fault: the part of the extent above the freed range is forgotten.       *)
Remains_NoTail(e, off, len) ==
    {p \in {[e EXCEPT !.len = off - e.off]} : p.len > 0}

(* What is left of an extent on either side of a range.                    *)
Remains(e, off, len) ==
    {p \in {[e EXCEPT !.len = off - e.off],
            [e EXCEPT !.off = off + len, !.len = e.off + e.len - (off + len)]} : p.len > 0}

Containing(h, off, len) == {e \in h.journal : Run(off, len) \subseteq Run(e.off, e.len)}

(* A range that no one live extent contains is reported, and freed.        *)
Free(h, off, len) ==
    LET e  == CHOOSE x \in Containing(h, off, len) : TRUE
        h1 == IF Containing(h, off, len) = {} THEN h
              ELSE [h EXCEPT !.journal = (@ \ {e}) \cup Remains(e, off, len)]
    IN  IF FreeRefused(h, off, len) THEN h
        ELSE Enqueue([h1 EXCEPT !.used = @ - len], off, len)

(* liveAllocationAt: the id of exactly that extent, or 0.                  *)
LiveAllocationAt(h, off, len) ==
    LET live == {e \in h.journal : e.off = off /\ e.len = len}
    IN  IF live = {} THEN 0 ELSE (CHOOSE e \in live : TRUE).id

-----------------------------------------------------------------------------
(* A checkpoint holds the span, used and the free extents.  Loading it     *)
(* enqueues these again in address order, and takes the gaps between them  *)
(* for one allocation each.                                                *)

RebuildOpaqueOwnership(h) ==
    LET taken     == (Header..(h.span - 1)) \ FreeUnits(h)
        runs(set) == {u \in set : u - 1 \notin set}
        end(set, u) == Min({v \in u..h.span : v + 1 \notin set})
        id(u)     == Cardinality({r \in runs(taken) : r <= u})
        owned     == taken \ SegmentPrefixes(h)
    IN  [h EXCEPT !.journal = {[off |-> u, len |-> end(owned, u) - u + 1, id |-> Id(id(u))] :
                                 u \in runs(owned)},
                  !.ids     = Id(Cardinality(runs(taken)))]

EnqueueAll(h, free) ==
    LET loaded[n \in 0..h.span] ==
            IF n = 0 THEN h
            ELSE IF n - 1 \in DOMAIN free
                 THEN Enqueue(loaded[n - 1], n - 1, free[n - 1])
                 ELSE loaded[n - 1]
    IN  loaded[h.span]

(* Fault: only the initial segment is restored.                            *)
RestoreCheckpoint_Shrinks(h) ==
    RebuildOpaqueOwnership(
        EnqueueAll([EmptyHeap(Initial) EXCEPT !.used = h.used], h.free))

RestoreCheckpoint(h) ==
    RebuildOpaqueOwnership(
        EnqueueAll([EmptyHeap(h.span) EXCEPT !.used = h.used], h.free))
=============================================================================
