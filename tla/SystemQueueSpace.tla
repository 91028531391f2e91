-------------------------- MODULE SystemQueueSpace --------------------------
(***************************************************************************)
(* The system queue space as its clients use it: SVC 06 Assign, SVC 07     *)
(* Free Assigned Areas, a snapshot saved and loaded, and the reset of an   *)
(* IPL.  A client may free any part of what it was assigned.               *)
(***************************************************************************)
EXTENDS GuestHeap

CONSTANT
    Sizes           \* lengths the clients ask for, in units

ASSUME SizesAssumption == Sizes \subseteq Nat \ {0}

VARIABLE heap       \* the pool

Init == heap = NewHeap

Assign(n) == heap' = Allocate(heap, n).heap

FreeArea(off, len) == heap' = Free(heap, off, len)

(* The areas a client may free: a part, at either end, of what it holds.   *)
PartsHeld == UNION {{<<e.off, n>> : n \in 1..e.len} \cup
                    {<<e.off + e.len - n, n>> : n \in 1..e.len} : e \in heap.journal}

SaveAndLoad == heap' = RestoreCheckpoint(heap)

Reset == heap' = NewHeap

Next ==
    \/ \E n \in Sizes : Assign(n)
    \/ \E area \in PartsHeld : FreeArea(area[1], area[2])
    \/ SaveAndLoad
    \/ Reset

Spec == Init /\ [][Next]_heap

-----------------------------------------------------------------------------
Disjoint(extents) ==
    \A e, f \in extents : e # f => Run(e.off, e.len) \cap Run(f.off, f.len) = {}

FreeExtents == {[off |-> o, len |-> heap.free[o]] : o \in DOMAIN heap.free}

TypeOK ==
    /\ heap.span \in Initial..Ceiling
    /\ DOMAIN heap.free \subseteq 0..(heap.span - 1)
    /\ \A e \in FreeExtents : e.len \in 1..Largest
    /\ heap.filed \in [0..Classes -> SUBSET (0..(heap.span - 1))]
    /\ heap.journal \subseteq [off : 0..(heap.span - 1), len : 1..heap.span, id : 0..heap.ids]
    /\ heap.used \in 0..Capacity(heap)
    /\ heap.ids \in Nat

(* checkInvariants' coverage: every unit of the committed span is reserved *)
(* for the heap, free, or of one live allocation, whatever was split,      *)
(* merged, absorbed, extended or restored before.                          *)
Partition ==
    LET reserved == (0..(Header - 1)) \cup SegmentPrefixes(heap)
    IN  /\ Disjoint(FreeExtents)
        /\ Disjoint(heap.journal)
        /\ FreeUnits(heap) \cap Covered(heap.journal) = {}
        /\ reserved \cap (FreeUnits(heap) \cup Covered(heap.journal)) = {}
        /\ reserved \cup FreeUnits(heap) \cup Covered(heap.journal) = 0..(heap.span - 1)

(* The two representations of the free lists agree, and no element is      *)
(* filed past the twelfth class, where class_ has no list.                 *)
FiledByLength ==
    /\ heap.filed[Classes] = {}
    /\ \A k \in 0..(Classes - 1) :
         heap.filed[k] = {o \in DOMAIN heap.free : heap.free[o] = Power[k]}
    /\ UNION {heap.filed[k] : k \in 0..(Classes - 1)} = DOMAIN heap.free

(* Used says what the live allocations hold, also after a partial free.    *)
Accounting == heap.used = Cardinality(Covered(heap.journal))

(* checkInvariants after every call: the pool, its lists and its account   *)
(* describe one division of the same storage.                              *)
PoolIntact == Partition /\ FiledByLength /\ Accounting

(* No check of free refuses a client that gives back a part of what it     *)
(* holds: no area starts on a 64 KB boundary or crosses one, and none      *)
(* starts where a free element does.                                       *)
FreeAccepted == \A p \in PartsHeld : ~FreeRefused(heap, p[1], p[2])

(* A checkpoint saved now and loaded later gives the pool its span, its    *)
(* free storage and its accounts back, whatever the order in which the     *)
(* free elements are queued again.                                         *)
RestoreKeepsStorage ==
    LET loaded == RestoreCheckpoint(heap)
    IN  /\ loaded.span = heap.span
        /\ FreeUnits(loaded) = FreeUnits(heap)
        /\ loaded.used = Cardinality(Covered(loaded.journal))

-----------------------------------------------------------------------------
(* The buddy allocator keeps the promises of an area pool.                 *)
Pool == INSTANCE AreaPool WITH
            Assignable <- (Header..(Ceiling - 1)) \
                              {Initial + i * Segment : i \in 0..(Ceiling \div Segment)},
            areas      <- {[off |-> e.off, len |-> e.len] : e \in heap.journal}

(* Every assign hands out storage nobody has, every free returns what the  *)
(* client named, and a load keeps what was assigned.                       *)
ImplementsAreaPool == Pool!Spec
=============================================================================
