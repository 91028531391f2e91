----------------------- MODULE ActionControlElements -----------------------
(***************************************************************************)
(* The life of action control elements                                     *)
(* (src/Processors/ControlStorage/ActionControlElementQueue.cpp).  An      *)
(* element is an ordinary area of the system queue space.  The control     *)
(* processor builds it for a device request or an internal condition,      *)
(* posts it to a task's complete queue, and releases it when a wait call   *)
(* consumes it; but the guest may dequeue it instead, and free it with its *)
(* own SVC 07, or free it while it is still queued.  The allocator keeps a *)
(* record of each element, and the allocation id in it is what tells one   *)
(* that is still its own from one that is gone, or is somebody else's by   *)
(* now.                                                                    *)
(***************************************************************************)
EXTENDS SystemQueueSpace

CONSTANTS
    Units,          \* kSize: an element is 32 bytes, a block of the second class
    MaxIds          \* bound: allocations since the last load

VARIABLES
    allocated,      \* allocated_: address -> allocation id
    ecms,           \* the keys of realEcmByAce_
    elements,       \* address -> where the element is, and whether its
                    \* builder gave it an event control mask
    dangling,       \* the addresses of elements the guest has freed that
                    \* are still on a complete queue
    areas,          \* the areas the guest assigned for itself
    loaded          \* history: a snapshot has been loaded

vars == <<heap, allocated, ecms, elements, dangling, areas, loaded>>

ASSUME ElementAssumption ==
    /\ Units \in {Power[k] : k \in 0..(Classes - 1)} /\ MaxIds \in Nat
    /\ TrackIds

Live == DOMAIN elements

At(a, place) == a \in Live /\ elements[a].at = place

Place(a, place, ecm) ==
    [x \in Live \cup {a} |-> IF x = a THEN [at |-> place, ecm |-> ecm] ELSE elements[x]]

Without(f, a) == [x \in DOMAIN f \ {a} |-> f[x]]

AceInit ==
    /\ Init
    /\ allocated = [a \in {} |-> 0]
    /\ ecms = {}
    /\ elements = [a \in {} |-> [at |-> "none", ecm |-> FALSE]]
    /\ dangling = {}
    /\ areas = {}
    /\ loaded = FALSE

-----------------------------------------------------------------------------
(* A new element takes over the stale record of the last one at its        *)
(* address.  A record with the new id, which would mean that live storage  *)
(* was assigned, is refused; AceTypeOK says there is none.  (Where a freed *)
(* element is still queued, the new one is built over its link: what the   *)
(* queue is then is not followed.)                                         *)
AllocateAce(a) ==
    LET given == Allocate(heap, Units)
    IN  /\ heap.ids < MaxIds
        /\ given.at = a /\ a # 0
        /\ a \in DOMAIN allocated => allocated[a] # LiveAllocationAt(given.heap, a, Units)
        /\ heap' = given.heap
        /\ allocated' = [x \in DOMAIN allocated \cup {a} |->
                           IF x = a THEN LiveAllocationAt(given.heap, a, Units) ELSE allocated[x]]
        /\ dangling' = dangling \ {a}

(* Fault: provenance of the last element at this address survives.         *)
BuildInternal_KeepsEcm(a) ==
    /\ AllocateAce(a)
    /\ elements' = Place(a, "complete", FALSE)
    /\ UNCHANGED <<ecms, areas, loaded>>

(* An internal condition has no event control mask, and is posted at once. *)
BuildInternal(a) ==
    /\ AllocateAce(a)
    /\ ecms' = ecms \ {a}
    /\ elements' = Place(a, "complete", FALSE)
    /\ UNCHANGED <<areas, loaded>>

(* A device request: its mask is resolved and retained while the issuing   *)
(* task's translation is selected.                                         *)
BuildRequest(a) ==
    /\ AllocateAce(a)
    /\ ecms' = ecms \cup {a}
    /\ elements' = Place(a, "device", TRUE)
    /\ UNCHANGED <<areas, loaded>>

(* The device has answered: the element goes to its task's complete queue. *)
(* (A completion whose task is gone releases the element, as Cancel does.) *)
Complete(a) ==
    /\ At(a, "device") /\ a \in ecms
    /\ elements' = Place(a, "complete", elements[a].ecm)
    /\ UNCHANGED <<heap, allocated, ecms, dangling, areas, loaded>>

(* Fault: what has the address is freed, whoever has it by now.            *)
Release_NoIdCheck(a) ==
    /\ a \in DOMAIN allocated
    /\ allocated' = Without(allocated, a)
    /\ ecms' = ecms \ {a}
    /\ heap' = Free(heap, a, Units)

(* An element that is not recorded is ignored; one that is no longer the   *)
(* allocation of its record is dropped without a free.                     *)
Release(a) ==
    /\ a \in DOMAIN allocated
    /\ allocated' = Without(allocated, a)
    /\ ecms' = ecms \ {a}
    /\ heap' = IF LiveAllocationAt(heap, a, Units) = allocated[a]
               THEN Free(heap, a, Units) ELSE heap

(* A wait call takes the element off the complete queue, freed or not.     *)
Consume(a) ==
    /\ At(a, "complete") \/ a \in dangling
    /\ Release(a)
    /\ elements' = Without(elements, a)
    /\ dangling' = dangling \ {a}
    /\ UNCHANGED <<areas, loaded>>

(* Fault: the request is forgotten, and its element with it.               *)
Cancel_KeepsElement(a) ==
    /\ At(a, "device")
    /\ elements' = Without(elements, a)
    /\ UNCHANGED <<heap, allocated, ecms, dangling, areas, loaded>>

(* The task ends with its request still at the device.                     *)
Cancel(a) ==
    /\ At(a, "device")
    /\ Release(a)
    /\ elements' = Without(elements, a)
    /\ UNCHANGED <<dangling, areas, loaded>>

-----------------------------------------------------------------------------
(* The guest.                                                              *)

(* It takes an element off its own complete queue...                       *)
DequeueByGuest(a) ==
    /\ \/ /\ At(a, "complete")
          /\ elements' = Place(a, "guest", elements[a].ecm)
          /\ UNCHANGED dangling
       \/ /\ a \in dangling
          /\ dangling' = dangling \ {a}
          /\ UNCHANGED elements
    /\ UNCHANGED <<heap, allocated, ecms, areas, loaded>>

(* A load gives the record of an element that shares its extent with a     *)
(* neighbour no id.                                                        *)
Identified(a) == allocated[a] # 0

(* ...and frees it, or frees it first.                                     *)
FreeElement(a) ==
    /\ At(a, "guest") \/ (At(a, "complete") /\ Identified(a))
    /\ heap' = Free(heap, a, Units)
    /\ elements' = Without(elements, a)
    /\ dangling' = IF At(a, "complete") THEN dangling \cup {a} ELSE dangling
    /\ UNCHANGED <<allocated, ecms, areas, loaded>>

AssignArea(n) ==
    LET given == Allocate(heap, n)
    IN  /\ heap.ids < MaxIds /\ given.at # 0
        /\ heap' = given.heap
        /\ areas' = areas \cup {<<given.at, RoundedSize(n)>>}
        /\ UNCHANGED <<allocated, ecms, elements, dangling, loaded>>

FreeOwnArea(area) ==
    /\ FreeArea(area[1], area[2])
    /\ areas' = areas \ {area}
    /\ UNCHANGED <<allocated, ecms, elements, dangling, loaded>>

(* The pool is restored first, and the records are looked up in it.  (What *)
(* the queues hold of elements freed before is not followed either.)       *)
SaveAndLoadAces ==
    /\ SaveAndLoad
    /\ allocated' = [a \in DOMAIN allocated |-> LiveAllocationAt(heap', a, Units)]
    /\ loaded' = TRUE
    /\ dangling' = {}
    /\ UNCHANGED <<ecms, elements, areas>>

Addresses == Header..(Ceiling - 1)

AceNext ==
    \/ \E a \in Addresses : BuildInternal(a) \/ BuildRequest(a)
    \/ \E a \in Live : Complete(a) \/ Cancel(a) \/ FreeElement(a)
    \/ \E a \in Live \cup dangling : Consume(a) \/ DequeueByGuest(a)
    \/ \E n \in Sizes : AssignArea(n)
    \/ \E area \in areas : FreeOwnArea(area)
    \/ SaveAndLoadAces

AceSpec == AceInit /\ [][AceNext]_vars

-----------------------------------------------------------------------------
DisjointRuns(runs) == \A r, s \in runs : r # s => r \cap s = {}

InUse == {Run(a, Units) : a \in Live} \cup {Run(r[1], r[2]) : r \in areas}

AceTypeOK ==
    /\ DOMAIN allocated \subseteq Addresses
    /\ \A a \in DOMAIN allocated : allocated[a] \in 0..heap.ids
    /\ ecms \subseteq Addresses
    /\ elements \in [Live -> [at : {"device", "complete", "guest"}, ecm : BOOLEAN]]
    /\ Live \subseteq Addresses /\ dangling \subseteq DOMAIN allocated \ Live
    /\ areas \subseteq Addresses \X (1..Segment)

(* Whoever frees an element, the storage of a live one is nobody else's:   *)
(* not on a free list, not another element, not an area of the guest.      *)
ElementsSafe ==
    /\ DisjointRuns(InUse)
    /\ Cardinality(InUse) = Cardinality(Live) + Cardinality(areas)
    /\ (UNION InUse) \cap FreeUnits(heap) = {}

(* The mask retained for an address is that of the element that lives      *)
(* there now, never of one the guest freed before.                         *)
EcmIsOwn == \A a \in Live : (a \in ecms) = elements[a].ecm

(* A load is never refused for its own snapshot: every retained mask names *)
(* an element that has a record, and live elements of the host have one.   *)
RecordsComplete ==
    /\ ecms \subseteq DOMAIN allocated
    /\ \A a \in Live : elements[a].at # "guest" => a \in DOMAIN allocated

(* What the host keeps of an element beside the guest's storage, its mask  *)
(* and its record, is of the element that lives there now.                 *)
HostStateIsOwn == EcmIsOwn /\ RecordsComplete

(* Storage comes back: what the pool holds as assigned is in somebody's    *)
(* use.  Only an element the guest freed is dropped without a free.        *)
NothingLeaks == ~loaded => Covered(heap.journal) = UNION InUse

-----------------------------------------------------------------------------
(* "The heap is restored from its own checkpoint, so the pool knows which  *)
(* allocation each live element belongs to": after a load, too, an element *)
(* is only dropped without a free when the guest has freed it.             *)
NothingLeaksAfterLoad == Covered(heap.journal) = UNION InUse
=============================================================================
