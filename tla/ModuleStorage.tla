--------------------------- MODULE ModuleStorage ---------------------------
(***************************************************************************)
(* The storage that programs and work spaces are resident in               *)
(* (As36Storage.cpp, allocateModuleStorage to returnModuleStorage), a page *)
(* at a time.  moduleStorageFree_ is sorted and coalesced, so its ranges   *)
(* are the maximal runs of the pages returned; pages from `next` on were   *)
(* never assigned.                                                         *)
(***************************************************************************)
EXTENDS Naturals, FiniteSets

CONSTANT LastPage       \* kModuleStorageHigh: the pages are 1..LastPage

ASSUME LastPageAssumption == LastPage \in Nat

Pages == 1..LastPage

Arenas == [returned : SUBSET Pages, next : 1..(LastPage + 1)]

EmptyArena == [returned |-> {}, next |-> 1]

PageRange(at, n) == at..(at + n - 1)

(* The k-th lowest of a set of numbers.                                    *)
Nth(S, k) == CHOOSE p \in S : Cardinality({q \in S : q < p}) = k - 1

(* The lowest run of returned pages that is long enough begins with the    *)
(* least of these.                                                         *)
Fitting(arena, n) == {p \in arena.returned : PageRange(p, n) \subseteq arena.returned}

Least(S) == CHOOSE p \in S : \A q \in S : p <= q

Room(arena, n) == arena.next + n <= LastPage + 1

CanAllocate(arena, n) == Fitting(arena, n) # {} \/ Room(arena, n)

AllocatedAt(arena, n) ==
    IF Fitting(arena, n) # {} THEN Least(Fitting(arena, n)) ELSE arena.next

(* The arena once its n pages from p on are taken.                         *)
Take(arena, p, n) ==
    IF p = arena.next THEN [returned |-> arena.returned, next |-> p + n]
    ELSE [returned |-> arena.returned \ PageRange(p, n), next |-> arena.next]

Allocate(arena, n) == Take(arena, AllocatedAt(arena, n), n)

(* Fault: the pages past the end are taken whoever has them.               *)
Extends_Always(arena, end, extra) == end + extra <= LastPage + 1

(* An extent that ends at `end` grows where it is, into the pages never    *)
(* assigned or into a returned run that begins there.                      *)
Extends(arena, end, extra) ==
    \/ end = arena.next /\ Room(arena, extra)
    \/ PageRange(end, extra) \subseteq arena.returned

ReturnPages(arena, S) == [returned |-> arena.returned \cup S, next |-> arena.next]

(* Growing the extent [at, n] to `wanted` pages: where it is afterwards,   *)
(* and the arena; it moves when it cannot be extended.                     *)
CanGrow(arena, at, n, wanted) ==
    wanted <= n \/ Extends(arena, at + n, wanted - n) \/ CanAllocate(arena, wanted)

GrownAt(arena, at, n, wanted) ==
    IF wanted <= n \/ Extends(arena, at + n, wanted - n) THEN at
    ELSE AllocatedAt(arena, wanted)

Grown(arena, at, n, wanted) ==
    CASE wanted <= n -> arena
      [] wanted > n /\ Extends(arena, at + n, wanted - n) -> Take(arena, at + n, wanted - n)
      [] OTHER -> ReturnPages(Allocate(arena, wanted), PageRange(at, n))
=============================================================================
