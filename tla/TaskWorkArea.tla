---------------------------- MODULE TaskWorkArea ----------------------------
(***************************************************************************)
(* Disk sectors for tasks and for swap areas (TaskWorkArea.h,              *)
(* As36TaskCreate.cpp 640-864, As36Storage.cpp 1509-1742).                 *)
(*                                                                         *)
(* SVC 33 and SVC 34 hand out and take back sectors of the extents that    *)
(* the QH blocks on queue header 46 describe; a place in an extent is a    *)
(* relative address, the extent's base identifier and a displacement.      *)
(* SVC 51 reads and writes the sectors of a relative address.  Swap areas  *)
(* come from a list of the emulator's own.                                 *)
(*                                                                         *)
(* A free run is a record of where it starts and how long it is.  A chain  *)
(* is a function from the places of Extents to sequences of free runs, as  *)
(* they hang off each QH block; a list is the swap allocator's sequence.   *)
(* What is asserted holds of every chain and list that any sequence of     *)
(* calls leads to, the guest giving back only what it was given.           *)
(***************************************************************************)
EXTENDS Integers, Sequences, FiniteSets, SequencesExt, FiniteSetsExt

CONSTANTS
    Extents,        \* a sequence of [base, first sector, sectors]
    VolumeSectors,  \* the sectors of the volume
    SwapSectors,    \* the length of the swap allocator's extent
    Rounds          \* bound: calls in a row, enough to reach every chain

FirstReservedBase == 254

(* The QH block that ends the chain, base 255, has no sectors and is never *)
(* resolved: it is left out.                                               *)
ASSUME TaskWorkAreaAssumption ==
    /\ \A h \in DOMAIN Extents :
          /\ Extents[h].base \in 0 .. FirstReservedBase
          /\ Extents[h].first \in Nat \ {0} /\ Extents[h].sectors \in 1 .. 65535
          /\ Extents[h].first + Extents[h].sectors - 2 < VolumeSectors
          /\ \A i \in 1 .. (h - 1) :
                /\ Extents[i].base < Extents[h].base
                /\ Extents[i].first + Extents[i].sectors <= Extents[h].first
    /\ VolumeSectors \in Nat /\ SwapSectors \in Nat /\ Rounds \in Nat

FreeRun(at, n) == [at |-> at, sectors |-> n]

After(r) == r.at + r.sectors

SectorsOf(r) == r.at .. (After(r) - 1)

AllSectors(runs) == UNION {SectorsOf(runs[i]) : i \in DOMAIN runs}

-----------------------------------------------------------------------------
(* The chains of the QH blocks.                                            *)

(* The walk stops at the first reserved base.                              *)
Ordinary == {h \in DOMAIN Extents : \A g \in 1 .. h : Extents[g].base < FirstReservedBase}

Roomy(runs, n) == {i \in DOMAIN runs : runs[i].sectors >= n}

(* The first extent with room, and the smallest run in it, the first of    *)
(* equals.                                                                 *)
WinningExtents(chain, n) ==
    {h \in Ordinary : /\ Roomy(chain[h], n) # {}
                      /\ \A g \in 1 .. (h - 1) : Roomy(chain[g], n) = {}}

BestRun(runs, n) ==
    CHOOSE i \in Roomy(runs, n) :
        \A j \in Roomy(runs, n) :
            runs[i].sectors < runs[j].sectors
            \/ (runs[i].sectors = runs[j].sectors /\ i <= j)

(* A refused request gives nothing.                                        *)
Refusal(chain) == [given |-> {}, at |-> 0, base |-> 0, chain |-> chain]

(* The request is carved off the end of the run, which goes when nothing   *)
(* remains of it.                                                          *)
Carved(runs, i, n) ==
    IF runs[i].sectors = n THEN RemoveAt(runs, i)
    ELSE [runs EXCEPT ![i] = FreeRun(runs[i].at, runs[i].sectors - n)]

(* Fault: the run keeps its front, and the front is given.                 *)
AllocateWorkArea_Front(chain, n) ==
    IF WinningExtents(chain, n) = {} THEN Refusal(chain)
    ELSE LET h == Min(WinningExtents(chain, n))
             i == BestRun(chain[h], n)
         IN  [given |-> {h}, base |-> Extents[h].base, at |-> chain[h][i].at,
              chain |-> [chain EXCEPT ![h] = Carved(chain[h], i, n)]]

(* The answer is one number, and 0 says that there was no room.            *)
Answered(h, at) == IF Extents[h].base = 0 /\ at = 0 THEN {} ELSE {h}

(* SVC 33: the extent that gives, the relative address, and the chain.     *)
AllocateWorkArea(chain, n) ==
    IF WinningExtents(chain, n) = {} THEN Refusal(chain)
    ELSE LET h == Min(WinningExtents(chain, n))
             i == BestRun(chain[h], n)
         IN  [given |-> Answered(h, After(chain[h][i]) - n), base |-> Extents[h].base,
              at |-> After(chain[h][i]) - n,
              chain |-> [chain EXCEPT ![h] = Carved(chain[h], i, n)]]

(* The QH block that a base identifier names.                              *)
HeaderOf(base) == {h \in DOMAIN Extents : Extents[h].base = base}

(* The disk sector, from 1, of a relative address, or none.                *)
Resolved(base, at) ==
    {Extents[h].first + at : h \in {g \in HeaderOf(base) : at < Extents[g].sectors}}

(* NuTwaClearAction: what is zeroed, sectors from 0, or none if refused.   *)
Cleared(base, at, n) ==
    UNION {(s - 1) .. (s + n - 2) : s \in {r \in Resolved(base, at) : n > 0 /\ r - 1 + n <= VolumeSectors}}

(* SVC 51 to a relative address: the sectors that it reads or writes.      *)
Accessed(base, at, skip, n) ==
    UNION {(s + skip - 1) .. (s + skip + n - 2) :
              s \in {r \in Resolved(base, at) : r + skip - 1 + n <= VolumeSectors}}

(* A freed run joins the one it follows and the one that follows it; with  *)
(* neither it becomes the first of the chain.                              *)
Joined(runs, r) ==
    LET before == {i \in DOMAIN runs : After(runs[i]) = r.at}
        after  == {i \in DOMAIN runs : runs[i].at = After(r)}
        Grown(i, n) == [runs EXCEPT ![i].sectors = @ + n]
    IN  CASE before # {} /\ after # {} ->
               RemoveAt(Grown(Max(before), r.sectors + runs[Max(after)].sectors), Max(after))
          [] before # {} /\ after = {} -> Grown(Max(before), r.sectors)
          [] before = {} /\ after # {} ->
               [runs EXCEPT ![Max(after)] = FreeRun(r.at, r.sectors + @.sectors)]
          [] OTHER -> <<r>> \o runs

(* SVC 34: the sectors are cleared, and the run is chained.                *)
FreeWorkArea(chain, base, at, n) ==
    IF HeaderOf(base) = {} \/ Cleared(base, at, n) = {} THEN chain
    ELSE [chain EXCEPT ![Min(HeaderOf(base))] = Joined(@, FreeRun(at, n))]

(* ensureTaskWorkArea: the extents csipl makes are free as a whole.        *)
WholeChain == [h \in DOMAIN Extents |-> <<FreeRun(0, Extents[h].sectors)>>]

-----------------------------------------------------------------------------
(* The swap allocator: first fit, sorted, its neighbours merged.           *)

SwapAllocate(list, n) ==
    IF n <= 0 \/ Roomy(list, n) = {} THEN [given |-> {}, list |-> list]
    ELSE LET i == Min(Roomy(list, n))
         IN  [given |-> {list[i].at},
              list |-> IF list[i].sectors = n THEN RemoveAt(list, i)
                       ELSE [list EXCEPT ![i] = FreeRun(After(FreeRun(list[i].at, n)),
                                                        list[i].sectors - n)]]

Merge(list, r) ==
    IF list # <<>> /\ After(Last(list)) = r.at
    THEN Append(Front(list), FreeRun(Last(list).at, Last(list).sectors + r.sectors))
    ELSE Append(list, r)

SwapFree(list, at, n) ==
    IF n <= 0 \/ at < 0 THEN list
    ELSE FoldLeft(Merge, <<>>,
                  InsertAt(list, 1 + Cardinality({i \in DOMAIN list : list[i].at < at}), FreeRun(at, n)))

(* A checkpoint keeps the list as numbers, two to a run; an odd number of  *)
(* them is refused.                                                        *)
CaptureSwap(list) == FoldLeft(LAMBDA v, r : v \o <<r.at, r.sectors>>, <<>>, list)

RestoreSwap(v) ==
    IF Len(v) % 2 = 1 THEN {}
    ELSE {[i \in 1 .. (Len(v) \div 2) |-> FreeRun(v[2 * i - 1], v[2 * i])]}

(* The sectors of a region's or a work space's swap area, in a halfword.   *)
SwapAreaSectors(pages) == (((pages * 8) % 65536) + 2)

-----------------------------------------------------------------------------
(* All chains and lists that calls lead to.                                *)

Allocated(runs, n) == (0 .. (n - 1)) \ AllSectors(runs)

(* The runs of taken sectors that a caller may give back, whole or a part. *)
TakenRuns(runs, n) ==
    {r \in [at : 0 .. (n - 1), sectors : 1 .. n] : SectorsOf(r) \subseteq Allocated(runs, n)}

ChainsAfter(chain) ==
    {AllocateWorkArea(chain, n).chain : n \in 1 .. Max({Extents[h].sectors : h \in DOMAIN Extents})}
    \cup UNION {{FreeWorkArea(chain, Extents[h].base, r.at, r.sectors) :
                    r \in TakenRuns(chain[h], Extents[h].sectors)} : h \in DOMAIN Extents}

ListsAfter(list) ==
    {SwapAllocate(list, n).list : n \in 1 .. SwapSectors}
    \cup {SwapFree(list, r.at, r.sectors) : r \in TakenRuns(list, SwapSectors)}

(* What Rounds calls lead to, and what the last of them led to first.      *)
Reachable(start, Step(_)) ==
    FoldLeft(LAMBDA found, k :
                 LET new == (UNION {Step(x) : x \in found.last}) \ found.all
                 IN  [all |-> found.all \cup new, last |-> new],
             [all |-> {start}, last |-> {start}], [k \in 1 .. Rounds |-> k])

Chains == Reachable(WholeChain, ChainsAfter)

Lists == Reachable(<<FreeRun(0, SwapSectors)>>, ListsAfter)

(* Free runs hold sectors of their own, and no two abut.                   *)
Coalesced(runs, n) ==
    /\ \A i \in DOMAIN runs : runs[i].sectors > 0 /\ SectorsOf(runs[i]) \subseteq 0 .. (n - 1)
    /\ \A i, j \in DOMAIN runs : i # j =>
          SectorsOf(runs[i]) \cap SectorsOf(runs[j]) = {} /\ After(runs[i]) # runs[j].at

(* An area is given if an extent below the reserved bases has room for it: *)
(* of the first that has, from a smallest run that holds it, sectors that  *)
(* were free and now are not, and no others.                               *)
AllocationIsRight(chain, n) ==
    LET out  == AllocateWorkArea(chain, n)
        fit  == {h \in DOMAIN Extents : Extents[h].base < FirstReservedBase /\ Roomy(chain[h], n) # {}}
        area == SectorsOf(FreeRun(out.at, n))
    IN  IF fit = {} THEN out.given = {} /\ out.chain = chain
        ELSE /\ out.given = {Min(fit)} /\ out.base = Extents[Min(fit)].base
             /\ \E r \in Range(chain[Min(fit)]) :
                   /\ area \subseteq SectorsOf(r)
                   /\ \A i \in Roomy(chain[Min(fit)], n) : r.sectors <= chain[Min(fit)][i].sectors
             /\ \A h \in DOMAIN Extents :
                   AllSectors(out.chain[h]) = AllSectors(chain[h]) \ (IF h \in out.given THEN area ELSE {})

(* An area or a part of one that is given back is free again, nothing else *)
(* is, and on the disk exactly its sectors are blank: those that SVC 51    *)
(* could write while it was given.                                         *)
FreeIsRight(chain, h, r) ==
    LET base == Extents[h].base
        out  == FreeWorkArea(chain, base, r.at, r.sectors)
    IN  /\ \A g \in DOMAIN Extents :
              AllSectors(out[g]) = AllSectors(chain[g]) \cup (IF g = h THEN SectorsOf(r) ELSE {})
        /\ Cleared(base, r.at, r.sectors) = {Extents[h].first - 1 + s : s \in SectorsOf(r)}
        /\ Cleared(base, r.at, r.sectors) =
              UNION {Accessed(base, r.at, k, 1) : k \in 0 .. (r.sectors - 1)}

(* Swap areas are apart, taken from the lowest run that holds them and     *)
(* given back whole, and a checkpoint restores which are free.             *)
SwapIsRight(list) ==
    /\ Coalesced(list, SwapSectors)
    /\ \A i, j \in DOMAIN list : i < j => list[i].at < list[j].at
    /\ \A n \in 1 .. SwapSectors :
          LET out == SwapAllocate(list, n)
          IN  IF \E r \in Range(list) : r.sectors >= n
              THEN \E at \in out.given :
                      /\ SectorsOf(FreeRun(at, n)) \subseteq AllSectors(list)
                      /\ AllSectors(out.list) = AllSectors(list) \ SectorsOf(FreeRun(at, n))
              ELSE out.given = {} /\ out.list = list
    /\ \A r \in TakenRuns(list, SwapSectors) :
          AllSectors(SwapFree(list, r.at, r.sectors)) = AllSectors(list) \cup SectorsOf(r)
    /\ RestoreSwap(CaptureSwap(list)) = {list}

(* Work areas and swap areas, on every chain and list that calls lead to.  *)
WorkAreasHold ==
    /\ Chains.last = {} /\ Lists.last = {}
    /\ \A chain \in Chains.all :
          /\ \A h \in DOMAIN Extents : Coalesced(chain[h], Extents[h].sectors)
          /\ \A n \in 1 .. VolumeSectors : AllocationIsRight(chain, n)
          /\ \A h \in DOMAIN Extents :
                \A r \in TakenRuns(chain[h], Extents[h].sectors) : FreeIsRight(chain, h, r)
    /\ \A list \in Lists.all : SwapIsRight(list)
    /\ \A pages \in 1 .. (SwapSectors * 100) : SwapAreaSectors(pages) = 8 * pages + 2
=============================================================================
