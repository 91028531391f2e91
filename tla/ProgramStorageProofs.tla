----------------------- MODULE ProgramStorageProofs -----------------------
(***************************************************************************)
(* What ProgramStorage keeps whatever the tasks, the modules, the windows  *)
(* and the size of the module storage.                                     *)
(*                                                                         *)
(* Two inductive invariants.  Stored: every block is typed, the extents    *)
(* are whole, the arena is sound, and the pages of the blocks are disjoint *)
(* and are together the pages assigned.  It holds with no hypothesis, use  *)
(* counts right or wrong: a page returns with the block that had it.       *)
(* RefInv adds that the request blocks are few, that every use count is    *)
(* the number of references, that only a space in its queue is pinned,     *)
(* that what nobody refers to is in its queue, and that owners live.  The  *)
(* operators come first (ranks in a set, pages, blocks, translation        *)
(* files), then one lemma for each action; the second part starts with how *)
(* references are counted, as pairs of a place on a stack and a slot.      *)
(* The third part says which blocks keep their place (Follows) and where   *)
(* the translation files that are in use come from (Comes).                *)
(***************************************************************************)
EXTENDS ProgramStorage, FiniteSetTheorems, FunctionTheorems, SequenceTheorems,
        NaturalsInduction, WellFoundedInduction, TLAPS

(* Two sets with a one-to-one mapping between them have the same size.     *)
LEMMA SameSize ==
    ASSUME NEW S, NEW T, IsFiniteSet(S), NEW f \in [S -> T],
           \A x, y \in S : f[x] = f[y] => x = y,
           \A y \in T : \E x \in S : f[x] = y
    PROVE  IsFiniteSet(T) /\ Cardinality(T) = Cardinality(S)
<1>1. f \in Bijection(S, T)
    BY Fun_IsBij
<1> QED BY <1>1, FS_Bijection, Fun_ExistsBij

(* The elements of a finite set of numbers have the ranks from 0 up, each  *)
(* one its own.                                                            *)
LEMMA Ranks ==
    ASSUME NEW S \in SUBSET Nat, IsFiniteSet(S)
    PROVE  /\ \A p \in S : Cardinality({q \in S : q < p}) \in 0..(Cardinality(S) - 1)
           /\ \A p, r \in S : p < r =>
                 Cardinality({q \in S : q < p}) < Cardinality({q \in S : q < r})
           /\ \A k \in 0..(Cardinality(S) - 1) :
                 \E p \in S : Cardinality({q \in S : q < p}) = k
<1> DEFINE below(p) == {q \in S : q < p}
           n == Cardinality(S)
<1>n. n \in Nat
    BY FS_CardinalityType
<1>1. ASSUME NEW p \in S
      PROVE  IsFiniteSet(below(p)) /\ Cardinality(below(p)) \in 0..(n - 1)
    <2>1. below(p) \in SUBSET S /\ below(p) # S
        BY <1>1
    <2>2. IsFiniteSet(below(p)) /\ Cardinality(below(p)) <= n /\ Cardinality(below(p)) # n
        BY <2>1, FS_Subset
    <2>3. Cardinality(below(p)) \in Nat
        BY <2>2, FS_CardinalityType
    <2> QED BY <2>2, <2>3, <1>n
<1>2. ASSUME NEW p \in S, NEW r \in S, p < r
      PROVE  Cardinality(below(p)) < Cardinality(below(r))
    <2>0. \A q \in S : q < p => q < r
        <3> TAKE q \in S
        <3>1. q \in Nat /\ p \in Nat /\ r \in Nat
            BY <1>2
        <3> QED BY <3>1, <1>2
    <2>1. below(p) \in SUBSET below(r) /\ p \in below(r) /\ p \notin below(p)
        <3>1. p \in Nat
            OBVIOUS
        <3>2. ~(p < p)
            BY <3>1
        <3> QED BY <2>0, <1>2, <3>2, Zenon
    <2>2. Cardinality(below(p)) <= Cardinality(below(r)) /\ Cardinality(below(p)) # Cardinality(below(r))
        BY <2>1, <1>1, FS_Subset
    <2>3. Cardinality(below(p)) \in Nat /\ Cardinality(below(r)) \in Nat
        BY <1>1, FS_CardinalityType
    <2> QED BY <2>2, <2>3
<1>3. DEFINE rank == [p \in S |-> Cardinality(below(p))]
<1>4. rank \in [S -> 0..(n - 1)]
    BY <1>1
<1>5. \A p, r \in S : rank[p] = rank[r] => p = r
    <2> SUFFICES ASSUME NEW p \in S, NEW r \in S, p # r PROVE rank[p] # rank[r]
        OBVIOUS
    <2>1. rank[p] \in Nat /\ rank[r] \in Nat
        BY <1>4, <1>n
    <2>2. p < r \/ r < p
        OBVIOUS
    <2> QED BY <2>1, <2>2, <1>2
<1>6. rank \in Injection(S, 0..(n - 1))
    BY <1>4, <1>5, Fun_IsInj
<1>7. IsFiniteSet(0..(n - 1)) /\ Cardinality(0..(n - 1)) = n
    <2>1. n - 1 \in Int /\ 0 \in Int
        BY <1>n
    <2>2. IsFiniteSet(0..(n - 1)) /\ Cardinality(0..(n - 1)) = IF 0 > n - 1 THEN 0 ELSE (n - 1) - 0 + 1
        BY <2>1, FS_Interval, Zenon
    <2> QED BY <2>2, <1>n
<1>8. rank \in Surjection(S, 0..(n - 1))
    BY <1>6, <1>7, FS_Injection
<1>9. \A k \in 0..(n - 1) : \E p \in S : rank[p] = k
    BY <1>8, Zenon DEF Surjection
<1> QED BY <1>1, <1>2, <1>9

(* The k-th lowest is there, has its rank, and is no other one.            *)
LEMMA NthIs ==
    ASSUME NEW S \in SUBSET Nat, IsFiniteSet(S)
    PROVE  /\ \A k \in 1..Cardinality(S) : Nth(S, k) \in S
           /\ \A j, k \in 1..Cardinality(S) : Nth(S, j) = Nth(S, k) => j = k
           /\ \A p \in S : \E k \in 1..Cardinality(S) : Nth(S, k) = p
<1> DEFINE rank(p) == Cardinality({q \in S : q < p})
<1>n. Cardinality(S) \in Nat
    BY FS_CardinalityType
<1>1. ASSUME NEW k \in 1..Cardinality(S)
      PROVE  Nth(S, k) \in S /\ rank(Nth(S, k)) = k - 1
    <2>1. k - 1 \in 0..(Cardinality(S) - 1)
        BY <1>n
    <2>2. \E p \in S : rank(p) = k - 1
        BY <2>1, Ranks
    <2> QED BY <2>2 DEF Nth
<1>2. ASSUME NEW p \in S
      PROVE  \E k \in 1..Cardinality(S) : Nth(S, k) = p
    <2>1. rank(p) \in 0..(Cardinality(S) - 1)
        BY Ranks
    <2>2. rank(p) + 1 \in 1..Cardinality(S) /\ (rank(p) + 1) - 1 = rank(p)
        BY <2>1, <1>n
    <2>3. Nth(S, rank(p) + 1) \in S /\ rank(Nth(S, rank(p) + 1)) = rank(p)
        BY <2>2, <1>1
    <2>4. ~(Nth(S, rank(p) + 1) < p) /\ ~(p < Nth(S, rank(p) + 1))
        <3> DEFINE o == Nth(S, rank(p) + 1)
        <3>1. o \in S /\ rank(o) = rank(p) /\ rank(o) \in Int
            BY <2>1, <2>3
        <3> HIDE DEF o
        <3>2. o < p => rank(o) < rank(p)
            BY <3>1, Ranks
        <3>3. p < o => rank(p) < rank(o)
            BY <3>1, Ranks
        <3> QED BY <3>1, <3>2, <3>3 DEF o
    <2>5. Nth(S, rank(p) + 1) = p
        <3>1. Nth(S, rank(p) + 1) \in Nat /\ p \in Nat
            BY <2>3
        <3> HIDE DEF rank
        <3> QED BY <3>1, <2>4
    <2> QED BY <2>2, <2>5
<1>3. ASSUME NEW j \in 1..Cardinality(S), NEW k \in 1..Cardinality(S), Nth(S, j) = Nth(S, k)
      PROVE  j = k
    <2>1. rank(Nth(S, j)) = j - 1 /\ rank(Nth(S, k)) = k - 1
        BY <1>1
    <2>2. j - 1 = k - 1
        BY <2>1, <1>3, Zenon
    <2> QED BY <2>2
<1> QED BY <1>1, <1>2, <1>3

(* What a sublist is made of.                                              *)
LEMMA SublistIs ==
    ASSUME NEW E, NEW s \in Seq(E), NEW P \in SUBSET DOMAIN s
    PROVE  /\ Sublist(s, P) \in Seq(E) /\ IsFiniteSet(P)
           /\ DOMAIN Sublist(s, P) = 1..Cardinality(P)
           /\ Len(Sublist(s, P)) = Cardinality(P) /\ Cardinality(P) <= Len(s)
           /\ \A k \in 1..Cardinality(P) : Nth(P, k) \in P /\ Sublist(s, P)[k] = s[Nth(P, k)]
<1>1. IsFiniteSet(1..Len(s)) /\ Cardinality(1..Len(s)) = Len(s) /\ P \in SUBSET (1..Len(s))
    <2>1. Len(s) \in Nat /\ DOMAIN s = 1..Len(s)
        OBVIOUS
    <2>2. IsFiniteSet(1..Len(s)) /\ Cardinality(1..Len(s)) = IF 1 > Len(s) THEN 0 ELSE Len(s) - 1 + 1
        BY <2>1, FS_Interval
    <2> QED BY <2>1, <2>2
<1>2. IsFiniteSet(P) /\ Cardinality(P) <= Len(s)
    BY <1>1, FS_Subset
<1>3. Cardinality(P) \in Nat /\ P \in SUBSET Nat
    BY <1>1, <1>2, FS_CardinalityType
<1>4. \A k \in 1..Cardinality(P) : Nth(P, k) \in P
    BY <1>2, <1>3, NthIs
<1>5. \A k \in 1..Cardinality(P) : s[Nth(P, k)] \in E
    BY <1>4
<1> QED BY <1>2, <1>3, <1>4, <1>5 DEF Sublist

(***************************************************************************)
(* The module storage.                                                     *)
(***************************************************************************)

(* The pages that some block must have.                                    *)
Assigned(a) == (1..(a.next - 1)) \ a.returned

ArenaSound(a) == a \in Arenas /\ a.returned \subseteq 1..(a.next - 1)

(* The least of some pages is one of them.                                 *)
LEMMA LeastIs ==
    ASSUME NEW S \in SUBSET Nat, S # {}
    PROVE  Least(S) \in S
<1>1. \E p \in S : \A q \in S : p <= q
    <2>1. IsWellFoundedOn(OpToRel(<, Nat), Nat)
        BY NatLessThanWellFounded
    <2>2. PICK p \in S : \A q \in S : ~(<<q, p>> \in OpToRel(<, Nat))
        BY <2>1, WFMin
    <2>3. \A q \in S : ~(q < p)
        BY <2>2 DEF OpToRel
    <2>4. p \in Nat /\ \A q \in S : q \in Nat
        OBVIOUS
    <2>5. \A q \in S : p <= q
        BY <2>3, <2>4
    <2> QED BY <2>5
<1> QED BY <1>1 DEF Least

(* Pages that are returned, or the next ones never assigned, are nobody's; *)
(* taking them assigns them.                                               *)
LEMMA TakingPages ==
    ASSUME NEW a, ArenaSound(a), NEW p \in Nat, NEW n \in Nat \ {0},
           \/ p = a.next /\ Room(a, n)
           \/ PageRange(p, n) \subseteq a.returned
    PROVE  /\ p \in Pages /\ p + n - 1 \in Pages /\ PageRange(p, n) \subseteq Pages
           /\ PageRange(p, n) \cap Assigned(a) = {}
           /\ ArenaSound(Take(a, p, n))
           /\ Assigned(Take(a, p, n)) = Assigned(a) \cup PageRange(p, n)
<1>1. a.next \in 1..(LastPage + 1) /\ a.returned \in SUBSET Pages /\ LastPage \in Nat
      /\ a.returned \subseteq 1..(a.next - 1)
    BY LastPageAssumption DEF ArenaSound, Arenas
<1>2. PageRange(p, n) = {q \in Nat : p <= q /\ q <= p + n - 1}
    BY DEF PageRange
<1>3. CASE p = a.next /\ Room(a, n)
    <2>1. Take(a, p, n) = [returned |-> a.returned, next |-> p + n]
        BY <1>3 DEF Take
    <2>2. p + n <= LastPage + 1
        BY <1>3 DEF Room
    <2>3. p \in Pages /\ p + n - 1 \in Pages /\ PageRange(p, n) \subseteq Pages
        BY <1>1, <1>2, <1>3, <2>2 DEF Pages
    <2>4. PageRange(p, n) \cap Assigned(a) = {}
        BY <1>1, <1>2, <1>3 DEF Assigned
    <2>5. ArenaSound(Take(a, p, n))
        BY <1>1, <1>3, <2>1, <2>2 DEF ArenaSound, Arenas, Pages
    <2>6. Assigned(Take(a, p, n)) = Assigned(a) \cup PageRange(p, n)
        BY <1>1, <1>2, <1>3, <2>1 DEF Assigned
    <2> QED BY <2>3, <2>4, <2>5, <2>6
<1>4. CASE PageRange(p, n) \subseteq a.returned
    <2>1. p \in a.returned /\ p + n - 1 \in a.returned
        BY <1>2, <1>4
    <2>2. p # a.next
        BY <1>1, <2>1
    <2>3. Take(a, p, n) = [returned |-> a.returned \ PageRange(p, n), next |-> a.next]
        BY <2>2 DEF Take
    <2>4. p \in Pages /\ p + n - 1 \in Pages /\ PageRange(p, n) \subseteq Pages
        BY <1>1, <1>4, <2>1
    <2>5. PageRange(p, n) \cap Assigned(a) = {}
        BY <1>4 DEF Assigned
    <2>6. ArenaSound(Take(a, p, n))
        BY <1>1, <2>3 DEF ArenaSound, Arenas
    <2>7. Assigned(Take(a, p, n)) = Assigned(a) \cup PageRange(p, n)
        BY <1>1, <1>4, <2>3 DEF Assigned
    <2> QED BY <2>4, <2>5, <2>6, <2>7
<1> QED BY <1>3, <1>4

(* Allocating pages takes some that were nobody's.                         *)
LEMMA AllocatingPages ==
    ASSUME NEW a, ArenaSound(a), NEW n \in Nat \ {0}, CanAllocate(a, n)
    PROVE  LET p == AllocatedAt(a, n)
           IN  /\ p \in Pages /\ p + n - 1 \in Pages /\ PageRange(p, n) \subseteq Pages
               /\ PageRange(p, n) \cap Assigned(a) = {}
               /\ ArenaSound(Allocate(a, n))
               /\ Assigned(Allocate(a, n)) = Assigned(a) \cup PageRange(p, n)
<1> DEFINE p == AllocatedAt(a, n)
<1>1. a.next \in Nat /\ a.returned \in SUBSET Nat
    BY LastPageAssumption DEF ArenaSound, Arenas, Pages
<1>2. CASE Fitting(a, n) # {}
    <2>1. Fitting(a, n) \in SUBSET Nat
        BY <1>1 DEF Fitting
    <2>2. p \in Fitting(a, n)
        BY <1>2, <2>1, LeastIs DEF AllocatedAt
    <2>3. p \in Nat /\ PageRange(p, n) \subseteq a.returned
        BY <1>1, <2>2 DEF Fitting
    <2> HIDE DEF p
    <2> QED BY <2>3, TakingPages DEF Allocate, p
<1>3. CASE Fitting(a, n) = {}
    <2>1. p = a.next /\ Room(a, n) /\ p \in Nat
        BY <1>1, <1>3 DEF AllocatedAt, CanAllocate
    <2> HIDE DEF p
    <2> QED BY <2>1, TakingPages DEF Allocate, p
<1> QED BY <1>2, <1>3

(* What is returned is nobody's any more.                                  *)
LEMMA ReturningPages ==
    ASSUME NEW a, ArenaSound(a), NEW S \in SUBSET Assigned(a)
    PROVE  /\ ArenaSound(ReturnPages(a, S))
           /\ Assigned(ReturnPages(a, S)) = Assigned(a) \ S
<1>1. a.next \in 1..(LastPage + 1) /\ a.returned \in SUBSET Pages /\ LastPage \in Nat
      /\ a.returned \subseteq 1..(a.next - 1)
    BY LastPageAssumption DEF ArenaSound, Arenas
<1>2. S \subseteq 1..(a.next - 1) /\ S \subseteq Pages
    BY <1>1 DEF Assigned, Pages
<1>3. ReturnPages(a, S) = [returned |-> a.returned \cup S, next |-> a.next]
    BY DEF ReturnPages
<1>4. ArenaSound(ReturnPages(a, S))
    <2>1. a.returned \cup S \in SUBSET Pages /\ a.returned \cup S \subseteq 1..(a.next - 1)
        BY <1>1, <1>2
    <2>2. ReturnPages(a, S) \in Arenas
        BY <1>1, <1>3, <2>1 DEF Arenas
    <2>3. ReturnPages(a, S).returned = a.returned \cup S /\ ReturnPages(a, S).next = a.next
        BY <1>3
    <2> QED BY <2>1, <2>2, <2>3 DEF ArenaSound
<1>5. Assigned(ReturnPages(a, S)) = Assigned(a) \ S
    BY <1>3 DEF Assigned
<1> QED BY <1>4, <1>5

(* An extent that grows keeps what it had, or gives it up for others.      *)
LEMMA GrowingPages ==
    ASSUME NEW a, ArenaSound(a), NEW at \in Nat, NEW n \in Nat \ {0}, NEW wanted \in Nat,
           n <= wanted, CanGrow(a, at, n, wanted), PageRange(at, n) \subseteq Assigned(a)
    PROVE  LET p == GrownAt(a, at, n, wanted)
           IN  /\ p \in Pages /\ p + wanted - 1 \in Pages /\ PageRange(p, wanted) \subseteq Pages
               /\ PageRange(p, wanted) \cap (Assigned(a) \ PageRange(at, n)) = {}
               /\ ArenaSound(Grown(a, at, n, wanted))
               /\ Assigned(Grown(a, at, n, wanted)) =
                     (Assigned(a) \ PageRange(at, n)) \cup PageRange(p, wanted)
<1> DEFINE p == GrownAt(a, at, n, wanted)
           a2 == Grown(a, at, n, wanted)
<1>1. a.next \in 1..(LastPage + 1) /\ LastPage \in Nat
    BY LastPageAssumption DEF ArenaSound, Arenas
<1>2. at \in Assigned(a) /\ at + n - 1 \in Assigned(a)
    BY DEF PageRange
<1>3. at \in Pages /\ at + n - 1 \in Pages
    BY <1>1, <1>2 DEF Assigned, Pages
<1>4. CASE wanted <= n
    <2>1. wanted = n /\ p = at /\ a2 = a
        BY <1>4 DEF GrownAt, Grown
    <2>2. PageRange(at, n) \subseteq Pages
        BY <1>1 DEF Assigned, Pages
    <2> QED BY <1>3, <2>1, <2>2
<1>5. CASE wanted > n /\ Extends(a, at + n, wanted - n)
    <2>1. p = at /\ a2 = Take(a, at + n, wanted - n)
        BY <1>5 DEF GrownAt, Grown
    <2>2. wanted - n \in Nat \ {0} /\ at + n \in Nat
        BY <1>5
    <2>3. /\ at + n \in Pages /\ (at + n) + (wanted - n) - 1 \in Pages
          /\ PageRange(at + n, wanted - n) \subseteq Pages
          /\ PageRange(at + n, wanted - n) \cap Assigned(a) = {}
          /\ ArenaSound(a2)
          /\ Assigned(a2) = Assigned(a) \cup PageRange(at + n, wanted - n)
        BY <1>5, <2>1, <2>2, TakingPages DEF Extends
    <2>4. PageRange(at, wanted) = PageRange(at, n) \cup PageRange(at + n, wanted - n)
        BY <1>5 DEF PageRange
    <2>5. at + wanted - 1 \in Pages /\ PageRange(at, wanted) \subseteq Pages
        BY <1>1, <1>3, <2>3 DEF Pages, PageRange
    <2> QED BY <1>3, <2>1, <2>3, <2>4, <2>5
<1>6. CASE wanted > n /\ ~Extends(a, at + n, wanted - n)
    <2>1. p = AllocatedAt(a, wanted) /\ CanAllocate(a, wanted)
        BY <1>6 DEF GrownAt, CanGrow
    <2>2. a2 = ReturnPages(Allocate(a, wanted), PageRange(at, n))
        BY <1>6 DEF Grown
    <2>3. wanted \in Nat \ {0}
        BY <1>6
    <2>4. /\ p \in Pages /\ p + wanted - 1 \in Pages /\ PageRange(p, wanted) \subseteq Pages
          /\ PageRange(p, wanted) \cap Assigned(a) = {}
          /\ ArenaSound(Allocate(a, wanted))
          /\ Assigned(Allocate(a, wanted)) = Assigned(a) \cup PageRange(p, wanted)
        BY <2>1, <2>3, AllocatingPages
    <2>5. /\ ArenaSound(a2)
          /\ Assigned(a2) = Assigned(Allocate(a, wanted)) \ PageRange(at, n)
        BY <2>2, <2>4, ReturningPages
    <2> HIDE DEF p, a2
    <2>6. PageRange(p, wanted) \cap (Assigned(a) \ PageRange(at, n)) = {}
        BY <2>4
    <2>7. (Assigned(a) \cup PageRange(p, wanted)) \ PageRange(at, n)
             = (Assigned(a) \ PageRange(at, n)) \cup PageRange(p, wanted)
        BY <2>4
    <2> QED BY <2>4, <2>5, <2>6, <2>7 DEF p, a2
<1> QED BY <1>4, <1>5, <1>6

(***************************************************************************)
(* Control blocks.                                                         *)
(***************************************************************************)

LEMMA UseIs ==
    ASSUME NEW r \in Blocks, NEW n \in 0..255
    PROVE  /\ WithUse(r, n) \in Blocks
           /\ WithUse(r, n).use = n
           /\ WithUse(r, n).kind = r.kind /\ WithUse(r, n).pinned = r.pinned
           /\ WithUse(r, n).queued = r.queued /\ WithUse(r, n).owner = r.owner
           /\ WithUse(r, n).module = r.module /\ WithUse(r, n).at = r.at
           /\ WithUse(r, n).pages = r.pages /\ WithUse(r, n).tail = r.tail
           /\ WithUse(r, n).mapped = r.mapped /\ WithUse(r, n).astray = r.astray
<1>1. WithUse(r, n) \in Blocks
    BY DEF WithUse, Blocks
<1> QED BY <1>1, Zenon DEF WithUse, Blocks

LEMMA TailIs ==
    ASSUME NEW r \in Blocks, NEW p \in 0..LastPage
    PROVE  /\ WithTail(r, p) \in Blocks
           /\ WithTail(r, p).tail = p
           /\ WithTail(r, p).kind = r.kind /\ WithTail(r, p).pinned = r.pinned
           /\ WithTail(r, p).queued = r.queued /\ WithTail(r, p).owner = r.owner
           /\ WithTail(r, p).module = r.module /\ WithTail(r, p).at = r.at
           /\ WithTail(r, p).pages = r.pages /\ WithTail(r, p).use = r.use
           /\ WithTail(r, p).mapped = r.mapped /\ WithTail(r, p).astray = r.astray
<1>1. WithTail(r, p) \in Blocks
    BY DEF WithTail, Blocks
<1> QED BY <1>1, Zenon DEF WithTail, Blocks

LEMMA LetGoIs ==
    ASSUME NEW r \in Blocks
    PROVE  /\ LetGo(r) \in Blocks
           /\ LetGo(r).pinned = FALSE /\ LetGo(r).queued = FALSE /\ LetGo(r).owner = Nobody
           /\ LetGo(r).kind = r.kind /\ LetGo(r).use = r.use
           /\ LetGo(r).module = r.module /\ LetGo(r).at = r.at
           /\ LetGo(r).pages = r.pages /\ LetGo(r).tail = r.tail
           /\ LetGo(r).mapped = r.mapped /\ LetGo(r).astray = r.astray
<1>1. LetGo(r) \in Blocks
    BY DEF LetGo, Blocks
<1> QED BY <1>1, Zenon DEF LetGo, Blocks

LEMMA AddressableIs ==
    ASSUME NEW r \in Blocks
    PROVE  /\ Addressable(r) \in Blocks
           /\ Addressable(r).kind = r.kind /\ Addressable(r).pinned = r.pinned
           /\ Addressable(r).queued = r.queued /\ Addressable(r).owner = r.owner
           /\ Addressable(r).module = r.module /\ Addressable(r).at = r.at
           /\ Addressable(r).pages = r.pages /\ Addressable(r).tail = r.tail
           /\ Addressable(r).use = r.use
           /\ r.mapped => Addressable(r).mapped
           /\ r.astray => Addressable(r).astray
<1>1. CASE r.kind = "space"
    <2>1. Addressable(r) = [r EXCEPT !.mapped = TRUE]
        BY <1>1 DEF Addressable
    <2> DEFINE e == [r EXCEPT !.mapped = TRUE]
    <2>2. e \in Blocks
        BY DEF Blocks
    <2>3. e.mapped = TRUE /\ e.astray = r.astray /\ e.kind = r.kind /\ e.pinned = r.pinned
        BY <2>2, Zenon DEF Blocks
    <2>4. e.queued = r.queued /\ e.owner = r.owner /\ e.module = r.module /\ e.at = r.at
        BY <2>2, Zenon DEF Blocks
    <2>5. e.pages = r.pages /\ e.tail = r.tail /\ e.use = r.use
        BY <2>2, Zenon DEF Blocks
    <2>6. Addressable(r) = e
        BY <2>1
    <2> HIDE DEF e
    <2> QED BY <2>2, <2>3, <2>4, <2>5, <2>6
<1>2. CASE r.kind # "space"
    <2>1. Addressable(r) = [r EXCEPT !.astray = TRUE]
        BY <1>2 DEF Addressable
    <2> DEFINE e == [r EXCEPT !.astray = TRUE]
    <2>2. e \in Blocks
        BY DEF Blocks
    <2>3. e.astray = TRUE /\ e.mapped = r.mapped /\ e.kind = r.kind /\ e.pinned = r.pinned
        BY <2>2, Zenon DEF Blocks
    <2>4. e.queued = r.queued /\ e.owner = r.owner /\ e.module = r.module /\ e.at = r.at
        BY <2>2, Zenon DEF Blocks
    <2>5. e.pages = r.pages /\ e.tail = r.tail /\ e.use = r.use
        BY <2>2, Zenon DEF Blocks
    <2>6. Addressable(r) = e
        BY <2>1
    <2> HIDE DEF e
    <2> QED BY <2>2, <2>3, <2>4, <2>5, <2>6
<1> QED BY <1>1, <1>2

LEMMA EnlargedIs ==
    ASSUME NEW r \in Blocks, NEW at \in 0..LastPage, NEW elsewhere \in BOOLEAN
    PROVE  LET e == Enlarged(r, at, elsewhere)
           IN  /\ e \in Blocks
               /\ e.at = at /\ e.pages = 2 /\ e.astray = elsewhere
               /\ e.kind = r.kind /\ e.pinned = r.pinned
               /\ e.queued = r.queued /\ e.owner = r.owner
               /\ e.module = r.module /\ e.tail = r.tail
               /\ e.use = r.use /\ e.mapped = r.mapped
<1>1. Enlarged(r, at, elsewhere) \in Blocks
    <2>1. \A n \in 0..2 : [r EXCEPT !.at = at, !.pages = n, !.astray = elsewhere] \in Blocks
        BY DEF Blocks
    <2>2. 2 \in 0..2
        OBVIOUS
    <2> QED BY <2>1, <2>2, Zenon DEF Enlarged
<1> QED BY <1>1, Zenon DEF Enlarged, Blocks

LEMMA NoBlockIs ==
    /\ NoBlock \in Blocks
    /\ NoBlock.kind = "none" /\ NoBlock.use = 0 /\ NoBlock.pinned = FALSE
    /\ NoBlock.queued = FALSE /\ NoBlock.owner = Nobody /\ NoBlock.module = Nucleus
    /\ NoBlock.at = 0 /\ NoBlock.pages = 0 /\ NoBlock.tail = 0 /\ NoBlock.mapped = FALSE
    /\ NoBlock.astray = FALSE
    /\ Occupied(NoBlock) = {}
<1>1. /\ NoBlock \in Blocks
      /\ NoBlock.kind = "none" /\ NoBlock.use = 0 /\ NoBlock.pinned = FALSE
      /\ NoBlock.queued = FALSE /\ NoBlock.owner = Nobody /\ NoBlock.module = Nucleus
      /\ NoBlock.at = 0 /\ NoBlock.pages = 0 /\ NoBlock.tail = 0 /\ NoBlock.mapped = FALSE
      /\ NoBlock.astray = FALSE
    BY LastPageAssumption DEF NoBlock, Blocks, Programs
<1>2. PageRange(0, 0) = {}
    BY DEF PageRange
<1> QED BY <1>1, <1>2 DEF Occupied

LEMMA NewProgramTyped ==
    ASSUME NEW m \in Modules \cup {Region}, NEW at \in 0..LastPage, NEW n \in 0..2
    PROVE  NewProgram(m, at, n) \in Blocks
<1>1. /\ (m \in Modules \ NotHashed) \in BOOLEAN
      /\ (IF m = Region THEN 1 ELSE 0) \in 0..255
      /\ m \in Programs
    BY DEF Programs
<1> QED BY <1>1, LastPageAssumption DEF NewProgram, Blocks

LEMMA NewSpaceTyped ==
    ASSUME NEW form \in SpaceForms, NEW t \in Tasks
    PROVE  NewSpace(form, t) \in Blocks
<1>1. /\ form.pinned \in BOOLEAN /\ form.mapped \in BOOLEAN
      /\ (IF form.system THEN Nobody ELSE t) \in Tasks \cup {Nobody}
      /\ Nucleus \in Programs
    BY ProgramsAssumption DEF Programs
<1> QED BY <1>1, LastPageAssumption DEF NewSpace, Blocks

(***************************************************************************)
(* Who has which page.                                                     *)
(***************************************************************************)

(* An extent is whole, and apart from the page beyond it.                  *)
ExtentSound(r) ==
    r.pages > 0 => /\ r.at \in Pages /\ r.at + r.pages - 1 \in Pages
                   /\ r.tail \notin PageRange(r.at, r.pages)

BlocksSound(b) ==
    /\ b \in [Cells -> Blocks]
    /\ \A c \in Cells : ExtentSound(b[c])
    /\ \A c \in Cells : b[c].kind = "none" => b[c] = NoBlock

(* Pages are of one block at most, and those that some block has are the   *)
(* ones assigned.                                                          *)
Apart(b, a) ==
    /\ \A c, d \in Cells : c # d => Occupied(b[c]) \cap Occupied(b[d]) = {}
    /\ UNION {Occupied(b[c]) : c \in Cells} = Assigned(a)

Stored(b, a) == BlocksSound(b) /\ ArenaSound(a) /\ Apart(b, a)

LEMMA OccupiedIs ==
    ASSUME NEW r \in Blocks, ExtentSound(r)
    PROVE  Occupied(r) = PageRange(r.at, r.pages) \cup ({r.tail} \ {0})
<1>1. PageRange(r.at, r.pages) \subseteq Pages
    BY LastPageAssumption DEF ExtentSound, PageRange, Pages, Blocks
<1> QED BY <1>1 DEF Occupied

LEMMA NoBlockSound == ExtentSound(NoBlock)
BY NoBlockIs DEF ExtentSound

(* One block changes, and its pages with it.                               *)
LEMMA Replacing ==
    ASSUME NEW b, NEW a, Stored(b, a), NEW c \in Cells,
           NEW r \in Blocks, ExtentSound(r), r.kind = "none" => r = NoBlock,
           NEW a2, ArenaSound(a2),
           Occupied(r) \cap (Assigned(a) \ Occupied(b[c])) = {},
           Assigned(a2) = (Assigned(a) \ Occupied(b[c])) \cup Occupied(r)
    PROVE  Stored([b EXCEPT ![c] = r], a2)
<1> DEFINE n == [b EXCEPT ![c] = r]
<1>1. b \in [Cells -> Blocks]
    BY DEF Stored, BlocksSound
<1>2. n \in [Cells -> Blocks] /\ n[c] = r /\ \A d \in Cells : d # c => n[d] = b[d]
    BY <1>1
<1> HIDE DEF n
<1>3. BlocksSound(n)
    BY <1>2 DEF BlocksSound, Stored
<1>4. ASSUME NEW d \in Cells, d # c
      PROVE  Occupied(n[d]) = Occupied(b[d]) /\ Occupied(n[d]) \subseteq Assigned(a) \ Occupied(b[c])
    BY <1>2, <1>4 DEF Stored, Apart
<1>5. ASSUME NEW d \in Cells, NEW e \in Cells, d # e
      PROVE  Occupied(n[d]) \cap Occupied(n[e]) = {}
    <2>1. CASE d = c
        <3>1. Occupied(n[e]) \subseteq Assigned(a) \ Occupied(b[c])
            BY <1>4, <1>5, <2>1
        <3> QED BY <2>1, <3>1, <1>2
    <2>2. CASE e = c
        <3>1. Occupied(n[d]) \subseteq Assigned(a) \ Occupied(b[c])
            BY <1>4, <1>5, <2>2
        <3> QED BY <2>2, <3>1, <1>2
    <2>3. CASE d # c /\ e # c
        BY <2>3, <1>4, <1>5 DEF Stored, Apart
    <2> QED BY <2>1, <2>2, <2>3
<1>6. UNION {Occupied(n[d]) : d \in Cells} = Assigned(a2)
    <2>1. ASSUME NEW x \in Assigned(a2) PROVE \E d \in Cells : x \in Occupied(n[d])
        <3>1. CASE x \in Occupied(r)
            BY <3>1, <1>2
        <3>2. CASE x \in Assigned(a) \ Occupied(b[c])
            <4>1. PICK d \in Cells : x \in Occupied(b[d])
                BY <3>2 DEF Stored, Apart
            <4>2. d # c
                BY <3>2, <4>1
            <4> QED BY <4>1, <4>2, <1>4
        <3> QED BY <3>1, <3>2
    <2>2. ASSUME NEW d \in Cells PROVE Occupied(n[d]) \subseteq Assigned(a2)
        <3>1. CASE d = c
            BY <3>1, <1>2
        <3>2. CASE d # c
            BY <3>2, <1>4
        <3> QED BY <3>1, <3>2
    <2> QED BY <2>1, <2>2
<1>7. Stored(n, a2)
    BY <1>3, <1>5, <1>6 DEF Stored, Apart
<1> QED BY <1>7 DEF n

(* Some blocks go, and their pages with them; the others keep theirs.      *)
LEMMA Vacating ==
    ASSUME NEW b, NEW a, Stored(b, a), NEW G \in SUBSET Cells,
           NEW n, BlocksSound(n),
           \A c \in G : Occupied(n[c]) = {},
           \A c \in Cells \ G : Occupied(n[c]) = Occupied(b[c])
    PROVE  Stored(n, ReturnPages(a, Vacated(b, G)))
<1>1. Vacated(b, G) \in SUBSET Assigned(a)
    BY DEF Stored, Apart, Vacated
<1>2. /\ ArenaSound(ReturnPages(a, Vacated(b, G)))
      /\ Assigned(ReturnPages(a, Vacated(b, G))) = Assigned(a) \ Vacated(b, G)
    BY <1>1, ReturningPages DEF Stored
<1>3. ASSUME NEW d \in Cells, NEW e \in Cells, d # e
      PROVE  Occupied(n[d]) \cap Occupied(n[e]) = {}
    BY <1>3 DEF Stored, Apart
<1>4. UNION {Occupied(n[d]) : d \in Cells} = Assigned(a) \ Vacated(b, G)
    <2>1. ASSUME NEW x \in Assigned(a) \ Vacated(b, G) PROVE \E d \in Cells : x \in Occupied(n[d])
        <3>1. PICK d \in Cells : x \in Occupied(b[d])
            BY <2>1 DEF Stored, Apart
        <3>2. d \notin G
            BY <2>1, <3>1 DEF Vacated
        <3> QED BY <3>1, <3>2
    <2>2. ASSUME NEW d \in Cells, NEW x \in Occupied(n[d])
          PROVE  x \in Assigned(a) /\ x \notin Vacated(b, G)
        <3>1. d \notin G /\ x \in Occupied(b[d])
            BY <2>2
        <3>2. x \in Assigned(a)
            BY <3>1 DEF Stored, Apart
        <3>3. ASSUME NEW e \in G PROVE x \notin Occupied(b[e])
            BY <3>1 DEF Stored, Apart
        <3> QED BY <3>2, <3>3 DEF Vacated
    <2> QED BY <2>1, <2>2
<1> QED BY <1>2, <1>3, <1>4 DEF Stored, Apart

(* No block has other pages than before.                                   *)
LEMMA Keeping ==
    ASSUME NEW b, NEW a, Stored(b, a), NEW n, BlocksSound(n),
           \A c \in Cells : Occupied(n[c]) = Occupied(b[c])
    PROVE  Stored(n, a)
<1>1. UNION {Occupied(n[d]) : d \in Cells} = UNION {Occupied(b[d]) : d \in Cells}
    OBVIOUS
<1> QED BY <1>1 DEF Stored, Apart

(* Counting references moves no page but those of the blocks deleted.      *)
LEMMA CountedIs ==
    ASSUME NEW b, BlocksSound(b), NEW gain \in [Cells -> Nat], NEW lose \in [Cells -> Nat]
    PROVE  LET n == Counted(b, gain, lose)
               gone == Deleted(b, gain, lose)
           IN  /\ BlocksSound(n)
               /\ gone \in SUBSET Cells
               /\ \A c \in gone : n[c] = NoBlock /\ lose[c] > 0
               /\ \A c \in Cells \ gone :
                     /\ Occupied(n[c]) = Occupied(b[c])
                     /\ n[c].kind = b[c].kind /\ n[c].pinned = b[c].pinned
                     /\ n[c].queued = b[c].queued /\ n[c].owner = b[c].owner
                     /\ n[c].module = b[c].module /\ n[c].at = b[c].at
                     /\ n[c].pages = b[c].pages /\ n[c].tail = b[c].tail
                     /\ n[c].mapped = b[c].mapped /\ n[c].astray = b[c].astray
                     /\ b[c].kind # "none" =>
                           n[c].use = (b[c].use + gain[c] - lose[c]) % 256
<1> DEFINE n == Counted(b, gain, lose)
           gone == Deleted(b, gain, lose)
<1>1. gone \in SUBSET Cells /\ \A c \in gone : lose[c] > 0 /\ n[c] = NoBlock
    BY DEF Deleted, Counted
<1>2. ASSUME NEW c \in Cells \ gone, b[c].kind = "none"
      PROVE  n[c] = b[c]
    BY <1>2 DEF Counted, BlocksSound
<1>3. ASSUME NEW c \in Cells \ gone, b[c].kind # "none"
      PROVE  /\ UseAfter(b, c, gain, lose) \in 0..255
             /\ n[c] = WithUse(b[c], UseAfter(b, c, gain, lose))
    <2>1. b[c].use \in 0..255 /\ gain[c] \in Nat /\ lose[c] \in Nat
        BY DEF BlocksSound, Blocks
    <2>2. b[c].use + gain[c] - lose[c] \in Int
        BY <2>1
    <2>3. UseAfter(b, c, gain, lose) \in 0..255
        BY <2>2 DEF UseAfter
    <2> QED BY <1>3, <2>3 DEF Counted
<1>4. ASSUME NEW c \in Cells \ gone
      PROVE  /\ n[c] \in Blocks
             /\ n[c].kind = b[c].kind /\ n[c].pinned = b[c].pinned
             /\ n[c].queued = b[c].queued /\ n[c].owner = b[c].owner
             /\ n[c].module = b[c].module /\ n[c].at = b[c].at
             /\ n[c].pages = b[c].pages /\ n[c].tail = b[c].tail
             /\ n[c].mapped = b[c].mapped /\ n[c].astray = b[c].astray
             /\ b[c].kind # "none" => n[c].use = (b[c].use + gain[c] - lose[c]) % 256
    <2>1. b[c] \in Blocks
        BY DEF BlocksSound
    <2>2. CASE b[c].kind = "none"
        BY <2>1, <2>2, <1>2
    <2>3. CASE b[c].kind # "none"
        <3> DEFINE u == UseAfter(b, c, gain, lose)
        <3>1. u \in 0..255 /\ n[c] = WithUse(b[c], u)
            BY <2>3, <1>3
        <3>2. u = (b[c].use + gain[c] - lose[c]) % 256
            BY DEF UseAfter
        <3> DEFINE r == WithUse(b[c], u)
        <3> HIDE DEF u, n
        <3>3. /\ r \in Blocks /\ r.use = u
              /\ r.kind = b[c].kind /\ r.pinned = b[c].pinned
              /\ r.queued = b[c].queued /\ r.owner = b[c].owner
              /\ r.module = b[c].module /\ r.at = b[c].at
              /\ r.pages = b[c].pages /\ r.tail = b[c].tail
              /\ r.mapped = b[c].mapped /\ r.astray = b[c].astray
            <4>1. /\ r \in Blocks /\ r.use = u
                  /\ r.kind = b[c].kind /\ r.pinned = b[c].pinned
                  /\ r.queued = b[c].queued /\ r.owner = b[c].owner
                BY <2>1, <3>1, UseIs
            <4>2. /\ r.module = b[c].module /\ r.at = b[c].at
                  /\ r.pages = b[c].pages /\ r.tail = b[c].tail
                BY <2>1, <3>1, UseIs
            <4>3. r.mapped = b[c].mapped /\ r.astray = b[c].astray
                BY <2>1, <3>1, UseIs
            <4> QED BY <4>1, <4>2, <4>3
        <3>4. n[c] = r
            BY <3>1
        <3> HIDE DEF r
        <3> QED BY <3>2, <3>3, <3>4
    <2> QED BY <2>2, <2>3
<1>5. ASSUME NEW c \in Cells \ gone PROVE Occupied(n[c]) = Occupied(b[c])
    <2> HIDE DEF n, gone
    <2> QED BY <1>4 DEF Occupied
<1>6. BlocksSound(n)
    <2>1. n \in [Cells -> Blocks]
        <3>1. \A c \in Cells : n[c] \in Blocks
            BY <1>1, <1>4, NoBlockIs
        <3>2. n = [c \in Cells |-> n[c]]
            BY DEF Counted
        <3> QED BY <3>1, <3>2, Zenon
    <2> HIDE DEF n, gone
    <2>2. ASSUME NEW c \in Cells PROVE ExtentSound(n[c])
        <3>1. CASE c \in gone
            BY <3>1, <1>1, NoBlockSound
        <3>2. CASE c \notin gone
            BY <3>2, <1>4 DEF ExtentSound, BlocksSound
        <3> QED BY <3>1, <3>2
    <2>3. ASSUME NEW c \in Cells, n[c].kind = "none" PROVE n[c] = NoBlock
        <3>1. CASE c \in gone
            BY <3>1, <1>1
        <3>2. CASE c \notin gone
            BY <3>2, <2>3, <1>2, <1>4 DEF BlocksSound
        <3> QED BY <3>1, <3>2
    <2> QED BY <2>1, <2>2, <2>3 DEF BlocksSound
<1> HIDE DEF n, gone
<1> QED BY <1>1, <1>4, <1>5, <1>6 DEF n, gone

LEMMA Counting ==
    ASSUME NEW b, NEW a, Stored(b, a), NEW gain \in [Cells -> Nat], NEW lose \in [Cells -> Nat]
    PROVE  Stored(Counted(b, gain, lose), ReturnPages(a, Vacated(b, Deleted(b, gain, lose))))
<1>1. BlocksSound(b)
    BY DEF Stored
<1> DEFINE n == Counted(b, gain, lose)
           gone == Deleted(b, gain, lose)
<1>2. /\ BlocksSound(n) /\ gone \in SUBSET Cells
      /\ \A c \in gone : n[c] = NoBlock
      /\ \A c \in Cells \ gone : Occupied(n[c]) = Occupied(b[c])
    BY <1>1, CountedIs
<1> HIDE DEF n, gone
<1>3. \A c \in gone : Occupied(n[c]) = {}
    BY <1>2, NoBlockIs
<1>4. Stored(n, ReturnPages(a, Vacated(b, gone)))
    BY <1>2, <1>3, Vacating
<1> QED BY <1>4 DEF n, gone

LEMMA Gaining ==
    ASSUME NEW b, NEW a, Stored(b, a), NEW gain \in [Cells -> Nat]
    PROVE  /\ Deleted(b, gain, NoReference) = {}
           /\ Stored(Counted(b, gain, NoReference), a)
<1>1. BlocksSound(b) /\ NoReference \in [Cells -> Nat]
    BY DEF Stored, NoReference
<1>2. Deleted(b, gain, NoReference) = {}
    BY DEF Deleted, NoReference
<1> QED BY <1>1, <1>2, CountedIs, Keeping

(***************************************************************************)
(* Request blocks, and the pages brought in for one.                       *)
(***************************************************************************)

(* Nothing is said of the window of a program that was deleted.            *)
AnyEntries ==
    [window : Windows \cup {LoadWindow[Nucleus]}, cell : Cells, pages : 1..2]

AnyFrames ==
    [program : Cells \cup {Nucleus}, map : {m \in Seq(AnyEntries) : Len(m) <= MaxEntries},
     image : SUBSET (Cells \X {0, 1} \X Pages), stale : BOOLEAN]

LEMMA OwnEntryTyped ==
    ASSUME NEW b \in [Cells -> Blocks], NEW c \in Cells
    PROVE  OwnEntry(b, c) \in AnyEntries
<1>1. b[c].module \in Modules \cup {Region, Nucleus}
    BY DEF Blocks, Programs
<1>2. LoadWindow[b[c].module] \in Windows \cup {LoadWindow[Nucleus]}
    BY <1>1, ProgramsAssumption
<1> QED BY <1>2 DEF OwnEntry, AnyEntries

LEMMA ObjectsTyped ==
    ASSUME NEW b \in [Cells -> Blocks], NEW f \in AnyFrames
    PROVE  Objects(b, f) \in Seq(AnyEntries)
<1>1. f.map \in Seq(AnyEntries) /\ f.program \in Cells \cup {Nucleus}
    BY DEF AnyFrames
<1>2. CASE f.program = Nucleus \/ b[f.program].module \in InPlace
    BY <1>1, <1>2 DEF Objects
<1>3. CASE ~(f.program = Nucleus \/ b[f.program].module \in InPlace)
    <2>1. OwnEntry(b, f.program) \in AnyEntries
        BY <1>1, <1>3, OwnEntryTyped
    <2> QED BY <1>1, <1>3, <2>1 DEF Objects
<1> QED BY <1>2, <1>3

(* Whether a block has a page in its swap area that was addressed.         *)
Addressed(r) ==
    \/ r.kind = "space" /\ r.mapped
    \/ r.kind = "program" /\ r.module = Region /\ r.pages = 1

(* The absent blocks are different ones, without a page there yet.         *)
LEMMA AbsentIs ==
    ASSUME NEW b \in [Cells -> Blocks], NEW f \in AnyFrames
    PROVE  \E n \in Nat :
              /\ DOMAIN Absent(b, f) = 1..n
              /\ \A k \in 1..n : /\ Absent(b, f)[k] \in Cells
                                 /\ b[Absent(b, f)[k]].tail = 0
                                 /\ Addressed(b[Absent(b, f)[k]])
              /\ \A j, k \in 1..n : Absent(b, f)[j] = Absent(b, f)[k] => j = k
<1> DEFINE o        == Objects(b, f)
           needs(e) == /\ b[e.cell].tail = 0
                       /\ \/ b[e.cell].kind = "space" /\ b[e.cell].mapped
                          \/ /\ b[e.cell].kind = "program" /\ b[e.cell].module = Region
                             /\ b[e.cell].pages = 1 /\ ~b[e.cell].astray /\ e.pages = 2
           first(i) == \A j \in 1..(i - 1) : needs(o[j]) => o[j].cell # o[i].cell
           new      == {i \in DOMAIN o : needs(o[i]) /\ first(i)}
<1>1. Absent(b, f) = [k \in 1..Cardinality(new) |-> o[Nth(new, k)].cell]
    BY Zenon DEF Absent
<1>2. o \in Seq(AnyEntries)
    BY ObjectsTyped
<1>3. Len(o) \in Nat /\ DOMAIN o = 1..Len(o)
    BY <1>2
<1>4. new \in SUBSET (1..Len(o)) /\ IsFiniteSet(1..Len(o)) /\ new \in SUBSET Nat
    BY <1>3, FS_Interval
<1>5. IsFiniteSet(new) /\ Cardinality(new) \in Nat
    BY <1>4, FS_Subset, FS_CardinalityType
<1>6. /\ \A k \in 1..Cardinality(new) : Nth(new, k) \in new
      /\ \A j, k \in 1..Cardinality(new) : Nth(new, j) = Nth(new, k) => j = k
    BY <1>4, <1>5, NthIs
<1>7. ASSUME NEW i \in new PROVE o[i].cell \in Cells /\ b[o[i].cell].tail = 0 /\ Addressed(b[o[i].cell])
    <2>1. o[i] \in AnyEntries
        <3> HIDE DEF o, new
        <3>1. i \in 1..Len(o)
            BY <1>4
        <3> QED BY <1>2, <1>3, <3>1
    <2>2. needs(o[i])
        OBVIOUS
    <2> HIDE DEF o, new
    <2> QED BY <2>1, <2>2 DEF AnyEntries, Addressed
<1>8. ASSUME NEW i \in new, NEW j \in new, i < j PROVE o[i].cell # o[j].cell
    <2>1. i \in 1..(j - 1)
        <3>1. i \in 1..Len(o) /\ j \in 1..Len(o) /\ Len(o) \in Nat
            BY <1>3, <1>4
        <3> HIDE DEF new, o
        <3> QED BY <3>1, <1>8
    <2>2. needs(o[i]) /\ first(j)
        OBVIOUS
    <2> HIDE DEF o, new, needs
    <2> QED BY <2>1, <2>2
<1>9. ASSUME NEW i \in new, NEW j \in new, o[i].cell = o[j].cell PROVE i = j
    <2>1. i \in Nat /\ j \in Nat
        BY <1>4
    <2>2. ~(i < j) /\ ~(j < i)
        BY <1>8, <1>9
    <2> QED BY <2>1, <2>2
<1> HIDE DEF o, new
<1>10. ASSUME NEW j \in 1..Cardinality(new), NEW k \in 1..Cardinality(new),
              Absent(b, f)[j] = Absent(b, f)[k]
       PROVE  j = k
    <2>1. o[Nth(new, j)].cell = o[Nth(new, k)].cell
        BY <1>1, <1>10
    <2>2. Nth(new, j) = Nth(new, k)
        BY <2>1, <1>6, <1>9
    <2> QED BY <2>2, <1>6
<1> QED BY <1>1, <1>5, <1>6, <1>7, <1>10

LEMMA PagesFinite == IsFiniteSet(Pages) /\ Pages \in SUBSET Nat
BY LastPageAssumption, FS_Interval DEF Pages

(* Pages allocated singly are nobody's, and different ones.                *)
LEMMA SingleIs ==
    ASSUME NEW a, ArenaSound(a)
    PROVE  /\ \A k \in Nat \ {0} : Single(a, k) \in 0..LastPage
           /\ \A k \in Nat \ {0} : Single(a, k) # 0 => Single(a, k) \in Pages \ Assigned(a)
           /\ \A j, k \in Nat \ {0} : Single(a, j) = Single(a, k) /\ Single(a, k) # 0 => j = k
<1> DEFINE R == Cardinality(a.returned)
           later(k) == a.next + (k - R) - 1
<1>1. a.next \in 1..(LastPage + 1) /\ a.returned \in SUBSET Pages /\ LastPage \in Nat
      /\ a.returned \subseteq 1..(a.next - 1)
    BY LastPageAssumption DEF ArenaSound, Arenas
<1>2. IsFiniteSet(a.returned) /\ a.returned \in SUBSET Nat /\ R \in Nat
    BY <1>1, PagesFinite, FS_Subset, FS_CardinalityType
<1>3. /\ \A k \in 1..R : Nth(a.returned, k) \in a.returned
      /\ \A j, k \in 1..R : Nth(a.returned, j) = Nth(a.returned, k) => j = k
    BY <1>2, NthIs
<1>4. \A k : Single(a, k) = CASE k <= R -> Nth(a.returned, k)
                              [] k > R /\ later(k) <= LastPage -> later(k)
                              [] OTHER -> 0
    BY DEF Single
<1> HIDE DEF R
<1>5. ASSUME NEW k \in Nat \ {0}, k <= R
      PROVE  Single(a, k) = Nth(a.returned, k) /\ Single(a, k) \in a.returned
    BY <1>2, <1>3, <1>4, <1>5
<1>6. ASSUME NEW k \in Nat \ {0}, k > R, later(k) <= LastPage
      PROVE  Single(a, k) = later(k) /\ Single(a, k) \in a.next..LastPage
    BY <1>1, <1>2, <1>4, <1>6
<1>7. ASSUME NEW k \in Nat \ {0}, k > R, ~(later(k) <= LastPage)
      PROVE  Single(a, k) = 0
    <2>1. ~(k <= R)
        BY <1>2, <1>7
    <2> QED BY <1>4, <1>7, <2>1
<1>8. \A k \in Nat \ {0} : k <= R \/ k > R
    BY <1>2
<1>9. ASSUME NEW k \in Nat \ {0}
      PROVE  /\ Single(a, k) \in 0..LastPage
             /\ Single(a, k) # 0 => Single(a, k) \in Pages \ Assigned(a)
    <2>1. CASE k <= R
        BY <2>1, <1>1, <1>5 DEF Pages, Assigned
    <2>2. CASE k > R /\ later(k) <= LastPage
        BY <2>2, <1>1, <1>6 DEF Pages, Assigned
    <2>3. CASE k > R /\ ~(later(k) <= LastPage)
        BY <2>3, <1>1, <1>7
    <2> QED BY <2>1, <2>2, <2>3, <1>8
<1>10. ASSUME NEW j \in Nat \ {0}, NEW k \in Nat \ {0}, Single(a, j) = Single(a, k), Single(a, k) # 0
       PROVE  j = k
    <2>1. CASE j <= R /\ k <= R
        BY <2>1, <1>3, <1>5, <1>10, <1>2
    <2>2. CASE j > R /\ k > R
        <3>1. later(j) <= LastPage /\ later(k) <= LastPage
            BY <2>2, <1>7, <1>10
        <3>2. later(j) = later(k)
            BY <2>2, <3>1, <1>6, <1>10
        <3> QED BY <3>2, <1>1, <1>2
    <2>3. CASE j <= R /\ k > R
        <3>1. later(k) <= LastPage
            BY <2>3, <1>7, <1>10
        <3>2. Single(a, j) \in a.returned /\ Single(a, k) \in a.next..LastPage
            BY <2>3, <3>1, <1>5, <1>6
        <3> QED BY <3>2, <1>1, <1>10
    <2>4. CASE j > R /\ k <= R
        <3>1. later(j) <= LastPage
            BY <2>4, <1>7, <1>10
        <3>2. Single(a, k) \in a.returned /\ Single(a, j) \in a.next..LastPage
            BY <2>4, <3>1, <1>5, <1>6
        <3> QED BY <3>2, <1>1, <1>10
    <2> QED BY <2>1, <2>2, <2>3, <2>4, <1>8
<1> QED BY <1>9, <1>10

(* Blocks that are given pages nobody had.                                 *)
LEMMA Adding ==
    ASSUME NEW b, NEW a, Stored(b, a), NEW n, BlocksSound(n), NEW a2, ArenaSound(a2),
           NEW add, \A c \in Cells : add[c] \cap Assigned(a) = {},
           \A c, d \in Cells : c # d => add[c] \cap add[d] = {},
           \A c \in Cells : Occupied(n[c]) = Occupied(b[c]) \cup add[c],
           Assigned(a2) = Assigned(a) \cup UNION {add[c] : c \in Cells}
    PROVE  Stored(n, a2)
<1>1. ASSUME NEW c \in Cells PROVE Occupied(b[c]) \subseteq Assigned(a)
    BY DEF Stored, Apart
<1>2. ASSUME NEW c \in Cells, NEW d \in Cells, c # d
      PROVE  Occupied(n[c]) \cap Occupied(n[d]) = {}
    <2>1. Occupied(b[c]) \cap Occupied(b[d]) = {}
        BY <1>2 DEF Stored, Apart
    <2>2. add[c] \cap add[d] = {} /\ add[c] \cap Assigned(a) = {} /\ add[d] \cap Assigned(a) = {}
        BY <1>2
    <2> QED BY <2>1, <2>2, <1>1
<1>3. UNION {Occupied(n[c]) : c \in Cells} = Assigned(a2)
    <2>1. ASSUME NEW c \in Cells, NEW p \in Occupied(n[c]) PROVE p \in Assigned(a2)
        <3>1. CASE p \in Occupied(b[c])
            BY <3>1, <1>1
        <3>2. CASE p \in add[c]
            BY <3>2
        <3> QED BY <3>1, <3>2
    <2>2. ASSUME NEW p \in Assigned(a2) PROVE \E c \in Cells : p \in Occupied(n[c])
        <3>1. CASE p \in Assigned(a)
            <4>1. PICK c \in Cells : p \in Occupied(b[c])
                BY <3>1 DEF Stored, Apart
            <4> QED BY <4>1
        <3>2. CASE \E c \in Cells : p \in add[c]
            BY <3>2
        <3> QED BY <3>1, <3>2
    <2> QED BY <2>1, <2>2
<1> QED BY <1>2, <1>3 DEF Stored, Apart

(* A block's page in its swap area is one more page of it.                 *)
LEMMA TailAdded ==
    ASSUME NEW r \in Blocks, ExtentSound(r), r.tail = 0,
           NEW p \in 0..LastPage, p # 0 => p \notin Occupied(r)
    PROVE  /\ ExtentSound(WithTail(r, p))
           /\ Occupied(WithTail(r, p)) = Occupied(r) \cup ({p} \ {0})
<1> DEFINE n == WithTail(r, p)
<1>1. n \in Blocks /\ n.at = r.at /\ n.pages = r.pages /\ n.tail = p
    BY TailIs
<1>2. Occupied(r) = PageRange(r.at, r.pages)
    BY OccupiedIs
<1> HIDE DEF n
<1>3. ExtentSound(n)
    <2> SUFFICES ASSUME n.pages > 0
                 PROVE  /\ n.at \in Pages /\ n.at + n.pages - 1 \in Pages
                        /\ n.tail \notin PageRange(n.at, n.pages)
        BY DEF ExtentSound
    <2>1. r.at \in Pages /\ r.at + r.pages - 1 \in Pages
        BY <1>1 DEF ExtentSound
    <2>2. 0 \notin PageRange(r.at, r.pages)
        BY <2>1, LastPageAssumption DEF PageRange, Pages
    <2> QED BY <1>1, <1>2, <2>1, <2>2
<1>4. Occupied(n) = PageRange(n.at, n.pages) \cup ({n.tail} \ {0})
    BY <1>1, <1>3, OccupiedIs
<1> QED BY <1>1, <1>2, <1>3, <1>4 DEF n

(* The arena once pages are allocated singly.                              *)
LEMMA ArenaLoadedIs ==
    ASSUME NEW b, NEW a, ArenaSound(a), NEW f, NEW n \in Nat, DOMAIN Absent(b, f) = 1..n
    PROVE  /\ ArenaSound(ArenaLoaded(b, a, f))
           /\ Assigned(ArenaLoaded(b, a, f)) =
                 Assigned(a) \cup ({Single(a, k) : k \in 1..n} \ {0})
<1> DEFINE R == Cardinality(a.returned)
           taken == {Single(a, k) : k \in 1..n} \ {0}
           fresh == {p \in taken : p >= a.next}
           room == LastPage + 1 - a.next
           m == IF n <= R THEN 0 ELSE IF n - R <= room THEN n - R ELSE room
<1>1. a.next \in 1..(LastPage + 1) /\ a.returned \in SUBSET Pages /\ LastPage \in Nat
      /\ a.returned \subseteq 1..(a.next - 1)
    BY LastPageAssumption DEF ArenaSound, Arenas
<1>2. IsFiniteSet(a.returned) /\ a.returned \in SUBSET Nat /\ R \in Nat
    BY <1>1, PagesFinite, FS_Subset, FS_CardinalityType
<1>3. \A k \in 1..R : Nth(a.returned, k) \in a.returned
    BY <1>2, NthIs
<1>4. \A k : Single(a, k) = CASE k <= R -> Nth(a.returned, k)
                              [] k > R /\ a.next + (k - R) - 1 <= LastPage -> a.next + (k - R) - 1
                              [] OTHER -> 0
    BY DEF Single
<1> HIDE DEF R
<1>5. ASSUME NEW k \in 1..n, k <= R
      PROVE  Single(a, k) \in a.returned
    BY <1>2, <1>3, <1>4, <1>5
<1>6. ASSUME NEW k \in 1..n, k > R
      PROVE  Single(a, k) = IF k - R <= room THEN a.next + (k - R) - 1 ELSE 0
    <2>1. ~(k <= R) /\ (a.next + (k - R) - 1 <= LastPage <=> k - R <= room)
        BY <1>1, <1>2, <1>6
    <2> QED BY <1>4, <1>6, <2>1
<1>7. m \in Nat /\ a.next + m \in 1..(LastPage + 1)
    BY <1>1, <1>2
<1>7a. m > 0 => n > R /\ m <= n - R /\ m <= room
    BY <1>1, <1>2
<1>8. fresh = a.next..(a.next + m - 1)
    <2>1. ASSUME NEW p \in fresh PROVE p \in a.next..(a.next + m - 1)
        <3>1. PICK k \in 1..n : p = Single(a, k)
            OBVIOUS
        <3>2. p # 0 /\ p >= a.next
            OBVIOUS
        <3>3. k > R
            <4>1. k <= R => p \in 1..(a.next - 1)
                BY <3>1, <1>1, <1>5
            <4>2. ~(p \in 1..(a.next - 1))
                BY <3>2, <1>1
            <4> QED BY <4>1, <4>2, <1>2
        <3> HIDE DEF fresh, taken
        <3>4. k - R <= room /\ p = a.next + (k - R) - 1
            BY <3>1, <3>2, <3>3, <1>6
        <3>5. k \in Nat /\ k <= n
            OBVIOUS
        <3>6. k - R >= 1 /\ k - R <= m
            BY <3>3, <3>4, <3>5, <1>1, <1>2
        <3> HIDE DEF m, room
        <3>7. m \in Nat /\ p = a.next + (k - R) - 1 /\ a.next \in Nat /\ R \in Nat
            BY <3>4, <1>1, <1>2, <1>7
        <3> QED BY <3>5, <3>6, <3>7
    <2>2. ASSUME NEW p \in a.next..(a.next + m - 1) PROVE p \in fresh
        <3> DEFINE k == p - a.next + 1 + R
        <3>1. k \in 1..n /\ k > R /\ k - R <= room /\ p = a.next + (k - R) - 1
            <4>1. p \in Nat /\ p >= a.next /\ p <= a.next + m - 1
                BY <1>1, <1>7
            <4> HIDE DEF m, room
            <4>2. m > 0
                BY <1>1, <1>7, <4>1
            <4>3. room \in Int
                BY <1>1 DEF room
            <4>4. n > R /\ m <= n - R /\ m <= room
                BY <4>2, <1>7a
            <4>5. p - a.next + 1 \in 1..m
                BY <4>1, <1>1, <1>7
            <4>6. k \in Nat /\ k - R = p - a.next + 1
                BY <4>5, <1>1, <1>2
            <4> HIDE DEF k
            <4>7. k - R \in 1..m
                BY <4>5, <4>6
            <4>8. k \in 1..n /\ k > R /\ k - R <= room
                BY <4>3, <4>4, <4>6, <4>7, <1>2, <1>7
            <4> QED BY <4>1, <4>6, <4>8, <1>1
        <3>2. Single(a, k) = p
            BY <3>1, <1>6
        <3>3. p # 0 /\ p >= a.next
            BY <1>1
        <3> HIDE DEF k
        <3> QED BY <3>1, <3>2, <3>3
    <2> QED BY <2>1, <2>2
<1>9. Cardinality(fresh) = m
    <2>1. a.next \in Int /\ a.next + m - 1 \in Int
        BY <1>1, <1>7
    <2>2. Cardinality(a.next..(a.next + m - 1)) =
             IF a.next > a.next + m - 1 THEN 0 ELSE (a.next + m - 1) - a.next + 1
        BY <2>1, FS_Interval
    <2> HIDE DEF m, fresh
    <2>3. (IF a.next > a.next + m - 1 THEN 0 ELSE (a.next + m - 1) - a.next + 1) = m
        BY <1>1, <1>7
    <2> QED BY <1>8, <2>2, <2>3
<1>10. ArenaLoaded(b, a, f) = [returned |-> a.returned \ taken, next |-> a.next + m]
    BY <1>9 DEF ArenaLoaded
<1>11. taken \subseteq a.returned \cup (a.next..(a.next + m - 1))
    <2> SUFFICES ASSUME NEW p \in taken PROVE p \in a.returned \cup fresh
        BY <1>8
    <2>1. PICK k \in 1..n : p = Single(a, k)
        OBVIOUS
    <2>2. CASE k <= R
        BY <2>1, <2>2, <1>5
    <2>3. CASE k > R
        <3>1. p # 0
            OBVIOUS
        <3>2. p = a.next + (k - R) - 1
            BY <2>1, <2>3, <3>1, <1>6
        <3>3. p >= a.next
            BY <3>2, <2>3, <1>1, <1>2
        <3> QED BY <3>3
    <2> QED BY <2>2, <2>3, <1>2
<1>12. a.next..(a.next + m - 1) \subseteq taken
    BY <1>8
<1> HIDE DEF taken, fresh, m, room
<1>13. ArenaSound(ArenaLoaded(b, a, f))
    <2>1. a.returned \ taken \in SUBSET Pages /\ a.returned \ taken \subseteq 1..(a.next + m - 1)
        BY <1>1, <1>7
    <2> QED BY <1>7, <1>10, <2>1 DEF ArenaSound, Arenas
<1>14. Assigned(ArenaLoaded(b, a, f)) = Assigned(a) \cup taken
    <2>1. Assigned(ArenaLoaded(b, a, f)) = (1..(a.next + m - 1)) \ (a.returned \ taken)
        <3>1. /\ ArenaLoaded(b, a, f).returned = a.returned \ taken
              /\ ArenaLoaded(b, a, f).next = a.next + m
            BY <1>10
        <3> DEFINE x == ArenaLoaded(b, a, f)
        <3> HIDE DEF x
        <3>2. Assigned(x) = (1..(x.next - 1)) \ x.returned
            BY DEF Assigned
        <3>3. x.returned = a.returned \ taken /\ x.next - 1 = a.next + m - 1
            BY <3>1, <1>1, <1>7 DEF x
        <3>4. Assigned(x) = (1..(a.next + m - 1)) \ (a.returned \ taken)
            BY <3>2, <3>3
        <3> QED BY <3>4 DEF x
    <2>2. 1..(a.next + m - 1) = (1..(a.next - 1)) \cup (a.next..(a.next + m - 1))
        BY <1>1, <1>7
    <2>3. a.returned \cap (a.next..(a.next + m - 1)) = {}
        BY <1>1, <1>7
    <2>4. Assigned(a) = (1..(a.next - 1)) \ a.returned
        BY DEF Assigned
    <2> DEFINE low == 1..(a.next - 1)
               more == a.next..(a.next + m - 1)
               top == 1..(a.next + m - 1)
    <2>5. /\ top = low \cup more /\ a.returned \subseteq low /\ taken \subseteq a.returned \cup more
          /\ more \subseteq taken /\ a.returned \cap more = {}
        BY <2>2, <2>3, <1>1, <1>11, <1>12
    <2> HIDE DEF low, more, top
    <2>6. top \ (a.returned \ taken) = (low \ a.returned) \cup taken
        BY <2>5
    <2> QED BY <2>1, <2>4, <2>6, Zenon DEF low, top
<1> QED BY <1>13, <1>14 DEF taken

(* What bringing in the absent pages of a request block does to a block.   *)
LEMMA LoadedIs ==
    ASSUME NEW b, NEW a, Stored(b, a), NEW f \in AnyFrames
    PROVE  /\ Stored(Loaded(b, a, f), ArenaLoaded(b, a, f))
           /\ \A c \in Cells :
                 \/ Loaded(b, a, f)[c] = b[c]
                 \/ /\ b[c].tail = 0 /\ Addressed(b[c])
                    /\ \E p \in 0..LastPage : Loaded(b, a, f)[c] = WithTail(b[c], p)
<1> DEFINE absent == Absent(b, f)
           n      == Loaded(b, a, f)
           a2     == ArenaLoaded(b, a, f)
<1>1. BlocksSound(b) /\ ArenaSound(a) /\ b \in [Cells -> Blocks]
    BY DEF Stored, BlocksSound
<1>2. PICK top \in Nat :
              /\ DOMAIN absent = 1..top
              /\ \A k \in 1..top : absent[k] \in Cells /\ b[absent[k]].tail = 0 /\ Addressed(b[absent[k]])
              /\ \A j, k \in 1..top : absent[j] = absent[k] => j = k
    BY <1>1, AbsentIs
<1> DEFINE place(c) == CHOOSE k \in 1..top : absent[k] = c
           there(c) == \E k \in 1..top : absent[k] = c
           add      == [c \in Cells |-> IF there(c) THEN {Single(a, place(c))} \ {0} ELSE {}]
<1>3. n = [c \in Cells |-> IF there(c) THEN WithTail(b[c], Single(a, place(c))) ELSE b[c]]
    BY <1>2, Zenon DEF Loaded
<1>4. ASSUME NEW c \in Cells, there(c)
      PROVE  place(c) \in 1..top /\ absent[place(c)] = c
    BY <1>4
<1>5. \A k \in 1..top : there(absent[k]) /\ place(absent[k]) = k
    BY <1>2
<1>6. ASSUME NEW k \in 1..top
      PROVE  Single(a, k) \in 0..LastPage /\ (Single(a, k) # 0 => Single(a, k) \in Pages \ Assigned(a))
    <2>1. k \in Nat \ {0}
        OBVIOUS
    <2> QED BY <1>1, <2>1, SingleIs
<1>7. ASSUME NEW j \in 1..top, NEW k \in 1..top, Single(a, j) = Single(a, k), Single(a, k) # 0
      PROVE  j = k
    <2>1. j \in Nat \ {0} /\ k \in Nat \ {0}
        OBVIOUS
    <2> QED BY <1>1, <1>7, <2>1, SingleIs
<1> HIDE DEF absent, place, there, n, a2
<1>8. \A c \in Cells : n[c] = IF there(c) THEN WithTail(b[c], Single(a, place(c))) ELSE b[c]
    BY <1>3
<1>9. ASSUME NEW c \in Cells, there(c)
      PROVE  /\ b[c].tail = 0 /\ Addressed(b[c])
             /\ Single(a, place(c)) \in 0..LastPage
             /\ Single(a, place(c)) # 0 => Single(a, place(c)) \notin Assigned(a)
             /\ n[c] = WithTail(b[c], Single(a, place(c)))
    BY <1>2, <1>4, <1>6, <1>8, <1>9
<1>10. ASSUME NEW c \in Cells
       PROVE  /\ n[c] \in Blocks /\ ExtentSound(n[c])
              /\ n[c].kind = b[c].kind
              /\ n[c].kind = "none" => n[c] = NoBlock
              /\ Occupied(n[c]) = Occupied(b[c]) \cup add[c]
    <2>1. /\ b[c] \in Blocks /\ ExtentSound(b[c]) /\ (b[c].kind = "none" => b[c] = NoBlock)
          /\ Occupied(b[c]) \subseteq Assigned(a)
        BY DEF Stored, BlocksSound, Apart
    <2>2. CASE ~there(c)
        BY <2>1, <2>2, <1>8
    <2>3. CASE there(c)
        <3> DEFINE p == Single(a, place(c))
        <3>1. /\ b[c].tail = 0 /\ p \in 0..LastPage /\ (p # 0 => p \notin Occupied(b[c]))
              /\ n[c] = WithTail(b[c], p) /\ Addressed(b[c])
            BY <2>1, <2>3, <1>9
        <3>2. add[c] = {p} \ {0}
            BY <2>3
        <3> HIDE DEF p, add
        <3>3. /\ WithTail(b[c], p) \in Blocks /\ WithTail(b[c], p).kind = b[c].kind
              /\ ExtentSound(WithTail(b[c], p))
              /\ Occupied(WithTail(b[c], p)) = Occupied(b[c]) \cup ({p} \ {0})
            BY <2>1, <3>1, TailIs, TailAdded
        <3>4. b[c].kind # "none"
            BY <3>1 DEF Addressed
        <3> QED BY <3>1, <3>2, <3>3, <3>4
    <2> QED BY <2>2, <2>3
<1>11. BlocksSound(n)
    <2>1. n \in [Cells -> Blocks]
        BY <1>3, <1>10
    <2> QED BY <2>1, <1>10 DEF BlocksSound
<1>12. \A c \in Cells : add[c] \cap Assigned(a) = {}
    BY <1>9
<1>13. ASSUME NEW c \in Cells, NEW d \in Cells, c # d PROVE add[c] \cap add[d] = {}
    <2> SUFFICES ASSUME there(c), there(d), Single(a, place(c)) = Single(a, place(d)),
                        Single(a, place(d)) # 0
                 PROVE  FALSE
        OBVIOUS
    <2>1. /\ place(c) \in 1..top /\ absent[place(c)] = c
          /\ place(d) \in 1..top /\ absent[place(d)] = d
        BY <1>4
    <2>2. place(c) = place(d)
        BY <2>1, <1>7
    <2> QED BY <2>1, <2>2, <1>13
<1>14. ArenaSound(a2) /\ Assigned(a2) = Assigned(a) \cup ({Single(a, k) : k \in 1..top} \ {0})
    <2>1. DOMAIN Absent(b, f) = 1..top
        BY <1>2 DEF absent
    <2> QED BY <1>1, <2>1, ArenaLoadedIs DEF a2
<1>15. {Single(a, k) : k \in 1..top} \ {0} = UNION {add[c] : c \in Cells}
    <2>1. ASSUME NEW k \in 1..top, Single(a, k) # 0
          PROVE  absent[k] \in Cells /\ Single(a, k) \in add[absent[k]]
        BY <2>1, <1>2, <1>5
    <2>2. ASSUME NEW c \in Cells, NEW p \in add[c]
          PROVE  p # 0 /\ \E k \in 1..top : p = Single(a, k)
        BY <2>2, <1>4
    <2> HIDE DEF add
    <2>3. ASSUME NEW p \in {Single(a, k) : k \in 1..top} \ {0}
          PROVE  \E c \in Cells : p \in add[c]
        <3>1. PICK k \in 1..top : p = Single(a, k)
            OBVIOUS
        <3> QED BY <3>1, <2>1
    <2> QED BY <2>2, <2>3
<1>16. Stored(n, a2)
    <2> HIDE DEF add
    <2>1. Assigned(a2) = Assigned(a) \cup UNION {add[c] : c \in Cells}
        BY <1>14, <1>15
    <2> QED BY <1>10, <1>11, <1>12, <1>13, <1>14, <2>1, Adding
<1>17. ASSUME NEW c \in Cells
       PROVE  \/ n[c] = b[c]
              \/ /\ b[c].tail = 0 /\ Addressed(b[c])
                 /\ \E p \in 0..LastPage : n[c] = WithTail(b[c], p)
    <2>1. CASE ~there(c)
        BY <2>1, <1>8
    <2>2. CASE there(c)
        BY <2>2, <1>9
    <2> QED BY <2>1, <2>2
<1> QED BY <1>16, <1>17 DEF n, a2

LEMMA SequenceParts ==
    ASSUME NEW E, NEW s \in Seq(E), s # <<>>
    PROVE  /\ Last(s) \in E /\ Front(s) \in Seq(E)
           /\ Len(Front(s)) = Len(s) - 1 /\ Len(s) \in Nat \ {0}
           /\ Last(s) = s[Len(s)]
           /\ \A i \in 1..(Len(s) - 1) : Front(s)[i] = s[i]
           /\ \A x \in E : [s EXCEPT ![Len(s)] = x] = Append(Front(s), x)
           /\ s = Append(Front(s), Last(s))
<1>1. Len(s) \in Nat \ {0}
    OBVIOUS
<1>2. Last(s) \in E /\ Last(s) = s[Len(s)]
    BY <1>1 DEF Last
<1>3. /\ Front(s) \in Seq(E) /\ Len(Front(s)) = Len(s) - 1
      /\ \A i \in 1..(Len(s) - 1) : Front(s)[i] = s[i]
    <2> DEFINE n == Len(s) - 1
    <2>1. n \in Nat /\ 1 \in Int /\ n \in Int /\ \A i \in 1..n : s[i] \in E
        BY <1>1
    <2>2. /\ SubSeq(s, 1, n) \in Seq(E)
          /\ Len(SubSeq(s, 1, n)) = IF 1 <= n THEN n - 1 + 1 ELSE 0
          /\ \A i \in 1..(n - 1 + 1) : SubSeq(s, 1, n)[i] = s[1 + i - 1]
        BY <2>1, SubSeqProperties
    <2>3. Front(s) = SubSeq(s, 1, n)
        BY DEF Front
    <2> HIDE DEF n
    <2>4. Front(s) \in Seq(E) /\ Len(Front(s)) = n
        BY <2>1, <2>2, <2>3
    <2>5. \A i \in 1..n : Front(s)[i] = s[i]
        BY <2>1, <2>2, <2>3
    <2> QED BY <2>4, <2>5 DEF n
<1>4. ASSUME NEW x \in E PROVE [s EXCEPT ![Len(s)] = x] = Append(Front(s), x)
    <2> DEFINE l == [s EXCEPT ![Len(s)] = x]
               r == Append(Front(s), x)
    <2>1. l \in Seq(E) /\ Len(l) = Len(s) /\ \A i \in 1..Len(s) : l[i] = IF i = Len(s) THEN x ELSE s[i]
        BY <1>1
    <2>2. r \in Seq(E) /\ Len(r) = Len(s) /\ \A i \in 1..Len(s) : r[i] = IF i = Len(s) THEN x ELSE s[i]
        BY <1>1, <1>3
    <2> HIDE DEF l, r
    <2>3. l = r
        BY <2>1, <2>2, <1>1
    <2> QED BY <2>3 DEF l, r
<1>5. s = Append(Front(s), Last(s))
    BY <1>1, <1>2, <1>3
<1> QED BY <1>1, <1>2, <1>3, <1>4, <1>5

LEMMA FrameParts ==
    ASSUME NEW f \in AnyFrames
    PROVE  /\ f.program \in Cells \cup {Nucleus}
           /\ f.map \in Seq(AnyEntries) /\ Len(f.map) \in 0..MaxEntries
           /\ f.image \in SUBSET (Cells \X {0, 1} \X Pages)
           /\ f.stale \in BOOLEAN
BY BoundsAssumption DEF AnyFrames

LEMMA ReferencesTyped ==
    ASSUME NEW f \in AnyFrames
    PROVE  /\ References(f) \in [Cells -> Nat]
           /\ \A c \in Cells : /\ ReferencesTo(f, c) \in SUBSET (0..MaxEntries)
                               /\ IsFiniteSet(ReferencesTo(f, c))
<1>1. {0} \cup DOMAIN f.map \in SUBSET (0..MaxEntries)
    BY FrameParts, BoundsAssumption
<1>2. IsFiniteSet(0..MaxEntries)
    BY BoundsAssumption, FS_Interval
<1>3. ASSUME NEW c \in Cells
      PROVE  /\ ReferencesTo(f, c) \in SUBSET (0..MaxEntries)
             /\ IsFiniteSet(ReferencesTo(f, c))
             /\ Cardinality(ReferencesTo(f, c)) \in Nat
    <2>1. ReferencesTo(f, c) \in SUBSET (0..MaxEntries)
        BY <1>1 DEF ReferencesTo
    <2> QED BY <2>1, <1>2, FS_Subset, FS_CardinalityType
<1> QED BY <1>3 DEF References

(* What a window shows is among the objects of a request block.            *)
LEMMA ShownIs ==
    ASSUME NEW b \in [Cells -> Blocks], NEW f \in AnyFrames, NEW w
    PROVE  /\ Shown(b, f, w) \in SUBSET AnyEntries
           /\ \A e \in Shown(b, f, w) : \E i \in DOMAIN Objects(b, f) : e = Objects(b, f)[i]
<1>1. Objects(b, f) \in Seq(AnyEntries)
    BY ObjectsTyped
<1>2. \A i \in DOMAIN Objects(b, f) : Objects(b, f)[i] \in AnyEntries
    BY <1>1
<1> QED BY <1>2 DEF Shown

LEMMA PagesOfTyped ==
    ASSUME NEW b, NEW c \in Cells, NEW n \in 1..2
    PROVE  PagesOf(b, c, n) \in SUBSET (Cells \X {0, 1} \X Pages)
<1>1. 0..(n - 1) \subseteq {0, 1}
    OBVIOUS
<1> QED BY <1>1 DEF PagesOf

LEMMA BuiltTyped ==
    ASSUME NEW b \in [Cells -> Blocks], NEW f \in AnyFrames
    PROVE  /\ Built(b, f) \in AnyFrames
           /\ Built(b, f).program = f.program /\ Built(b, f).map = f.map
           /\ Built(b, f).stale = FALSE
           /\ \A x \in Built(b, f).image :
                 \E i \in DOMAIN Objects(b, f) :
                    x \in PagesOf(b, Objects(b, f)[i].cell, Objects(b, f)[i].pages)
<1> DEFINE image == UNION {PagesOf(b, e.cell, e.pages) : e \in UNION {Shown(b, f, w) : w \in Windows}}
<1>1. Built(b, f) = [program |-> f.program, map |-> f.map, stale |-> FALSE, image |-> image]
    BY DEF Built
<1>2. ASSUME NEW x \in image
      PROVE  \E e \in AnyEntries : /\ \E i \in DOMAIN Objects(b, f) : e = Objects(b, f)[i]
                                   /\ x \in PagesOf(b, e.cell, e.pages)
    <2>1. PICK e \in UNION {Shown(b, f, w) : w \in Windows} : x \in PagesOf(b, e.cell, e.pages)
        BY <1>2
    <2>2. PICK w \in Windows : e \in Shown(b, f, w)
        BY <2>1
    <2> QED BY <2>1, <2>2, ShownIs
<1>3. image \in SUBSET (Cells \X {0, 1} \X Pages)
    <2> SUFFICES ASSUME NEW x \in image PROVE x \in Cells \X {0, 1} \X Pages
        OBVIOUS
    <2>1. PICK e \in AnyEntries : x \in PagesOf(b, e.cell, e.pages)
        BY <1>2
    <2>2. e.cell \in Cells /\ e.pages \in 1..2
        BY DEF AnyEntries
    <2> QED BY <2>1, <2>2, PagesOfTyped
<1> HIDE DEF image
<1>4. Built(b, f) \in AnyFrames
    <2>1. /\ f.program \in Cells \cup {Nucleus}
          /\ f.map \in {m \in Seq(AnyEntries) : Len(m) <= MaxEntries}
        BY DEF AnyFrames
    <2> QED BY <1>1, <1>3, <2>1 DEF AnyFrames
<1> QED BY <1>1, <1>2, <1>4

LEMMA WithoutTyped ==
    ASSUME NEW map \in Seq(AnyEntries), NEW w
    PROVE  Without(map, w) \in Seq(AnyEntries)
BY SublistIs DEF Without

LEMMA PlacedTyped ==
    ASSUME NEW map \in Seq(AnyEntries), NEW w \in Windows, NEW c \in Cells
    PROVE  Placed(map, w, c) \in Seq(AnyEntries)
<1>1. [window |-> w, cell |-> c, pages |-> 1] \in AnyEntries
    BY DEF AnyEntries
<1> QED BY <1>1, WithoutTyped DEF Placed

LEMMA InheritedTyped ==
    ASSUME NEW b \in [Cells -> Blocks], NEW f \in AnyFrames, NEW m
    PROVE  Inherited(b, f, m) \in Seq(AnyEntries)
<1>1. f.map \in Seq(AnyEntries) /\ Objects(b, f) \in Seq(AnyEntries)
    BY FrameParts, ObjectsTyped
<1>2. CASE f.program = Nucleus \/ m \in Isolated
    BY <1>2 DEF Inherited
<1>3. CASE ~(f.program = Nucleus \/ m \in Isolated) /\ m \in Translated
    BY <1>1, <1>3 DEF Inherited
<1>4. CASE ~(f.program = Nucleus \/ m \in Isolated) /\ m \notin Translated
    BY <1>1, <1>4 DEF Inherited
<1> QED BY <1>2, <1>3, <1>4

LEMMA WithMapIs ==
    ASSUME NEW f \in AnyFrames, NEW map \in Seq(AnyEntries), Len(map) <= MaxEntries
    PROVE  /\ WithMap(f, map) \in AnyFrames
           /\ WithMap(f, map).map = map /\ WithMap(f, map).program = f.program
           /\ WithMap(f, map).image = f.image /\ WithMap(f, map).stale = f.stale
<1>1. map \in {m \in Seq(AnyEntries) : Len(m) <= MaxEntries}
    OBVIOUS
<1>2. WithMap(f, map) \in AnyFrames
    BY <1>1 DEF WithMap, AnyFrames
<1> QED BY <1>2, Zenon DEF WithMap, AnyFrames

(* A way to come by a program's block leaves the storage in order, and the *)
(* other blocks alone.                                                     *)
Way(way) ==
    /\ way.cell \in Cells /\ Stored(way.block, way.arena)
    /\ way.block[way.cell].kind = "program"
    /\ way.block[way.cell].module \in Modules \cup {Region}
    /\ \A d \in Cells \ {way.cell} : way.block[d] = block[d]
    /\ \/ way.block = block
       \/ /\ block[way.cell] = NoBlock
          /\ way.block[way.cell].use = 0 /\ ~way.block[way.cell].pinned
          /\ way.block[way.cell].owner = Nobody

LEMMA FoundIs ==
    ASSUME Stored(block, arena), NEW m \in Modules \cup {Region}, NEW way \in Found(m)
    PROVE  Way(way)
<1>1. PICK c \in Cells : /\ block[c].kind = "program" /\ block[c].module = m
                         /\ way = [cell |-> c, block |-> block, arena |-> arena]
    BY DEF Found
<1> QED BY <1>1 DEF Way

LEMMA FreeIs ==
    ASSUME Stored(block, arena), NEW c \in Free
    PROVE  c \in Cells /\ block[c] = NoBlock /\ Occupied(block[c]) = {}
BY NoBlockIs DEF Free, Stored, BlocksSound

LEMMA NewCell ==
    ASSUME Stored(block, arena), NEW c \in Free, NEW r \in Blocks, r.kind = "program",
           r.module \in Modules \cup {Region}, ExtentSound(r), NEW a, ArenaSound(a),
           Occupied(r) \cap Assigned(arena) = {}, Assigned(a) = Assigned(arena) \cup Occupied(r)
    PROVE  /\ Stored([block EXCEPT ![c] = r], a)
           /\ [block EXCEPT ![c] = r][c] = r
           /\ \A d \in Cells \ {c} : [block EXCEPT ![c] = r][d] = block[d]
<1>1. c \in Cells /\ Occupied(block[c]) = {}
    BY FreeIs
<1>2. Stored([block EXCEPT ![c] = r], a)
    BY <1>1, Replacing
<1>3. block \in [Cells -> Blocks]
    BY DEF Stored, BlocksSound
<1> QED BY <1>1, <1>2, <1>3

LEMMA FreshIs ==
    ASSUME Stored(block, arena), NEW m \in Modules, NEW way \in Fresh(m)
    PROVE  Way(way)
<1>1. m # Region /\ CorePages[m] \in {1, 2}
    BY ProgramsAssumption
<1>2. CASE m \in InPlace
    <2> DEFINE r == NewProgram(m, 0, 0)
    <2>1. PICK c \in Free :
              way = [cell |-> c, block |-> [block EXCEPT ![c] = r], arena |-> arena]
        BY <1>2 DEF Fresh
    <2>2. 0 \in 0..LastPage /\ 0 \in 0..2 /\ m \in Modules \cup {Region}
        BY LastPageAssumption
    <2>3a. r \in Blocks
        BY <2>2, NewProgramTyped
    <2>3. /\ r \in Blocks /\ r.kind = "program" /\ r.use = 0 /\ r.pinned = FALSE
          /\ r.owner = Nobody /\ r.module = m /\ r.at = 0 /\ r.pages = 0 /\ r.tail = 0
        BY <1>1, <2>3a DEF NewProgram
    <2> HIDE DEF r
    <2>4. ExtentSound(r)
        BY <2>3 DEF ExtentSound
    <2>5. Occupied(r) = {}
        BY <2>3 DEF Occupied, PageRange
    <2>6. ArenaSound(arena)
        BY DEF Stored
    <2>7. /\ Stored([block EXCEPT ![c] = r], arena)
          /\ [block EXCEPT ![c] = r][c] = r
          /\ \A d \in Cells \ {c} : [block EXCEPT ![c] = r][d] = block[d]
        BY <2>2, <2>3, <2>4, <2>5, <2>6, NewCell
    <2>8. c \in Cells /\ block[c] = NoBlock
        BY FreeIs
    <2> DEFINE b == [block EXCEPT ![c] = r]
    <2>9. way.cell = c /\ way.block = b /\ way.arena = arena
        BY <2>1
    <2> HIDE DEF b
    <2> QED BY <2>2, <2>3, <2>7, <2>8, <2>9 DEF Way, b
<1>3. CASE m \notin InPlace
    <2> DEFINE first == AllocatedAt(arena, 1)
               one   == Allocate(arena, 1)
               n     == CorePages[m]
               at    == GrownAt(one, first, 1, n)
               r     == NewProgram(m, at, n)
               a     == Grown(one, first, 1, n)
    <2>1. PICK c \in Free :
              /\ way = [cell |-> c, block |-> [block EXCEPT ![c] = r], arena |-> a]
              /\ CanAllocate(arena, 1) /\ CanGrow(one, first, 1, n)
        BY <1>3 DEF Fresh
    <2>2. /\ first \in Pages /\ PageRange(first, 1) \cap Assigned(arena) = {}
          /\ ArenaSound(one) /\ Assigned(one) = Assigned(arena) \cup PageRange(first, 1)
        BY <2>1, AllocatingPages DEF Stored
    <2>3. n \in Nat /\ n \in 1..2 /\ first \in Nat
        BY <1>1, <2>2 DEF Pages
    <2> HIDE DEF first, one, n
    <2>4. /\ at \in Pages /\ at + n - 1 \in Pages /\ PageRange(at, n) \subseteq Pages
          /\ PageRange(at, n) \cap (Assigned(one) \ PageRange(first, 1)) = {}
          /\ ArenaSound(a)
          /\ Assigned(a) = (Assigned(one) \ PageRange(first, 1)) \cup PageRange(at, n)
        BY <2>1, <2>2, <2>3, GrowingPages
    <2>5. Assigned(one) \ PageRange(first, 1) = Assigned(arena)
        BY <2>2
    <2>6. at \in 0..LastPage /\ n \in 0..2 /\ m \in Modules \cup {Region} /\ 0 \notin PageRange(at, n)
        BY <2>3, <2>4, LastPageAssumption DEF Pages
    <2> HIDE DEF at, a
    <2>7a. r \in Blocks
        BY <2>6, NewProgramTyped
    <2>7. /\ r \in Blocks /\ r.kind = "program" /\ r.use = 0 /\ r.pinned = FALSE
          /\ r.owner = Nobody /\ r.module = m /\ r.at = at /\ r.pages = n /\ r.tail = 0
        BY <1>1, <2>7a DEF NewProgram
    <2> HIDE DEF r
    <2>8. ExtentSound(r)
        BY <2>4, <2>6, <2>7 DEF ExtentSound
    <2>9. Occupied(r) = PageRange(at, n)
        BY <2>7, <2>8, OccupiedIs
    <2>10. /\ Stored([block EXCEPT ![c] = r], a)
           /\ [block EXCEPT ![c] = r][c] = r
           /\ \A d \in Cells \ {c} : [block EXCEPT ![c] = r][d] = block[d]
        BY <2>4, <2>5, <2>6, <2>7, <2>8, <2>9, NewCell
    <2>11. c \in Cells /\ block[c] = NoBlock
        BY FreeIs
    <2> DEFINE b == [block EXCEPT ![c] = r]
    <2>12. way.cell = c /\ way.block = b /\ way.arena = a
        BY <2>1
    <2> HIDE DEF b
    <2> QED BY <2>6, <2>7, <2>10, <2>11, <2>12 DEF Way, b
<1> QED BY <1>2, <1>3

LEMMA CalleesAre ==
    ASSUME Stored(block, arena), NEW way \in Callees
    PROVE  Way(way)
<1>1. CASE way \in Found(Region)
    BY <1>1, FoundIs
<1>2. CASE \E m \in Modules : way \in Entered(m)
    <2>1. PICK m \in Modules : way \in Found(m) \/ way \in Fresh(m)
        BY <1>2 DEF Entered
    <2> QED BY <2>1, FoundIs, FreshIs
<1> QED BY <1>1, <1>2 DEF Callees

(***************************************************************************)
(* The steps, as far as the storage and the system transient area go.      *)
(***************************************************************************)
StorageInv ==
    /\ stack \in [Tasks -> Seq(AnyFrames)]
    /\ held \in SUBSET Cells
    /\ current \in Tasks /\ Live(current)
    /\ Stored(block, arena)

(* No block comes to be of a module that is addressed in place.            *)
KeepsModules(b, n) ==
    \A c \in Cells : n[c].module = b[c].module \/ n[c].module \notin InPlace

(* The steps that put no program into the system transient area.           *)
Quiet ==
    /\ \A t \in Tasks : stack'[t] # <<>> =>
          stack[t] # <<>> /\ Last(stack'[t]).program = Last(stack[t]).program
    /\ KeepsModules(block, block')
    /\ transient' # transient => transient \in Cells /\ block'[transient].module \notin InPlace

LEMMA InPlaceIs == Nucleus \notin InPlace /\ Region \notin InPlace
BY ProgramsAssumption

LEMMA CountedModules ==
    ASSUME NEW b, BlocksSound(b), NEW gain \in [Cells -> Nat], NEW lose \in [Cells -> Nat]
    PROVE  /\ KeepsModules(b, Counted(b, gain, lose))
           /\ \A c \in Deleted(b, gain, lose) :
                 c \in Cells /\ Counted(b, gain, lose)[c].module \notin InPlace
<1> DEFINE n == Counted(b, gain, lose)
           gone == Deleted(b, gain, lose)
<1>1. /\ gone \in SUBSET Cells
      /\ \A c \in gone : n[c] = NoBlock
      /\ \A c \in Cells \ gone : n[c].module = b[c].module
    BY CountedIs
<1> HIDE DEF n, gone
<1>2. \A c \in gone : c \in Cells /\ n[c].module \notin InPlace
    BY <1>1, NoBlockIs, InPlaceIs
<1>3. KeepsModules(b, n)
    BY <1>1, <1>2 DEF KeepsModules
<1> QED BY <1>2, <1>3 DEF n, gone

LEMMA LoadedModules ==
    ASSUME NEW b, NEW a, Stored(b, a), NEW f \in AnyFrames
    PROVE  \A c \in Cells : Loaded(b, a, f)[c].module = b[c].module
<1> DEFINE n == Loaded(b, a, f)
<1>1. \A c \in Cells : n[c] = b[c] \/ \E p \in 0..LastPage : n[c] = WithTail(b[c], p)
    BY LoadedIs
<1> HIDE DEF n
<1>2. ASSUME NEW c \in Cells PROVE n[c].module = b[c].module
    <2>1. b[c] \in Blocks
        BY DEF Stored, BlocksSound
    <2>2. ASSUME NEW p \in 0..LastPage, n[c] = WithTail(b[c], p) PROVE n[c].module = b[c].module
        BY <2>1, <2>2, TailIs
    <2> QED BY <1>1, <2>2
<1> QED BY <1>2 DEF n

(* A task's spaces are released.                                           *)
LEMMA SpacesReleasedIs ==
    ASSUME NEW b, NEW a, Stored(b, a), NEW t \in Tasks
    PROVE  /\ Stored(SpacesReleased(b, t), ReturnPages(a, Vacated(b, Unused(b, t))))
           /\ KeepsModules(b, SpacesReleased(b, t))
<1> DEFINE n == SpacesReleased(b, t)
           G == Unused(b, t)
<1>1. G \in SUBSET Cells
    BY DEF Unused, Owned
<1>2. b \in [Cells -> Blocks]
    BY DEF Stored, BlocksSound
<1>3. \A c \in G : n[c] = NoBlock
    BY <1>1 DEF SpacesReleased
<1>4. \A c \in Cells \ G : IF b[c].owner = t THEN n[c] = LetGo(b[c]) ELSE n[c] = b[c]
    BY DEF SpacesReleased
<1>5. n = [c \in Cells |-> n[c]]
    BY DEF SpacesReleased
<1> HIDE DEF n, G
<1>6. ASSUME NEW c \in Cells \ G
      PROVE  /\ n[c] \in Blocks /\ n[c].kind = b[c].kind /\ n[c].module = b[c].module
             /\ n[c].at = b[c].at /\ n[c].pages = b[c].pages /\ n[c].tail = b[c].tail
    <2>1. b[c] \in Blocks
        BY <1>2
    <2>2. CASE b[c].owner = t
        <3> DEFINE r == LetGo(b[c])
        <3>1. /\ r \in Blocks /\ r.kind = b[c].kind /\ r.module = b[c].module
              /\ r.at = b[c].at /\ r.pages = b[c].pages /\ r.tail = b[c].tail
            BY <2>1, LetGoIs
        <3>2. n[c] = r
            BY <2>2, <1>4
        <3> HIDE DEF r
        <3> QED BY <3>1, <3>2
    <2>3. CASE b[c].owner # t
        BY <2>1, <2>3, <1>4
    <2> QED BY <2>2, <2>3
<1>7. ASSUME NEW c \in Cells \ G, n[c].kind = "none" PROVE n[c] = NoBlock
    <2>1. b[c] = NoBlock
        BY <1>6, <1>7 DEF Stored, BlocksSound
    <2>2. b[c].owner # t
        BY <2>1, NoBlockIs, TasksAssumption
    <2> QED BY <2>1, <2>2, <1>4
<1>8. BlocksSound(n)
    <2>1. \A c \in Cells : n[c] \in Blocks
        BY <1>3, <1>6, NoBlockIs
    <2>2. n \in [Cells -> Blocks]
        BY <1>5, <2>1, Zenon
    <2>3. ASSUME NEW c \in Cells PROVE ExtentSound(n[c])
        <3>1. CASE c \in G
            BY <3>1, <1>3, NoBlockSound
        <3>2. CASE c \notin G
            BY <3>2, <1>6 DEF ExtentSound, Stored, BlocksSound
        <3> QED BY <3>1, <3>2
    <2>4. \A c \in Cells : n[c].kind = "none" => n[c] = NoBlock
        BY <1>3, <1>7
    <2> QED BY <2>2, <2>3, <2>4 DEF BlocksSound
<1>9. \A c \in G : Occupied(n[c]) = {}
    BY <1>3, NoBlockIs
<1>10. \A c \in Cells \ G : Occupied(n[c]) = Occupied(b[c])
    BY <1>6 DEF Occupied
<1>11. Stored(n, ReturnPages(a, Vacated(b, G)))
    BY <1>1, <1>8, <1>9, <1>10, Vacating
<1>12. KeepsModules(b, n)
    BY <1>1, <1>3, <1>6, NoBlockIs, InPlaceIs DEF KeepsModules
<1> QED BY <1>11, <1>12 DEF n, G

LEMMA TopsTyped ==
    ASSUME StorageInv, NEW t \in Tasks, stack[t] # <<>>
    PROVE  /\ stack[t] \in Seq(AnyFrames) /\ Last(stack[t]) \in AnyFrames
           /\ Front(stack[t]) \in Seq(AnyFrames) /\ Len(stack[t]) \in Nat \ {0}
           /\ Len(Front(stack[t])) = Len(stack[t]) - 1
           /\ \A i \in 1..(Len(stack[t]) - 1) : Front(stack[t])[i] = stack[t][i]
<1>1. stack[t] \in Seq(AnyFrames)
    BY DEF StorageInv
<1> QED BY <1>1, SequenceParts

LEMMA StackChanged ==
    ASSUME StorageInv, NEW t \in Tasks, NEW s \in Seq(AnyFrames)
    PROVE  LET n == [stack EXCEPT ![t] = s]
           IN  /\ n \in [Tasks -> Seq(AnyFrames)] /\ n[t] = s
               /\ \A u \in Tasks \ {t} : n[u] = stack[u]
BY DEF StorageInv

LEMMA Appending ==
    ASSUME NEW E, NEW s \in Seq(E), NEW x \in E
    PROVE  /\ Append(s, x) \in Seq(E) /\ Append(s, x) # <<>> /\ Last(Append(s, x)) = x
           /\ Len(Append(s, x)) = Len(s) + 1 /\ Append(s, x)[Len(s) + 1] = x
           /\ \A i \in 1..Len(s) : Append(s, x)[i] = s[i]
<1>1. /\ Append(s, x) \in Seq(E) /\ Append(s, x) # <<>>
      /\ Len(Append(s, x)) = Len(s) + 1 /\ Append(s, x)[Len(s) + 1] = x
      /\ \A i \in 1..Len(s) : Append(s, x)[i] = s[i]
    OBVIOUS
<1> QED BY <1>1 DEF Last

LEMMA Rebuilding ==
    ASSUME StorageInv, NEW b, NEW a, Stored(b, a), KeepsModules(block, b),
           NEW s \in Seq(AnyFrames), s # <<>>, Rebuild(b, a, s)
    PROVE  /\ Stored(block', arena') /\ KeepsModules(block, block')
           /\ \A c \in Cells : b[c].module \notin InPlace => block'[c].module \notin InPlace
           /\ stack' \in [Tasks -> Seq(AnyFrames)]
           /\ \A t \in Tasks \ {current} : stack'[t] = stack[t]
           /\ stack'[current] # <<>>
           /\ Last(stack'[current]).program = Last(s).program
<1> DEFINE top == Last(s)
           n == Loaded(b, a, top)
           built == Built(n, top)
<1>1. /\ top \in AnyFrames /\ Front(s) \in Seq(AnyFrames)
      /\ \A x \in AnyFrames : [s EXCEPT ![Len(s)] = x] = Append(Front(s), x)
    BY SequenceParts
<1>2. /\ block' = n /\ arena' = ArenaLoaded(b, a, top)
      /\ stack' = [stack EXCEPT ![current] = [s EXCEPT ![Len(s)] = built]]
    BY DEF Rebuild
<1>3. Stored(block', arena')
    BY <1>1, <1>2, LoadedIs
<1>4. \A c \in Cells : n[c].module = b[c].module
    BY <1>1, LoadedModules
<1>5. n \in [Cells -> Blocks]
    BY <1>2, <1>3 DEF Stored, BlocksSound
<1> HIDE DEF n
<1>6. built \in AnyFrames /\ built.program = top.program
    BY <1>1, <1>5, BuiltTyped
<1> HIDE DEF built, top
<1>7. stack' = [stack EXCEPT ![current] = Append(Front(s), built)]
    BY <1>1, <1>2, <1>6
<1>8. /\ Append(Front(s), built) \in Seq(AnyFrames) /\ Append(Front(s), built) # <<>>
      /\ Last(Append(Front(s), built)) = built
    BY <1>1, <1>6, Appending
<1>9. /\ stack' \in [Tasks -> Seq(AnyFrames)] /\ stack'[current] = Append(Front(s), built)
      /\ \A t \in Tasks \ {current} : stack'[t] = stack[t]
    BY <1>7, <1>8, StackChanged DEF StorageInv
<1>10. KeepsModules(block, block')
    BY <1>2, <1>4 DEF KeepsModules
<1> QED BY <1>2, <1>3, <1>4, <1>6, <1>8, <1>9, <1>10 DEF top

LEMMA Releasing ==
    ASSUME NEW b, NEW a, Stored(b, a), NEW lose \in [Cells -> Nat], Release(b, a, lose)
    PROVE  /\ Stored(block', arena') /\ KeepsModules(b, block')
           /\ transient' # transient => transient \in Cells /\ block'[transient].module \notin InPlace
<1>1. NoReference \in [Cells -> Nat] /\ BlocksSound(b)
    BY DEF NoReference, Stored
<1>2. /\ block' = Counted(b, NoReference, lose)
      /\ arena' = ReturnPages(a, Vacated(b, Deleted(b, NoReference, lose)))
      /\ transient' = TransientAfter(Deleted(b, NoReference, lose))
    BY DEF Release
<1>3. Stored(block', arena')
    BY <1>1, <1>2, Counting
<1>4. /\ KeepsModules(b, block')
      /\ \A c \in Deleted(b, NoReference, lose) : c \in Cells /\ block'[c].module \notin InPlace
    BY <1>1, <1>2, CountedModules
<1> QED BY <1>2, <1>3, <1>4 DEF TransientAfter

LEMMA ReferencesOfSome ==
    ASSUME NEW S, \A c \in Cells : IsFiniteSet(UNION {{x} \X ReferencesTo(FrameAt(x), c) : x \in S})
    PROVE  AllReferences(S) \in [Cells -> Nat]
<1>1. \A c \in Cells : Cardinality(UNION {{x} \X ReferencesTo(FrameAt(x), c) : x \in S}) \in Nat
    BY FS_CardinalityType
<1> QED BY <1>1 DEF AllReferences

(* What a task's request blocks refer to is counted.                       *)
LEMMA TaskReferences ==
    ASSUME StorageInv, NEW t \in Tasks
    PROVE  AllReferences({t} \X DOMAIN stack[t]) \in [Cells -> Nat]
<1> DEFINE S == {t} \X DOMAIN stack[t]
<1>1. stack[t] \in Seq(AnyFrames)
    BY DEF StorageInv
<1>2. IsFiniteSet(1..Len(stack[t])) /\ IsFiniteSet(0..MaxEntries)
    BY <1>1, BoundsAssumption, FS_Interval
<1>3. IsFiniteSet(S)
    <2>1. S = {t} \X (1..Len(stack[t]))
        BY <1>1
    <2>2. IsFiniteSet({t})
        BY FS_Singleton
    <2> QED BY <1>2, <2>1, <2>2, FS_Product
<1>4. IsFiniteSet(S \X (0..MaxEntries))
    BY <1>2, <1>3, FS_Product
<1>5. ASSUME NEW c \in Cells
      PROVE  IsFiniteSet(UNION {{x} \X ReferencesTo(FrameAt(x), c) : x \in S})
    <2>1. ASSUME NEW x \in S PROVE ReferencesTo(FrameAt(x), c) \in SUBSET (0..MaxEntries)
        <3>1. FrameAt(x) \in AnyFrames
            BY <1>1 DEF FrameAt
        <3> QED BY <3>1, ReferencesTyped
    <2> HIDE DEF S
    <2>2. UNION {{x} \X ReferencesTo(FrameAt(x), c) : x \in S} \subseteq S \X (0..MaxEntries)
        BY <2>1
    <2> QED BY <1>4, <2>2, FS_Subset
<1> HIDE DEF S
<1>6. AllReferences(S) \in [Cells -> Nat]
    BY <1>5, ReferencesOfSome
<1> QED BY <1>6 DEF S

LEMMA FreeSecondStep ==
    ASSUME StorageInv, FreeSecond
    PROVE  StorageInv' /\ Quiet
<1> DEFINE s == stack[current]
           second == s[Len(s) - 1]
           n == Append(Front(Front(s)), Last(s))
<1>1. /\ Len(s) > 1 /\ s # <<>>
      /\ Release(block, arena, References(second))
      /\ stack' = [stack EXCEPT ![current] = n]
      /\ held' = held /\ current' = current /\ current \in Tasks
    BY DEF FreeSecond, Depth, StorageInv
<1>2. /\ s \in Seq(AnyFrames) /\ Last(s) \in AnyFrames /\ Front(s) \in Seq(AnyFrames)
      /\ Len(s) \in Nat \ {0} /\ Len(Front(s)) = Len(s) - 1
    BY <1>1, TopsTyped
<1>3. second \in AnyFrames
    BY <1>1, <1>2
<1> HIDE DEF s, second
<1>4. Front(Front(s)) \in Seq(AnyFrames)
    <2>1. Front(s) # <<>>
        BY <1>1, <1>2
    <2> QED BY <1>2, <2>1, SequenceParts
<1>5. n \in Seq(AnyFrames) /\ n # <<>> /\ Last(n) = Last(s)
    BY <1>2, <1>4, Appending
<1> HIDE DEF n
<1>6. /\ stack' \in [Tasks -> Seq(AnyFrames)] /\ stack'[current] = n
      /\ \A u \in Tasks \ {current} : stack'[u] = stack[u]
    BY <1>1, <1>5, StackChanged
<1>7. /\ Stored(block', arena') /\ KeepsModules(block, block')
      /\ transient' # transient => transient \in Cells /\ block'[transient].module \notin InPlace
    <2>1. References(second) \in [Cells -> Nat]
        BY <1>3, ReferencesTyped
    <2>2. Stored(block, arena)
        BY DEF StorageInv
    <2> QED BY <1>1, <2>1, <2>2, Releasing
<1>8. StorageInv'
    BY <1>1, <1>5, <1>6, <1>7 DEF StorageInv, Live
<1>9. Quiet
    <2>1. ASSUME NEW t \in Tasks, stack'[t] # <<>>
          PROVE  stack[t] # <<>> /\ Last(stack'[t]).program = Last(stack[t]).program
        <3>1. CASE t = current
            BY <3>1, <1>1, <1>5, <1>6 DEF s
        <3>2. CASE t # current
            BY <2>1, <3>2, <1>6
        <3> QED BY <3>1, <3>2
    <2> QED BY <1>7, <2>1 DEF Quiet
<1> QED BY <1>8, <1>9

LEMMA EndTaskStep ==
    ASSUME StorageInv, EndTask
    PROVE  StorageInv' /\ Quiet
<1> DEFINE b == SpacesReleased(block, current)
           a == ReturnPages(arena, Vacated(block, Unused(block, current)))
           lose == AllReferences({current} \X DOMAIN stack[current])
<1>1. /\ Release(b, a, lose)
      /\ stack' = [stack EXCEPT ![current] = <<>>]
      /\ current' \in Tasks \ {current} /\ stack[current'] # <<>>
      /\ held' = held /\ current \in Tasks
    BY DEF EndTask, Live, StorageInv
<1>2. Stored(b, a) /\ KeepsModules(block, b)
    BY <1>1, SpacesReleasedIs DEF StorageInv
<1>3. lose \in [Cells -> Nat]
    BY <1>1, TaskReferences
<1> HIDE DEF b, a, lose
<1>4. /\ Stored(block', arena') /\ KeepsModules(b, block')
      /\ transient' # transient => transient \in Cells /\ block'[transient].module \notin InPlace
    BY <1>1, <1>2, <1>3, Releasing
<1>5. KeepsModules(block, block')
    BY <1>2, <1>4 DEF KeepsModules
<1>6. <<>> \in Seq(AnyFrames)
    OBVIOUS
<1>7. /\ stack' \in [Tasks -> Seq(AnyFrames)] /\ stack'[current] = <<>>
      /\ \A u \in Tasks \ {current} : stack'[u] = stack[u]
    BY <1>1, <1>6, StackChanged
<1>8. StorageInv'
    BY <1>1, <1>4, <1>7 DEF StorageInv, Live
<1>9. Quiet
    BY <1>4, <1>5, <1>7 DEF Quiet
<1> QED BY <1>8, <1>9

LEMMA RemapStep ==
    ASSUME StorageInv, NEW w \in Windows, NEW entries \in Seq(AnyEntries),
           NEW gain \in [Cells -> Nat], Remap(w, entries, gain)
    PROVE  StorageInv' /\ Quiet
<1> DEFINE f == Top(current)
           left == {j \in DOMAIN f.map : f.map[j].window = w}
           lose == [c \in Cells |-> Cardinality({j \in left : f.map[j].cell = c})]
           gone == Deleted(block, gain, lose)
           map  == Without(f.map, w) \o entries
           next == WithMap(f, map)
           b    == Counted(block, gain, lose)
           a    == ReturnPages(arena, Vacated(block, gone))
           s    == Append(Front(stack[current]), next)
<1>1. /\ Len(next.map) <= MaxEntries
      /\ Rebuild(b, a, s)
      /\ transient' = TransientAfter(gone)
      /\ held' = held /\ current' = current
    BY DEF Remap
<1>2. /\ current \in Tasks /\ stack[current] # <<>> /\ f \in AnyFrames
      /\ Front(stack[current]) \in Seq(AnyFrames)
      /\ Last(stack[current]).program = f.program
    BY TopsTyped DEF StorageInv, Live, Top
<1>3. f.map \in Seq(AnyEntries)
    BY <1>2, FrameParts
<1>4. lose \in [Cells -> Nat]
    <2>1. ASSUME NEW c \in Cells PROVE Cardinality({j \in left : f.map[j].cell = c}) \in Nat
        <3>1. {j \in left : f.map[j].cell = c} \subseteq 1..Len(f.map)
            BY <1>3
        <3>2. IsFiniteSet(1..Len(f.map))
            <4>1. 1 \in Int /\ Len(f.map) \in Int
                BY <1>3
            <4> QED BY <4>1, FS_Interval
        <3> QED BY <3>1, <3>2, FS_Subset, FS_CardinalityType
    <2> QED BY <2>1
<1> HIDE DEF f, left, lose
<1>5. map \in Seq(AnyEntries)
    <2>1. Without(f.map, w) \in Seq(AnyEntries)
        BY <1>3, WithoutTyped
    <2> QED BY <2>1
<1> HIDE DEF map
<1>6. next.map = map
    BY DEF WithMap, AnyFrames
<1>7. next \in AnyFrames /\ next.program = f.program
    BY <1>1, <1>2, <1>5, <1>6, WithMapIs
<1> HIDE DEF next
<1>8. s \in Seq(AnyFrames) /\ s # <<>> /\ Last(s) = next
    BY <1>2, <1>7, Appending
<1>9. Stored(block, arena) /\ BlocksSound(block)
    BY DEF StorageInv, Stored
<1>10. Stored(b, a) /\ KeepsModules(block, b)
    BY <1>4, <1>9, Counting, CountedModules
<1>11. \A c \in gone : c \in Cells /\ b[c].module \notin InPlace
    BY <1>4, <1>9, CountedModules
<1> HIDE DEF s, b, a, gone
<1>12. /\ Stored(block', arena') /\ KeepsModules(block, block')
       /\ \A c \in Cells : b[c].module \notin InPlace => block'[c].module \notin InPlace
       /\ stack' \in [Tasks -> Seq(AnyFrames)]
       /\ \A t \in Tasks \ {current} : stack'[t] = stack[t]
       /\ stack'[current] # <<>>
       /\ Last(stack'[current]).program = Last(s).program
    BY <1>1, <1>8, <1>10, Rebuilding
<1>13. StorageInv'
    BY <1>1, <1>2, <1>12 DEF StorageInv, Live
<1>14. Quiet
    <2>1. ASSUME NEW t \in Tasks, stack'[t] # <<>>
          PROVE  stack[t] # <<>> /\ Last(stack'[t]).program = Last(stack[t]).program
        BY <2>1, <1>2, <1>7, <1>8, <1>12
    <2>2. transient' # transient => transient \in Cells /\ block'[transient].module \notin InPlace
        BY <1>1, <1>11, <1>12 DEF TransientAfter
    <2> QED BY <1>12, <2>1, <2>2 DEF Quiet
<1> QED BY <1>13, <1>14

LEMMA MapStep ==
    ASSUME StorageInv, NEW w \in Windows, NEW c \in Cells, Map(w, c)
    PROVE  StorageInv' /\ Quiet
<1>1. Placed(<<>>, w, c) \in Seq(AnyEntries)
    <2>1. <<>> \in Seq(AnyEntries)
        OBVIOUS
    <2> QED BY <2>1, PlacedTyped
<1>2. Reference(c) \in [Cells -> Nat]
    BY DEF Reference
<1> QED BY <1>1, <1>2, RemapStep DEF Map

LEMMA MapBelowStep ==
    ASSUME StorageInv, NEW w \in Windows, NEW c, MapBelow(w, c)
    PROVE  StorageInv' /\ Quiet
<1> DEFINE p == Top(current).program
           entries == Placed(<<>>, w, p)
<1>1. Remap(w, entries, Reference(c)) /\ p # Nucleus
    BY DEF MapBelow, Remap
<1>2. Top(current) \in AnyFrames
    BY TopsTyped DEF StorageInv, Live, Top
<1>3. p \in Cells
    BY <1>1, <1>2, FrameParts
<1> HIDE DEF p
<1>4. entries \in Seq(AnyEntries)
    <2>1. <<>> \in Seq(AnyEntries)
        OBVIOUS
    <2> QED BY <1>3, <2>1, PlacedTyped
<1>5. Reference(c) \in [Cells -> Nat]
    BY DEF Reference
<1> HIDE DEF entries
<1> QED BY <1>1, <1>4, <1>5, RemapStep

LEMMA UnmapStep ==
    ASSUME StorageInv, NEW w \in Windows, Unmap(w)
    PROVE  StorageInv' /\ Quiet
<1>1. <<>> \in Seq(AnyEntries) /\ NoReference \in [Cells -> Nat]
    BY DEF NoReference
<1> QED BY <1>1, RemapStep DEF Unmap

LEMMA MappableIs ==
    ASSUME StorageInv, NEW c \in Mappable, Top(current).program # Nucleus
    PROVE  c \in Cells
<1>1. current \in Tasks /\ stack[current] # <<>> /\ Top(current) \in AnyFrames
    BY TopsTyped DEF StorageInv, Live, Top
<1>2. CASE c = Top(current).program
    BY <1>1, <1>2, FrameParts
<1>3. CASE c \in held \cup Queued
    BY <1>3 DEF StorageInv, Queued
<1>4. CASE /\ Depth(current) # 1
           /\ \E w \in Windows : \E e \in Shown(block, stack[current][Depth(current) - 1], w) : c = e.cell
    <2> DEFINE prev == stack[current][Depth(current) - 1]
    <2>1. prev \in AnyFrames
        <3> DEFINE s == stack[current]
                   n == Len(s)
        <3>1. s \in Seq(AnyFrames)
            BY <1>1 DEF StorageInv
        <3>2. s # <<>> /\ n # 1 /\ prev = s[n - 1]
            BY <1>1, <1>4 DEF Depth
        <3> HIDE DEF s, prev
        <3>3. n \in Nat \ {0} /\ DOMAIN s = 1..n
            BY <3>1, <3>2
        <3> HIDE DEF n
        <3>4. n - 1 \in DOMAIN s
            BY <3>2, <3>3
        <3> QED BY <3>1, <3>2, <3>4
    <2>2. block \in [Cells -> Blocks]
        BY DEF StorageInv, Stored, BlocksSound
    <2> HIDE DEF prev
    <2>3. PICK w \in Windows : \E e \in Shown(block, prev, w) : c = e.cell
        BY <1>4 DEF prev
    <2>4. PICK e \in Shown(block, prev, w) : c = e.cell
        BY <2>3
    <2>5. e \in AnyEntries
        BY <2>1, <2>2, <2>4, ShownIs
    <2> QED BY <2>4, <2>5 DEF AnyEntries
<1> QED BY <1>2, <1>3, <1>4 DEF Mappable

(* The tops of all stacks stay.                                            *)
LEMMA StacksKept ==
    ASSUME StorageInv, stack' = stack, current' = current, held' \in SUBSET Cells,
           Stored(block', arena'), KeepsModules(block, block'),
           transient' # transient => transient \in Cells /\ block'[transient].module \notin InPlace
    PROVE  StorageInv' /\ Quiet
BY DEF StorageInv, Live, Quiet

LEMMA OneBlockModules ==
    ASSUME Stored(block, arena), NEW c \in Cells, NEW r,
           r.module = block[c].module \/ r.module \notin InPlace
    PROVE  KeepsModules(block, [block EXCEPT ![c] = r])
<1>1. block \in [Cells -> Blocks]
    BY DEF Stored, BlocksSound
<1> QED BY <1>1 DEF KeepsModules

LEMMA AttachTaskStep ==
    ASSUME StorageInv, NEW c \in Free, AttachTask(c)
    PROVE  StorageInv' /\ Quiet
<1> DEFINE at == AllocatedAt(arena, 1)
           a  == Allocate(arena, 1)
           r  == NewProgram(Region, at, 1)
<1>1. /\ CanAllocate(arena, 1) /\ block' = [block EXCEPT ![c] = r] /\ arena' = a
      /\ held' = held \cup {c} /\ stack' = stack /\ transient' = transient /\ current' = current
    BY DEF AttachTask
<1>2. Stored(block, arena) /\ ArenaSound(arena)
    BY DEF StorageInv, Stored
<1>3. c \in Cells
    BY DEF Free
<1>4. /\ at \in Pages /\ PageRange(at, 1) \subseteq Pages
      /\ PageRange(at, 1) \cap Assigned(arena) = {}
      /\ ArenaSound(a) /\ Assigned(a) = Assigned(arena) \cup PageRange(at, 1)
    BY <1>1, <1>2, AllocatingPages
<1>5. at \in 0..LastPage /\ 1 \in 0..2 /\ Region \in Modules \cup {Region} /\ 0 \notin PageRange(at, 1)
    BY <1>4, LastPageAssumption DEF Pages
<1> HIDE DEF at, a
<1>6. r \in Blocks
    BY <1>5, NewProgramTyped
<1>7. r.kind = "program" /\ r.module = Region /\ r.at = at /\ r.pages = 1 /\ r.tail = 0
    BY DEF NewProgram
<1> HIDE DEF r
<1>8. ExtentSound(r)
    <2>1. at + 1 - 1 = at
        BY <1>5
    <2> QED BY <1>4, <1>5, <1>7, <2>1 DEF ExtentSound
<1>9. Occupied(r) = PageRange(at, 1)
    BY <1>6, <1>7, <1>8, OccupiedIs
<1>10. Stored([block EXCEPT ![c] = r], a)
    BY <1>2, <1>4, <1>6, <1>7, <1>8, <1>9, NewCell
<1>11. KeepsModules(block, [block EXCEPT ![c] = r])
    BY <1>2, <1>3, <1>7, OneBlockModules, InPlaceIs
<1>12. held' \in SUBSET Cells
    BY <1>1, <1>3 DEF StorageInv
<1> QED BY <1>1, <1>10, <1>11, <1>12, StacksKept

LEMMA DetachTaskStep ==
    ASSUME StorageInv, NEW c \in held, DetachTask(c)
    PROVE  StorageInv' /\ Quiet
<1>1. /\ Release(block, arena, Reference(c)) /\ held' = held \ {c}
      /\ stack' = stack /\ current' = current
    BY DEF DetachTask
<1>2. Reference(c) \in [Cells -> Nat]
    BY DEF Reference
<1>3. Stored(block, arena) /\ held' \in SUBSET Cells
    BY <1>1 DEF StorageInv
<1>4. /\ Stored(block', arena') /\ KeepsModules(block, block')
      /\ transient' # transient => transient \in Cells /\ block'[transient].module \notin InPlace
    BY <1>1, <1>2, <1>3, Releasing
<1> QED BY <1>1, <1>3, <1>4, StacksKept

LEMMA CreateWorkSpaceStep ==
    ASSUME StorageInv, NEW c \in Free, NEW form \in SpaceForms, CreateWorkSpace(c, form)
    PROVE  StorageInv' /\ Quiet
<1> DEFINE r == NewSpace(form, current)
<1>1. /\ block' = [block EXCEPT ![c] = r]
      /\ held' = held /\ stack' = stack /\ transient' = transient /\ current' = current
      /\ arena' = arena
    BY DEF CreateWorkSpace
<1>2. Stored(block, arena) /\ ArenaSound(arena) /\ current \in Tasks
    BY DEF StorageInv, Stored
<1>3. c \in Cells /\ block[c] = NoBlock /\ Occupied(block[c]) = {}
    BY <1>2, FreeIs
<1>4. r \in Blocks
    BY <1>2, NewSpaceTyped
<1>5. r.kind = "space" /\ r.module = Nucleus /\ r.at = 0 /\ r.pages = 0 /\ r.tail = 0
    BY DEF NewSpace
<1> HIDE DEF r
<1>6. ExtentSound(r)
    BY <1>5 DEF ExtentSound
<1>7. PageRange(0, 0) = {}
    BY DEF PageRange
<1>8. Occupied(r) = {}
    BY <1>5, <1>7 DEF Occupied
<1>9. Stored([block EXCEPT ![c] = r], arena)
    BY <1>2, <1>3, <1>4, <1>5, <1>6, <1>8, Replacing
<1>10. KeepsModules(block, [block EXCEPT ![c] = r])
    BY <1>2, <1>3, <1>5, OneBlockModules, InPlaceIs
<1>11. held' \in SUBSET Cells
    BY <1>1 DEF StorageInv
<1> QED BY <1>1, <1>9, <1>10, <1>11, StacksKept

LEMMA DeleteWorkSpaceStep ==
    ASSUME StorageInv, NEW c \in Queued, DeleteWorkSpace(c)
    PROVE  StorageInv' /\ Quiet
<1>1. c \in Cells /\ block[c].kind = "space"
    BY DEF Queued
<1>2. /\ held' = held /\ stack' = stack /\ transient' = transient /\ current' = current
      /\ held' \in SUBSET Cells
    BY DEF DeleteWorkSpace, StorageInv
<1>3. Stored(block, arena) /\ ArenaSound(arena) /\ block \in [Cells -> Blocks]
    BY DEF StorageInv, Stored, BlocksSound
<1>4. Occupied(block[c]) \subseteq Assigned(arena)
    BY <1>1, <1>3 DEF Stored, Apart
<1>5. CASE block[c].use = 0
    <2>1. block' = [block EXCEPT ![c] = NoBlock] /\ arena' = ReturnPages(arena, Occupied(block[c]))
        BY <1>5 DEF DeleteWorkSpace
    <2>2. /\ ArenaSound(arena') /\ Assigned(arena') = Assigned(arena) \ Occupied(block[c])
        BY <1>3, <1>4, <2>1, ReturningPages
    <2>3. Stored(block', arena')
        <3> DEFINE r == NoBlock
        <3>1. /\ r \in Blocks /\ ExtentSound(r) /\ Occupied(r) = {}
              /\ r.kind = "none" => r = NoBlock
            BY NoBlockIs, NoBlockSound
        <3>2. block' = [block EXCEPT ![c] = r]
            BY <2>1
        <3> HIDE DEF r
        <3>3. /\ Occupied(r) \cap (Assigned(arena) \ Occupied(block[c])) = {}
              /\ Assigned(arena') = (Assigned(arena) \ Occupied(block[c])) \cup Occupied(r)
            BY <2>2, <3>1
        <3>4. Stored([block EXCEPT ![c] = r], arena')
            BY <1>1, <1>3, <2>2, <3>1, <3>3, Replacing
        <3> QED BY <3>2, <3>4
    <2>4. KeepsModules(block, block')
        BY <1>1, <1>3, <2>1, OneBlockModules, NoBlockIs, InPlaceIs
    <2> QED BY <1>2, <2>3, <2>4, StacksKept
<1>6. CASE block[c].use # 0
    <2> DEFINE r == LetGo(block[c])
    <2>1. block' = [block EXCEPT ![c] = r] /\ arena' = arena
        BY <1>6 DEF DeleteWorkSpace
    <2>2. block[c] \in Blocks /\ ExtentSound(block[c])
        BY <1>1, <1>3 DEF Stored, BlocksSound
    <2>3. /\ r \in Blocks /\ r.kind = block[c].kind /\ r.module = block[c].module
          /\ r.at = block[c].at /\ r.pages = block[c].pages /\ r.tail = block[c].tail
        BY <2>2, LetGoIs
    <2> HIDE DEF r
    <2>4. ExtentSound(r) /\ Occupied(r) = Occupied(block[c])
        BY <2>2, <2>3 DEF ExtentSound, Occupied
    <2>5. r.kind # "none"
        BY <1>1, <2>3
    <2>6. Assigned(arena) = (Assigned(arena) \ Occupied(block[c])) \cup Occupied(r)
        BY <1>4, <2>4
    <2>7. Occupied(r) \cap (Assigned(arena) \ Occupied(block[c])) = {}
        BY <2>4
    <2>8. Stored([block EXCEPT ![c] = r], arena)
        BY <1>1, <1>3, <2>3, <2>4, <2>5, <2>6, <2>7, Replacing
    <2>9. KeepsModules(block, block')
        BY <1>1, <1>3, <2>1, <2>3, OneBlockModules
    <2> QED BY <1>2, <2>1, <2>8, <2>9, StacksKept
<1> QED BY <1>5, <1>6

LEMMA AssignAreaStep ==
    ASSUME StorageInv, NEW c \in Queued \cup held, AssignArea(c)
    PROVE  StorageInv' /\ Quiet
<1> DEFINE r == Addressable(block[c])
           b == [block EXCEPT ![c] = r]
           s == stack[current]
<1>1. Rebuild(b, arena, s) /\ held' = held /\ transient' = transient /\ current' = current
    BY DEF AssignArea
<1>2. c \in Cells /\ block[c].kind # "none"
    BY DEF AssignArea, Raisable, Queued, StorageInv
<1>3. Stored(block, arena) /\ block[c] \in Blocks /\ ExtentSound(block[c]) /\ ArenaSound(arena)
    BY <1>2 DEF StorageInv, Stored, BlocksSound
<1>4. /\ r \in Blocks /\ r.kind = block[c].kind /\ r.module = block[c].module
      /\ r.at = block[c].at /\ r.pages = block[c].pages /\ r.tail = block[c].tail
    BY <1>3, AddressableIs
<1> HIDE DEF r
<1>5. ExtentSound(r) /\ Occupied(r) = Occupied(block[c]) /\ r.kind # "none"
    BY <1>2, <1>3, <1>4 DEF ExtentSound, Occupied
<1>6. Occupied(block[c]) \subseteq Assigned(arena)
    BY <1>2, <1>3 DEF Stored, Apart
<1>7. /\ Assigned(arena) = (Assigned(arena) \ Occupied(block[c])) \cup Occupied(r)
      /\ Occupied(r) \cap (Assigned(arena) \ Occupied(block[c])) = {}
    BY <1>5, <1>6
<1>8. Stored(b, arena)
    BY <1>2, <1>3, <1>4, <1>5, <1>7, Replacing
<1>9. KeepsModules(block, b)
    BY <1>2, <1>3, <1>4, OneBlockModules
<1>10. s \in Seq(AnyFrames) /\ s # <<>> /\ current \in Tasks
    BY DEF StorageInv, Live
<1> HIDE DEF b
<1>11. /\ Stored(block', arena') /\ KeepsModules(block, block')
       /\ stack' \in [Tasks -> Seq(AnyFrames)]
       /\ \A t \in Tasks \ {current} : stack'[t] = stack[t]
       /\ stack'[current] # <<>>
       /\ Last(stack'[current]).program = Last(s).program
    BY <1>1, <1>8, <1>9, <1>10, Rebuilding
<1>12. StorageInv'
    BY <1>1, <1>10, <1>11 DEF StorageInv, Live
<1>13. Quiet
    BY <1>1, <1>10, <1>11 DEF Quiet
<1> QED BY <1>12, <1>13

LEMMA TakeTurnStep ==
    ASSUME StorageInv, NEW t \in Tasks, TakeTurn(t)
    PROVE  StorageInv' /\ Quiet
<1>1. /\ stack' = stack /\ block' = block /\ held' = held /\ transient' = transient
      /\ arena' = arena /\ current' = t /\ stack[t] # <<>>
    BY DEF TakeTurn, Live
<1> QED BY <1>1 DEF StorageInv, Live, Quiet, KeepsModules

LEMMA RebasedTyped ==
    ASSUME NEW f \in AnyFrames, NEW old, NEW at \in Pages
    PROVE  /\ Rebased(f, old, at) \in AnyFrames
           /\ Rebased(f, old, at).program = f.program /\ Rebased(f, old, at).map = f.map
           /\ Rebased(f, old, at).stale = f.stale
           /\ Rebased(f, old, at).image =
                 {IF x[3] = old THEN <<x[1], x[2], at>> ELSE x : x \in f.image}
<1> DEFINE image == {IF x[3] = old THEN <<x[1], x[2], at>> ELSE x : x \in f.image}
<1>1. image \in SUBSET (Cells \X {0, 1} \X Pages)
    BY FrameParts
<1>2. Rebased(f, old, at) = [f EXCEPT !.image = image]
    BY DEF Rebased
<1> HIDE DEF image
<1>3. [f EXCEPT !.image = image] \in AnyFrames
    BY <1>1 DEF AnyFrames
<1>4. /\ [f EXCEPT !.image = image].program = f.program
      /\ [f EXCEPT !.image = image].map = f.map
      /\ [f EXCEPT !.image = image].stale = f.stale
      /\ [f EXCEPT !.image = image].image = image
    BY <1>3, Zenon DEF AnyFrames
<1> QED BY <1>2, <1>3, <1>4 DEF image

LEMMA MarkedTyped ==
    ASSUME NEW f \in AnyFrames, NEW stale \in BOOLEAN
    PROVE  /\ Marked(f, stale) \in AnyFrames
           /\ Marked(f, stale).program = f.program /\ Marked(f, stale).map = f.map
           /\ Marked(f, stale).image = f.image
           /\ Marked(f, stale).stale = (f.stale \/ stale)
<1> DEFINE v == f.stale \/ stale
<1>1. v \in BOOLEAN
    OBVIOUS
<1>2. Marked(f, stale) = [f EXCEPT !.stale = v]
    BY DEF Marked
<1> HIDE DEF v
<1>3. [f EXCEPT !.stale = v] \in AnyFrames
    BY <1>1 DEF AnyFrames
<1>4. /\ [f EXCEPT !.stale = v].program = f.program
      /\ [f EXCEPT !.stale = v].map = f.map
      /\ [f EXCEPT !.stale = v].image = f.image
      /\ [f EXCEPT !.stale = v].stale = v
    BY <1>3, Zenon DEF AnyFrames
<1> QED BY <1>2, <1>3, <1>4 DEF v

(* A region's extent becomes two pages, in place or elsewhere.             *)
LEMMA EnlargingIs ==
    ASSUME StorageInv, NEW c \in Cells, block[c].module = Region, block[c].pages = 1,
           CanGrow(arena, block[c].at, 1, 2), NEW elsewhere \in BOOLEAN
    PROVE  LET at == GrownAt(arena, block[c].at, 1, 2)
               n  == [block EXCEPT ![c] = Enlarged(block[c], at, elsewhere)]
           IN  /\ at \in Pages
               /\ Stored(n, Grown(arena, block[c].at, 1, 2))
               /\ \A d \in Cells : n[d].module = block[d].module
<1> DEFINE r  == block[c]
           at == GrownAt(arena, r.at, 1, 2)
           a  == Grown(arena, r.at, 1, 2)
           e  == Enlarged(r, at, elsewhere)
           n  == [block EXCEPT ![c] = e]
<1>1. Stored(block, arena) /\ ArenaSound(arena) /\ block \in [Cells -> Blocks]
    BY DEF StorageInv, Stored, BlocksSound
<1>2. r \in Blocks /\ ExtentSound(r) /\ (r.kind = "none" => r = NoBlock)
    BY <1>1 DEF Stored, BlocksSound
<1>3. r.kind # "none"
    BY <1>2, NoBlockIs, ProgramsAssumption
<1>4. Occupied(r) = PageRange(r.at, 1) \cup ({r.tail} \ {0}) /\ Occupied(r) \subseteq Assigned(arena)
    <2>1. Occupied(r) = PageRange(r.at, r.pages) \cup ({r.tail} \ {0})
        BY <1>2, OccupiedIs
    <2>2. Occupied(r) \subseteq Assigned(arena)
        BY <1>1 DEF Stored, Apart
    <2> QED BY <2>1, <2>2
<1>5. r.at \in Pages /\ r.tail \notin PageRange(r.at, 1) /\ r.tail \in 0..LastPage
    BY <1>2 DEF ExtentSound, Blocks
<1>6. r.pages = 1 /\ r.module = Region /\ CanGrow(arena, r.at, 1, 2)
    OBVIOUS
<1> HIDE DEF r
<1>7. /\ at \in Pages /\ at + 2 - 1 \in Pages /\ PageRange(at, 2) \subseteq Pages
      /\ PageRange(at, 2) \cap (Assigned(arena) \ PageRange(r.at, 1)) = {}
      /\ ArenaSound(a)
      /\ Assigned(a) = (Assigned(arena) \ PageRange(r.at, 1)) \cup PageRange(at, 2)
    <2>1. r.at \in Nat /\ 1 \in Nat \ {0} /\ 2 \in Nat /\ 1 <= 2
        BY <1>5 DEF Pages
    <2>2. PageRange(r.at, 1) \subseteq Assigned(arena)
        BY <1>4
    <2> QED BY <1>1, <1>6, <2>1, <2>2, GrowingPages
<1> HIDE DEF at, a
<1>8. at \in 0..LastPage
    BY <1>7 DEF Pages
<1>9. /\ e \in Blocks /\ e.at = at /\ e.pages = 2 /\ e.kind = r.kind
      /\ e.module = r.module /\ e.tail = r.tail
    BY <1>2, <1>8, EnlargedIs
<1> HIDE DEF e
<1>10. e.tail \notin PageRange(at, 2)
    <2>1. CASE r.tail = 0
        BY <2>1, <1>7, <1>9 DEF Pages
    <2>2. CASE r.tail # 0
        BY <2>2, <1>4, <1>5, <1>7, <1>9
    <2> QED BY <2>1, <2>2
<1>11. ExtentSound(e)
    BY <1>7, <1>9, <1>10 DEF ExtentSound
<1>12. Occupied(e) = PageRange(at, 2) \cup ({r.tail} \ {0})
    BY <1>9, <1>11, OccupiedIs
<1>13. Occupied(e) \cap (Assigned(arena) \ Occupied(r)) = {}
    BY <1>4, <1>7, <1>12
<1>14. Assigned(a) = (Assigned(arena) \ Occupied(r)) \cup Occupied(e)
    BY <1>4, <1>5, <1>7, <1>12
<1>15. Stored(n, a)
    <2>1. e.kind = "none" => e = NoBlock
        BY <1>3, <1>9
    <2>2. Occupied(e) \cap (Assigned(arena) \ Occupied(block[c])) = {}
        BY <1>13 DEF r
    <2>3. Assigned(a) = (Assigned(arena) \ Occupied(block[c])) \cup Occupied(e)
        BY <1>14 DEF r
    <2> QED BY <1>1, <1>7, <1>9, <1>11, <2>1, <2>2, <2>3, Replacing
<1>16. \A d \in Cells : n[d].module = block[d].module
    BY <1>1, <1>9 DEF r
<1> QED BY <1>7, <1>15, <1>16 DEF n, e, at, a, r

LEMMA GrowStep ==
    ASSUME StorageInv, NEW c \in Cells, NEW outerStale \in BOOLEAN, Grow(c, outerStale)
    PROVE  StorageInv' /\ Quiet
<1> DEFINE at     == GrownAt(arena, block[c].at, 1, 2)
           moved(t, i) == Marked(Rebased(stack[t][i], block[c].at, at),
                                 outerStale /\ t = current /\ i < Depth(t))
           stacks == [t \in Tasks |-> [i \in DOMAIN stack[t] |-> moved(t, i)]]
           elsewhere == ShownElsewhere(stacks, c)
           bigger == [block EXCEPT ![c] = Enlarged(block[c], at, elsewhere)]
           a      == Grown(arena, block[c].at, 1, 2)
           top    == Last(stacks[current])
           loaded == Loaded(bigger, a, top)
           built  == Built(loaded, top)
           s      == Append(Front(stacks[current]), built)
<1>1. /\ block[c].module = Region /\ block[c].pages = 1 /\ CanGrow(arena, block[c].at, 1, 2)
      /\ block' = loaded /\ arena' = ArenaLoaded(bigger, a, top)
      /\ stack' = [stacks EXCEPT ![current] = s]
      /\ held' = held /\ transient' = transient /\ current' = current
    BY DEF Grow
<1>0. elsewhere \in BOOLEAN
    BY DEF ShownElsewhere
<1> HIDE DEF elsewhere
<1>2. at \in Pages /\ Stored(bigger, a) /\ \A d \in Cells : bigger[d].module = block[d].module
    BY <1>0, <1>1, EnlargingIs
<1>3. current \in Tasks /\ stack[current] # <<>> /\ stack \in [Tasks -> Seq(AnyFrames)]
    BY DEF StorageInv, Live
<1> HIDE DEF at, bigger, a
<1>4. ASSUME NEW t \in Tasks, NEW i \in DOMAIN stack[t]
      PROVE  moved(t, i) \in AnyFrames /\ moved(t, i).program = stack[t][i].program
    <2>1. stack[t][i] \in AnyFrames
        BY <1>3
    <2> DEFINE f == stack[t][i]
               g == Rebased(f, block[c].at, at)
               m == outerStale /\ t = current /\ i < Depth(t)
    <2> HIDE DEF f
    <2>2. g \in AnyFrames /\ g.program = f.program
        BY <1>2, <2>1, RebasedTyped DEF f
    <2>3. m \in BOOLEAN
        OBVIOUS
    <2> HIDE DEF g, m
    <2>4. Marked(g, m) \in AnyFrames /\ Marked(g, m).program = g.program
        BY <2>2, <2>3, MarkedTyped
    <2> QED BY <2>2, <2>4 DEF f, g, m
<1> HIDE DEF moved
<1>5. ASSUME NEW t \in Tasks
      PROVE  /\ stacks[t] \in Seq(AnyFrames) /\ Len(stacks[t]) = Len(stack[t])
             /\ stacks[t] = <<>> <=> stack[t] = <<>>
             /\ stack[t] # <<>> => Last(stacks[t]).program = Last(stack[t]).program
    <2> DEFINE n == Len(stack[t])
               l == [i \in 1..n |-> moved(t, i)]
    <2>1. n \in Nat /\ DOMAIN stack[t] = 1..n /\ stack[t] \in Seq(AnyFrames)
        BY <1>3
    <2>2. \A i \in 1..n : moved(t, i) \in AnyFrames /\ moved(t, i).program = stack[t][i].program
        BY <1>4, <2>1
    <2>3. stacks[t] = l
        BY <2>1
    <2>4. stack[t] = <<>> <=> n = 0
        BY <2>1
    <2> HIDE DEF n, stacks
    <2>5. l \in Seq(AnyFrames) /\ Len(l) = n
        BY <2>1, <2>2
    <2>6. l = <<>> <=> n = 0
        <3> HIDE DEF l
        <3> QED BY <2>5
    <2>7. ASSUME n # 0 PROVE Last(l).program = Last(stack[t]).program
        <3>1. n \in 1..n
            BY <2>1, <2>7
        <3>2. Last(l) = moved(t, n)
            BY <2>5, <3>1 DEF Last
        <3>3. Last(stack[t]) = stack[t][n]
            BY DEF Last, n
        <3> QED BY <2>2, <3>1, <3>2, <3>3
    <2> QED BY <2>3, <2>4, <2>5, <2>6, <2>7 DEF n
<1>6. stacks \in [Tasks -> Seq(AnyFrames)]
    BY <1>5
<1> HIDE DEF stacks
<1>7. stacks[current] \in Seq(AnyFrames) /\ stacks[current] # <<>>
    BY <1>3, <1>5
<1>8. top \in AnyFrames /\ Front(stacks[current]) \in Seq(AnyFrames)
    BY <1>7, SequenceParts
<1> HIDE DEF top
<1>9. Stored(block', arena')
    BY <1>1, <1>2, <1>8, LoadedIs
<1>10. \A d \in Cells : block'[d].module = block[d].module
    BY <1>1, <1>2, <1>8, LoadedModules
<1>11. loaded \in [Cells -> Blocks]
    BY <1>1, <1>9 DEF Stored, BlocksSound
<1> HIDE DEF loaded
<1>12. built \in AnyFrames /\ built.program = top.program
    BY <1>8, <1>11, BuiltTyped
<1> HIDE DEF built
<1>13. s \in Seq(AnyFrames) /\ s # <<>> /\ Last(s) = built
    BY <1>8, <1>12, Appending
<1> HIDE DEF s
<1>14. /\ stack' \in [Tasks -> Seq(AnyFrames)] /\ stack'[current] = s
       /\ \A t \in Tasks \ {current} : stack'[t] = stacks[t]
    BY <1>1, <1>3, <1>6, <1>13
<1>15. StorageInv'
    BY <1>1, <1>3, <1>9, <1>13, <1>14 DEF StorageInv, Live
<1>16. Quiet
    <2>1. ASSUME NEW t \in Tasks, stack'[t] # <<>>
          PROVE  stack[t] # <<>> /\ Last(stack'[t]).program = Last(stack[t]).program
        <3>1. CASE t = current
            BY <3>1, <1>3, <1>5, <1>12, <1>13, <1>14 DEF top
        <3>2. CASE t # current
            BY <2>1, <3>2, <1>5, <1>14
        <3> QED BY <3>1, <3>2
    <2>2. KeepsModules(block, block')
        BY <1>10 DEF KeepsModules
    <2> QED BY <1>1, <2>1, <2>2 DEF Quiet
<1> QED BY <1>15, <1>16

LEMMA GetPageStep ==
    ASSUME StorageInv, GetPage
    PROVE  StorageInv' /\ Quiet
<1> DEFINE p == Top(current).program
<1>1. p # Nucleus /\ Grow(p, FALSE)
    BY DEF GetPage
<1>2. Top(current) \in AnyFrames
    BY TopsTyped DEF StorageInv, Live, Top
<1>3. p \in Cells
    BY <1>1, <1>2, FrameParts
<1> HIDE DEF p
<1>4. FALSE \in BOOLEAN
    OBVIOUS
<1> QED BY <1>1, <1>3, <1>4, GrowStep

(* Every task whose newest request block runs a program in the system      *)
(* transient area would find it there.                                     *)
TransientInv ==
    \A t \in Tasks : stack[t] # <<>> /\ ModuleOf(block, Last(stack[t]).program) \in InPlace =>
        transient = Last(stack[t]).program

LEMMA QuietKeeps ==
    ASSUME StorageInv, TransientInv, Quiet
    PROVE  TransientInv'
<1> SUFFICES ASSUME NEW t \in Tasks, stack'[t] # <<>>,
                    ModuleOf(block', Last(stack'[t]).program) \in InPlace
             PROVE  transient' = Last(stack'[t]).program
    BY DEF TransientInv, ModuleOf
<1> DEFINE q == Last(stack'[t]).program
<1>1. stack[t] # <<>> /\ q = Last(stack[t]).program
    BY DEF Quiet
<1>2. q \in Cells \cup {Nucleus}
    BY <1>1, TopsTyped, FrameParts
<1>3. ModuleOf(block', q) \in InPlace
    OBVIOUS
<1> HIDE DEF q
<1>4. q \in Cells /\ q # Nucleus /\ block'[q].module \in InPlace
    BY <1>2, <1>3, InPlaceIs DEF ModuleOf
<1>5. block[q].module \in InPlace
    BY <1>4 DEF Quiet, KeepsModules
<1>6. transient = q
    BY <1>1, <1>4, <1>5 DEF TransientInv, ModuleOf
<1> QED BY <1>4, <1>6 DEF Quiet, q

(* A task goes on in program p.                                            *)
LEMMA Entering ==
    ASSUME StorageInv, NEW u \in Tasks, NEW p \in Cells \cup {Nucleus},
           \A t \in Tasks \ {u} : stack'[t] = stack[t],
           stack'[u] # <<>>, Last(stack'[u]).program = p,
           \A d \in Cells \ {p} : \/ block'[d].module = block[d].module
                                  \/ block'[d].module \notin InPlace,
           \/ /\ ~AreaContended /\ transient' = p
              /\ Undisturbed([stack EXCEPT ![u] = <<>>], p)
           \/ /\ TransientInv /\ ModuleOf(block', p) \notin InPlace
              /\ transient' # transient =>
                    transient \in Cells /\ block'[transient].module \notin InPlace
    PROVE  TransientInv'
<1> SUFFICES ASSUME NEW t \in Tasks, stack'[t] # <<>>,
                    ModuleOf(block', Last(stack'[t]).program) \in InPlace
             PROVE  transient' = Last(stack'[t]).program
    BY DEF TransientInv, ModuleOf
<1>1. CASE t = u
    BY <1>1
<1>2. CASE t # u
    <2> DEFINE q == Last(stack'[t]).program
    <2>1. stack[t] # <<>> /\ q = Last(stack[t]).program
        BY <1>2
    <2>2. q \in Cells \cup {Nucleus}
        BY <2>1, TopsTyped, FrameParts
    <2>3. ModuleOf(block', q) \in InPlace
        OBVIOUS
    <2> HIDE DEF q
    <2>4. q \in Cells /\ q # Nucleus /\ block'[q].module \in InPlace
        BY <2>2, <2>3, InPlaceIs DEF ModuleOf
    <2>5. CASE q = p
        BY <2>3, <2>5 DEF q
    <2>6. CASE q # p
        <3>1. block[q].module \in InPlace /\ ModuleOf(block, q) \in InPlace
            BY <2>4, <2>6 DEF ModuleOf
        <3>2. CASE ~AreaContended /\ Undisturbed([stack EXCEPT ![u] = <<>>], p)
            <4> DEFINE n == [stack EXCEPT ![u] = <<>>]
            <4>1. n[t] = stack[t]
                BY <1>2 DEF StorageInv
            <4> HIDE DEF n
            <4>2. Last(n[t]).program = p \/ ModuleOf(block, Last(n[t]).program) \notin InPlace
                BY <3>2, <4>1, <2>1 DEF Undisturbed, n
            <4> QED BY <4>1, <4>2, <2>1, <2>6, <3>1
        <3>3. CASE /\ TransientInv
                   /\ transient' # transient =>
                         transient \in Cells /\ block'[transient].module \notin InPlace
            <4>1. transient = q
                BY <3>1, <3>3, <2>1 DEF TransientInv
            <4> QED BY <4>1, <3>3, <2>4 DEF q
        <3> QED BY <3>2, <3>3
    <2> QED BY <2>5, <2>6
<1> QED BY <1>1, <1>2

LEMMA ExitStep ==
    ASSUME StorageInv, Exit
    PROVE  StorageInv' /\ (~AreaContended /\ TransientInv => TransientInv')
<1> DEFINE lose == References(Top(current))
           gone == Deleted(block, NoReference, lose)
           b    == Counted(block, NoReference, lose)
           a    == ReturnPages(arena, Vacated(block, gone))
           rest == Front(stack[current])
           p    == Last(rest).program
           Built2 == /\ block' = b /\ arena' = a
                     /\ stack' = [stack EXCEPT ![current] = rest]
<1>1. /\ Len(stack[current]) > 1
      /\ ModuleOf(block, p) \in InPlace => Undisturbed([stack EXCEPT ![current] = <<>>], p)
      /\ Rebuild(b, a, rest) \/ Built2
      /\ transient' = Resumed(p, gone)
      /\ held' = held /\ current' = current
    BY DEF Exit, Depth
<1>2. current \in Tasks /\ stack[current] # <<>> /\ Stored(block, arena) /\ BlocksSound(block)
    BY DEF StorageInv, Live, Stored
<1>3. Top(current) \in AnyFrames /\ rest \in Seq(AnyFrames) /\ rest # <<>>
    <2>1. /\ Last(stack[current]) \in AnyFrames /\ rest \in Seq(AnyFrames)
          /\ Len(stack[current]) \in Nat /\ Len(rest) = Len(stack[current]) - 1
        BY <1>2, TopsTyped
    <2> QED BY <1>1, <2>1 DEF Top
<1>4. Last(rest) \in AnyFrames
    BY <1>3, SequenceParts
<1>5. p \in Cells \cup {Nucleus}
    BY <1>4, FrameParts
<1>6. lose \in [Cells -> Nat] /\ NoReference \in [Cells -> Nat]
    BY <1>3, ReferencesTyped DEF NoReference
<1> HIDE DEF lose, rest
<1>7. Stored(b, a) /\ KeepsModules(block, b)
    BY <1>2, <1>6, Counting, CountedModules
<1>8. \A c \in gone : c \in Cells /\ b[c].module \notin InPlace
    BY <1>2, <1>6, CountedModules
<1> HIDE DEF b, a, gone
<1>9. /\ Stored(block', arena') /\ KeepsModules(block, block')
      /\ \A c \in Cells : b[c].module \notin InPlace => block'[c].module \notin InPlace
      /\ stack' \in [Tasks -> Seq(AnyFrames)]
      /\ \A t \in Tasks \ {current} : stack'[t] = stack[t]
      /\ stack'[current] # <<>>
      /\ Last(stack'[current]).program = p
    <2>1. CASE Rebuild(b, a, rest)
        BY <2>1, <1>3, <1>7, Rebuilding
    <2>2. CASE Built2
        <3>1. /\ stack' \in [Tasks -> Seq(AnyFrames)] /\ stack'[current] = rest
              /\ \A t \in Tasks \ {current} : stack'[t] = stack[t]
            BY <2>2, <1>2, <1>3, StackChanged
        <3> QED BY <2>2, <3>1, <1>3, <1>7
    <2> QED BY <1>1, <2>1, <2>2
<1>10. StorageInv'
    BY <1>1, <1>2, <1>9 DEF StorageInv, Live
<1>11. ASSUME ~AreaContended, TransientInv PROVE TransientInv'
    <2> HIDE DEF p
    <2>1. CASE ModuleOf(block, p) \in InPlace
        <3>1. transient' = p
            BY <1>1, <2>1 DEF Resumed
        <3> QED BY <1>1, <1>2, <1>5, <1>9, <1>11, <2>1, <3>1, Entering DEF KeepsModules
    <2>2. CASE ModuleOf(block, p) \notin InPlace
        <3>1. transient' # transient => transient \in Cells /\ block'[transient].module \notin InPlace
            BY <1>1, <1>8, <1>9, <2>2 DEF Resumed, TransientAfter
        <3>2. ModuleOf(block', p) \notin InPlace
            BY <1>5, <1>9, <2>2, InPlaceIs DEF ModuleOf, KeepsModules
        <3> QED BY <1>2, <1>5, <1>9, <1>11, <3>1, <3>2, Entering DEF KeepsModules
    <2> QED BY <2>1, <2>2
<1> QED BY <1>10, <1>11

(* What a task leaves when its root returns, while the transfer goes on to *)
(* a block come by in `way`.                                               *)
LEMMA EndingIs ==
    ASSUME StorageInv, NEW way, Way(way), NEW ending \in BOOLEAN
    PROVE  LET b == IF ending THEN SpacesReleased(way.block, current) ELSE way.block
               a == IF ending THEN ReturnPages(way.arena, Vacated(block, Unused(block, current)))
                              ELSE way.arena
           IN  Stored(b, a) /\ KeepsModules(way.block, b)
<1>1. CASE ~ending
    BY <1>1 DEF Way, KeepsModules
<1>2. CASE ending
    <2>1. Unused(way.block, current) = Unused(block, current)
        <3>1. ASSUME NEW d \in Cells
              PROVE  d \in Unused(way.block, current) <=> d \in Unused(block, current)
            <4>1. CASE d # way.cell
                BY <4>1 DEF Way, Unused, Owned
            <4>2. CASE d = way.cell
                <5>1. way.block[d].kind # "space"
                    BY <4>2 DEF Way
                <5>2. block[d].kind # "space"
                    BY <4>2, <5>1, NoBlockIs DEF Way
                <5> QED BY <5>1, <5>2 DEF Unused, Owned
            <4> QED BY <4>1, <4>2
        <3> QED BY <3>1 DEF Unused, Owned
    <2>2. Vacated(way.block, Unused(way.block, current)) = Vacated(block, Unused(block, current))
        <3>1. ASSUME NEW d \in Unused(way.block, current) PROVE way.block[d] = block[d]
            <4>1. d \in Cells /\ way.block[d].kind = "space"
                BY DEF Unused, Owned
            <4> QED BY <4>1 DEF Way
        <3> QED BY <2>1, <3>1 DEF Vacated
    <2>3. /\ Stored(SpacesReleased(way.block, current),
                    ReturnPages(way.arena, Vacated(way.block, Unused(way.block, current))))
          /\ KeepsModules(way.block, SpacesReleased(way.block, current))
        BY SpacesReleasedIs DEF Way, StorageInv
    <2> QED BY <1>2, <2>2, <2>3
<1> QED BY <1>1, <1>2

LEMMA HeaderTyped ==
    ASSUME NEW header \in Headers
    PROVE  header.window \in Windows /\ (header.cell # Nobody => header.cell \in Cells)
BY DEF Headers, Queued

LEMMA TransferStep ==
    ASSUME StorageInv, NEW way \in Callees, NEW u \in Tasks, NEW discard \in BOOLEAN,
           NEW header \in Headers, NEW ending \in BOOLEAN,
           Transfer(way, u, discard, header, ending)
    PROVE  StorageInv' /\ (~AreaContended /\ TransientInv => TransientInv')
<1> DEFINE caller == Top(current)
           c      == way.cell
           m      == way.block[c].module
           plain  == Inherited(way.block, caller, m)
           map    == IF header.cell = Nobody THEN plain
                     ELSE Placed(plain, header.window, header.cell)
           frame  == [program |-> c, map |-> map, image |-> {}, stale |-> FALSE]
           below  == IF discard THEN Front(stack[u]) ELSE stack[u]
           lost   == IF discard THEN References(caller) ELSE NoReference
           a      == IF ending THEN ReturnPages(way.arena, Vacated(block, Unused(block, current)))
                               ELSE way.arena
           b      == IF ending THEN SpacesReleased(way.block, current) ELSE way.block
           gained == Counted(b, References(frame), NoReference)
           a2     == ArenaLoaded(gained, a, frame)
           loaded == Loaded(gained, a, frame)
           gone   == Deleted(loaded, NoReference, lost)
           built  == Built(loaded, frame)
           s      == Append(below, built)
<1>1. /\ u # current => ~Live(u) /\ ~discard
      /\ Len(map) <= MaxEntries
      /\ m \in InPlace => Undisturbed([stack EXCEPT ![u] = <<>>], c)
      /\ block' = Counted(loaded, NoReference, lost)
      /\ arena' = ReturnPages(a2, Vacated(loaded, gone))
      /\ stack' = [stack EXCEPT ![u] = s]
      /\ transient' = IF m \in InPlace THEN c ELSE TransientAfter(gone)
      /\ held' = held /\ current' = current
    BY Zenon DEF Transfer, Attachable
<1>2. Way(way)
    BY CalleesAre DEF StorageInv
<1>3. /\ c \in Cells /\ way.block \in [Cells -> Blocks]
      /\ \A d \in Cells \ {c} : way.block[d] = block[d]
    BY <1>2 DEF Way, Stored, BlocksSound
<1>4. current \in Tasks /\ stack[current] # <<>> /\ caller \in AnyFrames
    BY TopsTyped DEF StorageInv, Live, Top
<1>5. Stored(b, a) /\ KeepsModules(way.block, b)
    BY <1>2, EndingIs
<1> HIDE DEF c, caller
<1>6. map \in Seq(AnyEntries)
    <2>1. plain \in Seq(AnyEntries)
        BY <1>3, <1>4, InheritedTyped
    <2> HIDE DEF plain
    <2>2. CASE header.cell = Nobody
        BY <2>1, <2>2
    <2>3. CASE header.cell # Nobody
        <3>1. Placed(plain, header.window, header.cell) \in Seq(AnyEntries)
            BY <2>1, <2>3, HeaderTyped, PlacedTyped
        <3> QED BY <2>3, <3>1
    <2> QED BY <2>2, <2>3
<1> HIDE DEF map, m, a, b
<1>7. frame \in AnyFrames /\ frame.program = c
    BY <1>1, <1>3, <1>6 DEF AnyFrames
<1> HIDE DEF frame
<1>8. NoReference \in [Cells -> Nat] /\ References(frame) \in [Cells -> Nat]
    BY <1>7, ReferencesTyped DEF NoReference
<1>9. lost \in [Cells -> Nat]
    <2>1. References(caller) \in [Cells -> Nat]
        BY <1>4, ReferencesTyped
    <2> QED BY <1>8, <2>1
<1> HIDE DEF lost
<1>10. Stored(gained, a) /\ KeepsModules(b, gained)
    <2>1. Stored(gained, a)
        BY <1>5, <1>8, Gaining
    <2>2. BlocksSound(b)
        BY <1>5 DEF Stored
    <2> QED BY <1>8, <2>1, <2>2, CountedModules
<1> HIDE DEF gained
<1>11. Stored(loaded, a2) /\ \A d \in Cells : loaded[d].module = gained[d].module
    BY <1>7, <1>10, LoadedIs, LoadedModules
<1> HIDE DEF loaded, a2
<1>12. Stored(block', arena') /\ KeepsModules(loaded, block')
    <2>1. BlocksSound(loaded)
        BY <1>11 DEF Stored
    <2>2. Stored(block', arena')
        BY <1>1, <1>8, <1>9, <1>11, Counting
    <2> QED BY <1>1, <1>8, <1>9, <2>1, <2>2, CountedModules
<1>13. \A d \in gone : d \in Cells /\ block'[d].module \notin InPlace
    <2>1. BlocksSound(loaded)
        BY <1>11 DEF Stored
    <2> QED BY <1>1, <1>8, <1>9, <2>1, CountedModules
<1> HIDE DEF gone
<1>14. KeepsModules(way.block, block')
    BY <1>5, <1>10, <1>11, <1>12 DEF KeepsModules
<1>15. built \in AnyFrames /\ built.program = c
    <2>1. loaded \in [Cells -> Blocks]
        BY <1>11 DEF Stored, BlocksSound
    <2> QED BY <1>7, <2>1, BuiltTyped
<1> HIDE DEF built
<1>16. below \in Seq(AnyFrames)
    <2>1. CASE discard
        <3>1. u = current
            BY <1>1, <2>1
        <3> QED BY <1>4, <2>1, <3>1, TopsTyped
    <2>2. CASE ~discard
        BY <2>2 DEF StorageInv
    <2> QED BY <2>1, <2>2
<1> HIDE DEF below
<1>17. s \in Seq(AnyFrames) /\ s # <<>> /\ Last(s) = built
    BY <1>15, <1>16, Appending
<1> HIDE DEF s
<1>18. /\ stack' \in [Tasks -> Seq(AnyFrames)] /\ stack'[u] = s
       /\ \A t \in Tasks \ {u} : stack'[t] = stack[t]
    BY <1>1, <1>17, StackChanged
<1>19. StorageInv'
    <2>1. stack'[current] # <<>>
        BY <1>4, <1>17, <1>18
    <2> QED BY <1>1, <1>4, <1>12, <1>18, <2>1 DEF StorageInv, Live
<1>20. ASSUME ~AreaContended, TransientInv PROVE TransientInv'
    <2>1. \A d \in Cells \ {c} : \/ block'[d].module = block[d].module
                                 \/ block'[d].module \notin InPlace
        BY <1>3, <1>14 DEF KeepsModules
    <2>2. stack'[u] # <<>> /\ Last(stack'[u]).program = c
        BY <1>15, <1>17, <1>18
    <2>3. CASE m \in InPlace
        BY <1>1, <1>3, <1>18, <1>20, <2>1, <2>2, <2>3, Entering
    <2>4. CASE m \notin InPlace
        <3>1. block'[c].module = m \/ block'[c].module \notin InPlace
            BY <1>3, <1>14 DEF KeepsModules, m, c
        <3>2. ModuleOf(block', c) \notin InPlace
            BY <2>4, <3>1, InPlaceIs DEF ModuleOf
        <3>3. transient' # transient => transient \in Cells /\ block'[transient].module \notin InPlace
            BY <1>1, <1>13, <2>4 DEF TransientAfter
        <3> QED BY <1>3, <1>18, <1>20, <2>1, <2>2, <3>2, <3>3, Entering
    <2> QED BY <2>3, <2>4
<1> QED BY <1>19, <1>20

LEMMA InitStored == Init => StorageInv /\ TransientInv
<1> SUFFICES ASSUME Init PROVE StorageInv /\ TransientInv
    OBVIOUS
<1> DEFINE f == [program |-> Nucleus, map |-> <<>>, image |-> {}, stale |-> FALSE]
           one == <<f>>
<1>1. /\ block = [c \in Cells |-> NoBlock] /\ arena = EmptyArena /\ held = {}
      /\ stack = [t \in Tasks |-> IF t = IplTask THEN one ELSE <<>>] /\ current = IplTask
    BY DEF Init
<1>2. f \in AnyFrames /\ f.program = Nucleus
    <2>1. <<>> \in Seq(AnyEntries) /\ Len(<<>>) <= MaxEntries
        BY BoundsAssumption
    <2> QED BY <2>1 DEF AnyFrames
<1> HIDE DEF f
<1>3. one \in Seq(AnyFrames) /\ one # <<>> /\ Last(one) = f
    BY <1>2 DEF Last
<1> HIDE DEF one
<1>4. /\ stack \in [Tasks -> Seq(AnyFrames)] /\ current \in Tasks /\ stack[current] # <<>>
      /\ \A t \in Tasks : stack[t] # <<>> => Last(stack[t]).program = Nucleus
    BY <1>1, <1>2, <1>3, TasksAssumption
<1>5. BlocksSound(block)
    BY <1>1, NoBlockIs, NoBlockSound DEF BlocksSound
<1>6. ArenaSound(arena) /\ Assigned(arena) = {}
    BY <1>1, LastPageAssumption DEF EmptyArena, ArenaSound, Arenas, Assigned
<1>7. \A c \in Cells : Occupied(block[c]) = {}
    BY <1>1, NoBlockIs
<1>8. Stored(block, arena)
    BY <1>5, <1>6, <1>7 DEF Stored, Apart
<1>9. TransientInv
    BY <1>4, InPlaceIs DEF TransientInv, ModuleOf
<1> QED BY <1>1, <1>4, <1>8, <1>9 DEF StorageInv, Live

LEMMA EachStep ==
    StorageInv /\ [Next]_vars => StorageInv' /\ (~AreaContended /\ TransientInv => TransientInv')
<1> SUFFICES ASSUME StorageInv, [Next]_vars
             PROVE  StorageInv' /\ (~AreaContended /\ TransientInv => TransientInv')
    OBVIOUS
<1>1. CASE UNCHANGED vars
    BY <1>1 DEF vars, StorageInv, Live, TransientInv, ModuleOf
<1>2. CASE \E way \in Callees, u \in Tasks, discard, ending \in BOOLEAN, header \in Headers :
              Transfer(way, u, discard, header, ending)
    BY <1>2, TransferStep
<1>3. CASE Exit
    BY <1>3, ExitStep
<1>4. CASE StorageInv' /\ Quiet
    BY <1>4, QuietKeeps
<1>5. CASE FreeSecond
    BY <1>4, <1>5, FreeSecondStep
<1>6. CASE EndTask
    BY <1>4, <1>6, EndTaskStep
<1>7. CASE \E w \in Windows, c \in Mappable : Map(w, c) \/ MapBelow(w, c)
    <2>1. PICK w \in Windows, c \in Mappable : Map(w, c) \/ MapBelow(w, c)
        BY <1>7
    <2>2. CASE Map(w, c)
        <3>1. Top(current).program # Nucleus
            BY <2>2 DEF Map, Remap
        <3>2. c \in Cells
            BY <3>1, MappableIs
        <3> QED BY <1>4, <2>2, <3>2, MapStep
    <2>3. CASE MapBelow(w, c)
        BY <1>4, <2>3, MapBelowStep
    <2> QED BY <2>1, <2>2, <2>3
<1>8. CASE \E w \in Windows : Unmap(w)
    BY <1>4, <1>8, UnmapStep
<1>9. CASE \E c \in Free : AttachTask(c)
    BY <1>4, <1>9, AttachTaskStep
<1>10. CASE \E c \in held : DetachTask(c)
    BY <1>4, <1>10, DetachTaskStep
<1>11. CASE \E c \in Free, form \in SpaceForms : CreateWorkSpace(c, form)
    BY <1>4, <1>11, CreateWorkSpaceStep
<1>12. CASE \E c \in Queued : DeleteWorkSpace(c)
    BY <1>4, <1>12, DeleteWorkSpaceStep
<1>a. CASE \E c \in Queued \cup held : AssignArea(c)
    BY <1>4, <1>a, AssignAreaStep
<1>13. CASE \E c \in held : GrowRegion(c)
    <2>1. PICK c \in held : Grow(c, TRUE)
        BY <1>13 DEF GrowRegion
    <2>2. c \in Cells
        BY <2>1 DEF StorageInv
    <2>3. TRUE \in BOOLEAN
        OBVIOUS
    <2> QED BY <1>4, <2>1, <2>2, <2>3, GrowStep
<1>14. CASE GetPage
    BY <1>4, <1>14, GetPageStep
<1>15. CASE \E t \in Tasks : TakeTurn(t)
    BY <1>4, <1>15, TakeTurnStep
<1> QED BY <1>1, <1>2, <1>3, <1>5, <1>6, <1>7, <1>8, <1>9, <1>10, <1>11, <1>12,
           <1>13, <1>14, <1>15, <1>a DEF Next

(* Nothing is lost of the module storage and nothing is given twice.       *)
THEOREM StorageApartHolds == Spec => []StorageApart
<1>1. StorageInv => StorageApart
    <2> SUFFICES ASSUME StorageInv PROVE StorageApart
        OBVIOUS
    <2>1. Stored(block, arena)
        BY DEF StorageInv
    <2>2. /\ arena.returned \subseteq 1..(arena.next - 1)
          /\ UNION {Occupied(block[c]) : c \in Cells} = (1..(arena.next - 1)) \ arena.returned
          /\ \A c, d \in Cells : c # d => Occupied(block[c]) \cap Occupied(block[d]) = {}
        BY <2>1 DEF Stored, Apart, ArenaSound, Assigned
    <2>3. \A c \in Cells : Occupied(block[c]) \cap arena.returned = {}
        BY <2>2
    <2>4. (UNION {Occupied(block[c]) : c \in Cells}) \cup arena.returned = 1..(arena.next - 1)
        BY <2>2
    <2> QED BY <2>2, <2>3, <2>4 DEF StorageApart
<1> QED BY <1>1, InitStored, EachStep, PTL DEF Spec

(* Whoever runs in the system transient area finds its own code there, as  *)
(* long as tasks do not displace each other's.                             *)
THEOREM TransientHeldHolds == ~AreaContended => (Spec => []TransientHeld)
<1> DEFINE H == ~AreaContended
           I == StorageInv /\ TransientInv
<1>1. I => TransientHeld
    BY DEF StorageInv, TransientInv, TransientHeld, Live, Top
<1>2. H /\ I /\ [Next]_vars => I'
    BY EachStep
<1>3. Init => I
    BY InitStored
<1>4. CASE H
    <2>1. I /\ [Next]_vars => I'
        BY <1>2, <1>4
    <2> HIDE DEF I
    <2> QED BY <1>1, <1>3, <2>1, PTL DEF Spec
<1> QED BY <1>4

(***************************************************************************)
(* What all request blocks refer to, as pairs of a place on a stack and a  *)
(* slot of the request block there.  Which slots count is a weight: those  *)
(* of one cell, or one slot of each request block.                         *)
(***************************************************************************)
Weights ==
    {W \in [AnyFrames -> SUBSET (0..MaxEntries)] :
        \A f, g \in AnyFrames : f.program = g.program /\ f.map = g.map => W[f] = W[g]}

Places(st) == UNION {{t} \X DOMAIN st[t] : t \in Tasks}

Pairs(st, W) == UNION {{x} \X W[st[x[1]][x[2]]] : x \in Places(st)}

StackPairs(s, W) == UNION {{i} \X W[s[i]] : i \in DOMAIN s}

(* The weight that counts the request blocks themselves.                   *)
One == [f \in AnyFrames |-> {0}]

LEMMA SlotsFinite == IsFiniteSet(0..MaxEntries)
BY BoundsAssumption, FS_Interval

LEMMA WeightIs ==
    ASSUME NEW W \in Weights, NEW f \in AnyFrames
    PROVE  /\ W[f] \in SUBSET (0..MaxEntries)
           /\ IsFiniteSet(W[f]) /\ Cardinality(W[f]) \in Nat
<1>1. W[f] \in SUBSET (0..MaxEntries)
    BY DEF Weights
<1> QED BY <1>1, SlotsFinite, FS_Subset, FS_CardinalityType

LEMMA OneIs ==
    /\ One \in Weights
    /\ \A f \in AnyFrames : One[f] = {0} /\ Cardinality(One[f]) = 1
<1>1. One \in [AnyFrames -> SUBSET (0..MaxEntries)]
    BY BoundsAssumption DEF One
<1>2. \A f \in AnyFrames : One[f] = {0}
    BY DEF One
<1> QED BY <1>1, <1>2, FS_Singleton DEF Weights

LEMMA PlaceIs ==
    ASSUME NEW st, NEW x
    PROVE  x \in Places(st) <=> \E t \in Tasks : \E i \in DOMAIN st[t] : x = <<t, i>>
BY DEF Places

LEMMA PairIs ==
    ASSUME NEW st, NEW W, NEW p
    PROVE  p \in Pairs(st, W) <=>
              \E t \in Tasks : \E i \in DOMAIN st[t] : \E j \in W[st[t][i]] : p = <<<<t, i>>, j>>
<1>1. ASSUME p \in Pairs(st, W)
      PROVE  \E t \in Tasks : \E i \in DOMAIN st[t] : \E j \in W[st[t][i]] : p = <<<<t, i>>, j>>
    <2>1. PICK x \in Places(st) : p \in {x} \X W[st[x[1]][x[2]]]
        BY <1>1 DEF Pairs
    <2>a. PICK t \in Tasks : \E i \in DOMAIN st[t] : x = <<t, i>>
        BY PlaceIs
    <2>2. PICK i \in DOMAIN st[t] : x = <<t, i>>
        BY <2>a
    <2>3. x[1] = t /\ x[2] = i
        BY <2>2
    <2>4. PICK j \in W[st[t][i]] : p = <<x, j>>
        BY <2>1, <2>3
    <2> QED BY <2>2, <2>4
<1>2. ASSUME NEW t \in Tasks, NEW i \in DOMAIN st[t], NEW j \in W[st[t][i]], p = <<<<t, i>>, j>>
      PROVE  p \in Pairs(st, W)
    <2> DEFINE x == <<t, i>>
    <2>1. x \in Places(st)
        BY PlaceIs
    <2>2. x[1] = t /\ x[2] = i
        OBVIOUS
    <2>3. p \in {x} \X W[st[x[1]][x[2]]]
        BY <1>2, <2>2
    <2> QED BY <2>1, <2>3 DEF Pairs
<1> QED BY <1>1, <1>2

LEMMA StackPairIs ==
    ASSUME NEW s, NEW W, NEW q
    PROVE  q \in StackPairs(s, W) <=> \E i \in DOMAIN s : \E j \in W[s[i]] : q = <<i, j>>
BY DEF StackPairs

LEMMA StackFinite ==
    ASSUME NEW W \in Weights, NEW s \in Seq(AnyFrames)
    PROVE  IsFiniteSet(StackPairs(s, W)) /\ Cardinality(StackPairs(s, W)) \in Nat
<1>1. IsFiniteSet((1..Len(s)) \X (0..MaxEntries))
    <2>1. 1 \in Int /\ Len(s) \in Int
        OBVIOUS
    <2>2. IsFiniteSet(1..Len(s))
        BY <2>1, FS_Interval
    <2> QED BY <2>2, SlotsFinite, FS_Product
<1>2. StackPairs(s, W) \in SUBSET ((1..Len(s)) \X (0..MaxEntries))
    <2> SUFFICES ASSUME NEW q \in StackPairs(s, W) PROVE q \in (1..Len(s)) \X (0..MaxEntries)
        OBVIOUS
    <2>a. PICK i \in DOMAIN s : \E j \in W[s[i]] : q = <<i, j>>
        BY StackPairIs
    <2>1. PICK j \in W[s[i]] : q = <<i, j>>
        BY <2>a
    <2>2. s[i] \in AnyFrames /\ i \in 1..Len(s)
        OBVIOUS
    <2>3. j \in 0..MaxEntries
        BY <2>2, WeightIs
    <2> QED BY <2>1, <2>2, <2>3
<1> QED BY <1>1, <1>2, FS_Subset, FS_CardinalityType

LEMMA StackEmpty ==
    ASSUME NEW W
    PROVE  Cardinality(StackPairs(<<>>, W)) = 0
<1>1. StackPairs(<<>>, W) = {}
    BY DEF StackPairs
<1> QED BY <1>1, FS_EmptySet

(* Two sets without a common element are counted one after the other.      *)
LEMMA Disjoint ==
    ASSUME NEW S, NEW T, IsFiniteSet(S), IsFiniteSet(T), S \cap T = {}
    PROVE  /\ IsFiniteSet(S \cup T)
           /\ Cardinality(S \cup T) = Cardinality(S) + Cardinality(T)
           /\ Cardinality(S) \in Nat /\ Cardinality(T) \in Nat
<1>1. Cardinality(S) \in Nat /\ Cardinality(T) \in Nat
    BY FS_CardinalityType
<1>2. Cardinality(S \cap T) = 0
    BY FS_EmptySet
<1>3. /\ IsFiniteSet(S \cup T)
      /\ Cardinality(S \cup T) = Cardinality(S) + Cardinality(T) - Cardinality(S \cap T)
    BY FS_Union, Zenon
<1> DEFINE s == Cardinality(S)
           t == Cardinality(T)
           u == Cardinality(S \cup T)
<1>4. s \in Nat /\ t \in Nat /\ u = s + t - 0
    BY <1>1, <1>2, <1>3
<1> HIDE DEF s, t, u
<1>5. u = s + t
    BY <1>4
<1> QED BY <1>1, <1>3, <1>5 DEF s, t, u

LEMMA StackAppend ==
    ASSUME NEW W \in Weights, NEW s \in Seq(AnyFrames), NEW f \in AnyFrames
    PROVE  Cardinality(StackPairs(Append(s, f), W))
              = Cardinality(StackPairs(s, W)) + Cardinality(W[f])
<1> DEFINE n == Len(s) + 1
           a == Append(s, f)
           more == {n} \X W[f]
<1>1. /\ a \in Seq(AnyFrames) /\ DOMAIN a = 1..n /\ DOMAIN s = 1..(n - 1) /\ n \in Nat \ {0}
      /\ a[n] = f /\ \A i \in 1..(n - 1) : a[i] = s[i]
    OBVIOUS
<1> HIDE DEF a, n
<1>2. StackPairs(a, W) = StackPairs(s, W) \cup more
    <2>1. ASSUME NEW q \in StackPairs(a, W) PROVE q \in StackPairs(s, W) \cup more
        <3>a. PICK i \in 1..n : \E j \in W[a[i]] : q = <<i, j>>
            BY <1>1, StackPairIs
        <3>1. PICK j \in W[a[i]] : q = <<i, j>>
            BY <3>a
        <3>2. CASE i = n
            BY <3>1, <3>2, <1>1
        <3>3. CASE i # n
            <4>1. i \in 1..(n - 1)
                BY <3>3, <1>1
            <4>2. i \in DOMAIN s /\ j \in W[s[i]]
                BY <4>1, <1>1, <3>1
            <4> QED BY <3>1, <4>2, StackPairIs
        <3> QED BY <3>2, <3>3
    <2>2. ASSUME NEW q \in StackPairs(s, W) PROVE q \in StackPairs(a, W)
        <3>a. PICK i \in 1..(n - 1) : \E j \in W[s[i]] : q = <<i, j>>
            BY <1>1, StackPairIs
        <3>1. PICK j \in W[s[i]] : q = <<i, j>>
            BY <3>a
        <3>2. i \in DOMAIN a /\ j \in W[a[i]]
            BY <1>1, <3>1
        <3> QED BY <3>1, <3>2, StackPairIs
    <2>3. ASSUME NEW q \in more PROVE q \in StackPairs(a, W)
        <3>1. PICK j \in W[f] : q = <<n, j>>
            OBVIOUS
        <3>2. n \in DOMAIN a /\ j \in W[a[n]]
            BY <1>1
        <3> QED BY <3>1, <3>2, StackPairIs
    <2> QED BY <2>1, <2>2, <2>3
<1>3. StackPairs(s, W) \cap more = {}
    <2> SUFFICES ASSUME NEW q \in StackPairs(s, W), q \in more PROVE FALSE
        OBVIOUS
    <2>1. PICK i \in 1..(n - 1) : \E j \in W[s[i]] : q = <<i, j>>
        BY <1>1, StackPairIs
    <2>2. q[1] = i /\ q[1] = n
        BY <2>1
    <2> QED BY <2>2, <1>1
<1>4. IsFiniteSet(more) /\ Cardinality(more) = Cardinality(W[f])
    <2>1. IsFiniteSet({n}) /\ Cardinality({n}) = 1
        BY FS_Singleton
    <2>2. IsFiniteSet(W[f]) /\ Cardinality(W[f]) \in Nat
        BY WeightIs
    <2>3. IsFiniteSet(more) /\ Cardinality(more) = Cardinality({n}) * Cardinality(W[f])
        BY <2>1, <2>2, FS_Product
    <2> QED BY <2>1, <2>2, <2>3
<1> HIDE DEF more
<1>5. IsFiniteSet(StackPairs(s, W))
    BY StackFinite
<1> QED BY <1>2, <1>3, <1>4, <1>5, Disjoint DEF a

(* The newest request block of a stack counts with the others.             *)
LEMMA StackFront ==
    ASSUME NEW W \in Weights, NEW s \in Seq(AnyFrames), s # <<>>
    PROVE  /\ Front(s) \in Seq(AnyFrames) /\ Last(s) \in AnyFrames
           /\ Cardinality(StackPairs(s, W))
                 = Cardinality(StackPairs(Front(s), W)) + Cardinality(W[Last(s)])
<1>1. Front(s) \in Seq(AnyFrames) /\ Last(s) \in AnyFrames /\ s = Append(Front(s), Last(s))
    BY SequenceParts
<1> QED BY <1>1, StackAppend

(* Request blocks that refer to the same count the same.                   *)
LEMMA StackSame ==
    ASSUME NEW W \in Weights, NEW s \in Seq(AnyFrames), NEW r \in Seq(AnyFrames),
           Len(r) = Len(s),
           \A i \in 1..Len(s) : r[i].program = s[i].program /\ r[i].map = s[i].map
    PROVE  StackPairs(r, W) = StackPairs(s, W)
<1>1. DOMAIN r = 1..Len(s) /\ DOMAIN s = 1..Len(s)
    OBVIOUS
<1>2. ASSUME NEW i \in 1..Len(s) PROVE W[r[i]] = W[s[i]]
    <2>1. r[i] \in AnyFrames /\ s[i] \in AnyFrames
        OBVIOUS
    <2> QED BY <2>1 DEF Weights
<1> QED BY <1>1, <1>2 DEF StackPairs
(* The pairs of one task are those of its stack.                           *)
Mine(st, u, W) == {p \in Pairs(st, W) : p[1][1] = u}

LEMMA MinePairs ==
    ASSUME NEW W \in Weights, NEW v \in [Tasks -> Seq(AnyFrames)], NEW u \in Tasks
    PROVE  /\ IsFiniteSet(Mine(v, u, W))
           /\ Cardinality(Mine(v, u, W)) = Cardinality(StackPairs(v[u], W))
<1> DEFINE S == StackPairs(v[u], W)
           f == [q \in S |-> <<<<u, q[1]>>, q[2]>>]
<1>1. v[u] \in Seq(AnyFrames)
    OBVIOUS
<1>2. IsFiniteSet(S)
    BY <1>1, StackFinite
<1>3. ASSUME NEW q \in S
      PROVE  f[q] \in Mine(v, u, W) /\ q = <<f[q][1][2], f[q][2]>>
    <2>1. PICK i \in DOMAIN v[u] : \E j \in W[v[u][i]] : q = <<i, j>>
        BY StackPairIs
    <2>2. PICK j \in W[v[u][i]] : q = <<i, j>>
        BY <2>1
    <2>3. f[q] = <<<<u, i>>, j>>
        BY <2>2
    <2>4. f[q] \in Pairs(v, W)
        BY <2>2, <2>3, PairIs
    <2> QED BY <2>2, <2>3, <2>4 DEF Mine
<1>4. ASSUME NEW p \in Mine(v, u, W) PROVE \E q \in S : f[q] = p
    <2>1. PICK t \in Tasks : \E i \in DOMAIN v[t] : \E j \in W[v[t][i]] : p = <<<<t, i>>, j>>
        BY PairIs DEF Mine
    <2>2. PICK i \in DOMAIN v[t] : \E j \in W[v[t][i]] : p = <<<<t, i>>, j>>
        BY <2>1
    <2>3. PICK j \in W[v[t][i]] : p = <<<<t, i>>, j>>
        BY <2>2
    <2>4. t = u
        BY <2>3 DEF Mine
    <2>5. <<i, j>> \in S
        BY <2>4, StackPairIs
    <2>6. f[<<i, j>>] = p
        BY <2>3, <2>4, <2>5
    <2> QED BY <2>5, <2>6
<1>5. f \in [S -> Mine(v, u, W)]
    BY <1>3
<1>6. \A q, r \in S : f[q] = f[r] => q = r
    <2> SUFFICES ASSUME NEW q \in S, NEW r \in S, f[q] = f[r] PROVE q = r
        OBVIOUS
    <2>1. q = <<f[q][1][2], f[q][2]>> /\ r = <<f[r][1][2], f[r][2]>>
        BY <1>3
    <2> HIDE DEF f
    <2> QED BY <2>1
<1> HIDE DEF S, f
<1>7. IsFiniteSet(Mine(v, u, W)) /\ Cardinality(Mine(v, u, W)) = Cardinality(S)
    BY <1>2, <1>4, <1>5, <1>6, SameSize
<1> QED BY <1>7 DEF S

(* The stack of one task changes: what all refer to changes by as much.    *)
LEMMA PairsChange ==
    ASSUME NEW W \in Weights, NEW st \in [Tasks -> Seq(AnyFrames)],
           NEW n \in [Tasks -> Seq(AnyFrames)], NEW u \in Tasks,
           \A t \in Tasks \ {u} : n[t] = st[t],
           IsFiniteSet(Pairs(st, W))
    PROVE  /\ IsFiniteSet(Pairs(n, W))
           /\ Cardinality(Pairs(n, W)) + Cardinality(StackPairs(st[u], W))
                 = Cardinality(Pairs(st, W)) + Cardinality(StackPairs(n[u], W))
           /\ Cardinality(StackPairs(st[u], W)) <= Cardinality(Pairs(st, W))
           /\ Cardinality(Pairs(st, W)) \in Nat /\ Cardinality(Pairs(n, W)) \in Nat
<1> DEFINE Rest(v) == {p \in Pairs(v, W) : p[1][1] # u}
<1>1. ASSUME NEW v \in [Tasks -> Seq(AnyFrames)]
      PROVE  /\ IsFiniteSet(Mine(v, u, W))
             /\ Cardinality(Mine(v, u, W)) = Cardinality(StackPairs(v[u], W))
    BY MinePairs
<1>2. Rest(n) = Rest(st)
    <2>1. ASSUME NEW v, NEW w, \A t \in Tasks \ {u} : v[t] = w[t], NEW p \in Rest(v)
          PROVE  p \in Rest(w)
        <3>1. PICK t \in Tasks : \E i \in DOMAIN v[t] : \E j \in W[v[t][i]] : p = <<<<t, i>>, j>>
            BY PairIs
        <3>2. PICK i \in DOMAIN v[t] : \E j \in W[v[t][i]] : p = <<<<t, i>>, j>>
            BY <3>1
        <3>3. PICK j \in W[v[t][i]] : p = <<<<t, i>>, j>>
            BY <3>2
        <3>4. t # u
            BY <3>3
        <3>5. v[t] = w[t]
            BY <2>1, <3>4
        <3>6. p \in Pairs(w, W)
            BY <3>3, <3>5, PairIs
        <3> QED BY <3>6
    <2>2. \A p \in Rest(n) : p \in Rest(st)
        BY <2>1
    <2>3. \A p \in Rest(st) : p \in Rest(n)
        BY <2>1
    <2> HIDE DEF Rest
    <2> QED BY <2>2, <2>3
<1>3. ASSUME NEW v PROVE Pairs(v, W) = Rest(v) \cup Mine(v, u, W) /\ Rest(v) \cap Mine(v, u, W) = {}
    BY DEF Mine
<1>4. IsFiniteSet(Rest(st))
    <2>1. Rest(st) \in SUBSET Pairs(st, W)
        OBVIOUS
    <2> QED BY <2>1, FS_Subset
<1> HIDE DEF Rest
<1>5. /\ IsFiniteSet(Pairs(n, W))
      /\ Cardinality(Pairs(n, W)) = Cardinality(Rest(st)) + Cardinality(StackPairs(n[u], W))
    <2>1. IsFiniteSet(Rest(n)) /\ IsFiniteSet(Mine(n, u, W)) /\ Rest(n) \cap Mine(n, u, W) = {}
        BY <1>1, <1>2, <1>3, <1>4
    <2>2. Pairs(n, W) = Rest(n) \cup Mine(n, u, W)
        BY <1>3
    <2>3. /\ IsFiniteSet(Rest(n) \cup Mine(n, u, W))
          /\ Cardinality(Rest(n) \cup Mine(n, u, W)) = Cardinality(Rest(n)) + Cardinality(Mine(n, u, W))
        BY <2>1, Disjoint
    <2>4. Cardinality(Mine(n, u, W)) = Cardinality(StackPairs(n[u], W))
        BY <1>1
    <2> QED BY <2>2, <2>3, <2>4, <1>2
<1>6. Cardinality(Pairs(st, W)) = Cardinality(Rest(st)) + Cardinality(StackPairs(st[u], W))
    <2>1. IsFiniteSet(Mine(st, u, W)) /\ Rest(st) \cap Mine(st, u, W) = {}
        BY <1>1, <1>3
    <2>2. Pairs(st, W) = Rest(st) \cup Mine(st, u, W)
        BY <1>3
    <2>3. Cardinality(Rest(st) \cup Mine(st, u, W))
             = Cardinality(Rest(st)) + Cardinality(Mine(st, u, W))
        BY <2>1, <1>4, Disjoint
    <2>4. Cardinality(Mine(st, u, W)) = Cardinality(StackPairs(st[u], W))
        BY <1>1
    <2> QED BY <2>2, <2>3, <2>4
<1>7. /\ Cardinality(Rest(st)) \in Nat /\ Cardinality(StackPairs(st[u], W)) \in Nat
      /\ Cardinality(StackPairs(n[u], W)) \in Nat
    BY <1>4, FS_CardinalityType, StackFinite
<1> DEFINE r == Cardinality(Rest(st))
           x == Cardinality(StackPairs(st[u], W))
           y == Cardinality(StackPairs(n[u], W))
           o == Cardinality(Pairs(st, W))
           m == Cardinality(Pairs(n, W))
<1>8. r \in Nat /\ x \in Nat /\ y \in Nat /\ o = r + x /\ m = r + y
    BY <1>5, <1>6, <1>7
<1> HIDE DEF r, x, y, o, m
<1>9. m + x = o + y /\ x <= o /\ o \in Nat /\ m \in Nat
    BY <1>8
<1> QED BY <1>5, <1>9 DEF x, y, o, m

(***************************************************************************)
(* How many refer to a cell, and how many there can be.                    *)
(***************************************************************************)
Weight(c) == [f \in AnyFrames |-> ReferencesTo(f, c)]

(* The references of a stack, of all stacks, and all of them.              *)
StackRefs(s, c) == Cardinality(StackPairs(s, Weight(c)))

Refs(st, c) == Cardinality(Pairs(st, Weight(c)))

HeldOnce(h, c) == IF c \in h THEN 1 ELSE 0

(* The request blocks are no more than the bound and the first one.        *)
Few(st) == IsFiniteSet(Pairs(st, One)) /\ Cardinality(Pairs(st, One)) <= MaxFrames + 1

LEMMA ReferencesToIs ==
    ASSUME NEW f, NEW c, f.map \in Seq(AnyEntries)
    PROVE  ReferencesTo(f, c) =
              (IF f.program = c THEN {0} ELSE {}) \cup {j \in DOMAIN f.map : f.map[j].cell = c}
<1>1. DOMAIN f.map = 1..Len(f.map) /\ Len(f.map) \in Nat
    OBVIOUS
<1>2. 0 \notin DOMAIN f.map
    BY <1>1
<1> QED BY <1>2 DEF ReferencesTo, Named

LEMMA WeightTyped ==
    ASSUME NEW c \in Cells
    PROVE  /\ Weight(c) \in Weights
           /\ \A f \in AnyFrames : /\ Weight(c)[f] = ReferencesTo(f, c)
                                   /\ Cardinality(Weight(c)[f]) = References(f)[c]
                                   /\ References(f)[c] \in Nat
<1>1. \A f \in AnyFrames : Weight(c)[f] = ReferencesTo(f, c)
    BY DEF Weight
<1>2. \A f \in AnyFrames : ReferencesTo(f, c) \in SUBSET (0..MaxEntries)
    BY ReferencesTyped
<1>3. Weight(c) \in [AnyFrames -> SUBSET (0..MaxEntries)]
    BY <1>2 DEF Weight
<1>4. ASSUME NEW f \in AnyFrames, NEW g \in AnyFrames, f.program = g.program, f.map = g.map
      PROVE  Weight(c)[f] = Weight(c)[g]
    <2>1. ReferencesTo(f, c) = ReferencesTo(g, c)
        BY <1>4 DEF ReferencesTo, Named
    <2> QED BY <1>1, <2>1
<1>5. Weight(c) \in Weights
    BY <1>3, <1>4 DEF Weights
<1>6. ASSUME NEW f \in AnyFrames
      PROVE Cardinality(Weight(c)[f]) = References(f)[c] /\ References(f)[c] \in Nat
    <2>1. References(f)[c] = Cardinality(ReferencesTo(f, c))
        BY DEF References
    <2>2. References(f)[c] \in Nat
        BY ReferencesTyped
    <2> QED BY <1>1, <2>1, <2>2
<1> QED BY <1>1, <1>5, <1>6

(* The places of request blocks, by the weight that counts each once.      *)
LEMMA PlacesCounted ==
    ASSUME NEW st \in [Tasks -> Seq(AnyFrames)], IsFiniteSet(Pairs(st, One))
    PROVE  IsFiniteSet(Places(st)) /\ Cardinality(Places(st)) = Cardinality(Pairs(st, One))
<1> DEFINE S == Pairs(st, One)
           f == [p \in S |-> p[1]]
<1>1. ASSUME NEW p \in S PROVE p[1] \in Places(st) /\ p = <<p[1], 0>>
    <2>1. PICK t \in Tasks : \E i \in DOMAIN st[t] : \E j \in One[st[t][i]] : p = <<<<t, i>>, j>>
        BY PairIs
    <2>2. PICK i \in DOMAIN st[t] : \E j \in One[st[t][i]] : p = <<<<t, i>>, j>>
        BY <2>1
    <2>3. st[t][i] \in AnyFrames
        OBVIOUS
    <2>4. p = <<<<t, i>>, 0>>
        BY <2>2, <2>3, OneIs
    <2>5. <<t, i>> \in Places(st)
        BY PlaceIs
    <2> QED BY <2>4, <2>5
<1>2. ASSUME NEW x \in Places(st) PROVE \E p \in S : f[p] = x
    <2>1. PICK t \in Tasks : \E i \in DOMAIN st[t] : x = <<t, i>>
        BY PlaceIs
    <2>2. PICK i \in DOMAIN st[t] : x = <<t, i>>
        BY <2>1
    <2>3. st[t][i] \in AnyFrames
        OBVIOUS
    <2>4. 0 \in One[st[t][i]]
        BY <2>3, OneIs
    <2>5. <<x, 0>> \in S
        BY <2>2, <2>4, PairIs
    <2>6. f[<<x, 0>>] = x
        BY <2>5
    <2> QED BY <2>5, <2>6
<1>3. f \in [S -> Places(st)]
    BY <1>1
<1>4. \A p, q \in S : f[p] = f[q] => p = q
    <2> SUFFICES ASSUME NEW p \in S, NEW q \in S, f[p] = f[q] PROVE p = q
        OBVIOUS
    <2>1. f[p] = p[1] /\ f[q] = q[1]
        OBVIOUS
    <2>2. p = <<p[1], 0>> /\ q = <<q[1], 0>>
        BY <1>1
    <2>3. p[1] = q[1]
        BY <2>1
    <2> HIDE DEF f, S
    <2> QED BY <2>2, <2>3
<1> HIDE DEF S, f
<1>5. IsFiniteSet(S)
    BY DEF S
<1> QED BY <1>2, <1>3, <1>4, <1>5, SameSize DEF S

(* A factor that grows.                                                    *)
LEMMA Multiplied ==
    ASSUME NEW a \in Nat, NEW m \in Nat, NEW k \in Nat, a <= m
    PROVE  a * k <= m * k
<1>1. (m - a) \in Nat
    OBVIOUS
<1>2. (m - a) * k \in Nat
    BY <1>1
<1>3. m * k = a * k + (m - a) * k
    OBVIOUS
<1>4. a * k \in Nat /\ m * k \in Nat
    OBVIOUS
<1> QED BY <1>2, <1>3, <1>4

(* Each request block refers to a cell by its program and its entries.     *)
LEMMA RefsBounded ==
    ASSUME NEW st \in [Tasks -> Seq(AnyFrames)], IsFiniteSet(Pairs(st, One)),
           NEW m \in Nat, Cardinality(Pairs(st, One)) <= m, NEW c \in Cells
    PROVE  /\ IsFiniteSet(Pairs(st, Weight(c))) /\ Refs(st, c) \in Nat
           /\ Refs(st, c) <= m * (MaxEntries + 1)
<1> DEFINE W == Weight(c)
           P == Places(st)
           J == 0..MaxEntries
<1>1. W \in Weights
    BY WeightTyped
<1>2. IsFiniteSet(P) /\ Cardinality(P) \in Nat /\ Cardinality(P) <= m
    BY PlacesCounted, FS_CardinalityType
<1>3. IsFiniteSet(J) /\ Cardinality(J) = MaxEntries + 1
    <2>1. MaxEntries \in Nat /\ 0 \in Int /\ MaxEntries \in Int
        BY BoundsAssumption
    <2>2. IsFiniteSet(J) /\ Cardinality(J) = IF 0 > MaxEntries THEN 0 ELSE MaxEntries - 0 + 1
        BY <2>1, FS_Interval
    <2> QED BY <2>1, <2>2
<1>4. Pairs(st, W) \in SUBSET (P \X J)
    <2> SUFFICES ASSUME NEW p \in Pairs(st, W) PROVE p \in P \X J
        OBVIOUS
    <2>1. PICK t \in Tasks : \E i \in DOMAIN st[t] : \E j \in W[st[t][i]] : p = <<<<t, i>>, j>>
        BY PairIs
    <2>2. PICK i \in DOMAIN st[t] : \E j \in W[st[t][i]] : p = <<<<t, i>>, j>>
        BY <2>1
    <2>3. PICK j \in W[st[t][i]] : p = <<<<t, i>>, j>>
        BY <2>2
    <2>4. st[t][i] \in AnyFrames
        OBVIOUS
    <2>5. j \in J
        BY <1>1, <2>4, WeightIs
    <2>6. <<t, i>> \in P
        BY PlaceIs
    <2> QED BY <2>3, <2>5, <2>6
<1> HIDE DEF W, P, J
<1>5. IsFiniteSet(P \X J) /\ Cardinality(P \X J) = Cardinality(P) * Cardinality(J)
    BY <1>2, <1>3, FS_Product
<1>6. IsFiniteSet(Pairs(st, W)) /\ Cardinality(Pairs(st, W)) \in Nat
      /\ Cardinality(Pairs(st, W)) <= Cardinality(P) * Cardinality(J)
    BY <1>4, <1>5, FS_Subset, FS_CardinalityType
<1>7. Cardinality(P) * Cardinality(J) <= m * (MaxEntries + 1)
    <2>1. MaxEntries + 1 \in Nat
        BY BoundsAssumption
    <2> QED BY <1>2, <1>3, <2>1, Multiplied
<1>8. m * (MaxEntries + 1) \in Int /\ Cardinality(P) * Cardinality(J) \in Int
    BY <1>2, <1>3, BoundsAssumption
<1> DEFINE x == Cardinality(Pairs(st, W))
           y == Cardinality(P) * Cardinality(J)
           z == m * (MaxEntries + 1)
<1>9. x \in Nat /\ x <= y /\ y <= z /\ y \in Int /\ z \in Int
    BY <1>6, <1>7, <1>8
<1> HIDE DEF x, y, z
<1>10. x \in Nat /\ x <= z
    BY <1>9
<1> QED BY <1>6, <1>10 DEF W, x, z, Refs

LEMMA StackLength ==
    ASSUME NEW s \in Seq(AnyFrames)
    PROVE  Cardinality(StackPairs(s, One)) = Len(s)
<1> DEFINE I == 1..Len(s)
           T == StackPairs(s, One)
           f == [i \in I |-> <<i, 0>>]
<1>1. DOMAIN s = I /\ Len(s) \in Nat /\ \A i \in I : s[i] \in AnyFrames
    OBVIOUS
<1>2. IsFiniteSet(I) /\ Cardinality(I) = Len(s)
    <2>1. 1 \in Int /\ Len(s) \in Int
        BY <1>1
    <2>2. IsFiniteSet(I) /\ Cardinality(I) = IF 1 > Len(s) THEN 0 ELSE Len(s) - 1 + 1
        BY <2>1, FS_Interval
    <2> QED BY <1>1, <2>2
<1>3. f \in [I -> T]
    <2> SUFFICES ASSUME NEW i \in I PROVE <<i, 0>> \in T
        OBVIOUS
    <2>1. i \in DOMAIN s /\ 0 \in One[s[i]]
        BY <1>1, OneIs
    <2> QED BY <2>1, StackPairIs
<1>4. ASSUME NEW q \in T PROVE \E i \in I : f[i] = q
    <2>1. PICK i \in DOMAIN s : \E j \in One[s[i]] : q = <<i, j>>
        BY StackPairIs
    <2>2. s[i] \in AnyFrames /\ i \in I
        BY <1>1
    <2>3. q = <<i, 0>>
        BY <2>1, <2>2, OneIs
    <2> QED BY <2>2, <2>3
<1>5. \A i, j \in I : f[i] = f[j] => i = j
    <2> SUFFICES ASSUME NEW i \in I, NEW j \in I, f[i] = f[j] PROVE i = j
        OBVIOUS
    <2>1. f[i] = <<i, 0>> /\ f[j] = <<j, 0>>
        OBVIOUS
    <2> QED BY <2>1
<1> HIDE DEF I, T, f
<1>6. Cardinality(T) = Cardinality(I)
    BY <1>2, <1>3, <1>4, <1>5, SameSize
<1> QED BY <1>2, <1>6 DEF T

(* One stack changes: how many refer to a cell, and how many request       *)
(* blocks there are.                                                       *)
LEMMA RefsChange ==
    ASSUME NEW st \in [Tasks -> Seq(AnyFrames)], NEW n \in [Tasks -> Seq(AnyFrames)],
           NEW u \in Tasks, \A t \in Tasks \ {u} : n[t] = st[t], IsFiniteSet(Pairs(st, One))
    PROVE  /\ IsFiniteSet(Pairs(n, One))
           /\ Cardinality(Pairs(n, One)) + Len(st[u]) = Cardinality(Pairs(st, One)) + Len(n[u])
           /\ Cardinality(Pairs(st, One)) \in Nat /\ Cardinality(Pairs(n, One)) \in Nat
           /\ \A c \in Cells :
                 /\ Refs(n, c) + StackRefs(st[u], c) = Refs(st, c) + StackRefs(n[u], c)
                 /\ StackRefs(st[u], c) <= Refs(st, c)
                 /\ Refs(st, c) \in Nat /\ Refs(n, c) \in Nat
                 /\ StackRefs(st[u], c) \in Nat /\ StackRefs(n[u], c) \in Nat
<1>0. One \in Weights /\ st[u] \in Seq(AnyFrames) /\ n[u] \in Seq(AnyFrames)
    BY OneIs
<1>1. /\ IsFiniteSet(Pairs(n, One))
      /\ Cardinality(Pairs(n, One)) + Len(st[u]) = Cardinality(Pairs(st, One)) + Len(n[u])
      /\ Cardinality(Pairs(st, One)) \in Nat /\ Cardinality(Pairs(n, One)) \in Nat
    <2>1. Cardinality(StackPairs(st[u], One)) = Len(st[u])
        BY <1>0, StackLength
    <2>2. Cardinality(StackPairs(n[u], One)) = Len(n[u])
        BY <1>0, StackLength
    <2>3. /\ IsFiniteSet(Pairs(n, One))
          /\ Cardinality(Pairs(n, One)) + Cardinality(StackPairs(st[u], One))
                = Cardinality(Pairs(st, One)) + Cardinality(StackPairs(n[u], One))
          /\ Cardinality(Pairs(st, One)) \in Nat /\ Cardinality(Pairs(n, One)) \in Nat
        BY <1>0, PairsChange
    <2> QED BY <2>1, <2>2, <2>3
<1>2. ASSUME NEW c \in Cells
      PROVE  /\ Refs(n, c) + StackRefs(st[u], c) = Refs(st, c) + StackRefs(n[u], c)
             /\ StackRefs(st[u], c) <= Refs(st, c)
             /\ Refs(st, c) \in Nat /\ Refs(n, c) \in Nat
             /\ StackRefs(st[u], c) \in Nat /\ StackRefs(n[u], c) \in Nat
    <2>1. Weight(c) \in Weights
        BY WeightTyped
    <2>2. IsFiniteSet(Pairs(st, Weight(c)))
        <3> DEFINE m == Cardinality(Pairs(st, One))
        <3>1. m \in Nat /\ m <= m
            BY <1>1
        <3> QED BY <3>1, RefsBounded
    <2>3. StackRefs(st[u], c) \in Nat /\ StackRefs(n[u], c) \in Nat
        BY <1>0, <2>1, StackFinite DEF StackRefs
    <2>4. /\ Cardinality(Pairs(n, Weight(c))) + Cardinality(StackPairs(st[u], Weight(c)))
                = Cardinality(Pairs(st, Weight(c))) + Cardinality(StackPairs(n[u], Weight(c)))
          /\ Cardinality(StackPairs(st[u], Weight(c))) <= Cardinality(Pairs(st, Weight(c)))
          /\ Cardinality(Pairs(st, Weight(c))) \in Nat
          /\ Cardinality(Pairs(n, Weight(c))) \in Nat
        BY <2>1, <2>2, PairsChange
    <2> QED BY <2>3, <2>4 DEF Refs, StackRefs
<1> QED BY <1>1, <1>2

(* What a stack refers to with one more request block on it.               *)
LEMMA StackRefsAppend ==
    ASSUME NEW s \in Seq(AnyFrames), NEW f \in AnyFrames, NEW c \in Cells
    PROVE  /\ StackRefs(Append(s, f), c) = StackRefs(s, c) + References(f)[c]
           /\ StackRefs(s, c) \in Nat /\ References(f)[c] \in Nat
<1>1. Weight(c) \in Weights
    BY WeightTyped
<1>2. StackRefs(s, c) \in Nat
    BY <1>1, StackFinite DEF StackRefs
<1> QED BY <1>1, <1>2, StackAppend, WeightTyped DEF StackRefs

LEMMA StackRefsFront ==
    ASSUME NEW s \in Seq(AnyFrames), s # <<>>, NEW c \in Cells
    PROVE  /\ StackRefs(s, c) = StackRefs(Front(s), c) + References(Last(s))[c]
           /\ StackRefs(Front(s), c) \in Nat /\ References(Last(s))[c] \in Nat
<1>1. Front(s) \in Seq(AnyFrames) /\ Last(s) \in AnyFrames /\ s = Append(Front(s), Last(s))
    BY SequenceParts
<1> QED BY <1>1, StackRefsAppend

(* The count that the model takes of all request blocks is that one.       *)
LEMMA PositionsRefer ==
    ASSUME StorageInv, NEW c \in Cells
    PROVE  AllReferences(Positions)[c] = Refs(stack, c)
<1>1. stack \in [Tasks -> Seq(AnyFrames)]
    BY DEF StorageInv
<1>2. Positions = Places(stack)
    BY DEF Positions, Places
<1>3. ASSUME NEW x \in Places(stack)
      PROVE  ReferencesTo(FrameAt(x), c) = Weight(c)[stack[x[1]][x[2]]]
    <2>1. PICK t \in Tasks : \E i \in DOMAIN stack[t] : x = <<t, i>>
        BY PlaceIs
    <2>2. PICK i \in DOMAIN stack[t] : x = <<t, i>>
        BY <2>1
    <2>3. x[1] = t /\ x[2] = i
        BY <2>2
    <2>4. stack[t] \in Seq(AnyFrames)
        BY <1>1
    <2>5. stack[t][i] \in AnyFrames
        BY <2>2, <2>4
    <2>6. Weight(c)[stack[t][i]] = ReferencesTo(stack[t][i], c)
        BY <2>5, WeightTyped
    <2> QED BY <2>3, <2>6 DEF FrameAt
<1>4. UNION {{x} \X ReferencesTo(FrameAt(x), c) : x \in Positions} = Pairs(stack, Weight(c))
    BY <1>2, <1>3 DEF Pairs
<1> QED BY <1>4 DEF AllReferences, Refs

(* So is the one of a task's.                                              *)
LEMMA TaskRefers ==
    ASSUME StorageInv, NEW t \in Tasks, NEW c \in Cells
    PROVE  AllReferences({t} \X DOMAIN stack[t])[c] = StackRefs(stack[t], c)
<1>1. stack \in [Tasks -> Seq(AnyFrames)] /\ stack[t] \in Seq(AnyFrames)
    BY DEF StorageInv
<1> DEFINE W == Weight(c)
           U == UNION {{x} \X ReferencesTo(FrameAt(x), c) : x \in {t} \X DOMAIN stack[t]}
<1>2. W \in Weights
    BY WeightTyped
<1>3. ASSUME NEW i \in DOMAIN stack[t]
      PROVE  ReferencesTo(FrameAt(<<t, i>>), c) = W[stack[t][i]]
    <2>1. stack[t][i] \in AnyFrames
        BY <1>1
    <2> QED BY <2>1, WeightTyped DEF FrameAt
<1>4. ASSUME NEW p \in U PROVE p \in Mine(stack, t, W)
    <2>1. PICK x \in {t} \X DOMAIN stack[t] : p \in {x} \X ReferencesTo(FrameAt(x), c)
        OBVIOUS
    <2>2. PICK i \in DOMAIN stack[t] : x = <<t, i>>
        OBVIOUS
    <2>3. PICK j \in W[stack[t][i]] : p = <<<<t, i>>, j>>
        BY <2>1, <2>2, <1>3
    <2>4. p \in Pairs(stack, W)
        BY <2>3, PairIs
    <2>5. p[1][1] = t
        BY <2>3
    <2> QED BY <2>4, <2>5 DEF Mine
<1>5. ASSUME NEW p \in Mine(stack, t, W) PROVE p \in U
    <2>0. p \in Pairs(stack, W) /\ p[1][1] = t
        BY DEF Mine
    <2>1. PICK v \in Tasks : \E i \in DOMAIN stack[v] : \E j \in W[stack[v][i]] : p = <<<<v, i>>, j>>
        BY <2>0, PairIs
    <2>2. PICK i \in DOMAIN stack[v] : \E j \in W[stack[v][i]] : p = <<<<v, i>>, j>>
        BY <2>1
    <2>3. PICK j \in W[stack[v][i]] : p = <<<<v, i>>, j>>
        BY <2>2
    <2>4. v = t
        BY <2>0, <2>3
    <2> DEFINE x == <<t, i>>
    <2>5. x \in {t} \X DOMAIN stack[t] /\ j \in ReferencesTo(FrameAt(x), c) /\ p = <<x, j>>
        BY <2>3, <2>4, <1>3
    <2> HIDE DEF x
    <2> QED BY <2>5
<1>6. U = Mine(stack, t, W)
    BY <1>4, <1>5
<1> HIDE DEF U, W
<1>7. Cardinality(U) = Cardinality(StackPairs(stack[t], W))
    BY <1>1, <1>2, <1>6, MinePairs
<1> QED BY <1>7 DEF U, W, AllReferences, StackRefs

(***************************************************************************)
(* The entries of a map table that refer to a cell.                        *)
(***************************************************************************)
In(map, c) == {j \in DOMAIN map : map[j].cell = c}

LEMMA EntriesFinite ==
    ASSUME NEW map \in Seq(AnyEntries)
    PROVE  /\ DOMAIN map = 1..Len(map) /\ Len(map) \in Nat /\ IsFiniteSet(DOMAIN map)
           /\ \A P \in SUBSET DOMAIN map : IsFiniteSet(P) /\ Cardinality(P) \in Nat
<1>1. DOMAIN map = 1..Len(map) /\ Len(map) \in Nat
    OBVIOUS
<1>2. IsFiniteSet(1..Len(map))
    <2>1. 1 \in Int /\ Len(map) \in Int
        BY <1>1
    <2> QED BY <2>1, FS_Interval
<1>3. \A P \in SUBSET (1..Len(map)) : IsFiniteSet(P) /\ Cardinality(P) \in Nat
    BY <1>2, FS_Subset, FS_CardinalityType
<1> QED BY <1>1, <1>2, <1>3

(* A request block refers by its program and by its entries.               *)
LEMMA ReferencesAre ==
    ASSUME NEW f \in AnyFrames, NEW c \in Cells
    PROVE  /\ References(f)[c] = (IF f.program = c THEN 1 ELSE 0) + Cardinality(In(f.map, c))
           /\ References(f)[c] \in Nat /\ Cardinality(In(f.map, c)) \in Nat
           /\ f.program = c => References(f)[c] > 0
           /\ \A j \in DOMAIN f.map : f.map[j].cell = c => References(f)[c] > 0
<1> DEFINE A == IF f.program = c THEN {0} ELSE {}
           B == In(f.map, c)
<1>1. f.map \in Seq(AnyEntries)
    BY FrameParts
<1>2. ReferencesTo(f, c) = A \cup B
    BY <1>1, ReferencesToIs DEF In
<1>3. IsFiniteSet(B) /\ Cardinality(B) \in Nat /\ 0 \notin B
    BY <1>1, EntriesFinite DEF In
<1>4. IsFiniteSet(A) /\ Cardinality(A) = IF f.program = c THEN 1 ELSE 0
    BY FS_Singleton, FS_EmptySet
<1>5. A \cap B = {}
    BY <1>3
<1> HIDE DEF A, B
<1>6. Cardinality(A \cup B) = Cardinality(A) + Cardinality(B)
    BY <1>3, <1>4, <1>5, Disjoint
<1>7. References(f)[c] = Cardinality(A) + Cardinality(B)
    BY <1>2, <1>6 DEF References
<1>8. ASSUME NEW j \in DOMAIN f.map, f.map[j].cell = c PROVE Cardinality(B) > 0
    <2>1. B # {}
        BY <1>8 DEF B, In
    <2>2. Cardinality(B) # 0
        BY <2>1, <1>3, FS_EmptySet
    <2> QED BY <2>2, <1>3
<1> QED BY <1>3, <1>4, <1>7, <1>8 DEF B

LEMMA InAppend ==
    ASSUME NEW map \in Seq(AnyEntries), NEW e \in AnyEntries, NEW c \in Cells
    PROVE  Cardinality(In(Append(map, e), c))
              = Cardinality(In(map, c)) + (IF e.cell = c THEN 1 ELSE 0)
<1> DEFINE n == Len(map) + 1
           a == Append(map, e)
<1>1. /\ a \in Seq(AnyEntries) /\ DOMAIN a = 1..n /\ DOMAIN map = 1..(n - 1) /\ n \in Nat \ {0}
      /\ a[n] = e /\ \A i \in 1..(n - 1) : a[i] = map[i]
    OBVIOUS
<1> HIDE DEF a, n
<1>2. IsFiniteSet(In(map, c)) /\ Cardinality(In(map, c)) \in Nat /\ n \notin In(map, c)
    BY <1>1, EntriesFinite DEF In
<1>3. CASE e.cell = c
    <2>1. In(a, c) = In(map, c) \cup {n}
        BY <1>1, <1>3 DEF In
    <2>2. IsFiniteSet({n}) /\ Cardinality({n}) = 1 /\ In(map, c) \cap {n} = {}
        BY <1>2, FS_Singleton
    <2>3. Cardinality(In(map, c) \cup {n}) = Cardinality(In(map, c)) + Cardinality({n})
        BY <1>2, <2>2, Disjoint
    <2> QED BY <1>3, <2>1, <2>2, <2>3 DEF a
<1>4. CASE e.cell # c
    <2>1. In(a, c) = In(map, c)
        BY <1>1, <1>4 DEF In
    <2> QED BY <1>2, <1>4, <2>1 DEF a
<1> QED BY <1>3, <1>4

(* The entries of a sublist are those of the sequence at its positions.    *)
LEMMA InSublist ==
    ASSUME NEW map \in Seq(AnyEntries), NEW P \in SUBSET DOMAIN map, NEW c \in Cells
    PROVE  Cardinality(In(Sublist(map, P), c)) = Cardinality({j \in P : map[j].cell = c})
<1> DEFINE s == Sublist(map, P)
           S == In(s, c)
           T == {j \in P : map[j].cell = c}
           f == [k \in S |-> Nth(P, k)]
<1>1. /\ s \in Seq(AnyEntries) /\ IsFiniteSet(P) /\ DOMAIN s = 1..Cardinality(P)
      /\ \A k \in 1..Cardinality(P) : Nth(P, k) \in P /\ s[k] = map[Nth(P, k)]
    BY SublistIs
<1>2. P \in SUBSET Nat
    BY EntriesFinite
<1>3. /\ \A j, k \in 1..Cardinality(P) : Nth(P, j) = Nth(P, k) => j = k
      /\ \A p \in P : \E k \in 1..Cardinality(P) : Nth(P, k) = p
    BY <1>1, <1>2, NthIs
<1> HIDE DEF s
<1>4. IsFiniteSet(S)
    BY <1>1, EntriesFinite DEF In
<1>5. \A k \in S : k \in 1..Cardinality(P) /\ s[k].cell = c
    BY <1>1 DEF In
<1>6. f \in [S -> T]
    BY <1>1, <1>5
<1>7. \A j, k \in S : f[j] = f[k] => j = k
    BY <1>3, <1>5
<1>8. ASSUME NEW p \in T PROVE \E k \in S : f[k] = p
    <2>1. PICK k \in 1..Cardinality(P) : Nth(P, k) = p
        BY <1>3
    <2>2. k \in S
        BY <2>1, <1>1 DEF In
    <2> QED BY <2>1, <2>2
<1> HIDE DEF S, T, f
<1>9. Cardinality(T) = Cardinality(S)
    BY <1>4, <1>6, <1>7, <1>8, SameSize
<1> QED BY <1>9 DEF s, S, T

(* A window is given up: what is left and what goes make up the table.     *)
LEMMA InWithout ==
    ASSUME NEW map \in Seq(AnyEntries), NEW w, NEW c \in Cells
    PROVE  LET gone == {j \in {i \in DOMAIN map : map[i].window = w} : map[j].cell = c}
           IN  /\ Cardinality(In(Without(map, w), c)) + Cardinality(gone) = Cardinality(In(map, c))
               /\ Cardinality(gone) \in Nat
               /\ Cardinality(In(Without(map, w), c)) \in Nat
<1> DEFINE P == {i \in DOMAIN map : map[i].window # w}
           K == {j \in P : map[j].cell = c}
           G == {j \in {i \in DOMAIN map : map[i].window = w} : map[j].cell = c}
<1>1. P \in SUBSET DOMAIN map /\ K \in SUBSET DOMAIN map /\ G \in SUBSET DOMAIN map
    OBVIOUS
<1>2. Cardinality(In(Without(map, w), c)) = Cardinality(K)
    BY <1>1, InSublist DEF Without
<1>3. In(map, c) = K \cup G /\ K \cap G = {}
    BY DEF In
<1> HIDE DEF P, K, G
<1>4. IsFiniteSet(K) /\ IsFiniteSet(G) /\ Cardinality(K) \in Nat /\ Cardinality(G) \in Nat
    BY <1>1, EntriesFinite
<1>5. Cardinality(K \cup G) = Cardinality(K) + Cardinality(G)
    BY <1>3, <1>4, Disjoint
<1> QED BY <1>2, <1>3, <1>4, <1>5 DEF G

(* A table is continued by a table with one entry.                         *)
LEMMA PlacedAfter ==
    ASSUME NEW w \in Windows, NEW c \in Cells, NEW map \in Seq(AnyEntries)
    PROVE  map \o Placed(<<>>, w, c) = Append(map, [window |-> w, cell |-> c, pages |-> 1])
<1> DEFINE e == [window |-> w, cell |-> c, pages |-> 1]
<1>1. <<>> \in Seq(AnyEntries) /\ DOMAIN <<>> = {}
    OBVIOUS
<1>2. Without(<<>>, w) = <<>>
    <2>1. {i \in DOMAIN <<>> : <<>>[i].window # w} = {}
        BY <1>1
    <2>2. Without(<<>>, w) = Sublist(<<>>, {})
        BY <2>1 DEF Without
    <2>3. Cardinality({}) = 0 /\ 1..0 = {}
        BY FS_EmptySet
    <2>4. Sublist(<<>>, {}) = <<>>
        <3>1. DOMAIN Sublist(<<>>, {}) = {}
            BY <2>3 DEF Sublist
        <3>2. Sublist(<<>>, {}) = [k \in 1..0 |-> <<>>[Nth({}, k)]]
            BY <2>3 DEF Sublist
        <3> QED BY <2>3, <3>2
    <2> QED BY <2>2, <2>4
<1>3. Placed(<<>>, w, c) = Append(<<>>, e)
    BY <1>2 DEF Placed
<1>4. e \in AnyEntries
    BY DEF AnyEntries
<1> HIDE DEF e
<1>5. <<e>> \in Seq(AnyEntries)
    BY <1>4
<1>6. Append(<<>>, e) = <<e>>
    BY <1>1, <1>4, <1>5, AppendIsConcat, ConcatEmptySeq
<1>7. map \o <<e>> = Append(map, e)
    BY <1>4, AppendIsConcat
<1> QED BY <1>3, <1>6, <1>7 DEF e

(***************************************************************************)
(* The count of every block, over blocks b, stacks st and the blocks h     *)
(* that guests hold.                                                       *)
(***************************************************************************)
Number(st, h) == [c \in Cells |-> Refs(st, c) + HeldOnce(h, c)]

Right(b, number) == \A c \in Cells : b[c].use = number[c]

(* What is pinned is a work space in its queue; only these have an owner.  *)
Tidy(b) ==
    \A c \in Cells : /\ b[c].pinned => b[c].kind = "space" /\ b[c].queued
                     /\ b[c].owner # Nobody => b[c].kind = "space"

(* What nothing refers to can still be found by its queue.                 *)
Reached(b, number) ==
    \A c \in Cells : b[c].kind # "none" /\ number[c] = 0 => b[c].kind = "space" /\ b[c].queued

Owners(b, st) == \A c \in Cells : b[c].owner # Nobody => st[b[c].owner] # <<>>

Sound(b, st, h) ==
    Right(b, Number(st, h)) /\ Tidy(b) /\ Reached(b, Number(st, h)) /\ Owners(b, st)

(* Blocks that differ in nothing that is counted.                          *)
SameUse(b, n) ==
    \A c \in Cells : /\ n[c].use = b[c].use /\ n[c].kind = b[c].kind
                     /\ n[c].pinned = b[c].pinned /\ n[c].queued = b[c].queued
                     /\ n[c].owner = b[c].owner

LEMMA SameUseKeeps ==
    ASSUME NEW b, NEW n, SameUse(b, n), NEW st, NEW h, Sound(b, st, h)
    PROVE  Sound(n, st, h)
BY DEF SameUse, Sound, Right, Tidy, Reached, Owners

LEMMA LoadedSame ==
    ASSUME NEW b, NEW a, Stored(b, a), NEW f \in AnyFrames
    PROVE  SameUse(b, Loaded(b, a, f)) /\ Stored(Loaded(b, a, f), ArenaLoaded(b, a, f))
<1>1. b \in [Cells -> Blocks]
    BY DEF Stored, BlocksSound
<1>2. ASSUME NEW c \in Cells
      PROVE  LET r == Loaded(b, a, f)[c]
             IN  /\ r.use = b[c].use /\ r.kind = b[c].kind /\ r.pinned = b[c].pinned
                 /\ r.queued = b[c].queued /\ r.owner = b[c].owner
    <2>1. CASE Loaded(b, a, f)[c] = b[c]
        BY <2>1
    <2>2. CASE \E p \in 0..LastPage : Loaded(b, a, f)[c] = WithTail(b[c], p)
        BY <1>1, <2>2, TailIs
    <2> QED BY <2>1, <2>2, LoadedIs
<1> QED BY <1>2, LoadedIs DEF SameUse

LEMMA CountedByte ==
    ASSUME NEW x \in Nat, NEW g \in Nat, NEW l \in Nat, NEW y \in Nat, y + l = x + g, y <= 255
    PROVE  (x + g - l) % 256 = y
<1>1. x + g - l = y
    OBVIOUS
<1>2. \A k \in 0..255 : k % 256 = k
    OBVIOUS
<1>3. y \in 0..255
    OBVIOUS
<1> QED BY <1>1, <1>2, <1>3

(* What there is and what is gained is what is lost and what there is      *)
(* then; only blocks gain, and those that nothing referred to, unless they *)
(* can be found.                                                           *)
Balanced(b, gain, lose, before, after) ==
    /\ Right(b, before) /\ Tidy(b)
    /\ \A c \in Cells : after[c] + lose[c] = before[c] + gain[c] /\ after[c] <= 255
    /\ \A c \in Cells : b[c].kind = "none" => gain[c] = 0
    /\ \A c \in Cells : b[c].kind # "none" /\ before[c] = 0 /\ gain[c] = 0 =>
          b[c].kind = "space" /\ b[c].queued

(* References are counted: the use counts stay right.                      *)
LEMMA CountingRight ==
    ASSUME NEW b, BlocksSound(b), NEW gain \in [Cells -> Nat], NEW lose \in [Cells -> Nat],
           NEW before \in [Cells -> Nat], NEW after \in [Cells -> Nat],
           Balanced(b, gain, lose, before, after)
    PROVE  LET n == Counted(b, gain, lose)
           IN  /\ Right(n, after) /\ Tidy(n) /\ Reached(n, after)
               /\ \A c \in Cells : n[c].owner = Nobody \/ n[c].owner = b[c].owner
               /\ \A c \in Cells : after[c] > 0 => n[c].kind = b[c].kind
<1> DEFINE n == Counted(b, gain, lose)
           gone == Deleted(b, gain, lose)
<1>1. /\ \A c \in gone : n[c] = NoBlock
      /\ \A c \in Cells \ gone :
            /\ n[c].kind = b[c].kind /\ n[c].pinned = b[c].pinned
            /\ n[c].queued = b[c].queued /\ n[c].owner = b[c].owner
    <2>1. \A c \in gone : n[c] = NoBlock
        BY CountedIs
    <2>2. \A c \in Cells \ gone :
             /\ n[c].kind = b[c].kind /\ n[c].pinned = b[c].pinned
             /\ n[c].queued = b[c].queued /\ n[c].owner = b[c].owner
        BY CountedIs
    <2> QED BY <2>1, <2>2
<1>2. ASSUME NEW c \in Cells PROVE (b[c].use + gain[c] - lose[c]) % 256 = after[c]
    <2>1. b[c].use = before[c]
        BY DEF Balanced, Right
    <2>2. before[c] \in Nat /\ gain[c] \in Nat /\ lose[c] \in Nat /\ after[c] \in Nat
        OBVIOUS
    <2>3. after[c] + lose[c] = before[c] + gain[c] /\ after[c] <= 255
        BY DEF Balanced
    <2> QED BY <2>1, <2>2, <2>3, CountedByte
<1>3. ASSUME NEW c \in Cells
      PROVE  c \in gone <=> b[c].kind # "none" /\ ~b[c].pinned /\ lose[c] > 0 /\ after[c] = 0
    BY <1>2 DEF Deleted, UseAfter
<1>4. ASSUME NEW c \in Cells, c \notin gone, b[c].kind # "none"
      PROVE  n[c].use = after[c]
    <2>1. n[c] = WithUse(b[c], UseAfter(b, c, gain, lose))
        BY <1>4 DEF Counted
    <2>2. UseAfter(b, c, gain, lose) = after[c]
        BY <1>2 DEF UseAfter
    <2> HIDE DEF n, gone
    <2>3. b[c] \in Blocks
        BY DEF BlocksSound
    <2>4. after[c] \in 0..255
        <3>1. after[c] \in Nat
            OBVIOUS
        <3>2. after[c] <= 255
            BY DEF Balanced
        <3> QED BY <3>1, <3>2
    <2>5. WithUse(b[c], after[c]).use = after[c]
        BY <2>3, <2>4, UseIs
    <2> QED BY <2>1, <2>2, <2>5
<1>5. ASSUME NEW c \in Cells, b[c].kind = "none"
      PROVE  n[c] = NoBlock /\ after[c] = 0
    <2>1. b[c] = NoBlock
        BY <1>5 DEF BlocksSound
    <2>2. before[c] = 0
        BY <2>1, NoBlockIs DEF Balanced, Right
    <2>3. gain[c] = 0 /\ after[c] \in Nat /\ lose[c] \in Nat /\ after[c] + lose[c] = before[c] + gain[c]
        BY <1>5 DEF Balanced
    <2>4. after[c] = 0
        BY <2>2, <2>3
    <2>5. n[c] = NoBlock
        BY <1>5 DEF Counted
    <2> QED BY <2>4, <2>5
<1> HIDE DEF n, gone
<1>6. Right(n, after)
    <2> SUFFICES ASSUME NEW c \in Cells PROVE n[c].use = after[c]
        BY DEF Right
    <2>1. CASE b[c].kind = "none"
        BY <2>1, <1>5, NoBlockIs
    <2>2. CASE c \in gone
        BY <2>2, <1>1, <1>3, NoBlockIs
    <2>3. CASE c \notin gone /\ b[c].kind # "none"
        BY <2>3, <1>4
    <2> QED BY <2>1, <2>2, <2>3
<1>7. ASSUME NEW c \in Cells
      PROVE  /\ n[c].pinned => n[c].kind = "space" /\ n[c].queued
             /\ n[c].owner # Nobody => n[c].kind = "space"
             /\ n[c].owner = Nobody \/ n[c].owner = b[c].owner
             /\ after[c] > 0 => n[c].kind = b[c].kind
    <2>1. CASE c \in gone
        <3>1. n[c] = NoBlock /\ after[c] = 0
            BY <2>1, <1>1, <1>3
        <3> QED BY <3>1, NoBlockIs
    <2>2. CASE c \notin gone
        BY <2>2, <1>1 DEF Balanced, Tidy
    <2> QED BY <2>1, <2>2
<1>8. ASSUME NEW c \in Cells, n[c].kind # "none", after[c] = 0
      PROVE  n[c].kind = "space" /\ n[c].queued
    <2>1. c \notin gone /\ b[c].kind # "none"
        BY <1>8, <1>1, <1>5, NoBlockIs
    <2>2. b[c].pinned \/ lose[c] = 0
        <3>1. lose[c] \in Nat
            OBVIOUS
        <3> QED BY <3>1, <2>1, <1>3, <1>8
    <2>3. CASE b[c].pinned
        BY <2>1, <2>3, <1>1 DEF Balanced, Tidy
    <2>4. CASE lose[c] = 0
        <3>1. before[c] \in Nat /\ gain[c] \in Nat /\ after[c] + lose[c] = before[c] + gain[c]
            BY DEF Balanced
        <3>2. before[c] = 0 /\ gain[c] = 0
            BY <3>1, <2>4, <1>8
        <3> QED BY <3>2, <2>1, <1>1 DEF Balanced
    <2> QED BY <2>2, <2>3, <2>4
<1> QED BY <1>6, <1>7, <1>8 DEF n, Tidy, Reached

(***************************************************************************)
(* Stacks that refer to the same.                                          *)
(***************************************************************************)
Alike(v, w) ==
    \A t \in Tasks : /\ Len(v[t]) = Len(w[t])
                     /\ \A i \in 1..Len(v[t]) : /\ v[t][i].program = w[t][i].program
                                                /\ v[t][i].map = w[t][i].map

LEMMA AlikeCount ==
    ASSUME NEW v \in [Tasks -> Seq(AnyFrames)], NEW w \in [Tasks -> Seq(AnyFrames)], Alike(v, w)
    PROVE  /\ \A W \in Weights : Pairs(v, W) = Pairs(w, W)
           /\ \A h : Number(v, h) = Number(w, h)
           /\ Few(v) => Few(w)
           /\ \A b \in [Cells -> Blocks] : Owners(b, v) => Owners(b, w)
<1>1. ASSUME NEW W \in Weights PROVE Pairs(v, W) = Pairs(w, W)
    <2>1. ASSUME NEW t \in Tasks
          PROVE  /\ DOMAIN v[t] = DOMAIN w[t]
                 /\ \A i \in DOMAIN v[t] : W[v[t][i]] = W[w[t][i]]
        <3>1. v[t] \in Seq(AnyFrames) /\ w[t] \in Seq(AnyFrames)
            OBVIOUS
        <3>2. DOMAIN v[t] = 1..Len(v[t]) /\ DOMAIN w[t] = 1..Len(w[t]) /\ Len(v[t]) = Len(w[t])
            BY <3>1 DEF Alike
        <3>3. ASSUME NEW i \in 1..Len(v[t]) PROVE W[v[t][i]] = W[w[t][i]]
            <4>1. v[t][i] \in AnyFrames /\ w[t][i] \in AnyFrames
                BY <3>1, <3>2
            <4>2. v[t][i].program = w[t][i].program /\ v[t][i].map = w[t][i].map
                BY DEF Alike
            <4> QED BY <4>1, <4>2 DEF Weights
        <3> QED BY <3>2, <3>3
    <2>2. ASSUME NEW p PROVE p \in Pairs(v, W) <=> p \in Pairs(w, W)
        <3>1. p \in Pairs(v, W) <=>
                 \E t \in Tasks : \E i \in DOMAIN v[t] : \E j \in W[v[t][i]] : p = <<<<t, i>>, j>>
            BY PairIs
        <3>2. p \in Pairs(w, W) <=>
                 \E t \in Tasks : \E i \in DOMAIN w[t] : \E j \in W[w[t][i]] : p = <<<<t, i>>, j>>
            BY PairIs
        <3> QED BY <2>1, <3>1, <3>2
    <2> QED BY <2>2
<1>2. \A c \in Cells : Refs(v, c) = Refs(w, c)
    BY <1>1, WeightTyped DEF Refs
<1>3. \A h : Number(v, h) = Number(w, h)
    BY <1>2 DEF Number
<1>4. Few(v) => Few(w)
    BY <1>1, OneIs DEF Few
<1>5. ASSUME NEW t \in Tasks, v[t] # <<>> PROVE w[t] # <<>>
    <2>1. v[t] \in Seq(AnyFrames) /\ Len(v[t]) = Len(w[t])
        BY DEF Alike
    <2>2. Len(v[t]) # 0
        BY <2>1, <1>5
    <2> QED BY <2>1, <2>2
<1>6. ASSUME NEW b \in [Cells -> Blocks], Owners(b, v) PROVE Owners(b, w)
    <2> SUFFICES ASSUME NEW c \in Cells, b[c].owner # Nobody PROVE w[b[c].owner] # <<>>
        BY DEF Owners
    <2>1. b[c] \in Blocks
        OBVIOUS
    <2>2. b[c].owner \in Tasks
        BY <2>1 DEF Blocks
    <2> QED BY <2>2, <1>5, <1>6 DEF Owners
<1> QED BY <1>1, <1>3, <1>4, <1>6

(***************************************************************************)
(* What is kept: few request blocks, and every block counted.              *)
(***************************************************************************)
RefInv == StorageInv /\ Few(stack) /\ Sound(block, stack, held)

(* So few that no count reaches the end of its byte.                       *)
ByteSuffices == (MaxFrames + 2) * (MaxEntries + 1) < 255

LEMMA NumberIs ==
    ASSUME ByteSuffices, NEW st \in [Tasks -> Seq(AnyFrames)], IsFiniteSet(Pairs(st, One)),
           Cardinality(Pairs(st, One)) <= MaxFrames + 2, NEW h
    PROVE  /\ Number(st, h) \in [Cells -> Nat]
           /\ \A c \in Cells : /\ Number(st, h)[c] = Refs(st, c) + HeldOnce(h, c)
                               /\ Refs(st, c) \in Nat /\ HeldOnce(h, c) \in {0, 1}
                               /\ Number(st, h)[c] <= 255
<1>1. ASSUME NEW c \in Cells
      PROVE  Refs(st, c) \in Nat /\ Refs(st, c) <= 254
    <2>1. MaxFrames + 2 \in Nat
        BY BoundsAssumption
    <2>2. Refs(st, c) \in Nat /\ Refs(st, c) <= (MaxFrames + 2) * (MaxEntries + 1)
        BY <2>1, RefsBounded
    <2>3. (MaxFrames + 2) * (MaxEntries + 1) \in Nat
        BY BoundsAssumption
    <2> DEFINE m == (MaxFrames + 2) * (MaxEntries + 1)
    <2>4. m \in Nat /\ m < 255 /\ Refs(st, c) <= m
        BY <2>2, <2>3 DEF ByteSuffices
    <2> HIDE DEF m
    <2> QED BY <2>2, <2>4
<1>2. ASSUME NEW c \in Cells PROVE HeldOnce(h, c) \in {0, 1}
    BY DEF HeldOnce
<1> QED BY <1>1, <1>2 DEF Number

LEMMA FewNumber ==
    ASSUME ByteSuffices, NEW st \in [Tasks -> Seq(AnyFrames)], Few(st), NEW h
    PROVE  /\ Number(st, h) \in [Cells -> Nat]
           /\ \A c \in Cells : /\ Number(st, h)[c] = Refs(st, c) + HeldOnce(h, c)
                               /\ Refs(st, c) \in Nat /\ HeldOnce(h, c) \in {0, 1}
                               /\ Number(st, h)[c] <= 255
<1>1. IsFiniteSet(Pairs(st, One)) /\ Cardinality(Pairs(st, One)) <= MaxFrames + 1
    BY DEF Few
<1>2. Cardinality(Pairs(st, One)) \in Nat
    BY <1>1, FS_CardinalityType
<1>3. Cardinality(Pairs(st, One)) <= MaxFrames + 2
    BY <1>1, <1>2, BoundsAssumption
<1> QED BY <1>1, <1>3, NumberIs

(* What a request block refers to is there.                                *)
LEMMA ReferredTo ==
    ASSUME ByteSuffices, RefInv, NEW t \in Tasks, NEW i \in DOMAIN stack[t], NEW c \in Cells,
           References(stack[t][i])[c] > 0
    PROVE  block[c].use > 0 /\ block[c].kind # "none"
<1>1. /\ stack \in [Tasks -> Seq(AnyFrames)] /\ Few(stack) /\ IsFiniteSet(Pairs(stack, One))
      /\ Right(block, Number(stack, held))
      /\ BlocksSound(block)
    BY DEF RefInv, StorageInv, Few, Sound, Stored
<1>2. stack[t][i] \in AnyFrames
    <2>1. stack[t] \in Seq(AnyFrames)
        BY <1>1
    <2> QED BY <2>1
<1>3. PICK j : j \in Weight(c)[stack[t][i]]
    <2>1. /\ Weight(c)[stack[t][i]] # {}
        <3>1. Cardinality(Weight(c)[stack[t][i]]) > 0
            BY <1>2, WeightTyped
        <3> QED BY <3>1, FS_EmptySet
    <2> QED BY <2>1
<1>4. <<<<t, i>>, j>> \in Pairs(stack, Weight(c))
    BY <1>3, PairIs
<1>5. IsFiniteSet(Pairs(stack, Weight(c))) /\ Refs(stack, c) \in Nat
    <2> DEFINE m == Cardinality(Pairs(stack, One))
    <2>1. m \in Nat /\ m <= m
        BY <1>1, FS_CardinalityType
    <2> QED BY <1>1, <2>1, RefsBounded
<1>6. Refs(stack, c) # 0
    BY <1>4, <1>5, FS_EmptySet DEF Refs
<1>7. block[c].use = Refs(stack, c) + HeldOnce(held, c) /\ HeldOnce(held, c) \in {0, 1}
    BY <1>1, FewNumber DEF Right
<1>8. block[c].use > 0
    BY <1>5, <1>6, <1>7
<1>9. block[c].kind # "none"
    BY <1>1, <1>8, NoBlockIs DEF BlocksSound
<1> QED BY <1>8, <1>9

LEMMA HeldIsThere ==
    ASSUME ByteSuffices, RefInv, NEW c \in held
    PROVE  c \in Cells /\ block[c].use > 0 /\ block[c].kind # "none"
<1>1. /\ stack \in [Tasks -> Seq(AnyFrames)] /\ Few(stack) /\ c \in Cells
      /\ Right(block, Number(stack, held))
      /\ BlocksSound(block)
    BY DEF RefInv, StorageInv, Few, Sound, Stored
<1>2. block[c].use = Refs(stack, c) + 1 /\ Refs(stack, c) \in Nat
    BY <1>1, FewNumber DEF Right, HeldOnce
<1>3. block[c].use > 0
    BY <1>2
<1> QED BY <1>1, <1>3, NoBlockIs DEF BlocksSound

(* What task u and the guests refer to in stacks n changes by as much.     *)
Exchanged(n, u, h, gain, lose) ==
    \A c \in Cells : StackRefs(n[u], c) + HeldOnce(h, c) + lose[c]
                        = StackRefs(stack[u], c) + HeldOnce(held, c) + gain[c]

BlocksGain(b, gain) == \A c \in Cells : b[c].kind = "none" => gain[c] = 0

LEMMA CountedOwner ==
    ASSUME NEW b, BlocksSound(b), NEW gain \in [Cells -> Nat], NEW lose \in [Cells -> Nat]
    PROVE  \A c \in Cells : \/ Counted(b, gain, lose)[c].owner = Nobody
                           \/ Counted(b, gain, lose)[c].owner = b[c].owner
<1> DEFINE n == Counted(b, gain, lose)
           gone == Deleted(b, gain, lose)
<1>1. \A c \in gone : n[c] = NoBlock
    BY CountedIs
<1>2. \A c \in Cells \ gone : n[c].owner = b[c].owner
    BY CountedIs
<1> HIDE DEF n, gone
<1>3. \A c \in Cells : n[c].owner = Nobody \/ n[c].owner = b[c].owner
    BY <1>1, <1>2, NoBlockIs
<1> QED BY <1>3 DEF n

(* One stack changes, and what guests hold, and it is counted.             *)
LEMMA Accounting ==
    ASSUME ByteSuffices, RefInv, NEW n \in [Tasks -> Seq(AnyFrames)], NEW u \in Tasks,
           \A t \in Tasks \ {u} : n[t] = stack[t], Len(n[u]) <= Len(stack[u]),
           NEW h \in SUBSET Cells, NEW b, BlocksSound(b), Sound(b, stack, held), Owners(b, n),
           NEW gain \in [Cells -> Nat], NEW lose \in [Cells -> Nat],
           Exchanged(n, u, h, gain, lose), BlocksGain(b, gain)
    PROVE  Few(n) /\ Sound(Counted(b, gain, lose), n, h)
<1>1. stack \in [Tasks -> Seq(AnyFrames)] /\ Few(stack) /\ IsFiniteSet(Pairs(stack, One))
    BY DEF RefInv, StorageInv, Few
<1>2. /\ IsFiniteSet(Pairs(n, One))
      /\ Cardinality(Pairs(n, One)) + Len(stack[u]) = Cardinality(Pairs(stack, One)) + Len(n[u])
      /\ Cardinality(Pairs(stack, One)) \in Nat /\ Cardinality(Pairs(n, One)) \in Nat
    BY <1>1, RefsChange
<1>3. \A c \in Cells :
         /\ Refs(n, c) + StackRefs(stack[u], c) = Refs(stack, c) + StackRefs(n[u], c)
         /\ Refs(stack, c) \in Nat /\ Refs(n, c) \in Nat
         /\ StackRefs(stack[u], c) \in Nat /\ StackRefs(n[u], c) \in Nat
    BY <1>1, RefsChange
<1>4. Few(n)
    <2>1. stack[u] \in Seq(AnyFrames) /\ n[u] \in Seq(AnyFrames)
        BY <1>1
    <2>2. Len(stack[u]) \in Nat /\ Len(n[u]) \in Nat
        BY <2>1
    <2>3. Cardinality(Pairs(stack, One)) <= MaxFrames + 1
        BY <1>1 DEF Few
    <2>4. Cardinality(Pairs(n, One)) <= Cardinality(Pairs(stack, One))
        BY <1>2, <2>2
    <2>5. Cardinality(Pairs(n, One)) <= MaxFrames + 1
        BY <1>2, <2>3, <2>4, BoundsAssumption
    <2> QED BY <1>2, <2>5 DEF Few
<1> DEFINE before == Number(stack, held)
           after  == Number(n, h)
<1>5. /\ before \in [Cells -> Nat]
      /\ \A c \in Cells : before[c] = Refs(stack, c) + HeldOnce(held, c) /\ HeldOnce(held, c) \in {0, 1}
    BY <1>1, FewNumber
<1>6. /\ after \in [Cells -> Nat]
      /\ \A c \in Cells : /\ after[c] = Refs(n, c) + HeldOnce(h, c) /\ HeldOnce(h, c) \in {0, 1}
                          /\ after[c] <= 255
    BY <1>4, FewNumber
<1>7. Right(b, before) /\ Tidy(b) /\ Reached(b, before)
    BY DEF Sound
<1> HIDE DEF before, after
<1>8. ASSUME NEW c \in Cells PROVE after[c] + lose[c] = before[c] + gain[c]
    <2>1. lose[c] \in Nat /\ gain[c] \in Nat
        OBVIOUS
    <2>2. StackRefs(n[u], c) + HeldOnce(h, c) + lose[c]
             = StackRefs(stack[u], c) + HeldOnce(held, c) + gain[c]
        BY DEF Exchanged
    <2>3. /\ Refs(n, c) + StackRefs(stack[u], c) = Refs(stack, c) + StackRefs(n[u], c)
          /\ Refs(stack, c) \in Nat /\ Refs(n, c) \in Nat
          /\ StackRefs(stack[u], c) \in Nat /\ StackRefs(n[u], c) \in Nat
        BY <1>3
    <2>4. before[c] = Refs(stack, c) + HeldOnce(held, c) /\ HeldOnce(held, c) \in {0, 1}
        BY <1>5
    <2>5. after[c] = Refs(n, c) + HeldOnce(h, c) /\ HeldOnce(h, c) \in {0, 1}
        BY <1>6
    <2>6. HeldOnce(held, c) \in Nat /\ HeldOnce(h, c) \in Nat
        BY <2>4, <2>5
    <2> DEFINE x == Refs(stack, c)
               y == Refs(n, c)
               p == StackRefs(stack[u], c)
               q == StackRefs(n[u], c)
               i == HeldOnce(held, c)
               j == HeldOnce(h, c)
               g == gain[c]
               l == lose[c]
    <2>7. /\ x \in Nat /\ y \in Nat /\ p \in Nat /\ q \in Nat /\ i \in Nat /\ j \in Nat
          /\ g \in Nat /\ l \in Nat /\ q + j + l = p + i + g /\ y + p = x + q
        BY <2>1, <2>2, <2>3, <2>6
    <2> HIDE DEF x, y, p, q, i, j, g, l
    <2>8. y + j + l = x + i + g
        BY <2>7
    <2> QED BY <2>4, <2>5, <2>8 DEF x, y, i, j, g, l
<1>9. Balanced(b, gain, lose, before, after)
    BY <1>6, <1>7, <1>8 DEF Balanced, Reached, BlocksGain
<1> DEFINE m == Counted(b, gain, lose)
<1>10. Right(m, after) /\ Tidy(m) /\ Reached(m, after)
    <2>1. BlocksSound(b) /\ Balanced(b, gain, lose, before, after)
        BY <1>9
    <2> QED BY <1>5, <1>6, <2>1, CountingRight
<1>12. \A c \in Cells : m[c].owner = Nobody \/ m[c].owner = b[c].owner
    BY CountedOwner
<1> HIDE DEF m
<1>11. Owners(m, n)
    BY <1>12 DEF Owners
<1> QED BY <1>4, <1>10, <1>11 DEF m, after, Sound

(* The newest request block of a stack is built.                           *)
LEMMA RebuildSound ==
    ASSUME StorageInv, NEW b, NEW a, Stored(b, a), NEW s \in Seq(AnyFrames), s # <<>>,
           Rebuild(b, a, s), NEW h,
           Few([stack EXCEPT ![current] = s]), Sound(b, [stack EXCEPT ![current] = s], h)
    PROVE  Few(stack') /\ Sound(block', stack', h)
<1> DEFINE top == Last(s)
           loaded == Loaded(b, a, top)
           built == Built(loaded, top)
           n == [stack EXCEPT ![current] = s]
           r == Append(Front(s), built)
<1>1. /\ top \in AnyFrames /\ Front(s) \in Seq(AnyFrames) /\ Len(Front(s)) = Len(s) - 1
      /\ Len(s) \in Nat \ {0} /\ top = s[Len(s)]
      /\ \A i \in 1..(Len(s) - 1) : Front(s)[i] = s[i]
      /\ \A x \in AnyFrames : [s EXCEPT ![Len(s)] = x] = Append(Front(s), x)
    BY SequenceParts
<1>2. SameUse(b, loaded) /\ Stored(loaded, ArenaLoaded(b, a, top))
    BY <1>1, LoadedSame
<1>3. built \in AnyFrames /\ built.program = top.program /\ built.map = top.map
    BY <1>1, <1>2, BuiltTyped DEF Stored, BlocksSound
<1>4. block' = loaded /\ stack' = [stack EXCEPT ![current] = r]
    BY <1>1, <1>3 DEF Rebuild
<1>5. /\ stack \in [Tasks -> Seq(AnyFrames)] /\ current \in Tasks
    BY DEF StorageInv
<1> HIDE DEF loaded, built, top
<1>6. /\ r \in Seq(AnyFrames) /\ Len(r) = Len(s) /\ r[Len(s)] = built
      /\ \A i \in 1..(Len(s) - 1) : r[i] = s[i]
    <2>1. /\ Append(Front(s), built) \in Seq(AnyFrames)
          /\ Len(Append(Front(s), built)) = Len(Front(s)) + 1
          /\ Append(Front(s), built)[Len(Front(s)) + 1] = built
          /\ \A i \in 1..Len(Front(s)) : Append(Front(s), built)[i] = Front(s)[i]
        BY <1>1, <1>3, Appending
    <2> HIDE DEF r
    <2> QED BY <1>1, <2>1 DEF r
<1> HIDE DEF r
<1>7. ASSUME NEW i \in 1..Len(s) PROVE s[i].program = r[i].program /\ s[i].map = r[i].map
    <2>1. CASE i = Len(s)
        BY <2>1, <1>1, <1>3, <1>6
    <2>2. CASE i # Len(s)
        <3>1. i \in 1..(Len(s) - 1)
            BY <2>2, <1>1
        <3> QED BY <3>1, <1>6
    <2> QED BY <2>1, <2>2
<1>8. /\ n \in [Tasks -> Seq(AnyFrames)] /\ stack' \in [Tasks -> Seq(AnyFrames)]
      /\ n[current] = s /\ stack'[current] = r
      /\ \A t \in Tasks \ {current} : n[t] = stack[t] /\ stack'[t] = stack[t]
    BY <1>4, <1>5, <1>6
<1> HIDE DEF n
<1>9. Alike(n, stack')
    <2> SUFFICES ASSUME NEW t \in Tasks
                 PROVE  /\ Len(n[t]) = Len(stack'[t])
                        /\ \A i \in 1..Len(n[t]) : /\ n[t][i].program = stack'[t][i].program
                                                   /\ n[t][i].map = stack'[t][i].map
        BY DEF Alike
    <2>1. CASE t = current
        BY <2>1, <1>6, <1>7, <1>8
    <2>2. CASE t # current
        BY <2>2, <1>8
    <2> QED BY <2>1, <2>2
<1>10. Few(n) /\ Sound(b, n, h)
    BY DEF n
<1>11. Sound(loaded, n, h)
    BY <1>2, <1>10, SameUseKeeps
<1>12. loaded \in [Cells -> Blocks]
    BY <1>2 DEF Stored, BlocksSound
<1> DEFINE w == stack'
<1>13. /\ w \in [Tasks -> Seq(AnyFrames)] /\ Alike(n, w)
    BY <1>8, <1>9
<1> HIDE DEF w
<1>14. Few(w) /\ Number(n, h) = Number(w, h) /\ (Owners(loaded, n) => Owners(loaded, w))
    BY <1>8, <1>10, <1>12, <1>13, AlikeCount
<1>15. Sound(loaded, w, h)
    BY <1>11, <1>14 DEF Sound
<1> QED BY <1>4, <1>14, <1>15 DEF w

(***************************************************************************)
(* The steps, as far as references go.                                     *)
(***************************************************************************)
RefNext == Few(stack') /\ Sound(block', stack', held')

LEMMA RefFacts ==
    ASSUME RefInv
    PROVE  /\ stack \in [Tasks -> Seq(AnyFrames)] /\ Few(stack) /\ held \in SUBSET Cells
           /\ Stored(block, arena) /\ BlocksSound(block) /\ block \in [Cells -> Blocks]
           /\ Sound(block, stack, held) /\ Right(block, Number(stack, held)) /\ Tidy(block)
           /\ Reached(block, Number(stack, held)) /\ Owners(block, stack)
           /\ current \in Tasks /\ stack[current] # <<>> /\ stack[current] \in Seq(AnyFrames)
           /\ Top(current) = Last(stack[current]) /\ Top(current) \in AnyFrames
           /\ Len(stack[current]) \in Nat \ {0} /\ StorageInv
<1>1. /\ stack \in [Tasks -> Seq(AnyFrames)] /\ current \in Tasks /\ stack[current] # <<>>
      /\ Stored(block, arena) /\ held \in SUBSET Cells /\ StorageInv
    BY DEF RefInv, StorageInv, Live
<1>2. /\ stack[current] \in Seq(AnyFrames) /\ Last(stack[current]) \in AnyFrames
      /\ Len(stack[current]) \in Nat \ {0}
    BY <1>1, TopsTyped
<1>3. /\ Sound(block, stack, held) /\ Right(block, Number(stack, held)) /\ Tidy(block)
      /\ Reached(block, Number(stack, held)) /\ Owners(block, stack) /\ Few(stack)
    BY DEF RefInv, Sound
<1>4. BlocksSound(block) /\ block \in [Cells -> Blocks]
    BY <1>1 DEF Stored, BlocksSound
<1> QED BY <1>1, <1>2, <1>3, <1>4 DEF Top

LEMMA NoReferenceIs ==
    NoReference \in [Cells -> Nat] /\ \A c \in Cells : NoReference[c] = 0
BY DEF NoReference

LEMMA ReferenceIs ==
    ASSUME NEW x
    PROVE  /\ Reference(x) \in [Cells -> Nat]
           /\ \A c \in Cells : Reference(x)[c] = IF c = x THEN 1 ELSE 0
BY DEF Reference

(* Nothing is gained.                                                      *)
LEMMA NothingGained ==
    ASSUME NEW b
    PROVE  BlocksGain(b, NoReference)
BY NoReferenceIs DEF BlocksGain

(* The owners live while no task's last request block goes.                *)
LEMMA OwnersStay ==
    ASSUME NEW b \in [Cells -> Blocks], NEW v, NEW w, Owners(b, v),
           \A t \in Tasks : v[t] # <<>> => w[t] # <<>>
    PROVE  Owners(b, w)
<1> SUFFICES ASSUME NEW c \in Cells, b[c].owner # Nobody PROVE w[b[c].owner] # <<>>
    BY DEF Owners
<1>1. b[c] \in Blocks
    OBVIOUS
<1>2. b[c].owner \in Tasks
    BY <1>1 DEF Blocks
<1> QED BY <1>2 DEF Owners

LEMMA ExitRefs ==
    ASSUME ByteSuffices, RefInv, Exit
    PROVE  RefNext
<1> DEFINE s    == stack[current]
           lose == References(Top(current))
           gone == Deleted(block, NoReference, lose)
           b    == Counted(block, NoReference, lose)
           a    == ReturnPages(arena, Vacated(block, gone))
           rest == Front(s)
           n    == [stack EXCEPT ![current] = rest]
<1>1. /\ Len(s) > 1 /\ held' = held
      /\ \/ Rebuild(b, a, rest)
         \/ block' = b /\ stack' = n
    BY DEF Exit, Depth
<1>2. /\ s \in Seq(AnyFrames) /\ s # <<>> /\ current \in Tasks /\ Top(current) = Last(s)
      /\ Top(current) \in AnyFrames
      /\ stack \in [Tasks -> Seq(AnyFrames)] /\ StorageInv /\ Stored(block, arena)
      /\ block \in [Cells -> Blocks] /\ Sound(block, stack, held) /\ Owners(block, stack)
      /\ BlocksSound(block) /\ held \in SUBSET Cells
    BY RefFacts
<1>3. rest \in Seq(AnyFrames) /\ Len(rest) = Len(s) - 1 /\ Len(s) \in Nat /\ rest # <<>>
    BY <1>1, <1>2, SequenceParts
<1>4. /\ n \in [Tasks -> Seq(AnyFrames)] /\ n[current] = rest
      /\ \A t \in Tasks \ {current} : n[t] = stack[t]
    BY <1>2, <1>3
<1>5. lose \in [Cells -> Nat] /\ NoReference \in [Cells -> Nat]
    BY <1>2, ReferencesTyped, NoReferenceIs
<1>6. Exchanged(n, current, held, NoReference, lose)
    <2> SUFFICES ASSUME NEW c \in Cells
                 PROVE  StackRefs(n[current], c) + HeldOnce(held, c) + lose[c]
                           = StackRefs(stack[current], c) + HeldOnce(held, c) + NoReference[c]
        BY DEF Exchanged
    <2>1. StackRefs(s, c) = StackRefs(rest, c) + lose[c] /\ StackRefs(rest, c) \in Nat /\ lose[c] \in Nat
        BY <1>2, StackRefsFront
    <2>2. HeldOnce(held, c) \in Nat /\ NoReference[c] = 0
        BY NoReferenceIs DEF HeldOnce
    <2> HIDE DEF n, lose, rest, s
    <2>3. StackRefs(n[current], c) = StackRefs(rest, c) /\ StackRefs(stack[current], c) = StackRefs(s, c)
        BY <1>4 DEF s
    <2> QED BY <2>1, <2>2, <2>3
<1>7. Owners(block, n)
    <2>1. \A t \in Tasks : stack[t] # <<>> => n[t] # <<>>
        BY <1>3, <1>4
    <2> QED BY <1>2, <2>1, OwnersStay
<1>8. Len(n[current]) <= Len(stack[current])
    BY <1>3, <1>4
<1>9. Stored(b, a)
    BY <1>2, <1>5, Counting
<1> HIDE DEF n, lose, rest, gone
<1>10. Few(n) /\ Sound(b, n, held)
    BY <1>2, <1>4, <1>5, <1>6, <1>7, <1>8, NothingGained, Accounting
<1> HIDE DEF b, a
<1>11. CASE Rebuild(b, a, rest)
    <2>1. Few(stack') /\ Sound(block', stack', held)
        BY <1>2, <1>3, <1>9, <1>10, <1>11, RebuildSound DEF n
    <2> QED BY <1>1, <2>1 DEF RefNext
<1>12. CASE block' = b /\ stack' = n
    BY <1>1, <1>10, <1>12 DEF RefNext
<1> QED BY <1>1, <1>11, <1>12

LEMMA FreeSecondRefs ==
    ASSUME ByteSuffices, RefInv, FreeSecond
    PROVE  RefNext
<1> DEFINE s    == stack[current]
           rest == Front(s)
           second == s[Len(s) - 1]
           lose == References(second)
           b    == Counted(block, NoReference, lose)
           r    == Append(Front(rest), Last(s))
           n    == [stack EXCEPT ![current] = r]
<1>1. Len(s) > 1 /\ held' = held /\ block' = b /\ stack' = n
    BY DEF FreeSecond, Depth, Release
<1>2. /\ s \in Seq(AnyFrames) /\ s # <<>> /\ current \in Tasks
      /\ stack \in [Tasks -> Seq(AnyFrames)]
      /\ block \in [Cells -> Blocks] /\ Sound(block, stack, held) /\ Owners(block, stack)
      /\ BlocksSound(block) /\ held \in SUBSET Cells
    BY RefFacts
<1>3. /\ rest \in Seq(AnyFrames) /\ Len(rest) = Len(s) - 1 /\ Len(s) \in Nat /\ rest # <<>>
      /\ Last(s) \in AnyFrames /\ \A i \in 1..(Len(s) - 1) : rest[i] = s[i]
    <2>1. /\ rest \in Seq(AnyFrames) /\ Len(rest) = Len(s) - 1 /\ Len(s) \in Nat
          /\ Last(s) \in AnyFrames /\ \A i \in 1..(Len(s) - 1) : rest[i] = s[i]
        BY <1>2, SequenceParts
    <2> HIDE DEF rest, s
    <2>2. Len(rest) # 0
        BY <1>1, <2>1
    <2> QED BY <2>1, <2>2
<1>4. /\ Front(rest) \in Seq(AnyFrames) /\ Last(rest) \in AnyFrames
      /\ Last(rest) = rest[Len(rest)] /\ Len(Front(rest)) = Len(rest) - 1
    BY <1>3, SequenceParts
<1>5. Last(rest) = second
    BY <1>1, <1>3, <1>4
<1>6. r \in Seq(AnyFrames) /\ Len(r) = Len(s) - 1 /\ r # <<>>
    <2> HIDE DEF rest, s
    <2>1. /\ Append(Front(rest), Last(s)) \in Seq(AnyFrames)
          /\ Len(Append(Front(rest), Last(s))) = Len(Front(rest)) + 1
        BY <1>3, <1>4, Appending
    <2>2. Append(Front(rest), Last(s)) # <<>>
        BY <1>3, <1>4, Appending
    <2> QED BY <1>3, <1>4, <2>1, <2>2
<1> HIDE DEF r
<1>7. /\ n \in [Tasks -> Seq(AnyFrames)] /\ n[current] = r
      /\ \A t \in Tasks \ {current} : n[t] = stack[t]
    BY <1>2, <1>6
<1>8. lose \in [Cells -> Nat] /\ NoReference \in [Cells -> Nat]
    BY <1>4, <1>5, ReferencesTyped, NoReferenceIs
<1> HIDE DEF n, second, rest, s
<1>9. Exchanged(n, current, held, NoReference, lose)
    <2> SUFFICES ASSUME NEW c \in Cells
                 PROVE  StackRefs(n[current], c) + HeldOnce(held, c) + lose[c]
                           = StackRefs(stack[current], c) + HeldOnce(held, c) + NoReference[c]
        BY DEF Exchanged
    <2>1. StackRefs(s, c) = StackRefs(rest, c) + References(Last(s))[c]
          /\ StackRefs(rest, c) \in Nat /\ References(Last(s))[c] \in Nat
        BY <1>2, StackRefsFront DEF rest
    <2>2. StackRefs(rest, c) = StackRefs(Front(rest), c) + lose[c]
          /\ StackRefs(Front(rest), c) \in Nat /\ lose[c] \in Nat
        BY <1>3, <1>5, StackRefsFront
    <2>3. StackRefs(r, c) = StackRefs(Front(rest), c) + References(Last(s))[c]
        BY <1>3, <1>4, StackRefsAppend DEF r
    <2>4. HeldOnce(held, c) \in Nat /\ NoReference[c] = 0
        BY NoReferenceIs DEF HeldOnce
    <2> HIDE DEF lose
    <2>5. n[current] = r /\ stack[current] = s
        BY <1>7 DEF s
    <2> QED BY <2>1, <2>2, <2>3, <2>4, <2>5
<1>10. Owners(block, n)
    <2>1. \A t \in Tasks : stack[t] # <<>> => n[t] # <<>>
        BY <1>6, <1>7
    <2> QED BY <1>2, <2>1, OwnersStay
<1>11. Len(n[current]) <= Len(stack[current])
    BY <1>3, <1>6, <1>7 DEF s
<1> HIDE DEF lose
<1>12. Few(n) /\ Sound(b, n, held)
    BY <1>2, <1>7, <1>8, <1>9, <1>10, <1>11, NothingGained, Accounting
<1> QED BY <1>1, <1>12 DEF RefNext

(* What releases a task's spaces leaves every count right.                 *)
LEMMA ReleasedSound ==
    ASSUME NEW b, BlocksSound(b), NEW t \in Tasks, NEW number, Right(b, number), Tidy(b)
    PROVE  LET n == SpacesReleased(b, t)
           IN  /\ Right(n, number) /\ Tidy(n)
               /\ \A c \in Cells :
                     /\ n[c].kind # "none" => n[c].kind = b[c].kind
                     /\ n[c].kind # "none" /\ number[c] = 0 => n[c] = b[c]
                     /\ n[c].owner = Nobody \/ (n[c].owner = b[c].owner /\ n[c].owner # t)
                     /\ b[c].kind # "none" /\ c \notin Unused(b, t) => n[c].kind # "none"
<1> DEFINE n == SpacesReleased(b, t)
<1>0. t # Nobody
    BY TasksAssumption
<1>1. ASSUME NEW c \in Cells
      PROVE  /\ n[c].use = number[c]
             /\ n[c].pinned => n[c].kind = "space" /\ n[c].queued
             /\ n[c].owner # Nobody => n[c].kind = "space"
             /\ n[c].kind # "none" => n[c].kind = b[c].kind
             /\ n[c].kind # "none" /\ number[c] = 0 => n[c] = b[c]
             /\ n[c].owner = Nobody \/ (n[c].owner = b[c].owner /\ n[c].owner # t)
             /\ b[c].kind # "none" /\ c \notin Unused(b, t) => n[c].kind # "none"
    <2>1. b[c] \in Blocks /\ b[c].use = number[c]
        BY DEF BlocksSound, Right
    <2>2. CASE c \in Unused(b, t)
        <3>1. n[c] = NoBlock /\ b[c].use = 0
            BY <2>2 DEF SpacesReleased, Unused
        <3> HIDE DEF n
        <3> QED BY <2>1, <2>2, <3>1, NoBlockIs
    <2>3. CASE c \notin Unused(b, t) /\ b[c].owner = t
        <3>1. n[c] = LetGo(b[c])
            BY <2>3 DEF SpacesReleased
        <3>2. b[c].kind = "space"
            BY <1>0, <2>3 DEF Tidy
        <3>3. b[c].use # 0
            BY <2>3, <3>2 DEF Unused, Owned
        <3> HIDE DEF n
        <3> QED BY <2>1, <2>3, <3>1, <3>2, <3>3, LetGoIs
    <2>4. CASE c \notin Unused(b, t) /\ b[c].owner # t
        <3>1. n[c] = b[c]
            BY <2>4 DEF SpacesReleased
        <3> HIDE DEF n
        <3> QED BY <2>1, <2>4, <3>1 DEF Tidy
    <2> QED BY <2>2, <2>3, <2>4
<1> HIDE DEF n
<1> QED BY <1>1 DEF n, Right, Tidy

LEMMA EndTaskRefs ==
    ASSUME ByteSuffices, RefInv, EndTask
    PROVE  RefNext
<1> DEFINE spaces == SpacesReleased(block, current)
           lose == AllReferences({current} \X DOMAIN stack[current])
           n == [stack EXCEPT ![current] = <<>>]
           number == Number(stack, held)
           z == ReturnPages(arena, Vacated(block, Unused(block, current)))
<1>1. held' = held /\ block' = Counted(spaces, NoReference, lose) /\ stack' = n
    BY DEF EndTask, Release
<1>2. /\ current \in Tasks /\ stack \in [Tasks -> Seq(AnyFrames)] /\ Stored(block, arena)
      /\ block \in [Cells -> Blocks] /\ Sound(block, stack, held) /\ Owners(block, stack)
      /\ BlocksSound(block) /\ held \in SUBSET Cells /\ Right(block, number) /\ Tidy(block)
      /\ Reached(block, number) /\ stack[current] \in Seq(AnyFrames) /\ StorageInv
    BY RefFacts
<1>3. /\ n \in [Tasks -> Seq(AnyFrames)] /\ n[current] = <<>>
      /\ \A t \in Tasks \ {current} : n[t] = stack[t]
    BY <1>2
<1>4. Len(n[current]) <= Len(stack[current])
    BY <1>2, <1>3
<1>5. lose \in [Cells -> Nat] /\ NoReference \in [Cells -> Nat]
    BY <1>2, TaskReferences, NoReferenceIs
<1>6. Stored(spaces, z)
    BY <1>2, SpacesReleasedIs
<1>7. BlocksSound(spaces)
    BY <1>6 DEF Stored
<1> HIDE DEF n, number, lose
<1>8. /\ Right(spaces, number) /\ Tidy(spaces)
      /\ \A c \in Cells :
            /\ spaces[c].kind # "none" => spaces[c].kind = block[c].kind
            /\ spaces[c].kind # "none" /\ number[c] = 0 => spaces[c] = block[c]
            /\ \/ spaces[c].owner = Nobody
               \/ spaces[c].owner = block[c].owner /\ spaces[c].owner # current
    BY <1>2, ReleasedSound
<1> HIDE DEF spaces
<1>9. Reached(spaces, number)
    BY <1>2, <1>8 DEF Reached
<1>10. Owners(spaces, n)
    <2> SUFFICES ASSUME NEW c \in Cells, spaces[c].owner # Nobody PROVE n[spaces[c].owner] # <<>>
        BY DEF Owners
    <2>1. spaces[c].owner = block[c].owner /\ spaces[c].owner # current
        BY <1>8
    <2>2. block[c] \in Blocks
        BY <1>2
    <2>3. block[c].owner \in Tasks /\ stack[block[c].owner] # <<>>
        BY <1>2, <2>1, <2>2 DEF Owners, Blocks
    <2> QED BY <1>3, <2>1, <2>3
<1>11. Owners(spaces, stack)
    BY <1>2, <1>8 DEF Owners
<1>12. Sound(spaces, stack, held)
    BY <1>8, <1>9, <1>11 DEF Sound, number
<1>13. Exchanged(n, current, held, NoReference, lose)
    <2> SUFFICES ASSUME NEW c \in Cells
                 PROVE  StackRefs(n[current], c) + HeldOnce(held, c) + lose[c]
                           = StackRefs(stack[current], c) + HeldOnce(held, c) + NoReference[c]
        BY DEF Exchanged
    <2>1. StackRefs(<<>>, c) = 0
        BY StackEmpty DEF StackRefs
    <2>2. lose[c] = StackRefs(stack[current], c) /\ lose[c] \in Nat
        BY <1>2, <1>5, TaskRefers DEF lose
    <2>3. HeldOnce(held, c) \in Nat /\ NoReference[c] = 0
        BY NoReferenceIs DEF HeldOnce
    <2> QED BY <1>3, <2>1, <2>2, <2>3
<1>14. Few(n) /\ Sound(Counted(spaces, NoReference, lose), n, held)
    BY <1>2, <1>3, <1>4, <1>5, <1>7, <1>10, <1>12, <1>13, NothingGained, Accounting
<1> QED BY <1>1, <1>14 DEF RefNext

(* A window of the newest request block is mapped otherwise.               *)
LEMMA RemapRefs ==
    ASSUME ByteSuffices, RefInv, NEW w \in Windows, NEW entries \in Seq(AnyEntries),
           NEW gain \in [Cells -> Nat], Remap(w, entries, gain), BlocksGain(block, gain),
           \A c \in Cells : Cardinality(In(Without(Top(current).map, w) \o entries, c))
                               = Cardinality(In(Without(Top(current).map, w), c)) + gain[c]
    PROVE  RefNext
<1> DEFINE f == Top(current)
           left == {j \in DOMAIN f.map : f.map[j].window = w}
           lose == [c \in Cells |-> Cardinality({j \in left : f.map[j].cell = c})]
           gone == Deleted(block, gain, lose)
           map  == Without(f.map, w) \o entries
           next == WithMap(f, map)
           b    == Counted(block, gain, lose)
           a    == ReturnPages(arena, Vacated(block, gone))
           s    == Append(Front(stack[current]), next)
           n    == [stack EXCEPT ![current] = s]
<1>1. Len(next.map) <= MaxEntries /\ Rebuild(b, a, s) /\ held' = held
    BY DEF Remap
<1>2. /\ current \in Tasks /\ stack[current] # <<>> /\ stack[current] \in Seq(AnyFrames)
      /\ f \in AnyFrames /\ f = Last(stack[current]) /\ Len(stack[current]) \in Nat \ {0}
      /\ stack \in [Tasks -> Seq(AnyFrames)] /\ StorageInv /\ Stored(block, arena)
      /\ block \in [Cells -> Blocks] /\ Sound(block, stack, held) /\ Owners(block, stack)
      /\ BlocksSound(block) /\ held \in SUBSET Cells
    BY RefFacts
<1>3. /\ Front(stack[current]) \in Seq(AnyFrames)
      /\ Len(Front(stack[current])) = Len(stack[current]) - 1
    BY <1>2, SequenceParts
<1>4. f.map \in Seq(AnyEntries)
    BY <1>2, FrameParts
<1>6. \A c \in Cells :
         Cardinality(In(map, c)) = Cardinality(In(Without(f.map, w), c)) + gain[c]
    OBVIOUS
<1> HIDE DEF f, map, next, b, a, s, n, gone
<1>5. \A c \in Cells :
         /\ Cardinality(In(Without(f.map, w), c)) + lose[c] = Cardinality(In(f.map, c))
         /\ lose[c] \in Nat /\ Cardinality(In(Without(f.map, w), c)) \in Nat
    <2> TAKE c \in Cells
    <2>1. lose[c] = Cardinality({j \in {i \in DOMAIN f.map : f.map[i].window = w} : f.map[j].cell = c})
        OBVIOUS
    <2> HIDE DEF lose, left
    <2> QED BY <1>4, <2>1, InWithout
<1>7. lose \in [Cells -> Nat]
    BY <1>5
<1> HIDE DEF lose, left
<1>8. map \in Seq(AnyEntries)
    <2>1. Without(f.map, w) \in Seq(AnyEntries)
        BY <1>4, WithoutTyped
    <2> QED BY <2>1 DEF map
<1>9. next.map = map
    BY <1>2 DEF WithMap, AnyFrames, next
<1>10. next \in AnyFrames /\ next.program = f.program
    BY <1>1, <1>2, <1>8, <1>9, WithMapIs DEF next
<1>11. s \in Seq(AnyFrames) /\ s # <<>> /\ Len(s) = Len(stack[current])
    <2>1. /\ s \in Seq(AnyFrames) /\ s # <<>> /\ Len(s) = Len(Front(stack[current])) + 1
        BY <1>3, <1>10, Appending DEF s
    <2> QED BY <1>2, <1>3, <2>1
<1>12. ASSUME NEW c \in Cells
       PROVE  /\ StackRefs(s, c) + lose[c] = StackRefs(stack[current], c) + gain[c]
              /\ StackRefs(s, c) \in Nat /\ StackRefs(stack[current], c) \in Nat
    <2>1. /\ StackRefs(stack[current], c) = StackRefs(Front(stack[current]), c) + References(f)[c]
          /\ StackRefs(Front(stack[current]), c) \in Nat /\ References(f)[c] \in Nat
        BY <1>2, StackRefsFront
    <2>2. /\ StackRefs(s, c) = StackRefs(Front(stack[current]), c) + References(next)[c]
          /\ References(next)[c] \in Nat
        BY <1>3, <1>10, StackRefsAppend DEF s
    <2>3. /\ References(f)[c] = (IF f.program = c THEN 1 ELSE 0) + Cardinality(In(f.map, c))
          /\ Cardinality(In(f.map, c)) \in Nat
        BY <1>2, ReferencesAre
    <2>4. /\ References(next)[c] = (IF f.program = c THEN 1 ELSE 0) + Cardinality(In(map, c))
          /\ Cardinality(In(map, c)) \in Nat
        BY <1>9, <1>10, ReferencesAre
    <2> DEFINE p == IF f.program = c THEN 1 ELSE 0
               x == Cardinality(In(f.map, c))
               y == Cardinality(In(map, c))
               z == Cardinality(In(Without(f.map, w), c))
               r == StackRefs(Front(stack[current]), c)
               v == StackRefs(stack[current], c)
               u == StackRefs(s, c)
               l == lose[c]
               g == gain[c]
    <2>5. /\ v = r + (p + x) /\ u = r + (p + y) /\ z + l = x /\ y = z + g
          /\ p \in Nat /\ x \in Nat /\ y \in Nat /\ z \in Nat /\ r \in Nat /\ l \in Nat /\ g \in Nat
        BY <1>5, <1>6, <2>1, <2>2, <2>3, <2>4
    <2> HIDE DEF p, x, y, z, r, v, u, l, g
    <2>6. u + l = v + g /\ u \in Nat /\ v \in Nat
        BY <2>5
    <2> QED BY <2>6 DEF u, v, l, g
<1>13. /\ n \in [Tasks -> Seq(AnyFrames)] /\ n[current] = s
       /\ \A t \in Tasks \ {current} : n[t] = stack[t]
    BY <1>2, <1>11 DEF n
<1>14. Owners(block, n)
    <2>1. \A t \in Tasks : stack[t] # <<>> => n[t] # <<>>
        BY <1>11, <1>13
    <2> QED BY <1>2, <2>1, OwnersStay
<1>15. Len(n[current]) <= Len(stack[current])
    BY <1>2, <1>11, <1>13
<1>16. Exchanged(n, current, held, gain, lose)
    <2> SUFFICES ASSUME NEW c \in Cells
                 PROVE  StackRefs(n[current], c) + HeldOnce(held, c) + lose[c]
                           = StackRefs(stack[current], c) + HeldOnce(held, c) + gain[c]
        BY DEF Exchanged
    <2>1. /\ StackRefs(s, c) + lose[c] = StackRefs(stack[current], c) + gain[c]
          /\ StackRefs(s, c) \in Nat /\ StackRefs(stack[current], c) \in Nat
        BY <1>12
    <2>2. HeldOnce(held, c) \in Nat /\ lose[c] \in Nat /\ gain[c] \in Nat
        BY <1>7 DEF HeldOnce
    <2> DEFINE x == StackRefs(s, c)
               y == StackRefs(stack[current], c)
               z == HeldOnce(held, c)
               l == lose[c]
               g == gain[c]
    <2>3. x + l = y + g /\ x \in Nat /\ y \in Nat /\ z \in Nat /\ l \in Nat /\ g \in Nat
        BY <2>1, <2>2
    <2>4. StackRefs(n[current], c) = x
        BY <1>13
    <2> HIDE DEF x, y, z, l, g
    <2>5. x + z + l = y + z + g
        BY <2>3
    <2> QED BY <2>4, <2>5 DEF x, y, z, l, g
<1>17. Stored(b, a)
    BY <1>2, <1>7, Counting DEF b, a, gone
<1>18. Few(n) /\ Sound(b, n, held)
    BY <1>2, <1>7, <1>13, <1>14, <1>15, <1>16, Accounting DEF b
<1>19. Few(stack') /\ Sound(block', stack', held)
    BY <1>1, <1>2, <1>11, <1>17, <1>18, RebuildSound DEF n
<1> QED BY <1>1, <1>19 DEF RefNext

(* A request block refers to whatever it shows.                            *)
LEMMA ObjectsRefer ==
    ASSUME NEW b \in [Cells -> Blocks], NEW f \in AnyFrames, NEW i \in DOMAIN Objects(b, f)
    PROVE  Objects(b, f)[i].cell \in Cells /\ References(f)[Objects(b, f)[i].cell] > 0
<1> DEFINE c == Objects(b, f)[i].cell
<1>1. f.map \in Seq(AnyEntries) /\ f.program \in Cells \cup {Nucleus}
    BY FrameParts
<1>2. c \in Cells
    <2>1. Objects(b, f)[i] \in AnyEntries
        BY ObjectsTyped
    <2> QED BY <2>1 DEF AnyEntries
<1>3. c = f.program \/ \E j \in DOMAIN f.map : f.map[j].cell = c
    <2>1. CASE Objects(b, f) = f.map
        BY <2>1
    <2>2. CASE f.program # Nucleus /\ Objects(b, f) = <<OwnEntry(b, f.program)>> \o f.map
        <3> DEFINE o == OwnEntry(b, f.program)
        <3>1. o \in AnyEntries /\ o.cell = f.program
            BY <1>1, <2>2, OwnEntryTyped DEF OwnEntry
        <3>2. Objects(b, f) = <<o>> \o f.map
            BY <2>2
        <3> HIDE DEF o
        <3>3. <<o>> \in Seq(AnyEntries) /\ Len(<<o>>) = 1 /\ <<o>>[1] = o
            BY <3>1
        <3>4. /\ DOMAIN (<<o>> \o f.map) = 1..(Len(f.map) + 1) /\ Len(f.map) \in Nat
              /\ DOMAIN f.map = 1..Len(f.map)
            BY <1>1, <3>3
        <3>5. i \in 1..(Len(f.map) + 1)
            BY <3>2, <3>4
        <3>6. CASE i = 1
            <4>1. (<<o>> \o f.map)[1] = o
                BY <1>1, <3>3
            <4> QED BY <3>1, <3>2, <3>6, <4>1
        <3>7. CASE i # 1
            <4>1. i > 1 /\ i - 1 \in DOMAIN f.map
                BY <3>4, <3>5, <3>7
            <4>2. (<<o>> \o f.map)[i] = f.map[i - 1]
                BY <1>1, <3>3, <3>5, <4>1
            <4> QED BY <3>2, <4>1, <4>2
        <3> QED BY <3>6, <3>7
    <2> QED BY <2>1, <2>2 DEF Objects
<1> HIDE DEF c
<1>4. References(f)[c] > 0
    BY <1>2, <1>3, ReferencesAre
<1> QED BY <1>2, <1>4 DEF c

(* What the caller may map is there.                                       *)
LEMMA MappableThere ==
    ASSUME ByteSuffices, RefInv, NEW c \in Mappable, Top(current).program # Nucleus
    PROVE  c \in Cells /\ block[c].kind # "none"
<1>1. /\ current \in Tasks /\ stack[current] # <<>> /\ stack[current] \in Seq(AnyFrames)
      /\ Top(current) \in AnyFrames /\ Top(current) = Last(stack[current])
      /\ Len(stack[current]) \in Nat \ {0} /\ block \in [Cells -> Blocks] /\ StorageInv
    BY RefFacts
<1>2. c \in Cells
    BY <1>1, MappableIs
<1> DEFINE s == stack[current]
           prev == s[Len(s) - 1]
<1>3. ASSUME NEW i \in DOMAIN s, References(s[i])[c] > 0 PROVE block[c].kind # "none"
    BY <1>1, <1>2, <1>3, ReferredTo
<1>4. CASE c = Top(current).program
    <2>1. References(Top(current))[c] > 0
        BY <1>1, <1>2, <1>4, ReferencesAre
    <2>2. Top(current) = s[Len(s)] /\ Len(s) \in DOMAIN s
        BY <1>1, SequenceParts
    <2> HIDE DEF s
    <2> QED BY <1>2, <1>3, <2>1, <2>2
<1>5. CASE c \in held
    BY <1>5, HeldIsThere
<1>6. CASE c \in Queued
    BY <1>6 DEF Queued
<1>7. CASE /\ Depth(current) # 1 /\ prev.program # Nucleus
           /\ \E w \in Windows : \E e \in Shown(block, prev, w) : c = e.cell
    <2>0. Len(s) # 1 /\ s \in Seq(AnyFrames) /\ Len(s) \in Nat \ {0}
        BY <1>1, <1>7 DEF Depth
    <2> HIDE DEF s
    <2>1. Len(s) - 1 \in DOMAIN s
        <3>1. DOMAIN s = 1..Len(s)
            BY <2>0
        <3> DEFINE k == Len(s)
        <3>2. k \in Nat \ {0} /\ k # 1
            BY <2>0
        <3> HIDE DEF k
        <3>3. k - 1 \in 1..k
            BY <3>2
        <3> QED BY <3>1, <3>3 DEF k
    <2>2. prev \in AnyFrames
        BY <2>0, <2>1
    <2>3. PICK w \in Windows : \E e \in Shown(block, prev, w) : c = e.cell
        BY <1>7
    <2>4. PICK e \in Shown(block, prev, w) : c = e.cell
        BY <2>3
    <2> HIDE DEF prev
    <2>5. PICK i \in DOMAIN Objects(block, prev) : e = Objects(block, prev)[i]
        BY <1>1, <2>2, <2>4, ShownIs
    <2>8. References(prev)[c] > 0
        BY <1>1, <2>2, <2>4, <2>5, ObjectsRefer
    <2> QED BY <1>2, <1>3, <2>1, <2>8 DEF prev
<1>8. \/ c = Top(current).program \/ c \in held \/ c \in Queued
      \/ /\ Depth(current) # 1 /\ prev.program # Nucleus
         /\ \E w \in Windows : \E e \in Shown(block, prev, w) : c = e.cell
    BY DEF Mappable, Depth
<1> HIDE DEF prev, s
<1> QED BY <1>2, <1>4, <1>5, <1>6, <1>7, <1>8

LEMMA MapRefs ==
    ASSUME ByteSuffices, RefInv, NEW w \in Windows, NEW c \in Mappable, Map(w, c)
    PROVE  RefNext
<1> DEFINE entries == Placed(<<>>, w, c)
           m == Without(Top(current).map, w)
           e == [window |-> w, cell |-> c, pages |-> 1]
<1>1. Remap(w, entries, Reference(c)) /\ Top(current).program # Nucleus
    BY DEF Map, Remap
<1>2. c \in Cells /\ block[c].kind # "none"
    BY <1>1, MappableThere
<1>3. entries \in Seq(AnyEntries)
    <2>1. <<>> \in Seq(AnyEntries)
        OBVIOUS
    <2> QED BY <1>2, <2>1, PlacedTyped
<1>4. Reference(c) \in [Cells -> Nat] /\ BlocksGain(block, Reference(c))
    BY <1>2, ReferenceIs DEF BlocksGain
<1>5. m \in Seq(AnyEntries) /\ e \in AnyEntries /\ e.cell = c
    <2>1. Top(current).map \in Seq(AnyEntries)
        BY RefFacts, FrameParts
    <2>2. m \in Seq(AnyEntries)
        BY <2>1, WithoutTyped
    <2>3. e \in AnyEntries
        BY <1>2 DEF AnyEntries
    <2> QED BY <2>2, <2>3
<1>6. m \o entries = Append(m, e)
    BY <1>2, <1>5, PlacedAfter
<1> HIDE DEF entries, m, e
<1>7. \A d \in Cells : Cardinality(In(m \o entries, d))
                          = Cardinality(In(m, d)) + Reference(c)[d]
    BY <1>5, <1>6, InAppend, ReferenceIs
<1>8. \A d \in Cells : Cardinality(In(Without(Top(current).map, w) \o entries, d))
                          = Cardinality(In(Without(Top(current).map, w), d)) + Reference(c)[d]
    BY <1>7 DEF m
<1> QED BY <1>1, <1>3, <1>4, <1>8, RemapRefs

LEMMA UnmapRefs ==
    ASSUME ByteSuffices, RefInv, NEW w \in Windows, Unmap(w)
    PROVE  RefNext
<1> DEFINE m == Without(Top(current).map, w)
           entries == <<>>
<1>1. Remap(w, entries, NoReference)
    BY DEF Unmap
<1>2. entries \in Seq(AnyEntries) /\ NoReference \in [Cells -> Nat] /\ BlocksGain(block, NoReference)
    BY NoReferenceIs, NothingGained
<1>3. m \in Seq(AnyEntries)
    <2>1. Top(current).map \in Seq(AnyEntries)
        BY RefFacts, FrameParts
    <2> QED BY <2>1, WithoutTyped
<1>4. m \o entries = m
    BY <1>3, ConcatEmptySeq
<1> HIDE DEF entries, m
<1>5. ASSUME NEW d \in Cells
      PROVE  Cardinality(In(m \o entries, d)) = Cardinality(In(m, d)) + NoReference[d]
    <2>1. Cardinality(In(m, d)) \in Nat
        BY <1>3, EntriesFinite DEF In
    <2> QED BY <1>4, <2>1, NoReferenceIs
<1>6. \A d \in Cells : Cardinality(In(Without(Top(current).map, w) \o entries, d))
                          = Cardinality(In(Without(Top(current).map, w), d)) + NoReference[d]
    BY <1>5 DEF m
<1> QED BY <1>1, <1>2, <1>6, RemapRefs

(* One block becomes another, and a guest comes to hold it, or nobody.     *)
LEMMA CellSound ==
    ASSUME ByteSuffices, RefInv, NEW c \in Cells, NEW r, NEW h \in SUBSET Cells,
           \A d \in Cells \ {c} : d \in h <=> d \in held,
           r.use = Number(stack, h)[c],
           r.pinned => r.kind = "space" /\ r.queued,
           r.owner # Nobody => r.kind = "space" /\ stack[r.owner] # <<>>,
           r.kind # "none" /\ Number(stack, h)[c] = 0 => r.kind = "space" /\ r.queued
    PROVE  Few(stack) /\ Sound([block EXCEPT ![c] = r], stack, h)
<1> DEFINE n == [block EXCEPT ![c] = r]
           before == Number(stack, held)
           after  == Number(stack, h)
<1>1. /\ Few(stack) /\ stack \in [Tasks -> Seq(AnyFrames)] /\ block \in [Cells -> Blocks]
      /\ Right(block, before) /\ Tidy(block) /\ Reached(block, before) /\ Owners(block, stack)
    BY RefFacts
<1>2. n[c] = r /\ \A d \in Cells \ {c} : n[d] = block[d]
    BY <1>1
<1>3. \A d \in Cells \ {c} : after[d] = before[d]
    BY DEF Number, HeldOnce
<1> HIDE DEF n, before
<1>4. n[c].use = after[c]
    BY <1>2
<1>5. n[c].kind # "none" /\ after[c] = 0 => n[c].kind = "space" /\ n[c].queued
    BY <1>2
<1> HIDE DEF after
<1>6. Right(n, after)
    BY <1>1, <1>2, <1>3, <1>4 DEF Right
<1>7. Tidy(n)
    BY <1>1, <1>2 DEF Tidy
<1>8. Reached(n, after)
    BY <1>1, <1>2, <1>3, <1>5 DEF Reached
<1>9. Owners(n, stack)
    BY <1>1, <1>2 DEF Owners
<1> QED BY <1>1, <1>6, <1>7, <1>8, <1>9 DEF Sound, n, after

(* Nothing refers to a cell without a block.                               *)
LEMMA FreeIsFree ==
    ASSUME ByteSuffices, RefInv, NEW c \in Free
    PROVE  /\ c \in Cells /\ c \notin held /\ block[c] = NoBlock
           /\ Number(stack, held)[c] = 0
           /\ \A h : c \in h => Number(stack, h)[c] = 1
<1>1. /\ Few(stack) /\ stack \in [Tasks -> Seq(AnyFrames)] /\ Stored(block, arena)
      /\ Right(block, Number(stack, held))
    BY RefFacts
<1>2. c \in Cells /\ block[c] = NoBlock
    BY <1>1, FreeIs
<1>3. Number(stack, held)[c] = 0
    BY <1>1, <1>2, NoBlockIs DEF Right
<1>4. /\ Number(stack, held)[c] = Refs(stack, c) + HeldOnce(held, c)
      /\ Refs(stack, c) \in Nat /\ HeldOnce(held, c) \in {0, 1}
    BY <1>1, <1>2, FewNumber
<1>5. Refs(stack, c) = 0 /\ HeldOnce(held, c) = 0
    BY <1>3, <1>4
<1>6. c \notin held
    BY <1>5 DEF HeldOnce
<1>7. ASSUME NEW h, c \in h PROVE Number(stack, h)[c] = 1
    BY <1>2, <1>5, <1>7 DEF Number, HeldOnce
<1> QED BY <1>2, <1>3, <1>6, <1>7

LEMMA AttachTaskRefs ==
    ASSUME ByteSuffices, RefInv, NEW c \in Free, AttachTask(c)
    PROVE  RefNext
<1> DEFINE r == NewProgram(Region, AllocatedAt(arena, 1), 1)
           h == held \cup {c}
<1>1. block' = [block EXCEPT ![c] = r] /\ held' = h /\ stack' = stack
    BY DEF AttachTask
<1>2. c \in Cells /\ Number(stack, h)[c] = 1 /\ held \in SUBSET Cells
    BY FreeIsFree, RefFacts
<1>3. r.use = 1 /\ r.pinned = FALSE /\ r.owner = Nobody
    BY DEF NewProgram
<1>4. h \in SUBSET Cells /\ \A d \in Cells \ {c} : d \in h <=> d \in held
    BY <1>2
<1> HIDE DEF r, h
<1>5. Few(stack) /\ Sound([block EXCEPT ![c] = r], stack, h)
    BY <1>2, <1>3, <1>4, CellSound
<1> QED BY <1>1, <1>5 DEF RefNext

LEMMA DetachTaskRefs ==
    ASSUME ByteSuffices, RefInv, NEW c \in held, DetachTask(c)
    PROVE  RefNext
<1> DEFINE lose == Reference(c)
           h    == held \ {c}
<1>1. block' = Counted(block, NoReference, lose) /\ held' = h /\ stack' = stack
    BY DEF DetachTask, Release
<1>2. /\ stack \in [Tasks -> Seq(AnyFrames)] /\ BlocksSound(block) /\ current \in Tasks
      /\ Sound(block, stack, held) /\ Owners(block, stack) /\ held \in SUBSET Cells
      /\ stack[current] \in Seq(AnyFrames) /\ Few(stack) /\ Len(stack[current]) \in Nat \ {0}
    BY RefFacts
<1>3. /\ lose \in [Cells -> Nat] /\ NoReference \in [Cells -> Nat]
      /\ \A d \in Cells : NoReference[d] = 0 /\ lose[d] = IF d = c THEN 1 ELSE 0
    BY ReferenceIs, NoReferenceIs
<1>4. h \in SUBSET Cells /\ Len(stack[current]) <= Len(stack[current])
    BY <1>2
<1>5. Exchanged(stack, current, h, NoReference, lose)
    <2> SUFFICES ASSUME NEW d \in Cells
                 PROVE  StackRefs(stack[current], d) + HeldOnce(h, d) + lose[d]
                           = StackRefs(stack[current], d) + HeldOnce(held, d) + NoReference[d]
        BY DEF Exchanged
    <2>1. StackRefs(stack[current], d) \in Nat
        BY <1>2, RefsChange DEF Few
    <2>2. /\ HeldOnce(h, d) \in Nat /\ HeldOnce(held, d) \in Nat /\ lose[d] \in Nat
          /\ HeldOnce(h, d) + lose[d] = HeldOnce(held, d) /\ NoReference[d] = 0
        <3>1. CASE d = c
            BY <1>3, <3>1 DEF HeldOnce
        <3>2. CASE d # c
            BY <1>3, <3>2 DEF HeldOnce
        <3> QED BY <3>1, <3>2
    <2> DEFINE x == StackRefs(stack[current], d)
               y == HeldOnce(h, d)
               z == HeldOnce(held, d)
               l == lose[d]
    <2>3. x \in Nat /\ y \in Nat /\ z \in Nat /\ l \in Nat /\ y + l = z
        BY <2>1, <2>2
    <2> HIDE DEF x, y, z, l
    <2>4. x + y + l = x + z + 0
        BY <2>3
    <2> QED BY <2>2, <2>4 DEF x, y, z, l
<1> HIDE DEF lose, h
<1>6. Few(stack) /\ Sound(Counted(block, NoReference, lose), stack, h)
    BY <1>2, <1>3, <1>4, <1>5, NothingGained, Accounting
<1> QED BY <1>1, <1>6 DEF RefNext

LEMMA CreateWorkSpaceRefs ==
    ASSUME ByteSuffices, RefInv, NEW c \in Free, NEW form \in SpaceForms, CreateWorkSpace(c, form)
    PROVE  RefNext
<1> DEFINE r == NewSpace(form, current)
<1>1. block' = [block EXCEPT ![c] = r] /\ held' = held /\ stack' = stack
    BY DEF CreateWorkSpace
<1>2. c \in Cells /\ Number(stack, held)[c] = 0 /\ held \in SUBSET Cells /\ stack[current] # <<>>
    BY FreeIsFree, RefFacts
<1>3. /\ r.use = 0 /\ r.kind = "space" /\ r.queued = TRUE
      /\ r.owner = Nobody \/ r.owner = current
    BY DEF NewSpace
<1> HIDE DEF r
<1>4. r.use = Number(stack, held)[c] /\ (r.owner # Nobody => stack[r.owner] # <<>>)
    BY <1>2, <1>3
<1>5. Few(stack) /\ Sound([block EXCEPT ![c] = r], stack, held)
    BY <1>2, <1>3, <1>4, CellSound
<1> QED BY <1>1, <1>5 DEF RefNext

LEMMA DeleteWorkSpaceRefs ==
    ASSUME ByteSuffices, RefInv, NEW c \in Queued, DeleteWorkSpace(c)
    PROVE  RefNext
<1> DEFINE r == IF block[c].use = 0 THEN NoBlock ELSE LetGo(block[c])
<1>1. block' = [block EXCEPT ![c] = r] /\ held' = held /\ stack' = stack
    BY DEF DeleteWorkSpace
<1>2. c \in Cells
    BY DEF Queued
<1>3. /\ block[c] \in Blocks /\ block[c].use = Number(stack, held)[c] /\ held \in SUBSET Cells
    BY <1>2, RefFacts DEF Right
<1>4. /\ r.use = Number(stack, held)[c] /\ r.pinned = FALSE /\ r.owner = Nobody
      /\ r.kind # "none" => Number(stack, held)[c] # 0
    <2>1. CASE block[c].use = 0
        <3>1. r = NoBlock
            BY <2>1
        <3> HIDE DEF r
        <3> QED BY <1>3, <2>1, <3>1, NoBlockIs
    <2>2. CASE block[c].use # 0
        <3>1. r = LetGo(block[c])
            BY <2>2
        <3> HIDE DEF r
        <3> QED BY <1>3, <2>2, <3>1, LetGoIs
    <2> QED BY <2>1, <2>2
<1> HIDE DEF r
<1>5. Few(stack) /\ Sound([block EXCEPT ![c] = r], stack, held)
    BY <1>2, <1>3, <1>4, CellSound
<1> QED BY <1>1, <1>5 DEF RefNext

LEMMA AssignAreaRefs ==
    ASSUME ByteSuffices, RefInv, NEW c \in Queued \cup held, AssignArea(c)
    PROVE  RefNext
<1> DEFINE r == Addressable(block[c])
           b == [block EXCEPT ![c] = r]
           s == stack[current]
<1>1. Rebuild(b, arena, s) /\ held' = held
    BY DEF AssignArea
<1>2. c \in Cells /\ block[c].kind # "none"
    BY RefFacts DEF AssignArea, Raisable, Queued
<1>3. /\ Stored(block, arena) /\ block[c] \in Blocks /\ ExtentSound(block[c]) /\ ArenaSound(arena)
      /\ block \in [Cells -> Blocks] /\ Sound(block, stack, held) /\ Few(stack) /\ StorageInv
      /\ s \in Seq(AnyFrames) /\ s # <<>> /\ current \in Tasks /\ held \in SUBSET Cells
      /\ stack \in [Tasks -> Seq(AnyFrames)]
    BY <1>2, RefFacts DEF Stored, BlocksSound
<1>4. /\ r \in Blocks /\ r.kind = block[c].kind /\ r.module = block[c].module
      /\ r.at = block[c].at /\ r.pages = block[c].pages /\ r.tail = block[c].tail
      /\ r.use = block[c].use /\ r.pinned = block[c].pinned /\ r.queued = block[c].queued
      /\ r.owner = block[c].owner
    BY <1>3, AddressableIs
<1> HIDE DEF r
<1>5. ExtentSound(r) /\ Occupied(r) = Occupied(block[c]) /\ r.kind # "none"
    BY <1>2, <1>3, <1>4 DEF ExtentSound, Occupied
<1>6. Occupied(block[c]) \subseteq Assigned(arena)
    BY <1>2, <1>3 DEF Stored, Apart
<1>7. /\ Assigned(arena) = (Assigned(arena) \ Occupied(block[c])) \cup Occupied(r)
      /\ Occupied(r) \cap (Assigned(arena) \ Occupied(block[c])) = {}
    BY <1>5, <1>6
<1>8. Stored(b, arena)
    BY <1>2, <1>3, <1>4, <1>5, <1>7, Replacing
<1>9. SameUse(block, b)
    BY <1>2, <1>3, <1>4 DEF SameUse
<1>10. [stack EXCEPT ![current] = s] = stack
    BY <1>3
<1> HIDE DEF b, s
<1>11. Sound(b, stack, held)
    BY <1>3, <1>9, SameUseKeeps
<1>12. Few([stack EXCEPT ![current] = s]) /\ Sound(b, [stack EXCEPT ![current] = s], held)
    BY <1>3, <1>10, <1>11
<1>13. Few(stack') /\ Sound(block', stack', held)
    BY <1>1, <1>3, <1>8, <1>12, RebuildSound
<1> QED BY <1>1, <1>13 DEF RefNext

LEMMA TakeTurnRefs ==
    ASSUME RefInv, NEW t \in Tasks, TakeTurn(t)
    PROVE  RefNext
<1>1. block' = block /\ stack' = stack /\ held' = held
    BY DEF TakeTurn
<1> QED BY <1>1 DEF RefInv, RefNext

(* A region grows: what moves is pages, in blocks and in images.           *)
LEMMA GrowRefs ==
    ASSUME ByteSuffices, RefInv, NEW c \in Cells, NEW outerStale \in BOOLEAN, Grow(c, outerStale)
    PROVE  RefNext
<1> DEFINE at     == GrownAt(arena, block[c].at, 1, 2)
           moved(t, i) == Marked(Rebased(stack[t][i], block[c].at, at),
                                 outerStale /\ t = current /\ i < Depth(t))
           stacks == [t \in Tasks |-> [i \in DOMAIN stack[t] |-> moved(t, i)]]
           elsewhere == ShownElsewhere(stacks, c)
           bigger == [block EXCEPT ![c] = Enlarged(block[c], at, elsewhere)]
           a      == Grown(arena, block[c].at, 1, 2)
           top    == Last(stacks[current])
           loaded == Loaded(bigger, a, top)
           built  == Built(loaded, top)
           s      == Append(Front(stacks[current]), built)
           w      == stack'
<1>1. /\ block[c].module = Region /\ block[c].pages = 1 /\ CanGrow(arena, block[c].at, 1, 2)
      /\ block' = loaded /\ w = [stacks EXCEPT ![current] = s] /\ held' = held
    BY DEF Grow
<1>2. /\ current \in Tasks /\ stack[current] # <<>> /\ stack \in [Tasks -> Seq(AnyFrames)]
      /\ block \in [Cells -> Blocks] /\ Sound(block, stack, held) /\ Few(stack) /\ StorageInv
    BY RefFacts
<1>0. elsewhere \in BOOLEAN
    BY DEF ShownElsewhere
<1> HIDE DEF elsewhere
<1>3. at \in Pages /\ Stored(bigger, a)
    BY <1>0, <1>1, <1>2, EnlargingIs
<1>4. at \in 0..LastPage
    BY <1>3, LastPageAssumption DEF Pages
<1> HIDE DEF at
<1>5. SameUse(block, bigger)
    BY <1>0, <1>2, <1>4, EnlargedIs DEF SameUse
<1> HIDE DEF bigger, a
<1>6. ASSUME NEW t \in Tasks, NEW i \in DOMAIN stack[t]
      PROVE  /\ moved(t, i) \in AnyFrames /\ moved(t, i).program = stack[t][i].program
             /\ moved(t, i).map = stack[t][i].map
    <2>1. stack[t][i] \in AnyFrames
        BY <1>2
    <2> DEFINE f == stack[t][i]
               g == Rebased(f, block[c].at, at)
               m == outerStale /\ t = current /\ i < Depth(t)
    <2> HIDE DEF f
    <2>2. g \in AnyFrames /\ g.program = f.program /\ g.map = f.map
        BY <1>3, <2>1, RebasedTyped DEF f
    <2>3. m \in BOOLEAN
        OBVIOUS
    <2> HIDE DEF g, m
    <2>4. /\ Marked(g, m) \in AnyFrames /\ Marked(g, m).program = g.program
          /\ Marked(g, m).map = g.map
        BY <2>2, <2>3, MarkedTyped
    <2> QED BY <2>2, <2>4 DEF f, g, m
<1> HIDE DEF moved
<1>7. ASSUME NEW t \in Tasks
      PROVE  /\ stacks[t] \in Seq(AnyFrames) /\ Len(stacks[t]) = Len(stack[t])
             /\ \A i \in 1..Len(stack[t]) : /\ stacks[t][i].program = stack[t][i].program
                                            /\ stacks[t][i].map = stack[t][i].map
    <2> DEFINE n == Len(stack[t])
               l == [i \in 1..n |-> moved(t, i)]
    <2>1. n \in Nat /\ DOMAIN stack[t] = 1..n /\ stack[t] \in Seq(AnyFrames)
        BY <1>2
    <2>2. \A i \in 1..n : /\ moved(t, i) \in AnyFrames /\ moved(t, i).program = stack[t][i].program
                          /\ moved(t, i).map = stack[t][i].map
        BY <1>6, <2>1
    <2>3. stacks[t] = l
        BY <2>1
    <2> HIDE DEF n, stacks
    <2>4. l \in Seq(AnyFrames) /\ Len(l) = n
        BY <2>1, <2>2
    <2>5. \A i \in 1..n : l[i].program = stack[t][i].program /\ l[i].map = stack[t][i].map
        BY <2>2
    <2> HIDE DEF l
    <2> QED BY <2>3, <2>4, <2>5 DEF n
<1>8. stacks \in [Tasks -> Seq(AnyFrames)]
    BY <1>7
<1> HIDE DEF stacks
<1>9. Len(stack[current]) \in Nat \ {0} /\ Len(stacks[current]) = Len(stack[current])
    BY <1>2, <1>7, RefFacts
<1>10. stacks[current] \in Seq(AnyFrames) /\ stacks[current] # <<>>
    BY <1>2, <1>7, <1>9
<1>11. /\ top \in AnyFrames /\ Front(stacks[current]) \in Seq(AnyFrames)
       /\ top = stacks[current][Len(stacks[current])]
       /\ Len(Front(stacks[current])) = Len(stacks[current]) - 1
       /\ \A i \in 1..(Len(stacks[current]) - 1) : Front(stacks[current])[i] = stacks[current][i]
    BY <1>10, SequenceParts
<1> HIDE DEF top
<1>12. SameUse(bigger, loaded) /\ loaded \in [Cells -> Blocks]
    BY <1>3, <1>11, LoadedSame DEF Stored, BlocksSound
<1> HIDE DEF loaded
<1>13. built \in AnyFrames /\ built.program = top.program /\ built.map = top.map
    BY <1>11, <1>12, BuiltTyped
<1> HIDE DEF built
<1>14. /\ s \in Seq(AnyFrames) /\ Len(s) = Len(stack[current]) /\ s[Len(s)] = built
       /\ \A i \in 1..(Len(s) - 1) : s[i] = stacks[current][i]
    <2>1. /\ s \in Seq(AnyFrames) /\ Len(s) = Len(Front(stacks[current])) + 1
          /\ s[Len(Front(stacks[current])) + 1] = built
          /\ \A i \in 1..Len(Front(stacks[current])) : s[i] = Front(stacks[current])[i]
        BY <1>11, <1>13, Appending
    <2> HIDE DEF s
    <2> QED BY <1>9, <1>11, <2>1
<1> HIDE DEF s
<1>15. /\ w \in [Tasks -> Seq(AnyFrames)] /\ w[current] = s
       /\ \A t \in Tasks \ {current} : w[t] = stacks[t]
    BY <1>1, <1>2, <1>8, <1>14
<1>16. Alike(stack, w)
    <2> SUFFICES ASSUME NEW t \in Tasks
                 PROVE  /\ Len(stack[t]) = Len(w[t])
                        /\ \A i \in 1..Len(stack[t]) : /\ stack[t][i].program = w[t][i].program
                                                       /\ stack[t][i].map = w[t][i].map
        BY DEF Alike
    <2> HIDE DEF w
    <2>1. CASE t # current
        BY <2>1, <1>7, <1>15
    <2>2. CASE t = current
        <3>1. ASSUME NEW i \in 1..Len(stack[current])
              PROVE  stack[current][i].program = s[i].program /\ stack[current][i].map = s[i].map
            <4>1. CASE i = Len(stack[current])
                BY <4>1, <1>2, <1>7, <1>9, <1>11, <1>13, <1>14
            <4>2. CASE i # Len(stack[current])
                <5>1. i \in 1..(Len(s) - 1)
                    BY <4>2, <1>9, <1>14
                <5> QED BY <5>1, <1>2, <1>7, <1>14
            <4> QED BY <4>1, <4>2
        <3> QED BY <2>2, <3>1, <1>14, <1>15
    <2> QED BY <2>1, <2>2
<1>17. Sound(loaded, stack, held)
    BY <1>2, <1>5, <1>12, SameUseKeeps
<1> HIDE DEF w
<1>18. /\ Few(w) /\ Number(stack, held) = Number(w, held)
       /\ Owners(loaded, stack) => Owners(loaded, w)
    BY <1>2, <1>12, <1>15, <1>16, AlikeCount
<1>19. Sound(loaded, w, held)
    BY <1>17, <1>18 DEF Sound
<1> QED BY <1>1, <1>18, <1>19 DEF RefNext, w

LEMMA GetPageRefs ==
    ASSUME ByteSuffices, RefInv, GetPage
    PROVE  RefNext
<1> DEFINE p == Top(current).program
<1>1. p # Nucleus /\ Grow(p, FALSE)
    BY DEF GetPage
<1>2. p \in Cells
    BY <1>1, RefFacts, FrameParts
<1> HIDE DEF p
<1>3. FALSE \in BOOLEAN
    OBVIOUS
<1> QED BY <1>1, <1>2, <1>3, GrowRefs

(***************************************************************************)
(* A transfer: the block that is entered, what its request block refers    *)
(* to, and the two counts, what is gained before what is lost.             *)
(***************************************************************************)
NewMap(way, header) ==
    LET plain == Inherited(way.block, Top(current), way.block[way.cell].module)
    IN  IF header.cell = Nobody THEN plain ELSE Placed(plain, header.window, header.cell)

NewFrame(way, header) ==
    [program |-> way.cell, map |-> NewMap(way, header), image |-> {}, stale |-> FALSE]

(* What the entries left in a table name, it named before.                 *)
LEMMA WithoutRefers ==
    ASSUME NEW map \in Seq(AnyEntries), NEW w, NEW j \in DOMAIN Without(map, w)
    PROVE  \E i \in DOMAIN map : Without(map, w)[j] = map[i]
<1> DEFINE P == {i \in DOMAIN map : map[i].window # w}
<1>1. P \in SUBSET DOMAIN map
    OBVIOUS
<1>2. Without(map, w) = Sublist(map, P)
    BY DEF Without
<1> HIDE DEF P
<1>3. /\ DOMAIN Sublist(map, P) = 1..Cardinality(P)
      /\ \A k \in 1..Cardinality(P) : Nth(P, k) \in P /\ Sublist(map, P)[k] = map[Nth(P, k)]
    BY <1>1, SublistIs
<1>4. j \in 1..Cardinality(P)
    BY <1>2, <1>3
<1>5. Nth(P, j) \in DOMAIN map /\ Without(map, w)[j] = map[Nth(P, j)]
    BY <1>1, <1>2, <1>3, <1>4
<1> QED BY <1>5

LEMMA PlacedRefers ==
    ASSUME NEW map \in Seq(AnyEntries), NEW w \in Windows, NEW c \in Cells,
           NEW j \in DOMAIN Placed(map, w, c)
    PROVE  Placed(map, w, c)[j].cell = c \/ \E i \in DOMAIN map : Placed(map, w, c)[j] = map[i]
<1> DEFINE s == Without(map, w)
           e == [window |-> w, cell |-> c, pages |-> 1]
<1>1. s \in Seq(AnyEntries)
    BY WithoutTyped
<1>2. e \in AnyEntries /\ e.cell = c
    BY DEF AnyEntries
<1>3. Placed(map, w, c) = Append(s, e)
    BY DEF Placed
<1>4. \A i \in DOMAIN s : \E k \in DOMAIN map : s[i] = map[k]
    BY WithoutRefers
<1> HIDE DEF s, e
<1>5. /\ DOMAIN Append(s, e) = 1..(Len(s) + 1) /\ DOMAIN s = 1..Len(s) /\ Len(s) \in Nat
      /\ Append(s, e)[Len(s) + 1] = e /\ \A i \in 1..Len(s) : Append(s, e)[i] = s[i]
    BY <1>1, <1>2
<1>6. j = Len(s) + 1 \/ j \in 1..Len(s)
    BY <1>3, <1>5
<1>7. CASE j = Len(s) + 1
    BY <1>2, <1>3, <1>5, <1>7
<1>8. CASE j \in 1..Len(s)
    BY <1>3, <1>4, <1>5, <1>8
<1> QED BY <1>6, <1>7, <1>8

(* What a callee inherits, its caller refers to.                           *)
LEMMA InheritedRefers ==
    ASSUME NEW b \in [Cells -> Blocks], NEW f \in AnyFrames, NEW m,
           NEW j \in DOMAIN Inherited(b, f, m)
    PROVE  References(f)[Inherited(b, f, m)[j].cell] > 0
<1>1. f.map \in Seq(AnyEntries)
    BY FrameParts
<1>2. CASE Inherited(b, f, m) = <<>>
    BY <1>2
<1>3. CASE Inherited(b, f, m) = f.map
    <2>1. f.map[j] \in AnyEntries
        BY <1>1, <1>3
    <2>2. f.map[j].cell \in Cells
        BY <2>1 DEF AnyEntries
    <2> QED BY <1>3, <2>2, ReferencesAre
<1>4. CASE Inherited(b, f, m) = Objects(b, f)
    BY <1>4, ObjectsRefer
<1>5. \/ f.program = Nucleus \/ m \in Isolated
      \/ f.program # Nucleus /\ m \in Translated \ Isolated
      \/ ~(f.program = Nucleus \/ m \in Isolated) /\ ~(f.program # Nucleus /\ m \in Translated \ Isolated)
    OBVIOUS
<1>6. Inherited(b, f, m) = <<>> \/ Inherited(b, f, m) = f.map \/ Inherited(b, f, m) = Objects(b, f)
    BY <1>5 DEF Inherited
<1> QED BY <1>2, <1>3, <1>4, <1>6

(* What the new request block refers to: its program, what its caller      *)
(* refers to, and the space that the header names.                         *)
LEMMA FrameRefers ==
    ASSUME StorageInv, NEW way, Way(way), NEW header \in Headers,
           Len(NewMap(way, header)) <= MaxEntries
    PROVE  /\ NewFrame(way, header) \in AnyFrames
           /\ \A d \in Cells : References(NewFrame(way, header))[d] > 0 =>
                 \/ d = way.cell \/ References(Top(current))[d] > 0
                 \/ header.cell # Nobody /\ d = header.cell
           /\ References(NewFrame(way, header))[way.cell] > 0
<1> DEFINE f     == Top(current)
           m     == way.block[way.cell].module
           plain == Inherited(way.block, f, m)
           map   == NewMap(way, header)
           frame == NewFrame(way, header)
<1>1. way.cell \in Cells /\ way.block \in [Cells -> Blocks]
    BY DEF Way, Stored, BlocksSound
<1>2. f \in AnyFrames
    BY TopsTyped DEF StorageInv, Live, Top
<1>3. map = IF header.cell = Nobody THEN plain ELSE Placed(plain, header.window, header.cell)
    BY DEF NewMap
<1> HIDE DEF f, m, map
<1>4. plain \in Seq(AnyEntries)
    BY <1>1, <1>2, InheritedTyped
<1>5. \A j \in DOMAIN plain : References(f)[plain[j].cell] > 0
    BY <1>1, <1>2, InheritedRefers
<1> HIDE DEF plain
<1>6. header.window \in Windows /\ (header.cell # Nobody => header.cell \in Cells)
    BY HeaderTyped
<1>7. map \in Seq(AnyEntries)
    BY <1>3, <1>4, <1>6, PlacedTyped
<1>8. \A j \in DOMAIN map : \/ References(f)[map[j].cell] > 0
                            \/ header.cell # Nobody /\ map[j].cell = header.cell
    <2>1. CASE header.cell = Nobody
        BY <1>3, <1>5, <2>1
    <2>2. CASE header.cell # Nobody
        <3> SUFFICES ASSUME NEW j \in DOMAIN map
                     PROVE  References(f)[map[j].cell] > 0 \/ map[j].cell = header.cell
            BY <2>2
        <3>1. map = Placed(plain, header.window, header.cell)
            BY <1>3, <2>2
        <3>2. \/ map[j].cell = header.cell
              \/ \E i \in DOMAIN plain : map[j] = plain[i]
            BY <1>4, <1>6, <2>2, <3>1, PlacedRefers
        <3> QED BY <1>5, <3>2
    <2> QED BY <2>1, <2>2
<1>9. frame \in AnyFrames /\ frame.program = way.cell /\ frame.map = map
    BY <1>1, <1>7 DEF NewFrame, AnyFrames, map
<1> HIDE DEF frame
<1>10. ASSUME NEW d \in Cells, References(frame)[d] > 0
       PROVE  d = way.cell \/ \E j \in DOMAIN map : map[j].cell = d
    <2>1. References(frame)[d] = (IF frame.program = d THEN 1 ELSE 0) + Cardinality(In(map, d))
        BY <1>9, ReferencesAre
    <2>2. CASE In(map, d) = {}
        <3>1. Cardinality(In(map, d)) = 0
            BY <2>2, FS_EmptySet
        <3> QED BY <1>9, <1>10, <2>1, <3>1
    <2>3. CASE In(map, d) # {}
        BY <2>3 DEF In
    <2> QED BY <2>2, <2>3
<1>11. References(frame)[way.cell] > 0
    BY <1>1, <1>9, ReferencesAre
<1>12. \A d \in Cells : References(frame)[d] > 0 =>
          d = way.cell \/ References(f)[d] > 0 \/ (header.cell # Nobody /\ d = header.cell)
    BY <1>8, <1>10
<1> QED BY <1>9, <1>11, <1>12 DEF frame, f

(* What a transfer starts from is counted right, its own block included,   *)
(* once the spaces of a task that ends are released.                       *)
LEMMA ReadySound ==
    ASSUME ByteSuffices, RefInv, NEW way, Way(way), NEW ending \in BOOLEAN
    PROVE  LET b == IF ending THEN SpacesReleased(way.block, current) ELSE way.block
               number == Number(stack, held)
           IN  /\ BlocksSound(b) /\ Right(b, number) /\ Tidy(b)
               /\ \A d \in Cells :
                     /\ \/ b[d].owner = Nobody
                        \/ b[d].owner = block[d].owner
                     /\ d # way.cell /\ b[d].kind # "none" /\ number[d] = 0 =>
                           b[d].kind = "space" /\ b[d].queued
                     /\ number[d] > 0 \/ d = way.cell => b[d].kind # "none"
                     /\ d \in Queued /\ ~(ending /\ d \in Owned(block, current)) => b[d].kind # "none"
<1> DEFINE number == Number(stack, held)
           r == way.block
<1>1. /\ Right(block, number) /\ Tidy(block) /\ Reached(block, number) /\ BlocksSound(block)
      /\ Few(stack) /\ stack \in [Tasks -> Seq(AnyFrames)] /\ StorageInv /\ current \in Tasks
    BY RefFacts
<1>2. number \in [Cells -> Nat]
    BY <1>1, FewNumber
<1> HIDE DEF number
<1>3. /\ way.cell \in Cells /\ Stored(r, way.arena) /\ BlocksSound(r)
      /\ r[way.cell].kind = "program"
      /\ \A d \in Cells \ {way.cell} : r[d] = block[d]
      /\ \/ r = block
         \/ /\ block[way.cell] = NoBlock
            /\ r[way.cell].use = 0 /\ ~r[way.cell].pinned /\ r[way.cell].owner = Nobody
    BY DEF Way, Stored
<1> HIDE DEF r
<1>4. Right(r, number)
    <2> SUFFICES ASSUME NEW d \in Cells PROVE r[d].use = number[d]
        BY DEF Right
    <2>1. CASE d # way.cell \/ r = block
        BY <2>1, <1>1, <1>3 DEF Right
    <2>2. CASE d = way.cell /\ r # block
        <3>1. number[d] = 0
            BY <2>2, <1>1, <1>3, NoBlockIs DEF Right
        <3> QED BY <2>2, <1>3, <3>1
    <2> QED BY <2>1, <2>2
<1>5. Tidy(r)
    <2> SUFFICES ASSUME NEW d \in Cells
                 PROVE  /\ r[d].pinned => r[d].kind = "space" /\ r[d].queued
                        /\ r[d].owner # Nobody => r[d].kind = "space"
        BY DEF Tidy
    <2>1. CASE d # way.cell \/ r = block
        BY <2>1, <1>1, <1>3 DEF Tidy
    <2>2. CASE d = way.cell /\ r # block
        BY <2>2, <1>3
    <2> QED BY <2>1, <2>2
<1>6. ASSUME NEW d \in Cells
      PROVE  /\ r[d].owner = Nobody \/ r[d].owner = block[d].owner
             /\ d # way.cell /\ r[d].kind # "none" /\ number[d] = 0 =>
                   r[d].kind = "space" /\ r[d].queued
             /\ number[d] > 0 \/ d = way.cell => r[d].kind # "none"
             /\ d \in Queued => r[d].kind # "none"
    <2>1. CASE d = way.cell
        BY <2>1, <1>3
    <2>2. CASE d # way.cell
        <3>1. r[d] = block[d]
            BY <2>2, <1>3
        <3>2. number[d] > 0 => block[d].kind # "none"
            <4>1. block[d].use = number[d]
                BY <1>1 DEF Right
            <4>2. block[d].kind = "none" => block[d] = NoBlock
                BY <1>1 DEF BlocksSound
            <4> QED BY <1>2, <4>1, <4>2, NoBlockIs
        <3>3. d \in Queued => block[d].kind # "none"
            BY DEF Queued
        <3> QED BY <2>2, <3>1, <3>2, <3>3, <1>1 DEF Reached
    <2> QED BY <2>1, <2>2
<1>7. CASE ~ending
    BY <1>3, <1>4, <1>5, <1>6, <1>7 DEF r, number
<1>8. CASE ending
    <2> DEFINE n == SpacesReleased(r, current)
               z == ReturnPages(way.arena, Vacated(r, Unused(r, current)))
    <2>1. Stored(n, z)
        BY <1>1, <1>3, SpacesReleasedIs
    <2>2. BlocksSound(n)
        BY <2>1 DEF Stored
    <2>3. /\ Right(n, number) /\ Tidy(n)
          /\ \A c \in Cells :
                /\ n[c].kind # "none" => n[c].kind = r[c].kind
                /\ n[c].kind # "none" /\ number[c] = 0 => n[c] = r[c]
                /\ n[c].owner = Nobody \/ (n[c].owner = r[c].owner /\ n[c].owner # current)
                /\ r[c].kind # "none" /\ c \notin Unused(r, current) => n[c].kind # "none"
        BY <1>1, <1>3, <1>4, <1>5, ReleasedSound
    <2> HIDE DEF n
    <2>4. ASSUME NEW d \in Cells
          PROVE  /\ n[d].owner = Nobody \/ n[d].owner = block[d].owner
                 /\ d # way.cell /\ n[d].kind # "none" /\ number[d] = 0 =>
                       n[d].kind = "space" /\ n[d].queued
                 /\ number[d] > 0 \/ d = way.cell => n[d].kind # "none"
                 /\ d \in Queued /\ d \notin Owned(block, current) => n[d].kind # "none"
        <3>1. n[d].owner = Nobody \/ n[d].owner = block[d].owner
            BY <1>6, <2>3
        <3>2. ASSUME d # way.cell, n[d].kind # "none", number[d] = 0
              PROVE  n[d].kind = "space" /\ n[d].queued
            <4>1. n[d] = r[d]
                BY <2>3, <3>2
            <4> QED BY <1>6, <3>2, <4>1
        <3>3. ASSUME number[d] > 0 \/ d = way.cell PROVE n[d].kind # "none"
            <4>1. r[d].kind # "none"
                BY <1>6, <3>3
            <4>2. d \notin Unused(r, current)
                <5>1. CASE number[d] > 0
                    <6>1. r[d].use # 0
                        BY <1>2, <1>4, <5>1 DEF Right
                    <6> QED BY <6>1 DEF Unused
                <5>2. CASE d = way.cell
                    BY <1>3, <5>2 DEF Unused, Owned
                <5> QED BY <3>3, <5>1, <5>2
            <4> QED BY <2>3, <4>1, <4>2
        <3>4. ASSUME d \in Queued, d \notin Owned(block, current) PROVE n[d].kind # "none"
            <4>1. CASE d = way.cell
                BY <3>3, <4>1
            <4>2. CASE d # way.cell
                <5>1. r[d] = block[d]
                    BY <1>3, <4>2
                <5>2. d \notin Unused(r, current)
                    BY <3>4, <5>1 DEF Unused, Owned
                <5> QED BY <1>6, <2>3, <3>4, <5>2
            <4> QED BY <4>1, <4>2
        <3> QED BY <3>1, <3>2, <3>3, <3>4
    <2> QED BY <1>8, <2>2, <2>3, <2>4 DEF n, r, number
<1> QED BY <1>7, <1>8

(* The stacks a transfer passes: with the new request block on top, and    *)
(* then without the caller's, when it is discarded.                        *)
OneMore(u, frame) == [stack EXCEPT ![u] = Append(stack[u], frame)]

Below(u, discard) == IF discard THEN Front(stack[u]) ELSE stack[u]

OnTop(u, discard, frame) == [stack EXCEPT ![u] = Append(Below(u, discard), frame)]

Lost(discard) == IF discard THEN References(Top(current)) ELSE NoReference

LEMMA TransferCounts ==
    ASSUME ByteSuffices, RefInv, NEW u \in Tasks, NEW discard \in BOOLEAN,
           NEW frame \in AnyFrames, discard => u = current,
           discard \/ Cardinality(Positions) < MaxFrames
    PROVE  /\ Below(u, discard) \in Seq(AnyFrames)
           /\ OnTop(u, discard, frame) \in [Tasks -> Seq(AnyFrames)]
           /\ Few(OnTop(u, discard, frame))
           /\ Number(OneMore(u, frame), held) \in [Cells -> Nat]
           /\ Number(OnTop(u, discard, frame), held) \in [Cells -> Nat]
           /\ Lost(discard) \in [Cells -> Nat]
           /\ \A c \in Cells :
                 /\ Number(OneMore(u, frame), held)[c]
                       = Number(stack, held)[c] + References(frame)[c]
                 /\ Number(OnTop(u, discard, frame), held)[c] + Lost(discard)[c]
                       = Number(OneMore(u, frame), held)[c]
                 /\ Number(OneMore(u, frame), held)[c] <= 255
<1> DEFINE below == IF discard THEN Front(stack[u]) ELSE stack[u]
           lost  == IF discard THEN References(Top(current)) ELSE NoReference
           more  == Append(stack[u], frame)
           then  == Append(below, frame)
           one   == [stack EXCEPT ![u] = more]
           two   == [stack EXCEPT ![u] = then]
<1>1. /\ stack \in [Tasks -> Seq(AnyFrames)] /\ Few(stack) /\ StorageInv
      /\ stack[current] # <<>> /\ Top(current) = Last(stack[current]) /\ Top(current) \in AnyFrames
    BY RefFacts
<1>2. stack[u] \in Seq(AnyFrames) /\ Len(stack[u]) \in Nat
    BY <1>1
<1>3. /\ below \in Seq(AnyFrames) /\ Len(below) \in Nat
      /\ Len(below) = IF discard THEN Len(stack[u]) - 1 ELSE Len(stack[u])
    <2>1. CASE discard
        <3>1. stack[u] # <<>>
            BY <1>1, <2>1
        <3>2. /\ Front(stack[u]) \in Seq(AnyFrames) /\ Len(Front(stack[u])) = Len(stack[u]) - 1
            BY <1>2, <3>1, SequenceParts
        <3>3. Len(Front(stack[u])) \in Nat
            BY <3>2
        <3> QED BY <2>1, <3>2, <3>3
    <2>2. CASE ~discard
        BY <1>2, <2>2
    <2> QED BY <2>1, <2>2
<1>4. lost \in [Cells -> Nat]
    BY <1>1, ReferencesTyped, NoReferenceIs
<1>5. ASSUME NEW c \in Cells
      PROVE  /\ StackRefs(more, c) = StackRefs(stack[u], c) + References(frame)[c]
             /\ StackRefs(then, c) + lost[c] = StackRefs(stack[u], c) + References(frame)[c]
             /\ References(frame)[c] \in Nat /\ lost[c] \in Nat
    <2>1. /\ StackRefs(more, c) = StackRefs(stack[u], c) + References(frame)[c]
          /\ References(frame)[c] \in Nat /\ StackRefs(stack[u], c) \in Nat
        BY <1>2, StackRefsAppend
    <2>2. /\ StackRefs(then, c) = StackRefs(below, c) + References(frame)[c]
          /\ StackRefs(below, c) \in Nat
        BY <1>3, StackRefsAppend
    <2>3. StackRefs(below, c) + lost[c] = StackRefs(stack[u], c) /\ lost[c] \in Nat
        <3>1. CASE discard
            <4>1. below = Front(stack[u]) /\ lost = References(Last(stack[u])) /\ stack[u] # <<>>
                BY <1>1, <3>1
            <4> HIDE DEF below, lost
            <4>2. /\ StackRefs(stack[u], c) = StackRefs(Front(stack[u]), c) + References(Last(stack[u]))[c]
                  /\ References(Last(stack[u]))[c] \in Nat
                BY <1>2, <4>1, StackRefsFront
            <4> QED BY <4>1, <4>2
        <3>2. CASE ~discard
            <4>1. below = stack[u] /\ lost = NoReference
                BY <3>2
            <4> HIDE DEF below, lost
            <4> QED BY <2>1, <4>1, NoReferenceIs
        <3> QED BY <3>1, <3>2
    <2> DEFINE p == StackRefs(below, c)
               q == StackRefs(then, c)
               v == StackRefs(stack[u], c)
               g == References(frame)[c]
               l == lost[c]
    <2>4. p + l = v /\ q = p + g /\ p \in Nat /\ g \in Nat /\ l \in Nat /\ v \in Nat
        BY <2>1, <2>2, <2>3
    <2> HIDE DEF p, q, v, g, l, lost, more, then, below
    <2>5. q + l = v + g
        BY <2>4
    <2> QED BY <2>1, <2>4, <2>5 DEF q, v, g, l
<1>6. more \in Seq(AnyFrames) /\ Len(more) = Len(stack[u]) + 1
    BY <1>2, Appending
<1> HIDE DEF below
<1>7. then \in Seq(AnyFrames) /\ Len(then) = Len(below) + 1
    BY <1>3, Appending
<1> HIDE DEF more, then, lost
<1>8. /\ one \in [Tasks -> Seq(AnyFrames)] /\ one[u] = more
      /\ \A t \in Tasks \ {u} : one[t] = stack[t]
    BY <1>1, <1>6
<1>9. /\ two \in [Tasks -> Seq(AnyFrames)] /\ two[u] = then
      /\ \A t \in Tasks \ {u} : two[t] = stack[t]
    BY <1>1, <1>7
<1> HIDE DEF one, two
<1>10. /\ IsFiniteSet(Pairs(one, One))
       /\ Cardinality(Pairs(one, One)) + Len(stack[u]) = Cardinality(Pairs(stack, One)) + Len(one[u])
       /\ Cardinality(Pairs(stack, One)) \in Nat /\ Cardinality(Pairs(one, One)) \in Nat
    BY <1>1, <1>8, RefsChange DEF Few
<1>11. /\ IsFiniteSet(Pairs(two, One))
       /\ Cardinality(Pairs(two, One)) + Len(stack[u]) = Cardinality(Pairs(stack, One)) + Len(two[u])
       /\ Cardinality(Pairs(two, One)) \in Nat
    BY <1>1, <1>9, RefsChange DEF Few
<1>12. Cardinality(Pairs(stack, One)) <= MaxFrames + 1
    BY <1>1 DEF Few
<1>13. discard \/ Cardinality(Pairs(stack, One)) < MaxFrames
    <2>1. Positions = Places(stack)
        BY DEF Positions, Places
    <2> QED BY <1>1, <2>1, PlacesCounted DEF Few
<1>14. Cardinality(Pairs(one, One)) <= MaxFrames + 2
    <2> DEFINE x == Cardinality(Pairs(one, One))
               y == Cardinality(Pairs(stack, One))
    <2>1. x + Len(stack[u]) = y + (Len(stack[u]) + 1) /\ x \in Nat /\ y \in Nat
        BY <1>6, <1>8, <1>10
    <2> HIDE DEF x, y
    <2>2. x = y + 1
        BY <1>2, <2>1
    <2>3. y <= MaxFrames + 1
        BY <1>12 DEF y
    <2>4. x <= MaxFrames + 2
        BY <2>1, <2>2, <2>3, BoundsAssumption
    <2> QED BY <2>4 DEF x
<1>15. Few(two)
    <2> DEFINE x == Cardinality(Pairs(two, One))
               y == Cardinality(Pairs(stack, One))
    <2>1. x + Len(stack[u]) = y + (Len(below) + 1) /\ x \in Nat /\ y \in Nat
        BY <1>7, <1>9, <1>10, <1>11
    <2>2. y <= MaxFrames + 1 /\ (discard \/ y < MaxFrames)
        BY <1>12, <1>13
    <2> HIDE DEF x, y
    <2>3. x <= MaxFrames + 1
        BY <1>2, <1>3, <2>1, <2>2, BoundsAssumption
    <2> QED BY <1>11, <2>3 DEF Few, x
<1>16. /\ Number(stack, held) \in [Cells -> Nat]
       /\ \A c \in Cells : /\ Number(stack, held)[c] = Refs(stack, c) + HeldOnce(held, c)
                           /\ Refs(stack, c) \in Nat /\ HeldOnce(held, c) \in {0, 1}
    BY <1>1, FewNumber
<1>17. /\ Number(one, held) \in [Cells -> Nat]
       /\ \A c \in Cells : /\ Number(one, held)[c] = Refs(one, c) + HeldOnce(held, c)
                           /\ Refs(one, c) \in Nat /\ Number(one, held)[c] <= 255
    BY <1>8, <1>10, <1>14, NumberIs
<1>18. /\ Number(two, held) \in [Cells -> Nat]
       /\ \A c \in Cells : /\ Number(two, held)[c] = Refs(two, c) + HeldOnce(held, c)
                           /\ Refs(two, c) \in Nat
    BY <1>9, <1>15, FewNumber
<1>19. ASSUME NEW c \in Cells
       PROVE  /\ Number(one, held)[c] = Number(stack, held)[c] + References(frame)[c]
              /\ Number(two, held)[c] + lost[c] = Number(one, held)[c]
    <2>1. /\ Refs(one, c) + StackRefs(stack[u], c) = Refs(stack, c) + StackRefs(more, c)
          /\ StackRefs(stack[u], c) \in Nat
        BY <1>1, <1>8, RefsChange DEF Few
    <2>2. /\ Refs(two, c) + StackRefs(stack[u], c) = Refs(stack, c) + StackRefs(then, c)
          /\ StackRefs(then, c) \in Nat
        BY <1>1, <1>9, RefsChange DEF Few
    <2> DEFINE x == Refs(stack, c)
               y == Refs(one, c)
               z == Refs(two, c)
               h == HeldOnce(held, c)
               v == StackRefs(stack[u], c)
               q == StackRefs(then, c)
               g == References(frame)[c]
               l == lost[c]
    <2>3. /\ y + v = x + (v + g) /\ z + v = x + q /\ q + l = v + g
          /\ x \in Nat /\ y \in Nat /\ z \in Nat /\ h \in {0, 1} /\ v \in Nat /\ q \in Nat
          /\ g \in Nat /\ l \in Nat
        BY <1>5, <1>16, <1>17, <1>18, <2>1, <2>2
    <2>4. /\ Number(stack, held)[c] = x + h /\ Number(one, held)[c] = y + h
          /\ Number(two, held)[c] = z + h
        BY <1>16, <1>17, <1>18
    <2> HIDE DEF x, y, z, h, v, q, g, l
    <2>5. y = x + g /\ z + l = y /\ h \in Nat
        BY <2>3
    <2>6. y + h = (x + h) + g /\ (z + h) + l = y + h
        BY <2>3, <2>5
    <2> QED BY <2>4, <2>6 DEF g, l
<1>20. /\ OneMore(u, frame) = one /\ OnTop(u, discard, frame) = two
       /\ Below(u, discard) = below /\ Lost(discard) = lost
    BY DEF OneMore, OnTop, Below, Lost, one, two, below, lost, more, then
<1> QED BY <1>3, <1>4, <1>9, <1>15, <1>17, <1>18, <1>19, <1>20

LEMMA TransferRefs ==
    ASSUME ByteSuffices, RefInv, NEW way \in Callees, NEW u \in Tasks, NEW discard \in BOOLEAN,
           NEW header \in Headers, NEW ending \in BOOLEAN,
           Transfer(way, u, discard, header, ending)
    PROVE  RefNext
<1> DEFINE frame  == NewFrame(way, header)
           below  == Below(u, discard)
           lost   == Lost(discard)
           a      == IF ending THEN ReturnPages(way.arena, Vacated(block, Unused(block, current)))
                               ELSE way.arena
           b      == IF ending THEN SpacesReleased(way.block, current) ELSE way.block
           gained == Counted(b, References(frame), NoReference)
           loaded == Loaded(gained, a, frame)
           built  == Built(loaded, frame)
           one    == OneMore(u, frame)
           two    == OnTop(u, discard, frame)
           w      == stack'
           n0     == Number(stack, held)
           n1     == Number(one, held)
           n2     == Number(two, held)
<1>1. /\ u # current => ~discard
      /\ ending => header.cell \notin Owned(block, current)
      /\ discard \/ Cardinality(Positions) < MaxFrames
      /\ Len(NewMap(way, header)) <= MaxEntries
      /\ block' = Counted(loaded, NoReference, lost)
      /\ w = [stack EXCEPT ![u] = Append(below, built)]
      /\ held' = held
    BY Zenon DEF Transfer, Attachable, ToTermination, NewFrame, NewMap, Below, Lost
<1>2. /\ stack \in [Tasks -> Seq(AnyFrames)] /\ Few(stack) /\ StorageInv /\ Stored(block, arena)
      /\ Owners(block, stack) /\ Right(block, n0) /\ block \in [Cells -> Blocks]
      /\ current \in Tasks /\ stack[current] # <<>> /\ Top(current) = Last(stack[current])
      /\ Len(stack[current]) \in Nat \ {0} /\ stack[current] \in Seq(AnyFrames)
    BY RefFacts
<1>3. Way(way)
    BY <1>2, CalleesAre
<1>4. /\ frame \in AnyFrames
      /\ \A d \in Cells : References(frame)[d] > 0 =>
            \/ d = way.cell \/ References(Top(current))[d] > 0
            \/ header.cell # Nobody /\ d = header.cell
      /\ References(frame)[way.cell] > 0
    BY <1>1, <1>2, <1>3, FrameRefers
<1> HIDE DEF frame, a, b, gained, loaded, built, w
<1>5. References(frame) \in [Cells -> Nat] /\ NoReference \in [Cells -> Nat]
      /\ \A c \in Cells : NoReference[c] = 0
    BY <1>4, ReferencesTyped, NoReferenceIs
<1>6. /\ below \in Seq(AnyFrames)
      /\ two \in [Tasks -> Seq(AnyFrames)] /\ Few(two)
      /\ n1 \in [Cells -> Nat] /\ n2 \in [Cells -> Nat] /\ lost \in [Cells -> Nat]
      /\ \A c \in Cells : /\ n1[c] = n0[c] + References(frame)[c]
                          /\ n2[c] + lost[c] = n1[c] /\ n1[c] <= 255
    <2>1. frame \in AnyFrames /\ (discard => u = current)
        BY <1>1, <1>4
    <2>2. discard \/ Cardinality(Positions) < MaxFrames
        BY <1>1
    <2> QED BY <2>1, <2>2, TransferCounts
<1>7. n0 \in [Cells -> Nat]
    BY <1>2, FewNumber
<1>8. /\ BlocksSound(b) /\ Right(b, n0) /\ Tidy(b)
      /\ \A d \in Cells :
            /\ b[d].owner = Nobody \/ b[d].owner = block[d].owner
            /\ d # way.cell /\ b[d].kind # "none" /\ n0[d] = 0 => b[d].kind = "space" /\ b[d].queued
            /\ n0[d] > 0 \/ d = way.cell => b[d].kind # "none"
            /\ d \in Queued /\ ~(ending /\ d \in Owned(block, current)) => b[d].kind # "none"
    BY <1>3, ReadySound DEF b
<1>9. Stored(b, a)
    BY <1>2, <1>3, EndingIs DEF a, b
<1>0. below \in Seq(AnyFrames) /\ lost \in [Cells -> Nat] /\ NoReference \in [Cells -> Nat]
    BY <1>5, <1>6
<1> HIDE DEF n0, n1, n2, lost, one
(* The references of the new request block are gained: nothing goes.       *)
<1>10. ASSUME NEW d \in Cells, References(frame)[d] > 0 PROVE b[d].kind # "none"
    <2>1. CASE d = way.cell
        BY <1>8, <2>1
    <2>2. CASE References(Top(current))[d] > 0
        <3>1. Len(stack[current]) \in DOMAIN stack[current]
              /\ Top(current) = stack[current][Len(stack[current])]
            <4> DEFINE s == stack[current]
            <4>1. s \in Seq(AnyFrames) /\ s # <<>> /\ Top(current) = Last(s)
                BY <1>2
            <4> HIDE DEF s
            <4>2. Last(s) = s[Len(s)] /\ Len(s) \in Nat \ {0}
                BY <4>1, SequenceParts
            <4>3. DOMAIN s = 1..Len(s)
                BY <4>1
            <4>4. Len(s) \in DOMAIN s
                BY <4>2, <4>3
            <4> QED BY <4>1, <4>2, <4>4 DEF s
        <3>2. block[d].use > 0
            BY <1>2, <2>2, <3>1, ReferredTo
        <3>3. n0[d] > 0
            BY <1>2, <3>2 DEF Right
        <3> QED BY <1>8, <3>3
    <2>3. CASE header.cell # Nobody /\ d = header.cell
        <3>1. d \in Queued
            BY <2>3 DEF Headers
        <3> QED BY <1>1, <1>8, <2>3, <3>1
    <2> QED BY <1>4, <1>10, <2>1, <2>2, <2>3
<1>11. Balanced(b, References(frame), NoReference, n0, n1)
    <2>1. \A c \in Cells : n1[c] + NoReference[c] = n0[c] + References(frame)[c] /\ n1[c] <= 255
        BY <1>5, <1>6
    <2>2. \A c \in Cells : b[c].kind = "none" => References(frame)[c] = 0
        <3> TAKE c \in Cells
        <3>1. References(frame)[c] \in Nat
            BY <1>5
        <3> QED BY <1>10, <3>1
    <2>3. \A c \in Cells : b[c].kind # "none" /\ n0[c] = 0 /\ References(frame)[c] = 0 =>
             b[c].kind = "space" /\ b[c].queued
        BY <1>4, <1>8
    <2> QED BY <1>8, <2>1, <2>2, <2>3 DEF Balanced
<1>12. Right(gained, n1) /\ Tidy(gained) /\ Reached(gained, n1)
    BY <1>5, <1>6, <1>7, <1>8, <1>11, CountingRight DEF gained
<1>13. Stored(gained, a)
    BY <1>5, <1>9, Gaining DEF gained
<1>14. \A c \in Cells : gained[c].owner = Nobody \/ gained[c].owner = b[c].owner
    BY <1>5, <1>8, CountedOwner DEF gained
(* The absent pages of what it shows are brought in.                       *)
<1>15. SameUse(gained, loaded) /\ Stored(loaded, ArenaLoaded(gained, a, frame))
    BY <1>4, <1>13, LoadedSame DEF loaded
<1>16. BlocksSound(loaded) /\ loaded \in [Cells -> Blocks]
    BY <1>15 DEF Stored, BlocksSound
<1>17. Right(loaded, n1) /\ Tidy(loaded) /\ Reached(loaded, n1)
    BY <1>12, <1>15 DEF SameUse, Right, Tidy, Reached
(* The caller's references are lost, if it is discarded.                   *)
<1>18. Balanced(loaded, NoReference, lost, n1, n2)
    <2>1. ASSUME NEW c \in Cells PROVE n2[c] + lost[c] = n1[c] + NoReference[c] /\ n2[c] <= 255
        <3>1. n2[c] \in Nat /\ n1[c] \in Nat /\ lost[c] \in Nat /\ NoReference[c] = 0
            BY <1>5, <1>6
        <3>2. n2[c] + lost[c] = n1[c] /\ n1[c] <= 255
            BY <1>6
        <3> QED BY <3>1, <3>2
    <2>2. \A c \in Cells : loaded[c].kind # "none" /\ n1[c] = 0 =>
             loaded[c].kind = "space" /\ loaded[c].queued
        BY <1>17 DEF Reached
    <2> QED BY <1>5, <1>17, <2>1, <2>2 DEF Balanced
<1> DEFINE last == Counted(loaded, NoReference, lost)
<1>19. Right(last, n2) /\ Tidy(last) /\ Reached(last, n2)
    BY <1>5, <1>6, <1>16, <1>18, CountingRight
<1>20. \A c \in Cells : last[c].owner = Nobody \/ last[c].owner = loaded[c].owner
    BY <1>0, <1>16, CountedOwner
<1>21. BlocksSound(last) /\ last \in [Cells -> Blocks]
    <2>1. BlocksSound(last)
        BY <1>0, <1>16, CountedIs
    <2> QED BY <2>1 DEF BlocksSound
<1> HIDE DEF last
<1>22. Owners(last, stack)
    <2>1. \A c \in Cells : last[c].owner = Nobody \/ last[c].owner = block[c].owner
        BY <1>8, <1>14, <1>15, <1>20 DEF SameUse
    <2> QED BY <1>2, <2>1 DEF Owners
<1>23. /\ Append(below, frame) \in Seq(AnyFrames) /\ Append(below, frame) # <<>>
       /\ Len(Append(below, frame)) = Len(below) + 1 /\ Append(below, frame)[Len(below) + 1] = frame
       /\ \A i \in 1..Len(below) : Append(below, frame)[i] = below[i]
    BY <1>0, <1>4, Appending
<1>24. built \in AnyFrames /\ built.program = frame.program /\ built.map = frame.map
    BY <1>4, <1>16, BuiltTyped DEF built
<1>25. /\ Append(below, built) \in Seq(AnyFrames)
       /\ Len(Append(below, built)) = Len(below) + 1 /\ Append(below, built)[Len(below) + 1] = built
       /\ \A i \in 1..Len(below) : Append(below, built)[i] = below[i]
    BY <1>0, <1>24, Appending
<1>26. Len(below) \in Nat
    BY <1>0
<1> HIDE DEF below
<1> DEFINE x == Append(below, frame)
           y == Append(below, built)
<1>27. /\ two[u] = x /\ \A t \in Tasks \ {u} : two[t] = stack[t]
    BY <1>2, <1>23 DEF OnTop, below
<1>28. /\ w \in [Tasks -> Seq(AnyFrames)] /\ w[u] = y
       /\ \A t \in Tasks \ {u} : w[t] = stack[t]
    BY <1>1, <1>2, <1>25
<1> HIDE DEF x, y, two
<1>29. Owners(last, two)
    <2>1. \A t \in Tasks : stack[t] # <<>> => two[t] # <<>>
        BY <1>23, <1>27 DEF x
    <2> QED BY <1>21, <1>22, <2>1, OwnersStay
<1>30. Alike(two, w)
    <2>1. Len(x) = Len(y) /\ Len(x) = Len(below) + 1
        BY <1>23, <1>25 DEF x, y
    <2>2. ASSUME NEW i \in 1..Len(x) PROVE x[i].program = y[i].program /\ x[i].map = y[i].map
        <3>1. CASE i = Len(below) + 1
            BY <3>1, <1>23, <1>24, <1>25 DEF x, y
        <3>2. CASE i # Len(below) + 1
            <4>1. i \in 1..Len(below)
                BY <1>26, <2>1, <3>2
            <4> QED BY <4>1, <1>23, <1>25 DEF x, y
        <3> QED BY <3>1, <3>2
    <2> SUFFICES ASSUME NEW t \in Tasks
                 PROVE  /\ Len(two[t]) = Len(w[t])
                        /\ \A i \in 1..Len(two[t]) : /\ two[t][i].program = w[t][i].program
                                                     /\ two[t][i].map = w[t][i].map
        BY DEF Alike
    <2>3. CASE t = u
        BY <2>1, <2>2, <2>3, <1>27, <1>28
    <2>4. CASE t # u
        BY <2>4, <1>27, <1>28
    <2> QED BY <2>3, <2>4
<1>31. /\ Few(w) /\ Number(two, held) = Number(w, held)
       /\ Owners(last, two) => Owners(last, w)
    BY <1>6, <1>21, <1>28, <1>30, AlikeCount
<1>32. Sound(last, w, held)
    BY <1>19, <1>29, <1>31 DEF Sound, n2
<1> QED BY <1>1, <1>31, <1>32 DEF RefNext, w, last

(* Whatever the step, the counts stay right.                               *)
LEMMA EachRefs ==
    ASSUME ~Misplaced, ByteSuffices, RefInv, Next
    PROVE  RefNext
<1>1. /\ held \in SUBSET Cells /\ current \in Tasks /\ StorageInv
    BY RefFacts
<1>2. CASE \E way \in Callees, u \in Tasks, discard, ending \in BOOLEAN, header \in Headers :
              Transfer(way, u, discard, header, ending)
    BY <1>2, TransferRefs
<1>3. CASE Exit
    BY <1>3, ExitRefs
<1>4. CASE FreeSecond
    BY <1>4, FreeSecondRefs
<1>5. CASE EndTask
    BY <1>5, EndTaskRefs
<1>6. CASE \E w \in Windows, c \in Mappable : Map(w, c) \/ MapBelow(w, c)
    BY <1>6, MapRefs DEF MapBelow
<1>7. CASE \E w \in Windows : Unmap(w)
    BY <1>7, UnmapRefs
<1>8. CASE \E c \in Free : AttachTask(c)
    BY <1>8, AttachTaskRefs
<1>9. CASE \E c \in held : DetachTask(c)
    BY <1>9, DetachTaskRefs
<1>10. CASE \E c \in Free, form \in SpaceForms : CreateWorkSpace(c, form)
    BY <1>10, CreateWorkSpaceRefs
<1>11. CASE \E c \in Queued : DeleteWorkSpace(c)
    BY <1>11, DeleteWorkSpaceRefs
<1>a. CASE \E c \in Queued \cup held : AssignArea(c)
    BY <1>a, AssignAreaRefs
<1>12. CASE \E c \in held : GrowRegion(c)
    <2>1. PICK c \in held : Grow(c, TRUE)
        BY <1>12 DEF GrowRegion
    <2>2. c \in Cells /\ TRUE \in BOOLEAN
        BY <1>1
    <2> QED BY <2>1, <2>2, GrowRefs
<1>13. CASE GetPage
    BY <1>13, GetPageRefs
<1>14. CASE \E t \in Tasks : TakeTurn(t)
    BY <1>14, TakeTurnRefs
<1> QED BY <1>2, <1>3, <1>4, <1>5, <1>6, <1>7, <1>8, <1>9, <1>10, <1>11, <1>12, <1>13, <1>14,
           <1>a DEF Next

LEMMA InitRefs ==
    ASSUME Init
    PROVE  RefInv
<1> DEFINE root == [program |-> Nucleus, map |-> <<>>, image |-> {}, stale |-> FALSE]
<1>1. /\ StorageInv /\ block = [c \in Cells |-> NoBlock] /\ held = {}
      /\ stack = [t \in Tasks |-> IF t = IplTask THEN <<root>> ELSE <<>>]
    BY InitStored DEF Init
<1>2. stack \in [Tasks -> Seq(AnyFrames)]
    BY <1>1 DEF StorageInv
<1>3. IplTask \in Tasks
    BY TasksAssumption
<1>4. stack[IplTask] = <<root>> /\ \A t \in Tasks \ {IplTask} : stack[t] = <<>>
    BY <1>1, <1>3
<1>5. ASSUME NEW W PROVE Pairs(stack, W) = {<<IplTask, 1>>} \X W[root]
    <2>1. Places(stack) = {<<IplTask, 1>>}
        <3>1. ASSUME NEW z PROVE z \in Places(stack) <=> z = <<IplTask, 1>>
            <4>1. DOMAIN stack[IplTask] = {1} /\ \A t \in Tasks \ {IplTask} : DOMAIN stack[t] = {}
                BY <1>4
            <4> QED BY <1>3, <4>1, PlaceIs
        <3> QED BY <3>1
    <2>2. stack[<<IplTask, 1>>[1]][<<IplTask, 1>>[2]] = root
        BY <1>4
    <2> QED BY <2>1, <2>2 DEF Pairs
<1> HIDE DEF root
<1>6. root \in AnyFrames
    <2>1. <<root>> \in Seq(AnyFrames)
        BY <1>2, <1>3, <1>4
    <2>2. Len(<<root>>) = 1 /\ <<root>>[1] = root
        OBVIOUS
    <2> QED BY <2>1, <2>2
<1>7. Few(stack)
    <2>1. One[root] = {0}
        BY <1>6, OneIs
    <2>2. Pairs(stack, One) = {<<<<IplTask, 1>>, 0>>}
        BY <1>5, <2>1
    <2>3. IsFiniteSet(Pairs(stack, One)) /\ Cardinality(Pairs(stack, One)) = 1
        BY <2>2, FS_Singleton
    <2> QED BY <2>3, BoundsAssumption DEF Few
<1>8. ASSUME NEW c \in Cells PROVE Number(stack, held)[c] = 0
    <2>1. Weight(c)[root] = ReferencesTo(root, c)
        BY <1>6, WeightTyped
    <2>2. ReferencesTo(root, c) = {}
        <3>1. root.program # c /\ DOMAIN root.map = {}
            BY ProgramsAssumption DEF root
        <3> QED BY <3>1 DEF ReferencesTo, Named
    <2>3. Pairs(stack, Weight(c)) = {}
        BY <1>5, <2>1, <2>2
    <2>4. Refs(stack, c) = 0
        BY <2>3, FS_EmptySet DEF Refs
    <2> QED BY <1>1, <2>4 DEF Number, HeldOnce
<1>9. \A c \in Cells : block[c] = NoBlock
    BY <1>1
<1>10. Sound(block, stack, held)
    BY <1>8, <1>9, NoBlockIs DEF Sound, Right, Tidy, Reached, Owners
<1> QED BY <1>1, <1>7, <1>10 DEF RefInv

(* What the counts say: all refer to a cell as often as its block counts,  *)
(* and what nobody refers to its queue still has.                          *)
LEMMA CountsSay ==
    ASSUME ByteSuffices, RefInv
    PROVE  ReferencesAreRight
<1>1. /\ stack \in [Tasks -> Seq(AnyFrames)] /\ Few(stack) /\ StorageInv
      /\ block \in [Cells -> Blocks]
      /\ Right(block, Number(stack, held)) /\ Tidy(block)
      /\ Reached(block, Number(stack, held)) /\ Owners(block, stack)
    BY RefFacts
<1>2. ASSUME NEW c \in Cells PROVE Referring(c) = Number(stack, held)[c]
    <2>1. AllReferences(Positions)[c] = Refs(stack, c)
        BY <1>1, PositionsRefer
    <2>2. Number(stack, held)[c] = Refs(stack, c) + HeldOnce(held, c)
        BY DEF Number
    <2> QED BY <2>1, <2>2 DEF Referring, HeldOnce
<1>3. CountsAreReferences
    BY <1>1, <1>2 DEF CountsAreReferences, Right
<1>4. NothingStranded
    <2> SUFFICES ASSUME NEW c \in Cells, block[c].kind # "none", Referring(c) = 0
                 PROVE  c \in Queued /\ (block[c].owner = Nobody \/ Live(block[c].owner))
        BY DEF NothingStranded
    <2>1. block[c].kind = "space" /\ block[c].queued
        BY <1>1, <1>2 DEF Reached
    <2>2. block[c].owner # Nobody => stack[block[c].owner] # <<>>
        BY <1>1 DEF Owners
    <2> QED BY <2>1, <2>2 DEF Queued, Live
<1> QED BY <1>3, <1>4 DEF ReferencesAreRight

(* A block's use count is what refers to it, so that none is deleted while *)
(* something does, and none is kept that nothing can reach: as long as no  *)
(* block is mapped from below its load page, and no count can reach the    *)
(* end of its byte.                                                        *)
THEOREM ReferencesAreRightHolds == ~Misplaced /\ ByteSuffices => (Spec => []ReferencesAreRight)
<1> DEFINE H == ~Misplaced /\ ByteSuffices
<1>1. H /\ RefInv => ReferencesAreRight
    BY CountsSay
<1>2. H /\ RefInv /\ [Next]_vars => RefInv'
    <2> SUFFICES ASSUME H, RefInv, [Next]_vars PROVE RefInv'
        OBVIOUS
    <2>1. StorageInv'
        BY EachStep DEF RefInv
    <2>2. CASE Next
        <3>1. RefNext
            BY <2>2, EachRefs
        <3> QED BY <2>1, <3>1 DEF RefInv, RefNext
    <2>3. CASE vars' = vars
        <3>1. block' = block /\ stack' = stack /\ held' = held
            BY <2>3 DEF vars
        <3> QED BY <2>1, <3>1 DEF RefInv
    <2> QED BY <2>2, <2>3
<1>3. Init => RefInv
    BY InitRefs
<1>4. CASE H
    <2>1. RefInv /\ [Next]_vars => RefInv'
        BY <1>2, <1>4
    <2>2. RefInv => ReferencesAreRight
        BY <1>1, <1>4
    <2> QED BY <1>3, <2>1, <2>2, PTL DEF Spec
<1> QED BY <1>4

(***************************************************************************)
(* Where the pages of blocks are, and what translation files say of it.    *)
(***************************************************************************)

(* A block that is still there has its pages where it had them.            *)
Lasting(r, q) ==
    \/ q.kind = "none"
    \/ r = NoBlock
    \/ /\ q.kind = r.kind /\ q.module = r.module /\ q.at = r.at /\ q.pages = r.pages
       /\ r.mapped => q.mapped
       /\ r.astray => q.astray
       /\ r.tail # 0 => q.tail = r.tail

Follows(b, n) == \A c \in Cells : Lasting(b[c], n[c])

(* No block is made.                                                       *)
NoneMade(b, n) == \A c \in Cells : b[c].kind = "none" => n[c].kind = "none"

(* What a translation file names is where the blocks are, and referred to. *)
ShowsIn(b, f) ==
    \A x \in f.image : x \in Admitted(b, x[1]) /\ ReferencesTo(f, x[1]) # {}

(* The file is used before it is built again.                              *)
InUse(s, i) == ~s[i].stale \/ i = Len(s)

Showing(b, st) ==
    \A t \in Tasks : \A i \in DOMAIN st[t] : InUse(st[t], i) => ShowsIn(b, st[t][i])

LEMMA ShowingIs == PagesInOnePlace <=> Showing(block, stack)
BY DEF PagesInOnePlace, Showing, InUse, ShowsIn, Depth

LEMMA PageIs ==
    ASSUME NEW b, NEW c, NEW n, NEW x
    PROVE  x \in PagesOf(b, c, n) <=>
              /\ x \in {c} \X (0..(n - 1)) \X Pages
              /\ \/ x[2] < b[c].pages /\ x[3] = b[c].at + x[2]
                 \/ /\ b[c].kind = "program" /\ b[c].module = Region
                    /\ x[2] = 1 /\ b[c].pages = 1 /\ x[3] = Beyond(b[c])
                 \/ b[c].kind = "space" /\ b[c].mapped /\ x[2] = 0 /\ x[3] = b[c].tail
BY DEF PagesOf

(* The extent, the swap area, or the second page of a region astray.       *)
Home(r, x) ==
    \/ x[2] < r.pages /\ x[3] = r.at + x[2]
    \/ /\ r.kind = "program" /\ r.module = Region
       /\ x[2] = 1 /\ r.pages = 1 /\ x[3] = r.tail
    \/ r.kind = "space" /\ r.mapped /\ x[2] = 0 /\ x[3] = r.tail

LEMMA AdmittedIs ==
    ASSUME NEW b, NEW c, NEW x
    PROVE  x \in Admitted(b, c) <=>
              /\ x \in {c} \X {0, 1} \X Pages
              /\ Home(b[c], x) \/ (x[2] = 1 /\ b[c].astray)
<1>1. 0..(2 - 1) = {0, 1}
    OBVIOUS
<1>2. x \in {y \in {c} \X {1} \X Pages : b[c].astray} <=>
         x \in {c} \X {0, 1} \X Pages /\ x[2] = 1 /\ b[c].astray
    OBVIOUS
<1>3. x \in PagesOf(b, c, 2) \/ (x[2] = 1 /\ b[c].astray /\ x \in {c} \X {0, 1} \X Pages) <=>
         x \in {c} \X {0, 1} \X Pages /\ (Home(b[c], x) \/ (x[2] = 1 /\ b[c].astray))
    BY <1>1, PageIs DEF Home, Beyond
<1> QED BY <1>2, <1>3 DEF Admitted

LEMMA LastingShows ==
    ASSUME NEW b, NEW n, NEW c, Lasting(b[c], n[c]), n[c].kind # "none"
    PROVE  Admitted(b, c) \subseteq Admitted(n, c)
<1> SUFFICES ASSUME NEW x \in Admitted(b, c) PROVE x \in Admitted(n, c)
    OBVIOUS
<1> DEFINE r == b[c]
           q == n[c]
<1>1. /\ x \in {c} \X {0, 1} \X Pages
      /\ Home(r, x) \/ (x[2] = 1 /\ r.astray)
    BY AdmittedIs
<1>2. x[2] \in 0..1 /\ x[3] # 0
    BY <1>1 DEF Pages
<1>3. \/ r = NoBlock
      \/ /\ q.kind = r.kind /\ q.module = r.module /\ q.at = r.at /\ q.pages = r.pages
         /\ r.mapped => q.mapped
         /\ r.astray => q.astray
         /\ r.tail # 0 => q.tail = r.tail
    BY DEF Lasting
<1> HIDE DEF r, q
<1>4. r # NoBlock
    <2> SUFFICES ASSUME r = NoBlock PROVE FALSE
        OBVIOUS
    <2>1. r.kind = "none" /\ r.pages = 0 /\ r.astray = FALSE
        BY NoBlockIs
    <2> QED BY <1>1, <1>2, <2>1 DEF Home
<1>5. CASE x[2] = 1 /\ r.astray
    <2>1. x[2] = 1 /\ q.astray
        BY <1>3, <1>4, <1>5
    <2> QED BY <1>1, <2>1, AdmittedIs DEF q
<1>6. CASE Home(r, x)
    <2>1. Home(q, x)
        BY <1>2, <1>3, <1>4, <1>6 DEF Home
    <2> QED BY <1>1, <2>1, AdmittedIs DEF q
<1> QED BY <1>1, <1>5, <1>6

LEMMA LastingStays ==
    ASSUME NEW r
    PROVE  Lasting(r, r) /\ Lasting(r, NoBlock)
BY NoBlockIs DEF Lasting

LEMMA LastingOn ==
    ASSUME NEW u, NEW v, NEW w, Lasting(u, v), Lasting(v, w), v.kind = "none" => w.kind = "none"
    PROVE  Lasting(u, w)
<1>1. CASE w.kind = "none" \/ u = NoBlock
    BY <1>1 DEF Lasting
<1>2. CASE ~(w.kind = "none" \/ u = NoBlock)
    <2>1. v.kind # "none" /\ v # NoBlock
        BY <1>2, NoBlockIs
    <2>2. /\ v.kind = u.kind /\ v.module = u.module /\ v.at = u.at /\ v.pages = u.pages
          /\ u.mapped => v.mapped
          /\ u.astray => v.astray
          /\ u.tail # 0 => v.tail = u.tail
        BY <1>2, <2>1 DEF Lasting
    <2>3. /\ w.kind = v.kind /\ w.module = v.module /\ w.at = v.at /\ w.pages = v.pages
          /\ v.mapped => w.mapped
          /\ v.astray => w.astray
          /\ v.tail # 0 => w.tail = v.tail
        BY <1>2, <2>1 DEF Lasting
    <2>4. /\ w.kind = u.kind /\ w.module = u.module /\ w.at = u.at /\ w.pages = u.pages
          /\ u.mapped => w.mapped
          /\ u.astray => w.astray
        BY <2>2, <2>3
    <2>5. u.tail # 0 => w.tail = u.tail
        BY <2>2, <2>3
    <2> QED BY <2>4, <2>5 DEF Lasting
<1> QED BY <1>1, <1>2

LEMMA FollowingOn ==
    ASSUME NEW b, NEW m, NEW n, Follows(b, m), Follows(m, n), NoneMade(m, n)
    PROVE  Follows(b, n)
<1> SUFFICES ASSUME NEW c \in Cells PROVE Lasting(b[c], n[c])
    BY DEF Follows
<1>1. Lasting(b[c], m[c]) /\ Lasting(m[c], n[c]) /\ (m[c].kind = "none" => n[c].kind = "none")
    BY DEF Follows, NoneMade
<1> QED BY <1>1, LastingOn

LEMMA NoneMadeOn ==
    ASSUME NEW b, NEW m, NEW n, NoneMade(b, m), NoneMade(m, n)
    PROVE  NoneMade(b, n)
BY DEF NoneMade

LEMMA CountedFollows ==
    ASSUME NEW b, BlocksSound(b), NEW gain \in [Cells -> Nat], NEW lose \in [Cells -> Nat]
    PROVE  Follows(b, Counted(b, gain, lose)) /\ NoneMade(b, Counted(b, gain, lose))
<1> DEFINE n == Counted(b, gain, lose)
           gone == Deleted(b, gain, lose)
<1>1. \A c \in gone : n[c] = NoBlock
    BY CountedIs
<1>2. \A c \in Cells \ gone :
         /\ n[c].kind = b[c].kind /\ n[c].module = b[c].module /\ n[c].at = b[c].at
         /\ n[c].pages = b[c].pages /\ n[c].tail = b[c].tail /\ n[c].mapped = b[c].mapped
         /\ n[c].astray = b[c].astray
    BY CountedIs
<1> HIDE DEF n, gone
<1>3. Follows(b, n)
    <2> SUFFICES ASSUME NEW c \in Cells PROVE Lasting(b[c], n[c])
        BY DEF Follows
    <2>1. CASE c \in gone
        BY <1>1, <2>1, LastingStays
    <2>2. CASE c \notin gone
        BY <1>2, <2>2 DEF Lasting
    <2> QED BY <2>1, <2>2
<1>4. NoneMade(b, n)
    BY <1>1, <1>2, NoBlockIs DEF NoneMade
<1> QED BY <1>3, <1>4 DEF n

LEMMA LoadedFollows ==
    ASSUME NEW b, NEW a, Stored(b, a), NEW f \in AnyFrames
    PROVE  Follows(b, Loaded(b, a, f)) /\ NoneMade(b, Loaded(b, a, f))
<1> DEFINE n == Loaded(b, a, f)
<1>1. \A c \in Cells : n[c] = b[c] \/ (b[c].tail = 0 /\ \E p \in 0..LastPage : n[c] = WithTail(b[c], p))
    BY LoadedIs
<1> HIDE DEF n
<1>2. ASSUME NEW c \in Cells PROVE Lasting(b[c], n[c]) /\ (b[c].kind = "none" => n[c].kind = "none")
    <2>1. b[c] \in Blocks
        BY DEF Stored, BlocksSound
    <2>2. CASE n[c] = b[c]
        BY <2>2, LastingStays
    <2>3. CASE b[c].tail = 0 /\ \E p \in 0..LastPage : n[c] = WithTail(b[c], p)
        <3>1. PICK p \in 0..LastPage : n[c] = WithTail(b[c], p)
            BY <2>3
        <3>2. /\ n[c].kind = b[c].kind /\ n[c].module = b[c].module /\ n[c].at = b[c].at
              /\ n[c].pages = b[c].pages /\ n[c].mapped = b[c].mapped
              /\ n[c].astray = b[c].astray
            BY <2>1, <3>1, TailIs
        <3> QED BY <2>3, <3>2 DEF Lasting
    <2> QED BY <1>1, <2>2, <2>3
<1>3. Follows(b, n) /\ NoneMade(b, n)
    BY <1>2 DEF Follows, NoneMade
<1> QED BY <1>3 DEF n

LEMMA SpacesFollow ==
    ASSUME NEW b \in [Cells -> Blocks], NEW t
    PROVE  Follows(b, SpacesReleased(b, t)) /\ NoneMade(b, SpacesReleased(b, t))
<1> DEFINE n == SpacesReleased(b, t)
<1>1. \A c \in Cells : n[c] = NoBlock \/ n[c] = LetGo(b[c]) \/ n[c] = b[c]
    BY DEF SpacesReleased
<1> HIDE DEF n
<1>2. ASSUME NEW c \in Cells PROVE Lasting(b[c], n[c]) /\ (b[c].kind = "none" => n[c].kind = "none")
    <2>1. b[c] \in Blocks
        OBVIOUS
    <2>2. CASE n[c] = b[c]
        BY <2>2, LastingStays
    <2>3. CASE n[c] = NoBlock
        BY <2>3, LastingStays, NoBlockIs
    <2>4. CASE n[c] = LetGo(b[c])
        <3> DEFINE r == b[c]
                   q == LetGo(r)
        <3>1. r \in Blocks
            BY <2>1
        <3> HIDE DEF r
        <3>2. /\ q.kind = r.kind /\ q.module = r.module /\ q.at = r.at
              /\ q.pages = r.pages /\ q.mapped = r.mapped /\ q.tail = r.tail
              /\ q.astray = r.astray
            BY <3>1, LetGoIs
        <3> HIDE DEF q
        <3>3. Lasting(r, q) /\ (r.kind = "none" => q.kind = "none")
            BY <3>2 DEF Lasting
        <3>4. n[c] = q /\ b[c] = r
            BY <2>4 DEF q, r
        <3> QED BY <3>3, <3>4
    <2> QED BY <1>1, <2>2, <2>3, <2>4
<1>3. Follows(b, n) /\ NoneMade(b, n)
    BY <1>2 DEF Follows, NoneMade
<1> QED BY <1>3 DEF n

LEMMA OneFollows ==
    ASSUME NEW b \in [Cells -> Blocks], NEW c \in Cells, NEW r, Lasting(b[c], r)
    PROVE  /\ Follows(b, [b EXCEPT ![c] = r])
           /\ (b[c].kind = "none" => r.kind = "none") => NoneMade(b, [b EXCEPT ![c] = r])
<1> DEFINE n == [b EXCEPT ![c] = r]
<1>1. n[c] = r /\ \A d \in Cells \ {c} : n[d] = b[d]
    OBVIOUS
<1> HIDE DEF n
<1>2. \A d \in Cells : Lasting(b[d], n[d])
    BY <1>1, LastingStays
<1>3. (b[c].kind = "none" => r.kind = "none") => \A d \in Cells : b[d].kind = "none" => n[d].kind = "none"
    BY <1>1
<1> QED BY <1>2, <1>3 DEF Follows, NoneMade, n

(* What some stacks refer to is there, if it was counted.                  *)
LEMMA ReferredIn ==
    ASSUME ByteSuffices, NEW st \in [Tasks -> Seq(AnyFrames)], Few(st), NEW h,
           NEW b, BlocksSound(b), Right(b, Number(st, h)),
           NEW t \in Tasks, NEW i \in DOMAIN st[t], NEW c \in Cells, References(st[t][i])[c] > 0
    PROVE  b[c].kind # "none"
<1>1. IsFiniteSet(Pairs(st, One))
    BY DEF Few
<1>2. st[t][i] \in AnyFrames
    <2>1. st[t] \in Seq(AnyFrames)
        OBVIOUS
    <2> QED BY <2>1
<1>3. PICK j : j \in Weight(c)[st[t][i]]
    <2> DEFINE W == Weight(c)[st[t][i]]
    <2>1. Cardinality(W) = References(st[t][i])[c]
        BY <1>2, WeightTyped
    <2> HIDE DEF W
    <2>2. Cardinality(W) # 0
        BY <2>1
    <2>3. W # {}
        BY <2>2, FS_EmptySet
    <2>4. \E j : j \in W
        BY <2>3
    <2> QED BY <2>4 DEF W
<1>4. <<<<t, i>>, j>> \in Pairs(st, Weight(c))
    BY <1>3, PairIs
<1>5. IsFiniteSet(Pairs(st, Weight(c))) /\ Refs(st, c) \in Nat
    <2> DEFINE m == Cardinality(Pairs(st, One))
    <2>1. m \in Nat /\ m <= m
        BY <1>1, FS_CardinalityType
    <2> QED BY <1>1, <2>1, RefsBounded
<1>6. Refs(st, c) # 0
    BY <1>4, <1>5, FS_EmptySet DEF Refs
<1>7. b[c].use = Refs(st, c) + HeldOnce(h, c) /\ HeldOnce(h, c) \in {0, 1}
    BY FewNumber DEF Right
<1>8. b[c].use # 0
    BY <1>5, <1>6, <1>7
<1> QED BY <1>8, NoBlockIs DEF BlocksSound

(* The blocks that a request block refers to are there.                    *)
AllThere(b, f) == \A c \in Cells : References(f)[c] > 0 => b[c].kind # "none"

LEMMA RefersIs ==
    ASSUME NEW f \in AnyFrames, NEW c \in Cells
    PROVE  ReferencesTo(f, c) # {} <=> References(f)[c] > 0
<1>1. IsFiniteSet(ReferencesTo(f, c))
    BY ReferencesTyped
<1>2. References(f)[c] = Cardinality(ReferencesTo(f, c)) /\ References(f)[c] \in Nat
    BY ReferencesTyped DEF References
<1>3. Cardinality(ReferencesTo(f, c)) = 0 <=> ReferencesTo(f, c) = {}
    BY <1>1, FS_EmptySet
<1> QED BY <1>2, <1>3

LEMMA ShownStill ==
    ASSUME NEW b, NEW n, NEW f \in AnyFrames, ShowsIn(b, f), Follows(b, n), AllThere(n, f)
    PROVE  ShowsIn(n, f)
<1> SUFFICES ASSUME NEW x \in f.image PROVE x \in Admitted(n, x[1]) /\ ReferencesTo(f, x[1]) # {}
    BY DEF ShowsIn
<1>1. x[1] \in Cells
    BY FrameParts
<1>2. x \in Admitted(b, x[1]) /\ ReferencesTo(f, x[1]) # {}
    BY DEF ShowsIn
<1>3. n[x[1]].kind # "none"
    BY <1>1, <1>2, RefersIs DEF AllThere
<1>4. Lasting(b[x[1]], n[x[1]])
    BY <1>1 DEF Follows
<1>5. Admitted(b, x[1]) \subseteq Admitted(n, x[1])
    BY <1>3, <1>4, LastingShows
<1> QED BY <1>2, <1>5

(* A translation file that is built shows what the blocks are.             *)
LEMMA BuiltShows ==
    ASSUME NEW b \in [Cells -> Blocks], NEW f \in AnyFrames
    PROVE  Built(b, f) \in AnyFrames /\ ShowsIn(b, Built(b, f))
<1> DEFINE g == Built(b, f)
<1>1. /\ g \in AnyFrames /\ g.program = f.program /\ g.map = f.map
      /\ \A x \in g.image : \E i \in DOMAIN Objects(b, f) :
            x \in PagesOf(b, Objects(b, f)[i].cell, Objects(b, f)[i].pages)
    BY BuiltTyped
<1> HIDE DEF g
<1>2. ASSUME NEW x \in g.image PROVE x \in Admitted(b, x[1]) /\ ReferencesTo(g, x[1]) # {}
    <2>1. PICK i \in DOMAIN Objects(b, f) :
              x \in PagesOf(b, Objects(b, f)[i].cell, Objects(b, f)[i].pages)
        BY <1>1
    <2> DEFINE e == Objects(b, f)[i]
    <2>2. e \in AnyEntries /\ e.cell \in Cells /\ References(f)[e.cell] > 0
        <3>1. Objects(b, f) \in Seq(AnyEntries)
            BY ObjectsTyped
        <3> QED BY <3>1, ObjectsRefer
    <2>3. x \in PagesOf(b, e.cell, e.pages)
        BY <2>1
    <2> HIDE DEF e
    <2>4. e.pages \in 1..2
        BY <2>2 DEF AnyEntries
    <2>5. x[1] = e.cell
        BY <2>3, PageIs
    <2>6. x \in PagesOf(b, e.cell, 2)
        <3>1. x \in {e.cell} \X (0..(e.pages - 1)) \X Pages
            BY <2>3, PageIs
        <3>2. 0..(e.pages - 1) \subseteq 0..(2 - 1)
            BY <2>4
        <3>3. x \in {e.cell} \X (0..(2 - 1)) \X Pages
            BY <3>1, <3>2
        <3> QED BY <2>3, <3>3, PageIs
    <2>7. ReferencesTo(f, e.cell) # {}
        BY <2>2, RefersIs
    <2>8. ReferencesTo(g, e.cell) = ReferencesTo(f, e.cell)
        BY <1>1 DEF ReferencesTo, Named
    <2> QED BY <2>5, <2>6, <2>7, <2>8 DEF Admitted
<1>3. ShowsIn(b, g)
    BY <1>2 DEF ShowsIn
<1> QED BY <1>1, <1>3 DEF g

(* Where a translation file in use comes from: it was in use before, or it *)
(* was built over blocks that are followed.                                *)
Carried(v, f) == \E t \in Tasks : \E i \in DOMAIN v[t] : InUse(v[t], i) /\ f = v[t][i]

Made(b, f) == \E m \in [Cells -> Blocks], g \in AnyFrames : Follows(m, b) /\ f = Built(m, g)

Comes(v, w, b) ==
    \A t \in Tasks : \A i \in DOMAIN w[t] :
        InUse(w[t], i) => Carried(v, w[t][i]) \/ Made(b, w[t][i])

Counts(b, st, h) ==
    /\ st \in [Tasks -> Seq(AnyFrames)] /\ Few(st) /\ BlocksSound(b)
    /\ Right(b, Number(st, h))

LEMMA ThereIs ==
    ASSUME ByteSuffices, NEW b, NEW st, NEW h, Counts(b, st, h), NEW t \in Tasks, NEW i \in DOMAIN st[t]
    PROVE  st[t][i] \in AnyFrames /\ AllThere(b, st[t][i])
<1>1. /\ st \in [Tasks -> Seq(AnyFrames)] /\ Few(st) /\ BlocksSound(b) /\ Right(b, Number(st, h))
    BY DEF Counts
<1>2. st[t] \in Seq(AnyFrames)
    BY <1>1
<1>3. st[t][i] \in AnyFrames
    BY <1>2
<1>4. \A c \in Cells : References(st[t][i])[c] > 0 => b[c].kind # "none"
    BY <1>1, ReferredIn
<1> QED BY <1>3, <1>4 DEF AllThere

LEMMA Moving ==
    ASSUME ByteSuffices, NEW b, NEW v, Showing(b, v),
           NEW n, NEW w, NEW h, Counts(n, w, h), Follows(b, n), Comes(v, w, n)
    PROVE  Showing(n, w)
<1> SUFFICES ASSUME NEW t \in Tasks, NEW i \in DOMAIN w[t], InUse(w[t], i)
             PROVE  ShowsIn(n, w[t][i])
    BY DEF Showing
<1>1. w[t][i] \in AnyFrames /\ AllThere(n, w[t][i])
    BY ThereIs
<1>2. CASE Carried(v, w[t][i])
    <2>1. ShowsIn(b, w[t][i])
        BY <1>2 DEF Carried, Showing
    <2> QED BY <1>1, <2>1, ShownStill
<1>3. CASE Made(n, w[t][i])
    <2>1. PICK m \in [Cells -> Blocks], g \in AnyFrames : Follows(m, n) /\ w[t][i] = Built(m, g)
        BY <1>3 DEF Made
    <2>2. ShowsIn(m, w[t][i])
        BY <2>1, BuiltShows
    <2> QED BY <1>1, <2>1, <2>2, ShownStill
<1> QED BY <1>2, <1>3 DEF Comes

(* The files of one stack that are in use come from stacks v.              *)
FromStacks(v, s, b) ==
    \A i \in DOMAIN s : InUse(s, i) => Carried(v, s[i]) \/ Made(b, s[i])

Lower(v, x) == \A i \in 1..Len(x) : ~x[i].stale => Carried(v, x[i])

LEMMA SameComes ==
    ASSUME NEW v, NEW t \in Tasks, NEW b
    PROVE  FromStacks(v, v[t], b)
BY DEF FromStacks, Carried

LEMMA LowerIs ==
    ASSUME NEW v \in [Tasks -> Seq(AnyFrames)], NEW t \in Tasks, NEW x \in Seq(AnyFrames),
           Len(x) <= Len(v[t]), \A i \in 1..Len(x) : x[i] = v[t][i]
    PROVE  Lower(v, x)
<1> SUFFICES ASSUME NEW i \in 1..Len(x), ~x[i].stale PROVE Carried(v, x[i])
    BY DEF Lower
<1>1. v[t] \in Seq(AnyFrames)
    OBVIOUS
<1>2. DOMAIN v[t] = 1..Len(v[t]) /\ Len(v[t]) \in Nat /\ Len(x) \in Nat
    BY <1>1
<1>3. i \in DOMAIN v[t]
    BY <1>2
<1>4. x[i] = v[t][i]
    OBVIOUS
<1>5. InUse(v[t], i)
    BY <1>4 DEF InUse
<1> QED BY <1>3, <1>4, <1>5 DEF Carried

LEMMA OntoComes ==
    ASSUME NEW v, NEW b, NEW x \in Seq(AnyFrames), NEW f \in AnyFrames, Lower(v, x),
           Carried(v, f) \/ Made(b, f)
    PROVE  FromStacks(v, Append(x, f), b)
<1> DEFINE s == Append(x, f)
<1>1. /\ s \in Seq(AnyFrames) /\ Len(s) = Len(x) + 1 /\ s[Len(x) + 1] = f
      /\ \A i \in 1..Len(x) : s[i] = x[i]
    BY Appending
<1>2. Len(x) \in Nat
    OBVIOUS
<1> HIDE DEF s
<1>3. DOMAIN s = 1..(Len(x) + 1)
    BY <1>1
<1>4. ASSUME NEW i \in DOMAIN s, InUse(s, i)
      PROVE  Carried(v, s[i]) \/ Made(b, s[i])
    <2>1. CASE i = Len(x) + 1
        BY <2>1, <1>1
    <2>2. CASE i # Len(x) + 1
        <3>1. i \in 1..Len(x) /\ i # Len(s)
            BY <2>2, <1>1, <1>2, <1>3
        <3>2. ~s[i].stale
            BY <1>4, <3>1 DEF InUse
        <3> QED BY <3>1, <3>2, <1>1 DEF Lower
    <2> QED BY <2>1, <2>2
<1> QED BY <1>4 DEF FromStacks, s

LEMMA FrontComes ==
    ASSUME NEW v \in [Tasks -> Seq(AnyFrames)], NEW t \in Tasks, NEW b, v[t] # <<>>,
           Front(v[t]) # <<>>, ~Last(Front(v[t])).stale
    PROVE  FromStacks(v, Front(v[t]), b)
<1> DEFINE x == Front(v[t])
<1>1. v[t] \in Seq(AnyFrames)
    OBVIOUS
<1>2. /\ x \in Seq(AnyFrames) /\ Len(x) = Len(v[t]) - 1 /\ Len(v[t]) \in Nat \ {0}
      /\ \A i \in 1..(Len(v[t]) - 1) : x[i] = v[t][i]
    BY <1>1, SequenceParts
<1>3. Last(x) = x[Len(x)] /\ x # <<>> /\ ~Last(x).stale
    BY DEF Last
<1> HIDE DEF x
<1>4. Lower(v, x)
    <2>1. Len(x) <= Len(v[t]) /\ \A i \in 1..Len(x) : x[i] = v[t][i]
        BY <1>2
    <2> QED BY <1>2, <2>1, LowerIs
<1>5. DOMAIN x = 1..Len(x)
    BY <1>2
<1>6. ASSUME NEW i \in DOMAIN x, InUse(x, i) PROVE Carried(v, x[i])
    <2>1. ~x[i].stale
        BY <1>3, <1>6 DEF InUse
    <2> QED BY <1>4, <1>5, <2>1 DEF Lower
<1> QED BY <1>6 DEF FromStacks, x

LEMMA StacksCome ==
    ASSUME NEW v, NEW w, NEW b, NEW u, FromStacks(v, w[u], b), \A t \in Tasks \ {u} : w[t] = v[t]
    PROVE  Comes(v, w, b)
<1> SUFFICES ASSUME NEW t \in Tasks PROVE FromStacks(v, w[t], b)
    BY DEF Comes, FromStacks
<1>1. CASE t = u
    BY <1>1
<1>2. CASE t # u
    BY <1>2, SameComes
<1> QED BY <1>1, <1>2

LEMMA FollowsSelf ==
    ASSUME NEW b
    PROVE  Follows(b, b)
BY LastingStays DEF Follows

LEMMA MadeNow ==
    ASSUME NEW b \in [Cells -> Blocks], NEW f \in AnyFrames
    PROVE  Made(b, Built(b, f))
BY FollowsSelf DEF Made

(***************************************************************************)
(* The steps, as far as what translation files show goes.                  *)
(***************************************************************************)
Moves == Follows(block, block') /\ Comes(stack, stack', block')

LEMMA RebuildMoves ==
    ASSUME StorageInv, NEW b, NEW a, Stored(b, a), NEW s \in Seq(AnyFrames), s # <<>>,
           Rebuild(b, a, s), Follows(block, b), Lower(stack, Front(s))
    PROVE  Moves
<1> DEFINE top == Last(s)
           loaded == Loaded(b, a, top)
           built == Built(loaded, top)
           r == Append(Front(s), built)
<1>1. /\ top \in AnyFrames /\ Front(s) \in Seq(AnyFrames)
      /\ \A x \in AnyFrames : [s EXCEPT ![Len(s)] = x] = Append(Front(s), x)
    BY SequenceParts
<1>2. Stored(loaded, ArenaLoaded(b, a, top)) /\ Follows(b, loaded) /\ NoneMade(b, loaded)
    BY <1>1, LoadedIs, LoadedFollows
<1>3. loaded \in [Cells -> Blocks]
    BY <1>2 DEF Stored, BlocksSound
<1>4. block' = loaded /\ stack' = [stack EXCEPT ![current] = [s EXCEPT ![Len(s)] = built]]
    BY DEF Rebuild
<1> HIDE DEF loaded, top
<1>5. built \in AnyFrames /\ Made(loaded, built)
    BY <1>1, <1>3, BuiltTyped, MadeNow
<1> HIDE DEF built
<1>6. stack' = [stack EXCEPT ![current] = r]
    BY <1>1, <1>4, <1>5
<1>7. FromStacks(stack, r, loaded)
    BY <1>1, <1>5, OntoComes
<1>8. current \in Tasks /\ stack \in [Tasks -> Seq(AnyFrames)]
    BY DEF StorageInv
<1> HIDE DEF r
<1> DEFINE w == stack'
<1>9. w[current] = r /\ \A t \in Tasks \ {current} : w[t] = stack[t]
    BY <1>6, <1>8
<1> HIDE DEF w
<1>10. Comes(stack, w, loaded)
    BY <1>7, <1>9, StacksCome
<1>11. Follows(block, loaded)
    BY <1>2, FollowingOn
<1> QED BY <1>4, <1>10, <1>11 DEF Moves, w

(* The lower part of a task's stack is lower.                              *)
LEMMA FrontLower ==
    ASSUME StorageInv, NEW t \in Tasks, stack[t] # <<>>
    PROVE  /\ Front(stack[t]) \in Seq(AnyFrames) /\ Lower(stack, Front(stack[t]))
           /\ Front(stack[t]) # <<>> => Lower(stack, Front(Front(stack[t])))
<1> DEFINE s == stack[t]
           x == Front(s)
           y == Front(x)
<1>1. s \in Seq(AnyFrames) /\ s # <<>> /\ stack \in [Tasks -> Seq(AnyFrames)] /\ stack[t] = s
    BY DEF StorageInv
<1> HIDE DEF s
<1>2. /\ x \in Seq(AnyFrames) /\ Len(x) = Len(s) - 1 /\ Len(s) \in Nat \ {0}
      /\ \A i \in 1..(Len(s) - 1) : x[i] = s[i]
    BY <1>1, SequenceParts
<1>3. Lower(stack, x)
    <2>1. Len(x) <= Len(s) /\ \A i \in 1..Len(x) : x[i] = s[i]
        BY <1>2
    <2> QED BY <1>1, <1>2, <2>1, LowerIs
<1> HIDE DEF x
<1>4. ASSUME x # <<>> PROVE Lower(stack, y)
    <2>1. /\ y \in Seq(AnyFrames) /\ Len(y) = Len(x) - 1 /\ Len(x) \in Nat \ {0}
          /\ \A i \in 1..(Len(x) - 1) : y[i] = x[i]
        BY <1>2, <1>4, SequenceParts
    <2> HIDE DEF y
    <2>2. Len(y) <= Len(s) /\ \A i \in 1..Len(y) : y[i] = s[i]
        BY <1>2, <2>1
    <2> QED BY <1>1, <2>1, <2>2, LowerIs
<1> QED BY <1>2, <1>3, <1>4 DEF x, y, s

LEMMA ExitMoves ==
    ASSUME RefInv, Exit
    PROVE  Moves
<1> DEFINE s    == stack[current]
           lose == References(Top(current))
           gone == Deleted(block, NoReference, lose)
           b    == Counted(block, NoReference, lose)
           a    == ReturnPages(arena, Vacated(block, gone))
           rest == Front(s)
           n    == [stack EXCEPT ![current] = rest]
<1>1. /\ Len(s) > 1
      /\ \/ Rebuild(b, a, rest)
         \/ block' = b /\ stack' = n /\ ~Last(rest).stale
    BY DEF Exit, Depth
<1>2. /\ s \in Seq(AnyFrames) /\ s # <<>> /\ current \in Tasks
      /\ Top(current) \in AnyFrames /\ BlocksSound(block)
      /\ stack \in [Tasks -> Seq(AnyFrames)] /\ StorageInv /\ Stored(block, arena)
    BY RefFacts
<1>3. rest \in Seq(AnyFrames) /\ Len(rest) = Len(s) - 1 /\ Len(s) \in Nat /\ rest # <<>>
    <2>1. rest \in Seq(AnyFrames) /\ Len(rest) = Len(s) - 1 /\ Len(s) \in Nat
        BY <1>2, SequenceParts
    <2> HIDE DEF rest
    <2>2. rest # <<>>
        BY <1>1, <2>1
    <2> QED BY <2>1, <2>2
<1>4. lose \in [Cells -> Nat] /\ NoReference \in [Cells -> Nat]
    BY <1>2, ReferencesTyped, NoReferenceIs
<1>5. Stored(b, a)
    BY <1>2, <1>4, Counting
<1>6. Follows(block, b)
    BY <1>2, <1>4, CountedFollows
<1>7. Lower(stack, Front(rest))
    BY <1>2, <1>3, FrontLower
<1> HIDE DEF a, b, lose, gone
<1>8. CASE Rebuild(b, a, rest)
    BY <1>2, <1>3, <1>5, <1>6, <1>7, <1>8, RebuildMoves
<1>9. CASE block' = b /\ stack' = n /\ ~Last(rest).stale
    <2>1. FromStacks(stack, rest, b)
        BY <1>2, <1>3, <1>9, FrontComes
    <2> HIDE DEF rest
    <2> DEFINE w == stack'
    <2>2. w[current] = rest /\ \A t \in Tasks \ {current} : w[t] = stack[t]
        BY <1>2, <1>9
    <2> HIDE DEF w
    <2>3. Comes(stack, w, b)
        BY <2>1, <2>2, StacksCome
    <2> QED BY <1>6, <1>9, <2>3 DEF Moves, w
<1> QED BY <1>1, <1>8, <1>9

LEMMA FreeSecondMoves ==
    ASSUME RefInv, FreeSecond
    PROVE  Moves
<1> DEFINE s    == stack[current]
           lose == References(s[Len(s) - 1])
           r    == Append(Front(Front(s)), Last(s))
           b    == Counted(block, NoReference, lose)
           w    == stack'
<1>1. Len(s) > 1 /\ block' = b /\ w = [stack EXCEPT ![current] = r]
    BY DEF FreeSecond, Depth, Release
<1>2. /\ s \in Seq(AnyFrames) /\ s # <<>> /\ current \in Tasks /\ BlocksSound(block)
      /\ stack \in [Tasks -> Seq(AnyFrames)] /\ StorageInv /\ Len(s) \in Nat \ {0}
    BY RefFacts
<1>3. s[Len(s) - 1] \in AnyFrames
    <2>1. Len(s) - 1 \in 1..Len(s)
        BY <1>1, <1>2
    <2> QED BY <1>2, <2>1
<1>4. lose \in [Cells -> Nat] /\ NoReference \in [Cells -> Nat]
    BY <1>3, ReferencesTyped, NoReferenceIs
<1>5. Follows(block, b)
    BY <1>2, <1>4, CountedFollows
<1>6. /\ Front(s) \in Seq(AnyFrames) /\ Front(s) # <<>> /\ Last(s) \in AnyFrames
      /\ Last(s) = s[Len(s)]
    <2> DEFINE x == Front(s)
    <2>1. /\ x \in Seq(AnyFrames) /\ Len(x) = Len(s) - 1 /\ Last(s) \in AnyFrames
          /\ Last(s) = s[Len(s)]
        BY <1>2, SequenceParts
    <2> HIDE DEF x
    <2>2. x # <<>>
        BY <1>1, <1>2, <2>1
    <2> QED BY <2>1, <2>2 DEF x
<1>7. Front(Front(s)) \in Seq(AnyFrames)
    BY <1>6, SequenceParts
<1>8. Lower(stack, Front(Front(s)))
    BY <1>2, <1>6, FrontLower
<1>9. Carried(stack, Last(s))
    <2>1. Len(s) \in DOMAIN s /\ InUse(s, Len(s))
        BY <1>2 DEF InUse
    <2> QED BY <1>2, <1>6, <2>1 DEF Carried
<1>10. FromStacks(stack, r, b)
    BY <1>6, <1>7, <1>8, <1>9, OntoComes
<1> HIDE DEF b, r
<1>11. w[current] = r /\ \A t \in Tasks \ {current} : w[t] = stack[t]
    BY <1>1, <1>2
<1> HIDE DEF w
<1>12. Comes(stack, w, b)
    BY <1>10, <1>11, StacksCome
<1> QED BY <1>1, <1>5, <1>12 DEF Moves, w

LEMMA EndTaskMoves ==
    ASSUME RefInv, EndTask
    PROVE  Moves
<1> DEFINE spaces == SpacesReleased(block, current)
           lose   == AllReferences({current} \X DOMAIN stack[current])
           b      == Counted(spaces, NoReference, lose)
           w      == stack'
<1>1. block' = b /\ w = [stack EXCEPT ![current] = <<>>]
    BY DEF EndTask, Release
<1>2. /\ current \in Tasks /\ stack \in [Tasks -> Seq(AnyFrames)] /\ StorageInv
      /\ Stored(block, arena) /\ block \in [Cells -> Blocks]
    BY RefFacts
<1>3. lose \in [Cells -> Nat] /\ NoReference \in [Cells -> Nat]
    BY <1>2, TaskReferences, NoReferenceIs
<1>4. BlocksSound(spaces)
    BY <1>2, SpacesReleasedIs DEF Stored
<1>5. Follows(block, spaces)
    BY <1>2, SpacesFollow
<1> HIDE DEF spaces, lose
<1>6. Follows(spaces, b) /\ NoneMade(spaces, b)
    BY <1>3, <1>4, CountedFollows
<1> HIDE DEF b
<1>7. Follows(block, b)
    BY <1>5, <1>6, FollowingOn
<1>8. w[current] = <<>> /\ \A t \in Tasks \ {current} : w[t] = stack[t]
    BY <1>1, <1>2
<1>9. FromStacks(stack, <<>>, b)
    BY DEF FromStacks
<1> HIDE DEF w
<1>10. Comes(stack, w, b)
    BY <1>8, <1>9, StacksCome
<1> QED BY <1>1, <1>7, <1>10 DEF Moves, w

(* Nothing happens to the request blocks.                                  *)
LEMMA QuietMoves ==
    ASSUME NEW b, Follows(block, b), block' = b, stack' = stack
    PROVE  Moves
<1>1. Comes(stack, stack, b)
    BY DEF Comes, Carried
<1> QED BY <1>1 DEF Moves

LEMMA NewCellMoves ==
    ASSUME RefInv, NEW c \in Free, NEW r, block' = [block EXCEPT ![c] = r], stack' = stack
    PROVE  Moves
<1>1. block \in [Cells -> Blocks] /\ Stored(block, arena)
    BY RefFacts
<1>2. c \in Cells /\ block[c] = NoBlock
    BY <1>1, FreeIs
<1>3. Lasting(block[c], r)
    BY <1>2 DEF Lasting
<1> DEFINE n == [block EXCEPT ![c] = r]
<1>4. Follows(block, n) /\ block' = n
    BY <1>1, <1>2, <1>3, OneFollows
<1> HIDE DEF n
<1> QED BY <1>4, QuietMoves

LEMMA DetachTaskMoves ==
    ASSUME RefInv, NEW c \in held, DetachTask(c)
    PROVE  Moves
<1>1. /\ block' = Counted(block, NoReference, Reference(c)) /\ stack' = stack
    BY DEF DetachTask, Release
<1>2. BlocksSound(block) /\ NoReference \in [Cells -> Nat] /\ Reference(c) \in [Cells -> Nat]
    BY RefFacts, NoReferenceIs, ReferenceIs
<1>3. Follows(block, Counted(block, NoReference, Reference(c)))
    BY <1>2, CountedFollows
<1> QED BY <1>1, <1>3, QuietMoves

LEMMA DeleteWorkSpaceMoves ==
    ASSUME RefInv, NEW c \in Queued, DeleteWorkSpace(c)
    PROVE  Moves
<1> DEFINE r == IF block[c].use = 0 THEN NoBlock ELSE LetGo(block[c])
           n == [block EXCEPT ![c] = r]
<1>1. block' = n /\ stack' = stack
    BY DEF DeleteWorkSpace
<1>2. c \in Cells
    BY DEF Queued
<1>3. block \in [Cells -> Blocks] /\ block[c] \in Blocks
    BY <1>2, RefFacts
<1>4. r = NoBlock \/ r = LetGo(block[c])
    OBVIOUS
<1> HIDE DEF r
<1>5. Lasting(block[c], r)
    <2>1. CASE r = NoBlock
        BY <2>1, LastingStays
    <2>2. CASE r = LetGo(block[c])
        <3>1. /\ r.kind = block[c].kind /\ r.module = block[c].module /\ r.at = block[c].at
              /\ r.pages = block[c].pages /\ r.mapped = block[c].mapped /\ r.tail = block[c].tail
              /\ r.astray = block[c].astray
            BY <1>3, <2>2, LetGoIs
        <3> QED BY <3>1 DEF Lasting
    <2> QED BY <1>4, <2>1, <2>2
<1>6. Follows(block, n)
    BY <1>2, <1>3, <1>5, OneFollows
<1> HIDE DEF n
<1> QED BY <1>1, <1>6, QuietMoves

LEMMA AssignAreaMoves ==
    ASSUME RefInv, NEW c \in Queued \cup held, AssignArea(c)
    PROVE  Moves
<1> DEFINE r == Addressable(block[c])
           b == [block EXCEPT ![c] = r]
           s == stack[current]
<1>1. Rebuild(b, arena, s)
    BY DEF AssignArea
<1>2. c \in Cells /\ block[c].kind # "none"
    BY RefFacts DEF AssignArea, Raisable, Queued
<1>3. /\ Stored(block, arena) /\ block[c] \in Blocks /\ ExtentSound(block[c]) /\ ArenaSound(arena)
      /\ block \in [Cells -> Blocks] /\ StorageInv
      /\ s \in Seq(AnyFrames) /\ s # <<>> /\ current \in Tasks
    BY <1>2, RefFacts DEF Stored, BlocksSound
<1>4. /\ r \in Blocks /\ r.kind = block[c].kind /\ r.module = block[c].module
      /\ r.at = block[c].at /\ r.pages = block[c].pages /\ r.tail = block[c].tail
      /\ block[c].mapped => r.mapped
      /\ block[c].astray => r.astray
    BY <1>3, AddressableIs
<1> HIDE DEF r
<1>5. ExtentSound(r) /\ Occupied(r) = Occupied(block[c]) /\ r.kind # "none"
    BY <1>2, <1>3, <1>4 DEF ExtentSound, Occupied
<1>6. Occupied(block[c]) \subseteq Assigned(arena)
    BY <1>2, <1>3 DEF Stored, Apart
<1>7. /\ Assigned(arena) = (Assigned(arena) \ Occupied(block[c])) \cup Occupied(r)
      /\ Occupied(r) \cap (Assigned(arena) \ Occupied(block[c])) = {}
    BY <1>5, <1>6
<1>8. Stored(b, arena)
    BY <1>2, <1>3, <1>4, <1>5, <1>7, Replacing
<1>9. Follows(block, b)
    <2>1. Lasting(block[c], r)
        BY <1>4 DEF Lasting
    <2> QED BY <1>2, <1>3, <2>1, OneFollows
<1>10. Lower(stack, Front(s))
    BY <1>3, FrontLower
<1> HIDE DEF b, s
<1> QED BY <1>1, <1>3, <1>8, <1>9, <1>10, RebuildMoves

LEMMA RemapMoves ==
    ASSUME RefInv, NEW w \in Windows, NEW entries \in Seq(AnyEntries),
           NEW gain \in [Cells -> Nat], Remap(w, entries, gain)
    PROVE  Moves
<1> DEFINE f == Top(current)
           left == {j \in DOMAIN f.map : f.map[j].window = w}
           lose == [c \in Cells |-> Cardinality({j \in left : f.map[j].cell = c})]
           gone == Deleted(block, gain, lose)
           map  == Without(f.map, w) \o entries
           next == WithMap(f, map)
           b    == Counted(block, gain, lose)
           a    == ReturnPages(arena, Vacated(block, gone))
           s    == Append(Front(stack[current]), next)
<1>1. Len(next.map) <= MaxEntries /\ Rebuild(b, a, s)
    BY DEF Remap
<1>2. /\ current \in Tasks /\ stack[current] # <<>> /\ f \in AnyFrames
      /\ Stored(block, arena) /\ BlocksSound(block) /\ StorageInv
      /\ stack[current] \in Seq(AnyFrames)
    BY RefFacts
<1>3. f.map \in Seq(AnyEntries)
    BY <1>2, FrameParts
<1>4. lose \in [Cells -> Nat]
    <2>1. ASSUME NEW c \in Cells PROVE Cardinality({j \in left : f.map[j].cell = c}) \in Nat
        <3>1. {j \in left : f.map[j].cell = c} \subseteq 1..Len(f.map)
            BY <1>3
        <3>2. IsFiniteSet(1..Len(f.map))
            <4>1. 1 \in Int /\ Len(f.map) \in Int
                BY <1>3
            <4> QED BY <4>1, FS_Interval
        <3> QED BY <3>1, <3>2, FS_Subset, FS_CardinalityType
    <2> QED BY <2>1
<1> HIDE DEF f, left, lose
<1>5. map \in Seq(AnyEntries)
    <2>1. Without(f.map, w) \in Seq(AnyEntries)
        BY <1>3, WithoutTyped
    <2> QED BY <2>1
<1> HIDE DEF map
<1>6. next.map = map
    BY DEF WithMap, AnyFrames
<1>7. next \in AnyFrames
    BY <1>1, <1>2, <1>5, <1>6, WithMapIs
<1> HIDE DEF next
<1>8. Stored(b, a) /\ Follows(block, b)
    BY <1>2, <1>4, Counting, CountedFollows
<1>9. Front(stack[current]) \in Seq(AnyFrames) /\ Lower(stack, Front(stack[current]))
    BY <1>2, FrontLower
<1> DEFINE x == Front(stack[current])
<1> HIDE DEF b, a, gone
<1>10. s \in Seq(AnyFrames) /\ s # <<>> /\ Front(s) = x
    <2>1. x \in Seq(AnyFrames) /\ s = Append(x, next)
        BY <1>9
    <2> HIDE DEF x
    <2>2. /\ s \in Seq(AnyFrames) /\ s # <<>> /\ Len(s) = Len(x) + 1 /\ Len(x) \in Nat
          /\ \A i \in 1..Len(x) : s[i] = x[i]
        BY <1>7, <2>1, Appending
    <2> DEFINE y == Front(s)
    <2> HIDE DEF s
    <2>3. /\ y \in Seq(AnyFrames) /\ Len(y) = Len(s) - 1
          /\ \A i \in 1..(Len(s) - 1) : y[i] = s[i]
        BY <2>2, SequenceParts
    <2> HIDE DEF y
    <2>4. Len(y) = Len(x) /\ \A i \in 1..Len(x) : y[i] = x[i]
        BY <2>2, <2>3
    <2>5. y = x
        BY <2>1, <2>3, <2>4
    <2> QED BY <2>2, <2>5 DEF y
<1> HIDE DEF s
<1>11. Lower(stack, Front(s))
    BY <1>9, <1>10
<1> QED BY <1>1, <1>2, <1>8, <1>10, <1>11, RebuildMoves

LEMMA MapMoves ==
    ASSUME ByteSuffices, RefInv, NEW w \in Windows, NEW c \in Mappable, Map(w, c)
    PROVE  Moves
<1>1. Remap(w, Placed(<<>>, w, c), Reference(c)) /\ Top(current).program # Nucleus
    BY DEF Map, Remap
<1>2. c \in Cells
    BY <1>1, MappableThere
<1>3. Placed(<<>>, w, c) \in Seq(AnyEntries)
    <2>1. <<>> \in Seq(AnyEntries)
        OBVIOUS
    <2> QED BY <1>2, <2>1, PlacedTyped
<1> QED BY <1>1, <1>3, ReferenceIs, RemapMoves

LEMMA UnmapMoves ==
    ASSUME RefInv, NEW w \in Windows, Unmap(w)
    PROVE  Moves
<1>1. Remap(w, <<>>, NoReference) /\ <<>> \in Seq(AnyEntries)
    BY DEF Unmap
<1> QED BY <1>1, NoReferenceIs, RemapMoves

LEMMA TakeTurnMoves ==
    ASSUME NEW t \in Tasks, TakeTurn(t)
    PROVE  Moves
BY FollowsSelf, QuietMoves DEF TakeTurn

LEMMA TransferMoves ==
    ASSUME RefInv, NEW way \in Callees, NEW u \in Tasks, NEW discard \in BOOLEAN,
           NEW header \in Headers, NEW ending \in BOOLEAN,
           Transfer(way, u, discard, header, ending)
    PROVE  Moves
<1> DEFINE frame  == NewFrame(way, header)
           below  == Below(u, discard)
           lost   == Lost(discard)
           a      == IF ending THEN ReturnPages(way.arena, Vacated(block, Unused(block, current)))
                               ELSE way.arena
           b      == IF ending THEN SpacesReleased(way.block, current) ELSE way.block
           gained == Counted(b, References(frame), NoReference)
           loaded == Loaded(gained, a, frame)
           last   == Counted(loaded, NoReference, lost)
           built  == Built(loaded, frame)
           w      == stack'
<1>1. /\ u # current => ~discard
      /\ Len(NewMap(way, header)) <= MaxEntries
      /\ block' = last
      /\ w = [stack EXCEPT ![u] = Append(below, built)]
    BY Zenon DEF Transfer, Attachable, NewFrame, NewMap, Below, Lost
<1>2. /\ stack \in [Tasks -> Seq(AnyFrames)] /\ StorageInv /\ Stored(block, arena)
      /\ current \in Tasks /\ stack[current] # <<>> /\ block \in [Cells -> Blocks]
      /\ Top(current) \in AnyFrames /\ BlocksSound(block)
    BY RefFacts
<1>3. Way(way)
    BY <1>2, CalleesAre
<1>4. frame \in AnyFrames
    BY <1>1, <1>2, <1>3, FrameRefers
<1>5. lost \in [Cells -> Nat] /\ NoReference \in [Cells -> Nat] /\ References(frame) \in [Cells -> Nat]
    BY <1>2, <1>4, ReferencesTyped, NoReferenceIs DEF Lost
<1>6. Stored(b, a)
    BY <1>2, <1>3, EndingIs
<1>7. Follows(block, way.block)
    <2> SUFFICES ASSUME NEW c \in Cells PROVE Lasting(block[c], way.block[c])
        BY DEF Follows
    <2>1. CASE way.block[c] = block[c]
        BY <2>1, LastingStays
    <2>2. CASE way.block[c] # block[c]
        <3>1. block[c] = NoBlock
            BY <1>3, <2>2 DEF Way
        <3> QED BY <3>1 DEF Lasting
    <2> QED BY <2>1, <2>2
<1>8. Follows(way.block, b) /\ NoneMade(way.block, b)
    <2>1. CASE ~ending
        BY <2>1, FollowsSelf DEF NoneMade
    <2>2. CASE ending
        <3>1. way.block \in [Cells -> Blocks]
            BY <1>3 DEF Way, Stored, BlocksSound
        <3> QED BY <2>2, <3>1, SpacesFollow
    <2> QED BY <2>1, <2>2
<1> HIDE DEF frame, a, b, lost
<1>9. Follows(b, gained) /\ NoneMade(b, gained)
    BY <1>5, <1>6, CountedFollows DEF Stored
<1>10. Stored(gained, a)
    BY <1>5, <1>6, Gaining
<1> HIDE DEF gained
<1>11. /\ Follows(gained, loaded) /\ NoneMade(gained, loaded)
       /\ Stored(loaded, ArenaLoaded(gained, a, frame))
    BY <1>4, <1>10, LoadedFollows, LoadedIs
<1> HIDE DEF loaded
<1>12. BlocksSound(loaded) /\ loaded \in [Cells -> Blocks]
    BY <1>11 DEF Stored, BlocksSound
<1>13. Follows(loaded, last) /\ NoneMade(loaded, last)
    BY <1>5, <1>12, CountedFollows
<1> HIDE DEF last
<1>14. Follows(block, last)
    <2>1. Follows(block, b)
        BY <1>7, <1>8, FollowingOn
    <2>2. Follows(block, gained)
        BY <2>1, <1>9, FollowingOn
    <2>3. Follows(block, loaded)
        BY <2>2, <1>11, FollowingOn
    <2> QED BY <2>3, <1>13, FollowingOn
<1>15. built \in AnyFrames
    BY <1>4, <1>12, BuiltTyped
<1>16. Made(last, built)
    BY <1>4, <1>12, <1>13 DEF Made
<1> HIDE DEF built
<1>17. below \in Seq(AnyFrames) /\ Lower(stack, below)
    <2>1. CASE discard
        <3>1. u = current
            BY <1>1, <2>1
        <3> QED BY <1>2, <2>1, <3>1, FrontLower DEF Below
    <2>2. CASE ~discard
        <3>1. stack[u] \in Seq(AnyFrames)
            BY <1>2
        <3>2. Len(stack[u]) <= Len(stack[u]) /\ \A i \in 1..Len(stack[u]) : stack[u][i] = stack[u][i]
            BY <3>1
        <3>3. Lower(stack, stack[u])
            BY <1>2, <3>1, <3>2, LowerIs
        <3> QED BY <2>2, <3>1, <3>3 DEF Below
    <2> QED BY <2>1, <2>2
<1> HIDE DEF below
<1> DEFINE r == Append(below, built)
<1>18. FromStacks(stack, r, last)
    BY <1>15, <1>16, <1>17, OntoComes
<1> HIDE DEF r
<1>19. w[u] = r /\ \A t \in Tasks \ {u} : w[t] = stack[t]
    BY <1>1, <1>2 DEF r
<1> HIDE DEF w
<1>20. Comes(stack, w, last)
    BY <1>18, <1>19, StacksCome
<1> QED BY <1>1, <1>14, <1>20 DEF Moves, w

(* The images that follow a region's first page: no page of another block  *)
(* moves with it, and who has its second knows that it is astray.          *)
LEMMA RebasedShows ==
    ASSUME NEW b, NEW a, Stored(b, a), NEW n, NEW m,
           NEW f \in AnyFrames, NEW g \in AnyFrames,
           NEW c \in Cells, NEW at \in Pages,
           g.program = f.program, g.map = f.map,
           g.image = {IF x[3] = b[c].at THEN <<x[1], x[2], at>> ELSE x : x \in f.image},
           ShowsIn(b, f), \A x \in f.image : x[1] = c /\ x[2] = 1 => n[c].astray,
           b[c].pages = 1, n[c].pages = 2, n[c].at = at,
           n[c].kind = b[c].kind, n[c].mapped = b[c].mapped, n[c].tail = b[c].tail,
           \A d \in Cells \ {c} : n[d] = b[d],
           Follows(n, m), AllThere(m, g)
    PROVE  ShowsIn(m, g)
<1> SUFFICES ASSUME NEW y \in g.image PROVE y \in Admitted(m, y[1]) /\ ReferencesTo(g, y[1]) # {}
    BY DEF ShowsIn
<1>1. PICK x \in f.image : y = IF x[3] = b[c].at THEN <<x[1], x[2], at>> ELSE x
    OBVIOUS
<1>2. x[1] \in Cells /\ x \in Admitted(b, x[1]) /\ ReferencesTo(f, x[1]) # {}
    BY FrameParts DEF ShowsIn
<1>3. x \in {x[1]} \X {0, 1} \X Pages /\ (Home(b[x[1]], x) \/ (x[2] = 1 /\ b[x[1]].astray))
    BY <1>2, AdmittedIs
<1>4. y[1] = x[1] /\ y[2] = x[2] /\ y \in {x[1]} \X {0, 1} \X Pages
    BY <1>1, <1>3
<1>5. ReferencesTo(g, x[1]) = ReferencesTo(f, x[1])
    BY DEF ReferencesTo, Named
<1>6. m[x[1]].kind # "none"
    BY <1>2, <1>5, RefersIs DEF AllThere
<1>7. Admitted(n, x[1]) \subseteq Admitted(m, x[1])
    BY <1>2, <1>6, LastingShows DEF Follows
<1>8. y \in Admitted(n, x[1])
    <2>1. CASE x[2] = 1 /\ n[x[1]].astray
        BY <2>1, <1>4, AdmittedIs
    <2>2. CASE x[1] = c /\ ~(x[2] = 1 /\ n[x[1]].astray)
        <3>1. x[2] = 0
            BY <2>2, <1>3
        <3>2. Home(n[c], y)
            <4>1. CASE x[3] = b[c].at
                <5>1. y[2] = 0 /\ y[3] = at
                    BY <3>1, <4>1, <1>1
                <5>2. y[2] < n[c].pages /\ y[3] = n[c].at + y[2]
                    BY <5>1 DEF Pages
                <5> QED BY <5>2 DEF Home
            <4>2. CASE x[3] # b[c].at
                <5>1. y = x
                    BY <4>2, <1>1
                <5>2. b[c].at \in Nat
                    BY DEF Stored, BlocksSound, Blocks
                <5>3. b[c].kind = "space" /\ b[c].mapped /\ x[3] = b[c].tail
                    BY <2>2, <3>1, <4>2, <5>2, <1>3 DEF Home
                <5> QED BY <3>1, <5>1, <5>3 DEF Home
            <4> QED BY <4>1, <4>2
        <3> QED BY <2>2, <3>2, <1>4, AdmittedIs
    <2>3. CASE x[1] # c /\ ~(x[2] = 1 /\ n[x[1]].astray)
        <3>1. n[x[1]] = b[x[1]]
            BY <2>3, <1>2
        <3>2. Home(b[x[1]], x)
            BY <2>3, <3>1, <1>3
        <3>3. x[3] \in Occupied(b[x[1]])
            <4>1. b[x[1]].pages \in 0..2 /\ b[x[1]].at \in 0..LastPage /\ x[2] \in 0..1 /\ x[3] \in Pages
                BY <1>2, <1>3 DEF Stored, BlocksSound, Blocks
            <4> QED BY <3>2, <4>1, LastPageAssumption DEF Home, Occupied, PageRange, Pages
        <3>4. b[c].at \in Occupied(b[c])
            <4>1. b[c].at \in Pages
                BY DEF Stored, BlocksSound, ExtentSound
            <4> QED BY <4>1, LastPageAssumption DEF Occupied, PageRange, Pages
        <3>5. x[3] # b[c].at
            BY <2>3, <3>3, <3>4, <1>2 DEF Stored, Apart
        <3>6. y = x
            BY <3>5, <1>1
        <3> QED BY <1>2, <3>1, <3>6 DEF Admitted, PagesOf
    <2> QED BY <2>1, <2>2, <2>3
<1> QED BY <1>2, <1>4, <1>5, <1>7, <1>8

(* A region grows.  The frames that are not built again follow its page;   *)
(* if one of them has the page beyond it, the region is astray.            *)
LEMMA GrowShows ==
    ASSUME ByteSuffices, RefInv, PagesInOnePlace,
           NEW c \in Cells, NEW outerStale \in BOOLEAN, Grow(c, outerStale),
           Counts(block', stack', held')
    PROVE  Showing(block', stack')
<1> DEFINE at     == GrownAt(arena, block[c].at, 1, 2)
           marks(t, i) == outerStale /\ t = current /\ i < Depth(t)
           moved(t, i) == Marked(Rebased(stack[t][i], block[c].at, at), marks(t, i))
           stacks == [t \in Tasks |-> [i \in DOMAIN stack[t] |-> moved(t, i)]]
           elsewhere == ShownElsewhere(stacks, c)
           bigger == [block EXCEPT ![c] = Enlarged(block[c], at, elsewhere)]
           a      == Grown(arena, block[c].at, 1, 2)
           top    == Last(stacks[current])
           loaded == Loaded(bigger, a, top)
           built  == Built(loaded, top)
           s      == Append(Front(stacks[current]), built)
           w      == stack'
<1>1. /\ block[c].module = Region /\ block[c].pages = 1 /\ CanGrow(arena, block[c].at, 1, 2)
      /\ block' = loaded /\ w = [stacks EXCEPT ![current] = s]
    BY DEF Grow
<1>2. /\ current \in Tasks /\ stack[current] # <<>> /\ stack \in [Tasks -> Seq(AnyFrames)]
      /\ block \in [Cells -> Blocks] /\ StorageInv /\ Len(stack[current]) \in Nat \ {0}
    BY RefFacts
<1>0. elsewhere \in BOOLEAN
    BY DEF ShownElsewhere
<1> HIDE DEF elsewhere
<1>3. at \in Pages /\ Stored(bigger, a)
    BY <1>0, <1>1, <1>2, EnlargingIs
<1>4. at \in 0..LastPage
    BY <1>3, LastPageAssumption DEF Pages
<1> HIDE DEF at
<1>5. /\ bigger[c].pages = 2 /\ bigger[c].at = at /\ bigger[c].astray = elsewhere
      /\ bigger[c].kind = block[c].kind /\ bigger[c].mapped = block[c].mapped
      /\ bigger[c].tail = block[c].tail
      /\ \A d \in Cells \ {c} : bigger[d] = block[d]
    BY <1>0, <1>2, <1>4, EnlargedIs
<1> HIDE DEF bigger, a
<1>6. ASSUME NEW t \in Tasks, NEW i \in DOMAIN stack[t]
      PROVE  /\ moved(t, i) \in AnyFrames /\ moved(t, i).program = stack[t][i].program
             /\ moved(t, i).map = stack[t][i].map
             /\ moved(t, i).stale = (stack[t][i].stale \/ marks(t, i))
             /\ moved(t, i).image =
                   {IF x[3] = block[c].at THEN <<x[1], x[2], at>> ELSE x : x \in stack[t][i].image}
    <2>1. stack[t][i] \in AnyFrames
        BY <1>2
    <2> DEFINE f == stack[t][i]
               g == Rebased(f, block[c].at, at)
               m == marks(t, i)
    <2> HIDE DEF f
    <2>2. /\ g \in AnyFrames /\ g.program = f.program /\ g.map = f.map /\ g.stale = f.stale
          /\ g.image = {IF x[3] = block[c].at THEN <<x[1], x[2], at>> ELSE x : x \in f.image}
        BY <1>3, <2>1, RebasedTyped DEF f
    <2>3. m \in BOOLEAN
        OBVIOUS
    <2> HIDE DEF g, m
    <2>4. /\ Marked(g, m) \in AnyFrames /\ Marked(g, m).program = g.program
          /\ Marked(g, m).map = g.map /\ Marked(g, m).stale = (g.stale \/ m)
          /\ Marked(g, m).image = g.image
        BY <2>2, <2>3, MarkedTyped
    <2>5. moved(t, i) = Marked(g, m)
        BY DEF f, g, m
    <2> HIDE DEF moved, marks
    <2> QED BY <2>2, <2>4, <2>5 DEF f, m
<1> HIDE DEF moved
<1>7. ASSUME NEW t \in Tasks
      PROVE  /\ stacks[t] \in Seq(AnyFrames) /\ Len(stacks[t]) = Len(stack[t])
             /\ \A i \in 1..Len(stack[t]) : stacks[t][i] = moved(t, i)
             /\ Len(stack[t]) \in Nat /\ DOMAIN stack[t] = 1..Len(stack[t])
    <2> DEFINE n == Len(stack[t])
               l == [i \in 1..n |-> moved(t, i)]
    <2>1. n \in Nat /\ DOMAIN stack[t] = 1..n /\ stack[t] \in Seq(AnyFrames)
        BY <1>2
    <2>2. \A i \in 1..n : moved(t, i) \in AnyFrames
        BY <1>6, <2>1
    <2>3. stacks[t] = l
        BY <2>1
    <2> HIDE DEF n, stacks
    <2>4. l \in Seq(AnyFrames) /\ Len(l) = n
        BY <2>1, <2>2
    <2>5. \A i \in 1..n : l[i] = moved(t, i)
        OBVIOUS
    <2> HIDE DEF l
    <2> QED BY <2>1, <2>3, <2>4, <2>5 DEF n
<1>8. stacks \in [Tasks -> Seq(AnyFrames)]
    BY <1>7
<1> HIDE DEF stacks
<1>9. stacks[current] \in Seq(AnyFrames) /\ stacks[current] # <<>>
    BY <1>2, <1>7
<1>10. /\ top \in AnyFrames /\ Front(stacks[current]) \in Seq(AnyFrames)
       /\ Len(Front(stacks[current])) = Len(stacks[current]) - 1
       /\ \A i \in 1..(Len(stacks[current]) - 1) : Front(stacks[current])[i] = stacks[current][i]
    BY <1>9, SequenceParts
<1> HIDE DEF top
<1>11. Follows(bigger, loaded) /\ loaded \in [Cells -> Blocks]
    BY <1>3, <1>10, LoadedFollows, LoadedIs DEF Stored, BlocksSound
<1> HIDE DEF loaded
<1>12. built \in AnyFrames /\ ShowsIn(loaded, built)
    BY <1>10, <1>11, BuiltShows
<1> HIDE DEF built
<1>13. /\ s \in Seq(AnyFrames) /\ Len(s) = Len(stack[current]) /\ s[Len(stack[current])] = built
       /\ \A i \in 1..(Len(stack[current]) - 1) : s[i] = stacks[current][i]
    <2>1. /\ s \in Seq(AnyFrames) /\ Len(s) = Len(Front(stacks[current])) + 1
          /\ s[Len(Front(stacks[current])) + 1] = built
          /\ \A i \in 1..Len(Front(stacks[current])) : s[i] = Front(stacks[current])[i]
        BY <1>10, <1>12, Appending
    <2>2. Len(stacks[current]) = Len(stack[current])
        BY <1>2, <1>7
    <2> HIDE DEF s
    <2> QED BY <1>2, <1>10, <2>1, <2>2
<1> HIDE DEF s
<1>14. /\ w[current] = s /\ \A t \in Tasks \ {current} : w[t] = stacks[t]
    BY <1>1, <1>2, <1>8, <1>13
<1>15. Counts(loaded, w, held')
    BY <1>1
<1> HIDE DEF w
(* A frame that is not built was in use; had it the second page, the       *)
(* region is astray.                                                       *)
<1>16. ASSUME NEW t \in Tasks, NEW i \in DOMAIN stack[t], t # current \/ i # Len(stack[t]),
              InUse(w[t], i), w[t][i] = moved(t, i), Len(w[t]) = Len(stack[t]),
              AllThere(loaded, moved(t, i))
       PROVE  ShowsIn(loaded, moved(t, i))
    <2> DEFINE f == stack[t][i]
    <2>1. f \in AnyFrames
        BY <1>2
    <2>2. i \in 1..Len(stack[t]) /\ Len(stack[t]) \in Nat
        BY <1>7
    <2>4. InUse(stack[t], i)
        <3>1. CASE i = Len(stack[t])
            BY <3>1 DEF InUse
        <3>2. CASE i # Len(stack[t])
            <4>1. ~w[t][i].stale
                BY <1>16, <3>2 DEF InUse
            <4>2. ~f.stale
                <5> HIDE DEF marks
                <5> QED BY <4>1, <1>6, <1>16
            <4> QED BY <4>2 DEF InUse
        <3> QED BY <3>1, <3>2
    <2>5. stacks[t][i] = moved(t, i) /\ DOMAIN stacks[t] = 1..Len(stack[t])
          /\ Len(stacks[t]) = Len(stack[t])
        BY <1>7, <2>2
    <2>6. \A x \in f.image : x[1] = c /\ x[2] = 1 => bigger[c].astray
        <3> SUFFICES ASSUME NEW x \in f.image, x[1] = c, x[2] = 1 PROVE elsewhere
            BY <1>5
        <3> DEFINE y == IF x[3] = block[c].at THEN <<x[1], x[2], at>> ELSE x
        <3>1. y[1] = c /\ y[2] = 1
            OBVIOUS
        <3>2. y \in moved(t, i).image
            BY <1>6
        <3> HIDE DEF y, f, marks
        <3>3. IF t = current THEN i # Len(stacks[t]) /\ ~stacks[t][i].stale
              ELSE i = Len(stacks[t]) \/ ~stacks[t][i].stale
            BY <1>16, <2>5 DEF InUse
        <3>4. i \in DOMAIN stacks[t]
            BY <2>2, <2>5
        <3> QED BY <2>5, <3>1, <3>2, <3>3, <3>4 DEF elsewhere, ShownElsewhere
    <2>7. ShowsIn(block, f)
        BY <2>4, ShowingIs DEF Showing
    <2>8. /\ moved(t, i) \in AnyFrames /\ moved(t, i).program = f.program
          /\ moved(t, i).map = f.map
          /\ moved(t, i).image = {IF x[3] = block[c].at THEN <<x[1], x[2], at>> ELSE x : x \in f.image}
        BY <1>6
    <2> HIDE DEF f, marks
    <2>9. Stored(block, arena)
        BY RefFacts
    <2> QED BY <1>1, <1>3, <1>5, <1>11, <1>16, <2>1, <2>6, <2>7, <2>8, <2>9, RebasedShows
<1>17. ASSUME NEW t \in Tasks, NEW i \in DOMAIN w[t], InUse(w[t], i)
       PROVE  ShowsIn(loaded, w[t][i])
    <2>1. AllThere(loaded, w[t][i])
        BY <1>15, ThereIs
    <2>2. Len(w[t]) = Len(stack[t]) /\ DOMAIN w[t] = 1..Len(stack[t])
        <3>1. CASE t = current
            BY <3>1, <1>13, <1>14
        <3>2. CASE t # current
            <4>1. w[t] = stacks[t] /\ stacks[t] \in Seq(AnyFrames) /\ Len(stacks[t]) = Len(stack[t])
                BY <3>2, <1>7, <1>14
            <4> QED BY <4>1
        <3> QED BY <3>1, <3>2
    <2>3. i \in DOMAIN stack[t] /\ i \in 1..Len(stack[t]) /\ Len(stack[t]) \in Nat
        BY <1>7, <2>2
    <2>4. CASE t = current /\ i = Len(stack[t])
        BY <2>4, <1>12, <1>13, <1>14
    <2>5. CASE ~(t = current /\ i = Len(stack[t]))
        <3>1. w[t][i] = moved(t, i)
            <4>1. CASE t = current
                <5>1. i \in 1..(Len(stack[current]) - 1)
                    BY <2>3, <2>5, <4>1
                <5> QED BY <4>1, <5>1, <1>2, <1>7, <1>13, <1>14, <2>3
            <4>2. CASE t # current
                BY <4>2, <1>7, <1>14, <2>3
            <4> QED BY <4>1, <4>2
        <3> QED BY <1>16, <1>17, <2>1, <2>2, <2>3, <2>5, <3>1
    <2> QED BY <2>4, <2>5
<1>18. Showing(loaded, w)
    BY <1>17 DEF Showing
<1> QED BY <1>1, <1>18 DEF w

LEMMA GetPageShows ==
    ASSUME ByteSuffices, RefInv, PagesInOnePlace, GetPage,
           Counts(block', stack', held')
    PROVE  Showing(block', stack')
<1> DEFINE p == Top(current).program
<1>1. p # Nucleus /\ Grow(p, FALSE)
    BY DEF GetPage
<1>2. p \in Cells
    BY <1>1, RefFacts, FrameParts
<1> HIDE DEF p
<1>3. FALSE \in BOOLEAN
    OBVIOUS
<1> QED BY <1>1, <1>2, <1>3, GrowShows

(* Whatever the step, the translation files show where the blocks are.     *)
LEMMA EachShows ==
    ASSUME ~Misplaced, ByteSuffices, RefInv, PagesInOnePlace, Next,
           Counts(block', stack', held')
    PROVE  Showing(block', stack')
<1>0. /\ held \in SUBSET Cells
    BY RefFacts
<1>1. ASSUME Moves PROVE Showing(block', stack')
    BY <1>1, ShowingIs, Moving DEF Moves
<1>2. CASE \E way \in Callees, u \in Tasks, discard, ending \in BOOLEAN, header \in Headers :
              Transfer(way, u, discard, header, ending)
    BY <1>1, <1>2, TransferMoves
<1>3. CASE Exit
    BY <1>1, <1>3, ExitMoves
<1>4. CASE FreeSecond
    BY <1>1, <1>4, FreeSecondMoves
<1>5. CASE EndTask
    BY <1>1, <1>5, EndTaskMoves
<1>6. CASE \E w \in Windows, c \in Mappable : Map(w, c) \/ MapBelow(w, c)
    BY <1>1, <1>6, MapMoves DEF MapBelow
<1>7. CASE \E w \in Windows : Unmap(w)
    BY <1>1, <1>7, UnmapMoves
<1>8. CASE \E c \in Free : AttachTask(c)
    BY <1>1, <1>8, NewCellMoves DEF AttachTask
<1>9. CASE \E c \in held : DetachTask(c)
    BY <1>1, <1>9, DetachTaskMoves
<1>10. CASE \E c \in Free, form \in SpaceForms : CreateWorkSpace(c, form)
    BY <1>1, <1>10, NewCellMoves DEF CreateWorkSpace
<1>11. CASE \E c \in Queued : DeleteWorkSpace(c)
    BY <1>1, <1>11, DeleteWorkSpaceMoves
<1>a. CASE \E c \in Queued \cup held : AssignArea(c)
    BY <1>1, <1>a, AssignAreaMoves
<1>12. CASE \E c \in held : GrowRegion(c)
    <2>1. PICK c \in held : Grow(c, TRUE)
        BY <1>12 DEF GrowRegion
    <2>2. c \in Cells /\ TRUE \in BOOLEAN
        BY <1>0
    <2> QED BY <2>1, <2>2, GrowShows
<1>13. CASE GetPage
    BY <1>13, GetPageShows
<1>14. CASE \E t \in Tasks : TakeTurn(t)
    BY <1>1, <1>14, TakeTurnMoves
<1> QED BY <1>2, <1>3, <1>4, <1>5, <1>6, <1>7, <1>8, <1>9, <1>10, <1>11, <1>12, <1>13, <1>14,
           <1>a DEF Next

(* A request block's translation file, unless it is to be built before it  *)
(* is used, shows the blocks that the request block refers to where they   *)
(* are, but for the second page of a region that was published past its    *)
(* extent or grew while somebody else had the page: under the conditions   *)
(* of ReferencesAreRightHolds.                                             *)
THEOREM PagesInOnePlaceHolds ==
    ~Misplaced /\ ByteSuffices => (Spec => []PagesInOnePlace)
<1> DEFINE H == ~Misplaced /\ ByteSuffices
           IInv == RefInv /\ PagesInOnePlace
<1>1. ASSUME H, IInv, [Next]_vars PROVE IInv'
    <2>1. StorageInv'
        BY <1>1, EachStep DEF RefInv
    <2>2. CASE Next
        <3>1. RefNext
            BY <1>1, <2>2, EachRefs
        <3>2. RefInv'
            BY <2>1, <3>1 DEF RefInv, RefNext
        <3>3. Counts(block', stack', held')
            BY <2>1, <3>1 DEF StorageInv, Stored, RefNext, Sound, Counts
        <3>4. Showing(block', stack')
            BY <1>1, <2>2, <3>3, EachShows
        <3>5. PagesInOnePlace'
            BY <3>4 DEF PagesInOnePlace, Showing, InUse, ShowsIn, Depth
        <3> QED BY <3>2, <3>5
    <2>3. CASE vars' = vars
        <3>1. block' = block /\ stack' = stack /\ held' = held
            BY <2>3 DEF vars
        <3>2. RefInv'
            BY <1>1, <2>1, <3>1 DEF RefInv
        <3>3. PagesInOnePlace'
            BY <1>1, <3>1 DEF PagesInOnePlace, Depth
        <3> QED BY <3>2, <3>3
    <2> QED BY <1>1, <2>2, <2>3
<1>2. ASSUME Init PROVE IInv
    <2>1. RefInv
        BY <1>2, InitRefs
    <2>2. ASSUME NEW t \in Tasks, NEW i \in DOMAIN stack[t] PROVE stack[t][i].image = {}
        <3> DEFINE root == [program |-> Nucleus, map |-> <<>>, image |-> {}, stale |-> FALSE]
        <3>1. stack[t] = IF t = IplTask THEN <<root>> ELSE <<>>
            BY <1>2 DEF Init
        <3>2. root.image = {}
            OBVIOUS
        <3> HIDE DEF root
        <3>3. stack[t] = <<root>> /\ i = 1
            BY <3>1
        <3> QED BY <3>2, <3>3
    <2> QED BY <2>1, <2>2 DEF PagesInOnePlace
<1>3. CASE H
    <2>1. IInv /\ [Next]_vars => IInv'
        BY <1>1, <1>3
    <2>2. Init => IInv
        BY <1>2
    <2>3. IInv => PagesInOnePlace
        OBVIOUS
    <2> HIDE DEF IInv
    <2> QED BY <2>1, <2>2, <2>3, PTL DEF Spec
<1> QED BY <1>3
=============================================================================
