------------------------- MODULE SystemQueueProofs -------------------------
(***************************************************************************)
(* Proofs about the system queue space and its clients.                    *)
(*                                                                         *)
(* Of the buddy allocator, for any geometry: its free lists and the        *)
(* extents it has assigned are one division of its storage (HeapInv),      *)
(* whatever is assigned, freed in part, merged, extended, saved and        *)
(* loaded.  From this it passes its own checkInvariants, accepts every     *)
(* free of what a client holds, and implements the abstract area pool.     *)
(* The loops of the code are recursive functions of the model: each is     *)
(* shown to have a value, by recursion on what it counts, and then what    *)
(* that value is.                                                          *)
(*                                                                         *)
(* Of the abstract pool: it never gives two clients a common unit.         *)
(*                                                                         *)
(* Of action control elements: what the host keeps of an element beside    *)
(* the guest's storage is of the element that lives there now; its storage *)
(* is nobody else's; and until a load none is left assigned that nobody    *)
(* holds.                                                                  *)
(***************************************************************************)
EXTENDS ActionControlElements, WellFoundedInduction, FiniteSetTheorems, TLAPS

CONSTANT Assignable     \* the offsets of all storage of an abstract pool

VARIABLE pool           \* the areas it has assigned

AnyPool == INSTANCE AreaPool WITH areas <- pool

(***************************************************************************)
(* Numbers, and functions by recursion on them.                            *)
(***************************************************************************)

(* A set of numbers has a least one.                                       *)
LEMMA Least ==
    ASSUME NEW T, T \subseteq Nat, T # {}
    PROVE  \E x \in T : \A y \in T : x <= y
<1>1. IsWellFoundedOn(OpToRel(<, Nat), Nat)
    BY NatLessThanWellFounded
<1>2. PICK x \in T : \A y \in T : ~(<<y, x>> \in OpToRel(<, Nat))
    BY <1>1, WFMin
<1>3. \A y \in T : ~(y < x)
    BY <1>2 DEF OpToRel
<1> QED BY <1>3

(* The one Min picks.                                                      *)
LEMMA MinIs ==
    ASSUME NEW T, T \subseteq Nat, T # {}
    PROVE  Min(T) \in T /\ \A y \in T : Min(T) <= y
  BY Least DEF Min

(* What holds at the first number, and at each one after one where it      *)
(* holds, holds at every number.                                           *)
LEMMA UpTo ==
    ASSUME NEW n \in Nat, NEW H, 0 \in H,
           \A i \in 1..n : i - 1 \in H => i \in H
    PROVE  0..n \subseteq H
<1> DEFINE T == (0..n) \ H
<1>1. SUFFICES ASSUME T # {} PROVE FALSE
    OBVIOUS
<1>2. PICK x \in T : \A y \in T : x <= y
    <2>1. T \subseteq Nat
        OBVIOUS
    <2> HIDE DEF T
    <2> QED BY <1>1, <2>1, Least
<1>3. x \in 1..n
    <2>1. x \in 0..n /\ x # 0
        OBVIOUS
    <2> QED BY <2>1
<1>4. x - 1 \in 0..n /\ ~(x <= x - 1)
    BY <1>3
<1>5. x - 1 \in H
    BY <1>2, <1>4
<1>6. x \in H
    BY <1>3, <1>5
<1> QED BY <1>2, <1>6

(* A function may be defined by what it is at a smaller number: B are the  *)
(* numbers where it is given by A, and next leads to the smaller one.      *)
Descends(n, S, B, A, next, G) ==
    /\ n \in Nat /\ A \in [0..n -> S] /\ next \in [0..n -> Nat] /\ G \in [0..n -> [S -> S]]
    /\ \A i \in 0..n : i \in B \/ next[i] < i

(* What it is up to k.                                                     *)
Follows(f, k, B, A, next, G) ==
    \A i \in 0..k : f[i] = IF i \in B THEN A[i] ELSE G[i][f[next[i]]]

(* There is one.                                                           *)
LEMMA Recursion ==
    ASSUME NEW n, NEW S, NEW B, NEW A, NEW next, NEW G, Descends(n, S, B, A, next, G)
    PROVE  \E f \in [0..n -> S] : Follows(f, n, B, A, next, G)
<1> USE DEF Descends, Follows
<1> DEFINE H == {k \in 0..n : \E f \in [0..k -> S] : Follows(f, k, B, A, next, G)}
<1>1. 0 \in H
    <2> DEFINE f == [i \in 0..0 |-> A[0]]
    <2>3. n \in Nat /\ 0 \in 0..n /\ A[0] \in S /\ next[0] \in Nat
        OBVIOUS
    <2>1. f \in [0..0 -> S] /\ 0 \in B
        BY <2>3
    <2>2. Follows(f, 0, B, A, next, G)
        BY <2>1
    <2> HIDE DEF f, Follows
    <2> QED BY <2>1, <2>2, <2>3
<1>2. ASSUME NEW k \in 1..n, k - 1 \in H PROVE k \in H
    <2>1. PICK g \in [0..(k - 1) -> S] : Follows(g, k - 1, B, A, next, G)
        BY <1>2
    <2> DEFINE v == IF k \in B THEN A[k] ELSE G[k][g[next[k]]]
    <2>2. v \in S
        <3>1. k \notin B => next[k] \in 0..(k - 1)
            OBVIOUS
        <3>2. k \notin B => g[next[k]] \in S
            BY <3>1
        <3>3. G[k] \in [S -> S] /\ A[k] \in S
            OBVIOUS
        <3> QED BY <3>2, <3>3
    <2> HIDE DEF v
    <2> DEFINE f == [i \in 0..k |-> IF i < k THEN g[i] ELSE v]
    <2>3. f \in [0..k -> S]
        <3>1. \A i \in 0..k : i < k => i \in 0..(k - 1)
            OBVIOUS
        <3> QED BY <2>2, <3>1
    <2>4. ASSUME NEW i \in 0..k PROVE f[i] = IF i \in B THEN A[i] ELSE G[i][f[next[i]]]
        <3>1. i \notin B => next[i] \in 0..(k - 1) /\ f[next[i]] = g[next[i]]
            OBVIOUS
        <3>2. CASE i < k
            <4>1. f[i] = g[i] /\ i \in 0..(k - 1)
                BY <3>2
            <4>2. g[i] = IF i \in B THEN A[i] ELSE G[i][g[next[i]]]
                BY <2>1, <4>1
            <4> HIDE DEF f
            <4> QED BY <3>1, <4>1, <4>2
        <3>3. CASE i = k
            <4>1. f[i] = v
                BY <3>3
            <4> HIDE DEF f
            <4> QED BY <3>1, <3>3, <4>1 DEF v
        <3> QED BY <3>2, <3>3
    <2> HIDE DEF f
    <2>5. Follows(f, k, B, A, next, G)
        BY <2>4
    <2> HIDE DEF Follows
    <2> QED BY <2>3, <2>5
<1>3. n \in H
    <2> HIDE DEF H
    <2>1. n \in Nat
        OBVIOUS
    <2>2. 0..n \subseteq H
        BY <1>1, <1>2, <2>1, UpTo
    <2> QED BY <2>1, <2>2
<1> HIDE DEF Follows
<1> QED BY <1>3

(***************************************************************************)
(* Powers of two and size classes.                                         *)
(***************************************************************************)

(* What is assumed of the constants, piece by piece.                       *)
LEMMA Geometry ==
    /\ Classes \in Nat /\ Classes >= 1 /\ RoundTo \in Nat /\ RoundTo >= 1
    /\ Header \in Nat /\ Header >= 1
    /\ Segment = Power[Classes]
    /\ Initial \in (Header + 1)..(Segment - 1)
    /\ Ceiling \in Nat /\ Ceiling >= Initial /\ (Ceiling - Initial) % Segment = 0
  BY GeometryAssumption

(* The power of each class is twice that of the class before it.           *)
LEMMA PowerIs ==
    /\ Power = [k \in 0..Classes |-> Power[k]]
    /\ Power[0] = 1
    /\ \A k \in 1..Classes : Power[k] = 2 * Power[k - 1]
<1> DEFINE One(f, k) == IF k = 0 THEN 1 ELSE 2 * f[k - 1]
           A == [k \in 0..Classes |-> 1]
           next == [k \in 0..Classes |-> IF k = 0 THEN 0 ELSE k - 1]
           G == [k \in 0..Classes |-> [x \in Nat |-> 2 * x]]
<1>1. Classes \in Nat
    BY Geometry
<1>2. Descends(Classes, Nat, {0}, A, next, G)
    BY <1>1 DEF Descends
<1>3. PICK f \in [0..Classes -> Nat] : Follows(f, Classes, {0}, A, next, G)
    <2> HIDE DEF A, next, G
    <2> QED BY <1>2, Recursion
<1>4. ASSUME NEW k \in 0..Classes PROVE f[k] = One(f, k)
    <2>1. CASE k = 0
        BY <1>3, <2>1 DEF Follows
    <2>2. CASE k # 0
        <3>1. next[k] = k - 1 /\ k - 1 \in 0..Classes
            BY <1>1, <2>2
        <3>2. f[k] = G[k][f[k - 1]]
            <4> HIDE DEF G
            <4> QED BY <1>3, <2>2, <3>1 DEF Follows
        <3> QED BY <1>1, <2>2, <3>1, <3>2
    <2> QED BY <2>1, <2>2
<1>5. f = [k \in 0..Classes |-> One(f, k)]
    <2>1. f = [k \in 0..Classes |-> f[k]]
        OBVIOUS
    <2> HIDE DEF One
    <2> QED BY <1>4, <2>1
<1>6. Power = [k \in 0..Classes |-> One(Power, k)]
    <2> HIDE DEF One
    <2>1. \E g : g = [k \in 0..Classes |-> One(g, k)]
        BY <1>5, Zenon
    <2>2. Power = CHOOSE g : g = [k \in 0..Classes |-> One(g, k)]
        BY Zenon DEF Power, One
    <2> QED BY <2>1, <2>2
<1>7. \A k \in 0..Classes : Power[k] = One(Power, k)
    <2> HIDE DEF One
    <2> QED BY <1>6
<1>8. Power = [k \in 0..Classes |-> Power[k]]
    <2> HIDE DEF One
    <2> QED BY <1>6, <1>7
<1>9. \A k \in 1..Classes : k \in 0..Classes /\ k # 0
    BY <1>1
<1>10. \A k \in 1..Classes : Power[k] = 2 * Power[k - 1]
    BY <1>7, <1>9
<1>11. Power[0] = 1
    BY <1>1, <1>7
<1> HIDE DEF One
<1> QED BY <1>8, <1>10, <1>11

(* Powers are numbers, and each is at least twice any before it.           *)
LEMMA Powers ==
    /\ \A k \in 0..Classes : Power[k] \in Nat /\ Power[k] >= 1
    /\ \A j, k \in 0..Classes : j < k => 2 * Power[j] <= Power[k]
<1> DEFINE H == {k \in 0..Classes : /\ Power[k] \in Nat /\ Power[k] >= 1
                                    /\ \A j \in 0..(k - 1) :
                                         Power[j] \in Nat /\ 2 * Power[j] <= Power[k]}
<1>1. Classes \in Nat
    BY Geometry
<1>2. 0 \in H
    BY <1>1, PowerIs
<1>3. ASSUME NEW k \in 1..Classes, k - 1 \in H PROVE k \in H
    <2>1. Power[k] = 2 * Power[k - 1]
        BY PowerIs
    <2>2. /\ Power[k - 1] \in Nat /\ Power[k - 1] >= 1
          /\ \A j \in 0..(k - 2) : Power[j] \in Nat /\ 2 * Power[j] <= Power[k - 1]
        BY <1>1, <1>3
    <2>3. ASSUME NEW j \in 0..(k - 1)
          PROVE  Power[j] \in Nat /\ 2 * Power[j] <= Power[k]
        <3>1. CASE j = k - 1
            BY <2>1, <2>2, <3>1
        <3>2. CASE j < k - 1
            <4>1. j \in 0..(k - 2)
                BY <3>2
            <4> QED BY <2>1, <2>2, <4>1
        <3> QED BY <3>1, <3>2
    <2> QED BY <1>1, <2>1, <2>2, <2>3
<1>4. 0..Classes \subseteq H
    <2> HIDE DEF H
    <2> QED BY <1>1, <1>2, <1>3, UpTo
<1>5. \A j, k \in 0..Classes : j < k => j \in 0..(k - 1)
    OBVIOUS
<1> QED BY <1>4, <1>5

(* The largest class is half a segment, and holds the largest power of two *)
(* below that.                                                             *)
LEMMA Sizing ==
    /\ Largest \in Nat /\ Largest >= 1 /\ Segment = 2 * Largest
    /\ Classes - 1 \in 0..Classes
    /\ \A k \in 0..(Classes - 1) : Power[k] <= Largest
    /\ \A k \in 0..Classes : Power[k] < Segment => k \in 0..(Classes - 1)
    /\ \A j, k \in 0..Classes : Power[j] = Power[k] => j = k
<1>1. Classes \in Nat /\ Classes >= 1 /\ Segment = Power[Classes]
    BY Geometry
<1>2. Classes - 1 \in 0..Classes /\ Classes \in 1..Classes
    BY <1>1
<1>3. Largest \in Nat /\ Largest >= 1 /\ Segment = 2 * Largest
    <2>1. Power[Classes] = 2 * Power[Classes - 1]
        BY <1>2, PowerIs
    <2> QED BY <1>1, <1>2, <2>1, Powers DEF Largest
<1>4. ASSUME NEW k \in 0..(Classes - 1) PROVE Power[k] <= Largest
    <2>1. CASE k = Classes - 1
        BY <1>3, <2>1 DEF Largest
    <2>2. CASE k < Classes - 1
        <3>1. k \in 0..Classes
            BY <1>1
        <3>2. 2 * Power[k] <= Power[Classes - 1] /\ Power[k] \in Nat
            BY <1>2, <2>2, <3>1, Powers
        <3> QED BY <1>3, <3>2 DEF Largest
    <2> QED BY <1>1, <2>1, <2>2
<1>5. \A k \in 0..Classes : Power[k] < Segment => k \in 0..(Classes - 1)
    <2>1. ~(Segment < Segment)
        BY <1>3
    <2>2. \A k \in 0..Classes : k # Classes => k \in 0..(Classes - 1)
        BY <1>1
    <2> QED BY <1>1, <2>1, <2>2
<1>6. ASSUME NEW j \in 0..Classes, NEW k \in 0..Classes, Power[j] = Power[k]
      PROVE  j = k
    <2>1. Power[j] \in Nat /\ Power[k] \in Nat /\ Power[j] >= 1
        BY Powers
    <2>2. ~(j < k)
        <3>1. j < k => 2 * Power[j] <= Power[k]
            BY Powers
        <3> QED BY <1>6, <2>1, <3>1
    <2>3. ~(k < j)
        <3>1. k < j => 2 * Power[k] <= Power[j]
            BY Powers
        <3> QED BY <1>6, <2>1, <3>1
    <2> QED BY <1>1, <2>2, <2>3
<1> QED BY <1>2, <1>3, <1>4, <1>5, <1>6

(* The class of a length is the first that holds it, or that past the      *)
(* last.                                                                   *)
LEMMA ClassIs ==
    ASSUME NEW n \in Nat, n >= 1
    PROVE  /\ ClassIndex(n) \in 0..Classes
           /\ n <= Segment => n <= Power[ClassIndex(n)]
           /\ n > Segment => ClassIndex(n) = Classes
           /\ ClassIndex(n) # 0 /\ n <= Segment => Power[ClassIndex(n) - 1] < n
<1> DEFINE T == {k \in 0..Classes : Power[k] >= n \/ k = Classes}
           c == ClassIndex(n)
<1>1. Classes \in Nat /\ Classes >= 1 /\ Segment = Power[Classes] /\ Segment \in Nat
    BY Geometry, Sizing
<1>2. T \subseteq Nat /\ Classes \in T
    BY <1>1
<1>3. CASE n <= Segment
    <2>1. n \in Lengths
        BY <1>1, <1>3 DEF Lengths
    <2>2. c = Min(T)
        BY <2>1 DEF ClassIndex, ClassOf
    <2>3. c \in T /\ \A k \in T : c <= k
        <3> HIDE DEF T, c
        <3>1. T # {}
            BY <1>2
        <3> QED BY <1>2, <2>2, <3>1, MinIs
    <2>4. n <= Power[c] /\ c \in 0..Classes
        <3> HIDE DEF c
        <3>1. \A k \in 0..Classes : Power[k] \in Nat
            BY Powers
        <3> QED BY <1>1, <1>3, <2>3, <3>1
    <2>5. c # 0 => Power[c - 1] < n
        <3> HIDE DEF c
        <3> SUFFICES ASSUME c # 0 PROVE Power[c - 1] < n
            OBVIOUS
        <3>1. c - 1 \in 0..Classes /\ ~(c <= c - 1)
            BY <1>1, <2>4
        <3>2. c - 1 \notin T
            BY <2>3, <3>1
        <3>3. ~(Power[c - 1] >= n)
            BY <3>1, <3>2
        <3>4. Power[c - 1] \in Nat
            BY <3>1, Powers
        <3> QED BY <3>3, <3>4
    <2> QED BY <1>1, <1>3, <2>4, <2>5
<1>4. CASE n > Segment
    <2>1. c = Classes
        BY <1>1, <1>4 DEF ClassIndex, Lengths
    <2> QED BY <1>1, <1>4, <2>1
<1> QED BY <1>1, <1>3, <1>4

(* A block belongs to the class that has its length.                       *)
LEMMA ClassOfPower ==
    ASSUME NEW k \in 0..Classes
    PROVE  ClassIndex(Power[k]) = k
<1>1. PICK n \in Nat : n = Power[k] /\ n >= 1
    BY Powers
<1>2. PICK c \in 0..Classes : c = ClassIndex(n)
    BY <1>1, ClassIs
<1>3. Classes \in Nat /\ Segment = Power[Classes] /\ Classes \in 0..Classes
    BY Geometry
<1>4. n <= Segment
    <2>1. CASE k = Classes
        BY <1>1, <1>3, <2>1
    <2>2. CASE k < Classes
        <3>1. 2 * n <= Segment /\ Segment \in Nat
            BY <1>1, <1>3, <2>2, Powers
        <3> QED BY <1>1, <3>1
    <2> QED BY <1>3, <2>1, <2>2
<1>5. ~(c < k)
    <2>1. n <= Power[c] /\ Power[c] \in Nat /\ Power[c] >= 1
        BY <1>1, <1>2, <1>4, ClassIs, Powers
    <2>2. c < k => 2 * Power[c] <= n
        BY <1>1, Powers
    <2> QED BY <2>1, <2>2
<1>6. ~(k < c)
    <2> SUFFICES ASSUME k < c PROVE FALSE
        OBVIOUS
    <2>1. c # 0 /\ c - 1 \in 0..Classes /\ k <= c - 1
        BY <1>3
    <2>2. Power[c - 1] < n /\ Power[c - 1] \in Nat
        BY <1>1, <1>2, <1>4, <2>1, ClassIs, Powers
    <2>3. k < c - 1 => 2 * n <= Power[c - 1]
        BY <1>1, <2>1, Powers
    <2>4. k = c - 1 => n = Power[c - 1]
        BY <1>1
    <2> QED BY <1>1, <2>1, <2>2, <2>3, <2>4
<1> QED BY <1>1, <1>2, <1>3, <1>5, <1>6

(* A length is carved up in powers of two.                                 *)
LEMMA ChunkIs ==
    ASSUME NEW n \in 1..(Segment - 1)
    PROVE  Chunk(n) \in 1..n /\ \E k \in 0..(Classes - 1) : Chunk(n) = Power[k]
<1> DEFINE m == n \div 2 + 1
<1>1. Segment \in Nat /\ Segment = 2 * Largest /\ Largest \in Nat /\ Largest >= 1
      /\ Classes \in Nat /\ Classes >= 1 /\ Segment = Power[Classes]
    BY Sizing, Geometry
<1>2. m \in Nat /\ m >= 1 /\ m <= Segment /\ 2 * (m - 1) <= n /\ n <= 2 * (m - 1) + 1
    BY <1>1
<1> HIDE DEF m
<1>3. PICK c \in 0..Classes : /\ c = ClassIndex(m)
                              /\ m <= Power[c]
                              /\ c # 0 => Power[c - 1] < m
    BY <1>2, ClassIs
<1>4. Power[c] \in Nat /\ Power[c] >= 1
    BY Powers
<1>5. Power[c] <= n
    <2>1. CASE c = 0
        BY <1>1, <2>1, PowerIs
    <2>2. CASE c # 0
        <3>1. c \in 1..Classes /\ c - 1 \in 0..Classes
            BY <1>1, <2>2
        <3>2. Power[c] = 2 * Power[c - 1] /\ Power[c - 1] \in Nat
            BY <3>1, PowerIs, Powers
        <3> QED BY <1>2, <1>3, <2>2, <3>2
    <2> QED BY <2>1, <2>2
<1>6. c \in 0..(Classes - 1)
    <2>1. Power[c] < Segment
        BY <1>1, <1>4, <1>5
    <2> QED BY <2>1, Sizing
<1>7. Power[c] <= Largest
    BY <1>6, Sizing
<1>8. Chunk(n) = Power[c]
    <2>1. Chunk(n) = Min({Power[c], Largest})
        BY <1>3 DEF Chunk, m
    <2>2. PICK a \in Nat, b \in Nat : a = Power[c] /\ b = Largest
        BY <1>1, <1>4
    <2>3. {a, b} \subseteq Nat /\ {a, b} # {}
        OBVIOUS
    <2>4. Min({a, b}) \in {a, b} /\ \A y \in {a, b} : Min({a, b}) <= y
        BY <2>3, MinIs
    <2>5. Min({a, b}) = a
        BY <1>7, <2>2, <2>4
    <2> QED BY <2>1, <2>2, <2>5
<1> QED BY <1>4, <1>5, <1>6, <1>8

(* What is assigned is enough, and no more than a block of the class.      *)
LEMMA RoundedIs ==
    ASSUME NEW n \in Nat, n >= 1, ClassIndex(n) # Classes
    PROVE  /\ RoundedSize(n) \in Nat /\ n <= RoundedSize(n)
           /\ RoundedSize(n) <= Power[ClassIndex(n)]
           /\ ClassIndex(n) \in 0..(Classes - 1)
<1>1. PICK c \in 0..Classes : c = ClassIndex(n)
    BY ClassIs
<1>2. n <= Power[c] /\ Power[c] \in Nat
    <2>1. n <= Segment \/ n > Segment
        BY Sizing
    <2> QED BY <1>1, <2>1, ClassIs, Powers
<1>3. RoundTo \in Nat /\ RoundTo >= 1 /\ Classes \in Nat
    BY Geometry
<1>4. CASE Power[c] >= n + RoundTo
    <2>1. RoundedSize(n) = RoundTo * ((n + RoundTo - 1) \div RoundTo)
        BY <1>1, <1>4 DEF RoundedSize
    <2>2. PICK a \in Nat : a = n + RoundTo - 1
        BY <1>3
    <2>3. a \div RoundTo \in Nat /\ RoundTo * (a \div RoundTo) <= a
          /\ a < RoundTo * (a \div RoundTo) + RoundTo
        BY <1>3
    <2>4. PICK p \in Int : p = RoundTo * (a \div RoundTo)
        BY <1>3, <2>3
    <2>5. p <= a /\ a < p + RoundTo /\ RoundedSize(n) = p
        BY <2>1, <2>2, <2>3, <2>4
    <2> QED BY <1>1, <1>2, <1>3, <1>4, <2>2, <2>5
<1>5. CASE ~(Power[c] >= n + RoundTo)
    <2>1. RoundedSize(n) = Power[c]
        BY <1>1, <1>5 DEF RoundedSize
    <2> QED BY <1>1, <1>2, <1>3, <2>1
<1> QED BY <1>4, <1>5

(***************************************************************************)
(* Segments.                                                               *)
(***************************************************************************)

(* The first unit of an extension segment is the heap's own.               *)
Prefix(u) == \E i \in Nat : u = Initial + i * Segment

(* A committed length: the initial part and some whole segments.           *)
Spanned(s) == s \in Nat /\ s <= Ceiling /\ \E m \in Nat : s = Initial + m * Segment

(* What the pool has for its clients, when s units are committed.          *)
Storage(s) == {u \in Header..(s - 1) : ~Prefix(u)}

(* Multiples of a number lie as far apart as it.                           *)
LEMMA Times ==
    ASSUME NEW S \in Nat, S >= 1, NEW i \in Nat, NEW j \in Nat
    PROVE  /\ i * S \in Nat /\ j * S \in Nat
           /\ i < j => i * S + S <= j * S
           /\ (i + 1) * S = i * S + S
           /\ i <= i * S
<1>1. (i + 1) * S = i * S + S
    OBVIOUS
<1>2. i < j => i * S + S <= j * S
    <2> SUFFICES ASSUME i < j PROVE i * S + S <= j * S
        OBVIOUS
    <2>1. PICK d \in Nat : j = (i + 1) + d
        <3>1. j - (i + 1) \in Nat /\ j = (i + 1) + (j - (i + 1))
            OBVIOUS
        <3> QED BY <3>1
    <2>2. j * S = (i + 1) * S + d * S /\ d * S \in Nat
        BY <2>1
    <2>3. i * S \in Nat /\ j * S \in Nat
        OBVIOUS
    <2> QED BY <1>1, <2>2, <2>3
<1>3. i <= i * S
    <2>1. PICK d \in Nat : S = 1 + d
        <3>1. S - 1 \in Nat /\ S = 1 + (S - 1)
            OBVIOUS
        <3> QED BY <3>1
    <2>2. i * S = i + i * d /\ i * d \in Nat
        BY <2>1
    <2> QED BY <2>2
<1> QED BY <1>1, <1>2, <1>3

(* How far a number is into which multiple.                                *)
LEMMA Quotient ==
    ASSUME NEW S \in Nat, S >= 1, NEW x \in Nat
    PROVE  /\ x \div S \in Nat
           /\ (x \div S) * S <= x /\ x < (x \div S) * S + S
           /\ \A i \in Nat : i * S <= x /\ x < i * S + S => x \div S = i
<1>1. x \div S \in Nat /\ (x \div S) * S <= x /\ x < (x \div S) * S + S
    OBVIOUS
<1>2. ASSUME NEW i \in Nat, i * S <= x, x < i * S + S PROVE x \div S = i
    <2>1. PICK q \in Nat : q = x \div S
        BY <1>1
    <2>2. q * S <= x /\ x < q * S + S
        BY <1>1, <2>1
    <2>3. ~(q < i)
        <3>1. q < i => q * S + S <= i * S
            BY Times
        <3>2. q * S \in Nat /\ i * S \in Nat
            BY Times
        <3> QED BY <1>2, <2>2, <3>1, <3>2
    <2>4. ~(i < q)
        <3>1. i < q => i * S + S <= q * S
            BY Times
        <3>2. q * S \in Nat /\ i * S \in Nat
            BY Times
        <3> QED BY <1>2, <2>2, <3>1, <3>2
    <2> QED BY <2>1, <2>3, <2>4
<1> QED BY <1>1, <1>2

(* The prefixes of the committed segments are all those below its end.     *)
LEMMA PrefixesAre ==
    ASSUME NEW h, Spanned(h.span)
    PROVE  SegmentPrefixes(h) = {u \in 0..(h.span - 1) : Prefix(u)}
<1>1. Segment \in Nat /\ Segment >= 1 /\ Initial \in Nat
    BY Geometry, Sizing
<1>2. PICK s \in Nat, m \in Nat : s = h.span /\ s = Initial + m * Segment
    BY DEF Spanned
<1>3. (s - Initial) \div Segment = m
    <2>1. m * Segment \in Nat /\ m * Segment <= m * Segment /\ m * Segment < m * Segment + Segment
        BY <1>1, Times
    <2>2. s - Initial = m * Segment
        BY <1>1, <1>2, <2>1
    <2> QED BY <1>1, <2>1, <2>2, Quotient
<1>4. SegmentPrefixes(h) = {Initial + i * Segment : i \in 0..(m - 1)}
    BY <1>2, <1>3 DEF SegmentPrefixes
<1>5. ASSUME NEW i \in 0..(m - 1)
      PROVE  Initial + i * Segment \in 0..(s - 1) /\ Prefix(Initial + i * Segment)
    <2>1. i \in Nat /\ i < m
        BY <1>2
    <2>2. i * Segment + Segment <= m * Segment /\ i * Segment \in Nat /\ m * Segment \in Nat
        BY <1>1, <2>1, Times
    <2> QED BY <1>1, <1>2, <2>1, <2>2 DEF Prefix
<1>6. ASSUME NEW u \in 0..(s - 1), Prefix(u)
      PROVE  u \in {Initial + i * Segment : i \in 0..(m - 1)}
    <2>1. PICK i \in Nat : u = Initial + i * Segment
        BY <1>6 DEF Prefix
    <2>2. i < m
        <3>1. m < i => m * Segment + Segment <= i * Segment
            BY <1>1, Times
        <3>2. i * Segment \in Nat /\ m * Segment \in Nat
            BY <1>1, Times
        <3>3. u < s /\ i * Segment < m * Segment
            BY <1>1, <1>2, <2>1, <3>2
        <3> QED BY <1>1, <3>1, <3>2, <3>3
    <2> QED BY <2>1, <2>2
<1> QED BY <1>2, <1>4, <1>5, <1>6

(* No prefix lies strictly between two neighbours.                         *)
LEMMA BetweenPrefixes ==
    ASSUME NEW u \in Nat, NEW i \in Nat,
           Initial + i * Segment < u, u < Initial + i * Segment + Segment
    PROVE  ~Prefix(u)
<1>1. Segment \in Nat /\ Segment >= 1 /\ Initial \in Nat
    BY Geometry, Sizing
<1> SUFFICES ASSUME NEW j \in Nat, u = Initial + j * Segment PROVE FALSE
    BY DEF Prefix
<1>2. i * Segment \in Nat /\ j * Segment \in Nat
    BY <1>1, Times
<1>3. i < j => i * Segment + Segment <= j * Segment
    BY <1>1, Times
<1>4. j < i => j * Segment + Segment <= i * Segment
    BY <1>1, Times
<1> QED BY <1>1, <1>2, <1>3, <1>4

(* A run of storage lies in one segment, off its prefix.                   *)
LEMMA ShortRun ==
    ASSUME NEW s, Spanned(s), NEW off \in Nat, NEW len \in Nat, len >= 1,
           Run(off, len) \subseteq Storage(s)
    PROVE  /\ len < Segment /\ off >= Header /\ off + len <= s
           /\ SegmentOf(off) = SegmentOf(off + len - 1)
<1>1. /\ Segment \in Nat /\ Segment >= 1 /\ Initial \in Nat /\ Header \in Nat
      /\ Initial > Header /\ Initial < Segment /\ Header >= 1
    BY Geometry, Sizing
<1>2. PICK m \in Nat : s \in Nat /\ s = Initial + m * Segment
    BY DEF Spanned
<1>3. \A u \in Nat : off <= u /\ u < off + len => u \in Header..(s - 1) /\ ~Prefix(u)
    BY DEF Run, Storage
<1>4. off >= Header /\ off + len <= s
    <2>1. off \in Header..(s - 1) /\ off + len - 1 \in Header..(s - 1)
        BY <1>3
    <2> QED BY <1>2, <2>1
<1>5. CASE off < Initial
    <2>1. Prefix(Initial)
        <3>1. Initial = Initial + 0 * Segment
            BY <1>1
        <3> QED BY <3>1 DEF Prefix
    <2>2. off + len <= Initial
        BY <1>1, <1>3, <1>5, <2>1
    <2>3. SegmentOf(off) = 0 /\ SegmentOf(off + len - 1) = 0
        BY <1>1, <1>5, <2>2 DEF SegmentOf
    <2> QED BY <1>1, <1>4, <2>2, <2>3
<1>6. CASE off >= Initial
    <2>1. PICK i \in Nat : i = (off - Initial) \div Segment
                           /\ i * Segment <= off - Initial /\ off - Initial < i * Segment + Segment
        <3>1. off - Initial \in Nat
            BY <1>1, <1>6
        <3> QED BY <1>1, <3>1, Quotient
    <2>2. i * Segment \in Nat /\ (i + 1) * Segment = i * Segment + Segment
        BY <1>1, Times
    <2>3. Prefix(Initial + i * Segment) /\ Prefix(Initial + i * Segment + Segment)
        <3>1. i + 1 \in Nat /\ Initial + i * Segment + Segment = Initial + (i + 1) * Segment
            BY <1>1, <2>2
        <3> QED BY <3>1 DEF Prefix
    <2>4. off > Initial + i * Segment
        <3>1. ~Prefix(off)
            BY <1>3
        <3>2. off # Initial + i * Segment
            BY <2>3, <3>1
        <3> QED BY <1>1, <2>1, <2>2, <3>2
    <2>5. off + len <= Initial + i * Segment + Segment
        <3> DEFINE p == Initial + i * Segment + Segment
        <3>1. p \in Nat /\ off <= p
            BY <1>1, <2>1, <2>2
        <3>2. Prefix(p)
            BY <2>3
        <3> HIDE DEF p
        <3>3. ~(p < off + len)
            BY <1>3, <3>1, <3>2
        <3>4. off + len <= p
            BY <3>1, <3>3
        <3> QED BY <3>4 DEF p
    <2>6. ASSUME NEW u \in Nat, off <= u, u < off + len PROVE SegmentOf(u) = 1 + i
        <3>1. u - Initial \in Nat /\ i * Segment <= u - Initial
              /\ u - Initial < i * Segment + Segment /\ u >= Initial
            BY <1>1, <1>6, <2>1, <2>2, <2>5, <2>6
        <3>2. (u - Initial) \div Segment = i
            BY <1>1, <3>1, Quotient
        <3> QED BY <1>1, <3>1, <3>2 DEF SegmentOf
    <2>7. SegmentOf(off) = 1 + i /\ SegmentOf(off + len - 1) = 1 + i
        BY <2>6
    <2> QED BY <1>1, <1>4, <2>2, <2>4, <2>5, <2>7
<1> QED BY <1>1, <1>5, <1>6

(* The next segment adds all of its units but the first.                   *)
LEMMA NextSegment ==
    ASSUME NEW s, Spanned(s), s + Segment <= Ceiling
    PROVE  /\ Spanned(s + Segment)
           /\ Storage(s + Segment) = Storage(s) \cup Run(s + 1, Segment - 1)
           /\ Storage(s) \cap Run(s + 1, Segment - 1) = {}
<1>1. Segment \in Nat /\ Segment >= 1 /\ Initial \in Nat /\ Header \in Nat /\ Initial > Header
    BY Geometry, Sizing
<1>2. PICK m \in Nat : s \in Nat /\ s = Initial + m * Segment
    BY DEF Spanned
<1>3. m * Segment \in Nat /\ (m + 1) * Segment = m * Segment + Segment
    BY <1>1, Times
<1>4. Spanned(s + Segment)
    <2>1. s + Segment \in Nat /\ m + 1 \in Nat /\ s + Segment = Initial + (m + 1) * Segment
        BY <1>1, <1>2, <1>3
    <2> QED BY <2>1 DEF Spanned
<1>5. Prefix(s)
    BY <1>2 DEF Prefix
<1>6. \A u \in Nat : s < u /\ u < s + Segment => ~Prefix(u)
    BY <1>1, <1>2, <1>3, BetweenPrefixes
<1>7. ASSUME NEW u \in Storage(s + Segment) PROVE u \in Storage(s) \cup Run(s + 1, Segment - 1)
    <2>1. u \in Header..(s + Segment - 1) /\ ~Prefix(u)
        BY <1>1, <1>2 DEF Storage
    <2>2. u < s \/ u > s
        BY <1>1, <1>2, <1>5, <2>1
    <2> QED BY <1>1, <1>2, <2>1, <2>2 DEF Storage, Run
<1>8. ASSUME NEW u \in Run(s + 1, Segment - 1) PROVE u \in Storage(s + Segment) /\ u \notin Storage(s)
    <2>1. u \in Nat /\ s < u /\ u < s + Segment
        BY <1>1, <1>2 DEF Run
    <2>2. s >= Header
        BY <1>1, <1>2, <1>3
    <2> QED BY <1>1, <1>2, <1>6, <2>1, <2>2 DEF Storage
<1>9. Storage(s) \subseteq Storage(s + Segment)
    BY <1>1, <1>2 DEF Storage
<1> QED BY <1>4, <1>7, <1>8, <1>9

(***************************************************************************)
(* The free lists.                                                         *)
(***************************************************************************)

(* A heap has all of its parts, and no others.                             *)
Whole(h) ==
    h = [span |-> h.span, free |-> h.free, filed |-> h.filed,
         journal |-> h.journal, used |-> h.used, ids |-> h.ids]

(* f gives blocks of the storage of s units their lengths.                 *)
Blocks(f, s) ==
    /\ f = [o \in DOMAIN f |-> f[o]]
    /\ \A o \in DOMAIN f : /\ o \in Nat
                           /\ \E k \in 0..(Classes - 1) : f[o] = Power[k]
                           /\ Run(o, f[o]) \subseteq Storage(s)
    /\ \A o, p \in DOMAIN f : o < p => o + f[o] <= p

(* The units of the blocks.                                                *)
Covers(f) == UNION {Run(o, f[o]) : o \in DOMAIN f}

(* The lists file blocks of the pool's storage by their lengths.           *)
Lists(h) ==
    /\ Whole(h) /\ Spanned(h.span) /\ Blocks(h.free, h.span)
    /\ h.filed = [k \in 0..Classes |-> {o \in DOMAIN h.free : h.free[o] = Power[k]}]

(* An operation that changes the free lists, and nothing else.             *)
SameButLists(h, g) ==
    g.span = h.span /\ g.journal = h.journal /\ g.used = h.used /\ g.ids = h.ids

(* Where a block lies.                                                     *)
LEMMA BlockIs ==
    ASSUME NEW f, NEW s, Blocks(f, s), Spanned(s), NEW o \in DOMAIN f
    PROVE  /\ o \in Nat /\ f[o] \in Nat /\ f[o] >= 1
           /\ o >= Header /\ o + f[o] <= s /\ s \in Nat
           /\ \A u \in Nat : o <= u /\ u < o + f[o] => u \in Storage(s)
<1>1. PICK k \in 0..(Classes - 1) : f[o] = Power[k]
    BY DEF Blocks
<1>2. o \in Nat /\ Run(o, f[o]) \subseteq Storage(s)
    BY DEF Blocks
<1>3. k \in 0..Classes
    BY Geometry
<1>4. f[o] \in Nat /\ f[o] >= 1
    BY <1>1, <1>3, Powers
<1>5. o >= Header /\ o + f[o] <= s
    BY <1>2, <1>4, ShortRun
<1> QED BY <1>2, <1>4, <1>5 DEF Run, Spanned

(* Who is in a block.                                                      *)
LEMMA CoversIs ==
    ASSUME NEW f, NEW s, Blocks(f, s), Spanned(s), NEW u
    PROVE  u \in Covers(f) <=> u \in Nat /\ \E o \in DOMAIN f : o <= u /\ u < o + f[o]
<1>1. ASSUME NEW o \in DOMAIN f
      PROVE  u \in Run(o, f[o]) <=> u \in Nat /\ o <= u /\ u < o + f[o]
    BY BlockIs DEF Run
<1>2. u \in Covers(f) <=> \E o \in DOMAIN f : u \in Run(o, f[o])
    BY DEF Covers
<1> QED BY <1>1, <1>2

(* The free units are those of the blocks on the lists.                    *)
LEMMA FreeUnitsAre == \A h : FreeUnits(h) = Covers(h.free)
  BY DEF FreeUnits, Covers

(* A block is filed under the class of its length.                         *)
LEMMA FiledAre ==
    ASSUME NEW f, NEW s, Blocks(f, s), NEW o \in DOMAIN f, NEW k \in 0..Classes
    PROVE  ClassIndex(f[o]) = k <=> f[o] = Power[k]
<1>1. PICK j \in 0..(Classes - 1) : f[o] = Power[j]
    BY DEF Blocks
<1>2. j \in 0..Classes
    BY Geometry
<1>3. ClassIndex(f[o]) = j
    BY <1>1, <1>2, ClassOfPower
<1> QED BY <1>1, <1>2, <1>3, Sizing

(* Blocks leave the lists.                                                 *)
LEMMA DequeueKeeps ==
    ASSUME NEW h, Lists(h), NEW D, D \subseteq DOMAIN h.free
    PROVE  /\ Lists(Dequeue(h, D)) /\ SameButLists(h, Dequeue(h, D))
           /\ Dequeue(h, D).free = [o \in DOMAIN h.free \ D |-> h.free[o]]
<1>1. PICK g : g = Dequeue(h, D)
    OBVIOUS
<1>2. PICK fr, fi : /\ fr = [o \in DOMAIN h.free \ D |-> h.free[o]]
                    /\ fi = [k \in 0..Classes |->
                               h.filed[k] \ {o \in D : ClassIndex(h.free[o]) = k}]
    OBVIOUS
<1>3. g = [h EXCEPT !.free = fr, !.filed = fi]
    BY <1>1, <1>2, Zenon DEF Dequeue
<1>4. g = [span |-> h.span, free |-> fr, filed |-> fi,
           journal |-> h.journal, used |-> h.used, ids |-> h.ids]
    BY <1>3 DEF Lists, Whole
<1>5. Whole(g) /\ SameButLists(h, g) /\ g.free = fr /\ g.filed = fi
    BY <1>4 DEF Whole, SameButLists
<1>6. DOMAIN fr = DOMAIN h.free \ D /\ \A o \in DOMAIN fr : fr[o] = h.free[o]
    BY <1>2
<1>7. Blocks(fr, h.span)
    <2>1. fr = [o \in DOMAIN fr |-> fr[o]]
        BY <1>2
    <2> QED BY <1>6, <2>1 DEF Blocks, Lists
<1>8. fi = [k \in 0..Classes |-> {o \in DOMAIN fr : fr[o] = Power[k]}]
    <2> SUFFICES ASSUME NEW k \in 0..Classes
                 PROVE  h.filed[k] \ {o \in D : ClassIndex(h.free[o]) = k}
                            = {o \in DOMAIN fr : fr[o] = Power[k]}
        BY <1>2, Zenon
    <2>1. h.filed[k] = {o \in DOMAIN h.free : h.free[o] = Power[k]}
        BY DEF Lists
    <2>2. \A o \in D : ClassIndex(h.free[o]) = k <=> h.free[o] = Power[k]
        BY FiledAre DEF Lists
    <2> QED BY <1>6, <2>1, <2>2
<1>9. Lists(g)
    BY <1>5, <1>7, <1>8 DEF Lists, SameButLists
<1> QED BY <1>1, <1>2, <1>5, <1>9

(* Blocks join them.                                                       *)
LEMMA InsertKeeps ==
    ASSUME NEW h, Lists(h), NEW b, Blocks(b, h.span), Covers(b) \cap FreeUnits(h) = {}
    PROVE  /\ Lists(Insert(h, b)) /\ SameButLists(h, Insert(h, b))
           /\ FreeUnits(Insert(h, b)) = FreeUnits(h) \cup Covers(b)
<1>1. PICK g : g = Insert(h, b)
    OBVIOUS
<1>2. PICK fr, fi : /\ fr = [o \in DOMAIN h.free \cup DOMAIN b |->
                               IF o \in DOMAIN b THEN b[o] ELSE h.free[o]]
                    /\ fi = [k \in 0..Classes |->
                               h.filed[k] \cup {o \in DOMAIN b : ClassIndex(b[o]) = k}]
    OBVIOUS
<1>3. g = [h EXCEPT !.free = fr, !.filed = fi]
    BY <1>1, <1>2, Zenon DEF Insert
<1>4. g = [span |-> h.span, free |-> fr, filed |-> fi,
           journal |-> h.journal, used |-> h.used, ids |-> h.ids]
    BY <1>3 DEF Lists, Whole
<1>5. Whole(g) /\ SameButLists(h, g) /\ g.free = fr /\ g.filed = fi
    BY <1>4 DEF Whole, SameButLists
<1>6. Spanned(h.span) /\ Blocks(h.free, h.span) /\ FreeUnits(h) = Covers(h.free)
    BY FreeUnitsAre DEF Lists
<1>7. ASSUME NEW o \in DOMAIN h.free, NEW p \in DOMAIN b
      PROVE  /\ o # p
             /\ o < p => o + h.free[o] <= p
             /\ p < o => p + b[p] <= o
    <2>1. /\ o \in Nat /\ p \in Nat /\ h.free[o] \in Nat /\ b[p] \in Nat
          /\ h.free[o] >= 1 /\ b[p] >= 1
        BY <1>6, BlockIs
    <2>2. o \in Covers(h.free) /\ p \in Covers(b)
        BY <1>6, <2>1, CoversIs
    <2>3. o \notin Covers(b) /\ p \notin Covers(h.free)
        BY <1>6, <2>2
    <2>4. ~(o <= p /\ p < o + h.free[o]) /\ ~(p <= o /\ o < p + b[p])
        BY <1>6, <2>1, <2>3, CoversIs
    <2> QED BY <2>1, <2>4
<1>8. /\ DOMAIN fr = DOMAIN h.free \cup DOMAIN b
      /\ \A o \in DOMAIN h.free : fr[o] = h.free[o]
      /\ \A o \in DOMAIN b : fr[o] = b[o]
    BY <1>2, <1>7
<1>9. Blocks(fr, h.span)
    <2>1. fr = [o \in DOMAIN fr |-> fr[o]]
        BY <1>2
    <2>2. \A o, p \in DOMAIN fr : o < p => o + fr[o] <= p
        BY <1>6, <1>7, <1>8 DEF Blocks
    <2>3. \A o \in DOMAIN fr : /\ o \in Nat
                               /\ \E k \in 0..(Classes - 1) : fr[o] = Power[k]
                               /\ Run(o, fr[o]) \subseteq Storage(h.span)
        BY <1>6, <1>8 DEF Blocks
    <2> QED BY <2>1, <2>2, <2>3 DEF Blocks
<1>10. fi = [k \in 0..Classes |-> {o \in DOMAIN fr : fr[o] = Power[k]}]
    <2> SUFFICES ASSUME NEW k \in 0..Classes
                 PROVE  h.filed[k] \cup {o \in DOMAIN b : ClassIndex(b[o]) = k}
                            = {o \in DOMAIN fr : fr[o] = Power[k]}
        BY <1>2, Zenon
    <2>1. h.filed[k] = {o \in DOMAIN h.free : h.free[o] = Power[k]}
        BY DEF Lists
    <2>2. \A o \in DOMAIN b : ClassIndex(b[o]) = k <=> b[o] = Power[k]
        BY FiledAre
    <2> QED BY <1>8, <2>1, <2>2
<1>11. Lists(g)
    BY <1>5, <1>6, <1>9, <1>10 DEF Lists, SameButLists
<1>12. Covers(fr) = Covers(h.free) \cup Covers(b)
    BY <1>8 DEF Covers
<1> QED BY <1>1, <1>5, <1>6, <1>11, <1>12, FreeUnitsAre

(* A run that grows takes in whole free blocks: none sticks out of it.     *)
Clean(f, off, len) ==
    \A o \in DOMAIN f : \/ o + f[o] <= off \/ off + len <= o
                        \/ off <= o /\ o + f[o] <= off + len

(* [at, at + len) is storage, and [off, off + size) grown by free blocks.  *)
Grown(f, s, off, size, at, len) ==
    /\ off \in Nat /\ size \in Nat /\ at \in Nat /\ len \in Nat /\ len >= 1
    /\ at <= off /\ off + size <= at + len
    /\ Run(at, len) \subseteq Storage(s)
    /\ Run(at, len) \subseteq Run(off, size) \cup Covers(f)
    /\ Clean(f, at, len)

(* A run to be queued: storage, none of it free.                           *)
Taken(f, s, off, size) ==
    /\ off \in Nat /\ size \in Nat /\ size >= 1
    /\ Run(off, size) \subseteq Storage(s)
    /\ Run(off, size) \cap Covers(f) = {}

(* Who is in a run.                                                        *)
LEMMA RunIs ==
    ASSUME NEW off \in Nat, NEW len \in Nat
    PROVE  \A u : u \in Run(off, len) <=> u \in Nat /\ off <= u /\ u < off + len
  BY DEF Run

(* No free block sticks out of a run that is taken.                        *)
LEMMA TakenIsGrown ==
    ASSUME NEW f, NEW s, Blocks(f, s), Spanned(s), NEW off, NEW size, Taken(f, s, off, size)
    PROVE  Grown(f, s, off, size, off, size)
<1>1. off \in Nat /\ size \in Nat /\ size >= 1
    BY DEF Taken
<1>2. ASSUME NEW o \in DOMAIN f PROVE o + f[o] <= off \/ off + size <= o
    <2>1. o \in Nat /\ f[o] \in Nat /\ f[o] >= 1
        BY BlockIs
    <2>2. o \notin Run(off, size)
        <3>1. o \in Covers(f)
            BY <2>1, CoversIs
        <3> QED BY <3>1 DEF Taken
    <2>3. off \notin Covers(f)
        <3>1. off \in Run(off, size)
            BY <1>1, RunIs
        <3> QED BY <3>1 DEF Taken
    <2>4. ~(off <= o /\ o < off + size)
        BY <1>1, <2>1, <2>2, RunIs
    <2>5. ~(o <= off /\ off < o + f[o])
        BY <1>1, <2>3, CoversIs
    <2> QED BY <1>1, <2>1, <2>4, <2>5
<1> QED BY <1>1, <1>2 DEF Taken, Grown, Clean

(* The blocks the run has grown by leave the lists.                        *)
LEMMA TakeIn ==
    ASSUME NEW h, Lists(h), NEW off, NEW size, Taken(h.free, h.span, off, size),
           NEW at, NEW len, Grown(h.free, h.span, off, size, at, len)
    PROVE  LET g == Dequeue(h, Within(h, at, len))
           IN  /\ Lists(g) /\ SameButLists(h, g)
               /\ Taken(g.free, g.span, at, len)
               /\ FreeUnits(h) \cup Run(off, size) = FreeUnits(g) \cup Run(at, len)
<1>1. PICK g : g = Dequeue(h, Within(h, at, len))
    OBVIOUS
<1>2. Within(h, at, len) \subseteq DOMAIN h.free
    BY DEF Within
<1>3. /\ Lists(g) /\ SameButLists(h, g)
      /\ g.free = [o \in DOMAIN h.free \ Within(h, at, len) |-> h.free[o]]
    BY <1>1, <1>2, DequeueKeeps
<1>4. /\ Spanned(h.span) /\ Blocks(h.free, h.span) /\ Blocks(g.free, g.span) /\ g.span = h.span
      /\ FreeUnits(h) = Covers(h.free) /\ FreeUnits(g) = Covers(g.free)
    BY <1>3, FreeUnitsAre DEF Lists, SameButLists
<1>5. /\ at \in Nat /\ len \in Nat /\ len >= 1 /\ off \in Nat /\ size \in Nat /\ size >= 1
      /\ at <= off /\ off + size <= at + len
    BY DEF Grown, Taken
<1>6. /\ DOMAIN g.free = DOMAIN h.free \ Within(h, at, len)
      /\ \A o \in DOMAIN g.free : g.free[o] = h.free[o]
    BY <1>3
<1>7. ASSUME NEW u \in Nat
      PROVE  u \in Covers(g.free) <=> u \in Covers(h.free) /\ u \notin Run(at, len)
    <2>1. ASSUME NEW o \in DOMAIN h.free, o <= u, u < o + h.free[o]
          PROVE  o \in Within(h, at, len) <=> u \in Run(at, len)
        <3>1. o \in Nat /\ h.free[o] \in Nat /\ h.free[o] >= 1
            BY <1>4, BlockIs
        <3>2. \/ o + h.free[o] <= at \/ at + len <= o
              \/ at <= o /\ o + h.free[o] <= at + len
            BY DEF Grown, Clean
        <3>3. o \in Within(h, at, len) <=> at <= o /\ o < at + len
            BY DEF Within
        <3>4. u \in Run(at, len) <=> at <= u /\ u < at + len
            BY <1>5, RunIs
        <3> QED BY <1>5, <2>1, <3>1, <3>2, <3>3, <3>4
    <2>2. u \in Covers(h.free) <=> \E o \in DOMAIN h.free : o <= u /\ u < o + h.free[o]
        BY <1>4, CoversIs
    <2>3. u \in Covers(g.free) <=> \E o \in DOMAIN g.free : o <= u /\ u < o + g.free[o]
        BY <1>4, CoversIs
    <2>4. ASSUME u \in Covers(g.free) PROVE u \in Covers(h.free) /\ u \notin Run(at, len)
        <3>1. PICK o \in DOMAIN g.free : o <= u /\ u < o + g.free[o]
            BY <2>3, <2>4
        <3>2. o \in DOMAIN h.free /\ o \notin Within(h, at, len) /\ u < o + h.free[o]
            BY <1>6, <3>1
        <3> QED BY <2>1, <2>2, <3>1, <3>2
    <2>5. ASSUME u \in Covers(h.free), u \notin Run(at, len) PROVE u \in Covers(g.free)
        <3>1. PICK o \in DOMAIN h.free : o <= u /\ u < o + h.free[o]
            BY <2>2, <2>5
        <3>2. o \notin Within(h, at, len)
            BY <2>1, <2>5, <3>1
        <3>3. o \in DOMAIN g.free /\ u < o + g.free[o]
            BY <1>6, <3>1, <3>2
        <3> QED BY <2>3, <3>1, <3>3
    <2> QED BY <2>4, <2>5
<1>8. \A u \in Covers(g.free) \cup Covers(h.free) : u \in Nat
    BY <1>4, CoversIs
<1>9. \A u \in Run(at, len) \cup Run(off, size) : u \in Nat
    BY <1>5, RunIs
<1>10. Taken(g.free, g.span, at, len)
    <2>1. Run(at, len) \cap Covers(g.free) = {}
        BY <1>7, <1>8
    <2>2. Run(at, len) \subseteq Storage(g.span)
        BY <1>4 DEF Grown
    <2> QED BY <1>5, <2>1, <2>2 DEF Taken
<1>11. Run(off, size) \subseteq Run(at, len)
    BY <1>5, RunIs
<1>12. Run(at, len) \subseteq Run(off, size) \cup Covers(h.free)
    BY DEF Grown
<1>13. Covers(h.free) \cup Run(off, size) = Covers(g.free) \cup Run(at, len)
    BY <1>7, <1>8, <1>9, <1>11, <1>12
<1> QED BY <1>1, <1>3, <1>4, <1>10, <1>13

(* A taken run grows by the free block above it, or by that below it.      *)
LEMMA GrowsAbove ==
    ASSUME NEW f, NEW s, Blocks(f, s), Spanned(s), NEW off, NEW size, NEW at, NEW len,
           Grown(f, s, off, size, at, len), at + len \in DOMAIN f
    PROVE  /\ Grown(f, s, off, size, at, len + f[at + len])
           /\ f[at + len] \in Nat /\ f[at + len] >= 1 /\ at + len + f[at + len] <= s
<1>1. /\ off \in Nat /\ size \in Nat /\ at \in Nat /\ len \in Nat /\ len >= 1
      /\ at <= off /\ off + size <= at + len
    BY DEF Grown
<1>2. PICK b, n : b = at + len /\ n = f[b] /\ b \in DOMAIN f
    OBVIOUS
<1>3. b \in Nat /\ n \in Nat /\ n >= 1 /\ b + n <= s /\ Run(b, n) \subseteq Storage(s)
    BY <1>2, BlockIs DEF Blocks
<1>4. \A u : u \in Run(at, len + n) <=> u \in Run(at, len) \/ u \in Run(b, n)
    BY <1>1, <1>2, <1>3, RunIs
<1>5. Run(b, n) \subseteq Covers(f)
    BY <1>2 DEF Covers
<1>6. Clean(f, at, len + n)
    <2> SUFFICES ASSUME NEW o \in DOMAIN f
                 PROVE  \/ o + f[o] <= at \/ at + (len + n) <= o
                        \/ at <= o /\ o + f[o] <= at + (len + n)
        BY DEF Clean
    <2>1. o \in Nat /\ f[o] \in Nat /\ f[o] >= 1
        BY BlockIs
    <2>2. \/ o + f[o] <= at \/ at + len <= o
          \/ at <= o /\ o + f[o] <= at + len
        BY DEF Grown, Clean
    <2>3. b < o => b + n <= o
        BY <1>2 DEF Blocks
    <2> QED BY <1>1, <1>2, <1>3, <2>1, <2>2, <2>3
<1>7. Run(at, len + n) \subseteq Storage(s) /\ Run(at, len + n) \subseteq Run(off, size) \cup Covers(f)
    BY <1>3, <1>4, <1>5 DEF Grown
<1>8. len + n \in Nat /\ len + n >= 1 /\ off + size <= at + (len + n)
    BY <1>1, <1>3
<1> QED BY <1>1, <1>2, <1>3, <1>6, <1>7, <1>8 DEF Grown

(* Absorption ends, and has grown the run by whole free blocks.            *)
Reaches(h, off, f) ==
    f = [s \in 1..h.span |->
            IF IsPowerOfTwo(s) \/ off + s \notin DOMAIN h.free
            THEN s
            ELSE f[s + h.free[off + s]]]

(* The recursion of Absorbed ends: each step is longer, and none is longer *)
(* than the pool.                                                          *)
LEMMA ReachExists ==
    ASSUME NEW h, Blocks(h.free, h.span), Spanned(h.span), NEW off \in Nat
    PROVE  \E f : Reaches(h, off, f)
<1>1. PICK n, free : n = h.span /\ free = h.free
    OBVIOUS
<1>2. n \in Nat
    BY <1>1 DEF Spanned
<1>3. \A o \in DOMAIN free : o \in Nat /\ free[o] \in Nat /\ free[o] >= 1 /\ o + free[o] <= n
    BY <1>1, BlockIs
<1> DEFINE Ends(s) == IsPowerOfTwo(s) \/ off + s \notin DOMAIN free
           B == {i \in 0..n : i = n \/ Ends(n - i)}
           A == [i \in 0..n |-> n - i]
           next == [i \in 0..n |-> IF i \in B THEN 0 ELSE i - free[off + (n - i)]]
           G == [i \in 0..n |-> [x \in Nat |-> x]]
<1>4. Descends(n, Nat, B, A, next, G)
    <2>1. ASSUME NEW i \in 0..n, i \notin B PROVE next[i] \in Nat /\ next[i] < i
        <3>1. off + (n - i) \in DOMAIN free
            BY <2>1
        <3>2. PICK o : o = off + (n - i)
            OBVIOUS
        <3>3. o \in DOMAIN free
            BY <3>1, <3>2
        <3>4. o \in Nat /\ free[o] \in Nat /\ free[o] >= 1 /\ o + free[o] <= n
            BY <1>3, <3>3
        <3>5. next[i] = i - free[o]
            BY <2>1, <3>2
        <3> HIDE DEF next, B
        <3> QED BY <1>2, <3>2, <3>4, <3>5
    <2>2. next \in [0..n -> Nat]
        <3>1. \A i \in 0..n : i \in B => next[i] = 0
            OBVIOUS
        <3>2. next = [i \in 0..n |-> next[i]]
            OBVIOUS
        <3> HIDE DEF next, B
        <3> QED BY <2>1, <3>1, <3>2
    <2>3. A \in [0..n -> Nat] /\ G \in [0..n -> [Nat -> Nat]]
        BY <1>2
    <2> HIDE DEF next, B, A, G
    <2> QED BY <1>2, <2>1, <2>2, <2>3 DEF Descends
<1>5. PICK g \in [0..n -> Nat] : Follows(g, n, B, A, next, G)
    <2> HIDE DEF A, next, G, B
    <2> QED BY <1>4, Recursion
<1> DEFINE f == [s \in 1..n |-> g[n - s]]
<1>6. ASSUME NEW s \in 1..n
      PROVE  f[s] = IF Ends(s) THEN s ELSE f[s + free[off + s]]
    <2>1. PICK i : i = n - s
        OBVIOUS
    <2>2. i \in 0..n /\ n - i = s /\ i # n
        BY <1>2, <2>1
    <2>3. f[s] = g[i]
        BY <2>1
    <2>4. i \in B <=> Ends(s)
        <3> HIDE DEF Ends
        <3> QED BY <2>2
    <2>5. g[i] = IF i \in B THEN A[i] ELSE G[i][g[next[i]]]
        <3> HIDE DEF A, next, G, B
        <3> QED BY <1>5, <2>2 DEF Follows
    <2>6. CASE Ends(s)
        <3>1. A[i] = s
            BY <2>2
        <3> HIDE DEF f, A, B, Ends
        <3> QED BY <2>3, <2>4, <2>5, <2>6, <3>1
    <2>7. CASE ~Ends(s)
        <3>1. PICK o : o = off + s
            OBVIOUS
        <3>2. o \in DOMAIN free
            BY <2>7, <3>1
        <3>3. o \in Nat /\ free[o] \in Nat /\ free[o] >= 1 /\ o + free[o] <= n
            BY <1>3, <3>2
        <3>4. next[i] = i - free[o]
            <4>1. next[i] = i - free[off + (n - i)]
                <5> HIDE DEF B
                <5> QED BY <2>2, <2>4, <2>7
            <4> HIDE DEF next
            <4> QED BY <2>2, <3>1, <4>1
        <3>5. i - free[o] \in 0..n /\ i - free[o] = n - (s + free[o]) /\ s + free[o] \in 1..n
            <4> PICK m : m = free[o]
                OBVIOUS
            <4>1. m \in Nat /\ m >= 1 /\ o + m <= n /\ s \in Nat /\ s >= 1 /\ s <= n
                BY <1>2, <3>3
            <4>3. off \in Nat /\ n \in Nat /\ off + s + m <= n
                BY <1>2, <3>1, <4>1
            <4>2. n - s - m \in 0..n /\ n - s - m = n - (s + m) /\ s + m \in 1..n
                <5> HIDE DEF f, A, next, G, B, Ends
                <5>1. m \in Int /\ s \in Int /\ n \in Int /\ off \in Int
                    BY <4>3, <4>1
                <5>2. n - s - m >= 0
                    BY <5>1, <4>3, <4>1
                <5>3. n - s - m = n - (s + m)
                    BY <5>1
                <5>4. s + m <= n
                    BY <5>1, <5>2
                <5>5. n - s - m \in 0..n
                    BY <5>1, <5>2, <4>1, <4>3
                <5>6. s + m \in 1..n
                    BY <5>1, <5>4, <4>1, <4>3
                <5> QED BY <5>3, <5>5, <5>6
            <4> HIDE DEF f, A, next, G, B, Ends
            <4> QED BY <2>1, <4>2
        <3>6. G[i][g[i - free[o]]] = g[i - free[o]]
            <4>1. g[i - free[o]] \in Nat
                BY <3>5
            <4> QED BY <2>2, <4>1
        <3>7. f[s + free[o]] = g[i - free[o]]
            BY <3>5
        <3> HIDE DEF f, A, B, Ends, next, G
        <3> QED BY <2>3, <2>4, <2>5, <2>7, <3>1, <3>4, <3>6, <3>7
    <2> HIDE DEF f, Ends
    <2> QED BY <2>6, <2>7
<1>7. f = [s \in 1..n |-> IF Ends(s) THEN s ELSE f[s + free[off + s]]]
    <2>1. f = [s \in 1..n |-> f[s]]
        OBVIOUS
    <2> HIDE DEF f, Ends
    <2> QED BY <1>6, <2>1
<1>8. Reaches(h, off, f)
    <2> HIDE DEF f
    <2> QED BY <1>1, <1>7 DEF Reaches
<1> HIDE DEF f
<1> QED BY <1>8

(* So the run it ends with has grown by whole free blocks.                 *)
LEMMA AbsorbedIs ==
    ASSUME NEW h, Blocks(h.free, h.span), Spanned(h.span),
           NEW off, NEW size, Taken(h.free, h.span, off, size)
    PROVE  Grown(h.free, h.span, off, size, off, Absorbed(h, off, size))
<1>1. /\ off \in Nat /\ size \in Nat /\ size >= 1 /\ off + size <= h.span /\ h.span \in Nat
    BY ShortRun DEF Taken, Spanned
<1>2. PICK f : f = CHOOSE x : Reaches(h, off, x)
    OBVIOUS
<1>3. Reaches(h, off, f)
    BY <1>1, <1>2, ReachExists
<1>4. Absorbed(h, off, size) = f[size]
    BY <1>2, Zenon DEF Absorbed, Reaches
<1>5. \A s \in 1..h.span : f[s] = IF IsPowerOfTwo(s) \/ off + s \notin DOMAIN h.free
                                  THEN s ELSE f[s + h.free[off + s]]
    BY <1>3 DEF Reaches
<1> DEFINE Good(s) == Grown(h.free, h.span, off, size, off, s)
           T == {i \in 0..h.span : Good(h.span - i) /\ ~Good(f[h.span - i])}
<1>6. T = {}
    <2> SUFFICES ASSUME T # {} PROVE FALSE
        OBVIOUS
    <2>1. T \subseteq Nat
        OBVIOUS
    <2>2. PICK i \in T : \A j \in T : i <= j
        <3> HIDE DEF T
        <3> QED BY <2>1, Least
    <2>3. PICK s : s = h.span - i
        OBVIOUS
    <2>4. i \in 0..h.span /\ Good(s) /\ ~Good(f[s])
        <3> HIDE DEF Good
        <3> QED BY <2>3
    <2>5. s \in 1..h.span
        <3>1. s \in Nat /\ s >= 1
            BY <2>4 DEF Grown
        <3> QED BY <1>1, <2>3, <2>4, <3>1
    <2>6. ~IsPowerOfTwo(s) /\ off + s \in DOMAIN h.free
        <3> HIDE DEF Good
        <3> QED BY <1>5, <2>4, <2>5
    <2>7. PICK n : n = h.free[off + s]
        OBVIOUS
    <2>8. Good(s + n) /\ n \in Nat /\ n >= 1 /\ off + s + n <= h.span
        BY <2>4, <2>6, <2>7, GrowsAbove
    <2>9. f[s] = f[s + n]
        BY <1>5, <2>5, <2>6, <2>7
    <2>10. i - n \in 0..h.span /\ h.span - (i - n) = s + n /\ ~(i <= i - n)
        BY <1>1, <2>3, <2>4, <2>5, <2>8
    <2>11. i - n \in T
        <3> HIDE DEF Good
        <3> QED BY <2>4, <2>8, <2>9, <2>10
    <2> HIDE DEF T, Good
    <2> QED BY <2>2, <2>10, <2>11
<1>7. Good(size)
    BY TakenIsGrown
<1>8. Good(f[size])
    <2>1. PICK i : i = h.span - size
        OBVIOUS
    <2>2. i \in 0..h.span /\ h.span - i = size
        BY <1>1, <2>1
    <2> HIDE DEF Good
    <2> QED BY <1>6, <1>7, <2>2
<1> QED BY <1>4, <1>8

(* And so it does by the one below it.                                     *)
LEMMA GrowsBelow ==
    ASSUME NEW f, NEW s, Blocks(f, s), Spanned(s), NEW off, NEW size, NEW at, NEW len,
           Grown(f, s, off, size, at, len), NEW b \in DOMAIN f, b + f[b] = at
    PROVE  Grown(f, s, off, size, b, len + f[b])
<1>1. /\ off \in Nat /\ size \in Nat /\ at \in Nat /\ len \in Nat /\ len >= 1
      /\ at <= off /\ off + size <= at + len
    BY DEF Grown
<1>2. PICK n : n = f[b]
    OBVIOUS
<1>3. b \in Nat /\ n \in Nat /\ n >= 1 /\ b + n = at /\ Run(b, n) \subseteq Storage(s)
    BY <1>2, BlockIs DEF Blocks
<1>4. \A u : u \in Run(b, len + n) <=> u \in Run(at, len) \/ u \in Run(b, n)
    BY <1>1, <1>3, RunIs
<1>5. Run(b, n) \subseteq Covers(f)
    BY <1>2 DEF Covers
<1>6. Clean(f, b, len + n)
    <2> SUFFICES ASSUME NEW o \in DOMAIN f
                 PROVE  \/ o + f[o] <= b \/ b + (len + n) <= o
                        \/ b <= o /\ o + f[o] <= b + (len + n)
        BY DEF Clean
    <2>1. o \in Nat /\ f[o] \in Nat /\ f[o] >= 1
        BY BlockIs
    <2>2. \/ o + f[o] <= at \/ at + len <= o
          \/ at <= o /\ o + f[o] <= at + len
        BY DEF Grown, Clean
    <2>3. o < b => o + f[o] <= b
        BY DEF Blocks
    <2> QED BY <1>1, <1>3, <2>1, <2>2, <2>3
<1>7. Run(b, len + n) \subseteq Storage(s) /\ Run(b, len + n) \subseteq Run(off, size) \cup Covers(f)
    BY <1>3, <1>4, <1>5 DEF Grown
<1>8. len + n \in Nat /\ len + n >= 1 /\ b <= off /\ off + size <= b + (len + n)
    BY <1>1, <1>3
<1> QED BY <1>1, <1>2, <1>3, <1>6, <1>7, <1>8 DEF Grown

(* A buddy lies beside the block, and below it only where there is room.   *)
LEMMA BuddyIs ==
    ASSUME NEW x \in Nat, NEW p \in Nat, p >= 1
    PROVE  /\ Buddy(x, p) \in Nat /\ Min({x, Buddy(x, p)}) \in Nat
           /\ \/ Buddy(x, p) = x + p /\ Min({x, Buddy(x, p)}) = x
              \/ Buddy(x, p) + p = x /\ Min({x, Buddy(x, p)}) = Buddy(x, p)
<1>1. PICK q : q = x \div p
    OBVIOUS
<1>2. q \in Nat
    BY <1>1, Quotient
<1>3. PICK b : b = Buddy(x, p)
    OBVIOUS
<1>4. q % 2 = 0 \/ x >= p
    <2>1. x < p => q = 0
        <3>1. \A i \in Nat : i * p <= x /\ x < i * p + p => q = i
            BY <1>1, Quotient
        <3>2. 0 * p = 0
            OBVIOUS
        <3> QED BY <3>1, <3>2
    <2> QED BY <1>2, <2>1
<1>5. b \in Nat /\ (b = x + p \/ b + p = x)
    BY <1>1, <1>3, <1>4 DEF Buddy
<1>6. Min({x, b}) \in {x, b} /\ Min({x, b}) <= x /\ Min({x, b}) <= b
    <2>1. {x, b} \subseteq Nat /\ {x, b} # {}
        BY <1>5
    <2> QED BY <2>1, MinIs
<1> QED BY <1>3, <1>5, <1>6

(* Where the merged block starts, class by class.                          *)
Steps(off, first, at) ==
    at = [k \in 0..(Classes - 1) |->
             IF k <= first THEN off
             ELSE Min({at[k - 1], Buddy(at[k - 1], Power[k - 1])})]

(* Each start depends on the one before it.                                *)
LEMMA BaseExists ==
    ASSUME NEW off \in Nat, NEW first \in Nat
    PROVE  \E at : Steps(off, first, at)
<1>1. PICK n : n = Classes - 1
    OBVIOUS
<1>2. n \in Nat /\ Classes \in Nat /\ Classes = n + 1
    BY <1>1, Geometry
<1> DEFINE B == 0..first
           A == [k \in 0..n |-> off]
           next == [k \in 0..n |-> IF k = 0 THEN 0 ELSE k - 1]
           Lower(k, x) == Min({x, Buddy(x, Power[k - 1])})
           G == [k \in 0..n |-> [x \in Nat |-> IF k = 0 THEN x ELSE Lower(k, x)]]
<1>3. ASSUME NEW k \in 0..n, NEW x \in Nat, k # 0 PROVE Lower(k, x) \in Nat
    <2>1. k - 1 \in 0..Classes
        BY <1>1, <1>2, <1>3
    <2> QED BY <2>1, Powers, BuddyIs
<1>4. Descends(n, Nat, B, A, next, G)
    <2>1. A \in [0..n -> Nat] /\ next \in [0..n -> Nat] /\ \A k \in 0..n : k \in B \/ next[k] < k
        BY <1>2
    <2>2. G \in [0..n -> [Nat -> Nat]]
        <3> HIDE DEF Lower
        <3> QED BY <1>3
    <2> HIDE DEF A, B, next, G
    <2> QED BY <1>2, <2>1, <2>2 DEF Descends
<1>5. PICK at \in [0..n -> Nat] : Follows(at, n, B, A, next, G)
    <2> HIDE DEF A, B, next, G
    <2> QED BY <1>4, Recursion
<1>6. ASSUME NEW k \in 0..n
      PROVE  at[k] = IF k <= first THEN off ELSE Lower(k, at[k - 1])
    <2>1. at[k] = IF k \in B THEN A[k] ELSE G[k][at[next[k]]]
        <3> HIDE DEF A, B, next, G
        <3> QED BY <1>5 DEF Follows
    <2>2. k \in B <=> k <= first
        OBVIOUS
    <2>3. A[k] = off
        OBVIOUS
    <2>4. CASE ~(k <= first)
        <3>1. k # 0 /\ k - 1 \in 0..n /\ next[k] = k - 1
            BY <1>2, <2>4
        <3>2. at[k - 1] \in Nat
            BY <3>1
        <3>3. G[k][at[k - 1]] = Lower(k, at[k - 1])
            <4> HIDE DEF Lower
            <4> QED BY <3>1, <3>2
        <3> HIDE DEF A, B, next, G, Lower
        <3> QED BY <2>1, <2>2, <2>4, <3>1, <3>3
    <2> HIDE DEF A, B, next, G, Lower
    <2> QED BY <2>1, <2>2, <2>3, <2>4
<1>7. at = [k \in 0..n |-> IF k <= first THEN off ELSE Lower(k, at[k - 1])]
    <2>1. at = [k \in 0..n |-> at[k]]
        OBVIOUS
    <2> HIDE DEF Lower
    <2> QED BY <1>6, <2>1
<1> QED BY <1>1, <1>7 DEF Steps

(* Base is what its definition says it is.                                 *)
LEMMA BaseIs ==
    ASSUME NEW off \in Nat, NEW first \in Nat
    PROVE  Steps(off, first, Base(off, first))
<1>1. Base(off, first) = CHOOSE at : Steps(off, first, at)
    BY Zenon DEF Base, Steps
<1> QED BY <1>1, BaseExists

(* Merging grows the run as well, and ends with a block of a class.        *)
LEMMA MergedIs ==
    ASSUME NEW h, Blocks(h.free, h.span), Spanned(h.span), NEW first \in 0..(Classes - 1),
           NEW off, Taken(h.free, h.span, off, Power[first])
    PROVE  /\ Grown(h.free, h.span, off, Power[first],
                    Merged(h, off, first).off, Merged(h, off, first).len)
           /\ \E k \in 0..(Classes - 1) : Merged(h, off, first).len = Power[k]
<1> DEFINE Stays(at, k) == ~(/\ Buddy(at[k], Power[k]) > 0 /\ Buddy(at[k], Power[k]) < h.span
                             /\ Buddy(at[k], Power[k]) \in DOMAIN h.free
                             /\ h.free[Buddy(at[k], Power[k])] = Power[k])
           Ends(at) == {k \in first..(Classes - 1) : k = Classes - 1 \/ Stays(at, k)}
<1>1. PICK at, last : at = Base(off, first) /\ last = Min(Ends(at))
    OBVIOUS
<1>2. Merged(h, off, first) = [off |-> at[last], len |-> Power[last]]
    BY <1>1, Zenon DEF Merged
<1>3. off \in Nat /\ first \in Nat /\ Classes - 1 \in Nat /\ Classes \in Nat
    BY Geometry DEF Taken
<1>4. last \in first..(Classes - 1) /\ \A k \in first..(Classes - 1) : k < last => ~Stays(at, k)
    <2>1. Ends(at) \subseteq Nat
        BY <1>3
    <2>2. Classes - 1 \in Ends(at)
        BY <1>3
    <2>3. last \in Ends(at) /\ \A k \in Ends(at) : last <= k
        <3> HIDE DEF Ends
        <3> QED BY <1>1, <2>1, <2>2, MinIs
    <2>4. last \in Nat
        <3> HIDE DEF Ends
        <3> QED BY <2>1, <2>3
    <2>5. ASSUME NEW k \in first..(Classes - 1), k < last, Stays(at, k) PROVE FALSE
        <3>1. k \in Ends(at)
            <4> HIDE DEF Stays
            <4> QED BY <2>5
        <3>2. k \in Nat
            BY <1>3
        <3> HIDE DEF Ends, Stays
        <3> QED BY <2>3, <2>4, <2>5, <3>1, <3>2
    <2>6. last \in first..(Classes - 1)
        <3> HIDE DEF Stays
        <3> QED BY <2>3
    <2> HIDE DEF Ends, Stays
    <2> QED BY <2>5, <2>6
<1>5. \A k \in 0..(Classes - 1) :
        at[k] = IF k <= first THEN off ELSE Min({at[k - 1], Buddy(at[k - 1], Power[k - 1])})
    <2> DEFINE One(a, k) == IF k <= first THEN off
                            ELSE Min({a[k - 1], Buddy(a[k - 1], Power[k - 1])})
    <2>1. Steps(off, first, at)
        BY <1>1, <1>3, BaseIs
    <2>2. at = [k \in 0..(Classes - 1) |-> One(at, k)]
        BY <2>1, Zenon DEF Steps
    <2>3. \A k \in 0..(Classes - 1) : at[k] = One(at, k)
        <3> HIDE DEF One
        <3> QED BY <2>2
    <2> QED BY <2>3
<1> DEFINE Good(k) == Grown(h.free, h.span, off, Power[first], at[k], Power[k])
           H == {i \in 0..(last - first) : Good(first + i)}
<1>6. 0 \in H
    <2>1. at[first] = off
        <3>1. first <= first
            BY <1>3
        <3> QED BY <1>5, <3>1
    <2>2. Good(first)
        BY <2>1, TakenIsGrown
    <2>3. 0 \in 0..(last - first) /\ first + 0 = first
        BY <1>3, <1>4
    <2> HIDE DEF Good
    <2> QED BY <2>2, <2>3
<1>7. ASSUME NEW i \in 1..(last - first), i - 1 \in H PROVE i \in H
    <2>1. PICK j : j = first + i - 1
        OBVIOUS
    <2>2. /\ j \in first..(Classes - 1) /\ j < last /\ first + (i - 1) = j
          /\ first + i = j + 1 /\ j + 1 \in 0..(Classes - 1) /\ j \in 0..Classes /\ j + 1 - 1 = j
          /\ ~(j + 1 <= first) /\ j + 1 \in 1..Classes
        BY <1>3, <1>4, <2>1
    <2>3. Good(j)
        <3> HIDE DEF Good
        <3> QED BY <1>7, <2>2
    <2>4. PICK x, p, b : x = at[j] /\ p = Power[j] /\ b = Buddy(x, p)
        OBVIOUS
    <2>5. x \in Nat /\ p \in Nat /\ p >= 1
        BY <2>2, <2>3, <2>4, Powers DEF Grown
    <2>6. b \in DOMAIN h.free /\ h.free[b] = p
        BY <1>4, <2>2, <2>4
    <2>7. at[j + 1] = Min({x, b})
        BY <1>5, <2>2, <2>4
    <2>8. \/ b = x + p /\ Min({x, b}) = x
          \/ b + p = x /\ Min({x, b}) = b
        BY <2>4, <2>5, BuddyIs
    <2>9. Power[j + 1] = p + p
        <3>1. Power[j + 1] = 2 * Power[j]
            <4> PICK m : m = j + 1
                OBVIOUS
            <4>1. m \in 1..Classes /\ m - 1 = j
                BY <2>2
            <4>2. Power[m] = 2 * Power[m - 1]
                BY <4>1, PowerIs
            <4> QED BY <4>1, <4>2
        <3> QED BY <2>4, <2>5, <3>1
    <2>10. Grown(h.free, h.span, off, Power[first], x, p)
        BY <2>3, <2>4
    <2>11. CASE b = x + p /\ Min({x, b}) = x
        <3>1. Grown(h.free, h.span, off, Power[first], x, p + h.free[x + p])
            BY <2>6, <2>10, <2>11, GrowsAbove
        <3>2. Good(j + 1)
            BY <2>6, <2>7, <2>9, <2>11, <3>1
        <3> HIDE DEF Good
        <3> QED BY <2>2, <3>2
    <2>12. CASE b + p = x /\ Min({x, b}) = b
        <3>1. Grown(h.free, h.span, off, Power[first], b, p + h.free[b])
            BY <2>6, <2>10, <2>12, GrowsBelow
        <3>2. Good(j + 1)
            BY <2>6, <2>7, <2>9, <2>12, <3>1
        <3> HIDE DEF Good
        <3> QED BY <2>2, <3>2
    <2> HIDE DEF H, Good
    <2> QED BY <2>8, <2>11, <2>12
<1>8. Good(last)
    <2>1. PICK d : d = last - first
        OBVIOUS
    <2>2. d \in Nat /\ first + d = last /\ d \in 0..d
        BY <1>3, <1>4, <2>1
    <2>3. 0..d \subseteq H
        <3> HIDE DEF H
        <3> QED BY <1>6, <1>7, <2>1, <2>2, UpTo
    <2> HIDE DEF Good
    <2> QED BY <2>2, <2>3
<1>9. last \in 0..(Classes - 1)
    BY <1>3, <1>4
<1> QED BY <1>2, <1>8, <1>9

(* The lengths that remain while a run is carved up, one chunk after       *)
(* another.                                                                *)
Carved(size, left) ==
    left = [n \in 0..size |-> IF n = 0 THEN {} ELSE {n} \cup left[n - Chunk(n)]]

(* The recursion of Decomposition ends: each chunk is some of what is      *)
(* left.                                                                   *)
LEMMA CarvedExists ==
    ASSUME NEW size \in 1..(Segment - 1)
    PROVE  \E left : Carved(size, left) /\ left \in [0..size -> SUBSET Nat]
<1>1. size \in Nat /\ \A n \in 1..size : Chunk(n) \in 1..n
    <2>1. Segment \in Nat
        BY Sizing
    <2>2. size \in Nat /\ \A n \in 1..size : n \in 1..(Segment - 1)
        BY <2>1
    <2> QED BY <2>2, ChunkIs
<1> DEFINE S == SUBSET Nat
           B == {0}
           A == [n \in 0..size |-> {}]
           next == [n \in 0..size |-> IF n = 0 THEN 0 ELSE n - Chunk(n)]
           G == [n \in 0..size |-> [X \in S |-> {n} \cup X]]
<1>2. \A n \in 1..size : n \in 0..size /\ n # 0 /\ n - Chunk(n) \in 0..size /\ n - Chunk(n) < n
                         /\ next[n] = n - Chunk(n)
    <2> SUFFICES ASSUME NEW n \in 1..size
                 PROVE  n \in 0..size /\ n # 0 /\ n - Chunk(n) \in 0..size /\ n - Chunk(n) < n
                         /\ next[n] = n - Chunk(n)
        BY Zenon
    <2>1. n \in 0..size /\ n # 0
        BY <1>1
    <2>2. PICK c : c = Chunk(n)
        OBVIOUS
    <2>3. c \in 1..n
        BY <1>1, <2>2
    <2>4. n - c \in 0..size /\ n - c < n
        BY <1>1, <2>3
    <2>5. next[n] = n - Chunk(n)
        BY <2>1
    <2> HIDE DEF next
    <2> QED BY <2>1, <2>2, <2>4, <2>5
<1>3. Descends(size, S, B, A, next, G)
    <2>1. next \in [0..size -> Nat] /\ \A n \in 0..size : n \in B \/ next[n] < n
        <3>1. \A n \in 0..size : n \in B \/ (next[n] \in Nat /\ next[n] < n)
            <4>1. \A n \in 0..size : n \in B \/ n \in 1..size
                BY <1>1
            <4> HIDE DEF next, B
            <4> QED BY <1>1, <1>2, <4>1
        <3>2. next[0] = 0
            BY <1>1
        <3>3. next = [n \in 0..size |-> next[n]]
            OBVIOUS
        <3> HIDE DEF next
        <3> QED BY <3>1, <3>2, <3>3
    <2>2. A \in [0..size -> S]
        OBVIOUS
    <2>3. G \in [0..size -> [S -> S]]
        <3>1. ASSUME NEW n \in 0..size, NEW X \in S PROVE {n} \cup X \in S
            BY <1>1
        <3> HIDE DEF S
        <3> QED BY <3>1
    <2> HIDE DEF A, B, next, G, S
    <2> QED BY <1>1, <2>1, <2>2, <2>3 DEF Descends
<1>4. PICK left \in [0..size -> S] : Follows(left, size, B, A, next, G)
    <2> HIDE DEF A, B, next, G, S
    <2> QED BY <1>3, Recursion
<1>5. ASSUME NEW n \in 0..size
      PROVE  left[n] = IF n = 0 THEN {} ELSE {n} \cup left[n - Chunk(n)]
    <2>1. left[n] = IF n \in B THEN A[n] ELSE G[n][left[next[n]]]
        <3> HIDE DEF A, B, next, G, S
        <3> QED BY <1>4 DEF Follows
    <2>2. CASE n = 0
        BY <2>1, <2>2
    <2>3. CASE n # 0
        <3>1. n \in 1..size
            BY <1>1, <2>3
        <3>2. next[n] = n - Chunk(n) /\ n - Chunk(n) \in 0..size
            <4> HIDE DEF next
            <4> QED BY <1>2, <3>1
        <3>3. left[n - Chunk(n)] \in S
            BY <3>2
        <3>4. G[n][left[n - Chunk(n)]] = {n} \cup left[n - Chunk(n)]
            <4> HIDE DEF S
            <4> QED BY <3>3
        <3>5. n \notin B
            BY <2>3
        <3> HIDE DEF A, B, next, G, S
        <3> QED BY <2>1, <2>3, <3>2, <3>4, <3>5
    <2> QED BY <2>2, <2>3
<1>6. Carved(size, left)
    <2>1. left = [n \in 0..size |-> left[n]]
        OBVIOUS
    <2> QED BY <1>5, <2>1 DEF Carved
<1> QED BY <1>4, <1>6

(* The chunks lie one above the other, and leave nothing out.              *)
Divides(L, n) ==
    /\ \A m \in L : m \in 1..n
    /\ \A m, k \in L : k < m => k <= m - Chunk(m)
    /\ \A u \in 1..n : \E m \in L : m - Chunk(m) < u /\ u <= m

(* The lengths that remain divide the run.                                 *)
LEMMA CarvedIs ==
    ASSUME NEW size \in 1..(Segment - 1), NEW left, Carved(size, left)
    PROVE  Divides(left[size], size)
<1>1. size \in Nat /\ \A n \in 1..size : Chunk(n) \in 1..n
    <2>1. Segment \in Nat
        BY Sizing
    <2>2. size \in Nat /\ \A n \in 1..size : n \in 1..(Segment - 1)
        BY <2>1
    <2> QED BY <2>2, ChunkIs
<1>2. \A n \in 0..size : left[n] = IF n = 0 THEN {} ELSE {n} \cup left[n - Chunk(n)]
    BY DEF Carved
<1> DEFINE T == {n \in 0..size : ~Divides(left[n], n)}
<1>3. T = {}
    <2> SUFFICES ASSUME T # {} PROVE FALSE
        OBVIOUS
    <2>1. T \subseteq Nat
        OBVIOUS
    <2>2. PICK n \in T : \A j \in T : n <= j
        <3> HIDE DEF T
        <3> QED BY <2>1, Least
    <2>3. n # 0
        <3>1. n = 0 => left[n] = {}
            BY <1>2
        <3>2. Divides({}, 0)
            BY DEF Divides
        <3> QED BY <3>1, <3>2
    <2>4. n \in 1..size
        BY <1>1, <2>3
    <2>5. PICK c : c = Chunk(n)
        OBVIOUS
    <2>6. c \in 1..n
        BY <1>1, <2>4, <2>5
    <2>7. n - c \in 0..size /\ ~(n <= n - c)
        BY <1>1, <2>4, <2>6
    <2>8. PICK L : L = left[n - c]
        OBVIOUS
    <2>9. Divides(L, n - c)
        BY <2>2, <2>7, <2>8
    <2>10. left[n] = {n} \cup L
        BY <1>2, <2>3, <2>5, <2>8
    <2>11. \A m \in L : m \in 1..(n - c)
        BY <2>9 DEF Divides
    <2>12. \A m \in {n} \cup L : m \in 1..n
        BY <1>1, <2>4, <2>6, <2>11
    <2>13. ASSUME NEW m \in {n} \cup L, NEW k \in {n} \cup L, k < m PROVE k <= m - Chunk(m)
        <3>1. CASE m = n
            <4>1. k \in L
                BY <2>12, <2>13, <3>1
            <4> QED BY <2>5, <2>6, <2>11, <3>1, <4>1
        <3>2. CASE m \in L
            <4>1. k \in L
                BY <1>1, <2>4, <2>6, <2>11, <2>13, <3>2
            <4> QED BY <2>9, <2>13, <3>2, <4>1 DEF Divides
        <3> QED BY <3>1, <3>2
    <2>14. ASSUME NEW u \in 1..n PROVE \E m \in {n} \cup L : m - Chunk(m) < u /\ u <= m
        <3>1. CASE u \in 1..(n - c)
            BY <2>9, <3>1 DEF Divides
        <3>2. CASE u \notin 1..(n - c)
            <4>1. n - c < u /\ u <= n
                BY <2>4, <2>6, <3>2
            <4> QED BY <2>5, <4>1
        <3> QED BY <3>1, <3>2
    <2>15. Divides(left[n], n)
        BY <2>10, <2>12, <2>13, <2>14 DEF Divides
    <2> QED BY <2>15
<1>4. size \in 0..size
    BY <1>1
<1> QED BY <1>3, <1>4

(* The chunks are blocks, and cover the run.                               *)
LEMMA DecompositionIs ==
    ASSUME NEW s, Spanned(s), NEW off \in Nat, NEW size \in 1..(Segment - 1),
           Run(off, size) \subseteq Storage(s)
    PROVE  Blocks(Decomposition(off, size), s) /\ Covers(Decomposition(off, size)) = Run(off, size)
<1>1. PICK left : left = CHOOSE x : Carved(size, x)
    OBVIOUS
<1>2. Carved(size, left)
    BY <1>1, CarvedExists
<1> DEFINE L == left[size]
           e == off + size
<1>3. PICK f : f = Decomposition(off, size)
    OBVIOUS
<1>4. f = [o \in {e - n : n \in L} |-> Chunk(e - o)]
    <2>1. Decomposition(off, size) = [o \in {(off + size) - n : n \in left[size]} |-> Chunk((off + size) - o)]
        BY <1>1, Zenon DEF Decomposition, Carved
    <2> QED BY <1>3, <2>1, Zenon
<1>5. Divides(L, size)
    BY <1>2, CarvedIs
<1>6. size \in Nat /\ size >= 1 /\ off \in Nat /\ e \in Nat /\ e = off + size
    <2>1. Segment \in Nat
        BY Sizing
    <2> QED BY <2>1
<1> HIDE DEF L, e
<1>7. ASSUME NEW m \in L
      PROVE  /\ m \in 1..size /\ Chunk(m) \in 1..m
             /\ \E k \in 0..(Classes - 1) : Chunk(m) = Power[k]
             /\ e - m \in DOMAIN f /\ f[e - m] = Chunk(m)
    <2>1. m \in 1..size
        BY <1>5 DEF Divides
    <2>2. m \in 1..(Segment - 1)
        <3>1. Segment \in Nat
            BY Sizing
        <3> QED BY <2>1, <3>1
    <2>3. e - (e - m) = m
        BY <1>6, <2>1
    <2>4. e - m \in DOMAIN f
        BY <1>4
    <2>5. f[e - m] = Chunk(e - (e - m))
        BY <1>4, <2>4
    <2> QED BY <2>1, <2>2, <2>3, <2>4, <2>5, ChunkIs
<1>8. ASSUME NEW o \in DOMAIN f
      PROVE  /\ e - o \in L /\ o = e - (e - o) /\ f[o] = Chunk(e - o)
             /\ o \in Nat /\ f[o] \in 1..(e - o) /\ e - o \in 1..size
    <2>1. PICK n \in L : o = e - n
        BY <1>4
    <2>2. n \in 1..size /\ Chunk(n) \in 1..n
        BY <1>7
    <2>3. e - o = n /\ o = e - (e - o) /\ o \in Nat
        BY <1>6, <2>1, <2>2
    <2>4. f[o] = Chunk(n)
        BY <1>7, <2>1
    <2> QED BY <2>2, <2>3, <2>4
<1>9. f = [o \in DOMAIN f |-> f[o]]
    BY <1>4
<1>10. ASSUME NEW o \in DOMAIN f
       PROVE  Run(o, f[o]) \subseteq Run(off, size)
    <2>1. PICK c : c = f[o]
        OBVIOUS
    <2>2. o \in Nat /\ c \in Nat /\ off <= o /\ o + c <= off + size
        BY <1>6, <1>8, <2>1
    <2>3. ASSUME NEW u \in Run(o, c) PROVE u \in Run(off, size)
        <3>1. u \in Nat /\ o <= u /\ u < o + c
            BY <2>2, RunIs
        <3> QED BY <1>6, <2>2, <3>1, RunIs
    <2> QED BY <2>1, <2>3
<1>11. ASSUME NEW o \in DOMAIN f, NEW p \in DOMAIN f, o < p PROVE o + f[o] <= p
    <2>1. PICK m, k : m = e - o /\ k = e - p
        OBVIOUS
    <2>2. m \in L /\ k \in L /\ m \in 1..size /\ k \in 1..size /\ f[o] = Chunk(m) /\ o \in Nat /\ p \in Nat
        BY <1>8, <2>1
    <2>3. PICK c : c = Chunk(m)
        OBVIOUS
    <2>4. c \in 1..m
        BY <1>7, <2>2, <2>3
    <2>5. k < m
        BY <1>6, <1>11, <2>1, <2>2
    <2>6. k <= m - c
        BY <1>5, <2>2, <2>3, <2>5 DEF Divides
    <2> QED BY <1>6, <2>1, <2>2, <2>3, <2>4, <2>6
<1>12. Blocks(f, s)
    <2>1. ASSUME NEW o \in DOMAIN f
          PROVE  o \in Nat /\ (\E k \in 0..(Classes - 1) : f[o] = Power[k]) /\ Run(o, f[o]) \subseteq Storage(s)
        BY <1>7, <1>8, <1>10
    <2> QED BY <1>9, <1>11, <2>1 DEF Blocks
<1>13. ASSUME NEW u \in Run(off, size) PROVE u \in Covers(f)
    <2>1. u \in Nat /\ off <= u /\ u < off + size
        BY <1>6, RunIs
    <2>2. e - u \in 1..size
        BY <1>6, <2>1
    <2>3. PICK m \in L : m - Chunk(m) < e - u /\ e - u <= m
        BY <1>5, <2>2 DEF Divides
    <2>4. PICK c, o : c = Chunk(m) /\ o = e - m
        OBVIOUS
    <2>5. m \in 1..size /\ c \in 1..m /\ o \in DOMAIN f /\ f[o] = c
        BY <1>7, <2>4
    <2>6. o <= u /\ u < o + f[o]
        BY <1>6, <2>1, <2>3, <2>4, <2>5
    <2> QED BY <1>12, <2>1, <2>5, <2>6, CoversIs
<1>14. Covers(f) \subseteq Run(off, size)
    BY <1>10 DEF Covers
<1> QED BY <1>3, <1>12, <1>13, <1>14

(* The lists after a run of taken storage has been queued.                 *)
Queued(h, off, size, g) ==
    /\ Lists(g) /\ SameButLists(h, g)
    /\ FreeUnits(g) = FreeUnits(h) \cup Run(off, size)

(* Blocks that cover a taken run queue it.                                 *)
LEMMA InsertQueues ==
    ASSUME NEW h, Lists(h), NEW off, NEW size, Taken(h.free, h.span, off, size),
           NEW b, Blocks(b, h.span), Covers(b) = Run(off, size)
    PROVE  Queued(h, off, size, Insert(h, b))
<1>1. Covers(b) \cap FreeUnits(h) = {}
    BY FreeUnitsAre DEF Taken
<1> QED BY <1>1, InsertKeeps DEF Queued

(* A run with the length of a class is one block.                          *)
LEMMA OneBlock ==
    ASSUME NEW s, NEW at \in Nat, NEW len, Run(at, len) \subseteq Storage(s),
           NEW k \in 0..(Classes - 1), len = Power[k]
    PROVE  LET b == [o \in {at} |-> len] IN Blocks(b, s) /\ Covers(b) = Run(at, len)
<1>1. PICK b : b = [o \in {at} |-> len]
    OBVIOUS
<1>2. DOMAIN b = {at} /\ b[at] = len /\ b = [o \in DOMAIN b |-> b[o]]
    BY <1>1
<1>3. Covers(b) = Run(at, len)
    BY <1>2 DEF Covers
<1>4. Blocks(b, s)
    BY <1>2 DEF Blocks
<1> QED BY <1>1, <1>3, <1>4

(* Whatever a queued run absorbs, merges with or is carved into, the free  *)
(* storage gains exactly the run.                                          *)
LEMMA EnqueueIs ==
    ASSUME NEW h, Lists(h), NEW off, NEW size, Taken(h.free, h.span, off, size)
    PROVE  Queued(h, off, size, Enqueue(h, off, size))
<1>1. PICK grown : grown = Absorbed(h, off, size)
    OBVIOUS
<1>2. PICK h1 : h1 = Dequeue(h, Within(h, off, grown))
    OBVIOUS
<1>3. Grown(h.free, h.span, off, size, off, grown)
    BY <1>1, AbsorbedIs DEF Lists
<1>4. /\ Lists(h1) /\ SameButLists(h, h1) /\ Taken(h1.free, h1.span, off, grown)
      /\ FreeUnits(h) \cup Run(off, size) = FreeUnits(h1) \cup Run(off, grown)
    BY <1>2, <1>3, TakeIn
<1>5. /\ Spanned(h1.span) /\ Blocks(h1.free, h1.span) /\ off \in Nat /\ grown \in Nat /\ grown >= 1
      /\ Run(off, grown) \subseteq Storage(h1.span)
    BY <1>4 DEF Lists, Taken
<1>6. grown < Segment
    BY <1>5, ShortRun
<1>7. CASE IsPowerOfTwo(grown)
    <2>1. PICK c \in 0..Classes : grown = Power[c]
        BY <1>7 DEF IsPowerOfTwo, PowersOfTwo
    <2>2. c \in 0..(Classes - 1)
        BY <1>6, <2>1, Sizing
    <2>3. ClassIndex(grown) = c
        BY <2>1, ClassOfPower
    <2>4. PICK whole : whole = Merged(h1, off, c)
        OBVIOUS
    <2>5. /\ Grown(h1.free, h1.span, off, grown, whole.off, whole.len)
          /\ \E k \in 0..(Classes - 1) : whole.len = Power[k]
        BY <1>4, <1>5, <2>1, <2>2, <2>4, MergedIs
    <2>6. PICK h2 : h2 = Dequeue(h1, Within(h1, whole.off, whole.len))
        OBVIOUS
    <2>7. /\ Lists(h2) /\ SameButLists(h1, h2) /\ Taken(h2.free, h2.span, whole.off, whole.len)
          /\ FreeUnits(h1) \cup Run(off, grown) = FreeUnits(h2) \cup Run(whole.off, whole.len)
        BY <1>4, <2>5, <2>6, TakeIn
    <2>8. PICK b : b = [o \in {whole.off} |-> whole.len]
        OBVIOUS
    <2>9. Blocks(b, h2.span) /\ Covers(b) = Run(whole.off, whole.len)
        <3>1. PICK at, len, s : at = whole.off /\ len = whole.len /\ s = h2.span
            OBVIOUS
        <3>2. at \in Nat /\ Run(at, len) \subseteq Storage(s)
            BY <2>7, <3>1 DEF Taken
        <3>3. b = [o \in {at} |-> len]
            BY <2>8, <3>1
        <3>4. PICK k \in 0..(Classes - 1) : len = Power[k]
            BY <2>5, <3>1
        <3>5. Blocks(b, s) /\ Covers(b) = Run(at, len)
            BY <3>2, <3>3, <3>4, OneBlock
        <3> QED BY <3>1, <3>5
    <2>10. Queued(h2, whole.off, whole.len, Insert(h2, b))
        BY <2>7, <2>9, InsertQueues
    <2>11. Enqueue(h, off, size) = Insert(h2, b)
        BY <1>1, <1>2, <1>7, <2>3, <2>4, <2>6, <2>8, Zenon DEF Enqueue
    <2> QED BY <1>4, <2>7, <2>10, <2>11 DEF Queued, SameButLists
<1>8. CASE ~IsPowerOfTwo(grown)
    <2>1. grown \in 1..(Segment - 1)
        <3>1. Segment \in Nat
            BY Sizing
        <3> QED BY <1>5, <1>6, <3>1
    <2>2. PICK b : b = Decomposition(off, grown)
        OBVIOUS
    <2>3. Blocks(b, h1.span) /\ Covers(b) = Run(off, grown)
        BY <1>5, <2>1, <2>2, DecompositionIs
    <2>4. Queued(h1, off, grown, Insert(h1, b))
        BY <1>4, <2>3, InsertQueues
    <2>5. Enqueue(h, off, size) = Insert(h1, b)
        BY <1>1, <1>2, <1>8, <2>2, Zenon DEF Enqueue
    <2> QED BY <1>4, <2>4, <2>5 DEF Queued, SameButLists
<1> QED BY <1>7, <1>8

(***************************************************************************)
(* The pool and the extents it has assigned.                               *)
(***************************************************************************)

(* Extents that lie apart.                                                 *)
Journal(J) ==
    /\ J \subseteq [off : Nat, len : Nat \ {0}, id : Nat]
    /\ \A e, f \in J : e # f => e.off + e.len <= f.off \/ f.off + f.len <= e.off

(* What is not free is assigned, and used says how much that is.           *)
HeapInv(h) ==
    /\ Lists(h) /\ Journal(h.journal) /\ h.ids \in Nat
    /\ Covered(h.journal) = Storage(h.span) \ FreeUnits(h)
    /\ h.used = Cardinality(Covered(h.journal))

(* An extent has numbers in it.                                            *)
LEMMA ExtentIs ==
    ASSUME NEW J, Journal(J), NEW e \in J
    PROVE  /\ e = [off |-> e.off, len |-> e.len, id |-> e.id]
           /\ e.off \in Nat /\ e.len \in Nat /\ e.len >= 1 /\ e.id \in Nat
<1>1. e \in [off : Nat, len : Nat \ {0}, id : Nat]
    BY DEF Journal
<1> QED BY <1>1

(* Who is in an extent.                                                    *)
LEMMA CoveredIs ==
    ASSUME NEW J, Journal(J), NEW u
    PROVE  u \in Covered(J) <=> u \in Nat /\ \E e \in J : e.off <= u /\ u < e.off + e.len
<1>1. u \in Covered(J) <=> \E e \in J : u \in Run(e.off, e.len)
    BY DEF Covered
<1>2. ASSUME NEW e \in J
      PROVE  u \in Run(e.off, e.len) <=> u \in Nat /\ e.off <= u /\ u < e.off + e.len
    <2>1. PICK o, l : o = e.off /\ l = e.len
        OBVIOUS
    <2>2. o \in Nat /\ l \in Nat
        BY <2>1, ExtentIs
    <2>3. u \in Run(o, l) <=> u \in Nat /\ o <= u /\ u < o + l
        BY <2>2, RunIs
    <2> QED BY <2>1, <2>3
<1> QED BY <1>1, <1>2

(* Storage is finite.                                                      *)
LEMMA StorageFinite ==
    ASSUME NEW s, Spanned(s), NEW U, U \subseteq Storage(s)
    PROVE  IsFiniteSet(U) /\ Cardinality(U) \in Nat
<1>1. s \in Nat /\ Header \in Nat
    BY Geometry DEF Spanned
<1>2. IsFiniteSet(0..s)
    BY <1>1, FS_Interval
<1>3. U \in SUBSET (0..s)
    BY <1>1 DEF Storage
<1>4. IsFiniteSet(U)
    BY <1>2, <1>3, FS_Subset
<1> QED BY <1>4, FS_CardinalityType

(* A run has as many units as its length says.                             *)
LEMMA RunSize ==
    ASSUME NEW off \in Nat, NEW len \in Nat, len >= 1
    PROVE  IsFiniteSet(Run(off, len)) /\ Cardinality(Run(off, len)) = len
<1>1. PICK b : b = off + len - 1
    OBVIOUS
<1>2. b \in Int /\ ~(off > b) /\ b - off + 1 = len /\ off \in Int
    BY <1>1
<1>3. Run(off, len) = off..b
    BY <1>1 DEF Run
<1>4. Cardinality(off..b) = (IF off > b THEN 0 ELSE b - off + 1) /\ IsFiniteSet(off..b)
    BY <1>2, FS_Interval
<1> QED BY <1>2, <1>3, <1>4

(* What is free is storage of the pool.                                    *)
LEMMA FreeIsStorage ==
    ASSUME NEW h, Lists(h)
    PROVE  FreeUnits(h) \subseteq Storage(h.span)
<1>1. FreeUnits(h) = Covers(h.free)
    BY FreeUnitsAre
<1> QED BY <1>1 DEF Lists, Blocks, Covers

(* The initial part is one run of storage, above the header.               *)
LEMMA SpannedInitial == Spanned(Initial) /\ Run(Header, Initial - Header) = Storage(Initial)
<1>1. /\ Header \in Nat /\ Initial \in Nat /\ Header < Initial /\ Ceiling \in Nat
      /\ Initial <= Ceiling /\ Segment \in Nat /\ Segment >= 1
    BY Geometry, Sizing
<1>2. Spanned(Initial)
    <2>1. 0 \in Nat /\ Initial = Initial + 0 * Segment
        BY <1>1
    <2>2. \E m \in Nat : Initial = Initial + m * Segment
        BY <2>1
    <2> QED BY <1>1, <2>2 DEF Spanned
<1>3. ASSUME NEW u \in Nat, u < Initial PROVE ~Prefix(u)
    <2> SUFFICES ASSUME NEW i \in Nat, u = Initial + i * Segment PROVE FALSE
        BY DEF Prefix
    <2>1. i * Segment \in Nat
        BY <1>1, Times
    <2> QED BY <1>1, <1>3, <2>1
<1>4. Header + (Initial - Header) - 1 = Initial - 1
    BY <1>1
<1>5. Run(Header, Initial - Header) = Header..(Initial - 1)
    BY <1>4 DEF Run
<1>6. \A u \in Header..(Initial - 1) : u \in Nat /\ u < Initial
    BY <1>1
<1> QED BY <1>2, <1>3, <1>5, <1>6 DEF Storage

(* A pool with nothing queued.                                             *)
LEMMA EmptyIs ==
    ASSUME NEW s, Spanned(s), NEW h, Whole(h), h.span = s, h.free = [o \in {} |-> 0],
           h.filed = [k \in 0..Classes |-> {}]
    PROVE  Lists(h) /\ FreeUnits(h) = {} /\ Covers(h.free) = {}
<1>1. DOMAIN h.free = {} /\ h.free = [o \in DOMAIN h.free |-> h.free[o]]
    OBVIOUS
<1>2. Blocks(h.free, h.span)
    BY <1>1 DEF Blocks
<1>3. h.filed = [k \in 0..Classes |-> {o \in DOMAIN h.free : h.free[o] = Power[k]}]
    BY <1>1
<1>4. Covers(h.free) = {}
    BY <1>1 DEF Covers
<1> QED BY <1>2, <1>3, <1>4, FreeUnitsAre DEF Lists

(* A pool that is made, or made again by an IPL, holds nothing of          *)
(* anybody's.                                                              *)
LEMMA NewHeapIs ==
    /\ HeapInv(NewHeap) /\ NewHeap.journal = {}
<1>1. PICK h : h = EmptyHeap(Initial)
    OBVIOUS
<1>2. /\ Whole(h) /\ h.span = Initial /\ h.free = [o \in {} |-> 0]
      /\ h.filed = [k \in 0..Classes |-> {}] /\ h.journal = {} /\ h.used = 0 /\ h.ids = 0
    BY <1>1 DEF EmptyHeap, Whole
<1>3. Lists(h) /\ FreeUnits(h) = {} /\ Covers(h.free) = {}
    BY <1>2, SpannedInitial, EmptyIs
<1>4. PICK len : len = Initial - Header
    OBVIOUS
<1>5. len \in Nat /\ len >= 1 /\ Header \in Nat
    BY <1>4, Geometry
<1>6. Run(Header, len) = Storage(Initial)
    BY <1>4, SpannedInitial
<1>7. Taken(h.free, h.span, Header, len)
    BY <1>2, <1>3, <1>5, <1>6 DEF Taken
<1>8. PICK g : g = NewHeap
    OBVIOUS
<1>9. Queued(h, Header, len, g)
    BY <1>1, <1>3, <1>4, <1>7, <1>8, EnqueueIs DEF NewHeap
<1>10. /\ Lists(g) /\ g.span = Initial /\ g.journal = {} /\ g.used = 0 /\ g.ids = 0
       /\ FreeUnits(g) = Storage(Initial)
    BY <1>2, <1>3, <1>6, <1>9 DEF Queued, SameButLists
<1>11. Journal({}) /\ Covered({}) = {} /\ Cardinality({}) = 0
    BY FS_EmptySet DEF Journal, Covered
<1> QED BY <1>8, <1>10, <1>11 DEF HeapInv

(* Blocks are blocks of a larger pool.                                     *)
LEMMA BlocksGrow ==
    ASSUME NEW f, NEW s, NEW t, Blocks(f, s), Storage(s) \subseteq Storage(t)
    PROVE  Blocks(f, t)
<1>1. \A o \in DOMAIN f : Run(o, f[o]) \subseteq Storage(t)
    BY DEF Blocks
<1> QED BY <1>1 DEF Blocks

(* A new segment is free storage, and nobody's.                            *)
LEMMA ExtendIs ==
    ASSUME NEW h, HeapInv(h)
    PROVE  /\ HeapInv(ExtendHeap(h)) /\ ExtendHeap(h).journal = h.journal
           /\ ExtendHeap(h).ids = h.ids
<1> PICK r : r = ExtendHeap(h)
    OBVIOUS
<1>1. CASE h.span + Segment > Ceiling
    BY <1>1 DEF ExtendHeap
<1>2. CASE ~(h.span + Segment > Ceiling)
    <2>1. PICK s, x : s = h.span /\ x = h.span + Segment
        OBVIOUS
    <2>2. /\ Lists(h) /\ Spanned(s) /\ s \in Nat /\ Segment \in Nat /\ Segment >= 2 /\ Ceiling \in Nat
          /\ x <= Ceiling
        <3>1. Lists(h) /\ Spanned(s) /\ s \in Nat
            BY <2>1 DEF HeapInv, Lists, Spanned
        <3>2. Segment \in Nat /\ Segment >= 2 /\ Ceiling \in Nat
            BY Sizing, Geometry
        <3> QED BY <1>2, <2>1, <3>1, <3>2
    <2>3. /\ Spanned(x)
          /\ Storage(x) = Storage(s) \cup Run(s + 1, Segment - 1)
          /\ Storage(s) \cap Run(s + 1, Segment - 1) = {}
        BY <2>1, <2>2, NextSegment
    <2>4. PICK g : g = [h EXCEPT !.span = @ + Segment]
        OBVIOUS
    <2>5. /\ Whole(g) /\ g.span = x /\ g.free = h.free /\ g.filed = h.filed
          /\ g.journal = h.journal /\ g.used = h.used /\ g.ids = h.ids
        <3>1. Whole(h)
            BY <2>2 DEF Lists
        <3>2. PICK a, b, c, d, e, f : h = [span |-> a, free |-> b, filed |-> c,
                                           journal |-> d, used |-> e, ids |-> f]
            BY <3>1 DEF Whole
        <3> QED BY <2>1, <2>4, <3>2 DEF Whole
    <2>6. Lists(g)
        <3>1. Blocks(g.free, x)
            BY <2>1, <2>2, <2>3, <2>5, BlocksGrow DEF Lists
        <3>2. g.filed = [k \in 0..Classes |-> {o \in DOMAIN g.free : g.free[o] = Power[k]}]
            BY <2>2, <2>5 DEF Lists
        <3> QED BY <2>3, <2>5, <3>1, <3>2 DEF Lists
    <2>7. FreeUnits(g) = FreeUnits(h) /\ FreeUnits(h) = Covers(g.free) /\ FreeUnits(h) \subseteq Storage(s)
        BY <2>1, <2>2, <2>5, FreeUnitsAre, FreeIsStorage
    <2>8. PICK at, len : at = s + 1 /\ len = Segment - 1
        OBVIOUS
    <2>9. at \in Nat /\ len \in Nat /\ len >= 1
        BY <2>2, <2>8
    <2>10. Taken(g.free, g.span, at, len)
        BY <2>3, <2>5, <2>7, <2>8, <2>9 DEF Taken
    <2>11. r = Enqueue(g, at, len)
        BY <1>2, <2>1, <2>4, <2>8 DEF ExtendHeap
    <2>12. Queued(g, at, len, r)
        BY <2>6, <2>10, <2>11, EnqueueIs
    <2>13. /\ Lists(r) /\ r.span = x /\ r.journal = h.journal /\ r.used = h.used /\ r.ids = h.ids
           /\ FreeUnits(r) = FreeUnits(h) \cup Run(at, len)
        BY <2>5, <2>7, <2>12 DEF Queued, SameButLists
    <2>14. Storage(x) \ FreeUnits(r) = Storage(s) \ FreeUnits(h)
        BY <2>3, <2>7, <2>8, <2>13
    <2>15. HeapInv(r)
        BY <2>1, <2>13, <2>14 DEF HeapInv
    <2> QED BY <2>13, <2>15
<1> QED BY <1>1, <1>2

(* A block that leaves the lists is no longer free.                        *)
LEMMA DequeueOne ==
    ASSUME NEW h, Lists(h), NEW off \in DOMAIN h.free, NEW len, len = h.free[off]
    PROVE  LET g == Dequeue(h, {off})
           IN  /\ Lists(g) /\ SameButLists(h, g)
               /\ FreeUnits(g) = FreeUnits(h) \ Run(off, len)
               /\ Run(off, len) \subseteq FreeUnits(h)
<1>1. PICK g : g = Dequeue(h, {off})
    OBVIOUS
<1>2. /\ Lists(g) /\ SameButLists(h, g)
      /\ g.free = [o \in DOMAIN h.free \ {off} |-> h.free[o]]
    BY <1>1, DequeueKeeps
<1>3. /\ Spanned(h.span) /\ Blocks(h.free, h.span) /\ Blocks(g.free, g.span) /\ g.span = h.span
      /\ FreeUnits(h) = Covers(h.free) /\ FreeUnits(g) = Covers(g.free)
    BY <1>2, FreeUnitsAre DEF Lists, SameButLists
<1>4. /\ DOMAIN g.free = DOMAIN h.free \ {off}
      /\ \A o \in DOMAIN g.free : g.free[o] = h.free[o]
    BY <1>2
<1>5. off \in Nat /\ len \in Nat /\ len >= 1
    BY <1>3, BlockIs
<1>6. Run(off, len) \subseteq Covers(h.free)
    BY DEF Covers
<1>7. ASSUME NEW u \in Nat
      PROVE  u \in Covers(g.free) <=> u \in Covers(h.free) /\ u \notin Run(off, len)
    <2>1. ASSUME NEW o \in DOMAIN h.free, o <= u, u < o + h.free[o]
          PROVE  o = off <=> u \in Run(off, len)
        <3>1. PICK n : n = h.free[o]
            OBVIOUS
        <3>2. o \in Nat /\ n \in Nat /\ n >= 1
            BY <1>3, <3>1, BlockIs
        <3>3. o < off => o + n <= off
            BY <1>3, <3>1 DEF Blocks
        <3>4. off < o => off + len <= o
            BY <1>3 DEF Blocks
        <3>5. u \in Run(off, len) <=> off <= u /\ u < off + len
            BY <1>5, RunIs
        <3>6. o <= u /\ u < o + n
            BY <2>1, <3>1
        <3>7. o = off => n = len
            BY <3>1
        <3> QED BY <1>5, <3>2, <3>3, <3>4, <3>5, <3>6, <3>7
    <2>2. u \in Covers(h.free) <=> \E o \in DOMAIN h.free : o <= u /\ u < o + h.free[o]
        BY <1>3, CoversIs
    <2>3. u \in Covers(g.free) <=> \E o \in DOMAIN g.free : o <= u /\ u < o + g.free[o]
        BY <1>3, CoversIs
    <2>4. ASSUME u \in Covers(g.free) PROVE u \in Covers(h.free) /\ u \notin Run(off, len)
        <3>1. PICK o \in DOMAIN g.free : o <= u /\ u < o + g.free[o]
            BY <2>3, <2>4
        <3>2. o \in DOMAIN h.free /\ o # off /\ u < o + h.free[o]
            BY <1>4, <3>1
        <3> QED BY <2>1, <2>2, <3>1, <3>2
    <2>5. ASSUME u \in Covers(h.free), u \notin Run(off, len) PROVE u \in Covers(g.free)
        <3>1. PICK o \in DOMAIN h.free : o <= u /\ u < o + h.free[o]
            BY <2>2, <2>5
        <3>2. o # off
            BY <2>1, <2>5, <3>1
        <3>3. o \in DOMAIN g.free /\ u < o + g.free[o]
            BY <1>4, <3>1, <3>2
        <3> QED BY <2>3, <3>1, <3>3
    <2> QED BY <2>4, <2>5
<1>8. \A u \in Covers(g.free) \cup Covers(h.free) : u \in Nat
    BY <1>3, CoversIs
<1>9. Covers(g.free) = Covers(h.free) \ Run(off, len)
    BY <1>7, <1>8
<1> QED BY <1>1, <1>2, <1>3, <1>6, <1>9

(* h with one more extent, of storage that was free.                       *)
Assigned(h, off, size, id, r) ==
    /\ Lists(r) /\ r.span = h.span /\ r.ids \in Nat
    /\ r.journal = h.journal \cup {[off |-> off, len |-> size, id |-> id]}
    /\ r.used = h.used + size
    /\ off \in Nat /\ size \in Nat /\ size >= 1 /\ id \in Nat
    /\ Run(off, size) \subseteq FreeUnits(h)
    /\ FreeUnits(r) = FreeUnits(h) \ Run(off, size)

(* Such an extent is apart from the others, and keeps the division.        *)
LEMMA AssignedIs ==
    ASSUME NEW h, HeapInv(h), NEW off, NEW size, NEW id, NEW r, Assigned(h, off, size, id, r)
    PROVE  /\ HeapInv(r)
           /\ \A e \in h.journal : e.off + e.len <= off \/ off + size <= e.off
           /\ Run(off, size) \subseteq Storage(h.span)
<1>1. PICK x, J : x = [off |-> off, len |-> size, id |-> id] /\ J = h.journal
    OBVIOUS
<1>2. /\ x.off = off /\ x.len = size /\ x.id = id /\ off \in Nat /\ size \in Nat /\ size >= 1 /\ id \in Nat
    BY <1>1 DEF Assigned
<1>3. /\ Lists(h) /\ Journal(J) /\ Covered(J) = Storage(h.span) \ FreeUnits(h) /\ Spanned(h.span)
    BY <1>1 DEF HeapInv, Lists
<1>4. FreeUnits(h) \subseteq Storage(h.span)
    BY <1>3, FreeIsStorage
<1>5. Run(off, size) \subseteq FreeUnits(h)
    BY DEF Assigned
<1>6. Run(off, size) \cap Covered(J) = {}
    BY <1>3, <1>5
<1>7. ASSUME NEW e \in J PROVE e.off + e.len <= off \/ off + size <= e.off
    <2>1. e.off \in Nat /\ e.len \in Nat /\ e.len >= 1
        BY <1>3, ExtentIs
    <2>2. off \notin Covered(J)
        <3>1. off \in Run(off, size)
            BY <1>2, RunIs
        <3> QED BY <1>6, <3>1
    <2>3. ~(e.off <= off /\ off < e.off + e.len)
        BY <1>2, <1>3, <2>2, CoveredIs
    <2>4. e.off \in Covered(J)
        <3>1. PICK o : o = e.off
            OBVIOUS
        <3>2. e.off <= o /\ o < e.off + e.len /\ o \in Nat
            BY <2>1, <3>1
        <3> QED BY <1>3, <3>1, <3>2, CoveredIs
    <2>5. ~(off <= e.off /\ e.off < off + size)
        <3>1. e.off \notin Run(off, size)
            BY <1>6, <2>4
        <3> QED BY <1>2, <2>1, <3>1, RunIs
    <2> QED BY <1>2, <2>1, <2>3, <2>5
<1>8. Journal(r.journal)
    <2>1. r.journal = J \cup {x}
        BY <1>1 DEF Assigned
    <2>2. x \in [off : Nat, len : Nat \ {0}, id : Nat]
        BY <1>1, <1>2
    <2>3. r.journal \subseteq [off : Nat, len : Nat \ {0}, id : Nat]
        BY <1>3, <2>1, <2>2 DEF Journal
    <2>4. ASSUME NEW e \in r.journal, NEW f \in r.journal, e # f
          PROVE  e.off + e.len <= f.off \/ f.off + f.len <= e.off
        <3>1. CASE e \in J /\ f \in J
            BY <1>3, <2>4, <3>1 DEF Journal
        <3>2. CASE e = x
            BY <1>2, <1>7, <2>1, <2>4, <3>2
        <3>3. CASE f = x
            BY <1>2, <1>7, <2>1, <2>4, <3>3
        <3> QED BY <2>1, <3>1, <3>2, <3>3
    <2> QED BY <2>3, <2>4 DEF Journal
<1>9. Covered(r.journal) = Covered(J) \cup Run(off, size)
    <2>1. r.journal = J \cup {x}
        BY <1>1 DEF Assigned
    <2> QED BY <1>2, <2>1 DEF Covered
<1>10. Covered(r.journal) = Storage(r.span) \ FreeUnits(r)
    BY <1>3, <1>4, <1>5, <1>9 DEF Assigned
<1>11. Cardinality(Covered(r.journal)) = Cardinality(Covered(J)) + size
    <2>1. IsFiniteSet(Covered(J)) /\ Cardinality(Covered(J)) \in Nat
        BY <1>3, StorageFinite
    <2>2. IsFiniteSet(Run(off, size)) /\ Cardinality(Run(off, size)) = size
        BY <1>2, RunSize
    <2>3. Covered(J) \cap Run(off, size) = {} /\ Cardinality({}) = 0
        BY <1>6, FS_EmptySet
    <2>4. Cardinality(Covered(J) \cup Run(off, size)) = Cardinality(Covered(J)) + size - Cardinality({})
        BY <2>1, <2>2, <2>3, FS_Union
    <2> QED BY <1>2, <1>9, <2>1, <2>3, <2>4
<1>12. HeapInv(r)
    <2>1. r.used = Cardinality(Covered(r.journal))
        BY <1>1, <1>11 DEF HeapInv, Assigned
    <2> QED BY <1>8, <1>10, <2>1 DEF HeapInv, Assigned
<1> QED BY <1>1, <1>4, <1>5, <1>7, <1>12

(* The block that is taken is long enough, and its tail goes back.         *)
LEMMA FromListsIs ==
    ASSUME NEW h, HeapInv(h), NEW first \in 0..(Classes - 1), CanServe(h, first),
           NEW size \in Nat, size >= 1, size <= Power[first]
    PROVE  LET given == AllocateFromLists(h, first, size)
           IN  \E id : /\ Assigned(h, given.at, size, id, given.heap)
                       /\ id = Id(h.ids + 1) /\ given.heap.ids = id
<1>1. Lists(h) /\ h.ids \in Nat /\ Spanned(h.span) /\ Blocks(h.free, h.span) /\ Whole(h)
    BY DEF HeapInv, Lists
<1>2. h.filed = [k \in 0..Classes |-> {o \in DOMAIN h.free : h.free[o] = Power[k]}]
    BY <1>1 DEF Lists
<1>3. Classes \in Nat /\ first \in Nat
    BY Geometry
<1>4. PICK U : U = {c \in first..(Classes - 1) : h.filed[c] # {}}
    OBVIOUS
<1>5. PICK k : k = Min(U)
    OBVIOUS
<1>6. k \in first..(Classes - 1) /\ h.filed[k] # {}
    <2>1. U \subseteq Nat /\ U # {}
        BY <1>3, <1>4 DEF CanServe
    <2>2. k \in U
        BY <1>5, <2>1, MinIs
    <2> QED BY <1>4, <2>2
<1>7. k \in 0..Classes /\ first \in 0..Classes /\ (first < k \/ first = k)
    BY <1>3, <1>6
<1>8. PICK off, p : off = Min(h.filed[k]) /\ p = Power[k]
    OBVIOUS
<1>9. off \in DOMAIN h.free /\ h.free[off] = p
    <2>1. h.filed[k] = {o \in DOMAIN h.free : h.free[o] = p}
        BY <1>2, <1>7, <1>8
    <2>2. h.filed[k] \subseteq Nat
        BY <1>1, <2>1 DEF Blocks
    <2>3. off \in h.filed[k]
        BY <1>6, <1>8, <2>2, MinIs
    <2> QED BY <2>1, <2>3
<1>10. off \in Nat /\ p \in Nat /\ size <= p /\ Run(off, p) \subseteq Storage(h.span)
    <2>1. off \in Nat /\ Run(off, p) \subseteq Storage(h.span)
        BY <1>1, <1>9 DEF Blocks
    <2>2. Power[first] \in Nat /\ p \in Nat
        BY <1>7, <1>8, Powers
    <2>3. first < k => 2 * Power[first] <= p
        BY <1>7, <1>8, Powers
    <2> QED BY <1>7, <1>8, <2>1, <2>2, <2>3
<1>11. PICK h1 : h1 = Dequeue(h, {off})
    OBVIOUS
<1>12. /\ Lists(h1) /\ SameButLists(h, h1)
       /\ FreeUnits(h1) = FreeUnits(h) \ Run(off, p)
       /\ Run(off, p) \subseteq FreeUnits(h)
    BY <1>1, <1>9, <1>11, DequeueOne
<1>13. PICK h2 : h2 = IF p > size THEN Enqueue(h1, off + size, p - size) ELSE h1
    OBVIOUS
<1>14. /\ Lists(h2) /\ SameButLists(h, h2)
       /\ FreeUnits(h2) = FreeUnits(h) \ Run(off, size)
       /\ Run(off, size) \subseteq FreeUnits(h)
    <2>1. CASE p > size
        <3>1. PICK at, len : at = off + size /\ len = p - size
            OBVIOUS
        <3>2. at \in Nat /\ len \in Nat /\ len >= 1
            BY <1>10, <2>1, <3>1
        <3>3. \A u : u \in Run(off, p) <=> u \in Run(off, size) \/ u \in Run(at, len)
            BY <1>10, <3>1, <3>2, RunIs
        <3>4. Run(off, size) \cap Run(at, len) = {}
            BY <1>10, <3>1, <3>2, RunIs
        <3>5. Taken(h1.free, h1.span, at, len)
            <4>1. Run(at, len) \subseteq Storage(h1.span)
                BY <1>10, <1>12, <3>3 DEF SameButLists
            <4>2. Run(at, len) \cap FreeUnits(h1) = {}
                BY <1>12, <3>3
            <4> QED BY <3>2, <4>1, <4>2, FreeUnitsAre DEF Taken
        <3>6. Queued(h1, at, len, h2)
            BY <1>12, <1>13, <2>1, <3>1, <3>5, EnqueueIs
        <3>7. Lists(h2) /\ SameButLists(h1, h2) /\ FreeUnits(h2) = FreeUnits(h1) \cup Run(at, len)
            BY <3>6 DEF Queued
        <3>8. FreeUnits(h2) = FreeUnits(h) \ Run(off, size) /\ Run(off, size) \subseteq FreeUnits(h)
            BY <1>12, <3>3, <3>4, <3>7
        <3> QED BY <1>12, <3>7, <3>8 DEF SameButLists
    <2>2. CASE ~(p > size)
        <3>1. p = size /\ h2 = h1
            BY <1>10, <1>13, <2>2
        <3> QED BY <1>12, <3>1
    <2> QED BY <2>1, <2>2
<1>15. PICK id, e : id = Id(h.ids + 1) /\ e = [off |-> off, len |-> size, id |-> Id(h.ids + 1)]
    OBVIOUS
<1>16. id \in Nat
    BY <1>1, <1>15 DEF Id
<1>17. PICK r : r = [h2 EXCEPT !.used = @ + size, !.ids = Id(@ + 1), !.journal = @ \cup {e}]
    OBVIOUS
<1>18. /\ Whole(r) /\ r.span = h2.span /\ r.free = h2.free /\ r.filed = h2.filed
       /\ r.journal = h2.journal \cup {e} /\ r.used = h2.used + size /\ r.ids = Id(h2.ids + 1)
    <2>1. Whole(h2)
        BY <1>14 DEF Lists
    <2>2. PICK a, b, c, d, x, f : h2 = [span |-> a, free |-> b, filed |-> c,
                                       journal |-> d, used |-> x, ids |-> f]
        BY <2>1 DEF Whole
    <2> QED BY <1>17, <2>2 DEF Whole
<1>19. Lists(r) /\ FreeUnits(r) = FreeUnits(h2)
    <2>1. Lists(r)
        BY <1>14, <1>18 DEF Lists
    <2> QED BY <1>18, <2>1, FreeUnitsAre
<1>20. Assigned(h, off, size, id, r) /\ r.ids = id
    <2>1. /\ r.span = h.span /\ r.journal = h.journal \cup {[off |-> off, len |-> size, id |-> id]}
          /\ r.used = h.used + size /\ r.ids = id
        BY <1>14, <1>15, <1>18 DEF SameButLists
    <2>2. Assigned(h, off, size, id, r)
        BY <1>10, <1>14, <1>16, <1>19, <2>1 DEF Assigned
    <2> QED BY <2>1, <2>2
<1>21. AllocateFromLists(h, first, size) = [heap |-> r, at |-> off]
    BY <1>4, <1>5, <1>8, <1>11, <1>13, <1>15, <1>17 DEF AllocateFromLists
<1>22. id = Id(h.ids + 1)
    BY <1>15
<1>23. Assigned(h, off, size, id, r) /\ id = Id(h.ids + 1) /\ r.ids = id
    BY <1>20, <1>22
<1> QED BY <1>21, <1>23

(* One more extent, of storage nobody has.                                 *)
GainsAt(J, K, off, size) ==
    /\ off \in Nat /\ size \in Nat /\ size >= 1
    /\ \E id \in Nat : K = J \cup {[off |-> off, len |-> size, id |-> id]}
    /\ \E s : Spanned(s) /\ Run(off, size) \subseteq Storage(s)
    /\ \A e \in J : e.off + e.len <= off \/ off + size <= e.off

(* Somewhere.                                                              *)
Gains(J, K) == \E off, size : GainsAt(J, K, off, size)

(* Under the next id.                                                      *)
Issued(h, r, off, size) ==
    LET id == Id(h.ids + 1)
    IN  /\ r.journal = h.journal \cup {[off |-> off, len |-> size, id |-> id]}
        /\ r.ids = id

(* An assign keeps the division, and hands out storage nobody has or       *)
(* nothing.                                                                *)
LEMMA AllocateIs ==
    ASSUME NEW h, HeapInv(h), NEW n \in Nat, n >= 1
    PROVE  /\ HeapInv(Allocate(h, n).heap)
           /\ \/ Allocate(h, n).heap.journal = h.journal /\ Allocate(h, n).at = 0
              \/ /\ GainsAt(h.journal, Allocate(h, n).heap.journal,
                            Allocate(h, n).at, RoundedSize(n))
                 /\ n <= RoundedSize(n)
                 /\ Issued(h, Allocate(h, n).heap, Allocate(h, n).at, RoundedSize(n))
<1>1. PICK first : first = ClassIndex(n)
    OBVIOUS
<1>2. PICK grown : grown = IF first = Classes \/ CanServe(h, first) THEN h ELSE ExtendHeap(h)
    OBVIOUS
<1>3. HeapInv(grown) /\ grown.journal = h.journal /\ grown.ids = h.ids
    BY <1>2, ExtendIs
<1>4. first \in 0..Classes /\ Classes \in Nat
    BY <1>1, ClassIs, Geometry
<1>5. CASE first < Classes /\ CanServe(grown, first)
    <2>1. PICK size : size = RoundedSize(n)
        OBVIOUS
    <2>2. /\ first \in 0..(Classes - 1) /\ size \in Nat /\ size >= 1
          /\ size <= Power[first] /\ n <= size
        BY <1>1, <1>4, <1>5, <2>1, RoundedIs
    <2>3. PICK r, off : r = AllocateFromLists(grown, first, size).heap
                        /\ off = AllocateFromLists(grown, first, size).at
        OBVIOUS
    <2>4. PICK id : Assigned(grown, off, size, id, r) /\ id = Id(grown.ids + 1) /\ r.ids = id
        BY <1>3, <1>5, <2>2, <2>3, FromListsIs
    <2>5. /\ HeapInv(r)
          /\ \A e \in h.journal : e.off + e.len <= off \/ off + size <= e.off
          /\ Run(off, size) \subseteq Storage(grown.span)
        BY <1>3, <2>4, AssignedIs
    <2>6. Spanned(grown.span)
        BY <1>3 DEF HeapInv, Lists
    <2>7. /\ r.journal = h.journal \cup {[off |-> off, len |-> size, id |-> id]}
          /\ off \in Nat /\ id \in Nat
        BY <1>3, <2>4 DEF Assigned
    <2>8. GainsAt(h.journal, r.journal, off, size)
        BY <2>2, <2>5, <2>6, <2>7 DEF GainsAt
    <2>9. Allocate(h, n).heap = r /\ Allocate(h, n).at = off
        BY <1>1, <1>2, <1>5, <2>1, <2>3 DEF Allocate
    <2>10. Issued(h, r, off, size)
        BY <1>3, <2>4, <2>7 DEF Issued
    <2> QED BY <2>1, <2>2, <2>5, <2>8, <2>9, <2>10
<1>6. CASE ~(first < Classes /\ CanServe(grown, first))
    <2>1. Allocate(h, n).heap = grown /\ Allocate(h, n).at = 0
        BY <1>1, <1>2, <1>6 DEF Allocate
    <2> QED BY <1>3, <2>1
<1> QED BY <1>5, <1>6

(***************************************************************************)
(* A part of an extent is freed.                                           *)
(***************************************************************************)

(* A part of the extent e.                                                 *)
PartOf(e, off, len) ==
    off \in Nat /\ len \in Nat /\ len >= 1 /\ e.off <= off /\ off + len <= e.off + e.len

(* Nothing of the part is free, and one extent has it all.                 *)
LEMMA PartIs ==
    ASSUME NEW h, HeapInv(h), NEW e \in h.journal, NEW off, NEW len, PartOf(e, off, len)
    PROVE  /\ Taken(h.free, h.span, off, len)
           /\ Containing(h, off, len) = {e}
           /\ Run(off, len) \subseteq Covered(h.journal)
<1>1. PICK J, o, l : J = h.journal /\ o = e.off /\ l = e.len
    OBVIOUS
<1>2. Journal(J) /\ Covered(J) = Storage(h.span) \ FreeUnits(h) /\ Spanned(h.span)
    BY <1>1 DEF HeapInv, Lists
<1>3. o \in Nat /\ l \in Nat /\ l >= 1
    BY <1>1, <1>2, ExtentIs
<1>4. off \in Nat /\ len \in Nat /\ len >= 1 /\ o <= off /\ off + len <= o + l
    BY <1>1 DEF PartOf
<1>5. Run(off, len) \subseteq Run(o, l)
    BY <1>3, <1>4, RunIs
<1>6. Run(off, len) \subseteq Covered(J)
    BY <1>1, <1>5 DEF Covered
<1>7. Taken(h.free, h.span, off, len)
    <2>1. FreeUnits(h) = Covers(h.free)
        BY FreeUnitsAre
    <2> QED BY <1>2, <1>4, <1>6, <2>1 DEF Taken
<1>8. ASSUME NEW f \in J, Run(off, len) \subseteq Run(f.off, f.len) PROVE f = e
    <2>1. PICK a, b : a = f.off /\ b = f.len
        OBVIOUS
    <2>2. a \in Nat /\ b \in Nat /\ b >= 1
        BY <1>2, <2>1, ExtentIs
    <2>3. off \in Run(off, len)
        BY <1>4, RunIs
    <2>4. off \in Run(a, b)
        BY <1>8, <2>1, <2>3
    <2>5. a <= off /\ off < a + b
        BY <2>2, <2>4, RunIs
    <2>6. f # e => a + b <= o \/ o + l <= a
        BY <1>1, <1>2, <2>1 DEF Journal
    <2> QED BY <1>3, <1>4, <2>2, <2>5, <2>6
<1>9. Containing(h, off, len) = {e}
    BY <1>1, <1>5, <1>8 DEF Containing
<1> QED BY <1>1, <1>6, <1>7, <1>9

(* None of the checks of free refuses it: it crosses no segment, begins on *)
(* none, and no free block begins where it does.                           *)
LEMMA PartAccepted ==
    ASSUME NEW h, HeapInv(h), NEW e \in h.journal, NEW off, NEW len, PartOf(e, off, len)
    PROVE  ~FreeRefused(h, off, len)
<1>1. Taken(h.free, h.span, off, len) /\ Spanned(h.span) /\ Blocks(h.free, h.span)
    BY PartIs DEF HeapInv, Lists
<1>2. off \in Nat /\ len \in Nat /\ len >= 1 /\ Run(off, len) \subseteq Storage(h.span)
    BY <1>1 DEF Taken
<1>3. off + len <= h.span /\ SegmentOf(off) = SegmentOf(off + len - 1)
    BY <1>1, <1>2, ShortRun
<1>4. off \in Run(off, len)
    BY <1>2, RunIs
<1>5. off \notin SegmentPrefixes(h)
    BY <1>1, <1>2, <1>4, PrefixesAre DEF Storage
<1>6. off \notin DOMAIN h.free
    <2>1. ASSUME off \in DOMAIN h.free PROVE off \in Covers(h.free)
        <3>1. PICK n : n = h.free[off]
            OBVIOUS
        <3>2. n \in Nat /\ n >= 1
            BY <1>1, <2>1, <3>1, BlockIs
        <3>3. off <= off /\ off < off + n
            BY <1>2, <3>2
        <3> QED BY <1>1, <1>2, <2>1, <3>1, <3>3, CoversIs
    <2> QED BY <1>1, <1>4, <2>1 DEF Taken
<1>7. h.span \in Nat
    BY <1>1 DEF Spanned
<1>8. ~(len <= 0) /\ ~(off < 0) /\ ~(off + len > h.span)
    BY <1>2, <1>3, <1>7
<1> QED BY <1>3, <1>5, <1>6, <1>8 DEF FreeRefused

(* What remains of an extent, and where it lies.                           *)
LEMMA RemainsAre ==
    ASSUME NEW e, NEW J, Journal(J), e \in J, NEW off, NEW len, PartOf(e, off, len)
    PROVE  /\ Remains(e, off, len) =
                  {p \in {[off |-> e.off, len |-> off - e.off, id |-> e.id],
                          [off |-> off + len, len |-> e.off + e.len - (off + len), id |-> e.id]} :
                     p.len > 0}
           /\ \A p \in Remains(e, off, len) :
                /\ p \in [off : Nat, len : Nat \ {0}, id : Nat]
                /\ e.off <= p.off /\ p.off + p.len <= e.off + e.len
                /\ p.off + p.len <= off \/ off + len <= p.off
           /\ \A p, q \in Remains(e, off, len) :
                p # q => p.off + p.len <= q.off \/ q.off + q.len <= p.off
           /\ \A u \in Nat : (\E p \in Remains(e, off, len) : p.off <= u /\ u < p.off + p.len)
                             <=> /\ e.off <= u /\ u < e.off + e.len
                                 /\ ~(off <= u /\ u < off + len)
<1>1. PICK o, l, i : e = [off |-> o, len |-> l, id |-> i]
    BY ExtentIs
<1>2. o \in Nat /\ l \in Nat /\ l >= 1 /\ i \in Nat
    BY <1>1, ExtentIs
<1>3. off \in Nat /\ len \in Nat /\ len >= 1 /\ o <= off /\ off + len <= o + l
    BY <1>1 DEF PartOf
<1>4. PICK p1, p2, l1, o2, l2 :
          /\ l1 = off - o /\ o2 = off + len /\ l2 = o + l - (off + len)
          /\ p1 = [off |-> o, len |-> l1, id |-> i] /\ p2 = [off |-> o2, len |-> l2, id |-> i]
    OBVIOUS
<1>5. PICK R : R = Remains(e, off, len)
    OBVIOUS
<1>6. R = {p \in {p1, p2} : p.len > 0}
    <2>1. [e EXCEPT !.len = off - e.off] = p1
        BY <1>1, <1>4
    <2>2. [e EXCEPT !.off = off + len, !.len = e.off + e.len - (off + len)] = p2
        <3>1. e.off = o /\ e.len = l
            BY <1>1
        <3>2. PICK x : x = [e EXCEPT !.off = o2, !.len = l2]
            OBVIOUS
        <3>3. x = [off |-> x.off, len |-> x.len, id |-> x.id] /\ x.off = o2 /\ x.len = l2 /\ x.id = i
            BY <1>1, <3>2
        <3>4. x = p2
            BY <1>4, <3>3
        <3> QED BY <1>4, <3>1, <3>2, <3>4
    <2> QED BY <1>5, <2>1, <2>2 DEF Remains
<1>7. /\ p1.off = o /\ p1.len = l1 /\ p1.id = i /\ p2.off = o2 /\ p2.len = l2 /\ p2.id = i
      /\ l1 \in Nat /\ o2 \in Nat /\ l2 \in Nat /\ o + l1 = off /\ o2 + l2 = o + l /\ o2 = off + len
    BY <1>2, <1>3, <1>4
<1>8. R = {p \in {[off |-> e.off, len |-> off - e.off, id |-> e.id],
                  [off |-> off + len, len |-> e.off + e.len - (off + len), id |-> e.id]} :
             p.len > 0}
    BY <1>1, <1>4, <1>6
<1>9. ASSUME NEW p \in R
      PROVE  /\ p \in [off : Nat, len : Nat \ {0}, id : Nat]
             /\ e.off <= p.off /\ p.off + p.len <= e.off + e.len
             /\ p.off + p.len <= off \/ off + len <= p.off
    <2>1. CASE p = p1
        <3>1. l1 \in Nat \ {0}
            BY <1>6, <1>7, <2>1
        <3>2. p \in [off : Nat, len : Nat \ {0}, id : Nat]
            BY <1>2, <1>4, <2>1, <3>1
        <3> QED BY <1>1, <1>2, <1>3, <1>7, <2>1, <3>2
    <2>2. CASE p = p2
        <3>1. l2 \in Nat \ {0}
            BY <1>6, <1>7, <2>2
        <3>2. p \in [off : Nat, len : Nat \ {0}, id : Nat]
            BY <1>2, <1>4, <1>7, <2>2, <3>1
        <3> QED BY <1>1, <1>2, <1>3, <1>7, <2>2, <3>2
    <2> QED BY <1>6, <2>1, <2>2
<1>10. ASSUME NEW p \in R, NEW q \in R, p # q
       PROVE  p.off + p.len <= q.off \/ q.off + q.len <= p.off
    BY <1>2, <1>3, <1>6, <1>7, <1>10
<1>11. ASSUME NEW u \in Nat
       PROVE  (\E p \in R : p.off <= u /\ u < p.off + p.len)
                 <=> /\ e.off <= u /\ u < e.off + e.len
                     /\ ~(off <= u /\ u < off + len)
    <2>1. (\E p \in R : p.off <= u /\ u < p.off + p.len)
             <=> \/ l1 > 0 /\ o <= u /\ u < o + l1
                 \/ l2 > 0 /\ o2 <= u /\ u < o2 + l2
        BY <1>6, <1>7
    <2> QED BY <1>1, <1>2, <1>3, <1>7, <2>1
<1> QED BY <1>5, <1>8, <1>9, <1>10, <1>11

(* The extents without the part that is freed.                             *)
LEMMA JournalSplit ==
    ASSUME NEW J, Journal(J), NEW e \in J, NEW off, NEW len, PartOf(e, off, len),
           NEW K, K = (J \ {e}) \cup Remains(e, off, len)
    PROVE  Journal(K) /\ Covered(K) = Covered(J) \ Run(off, len)
<1>1. PICK R : R = Remains(e, off, len) /\ K = (J \ {e}) \cup R
    OBVIOUS
<1>2. PICK o, l : o = e.off /\ l = e.len
    OBVIOUS
<1>3. o \in Nat /\ l \in Nat /\ l >= 1
    BY <1>2, ExtentIs
<1>4. off \in Nat /\ len \in Nat /\ len >= 1 /\ o <= off /\ off + len <= o + l
    BY <1>2 DEF PartOf
<1>5. \A p \in R : /\ p \in [off : Nat, len : Nat \ {0}, id : Nat]
                   /\ o <= p.off /\ p.off + p.len <= o + l
    BY <1>1, <1>2, RemainsAre
<1>6. \A p, q \in R : p # q => p.off + p.len <= q.off \/ q.off + q.len <= p.off
    BY <1>1, RemainsAre
<1>7. \A u \in Nat : (\E p \in R : p.off <= u /\ u < p.off + p.len)
                        <=> /\ o <= u /\ u < o + l
                            /\ ~(off <= u /\ u < off + len)
    BY <1>1, <1>2, RemainsAre
<1>8. ASSUME NEW f \in J \ {e} PROVE f.off + f.len <= o \/ o + l <= f.off
    BY <1>2 DEF Journal
<1>9. ASSUME NEW f \in J \ {e}, NEW p \in R
      PROVE  f.off + f.len <= p.off \/ p.off + p.len <= f.off
    <2>1. f.off \in Nat /\ f.len \in Nat
        BY ExtentIs
    <2>2. PICK a, b, c, d : a = f.off /\ b = f.len /\ c = p.off /\ d = p.len
        OBVIOUS
    <2>3. p.off \in Nat /\ p.len \in Nat
        BY <1>5
    <2>4. a + b <= o \/ o + l <= a
        BY <1>8, <2>2
    <2>5. o <= c /\ c + d <= o + l
        BY <1>5, <2>2
    <2> QED BY <1>3, <2>1, <2>2, <2>3, <2>4, <2>5
<1>10. Journal(K)
    <2>1. K \subseteq [off : Nat, len : Nat \ {0}, id : Nat]
        BY <1>1, <1>5 DEF Journal
    <2>2. ASSUME NEW a \in K, NEW b \in K, a # b
          PROVE  a.off + a.len <= b.off \/ b.off + b.len <= a.off
        <3>1. CASE a \in J \ {e} /\ b \in J \ {e}
            BY <2>2, <3>1 DEF Journal
        <3>2. CASE a \in R /\ b \in R
            BY <1>6, <2>2, <3>2
        <3>3. CASE a \in J \ {e} /\ b \in R
            BY <1>9, <3>3
        <3>4. CASE a \in R /\ b \in J \ {e}
            BY <1>9, <3>4
        <3> QED BY <1>1, <3>1, <3>2, <3>3, <3>4
    <2> QED BY <2>1, <2>2 DEF Journal
<1>11. ASSUME NEW u \in Nat
       PROVE  u \in Covered(K) <=> u \in Covered(J) /\ u \notin Run(off, len)
    <2>1. u \in Covered(K) <=> \E f \in K : f.off <= u /\ u < f.off + f.len
        BY <1>10, CoveredIs
    <2>2. u \in Covered(J) <=> \E f \in J : f.off <= u /\ u < f.off + f.len
        BY CoveredIs
    <2>3. u \in Run(off, len) <=> off <= u /\ u < off + len
        BY <1>4, RunIs
    <2>4. ASSUME NEW f \in J \ {e}, f.off <= u, u < f.off + f.len PROVE u \notin Run(off, len)
        <3>1. PICK a, b : a = f.off /\ b = f.len
            OBVIOUS
        <3>2. a \in Nat /\ b \in Nat
            BY <3>1, ExtentIs
        <3>3. (a + b <= o \/ o + l <= a) /\ a <= u /\ u < a + b
            BY <1>8, <2>4, <3>1
        <3> QED BY <1>3, <1>4, <2>3, <3>2, <3>3
    <2>5. ASSUME u \in Covered(K) PROVE u \in Covered(J) /\ u \notin Run(off, len)
        <3>1. PICK f \in K : f.off <= u /\ u < f.off + f.len
            BY <2>1, <2>5
        <3>2. CASE f \in J \ {e}
            BY <2>2, <2>4, <3>1, <3>2
        <3>3. CASE f \in R
            <4>1. o <= u /\ u < o + l /\ ~(off <= u /\ u < off + len)
                BY <1>7, <3>1, <3>3
            <4> QED BY <1>2, <2>2, <2>3, <4>1
        <3> QED BY <1>1, <3>2, <3>3
    <2>6. ASSUME u \in Covered(J), u \notin Run(off, len) PROVE u \in Covered(K)
        <3>1. PICK f \in J : f.off <= u /\ u < f.off + f.len
            BY <2>2, <2>6
        <3>2. CASE f # e
            BY <1>1, <2>1, <3>1, <3>2
        <3>3. CASE f = e
            <4>1. \E p \in R : p.off <= u /\ u < p.off + p.len
                BY <1>2, <1>7, <2>3, <2>6, <3>1, <3>3
            <4> QED BY <1>1, <2>1, <4>1
        <3> QED BY <3>2, <3>3
    <2> QED BY <2>5, <2>6
<1>12. \A u \in Covered(K) \cup Covered(J) : u \in Nat
    BY <1>10, CoveredIs
<1>13. Covered(K) = Covered(J) \ Run(off, len)
    BY <1>11, <1>12
<1> QED BY <1>1, <1>10, <1>13

(* A free keeps the division, and takes the part from its extent.          *)
LEMMA FreeIs ==
    ASSUME NEW h, HeapInv(h), NEW e \in h.journal, NEW off, NEW len, PartOf(e, off, len)
    PROVE  /\ HeapInv(Free(h, off, len))
           /\ Free(h, off, len).journal = (h.journal \ {e}) \cup Remains(e, off, len)
           /\ Free(h, off, len).ids = h.ids
<1>1. PICK J, K : J = h.journal /\ K = (h.journal \ {e}) \cup Remains(e, off, len)
    OBVIOUS
<1>2. /\ Lists(h) /\ Journal(J) /\ Covered(J) = Storage(h.span) \ FreeUnits(h) /\ Spanned(h.span)
      /\ h.used = Cardinality(Covered(J)) /\ h.ids \in Nat
    BY <1>1 DEF HeapInv, Lists
<1>3. /\ Taken(h.free, h.span, off, len) /\ Containing(h, off, len) = {e}
      /\ Run(off, len) \subseteq Covered(J) /\ ~FreeRefused(h, off, len)
    BY <1>1, PartIs, PartAccepted
<1>4. off \in Nat /\ len \in Nat /\ len >= 1
    BY DEF PartOf
<1>5. Journal(K) /\ Covered(K) = Covered(J) \ Run(off, len)
    <2>1. e \in J /\ K = (J \ {e}) \cup Remains(e, off, len)
        BY <1>1
    <2> QED BY <1>2, <2>1, JournalSplit
<1>6. PICK h1 : h1 = [h EXCEPT !.journal = (@ \ {e}) \cup Remains(e, off, len)]
    OBVIOUS
<1>7. PICK h2 : h2 = [h1 EXCEPT !.used = @ - len]
    OBVIOUS
<1>8. PICK r : r = Enqueue(h2, off, len)
    OBVIOUS
<1>9. Free(h, off, len) = r
    <2>1. PICK x : x = CHOOSE y \in Containing(h, off, len) : TRUE
        OBVIOUS
    <2>2. x = e
        BY <1>3, <2>1
    <2>3. h1 = [h EXCEPT !.journal = (@ \ {x}) \cup Remains(x, off, len)]
        BY <1>6, <2>2
    <2>4. Containing(h, off, len) # {}
        BY <1>3
    <2> QED BY <1>3, <1>7, <1>8, <2>1, <2>3, <2>4, Zenon DEF Free
<1>10. /\ Whole(h2) /\ h2.span = h.span /\ h2.free = h.free /\ h2.filed = h.filed
       /\ h2.journal = K /\ h2.used = h.used - len /\ h2.ids = h.ids
    <2>1. Whole(h)
        BY <1>2 DEF Lists
    <2>2. PICK a, b, c, d, x, f : h = [span |-> a, free |-> b, filed |-> c,
                                      journal |-> d, used |-> x, ids |-> f]
        BY <2>1 DEF Whole
    <2>3. /\ h1 = [span |-> a, free |-> b, filed |-> c, journal |-> K, used |-> x, ids |-> f]
        BY <1>1, <1>6, <2>2
    <2> QED BY <1>7, <2>2, <2>3 DEF Whole
<1>11. Lists(h2) /\ FreeUnits(h2) = FreeUnits(h) /\ Taken(h2.free, h2.span, off, len)
    <2>1. Lists(h2)
        BY <1>2, <1>10 DEF Lists
    <2> QED BY <1>3, <1>10, <2>1, FreeUnitsAre
<1>12. Queued(h2, off, len, r)
    BY <1>8, <1>11, EnqueueIs
<1>13. /\ Lists(r) /\ r.span = h.span /\ r.journal = K /\ r.used = h.used - len /\ r.ids = h.ids
       /\ FreeUnits(r) = FreeUnits(h) \cup Run(off, len)
    BY <1>10, <1>11, <1>12 DEF Queued, SameButLists
<1>14. Covered(K) = Storage(r.span) \ FreeUnits(r)
    BY <1>2, <1>5, <1>13
<1>15. Cardinality(Covered(K)) = Cardinality(Covered(J)) - len
    <2>1. IsFiniteSet(Covered(J))
        BY <1>2, StorageFinite
    <2>2. Covered(J) \cap Run(off, len) = Run(off, len)
        BY <1>3
    <2>3. Cardinality(Run(off, len)) = len
        BY <1>4, RunSize
    <2>4. Cardinality(Covered(J) \ Run(off, len))
            = Cardinality(Covered(J)) - Cardinality(Covered(J) \cap Run(off, len))
        BY <2>1, FS_Difference
    <2> QED BY <1>5, <2>2, <2>3, <2>4
<1>16. HeapInv(r)
    BY <1>2, <1>5, <1>13, <1>14, <1>15 DEF HeapInv
<1> QED BY <1>1, <1>9, <1>13, <1>16

(***************************************************************************)
(* A checkpoint is loaded.                                                 *)
(***************************************************************************)

(* The heap after the free elements below n have been queued.              *)
LoadStep(h, free, f, n) ==
    IF n = 0 THEN h
    ELSE IF n - 1 \in DOMAIN free
         THEN Enqueue(f[n - 1], n - 1, free[n - 1])
         ELSE f[n - 1]

(* The heaps of the loop over the free elements, in the order of their     *)
(* addresses.                                                              *)
LoadsTo(h, free, f, last) == f = [n \in 0..last |-> LoadStep(h, free, f, n)]

(* Each heap depends on the one before it.                                 *)
LEMMA LoadExists ==
    ASSUME NEW h, NEW free, NEW last \in Nat
    PROVE  \E f : LoadsTo(h, free, f, last)
<1> DEFINE H == {k \in 0..last : \E f : LoadsTo(h, free, f, k)}
<1>1. 0 \in H
    <2>1. PICK f : f = [n \in 0..0 |-> h]
        OBVIOUS
    <2>2. \A n \in 0..0 : LoadStep(h, free, f, n) = h
        BY DEF LoadStep
    <2>3. f = [n \in 0..0 |-> LoadStep(h, free, f, n)]
        BY <2>1, <2>2
    <2>4. 0 \in 0..last
        OBVIOUS
    <2> QED BY <2>3, <2>4 DEF LoadsTo
<1>2. ASSUME NEW k \in 1..last, k - 1 \in H PROVE k \in H
    <2>1. PICK g : LoadsTo(h, free, g, k - 1)
        BY <1>2
    <2>2. PICK v : v = LoadStep(h, free, g, k)
        OBVIOUS
    <2>3. PICK f : f = [n \in 0..k |-> IF n < k THEN g[n] ELSE v]
        OBVIOUS
    <2>4. ASSUME NEW n \in 0..k PROVE f[n] = LoadStep(h, free, f, n)
        <3>1. n # 0 => n - 1 \in 0..k /\ n - 1 < k
            OBVIOUS
        <3>2. n # 0 => f[n - 1] = g[n - 1]
            BY <2>3, <3>1
        <3>3. LoadStep(h, free, f, n) = LoadStep(h, free, g, n)
            BY <3>2, Zenon DEF LoadStep
        <3>4. CASE n < k
            <4>1. n \in 0..(k - 1) /\ f[n] = g[n]
                BY <2>3, <3>4
            <4>2. g[n] = LoadStep(h, free, g, n)
                BY <2>1, <4>1 DEF LoadsTo
            <4> QED BY <3>3, <4>1, <4>2
        <3>5. CASE n = k
            <4>1. f[n] = v
                BY <2>3, <3>5
            <4> QED BY <2>2, <3>3, <3>5, <4>1
        <3> QED BY <3>4, <3>5
    <2>5. f = [n \in 0..k |-> f[n]]
        BY <2>3
    <2>6. LoadsTo(h, free, f, k)
        BY <2>4, <2>5 DEF LoadsTo
    <2>7. k \in 0..last
        OBVIOUS
    <2> QED BY <2>6, <2>7
<1>3. last \in H
    <2>1. 0..last \subseteq H
        <3> HIDE DEF H
        <3> QED BY <1>1, <1>2, UpTo
    <2> HIDE DEF H
    <2> QED BY <2>1
<1> QED BY <1>3

(* The part of the free storage that has been queued by then.              *)
Below(free, n) == {u \in Nat : \E o \in DOMAIN free : o < n /\ o <= u /\ u < o + free[o]}

(* Whatever blocks they were saved as, the same storage is free again.     *)
LEMMA EnqueueAllIs ==
    ASSUME NEW h, Lists(h), FreeUnits(h) = {}, NEW free, Blocks(free, h.span)
    PROVE  LET g == EnqueueAll(h, free)
           IN  Lists(g) /\ SameButLists(h, g) /\ FreeUnits(g) = Covers(free)
<1>1. h.span \in Nat /\ Spanned(h.span)
    BY DEF Lists, Spanned
<1>2. PICK f : f = CHOOSE x : LoadsTo(h, free, x, h.span)
    OBVIOUS
<1>3. LoadsTo(h, free, f, h.span)
    BY <1>1, <1>2, LoadExists
<1>4. EnqueueAll(h, free) = f[h.span]
    BY <1>2, Zenon DEF EnqueueAll, LoadsTo, LoadStep
<1>5. \A n \in 0..h.span : f[n] = LoadStep(h, free, f, n)
    BY <1>3 DEF LoadsTo
<1>6. \A o \in DOMAIN free : o \in Nat /\ free[o] \in Nat /\ free[o] >= 1 /\ o + free[o] <= h.span
    BY <1>1, BlockIs
<1> DEFINE Good(n) == Lists(f[n]) /\ SameButLists(h, f[n]) /\ FreeUnits(f[n]) = Below(free, n)
           H == {n \in 0..h.span : Good(n)}
<1>7. 0 \in H
    <2>1. 0 \in 0..h.span
        BY <1>1
    <2>2. f[0] = h
        BY <1>5, <2>1 DEF LoadStep
    <2>3. Below(free, 0) = {}
        BY <1>6 DEF Below
    <2> QED BY <2>1, <2>2, <2>3 DEF SameButLists
<1>8. ASSUME NEW n \in 1..h.span, n - 1 \in H PROVE n \in H
    <2>1. PICK m : m = n - 1
        OBVIOUS
    <2>2. m \in Nat /\ n = m + 1 /\ n \in 0..h.span /\ n # 0 /\ n \in Nat
        BY <1>1, <2>1
    <2>3. Lists(f[m]) /\ SameButLists(h, f[m]) /\ FreeUnits(f[m]) = Below(free, m)
        BY <1>8, <2>1
    <2>4. f[n] = IF m \in DOMAIN free THEN Enqueue(f[m], m, free[m]) ELSE f[m]
        BY <1>5, <2>1, <2>2 DEF LoadStep
    <2>5. \A o \in DOMAIN free : o < n <=> o < m \/ o = m
        BY <1>6, <2>2
    <2>6. CASE m \notin DOMAIN free
        <3>1. Below(free, n) = Below(free, m)
            BY <2>5, <2>6 DEF Below
        <3> QED BY <2>2, <2>3, <2>4, <2>6, <3>1
    <2>7. CASE m \in DOMAIN free
        <3>1. PICK g, len : g = f[m] /\ len = free[m]
            OBVIOUS
        <3>2. len \in Nat /\ len >= 1
            BY <1>6, <2>7, <3>1
        <3>3. Run(m, len) \subseteq Storage(h.span) /\ g.span = h.span
            BY <2>3, <2>7, <3>1 DEF Blocks, SameButLists
        <3>4. ASSUME NEW u \in Nat PROVE u \in Below(free, n) <=> u \in Below(free, m) \/ u \in Run(m, len)
            <4>1. u \in Run(m, len) <=> m <= u /\ u < m + free[m]
                BY <2>2, <3>1, <3>2, RunIs
            <4>2. u \in Below(free, n) <=> \E o \in DOMAIN free : o < n /\ o <= u /\ u < o + free[o]
                BY DEF Below
            <4>3. u \in Below(free, m) <=> \E o \in DOMAIN free : o < m /\ o <= u /\ u < o + free[o]
                BY DEF Below
            <4> QED BY <2>5, <2>7, <4>1, <4>2, <4>3
        <3>5. \A u \in Run(m, len) : u \in Nat
            BY <2>2, <3>2, RunIs
        <3>6. Below(free, n) = Below(free, m) \cup Run(m, len)
            <4>1. \A u \in Below(free, n) \cup Below(free, m) : u \in Nat
                BY DEF Below
            <4> QED BY <3>4, <3>5, <4>1
        <3>7. Run(m, len) \cap Below(free, m) = {}
            <4> SUFFICES ASSUME NEW u \in Run(m, len), u \in Below(free, m) PROVE FALSE
                OBVIOUS
            <4>1. PICK o \in DOMAIN free : o < m /\ o <= u /\ u < o + free[o]
                BY DEF Below
            <4>2. o + free[o] <= m
                BY <2>7, <4>1 DEF Blocks
            <4>3. u \in Nat /\ m <= u
                BY <2>2, <3>2, RunIs
            <4>4. o \in Nat /\ free[o] \in Nat
                BY <1>6
            <4>5. PICK x : x = o + free[o]
                OBVIOUS
            <4>6. x \in Nat /\ x <= m /\ u < x
                BY <4>1, <4>2, <4>4, <4>5
            <4> QED BY <2>2, <4>3, <4>6
        <3>8. Taken(g.free, g.span, m, len)
            BY <2>2, <2>3, <3>1, <3>2, <3>3, <3>7, FreeUnitsAre DEF Taken
        <3>9. Queued(g, m, len, Enqueue(g, m, len))
            BY <2>3, <3>1, <3>8, EnqueueIs
        <3>10. f[n] = Enqueue(g, m, len)
            BY <2>4, <2>7, <3>1
        <3>11. Good(n)
            BY <2>3, <3>1, <3>6, <3>9, <3>10 DEF Queued, SameButLists
        <3> HIDE DEF Good
        <3> QED BY <2>2, <3>11
    <2> HIDE DEF H, Good
    <2> QED BY <2>6, <2>7
<1>9. Good(h.span)
    <2>1. 0..h.span \subseteq H
        <3> HIDE DEF H
        <3> QED BY <1>1, <1>7, <1>8, UpTo
    <2>2. h.span \in 0..h.span
        BY <1>1
    <2> HIDE DEF Good
    <2> QED BY <2>1, <2>2
<1>10. Below(free, h.span) = Covers(free)
    <2>1. ASSUME NEW o \in DOMAIN free PROVE o < h.span
        <3>1. PICK n : n = free[o]
            OBVIOUS
        <3>2. o \in Nat /\ n \in Nat /\ n >= 1 /\ o + n <= h.span
            BY <1>6, <3>1
        <3> QED BY <1>1, <3>2
    <2>2. \A u : u \in Covers(free) <=> u \in Nat /\ \E o \in DOMAIN free : o <= u /\ u < o + free[o]
        BY <1>1, CoversIs
    <2> QED BY <2>1, <2>2 DEF Below
<1> QED BY <1>4, <1>9, <1>10

(* The runs a set of units is made of, and where each one ends.            *)
Starts(U)     == {u \in U : u - 1 \notin U}
Last(U, s, u) == Min({v \in u..s : v + 1 \notin U})

(* The run that begins with a unit ends with one, and has no gap.          *)
LEMMA LastIs ==
    ASSUME NEW s \in Nat, NEW U, U \subseteq 0..(s - 1), NEW u \in U
    PROVE  /\ Last(U, s, u) \in U /\ u <= Last(U, s, u) /\ Last(U, s, u) + 1 \notin U
           /\ \A w \in u..Last(U, s, u) : w \in U
<1>1. PICK V, e : V = {v \in u..s : v + 1 \notin U} /\ e = Min(V)
    OBVIOUS
<1>2. u \in Nat /\ u <= s
    OBVIOUS
<1>3. s \in V
    <2>1. s + 1 \notin U
        OBVIOUS
    <2>2. s \in u..s
        BY <1>2
    <2> QED BY <1>1, <2>1, <2>2
<1>4. V \subseteq Nat
    BY <1>1, <1>2
<1>5. e \in V /\ \A v \in V : e <= v
    BY <1>1, <1>3, <1>4, MinIs
<1>6. e \in Nat /\ u <= e /\ e <= s /\ e + 1 \notin U
    BY <1>1, <1>2, <1>5
<1>7. ASSUME NEW w \in u..e PROVE w \in U
    <2>1. CASE w = u
        BY <2>1
    <2>2. CASE w # u
        <3>1. PICK v : v = w - 1
            OBVIOUS
        <3>2. v \in u..s /\ v + 1 = w /\ ~(e <= v)
            BY <1>2, <1>6, <2>2, <3>1
        <3>3. v \notin V
            BY <1>5, <3>2
        <3> QED BY <1>1, <3>2, <3>3
    <2> QED BY <2>1, <2>2
<1>8. e \in u..e
    BY <1>2, <1>6
<1>9. Last(U, s, u) = e
    BY <1>1 DEF Last
<1> QED BY <1>6, <1>7, <1>8, <1>9

(* Every unit is in the run of some start.                                 *)
LEMMA StartIs ==
    ASSUME NEW s \in Nat, NEW U, U \subseteq 0..(s - 1), NEW w \in U
    PROVE  \E u \in Starts(U) : u <= w /\ \A x \in u..w : x \in U
<1>1. PICK T : T = {x \in 0..w : \A y \in x..w : y \in U}
    OBVIOUS
<1>2. w \in Nat
    OBVIOUS
<1>3. w \in T /\ T \subseteq Nat
    BY <1>1, <1>2
<1>4. PICK u \in T : \A x \in T : u <= x
    BY <1>3, Least
<1>5. u \in Nat /\ u <= w /\ \A y \in u..w : y \in U
    BY <1>1, <1>4
<1>6. u \in U
    BY <1>2, <1>5
<1>7. u - 1 \notin U
    <2> SUFFICES ASSUME u - 1 \in U PROVE FALSE
        OBVIOUS
    <2>1. PICK x : x = u - 1
        OBVIOUS
    <2>2. x \in Nat /\ x <= w /\ ~(u <= x) /\ x \in U
        BY <1>2, <1>5, <2>1
    <2>3. \A y \in x..w : y = x \/ y \in u..w
        BY <1>2, <1>5, <2>1, <2>2
    <2>4. x \in T
        BY <1>1, <1>2, <1>5, <2>2, <2>3
    <2> QED BY <1>4, <2>2, <2>4
<1> QED BY <1>5, <1>6, <1>7 DEF Starts

(* J has one extent for each run of U.                                     *)
RunsOf(J, U, s) ==
    \E I : /\ \A u \in Starts(U) : I[u] \in Nat
           /\ J = {[off |-> u, len |-> Last(U, s, u) - u + 1, id |-> I[u]] : u \in Starts(U)}

(* Such extents are apart, and have the units of U and no others.          *)
LEMMA RunsAre ==
    ASSUME NEW s \in Nat, NEW U, U \subseteq 0..(s - 1), NEW J, RunsOf(J, U, s)
    PROVE  Journal(J) /\ Covered(J) = U
<1>1. PICK I : /\ \A u \in Starts(U) : I[u] \in Nat
               /\ J = {[off |-> u, len |-> Last(U, s, u) - u + 1, id |-> I[u]] : u \in Starts(U)}
    BY DEF RunsOf
<1> DEFINE Is(e, u, v) == /\ u \in Starts(U) /\ u \in U /\ u - 1 \notin U /\ u \in Nat
                          /\ v = Last(U, s, u) /\ v \in U /\ v \in Nat
                          /\ u <= v /\ v + 1 \notin U /\ (\A w \in u..v : w \in U)
                          /\ e = [off |-> u, len |-> v - u + 1, id |-> I[u]]
                          /\ e.off = u /\ e.off + e.len = v + 1 /\ e.len \in Nat \ {0} /\ I[u] \in Nat
<1>2. ASSUME NEW u \in Starts(U)
      PROVE  \E e \in J : \E v : Is(e, u, v)
    <2>1. u \in U /\ u - 1 \notin U /\ u \in Nat
        BY DEF Starts
    <2>2. PICK v : v = Last(U, s, u)
        OBVIOUS
    <2>3. v \in U /\ u <= v /\ v + 1 \notin U /\ \A w \in u..v : w \in U
        BY <2>1, <2>2, LastIs
    <2>4. v \in Nat
        BY <2>3
    <2>5. PICK e : e = [off |-> u, len |-> v - u + 1, id |-> I[u]]
        OBVIOUS
    <2>6. e \in J
        BY <1>1, <2>2, <2>5
    <2>7. e.off = u /\ e.len = v - u + 1
        BY <2>5
    <2>8. e.len \in Nat \ {0} /\ e.off + e.len = v + 1
        BY <2>1, <2>3, <2>4, <2>7
    <2>9. I[u] \in Nat
        BY <1>1
    <2>10. Is(e, u, v)
        BY <2>1, <2>2, <2>3, <2>4, <2>5, <2>7, <2>8, <2>9
    <2> HIDE DEF Is
    <2> QED BY <2>6, <2>10
<1>3. ASSUME NEW e \in J
      PROVE  \E u, v : Is(e, u, v)
    <2>1. PICK u \in Starts(U) : e = [off |-> u, len |-> Last(U, s, u) - u + 1, id |-> I[u]]
        BY <1>1
    <2>2. PICK f : f \in J /\ \E v : Is(f, u, v)
        <3> HIDE DEF Is
        <3> QED BY <1>2
    <2>3. PICK v : Is(f, u, v)
        <3> HIDE DEF Is
        <3> QED BY <2>2
    <2>4. f = e
        BY <2>1, <2>3
    <2> HIDE DEF Is
    <2> QED BY <2>3, <2>4
<1>4. J \subseteq [off : Nat, len : Nat \ {0}, id : Nat]
    <2> SUFFICES ASSUME NEW e \in J PROVE e \in [off : Nat, len : Nat \ {0}, id : Nat]
        OBVIOUS
    <2>1. PICK u, v : Is(e, u, v)
        <3> HIDE DEF Is
        <3> QED BY <1>3
    <2>2. PICK l : l = v - u + 1
        OBVIOUS
    <2>3. l \in Nat \ {0} /\ u \in Nat /\ I[u] \in Nat /\ e = [off |-> u, len |-> l, id |-> I[u]]
        BY <2>1, <2>2
    <2> HIDE DEF Is
    <2> QED BY <2>3
<1>5. ASSUME NEW e \in J, NEW f \in J, e # f
      PROVE  e.off + e.len <= f.off \/ f.off + f.len <= e.off
    <2>1. PICK u, v : Is(e, u, v)
        <3> HIDE DEF Is
        <3> QED BY <1>3
    <2>2. PICK x, y : Is(f, x, y)
        <3> HIDE DEF Is
        <3> QED BY <1>3
    <2>3. u # x
        BY <1>5, <2>1, <2>2
    <2>4. ASSUME u < x, x <= v PROVE FALSE
        <3>1. x - 1 \in u..v
            BY <2>1, <2>2, <2>4
        <3> QED BY <2>1, <2>2, <3>1
    <2>5. ASSUME x < u, u <= y PROVE FALSE
        <3>1. u - 1 \in x..y
            BY <2>1, <2>2, <2>5
        <3> QED BY <2>1, <2>2, <3>1
    <2>6. u \in Nat /\ v \in Nat /\ x \in Nat /\ y \in Nat
        BY <2>1, <2>2
    <2>7. v + 1 <= x \/ y + 1 <= u
        BY <2>3, <2>4, <2>5, <2>6
    <2> QED BY <2>1, <2>2, <2>7
<1>6. Journal(J)
    BY <1>4, <1>5 DEF Journal
<1>7. ASSUME NEW w \in U PROVE w \in Covered(J)
    <2>1. w \in Nat
        OBVIOUS
    <2>2. PICK u \in Starts(U) : u <= w /\ \A x \in u..w : x \in U
        BY StartIs
    <2>3. PICK e : e \in J /\ \E v : Is(e, u, v)
        <3> HIDE DEF Is
        <3> QED BY <1>2
    <2>6. PICK v : Is(e, u, v)
        <3> HIDE DEF Is
        <3> QED BY <2>3
    <2>4. ~(v < w)
        <3>1. v < w => v + 1 \in u..w
            BY <2>1, <2>2, <2>6
        <3> QED BY <2>2, <2>6, <3>1
    <2>5. e.off <= w /\ w < e.off + e.len
        BY <2>1, <2>2, <2>4, <2>6
    <2> HIDE DEF Is
    <2> QED BY <1>6, <2>1, <2>3, <2>5, CoveredIs
<1>8. ASSUME NEW w \in Covered(J) PROVE w \in U
    <2>1. PICK e \in J : w \in Nat /\ e.off <= w /\ w < e.off + e.len
        BY <1>6, CoveredIs
    <2>2. PICK u, v : Is(e, u, v)
        <3> HIDE DEF Is
        <3> QED BY <1>3
    <2>3. w \in u..v
        BY <2>1, <2>2
    <2> QED BY <2>2, <2>3
<1> QED BY <1>6, <1>7, <1>8

(* What a load makes of the storage that is not free.                      *)
LEMMA RebuildIs ==
    ASSUME NEW h, Lists(h)
    PROVE  LET r == RebuildOpaqueOwnership(h)
           IN  /\ Lists(r) /\ r.span = h.span /\ r.used = h.used /\ r.ids \in Nat
               /\ FreeUnits(r) = FreeUnits(h)
               /\ RunsOf(r.journal, Storage(h.span) \ FreeUnits(h), h.span)
               /\ \A e \in r.journal : e.id <= r.ids
<1> DEFINE s == h.span
           taken == (Header..(s - 1)) \ FreeUnits(h)
           U == taken \ SegmentPrefixes(h)
           id(u) == Id(Cardinality({x \in Starts(taken) : x <= u}))
           J == {[off |-> u, len |-> Last(U, s, u) - u + 1, id |-> id(u)] : u \in Starts(U)}
           n == Id(Cardinality(Starts(taken)))
<1>1. PICK r : r = [h EXCEPT !.journal = J, !.ids = n]
    OBVIOUS
<1>2. RebuildOpaqueOwnership(h) = r
    BY <1>1, Zenon DEF RebuildOpaqueOwnership, Starts, Last
<1>3. Whole(h) /\ Spanned(s) /\ s \in Nat /\ Header \in Nat /\ Header >= 1
    BY Geometry DEF Lists, Spanned
<1>4. U = Storage(s) \ FreeUnits(h)
    BY <1>3, PrefixesAre DEF Storage
<1>5. \A X : X \subseteq taken => Cardinality(X) \in Nat
    <2> SUFFICES ASSUME NEW X, X \subseteq taken PROVE Cardinality(X) \in Nat
        OBVIOUS
    <2>1. X \in SUBSET (0..s)
        BY <1>3
    <2>2. IsFiniteSet(0..s)
        BY <1>3, FS_Interval
    <2>3. IsFiniteSet(X)
        BY <2>1, <2>2, FS_Subset
    <2> QED BY <2>3, FS_CardinalityType
<1>6. ASSUME NEW u \in Starts(U) PROVE id(u) \in Nat
    <2>1. PICK X : X = {x \in Starts(taken) : x <= u}
        OBVIOUS
    <2>2. Cardinality(X) \in Nat
        <3> HIDE DEF taken
        <3> QED BY <1>5, <2>1 DEF Starts
    <2>3. id(u) = Id(Cardinality(X))
        BY <2>1
    <2> HIDE DEF id
    <2> QED BY <2>2, <2>3 DEF Id
<1>7. n \in Nat
    <2>1. Starts(taken) \subseteq taken
        BY DEF Starts
    <2>2. Cardinality(Starts(taken)) \in Nat
        <3> HIDE DEF taken
        <3> QED BY <1>5, <2>1
    <2> QED BY <2>2 DEF Id
<1>8. RunsOf(J, U, s)
    <2> HIDE DEF id, taken, U, s
    <2>1. PICK I : I = [u \in Starts(U) |-> id(u)]
        OBVIOUS
    <2>2. \A u \in Starts(U) : I[u] = id(u)
        BY <2>1
    <2>3. J = {[off |-> u, len |-> Last(U, s, u) - u + 1, id |-> I[u]] : u \in Starts(U)}
        BY <2>2
    <2> HIDE DEF J
    <2> QED BY <1>6, <2>2, <2>3 DEF RunsOf
<1>9. ASSUME NEW u \in Starts(U) PROVE id(u) <= n
    <2>1. PICK X, Y : X = {x \in Starts(taken) : x <= u} /\ Y = Starts(taken)
        OBVIOUS
    <2>2. X \subseteq Y /\ Y \subseteq taken
        BY <2>1 DEF Starts
    <2>3. IsFiniteSet(Y)
        <3>1. Y \in SUBSET (0..s)
            BY <1>3, <2>2
        <3>2. IsFiniteSet(0..s)
            BY <1>3, FS_Interval
        <3> QED BY <3>1, <3>2, FS_Subset
    <2>4. Cardinality(X) <= Cardinality(Y)
        BY <2>2, <2>3, FS_Subset
    <2>5. id(u) = Id(Cardinality(X)) /\ n = Id(Cardinality(Y))
        BY <2>1
    <2> HIDE DEF id, n
    <2> QED BY <2>4, <2>5 DEF Id
<1>10. ASSUME NEW e \in J PROVE e.id <= n
    <2>1. PICK u \in Starts(U) : e = [off |-> u, len |-> Last(U, s, u) - u + 1, id |-> id(u)]
        OBVIOUS
    <2>2. e.id = id(u)
        <3> HIDE DEF id
        <3> QED BY <2>1
    <2> HIDE DEF id, n
    <2> QED BY <1>9, <2>2
<1> HIDE DEF J, n, id, taken, U
<1>13. /\ Whole(r) /\ r.span = h.span /\ r.free = h.free /\ r.filed = h.filed
       /\ r.journal = J /\ r.used = h.used /\ r.ids = n
    <2>1. PICK a, b, c, d, x, f : h = [span |-> a, free |-> b, filed |-> c,
                                      journal |-> d, used |-> x, ids |-> f]
        BY <1>3 DEF Whole
    <2> QED BY <1>1, <2>1 DEF Whole
<1>14. Lists(r)
    BY <1>13 DEF Lists
<1> QED BY <1>2, <1>4, <1>7, <1>8, <1>10, <1>13, <1>14, FreeUnitsAre

(* A load gives the free storage back, and with it what is assigned.       *)
Restored(h, r) ==
    /\ HeapInv(r) /\ r.span = h.span /\ FreeUnits(r) = FreeUnits(h)
    /\ Covered(r.journal) = Covered(h.journal)
    /\ h.span \in Nat /\ Covered(h.journal) \subseteq 0..(h.span - 1)
    /\ RunsOf(r.journal, Covered(h.journal), h.span)
    /\ \A e \in r.journal : e.id <= r.ids

(* What a checkpoint keeps of a heap is enough for that.                   *)
LEMMA RestoreIs ==
    ASSUME NEW h, HeapInv(h)
    PROVE  Restored(h, RestoreCheckpoint(h))
<1>1. PICK U, s : U = Covered(h.journal) /\ s = h.span
    OBVIOUS
<1>2. /\ Lists(h) /\ Spanned(s) /\ s \in Nat /\ Blocks(h.free, s) /\ U = Storage(s) \ FreeUnits(h)
      /\ h.used = Cardinality(U) /\ FreeUnits(h) = Covers(h.free)
    BY <1>1, FreeUnitsAre DEF HeapInv, Lists, Spanned
<1>3. PICK h0 : h0 = [EmptyHeap(h.span) EXCEPT !.used = h.used]
    OBVIOUS
<1>4. /\ Whole(h0) /\ h0.span = s /\ h0.free = [o \in {} |-> 0]
      /\ h0.filed = [k \in 0..Classes |-> {}] /\ h0.used = h.used
    BY <1>1, <1>3 DEF EmptyHeap, Whole
<1>5. Lists(h0) /\ FreeUnits(h0) = {}
    BY <1>2, <1>4, EmptyIs
<1>6. PICK h1 : h1 = EnqueueAll(h0, h.free)
    OBVIOUS
<1>7. Lists(h1) /\ SameButLists(h0, h1) /\ FreeUnits(h1) = FreeUnits(h)
    BY <1>2, <1>4, <1>5, <1>6, EnqueueAllIs
<1>8. PICK r : r = RebuildOpaqueOwnership(h1)
    OBVIOUS
<1>9. /\ Lists(r) /\ r.span = h1.span /\ r.used = h1.used /\ r.ids \in Nat
      /\ FreeUnits(r) = FreeUnits(h1)
      /\ RunsOf(r.journal, Storage(h1.span) \ FreeUnits(h1), h1.span)
      /\ \A e \in r.journal : e.id <= r.ids
    BY <1>7, <1>8, RebuildIs
<1>10. h1.span = s /\ h1.used = h.used
    BY <1>4, <1>7 DEF SameButLists
<1>11. RunsOf(r.journal, U, s)
    BY <1>2, <1>7, <1>9, <1>10
<1>12. U \subseteq 0..(s - 1)
    <2>1. Header \in Nat
        BY Geometry
    <2> QED BY <1>2, <2>1 DEF Storage
<1>13. Journal(r.journal) /\ Covered(r.journal) = U
    BY <1>2, <1>11, <1>12, RunsAre
<1>14. HeapInv(r)
    BY <1>2, <1>7, <1>9, <1>10, <1>13 DEF HeapInv
<1>15. Restored(h, r)
    BY <1>1, <1>2, <1>7, <1>9, <1>10, <1>11, <1>12, <1>13, <1>14 DEF Restored
<1> QED BY <1>3, <1>6, <1>8, <1>15 DEF RestoreCheckpoint

(***************************************************************************)
(* The calls of the clients.                                               *)
(***************************************************************************)

(* What a client may free is a part of one extent.                         *)
LEMMA PartHeld ==
    ASSUME HeapInv(heap), NEW p \in PartsHeld
    PROVE  \E e \in heap.journal : PartOf(e, p[1], p[2])
<1>1. PICK e \in heap.journal : p \in {<<e.off, n>> : n \in 1..e.len} \cup
                                      {<<e.off + e.len - n, n>> : n \in 1..e.len}
    BY DEF PartsHeld
<1>2. PICK o, l : o = e.off /\ l = e.len
    OBVIOUS
<1>3. o \in Nat /\ l \in Nat /\ l >= 1
    BY <1>2, ExtentIs DEF HeapInv
<1>4. PICK n \in 1..l : p = <<o, n>> \/ p = <<o + l - n, n>>
    BY <1>1, <1>2
<1>5. n \in Nat /\ n >= 1 /\ n <= l
    BY <1>3
<1>6. PICK a, b : a = p[1] /\ b = p[2]
    OBVIOUS
<1>7. (a = o \/ a = o + l - n) /\ b = n
    BY <1>4, <1>6
<1>8. a \in Nat /\ b \in Nat /\ b >= 1 /\ o <= a /\ a + b <= o + l
    BY <1>3, <1>5, <1>7
<1> QED BY <1>2, <1>6, <1>8 DEF PartOf

(* A new pool has the division, and no extent.                             *)
LEMMA HeapInvInit == Init => HeapInv(heap) /\ heap.journal = {}
  BY NewHeapIs DEF Init

(* What a call does to the extents.                                        *)
Call(J, K, span) ==
    \/ K = J
    \/ Gains(J, K)
    \/ \E e \in J : \E off, len : PartOf(e, off, len) /\ K = (J \ {e}) \cup Remains(e, off, len)
    \/ RunsOf(K, Covered(J), span) /\ span \in Nat /\ Covered(J) \subseteq 0..(span - 1)
    \/ K = {}

(* Every call keeps the division, and does one of these to the extents.    *)
LEMMA HeapInvNext ==
    HeapInv(heap) /\ [Next]_heap => HeapInv(heap') /\ Call(heap.journal, heap'.journal, heap.span)
<1> SUFFICES ASSUME HeapInv(heap), [Next]_heap
             PROVE  HeapInv(heap') /\ Call(heap.journal, heap'.journal, heap.span)
    OBVIOUS
<1>1. ASSUME NEW n \in Sizes, Assign(n)
      PROVE  HeapInv(heap') /\ Call(heap.journal, heap'.journal, heap.span)
    <2>1. n \in Nat /\ n >= 1
        BY SizesAssumption
    <2>2. heap' = Allocate(heap, n).heap
        BY <1>1 DEF Assign
    <2>3. /\ HeapInv(heap')
          /\ heap'.journal = heap.journal \/ Gains(heap.journal, heap'.journal)
        BY <2>1, <2>2, AllocateIs DEF Gains
    <2> QED BY <2>3 DEF Call
<1>2. ASSUME NEW p \in PartsHeld, FreeArea(p[1], p[2])
      PROVE  HeapInv(heap') /\ Call(heap.journal, heap'.journal, heap.span)
    <2>1. PICK e \in heap.journal : PartOf(e, p[1], p[2])
        BY PartHeld
    <2>2. PICK off, len : off = p[1] /\ len = p[2]
        OBVIOUS
    <2>3. heap' = Free(heap, off, len) /\ PartOf(e, off, len)
        BY <1>2, <2>1, <2>2 DEF FreeArea
    <2>4. /\ HeapInv(heap')
          /\ heap'.journal = (heap.journal \ {e}) \cup Remains(e, off, len)
        BY <2>3, FreeIs
    <2> QED BY <2>3, <2>4 DEF Call
<1>3. CASE SaveAndLoad
    <2>1. heap' = RestoreCheckpoint(heap)
        BY <1>3 DEF SaveAndLoad
    <2>2. Restored(heap, heap')
        BY <2>1, RestoreIs
    <2> QED BY <2>2 DEF Restored, Call
<1>4. CASE Reset
    BY <1>4, NewHeapIs DEF Reset, Call
<1>5. CASE UNCHANGED heap
    BY <1>5 DEF Call
<1> QED BY <1>1, <1>2, <1>3, <1>4, <1>5 DEF Next

(* Every assign, free, load and reset leaves the pool a division of its    *)
(* storage into free blocks, filed by their lengths, and extents           *)
(* (GuestHeap.cpp).                                                        *)
THEOREM HeapInvHolds == Spec => []HeapInv(heap)
<1>1. Init => HeapInv(heap)
    BY HeapInvInit
<1>2. HeapInv(heap) /\ [Next]_heap => HeapInv(heap)'
    BY HeapInvNext
<1> QED BY <1>1, <1>2, PTL DEF Spec

(* The division, as checkInvariants looks at it.                           *)
LEMMA PartitionIs ==
    ASSUME HeapInv(heap)
    PROVE  Partition
<1>1. PICK s, F, U : s = heap.span /\ F = heap.free /\ U = Covered(heap.journal)
    OBVIOUS
<1>2. /\ Spanned(s) /\ s \in Nat /\ Blocks(F, s) /\ Journal(heap.journal)
      /\ U = Storage(s) \ FreeUnits(heap) /\ FreeUnits(heap) = Covers(F)
      /\ FreeUnits(heap) \subseteq Storage(s)
    BY <1>1, FreeUnitsAre, FreeIsStorage DEF HeapInv, Lists, Spanned
<1>3. Header \in Nat /\ Header >= 1 /\ Initial \in Nat /\ Header < Initial
    BY Geometry
<1>4. SegmentPrefixes(heap) = {u \in 0..(s - 1) : Prefix(u)}
    BY <1>1, <1>2, PrefixesAre
<1>5. Disjoint(FreeExtents)
    <2> SUFFICES ASSUME NEW o \in DOMAIN F, NEW p \in DOMAIN F, o # p
                 PROVE  Run(o, F[o]) \cap Run(p, F[p]) = {}
        BY <1>1 DEF Disjoint, FreeExtents
    <2>1. PICK m, n : m = F[o] /\ n = F[p]
        OBVIOUS
    <2>2. o \in Nat /\ p \in Nat /\ m \in Nat /\ n \in Nat
        BY <1>2, <2>1, BlockIs
    <2>3. o + m <= p \/ p + n <= o
        <3>1. (o < p => o + m <= p) /\ (p < o => p + n <= o)
            BY <1>2, <2>1 DEF Blocks
        <3> QED BY <2>2, <3>1
    <2>4. Run(o, m) \cap Run(p, n) = {}
        BY <2>2, <2>3, RunIs
    <2> QED BY <2>1, <2>4
<1>6. Disjoint(heap.journal)
    <2> SUFFICES ASSUME NEW e \in heap.journal, NEW f \in heap.journal, e # f
                 PROVE  Run(e.off, e.len) \cap Run(f.off, f.len) = {}
        BY DEF Disjoint
    <2>1. PICK o, m, p, n : o = e.off /\ m = e.len /\ p = f.off /\ n = f.len
        OBVIOUS
    <2>2. o \in Nat /\ p \in Nat /\ m \in Nat /\ n \in Nat
        BY <1>2, <2>1, ExtentIs
    <2>3. o + m <= p \/ p + n <= o
        BY <1>2, <2>1 DEF Journal
    <2>4. Run(o, m) \cap Run(p, n) = {}
        BY <2>2, <2>3, RunIs
    <2> QED BY <2>1, <2>4
<1>7. FreeUnits(heap) \cap U = {} /\ FreeUnits(heap) \cup U = Storage(s)
    BY <1>2
<1>8. PICK reserved : reserved = (0..(Header - 1)) \cup SegmentPrefixes(heap)
    OBVIOUS
<1>9. Initial <= s
    <2>1. PICK m \in Nat : s = Initial + m * Segment
        BY <1>2 DEF Spanned
    <2>2. m * Segment \in Nat
        BY Sizing, Times
    <2> QED BY <1>3, <2>1, <2>2
<1>10. ASSUME NEW u
       PROVE  /\ u \in reserved => u \notin Storage(s)
              /\ u \in reserved \/ u \in Storage(s) <=> u \in 0..(s - 1)
    <2>1. u \in reserved <=> u \in 0..(Header - 1) \/ (u \in 0..(s - 1) /\ Prefix(u))
        BY <1>4, <1>8
    <2>2. u \in Storage(s) <=> u \in Header..(s - 1) /\ ~Prefix(u)
        BY DEF Storage
    <2>3. u \in 0..(s - 1) <=> u \in 0..(Header - 1) \/ u \in Header..(s - 1)
        BY <1>2, <1>3, <1>9
    <2>4. ~(u \in 0..(Header - 1) /\ u \in Header..(s - 1))
        BY <1>3
    <2> QED BY <2>1, <2>2, <2>3, <2>4
<1>11. reserved \cap (FreeUnits(heap) \cup U) = {}
    BY <1>7, <1>10
<1>12. reserved \cup FreeUnits(heap) \cup U = 0..(s - 1)
    BY <1>7, <1>10
<1> QED BY <1>1, <1>5, <1>6, <1>7, <1>8, <1>11, <1>12 DEF Partition

(* No block is filed past the last class, or under two.                    *)
LEMMA FiledIs ==
    ASSUME HeapInv(heap)
    PROVE  FiledByLength
<1>1. PICK F, G : F = heap.free /\ G = heap.filed
    OBVIOUS
<1>2. /\ G = [k \in 0..Classes |-> {o \in DOMAIN F : F[o] = Power[k]}]
      /\ \A o \in DOMAIN F : \E k \in 0..(Classes - 1) : F[o] = Power[k]
    BY <1>1 DEF HeapInv, Lists, Blocks
<1>3. Classes \in Nat /\ Classes \in 0..Classes /\ \A k \in 0..(Classes - 1) : k \in 0..Classes /\ k # Classes
    BY Geometry
<1>4. \A k \in 0..(Classes - 1) : G[k] = {o \in DOMAIN F : F[o] = Power[k]}
    BY <1>2, <1>3
<1>5. G[Classes] = {}
    <2> SUFFICES ASSUME NEW o \in DOMAIN F, F[o] = Power[Classes] PROVE FALSE
        BY <1>2, <1>3
    <2>1. PICK k \in 0..(Classes - 1) : F[o] = Power[k]
        BY <1>2
    <2>2. k = Classes
        BY <1>3, <2>1, Sizing
    <2> QED BY <1>3, <2>2
<1>6. UNION {G[k] : k \in 0..(Classes - 1)} = DOMAIN F
    <2>1. ASSUME NEW o \in DOMAIN F PROVE o \in UNION {G[k] : k \in 0..(Classes - 1)}
        <3>1. PICK k \in 0..(Classes - 1) : F[o] = Power[k]
            BY <1>2
        <3>2. o \in G[k]
            BY <1>4, <3>1
        <3> QED BY <3>2
    <2>2. ASSUME NEW o \in UNION {G[k] : k \in 0..(Classes - 1)} PROVE o \in DOMAIN F
        <3>1. PICK k \in 0..(Classes - 1) : o \in G[k]
            BY <2>2
        <3> QED BY <1>4, <3>1
    <2> QED BY <2>1, <2>2
<1> QED BY <1>1, <1>4, <1>5, <1>6 DEF FiledByLength

(* What the runs check follows from the division.                          *)
LEMMA HeapInvIsRight ==
    ASSUME HeapInv(heap)
    PROVE  PoolIntact /\ FreeAccepted /\ RestoreKeepsStorage
<1>1. PoolIntact
    <2>1. Accounting
        BY DEF HeapInv, Accounting
    <2> QED BY <2>1, PartitionIs, FiledIs DEF PoolIntact
<1>2. FreeAccepted
    <2> SUFFICES ASSUME NEW p \in PartsHeld PROVE ~FreeRefused(heap, p[1], p[2])
        BY DEF FreeAccepted
    <2>1. PICK e \in heap.journal : PartOf(e, p[1], p[2])
        BY PartHeld
    <2> QED BY <2>1, PartAccepted
<1>3. RestoreKeepsStorage
    <2>1. PICK r : r = RestoreCheckpoint(heap)
        OBVIOUS
    <2>2. Restored(heap, r)
        BY <2>1, RestoreIs
    <2>3. r.span = heap.span /\ FreeUnits(r) = FreeUnits(heap) /\ r.used = Cardinality(Covered(r.journal))
        BY <2>2 DEF Restored, HeapInv
    <2> QED BY <2>1, <2>3 DEF RestoreKeepsStorage
<1> QED BY <1>1, <1>2, <1>3

(* checkInvariants (GuestHeap.cpp:103-162) finds nothing wrong after any   *)
(* sequence of calls: for any number of classes, any rounding, any header, *)
(* any initial part and any number of segments.                            *)
THEOREM PoolIntactHolds == Spec => []PoolIntact
<1>1. HeapInv(heap) => PoolIntact
    BY HeapInvIsRight
<1> QED BY <1>1, HeapInvHolds, PTL

(* No client that gives back a part of what it holds is refused            *)
(* (GuestHeap.cpp:348-393).                                                *)
THEOREM FreeAcceptedHolds == Spec => []FreeAccepted
<1>1. HeapInv(heap) => FreeAccepted
    BY HeapInvIsRight
<1> QED BY <1>1, HeapInvHolds, PTL

(* A checkpoint taken after any sequence of calls, and loaded, gives the   *)
(* pool the span, the free storage and the account it had                  *)
(* (GuestHeap.cpp:164-207).                                                *)
THEOREM RestoreKeepsStorageHolds == Spec => []RestoreKeepsStorage
<1>1. HeapInv(heap) => RestoreKeepsStorage
    BY HeapInvIsRight
<1> QED BY <1>1, HeapInvHolds, PTL

(***************************************************************************)
(* The allocator implements the area pool.                                 *)
(***************************************************************************)

(* What ImplementsAreaPool may assign.                                     *)
PoolUnits == (Header..(Ceiling - 1)) \ {Initial + i * Segment : i \in 0..(Ceiling \div Segment)}

(* The pool's storage is among it, however far it has been extended.       *)
LEMMA StorageIsAssignable ==
    ASSUME NEW s, Spanned(s)
    PROVE  Storage(s) \subseteq PoolUnits
<1>1. s \in Nat /\ s <= Ceiling /\ Ceiling \in Nat /\ Header \in Nat /\ Segment \in Nat /\ Segment >= 1
    BY Geometry, Sizing DEF Spanned
<1>2. Ceiling \div Segment \in Nat
    BY <1>1, Quotient
<1>3. ASSUME NEW u, ~Prefix(u) PROVE u \notin {Initial + i * Segment : i \in 0..(Ceiling \div Segment)}
    <2>1. \A i \in 0..(Ceiling \div Segment) : i \in Nat
        BY <1>2
    <2> QED BY <1>3, <2>1 DEF Prefix
<1>4. \A u \in Header..(s - 1) : u \in Header..(Ceiling - 1)
    BY <1>1
<1> QED BY <1>3, <1>4 DEF Storage, PoolUnits

(* The areas are those of the pool that Pool is about.                     *)
LEMMA OwnedIs ==
    ASSUME HeapInv(heap), NEW u \in Int
    PROVE  Pool!Owned(u) <=> u \in Covered(heap.journal)
<1>1. Journal(heap.journal)
    BY DEF HeapInv
<1>2. Pool!Owned(u) <=> \E e \in heap.journal : e.off <= u /\ u < e.off + e.len
    <2>1. ASSUME Pool!Owned(u) PROVE \E e \in heap.journal : e.off <= u /\ u < e.off + e.len
        <3>1. PICK a \in {[off |-> e.off, len |-> e.len] : e \in heap.journal} :
                      a.off <= u /\ u < a.off + a.len
            BY <2>1 DEF Pool!Owned, Pool!Owns
        <3>2. PICK e \in heap.journal : a = [off |-> e.off, len |-> e.len]
            BY <3>1
        <3> QED BY <3>1, <3>2
    <2>2. ASSUME NEW e \in heap.journal, e.off <= u, u < e.off + e.len PROVE Pool!Owned(u)
        <3>1. PICK a : a = [off |-> e.off, len |-> e.len]
            OBVIOUS
        <3>2. a \in {[off |-> x.off, len |-> x.len] : x \in heap.journal} /\ a.off = e.off /\ a.len = e.len
            BY <3>1
        <3> QED BY <2>2, <3>2 DEF Pool!Owned, Pool!Owns
    <2> QED BY <2>1, <2>2
<1>3. ASSUME NEW e \in heap.journal, e.off <= u PROVE u \in Nat
    <2>1. e.off \in Nat
        BY <1>1, ExtentIs
    <2> QED BY <1>3, <2>1
<1> QED BY <1>1, <1>2, <1>3, CoveredIs

(* An assign is one of the abstract pool, or changes nothing.              *)
LEMMA AssignStep ==
    ASSUME HeapInv(heap), Gains(heap.journal, heap'.journal)
    PROVE  Pool!Next
<1>1. PICK J, K : J = heap.journal /\ K = heap'.journal
    OBVIOUS
<1>2. PICK off \in Nat, size \in Nat, id \in Nat :
          /\ size >= 1 /\ K = J \cup {[off |-> off, len |-> size, id |-> id]}
          /\ \E s : Spanned(s) /\ Run(off, size) \subseteq Storage(s)
          /\ \A e \in J : e.off + e.len <= off \/ off + size <= e.off
    BY <1>1 DEF Gains, GainsAt
<1>3. PICK last : last = off + size - 1
    OBVIOUS
<1>4. last \in Nat /\ last - off + 1 = size
    BY <1>2, <1>3
<1>5. Run(off, size) \subseteq PoolUnits
    BY <1>2, StorageIsAssignable
<1>6. off \in PoolUnits /\ last \in PoolUnits
    <2>1. off \in Run(off, size) /\ last \in Run(off, size)
        BY <1>2, <1>3, <1>4, RunIs
    <2> QED BY <1>5, <2>1
<1>7. PICK a : a = [off |-> off, len |-> size]
    OBVIOUS
<1>8. {[off |-> e.off, len |-> e.len] : e \in K} = {[off |-> e.off, len |-> e.len] : e \in J} \cup {a}
    <2>1. PICK x : x = [off |-> off, len |-> size, id |-> id]
        OBVIOUS
    <2>2. x.off = off /\ x.len = size /\ K = J \cup {x}
        BY <1>2, <2>1
    <2>3. a = [off |-> x.off, len |-> x.len]
        BY <1>7, <2>2
    <2> QED BY <2>2, <2>3
<1>9. \A b \in {[off |-> e.off, len |-> e.len] : e \in J} : b.off + b.len <= off \/ off + size <= b.off
    BY <1>2
<1>10. Pool!Assign(off, last - off + 1)
    BY <1>1, <1>2, <1>4, <1>5, <1>7, <1>8, <1>9 DEF Pool!Assign, Pool!Run, Pool!Apart, Run, PoolUnits
<1> QED BY <1>6, <1>10 DEF Pool!Next, PoolUnits

(* A free is one of the abstract pool.                                     *)
LEMMA FreeStep ==
    ASSUME HeapInv(heap), NEW e \in heap.journal, NEW off, NEW len, PartOf(e, off, len),
           heap'.journal = (heap.journal \ {e}) \cup Remains(e, off, len)
    PROVE  Pool!Next
<1>1. PICK J, K, R : J = heap.journal /\ K = heap'.journal /\ R = Remains(e, off, len)
    OBVIOUS
<1>2. Journal(J) /\ e \in J /\ K = (J \ {e}) \cup R
    BY <1>1 DEF HeapInv
<1>3. PICK o, l : o = e.off /\ l = e.len
    OBVIOUS
<1>4. o \in Nat /\ l \in Nat /\ l >= 1 /\ e.id \in Nat
    BY <1>2, <1>3, ExtentIs
<1>5. off \in Nat /\ len \in Nat /\ len >= 1 /\ o <= off /\ off + len <= o + l
    BY <1>3 DEF PartOf
<1>6. PICK a : a = [off |-> o, len |-> l]
    OBVIOUS
<1>7. a.off = o /\ a.len = l /\ a = [off |-> e.off, len |-> e.len]
    BY <1>3, <1>6
<1>8. ASSUME NEW f \in J, [off |-> f.off, len |-> f.len] = a PROVE f = e
    <2>1. f.off = o /\ f.len = l
        BY <1>7, <1>8
    <2>2. f # e => o + l <= o
        BY <1>2, <1>3, <2>1 DEF Journal
    <2> QED BY <1>4, <2>2
<1>9. {[off |-> p.off, len |-> p.len] : p \in R} = Pool!Rest(a, off, len)
    <2>1. R = {p \in {[off |-> o, len |-> off - o, id |-> e.id],
                      [off |-> off + len, len |-> o + l - (off + len), id |-> e.id]} : p.len > 0}
        BY <1>1, <1>2, <1>3, RemainsAre
    <2>2. PICK l1, o2, l2 : l1 = off - o /\ o2 = off + len /\ l2 = o + l - (off + len)
        OBVIOUS
    <2>3. Pool!Rest(a, off, len) =
             {r \in {[off |-> o, len |-> l1], [off |-> o2, len |-> l2]} : r.len > 0}
        <3>1. (o + l) - (off + len) = l2
            BY <1>4, <1>5, <2>2
        <3> QED BY <1>7, <2>2, <3>1 DEF Pool!Rest
    <2>4. R = {p \in {[off |-> o, len |-> l1, id |-> e.id], [off |-> o2, len |-> l2, id |-> e.id]} : p.len > 0}
        BY <2>1, <2>2
    <2>5. PICK p1, p2, r1, r2 : /\ p1 = [off |-> o, len |-> l1, id |-> e.id]
                                /\ p2 = [off |-> o2, len |-> l2, id |-> e.id]
                                /\ r1 = [off |-> o, len |-> l1] /\ r2 = [off |-> o2, len |-> l2]
        OBVIOUS
    <2>6. /\ r1 = [off |-> p1.off, len |-> p1.len] /\ r2 = [off |-> p2.off, len |-> p2.len]
          /\ p1.len = r1.len /\ p2.len = r2.len
        BY <2>5
    <2>7. R = {p \in {p1, p2} : p.len > 0} /\ Pool!Rest(a, off, len) = {r \in {r1, r2} : r.len > 0}
        BY <2>3, <2>4, <2>5
    <2>8. ASSUME NEW p \in R PROVE [off |-> p.off, len |-> p.len] \in Pool!Rest(a, off, len)
        BY <2>6, <2>7
    <2>9. ASSUME NEW r \in Pool!Rest(a, off, len) PROVE \E p \in R : r = [off |-> p.off, len |-> p.len]
        BY <2>6, <2>7
    <2> QED BY <2>8, <2>9
<1>10. {[off |-> x.off, len |-> x.len] : x \in K} =
          ({[off |-> x.off, len |-> x.len] : x \in J} \ {a}) \cup Pool!Rest(a, off, len)
    <2>1. {[off |-> x.off, len |-> x.len] : x \in J \ {e}} = {[off |-> x.off, len |-> x.len] : x \in J} \ {a}
        BY <1>2, <1>7, <1>8
    <2>2. {[off |-> x.off, len |-> x.len] : x \in K} =
              {[off |-> x.off, len |-> x.len] : x \in J \ {e}} \cup {[off |-> p.off, len |-> p.len] : p \in R}
        BY <1>2
    <2> QED BY <1>9, <2>1, <2>2
<1>11. Pool!Free(a, off, len)
    BY <1>1, <1>5, <1>7, <1>10 DEF Pool!Free
<1>12. a \in {[off |-> x.off, len |-> x.len] : x \in heap.journal}
    BY <1>7
<1>13. off \in Pool!Run(a.off, a.len) /\ len \in 1..a.len
    BY <1>4, <1>5, <1>7 DEF Pool!Run
<1> QED BY <1>11, <1>12, <1>13 DEF Pool!Next

(* A load is one of the abstract pool.                                     *)
LEMMA LoadStepIs ==
    ASSUME HeapInv(heap), NEW s \in Nat, Covered(heap.journal) \subseteq 0..(s - 1),
           RunsOf(heap'.journal, Covered(heap.journal), s)
    PROVE  Pool!Next
<1>1. PICK U, K : U = Covered(heap.journal) /\ K = heap'.journal
    OBVIOUS
<1>2. U \subseteq 0..(s - 1) /\ RunsOf(K, U, s)
    BY <1>1
<1>3. \A u \in Int : Pool!Owned(u) <=> u \in U
    BY <1>1, OwnedIs
<1>4. U \subseteq PoolUnits
    <2>1. Spanned(heap.span) /\ U \subseteq Storage(heap.span)
        BY <1>1 DEF HeapInv, Lists
    <2> QED BY <2>1, StorageIsAssignable
<1>5. PoolUnits \subseteq Int
    BY Geometry DEF PoolUnits
<1> DEFINE Q == {q \in PoolUnits \X PoolUnits : /\ q[1] <= q[2] /\ \A w \in q[1]..q[2] : Pool!Owned(w)
                                        /\ ~Pool!Owned(q[1] - 1) /\ ~Pool!Owned(q[2] + 1)}
           Load == {[off |-> p[1], len |-> p[2] - p[1] + 1] : p \in Q}
           Loaded == {[off |-> x.off, len |-> x.len] : x \in K}
<1>6. PICK I : K = {[off |-> u, len |-> Last(U, s, u) - u + 1, id |-> I[u]] : u \in Starts(U)}
    BY <1>2 DEF RunsOf
<1>7. Loaded = {[off |-> u, len |-> Last(U, s, u) - u + 1] : u \in Starts(U)}
    <2>1. ASSUME NEW u, NEW l, NEW i, NEW x, x = [off |-> u, len |-> l, id |-> i]
          PROVE  [off |-> x.off, len |-> x.len] = [off |-> u, len |-> l]
        BY <2>1
    <2>2. ASSUME NEW a \in Loaded
          PROVE  \E u \in Starts(U) : a = [off |-> u, len |-> Last(U, s, u) - u + 1]
        <3>1. PICK x \in K : a = [off |-> x.off, len |-> x.len]
            BY <2>2
        <3>2. PICK u \in Starts(U) : x = [off |-> u, len |-> Last(U, s, u) - u + 1, id |-> I[u]]
            BY <1>6
        <3>3. a = [off |-> u, len |-> Last(U, s, u) - u + 1]
            BY <2>1, <3>1, <3>2
        <3> QED BY <3>3
    <2>3. ASSUME NEW u \in Starts(U) PROVE [off |-> u, len |-> Last(U, s, u) - u + 1] \in Loaded
        <3>1. PICK x : x = [off |-> u, len |-> Last(U, s, u) - u + 1, id |-> I[u]]
            OBVIOUS
        <3>2. x \in K /\ [off |-> x.off, len |-> x.len] = [off |-> u, len |-> Last(U, s, u) - u + 1]
            BY <1>6, <2>1, <3>1
        <3> QED BY <3>2
    <2> HIDE DEF Loaded
    <2> QED BY <2>2, <2>3
<1>8. ASSUME NEW u \in Starts(U) PROVE <<u, Last(U, s, u)>> \in Q
    <2>1. PICK v : v = Last(U, s, u)
        OBVIOUS
    <2>2. u \in U /\ u - 1 \notin U
        BY DEF Starts
    <2>3. v \in U /\ u <= v /\ v + 1 \notin U /\ \A w \in u..v : w \in U
        BY <1>2, <2>1, <2>2, LastIs
    <2>4. u \in PoolUnits /\ v \in PoolUnits /\ u \in Int /\ v \in Int
        BY <1>4, <1>5, <2>2, <2>3
    <2>5. u - 1 \in Int /\ v + 1 \in Int /\ \A w \in u..v : w \in Int
        BY <2>4
    <2>6. ~Pool!Owned(u - 1) /\ ~Pool!Owned(v + 1) /\ \A w \in u..v : Pool!Owned(w)
        BY <1>3, <2>2, <2>3, <2>5
    <2> QED BY <2>1, <2>3, <2>4, <2>6
<1>9. ASSUME NEW q \in Q PROVE q[1] \in Starts(U) /\ q[2] = Last(U, s, q[1])
    <2>1. PICK x, y : x = q[1] /\ y = q[2]
        OBVIOUS
    <2>2. /\ x \in PoolUnits /\ y \in PoolUnits /\ x <= y /\ (\A w \in x..y : Pool!Owned(w))
          /\ ~Pool!Owned(x - 1) /\ ~Pool!Owned(y + 1)
        BY <2>1
    <2>3. x \in Int /\ y \in Int /\ x - 1 \in Int /\ y + 1 \in Int
        BY <1>5, <2>2
    <2>4. (\A w \in x..y : w \in U) /\ x - 1 \notin U /\ y + 1 \notin U
        BY <1>3, <2>2, <2>3
    <2>5. x \in U
        BY <2>2, <2>3, <2>4
    <2>6. PICK v : v = Last(U, s, x)
        OBVIOUS
    <2>7. v \in U /\ x <= v /\ v + 1 \notin U /\ \A w \in x..v : w \in U
        BY <1>2, <2>5, <2>6, LastIs
    <2>8. v \in Int
        BY <1>2, <2>7
    <2>9. ~(v < y)
        <3>1. v < y => v + 1 \in x..y
            BY <2>3, <2>7, <2>8
        <3> QED BY <2>4, <2>7, <3>1
    <2>10. ~(y < v)
        <3>1. y < v => y + 1 \in x..v
            BY <2>2, <2>3, <2>8
        <3> QED BY <2>4, <2>7, <3>1
    <2>11. y = v
        BY <2>3, <2>8, <2>9, <2>10
    <2> QED BY <2>1, <2>4, <2>5, <2>6, <2>11 DEF Starts
<1>10. Loaded = Load
    <2>1. ASSUME NEW a \in Loaded PROVE a \in Load
        <3>1. PICK u \in Starts(U) : a = [off |-> u, len |-> Last(U, s, u) - u + 1]
            BY <1>7
        <3>2. PICK p : p = <<u, Last(U, s, u)>>
            OBVIOUS
        <3>3. p \in Q /\ a = [off |-> p[1], len |-> p[2] - p[1] + 1]
            <4> HIDE DEF Q
            <4> QED BY <1>8, <3>1, <3>2
        <3> HIDE DEF Q
        <3> QED BY <3>3
    <2>2. ASSUME NEW a \in Load PROVE a \in Loaded
        <3>1. PICK p \in Q : a = [off |-> p[1], len |-> p[2] - p[1] + 1]
            <4> HIDE DEF Q
            <4> QED BY <2>2
        <3>2. p[1] \in Starts(U) /\ p[2] = Last(U, s, p[1])
            BY <1>9
        <3> HIDE DEF Q, Loaded
        <3> QED BY <1>7, <3>1, <3>2
    <2> HIDE DEF Load, Loaded
    <2> QED BY <2>1, <2>2
<1>11. Pool!Load
    BY <1>1, <1>10 DEF Pool!Load, PoolUnits
<1> QED BY <1>11 DEF Pool!Next

(* The buddy allocator keeps every promise of an area pool: what it        *)
(* assigns nobody has, what is freed is what the client named, and a load  *)
(* keeps what was assigned (GuestHeap.cpp).                                *)
THEOREM ImplementsAreaPoolHolds == Spec => ImplementsAreaPool
<1>1. Init => Pool!Init
    BY HeapInvInit DEF Pool!Init
<1>2. HeapInv(heap) /\ [Next]_heap
        => [Pool!Next]_{[off |-> e.off, len |-> e.len] : e \in heap.journal}
    <2> SUFFICES ASSUME HeapInv(heap), [Next]_heap
                 PROVE  [Pool!Next]_{[off |-> e.off, len |-> e.len] : e \in heap.journal}
        OBVIOUS
    <2>1. Call(heap.journal, heap'.journal, heap.span)
        BY HeapInvNext
    <2>2. CASE heap'.journal = heap.journal
        BY <2>2
    <2>3. CASE Gains(heap.journal, heap'.journal)
        BY <2>3, AssignStep
    <2>4. ASSUME NEW e \in heap.journal, NEW off, NEW len, PartOf(e, off, len),
                 heap'.journal = (heap.journal \ {e}) \cup Remains(e, off, len)
          PROVE  Pool!Next
        BY <2>4, FreeStep
    <2>5. CASE /\ RunsOf(heap'.journal, Covered(heap.journal), heap.span)
               /\ heap.span \in Nat /\ Covered(heap.journal) \subseteq 0..(heap.span - 1)
        BY <2>5, LoadStepIs
    <2>6. CASE heap'.journal = {}
        BY <2>6 DEF Pool!Next, Pool!Reset
    <2> QED BY <2>1, <2>2, <2>3, <2>4, <2>5, <2>6 DEF Call
<1>3. Spec => []HeapInv(heap)
    BY HeapInvHolds
<1> QED BY <1>1, <1>2, <1>3, PTL DEF Spec, ImplementsAreaPool, Pool!Spec

(***************************************************************************)
(* The abstract pool never gives two clients a common unit. NoOverlap is   *)
(* inductive as it stands.                                                 *)
(***************************************************************************)

(* Where an area lies, and how long it is, are numbers.                    *)
LEMMA AreaTyped ==
    ASSUME Assignable \subseteq Nat, NEW a \in AnyPool!Areas
    PROVE  /\ a = [off |-> a.off, len |-> a.len]
           /\ a.off \in Nat /\ a.len \in Nat \ {0}
           /\ AnyPool!Run(a.off, a.len) \subseteq Assignable
  BY DEF AnyPool!Areas

(* What is left of an area lies in the area, and off the freed part.       *)
LEMMA RestLies ==
    ASSUME Assignable \subseteq Nat, NEW a \in AnyPool!Areas,
           NEW off \in Int, NEW len \in Int, len > 0, a.off <= off, off + len <= a.off + a.len,
           NEW r \in AnyPool!Rest(a, off, len)
    PROVE  /\ r \in AnyPool!Areas
           /\ a.off <= r.off /\ r.off + r.len <= a.off + a.len
           /\ r.off + r.len <= off \/ off + len <= r.off
  <1>1. a.off \in Nat /\ a.len \in Nat \ {0} /\ AnyPool!Run(a.off, a.len) \subseteq Assignable
    BY AreaTyped
  <1>2. /\ r.off \in Nat /\ r.len \in Nat \ {0}
        /\ r = [off |-> r.off, len |-> r.len]
        /\ a.off <= r.off /\ r.off + r.len <= a.off + a.len
        /\ r.off + r.len <= off \/ off + len <= r.off
    BY <1>1 DEF AnyPool!Rest
  <1>3. AnyPool!Run(r.off, r.len) \subseteq AnyPool!Run(a.off, a.len)
    BY <1>1, <1>2 DEF AnyPool!Run
  <1>4. r.off \in AnyPool!Run(r.off, r.len)
    BY <1>2 DEF AnyPool!Run
  <1> QED
    BY <1>2, <1>3, <1>4 DEF AnyPool!Areas

(* The two parts that are left are apart.                                  *)
LEMMA RestApart ==
    ASSUME Assignable \subseteq Nat, NEW a \in AnyPool!Areas,
           NEW off \in Int, NEW len \in Int, len > 0,
           NEW r \in AnyPool!Rest(a, off, len), NEW s \in AnyPool!Rest(a, off, len), r # s
    PROVE  AnyPool!Apart(r, s)
  <1>1. a.off \in Nat /\ a.len \in Nat
    BY AreaTyped
  <1> QED
    BY <1>1 DEF AnyPool!Rest, AnyPool!Apart

(* A new area is one nobody has a unit of.                                 *)
LEMMA AssignKeepsApart ==
    ASSUME Assignable \subseteq Nat, AnyPool!NoOverlap,
           NEW off \in Assignable, NEW last \in Assignable,
           AnyPool!Assign(off, last - off + 1)
    PROVE  AnyPool!NoOverlap'
  <1> DEFINE a == [off |-> off, len |-> last - off + 1]
  <1>1. off \in Nat /\ last \in Nat
    OBVIOUS
  <1>2. a \in AnyPool!Areas
    BY <1>1 DEF AnyPool!Assign, AnyPool!Areas
  <1>3. \A b \in pool : AnyPool!Apart(a, b) /\ AnyPool!Apart(b, a)
    BY <1>1 DEF AnyPool!Assign, AnyPool!Apart
  <1>4. pool' = pool \cup {a}
    BY DEF AnyPool!Assign
  <1>5. pool' \subseteq AnyPool!Areas
    BY <1>2, <1>4 DEF AnyPool!NoOverlap
  <1>6. \A b, c \in pool' : b # c => AnyPool!Apart(b, c)
    BY <1>3, <1>4 DEF AnyPool!NoOverlap
  <1> QED
    BY <1>5, <1>6 DEF AnyPool!NoOverlap

(* A free splits one area; the parts lie in it, so they are apart from the *)
(* others as it was.                                                       *)
LEMMA FreeKeepsApart ==
    ASSUME Assignable \subseteq Nat, AnyPool!NoOverlap,
           NEW a \in pool, NEW off \in Int, NEW len \in Int,
           AnyPool!Free(a, off, len)
    PROVE  AnyPool!NoOverlap'
  <1>1. /\ a \in AnyPool!Areas
        /\ len > 0 /\ a.off <= off /\ off + len <= a.off + a.len
        /\ pool' = (pool \ {a}) \cup AnyPool!Rest(a, off, len)
    BY DEF AnyPool!NoOverlap, AnyPool!Free
  <1>2. \A r \in AnyPool!Rest(a, off, len) :
          /\ r \in AnyPool!Areas
          /\ a.off <= r.off /\ r.off + r.len <= a.off + a.len
    BY <1>1, RestLies
  <1>3. pool' \subseteq AnyPool!Areas
    BY <1>1, <1>2 DEF AnyPool!NoOverlap
  <1>4. ASSUME NEW b \in pool', NEW c \in pool', b # c
        PROVE  AnyPool!Apart(b, c)
    <2>1. CASE b \in pool \ {a} /\ c \in pool \ {a}
      BY <2>1, <1>4 DEF AnyPool!NoOverlap
    <2>2. CASE b \in AnyPool!Rest(a, off, len) /\ c \in AnyPool!Rest(a, off, len)
      BY <2>2, <1>1, <1>4, RestApart
    <2>3. ASSUME NEW r \in AnyPool!Rest(a, off, len), NEW o \in pool \ {a}
          PROVE  AnyPool!Apart(r, o) /\ AnyPool!Apart(o, r)
      <3>1. AnyPool!Apart(a, o)
        BY <1>1 DEF AnyPool!NoOverlap
      <3>2. /\ a.off \in Int /\ a.len \in Int /\ r.off \in Int /\ r.len \in Int
            /\ o.off \in Int /\ o.len \in Int
        BY <1>1, <1>2, AreaTyped DEF AnyPool!NoOverlap
      <3> QED
        BY <1>2, <3>1, <3>2 DEF AnyPool!Apart
    <2> QED
      BY <1>1, <1>4, <2>1, <2>2, <2>3
  <1> QED
    BY <1>3, <1>4 DEF AnyPool!NoOverlap

(* After a load the areas are the maximal runs of owned units: an area     *)
(* that began inside, or beside, another would not be maximal.             *)
LEMMA LoadKeepsApart ==
    ASSUME Assignable \subseteq Nat, AnyPool!NoOverlap, AnyPool!Load
    PROVE  AnyPool!NoOverlap'
  <1> DEFINE Maximal(u, v) == /\ u <= v /\ \A w \in u..v : AnyPool!Owned(w)
                              /\ ~AnyPool!Owned(u - 1) /\ ~AnyPool!Owned(v + 1)
  <1>1. ASSUME NEW a \in pool'
        PROVE  \E u, v \in Assignable :
                 Maximal(u, v) /\ a = [off |-> u, len |-> v - u + 1]
    BY <1>1 DEF AnyPool!Load
  <1>2. ASSUME NEW w \in Int, AnyPool!Owned(w)
        PROVE  w \in Assignable
    <2>1. PICK b \in pool : AnyPool!Owns(b, w)
      BY <1>2 DEF AnyPool!Owned
    <2>2. b.off \in Int /\ b.len \in Int /\ AnyPool!Run(b.off, b.len) \subseteq Assignable
      BY AreaTyped DEF AnyPool!NoOverlap
    <2>3. w \in AnyPool!Run(b.off, b.len)
      BY <2>1, <2>2 DEF AnyPool!Owns, AnyPool!Run
    <2> QED
      BY <2>2, <2>3
  <1>3. pool' \subseteq AnyPool!Areas
    <2> SUFFICES ASSUME NEW a \in pool' PROVE a \in AnyPool!Areas
      OBVIOUS
    <2>1. PICK u \in Assignable, v \in Assignable :
            Maximal(u, v) /\ a = [off |-> u, len |-> v - u + 1]
      BY <1>1
    <2>2. u \in Nat /\ v \in Nat
      OBVIOUS
    <2>3. v - u + 1 \in Nat \ {0} /\ u + (v - u + 1) - 1 = v
      BY <2>1, <2>2
    <2>4. AnyPool!Run(a.off, a.len) \subseteq Assignable
      BY <1>2, <2>1, <2>2, <2>3 DEF AnyPool!Run
    <2> QED
      BY <2>1, <2>3, <2>4 DEF AnyPool!Areas
  <1>4. ASSUME NEW a \in pool', NEW b \in pool', a # b
        PROVE  AnyPool!Apart(a, b)
    <2>1. PICK u \in Assignable, v \in Assignable :
            Maximal(u, v) /\ a = [off |-> u, len |-> v - u + 1]
      BY <1>1
    <2>2. PICK x \in Assignable, y \in Assignable :
            Maximal(x, y) /\ b = [off |-> x, len |-> y - x + 1]
      BY <1>1
    <2>3. u \in Nat /\ v \in Nat /\ x \in Nat /\ y \in Nat
      OBVIOUS
    <2>4. ASSUME u <= y, x <= v PROVE FALSE
      <3>1. u = x
        <4>1. ~(u < x)
          <5>1. u < x => x - 1 \in u..v
            BY <2>3, <2>4
          <5> QED
            BY <5>1, <2>1, <2>2
        <4>2. ~(x < u)
          <5>1. x < u => u - 1 \in x..y
            BY <2>3, <2>4
          <5> QED
            BY <5>1, <2>1, <2>2
        <4> QED
          BY <4>1, <4>2, <2>3
      <3>2. v = y
        <4>1. ~(v < y)
          <5>1. v < y => v + 1 \in x..y
            BY <2>1, <2>3, <3>1
          <5> QED
            BY <5>1, <2>1, <2>2
        <4>2. ~(y < v)
          <5>1. y < v => y + 1 \in u..v
            BY <2>2, <2>3, <3>1
          <5> QED
            BY <5>1, <2>1, <2>2
        <4> QED
          BY <4>1, <4>2, <2>3
      <3> QED
        BY <3>1, <3>2, <2>1, <2>2, <1>4
    <2>5. v + 1 <= x \/ y + 1 <= u
      BY <2>3, <2>4
    <2>6. a.off + a.len = v + 1 /\ b.off + b.len = y + 1 /\ a.off = u /\ b.off = x
      BY <2>1, <2>2, <2>3
    <2> QED
      BY <2>5, <2>6 DEF AnyPool!Apart
  <1> QED
    BY <1>3, <1>4 DEF AnyPool!NoOverlap

(* GuestHeap assigns no storage twice and never its own header: what a     *)
(* client holds is its own, whatever is freed, saved or reset in between.  *)
THEOREM NoOverlapHolds ==
    ASSUME Assignable \subseteq Nat
    PROVE  AnyPool!Spec => []AnyPool!NoOverlap
  <1>1. AnyPool!Init => AnyPool!NoOverlap
    BY DEF AnyPool!Init, AnyPool!NoOverlap
  <1>2. AnyPool!NoOverlap /\ [AnyPool!Next]_pool => AnyPool!NoOverlap'
    <2> SUFFICES ASSUME AnyPool!NoOverlap, [AnyPool!Next]_pool PROVE AnyPool!NoOverlap'
      OBVIOUS
    <2>1. ASSUME NEW off \in Assignable, NEW last \in Assignable,
                 AnyPool!Assign(off, last - off + 1)
          PROVE  AnyPool!NoOverlap'
      BY <2>1, AssignKeepsApart
    <2>2. ASSUME NEW a \in pool, NEW off \in AnyPool!Run(a.off, a.len), NEW len \in 1..a.len,
                 AnyPool!Free(a, off, len)
          PROVE  AnyPool!NoOverlap'
      <3>1. a.off \in Int /\ a.len \in Int
        BY AreaTyped DEF AnyPool!NoOverlap
      <3>2. off \in Int /\ len \in Int
        BY <3>1 DEF AnyPool!Run
      <3> QED
        BY <2>2, <3>2, FreeKeepsApart
    <2>3. CASE AnyPool!Load
      BY <2>3, LoadKeepsApart
    <2>4. CASE AnyPool!Reset
      BY <2>4 DEF AnyPool!Reset, AnyPool!NoOverlap
    <2>5. CASE UNCHANGED pool
      BY <2>5 DEF AnyPool!NoOverlap
    <2> QED
      BY <2>1, <2>2, <2>3, <2>4, <2>5 DEF AnyPool!Next
  <1> QED
    BY <1>1, <1>2, PTL DEF AnyPool!Spec

(***************************************************************************)
(* Action control elements: what the host keeps of them.                   *)
(***************************************************************************)

(* What is left when the entry of an address goes.                         *)
LEMMA EntryGone ==
    ASSUME NEW f, NEW a
    PROVE  /\ DOMAIN Without(f, a) = DOMAIN f \ {a}
           /\ \A x \in DOMAIN f \ {a} : Without(f, a)[x] = f[x]
BY DEF Without

(* A step that places one element keeps masks and records in step with     *)
(* their elements, if it gives that one its mask and its record.           *)
LEMMA PlacingKeeps ==
    ASSUME HostStateIsOwn,
           NEW a, NEW place, NEW ecm,
           elements' = Place(a, place, ecm),
           (a \in ecms') = ecm,
           \A x : x # a => (x \in ecms' <=> x \in ecms),
           a \in ecms' => a \in DOMAIN allocated',
           place # "guest" => a \in DOMAIN allocated',
           DOMAIN allocated \subseteq DOMAIN allocated'
    PROVE  HostStateIsOwn'
<1>1. /\ DOMAIN elements' = Live \cup {a}
      /\ elements'[a].at = place
      /\ elements'[a].ecm = ecm
      /\ \A x \in Live \ {a} : elements'[x] = elements[x]
    BY DEF Place
<1>2. EcmIsOwn'
    <2> SUFFICES ASSUME NEW x \in DOMAIN elements' PROVE (x \in ecms') = elements'[x].ecm
        BY DEF EcmIsOwn, Live
    <2>1. CASE x = a
        BY <2>1, <1>1, Zenon
    <2>2. CASE x # a
        <3>1. x \in Live /\ elements'[x] = elements[x]
            BY <2>2, <1>1
        <3>2. (x \in ecms) = elements[x].ecm
            BY <3>1 DEF HostStateIsOwn, EcmIsOwn
        <3>3. (x \in ecms') = (x \in ecms)
            BY <2>2
        <3> QED BY <3>1, <3>2, <3>3, Zenon
    <2> QED BY <2>1, <2>2
<1>3. RecordsComplete'
    <2>1. ecms' \subseteq DOMAIN allocated'
        BY DEF HostStateIsOwn, RecordsComplete
    <2>2. ASSUME NEW x \in DOMAIN elements', elements'[x].at # "guest"
          PROVE  x \in DOMAIN allocated'
        BY <2>2, <1>1 DEF HostStateIsOwn, RecordsComplete
    <2> QED BY <2>1, <2>2 DEF RecordsComplete, Live
<1> QED BY <1>2, <1>3 DEF HostStateIsOwn

(* A step that takes one element away does so as well, if no mask outlives *)
(* its record and the other records stay.                                  *)
LEMMA RemovingKeeps ==
    ASSUME HostStateIsOwn,
           NEW a,
           elements' = Without(elements, a),
           \A x : x # a => (x \in ecms' <=> x \in ecms),
           a \in ecms' => a \in DOMAIN allocated',
           DOMAIN allocated \ {a} \subseteq DOMAIN allocated'
    PROVE  HostStateIsOwn'
<1>1. /\ DOMAIN elements' = Live \ {a}
      /\ \A x \in Live \ {a} : elements'[x] = elements[x]
    BY EntryGone DEF Live
<1>2. EcmIsOwn'
    <2> SUFFICES ASSUME NEW x \in DOMAIN elements' PROVE (x \in ecms') = elements'[x].ecm
        BY DEF EcmIsOwn, Live
    <2>1. x \in Live /\ x # a /\ elements'[x] = elements[x]
        BY <1>1
    <2>2. (x \in ecms) = elements[x].ecm
        BY <2>1 DEF HostStateIsOwn, EcmIsOwn
    <2>3. (x \in ecms') = (x \in ecms)
        BY <2>1
    <2> QED BY <2>1, <2>2, <2>3, Zenon
<1>3. RecordsComplete'
    <2>1. ecms' \subseteq DOMAIN allocated'
        BY DEF HostStateIsOwn, RecordsComplete
    <2>2. ASSUME NEW x \in DOMAIN elements', elements'[x].at # "guest"
          PROVE  x \in DOMAIN allocated'
        BY <2>2, <1>1 DEF HostStateIsOwn, RecordsComplete
    <2> QED BY <2>1, <2>2 DEF RecordsComplete, Live
<1> QED BY <1>2, <1>3 DEF HostStateIsOwn

(* Every step keeps masks and records in step with their elements.         *)
LEMMA HostStep == ASSUME HostStateIsOwn, [AceNext]_vars PROVE HostStateIsOwn'
<1>1. ASSUME NEW a, BuildInternal(a) PROVE HostStateIsOwn'
    <2>1. /\ elements' = Place(a, "complete", FALSE)
          /\ ecms' = ecms \ {a}
          /\ DOMAIN allocated' = DOMAIN allocated \cup {a}
        BY <1>1 DEF BuildInternal, AllocateAce
    <2>2. (a \in ecms') = FALSE
        BY <2>1
    <2> QED BY <2>1, <2>2, PlacingKeeps
<1>2. ASSUME NEW a, BuildRequest(a) PROVE HostStateIsOwn'
    <2>1. /\ elements' = Place(a, "device", TRUE)
          /\ ecms' = ecms \cup {a}
          /\ DOMAIN allocated' = DOMAIN allocated \cup {a}
        BY <1>2 DEF BuildRequest, AllocateAce
    <2>2. (a \in ecms') = TRUE
        BY <2>1
    <2> QED BY <2>1, <2>2, PlacingKeeps
<1>3. ASSUME NEW a, Complete(a) PROVE HostStateIsOwn'
    <2>1. /\ elements' = Place(a, "complete", elements[a].ecm)
          /\ ecms' = ecms /\ allocated' = allocated
          /\ a \in Live /\ elements[a].at = "device"
        BY <1>3 DEF Complete, At
    <2>2. (a \in ecms') = elements[a].ecm
        BY <2>1 DEF HostStateIsOwn, EcmIsOwn
    <2>3. a \in DOMAIN allocated
        BY <2>1 DEF HostStateIsOwn, RecordsComplete
    <2> QED BY <2>1, <2>2, <2>3, PlacingKeeps
<1>4. ASSUME NEW a, Consume(a) PROVE HostStateIsOwn'
    <2>1. elements' = Without(elements, a) /\ ecms' = ecms \ {a}
          /\ DOMAIN allocated' = DOMAIN allocated \ {a}
        BY <1>4, EntryGone DEF Consume, Release
    <2> QED BY <2>1, RemovingKeeps
<1>5. ASSUME NEW a, Cancel(a) PROVE HostStateIsOwn'
    <2>1. elements' = Without(elements, a) /\ ecms' = ecms \ {a}
          /\ DOMAIN allocated' = DOMAIN allocated \ {a}
        BY <1>5, EntryGone DEF Cancel, Release
    <2> QED BY <2>1, RemovingKeeps
<1>6. ASSUME NEW a, At(a, "complete"), elements' = Place(a, "guest", elements[a].ecm),
             UNCHANGED <<ecms, allocated>>
      PROVE  HostStateIsOwn'
    <2>1. /\ elements' = Place(a, "guest", elements[a].ecm)
          /\ ecms' = ecms /\ allocated' = allocated
          /\ a \in Live
        BY <1>6 DEF At
    <2>2. (a \in ecms') = elements[a].ecm
        BY <2>1 DEF HostStateIsOwn, EcmIsOwn
    <2>3. a \in ecms' => a \in DOMAIN allocated'
        BY <2>1 DEF HostStateIsOwn, RecordsComplete
    <2> QED BY <2>1, <2>2, <2>3, PlacingKeeps
<1>7. ASSUME NEW a, FreeElement(a) PROVE HostStateIsOwn'
    <2>1. elements' = Without(elements, a) /\ ecms' = ecms /\ allocated' = allocated
        BY <1>7 DEF FreeElement
    <2>2. a \in ecms' => a \in DOMAIN allocated'
        BY <2>1 DEF HostStateIsOwn, RecordsComplete
    <2> QED BY <2>1, <2>2, RemovingKeeps
<1>8. ASSUME UNCHANGED <<elements, ecms>>, DOMAIN allocated' = DOMAIN allocated
      PROVE  HostStateIsOwn'
    BY <1>8 DEF HostStateIsOwn, EcmIsOwn, RecordsComplete, Live
<1>9. ASSUME NEW n, AssignArea(n) PROVE HostStateIsOwn'
    BY <1>9, <1>8 DEF AssignArea
<1>10. ASSUME NEW area, FreeOwnArea(area) PROVE HostStateIsOwn'
    BY <1>10, <1>8 DEF FreeOwnArea
<1>11. ASSUME SaveAndLoadAces PROVE HostStateIsOwn'
    BY <1>11, <1>8 DEF SaveAndLoadAces
<1>12. ASSUME UNCHANGED vars PROVE HostStateIsOwn'
    BY <1>12, <1>8 DEF vars
<1>13. ASSUME NEW a, DequeueByGuest(a) PROVE HostStateIsOwn'
    BY <1>13, <1>6, <1>8 DEF DequeueByGuest
<1> QED
    BY <1>1, <1>2, <1>3, <1>4, <1>5, <1>7, <1>9, <1>10, <1>11, <1>12, <1>13 DEF AceNext

(* The mask retained for an address is that of the element that lives      *)
(* there now, and every mask and every element the host still holds has    *)
(* its record, through completions, cancellations, the guest's own frees   *)
(* and loads (ActionControlElementQueue.cpp).                              *)
THEOREM HostStateIsOwnHolds == AceSpec => []HostStateIsOwn
<1>1. AceInit => HostStateIsOwn
    BY DEF AceInit, HostStateIsOwn, EcmIsOwn, RecordsComplete, Live
<1>2. HostStateIsOwn /\ [AceNext]_vars => HostStateIsOwn'
    BY HostStep
<1> QED
    BY <1>1, <1>2, PTL DEF AceSpec

(***************************************************************************)
(* Runs that clients hold: parts of extents, none sharing a unit.          *)
(***************************************************************************)

(* Two runs, each a place and a length, lie apart.                         *)
Beside(p, q) == p[1] + p[2] <= q[1] \/ q[1] + q[2] <= p[1]

(* Each lies within one extent, and beside the others.                     *)
Held(P, J) ==
    /\ P \subseteq Nat \X (Nat \ {0})
    /\ \A p \in P : \E e \in J : PartOf(e, p[1], p[2])
    /\ \A p, q \in P : p # q => Beside(p, q)

(* A run that is held has numbers in it.                                   *)
LEMMA HeldIs ==
    ASSUME NEW P, NEW J, Held(P, J), NEW p \in P
    PROVE  p = <<p[1], p[2]>> /\ p[1] \in Nat /\ p[2] \in Nat /\ p[2] >= 1
BY DEF Held

(* What is assigned to one client was held by none.                        *)
LEMMA HeldGains ==
    ASSUME NEW P, NEW J, NEW K, Journal(J), Held(P, J), NEW off, NEW size,
           GainsAt(J, K, off, size), NEW n \in Nat, n >= 1, n <= size
    PROVE  /\ Held(P \cup {<<off, n>>}, K)
           /\ \A p \in P : p[1] # off
<1>1. PICK id \in Nat : K = J \cup {[off |-> off, len |-> size, id |-> id]}
    BY DEF GainsAt
<1>2. /\ off \in Nat /\ size \in Nat /\ size >= 1
      /\ \A e \in J : e.off + e.len <= off \/ off + size <= e.off
    BY DEF GainsAt
<1>3. ASSUME NEW p \in P
      PROVE  /\ p[1] + p[2] <= off \/ off + size <= p[1]
             /\ \E e \in K : PartOf(e, p[1], p[2])
             /\ p[1] \in Nat /\ p[2] \in Nat /\ p[2] >= 1
    <2>1. PICK e \in J : PartOf(e, p[1], p[2])
        BY DEF Held
    <2>2. e.off \in Nat /\ e.len \in Nat
        BY ExtentIs
    <2>3. e.off + e.len <= off \/ off + size <= e.off
        BY <1>2
    <2>4. p[1] \in Nat /\ p[2] \in Nat /\ p[2] >= 1
        BY HeldIs
    <2> QED BY <1>1, <1>2, <2>1, <2>2, <2>3, <2>4 DEF PartOf
<1>4. PICK q, e : q = <<off, n>> /\ e = [off |-> off, len |-> size, id |-> id]
    OBVIOUS
<1>5. q[1] = off /\ q[2] = n /\ e.off = off /\ e.len = size /\ e \in K
    BY <1>1, <1>4
<1>6. PartOf(e, q[1], q[2])
    BY <1>2, <1>5 DEF PartOf
<1>7. \A p \in P : Beside(p, q) /\ Beside(q, p)
    BY <1>2, <1>3, <1>5 DEF Beside
<1>8. \A p, r \in P : p # r => Beside(p, r)
    BY DEF Held
<1>9. q \in Nat \X (Nat \ {0}) /\ P \subseteq Nat \X (Nat \ {0})
    BY <1>2, <1>4 DEF Held
<1>10. Held(P \cup {q}, K)
    <2>1. \A p \in P \cup {q} : \E f \in K : PartOf(f, p[1], p[2])
        BY <1>3, <1>5, <1>6
    <2>2. \A p, r \in P \cup {q} : p # r => Beside(p, r)
        BY <1>7, <1>8
    <2>3. P \cup {q} \subseteq Nat \X (Nat \ {0})
        BY <1>9
    <2> QED BY <2>1, <2>2, <2>3 DEF Held
<1>11. \A p \in P : p[1] # off
    BY <1>2, <1>3
<1> QED BY <1>4, <1>10, <1>11

(* When a client frees what it holds, the others hold what they held.      *)
LEMMA HeldFrees ==
    ASSUME NEW P, NEW J, Journal(J), Held(P, J), NEW q \in P,
           NEW e \in J, PartOf(e, q[1], q[2]),
           NEW K, K = (J \ {e}) \cup Remains(e, q[1], q[2])
    PROVE  Held(P \ {q}, K)
<1>1. PICK off, len : off = q[1] /\ len = q[2]
    OBVIOUS
<1>2. PartOf(e, off, len) /\ K = (J \ {e}) \cup Remains(e, off, len)
    BY <1>1
<1>3. /\ e.off \in Nat /\ e.len \in Nat /\ off \in Nat /\ len \in Nat /\ len >= 1
      /\ e.off <= off /\ off + len <= e.off + e.len
    BY <1>2, ExtentIs DEF PartOf
<1>4. ASSUME NEW p \in P \ {q}
      PROVE  \E f \in K : PartOf(f, p[1], p[2])
    <2>1. PICK f \in J : PartOf(f, p[1], p[2])
        BY DEF Held
    <2>2. CASE f # e
        BY <1>2, <2>1, <2>2
    <2>3. CASE f = e
        <3>1. PICK x, y : x = p[1] /\ y = p[2]
            OBVIOUS
        <3>2. x \in Nat /\ y \in Nat /\ y >= 1 /\ e.off <= x /\ x + y <= e.off + e.len
            BY <2>1, <2>3, <3>1 DEF PartOf
        <3>3. x + y <= off \/ off + len <= x
            BY <1>1, <3>1 DEF Held, Beside
        <3>4. PICK a, b : /\ a = [off |-> e.off, len |-> off - e.off, id |-> e.id]
                          /\ b = [off |-> off + len, len |-> e.off + e.len - (off + len), id |-> e.id]
            OBVIOUS
        <3>5. Remains(e, off, len) = {r \in {a, b} : r.len > 0}
            BY <1>2, <3>4, RemainsAre
        <3>6. CASE x + y <= off
            <4>1. a.off = e.off /\ a.len = off - e.off /\ a.len > 0
                BY <1>3, <3>2, <3>4, <3>6
            <4>2. PartOf(a, x, y)
                BY <1>3, <3>2, <3>6, <4>1 DEF PartOf
            <4> QED BY <1>2, <3>1, <3>5, <4>1, <4>2
        <3>7. CASE off + len <= x
            <4>1. b.off = off + len /\ b.len = e.off + e.len - (off + len) /\ b.len > 0
                BY <1>3, <3>2, <3>4, <3>7
            <4>2. PartOf(b, x, y)
                BY <1>3, <3>2, <3>7, <4>1 DEF PartOf
            <4> QED BY <1>2, <3>1, <3>5, <4>1, <4>2
        <3> QED BY <3>3, <3>6, <3>7
    <2> QED BY <2>2, <2>3
<1> QED BY <1>4 DEF Held

(* After a load, what a client holds lies in one extent again: its units   *)
(* are assigned, so they are in one run of those that are.                 *)
LEMMA HeldLoads ==
    ASSUME NEW P, NEW J, Journal(J), Held(P, J),
           NEW s \in Nat, Covered(J) \subseteq 0..(s - 1),
           NEW K, RunsOf(K, Covered(J), s)
    PROVE  Held(P, K)
<1>1. PICK V : V = Covered(J)
    OBVIOUS
<1>2. V \subseteq 0..(s - 1) /\ RunsOf(K, V, s)
    BY <1>1
<1>3. ASSUME NEW p \in P PROVE \E f \in K : PartOf(f, p[1], p[2])
    <2>1. PICK x, y : x = p[1] /\ y = p[2]
        OBVIOUS
    <2>2. PICK e \in J : PartOf(e, x, y)
        BY <2>1 DEF Held
    <2>3. x \in Nat /\ y \in Nat /\ y >= 1
        BY <2>2 DEF PartOf
    <2>4. \A w \in Nat : x <= w /\ w < x + y => w \in V
        <3>1. e.off \in Nat /\ e.len \in Nat
            BY ExtentIs
        <3>2. \A w \in Nat : x <= w /\ w < x + y => e.off <= w /\ w < e.off + e.len
            BY <2>2, <2>3, <3>1 DEF PartOf
        <3> QED BY <1>1, <3>2, CoveredIs
    <2>5. PICK u \in Starts(V) : u <= x /\ \A w \in u..x : w \in V
        <3>1. x \in V
            BY <2>3, <2>4
        <3> QED BY <1>2, <3>1, StartIs
    <2>6. u \in V /\ u \in Nat
        BY <1>2, <2>5 DEF Starts
    <2>7. PICK v : v = Last(V, s, u)
        OBVIOUS
    <2>8. v \in V /\ u <= v /\ v + 1 \notin V
        BY <1>2, <2>6, <2>7, LastIs
    <2>9. v \in Nat
        BY <1>2, <2>8
    <2>10. x + y <= v + 1
        <3>1. v + 1 \in Nat /\ u <= v + 1
            BY <2>6, <2>8, <2>9
        <3>2. ~(v + 1 <= x)
            BY <2>3, <2>5, <2>6, <2>8, <3>1
        <3>3. ~(x <= v + 1 /\ v + 1 < x + y)
            BY <2>4, <2>8, <3>1
        <3> QED BY <2>3, <3>1, <3>2, <3>3
    <2>11. PICK I : K = {[off |-> z, len |-> Last(V, s, z) - z + 1, id |-> I[z]] : z \in Starts(V)}
        BY <1>2 DEF RunsOf
    <2>12. PICK f : f = [off |-> u, len |-> v - u + 1, id |-> I[u]]
        OBVIOUS
    <2>13. f \in K
        BY <2>5, <2>7, <2>11, <2>12
    <2>14. PartOf(f, x, y)
        BY <2>3, <2>5, <2>6, <2>9, <2>10, <2>12 DEF PartOf
    <2> QED BY <2>1, <2>13, <2>14
<1> QED BY <1>3 DEF Held

(***************************************************************************)
(* Action control elements: their storage.                                 *)
(***************************************************************************)

(* The elements, wherever they are, and the guest's own areas.             *)
Holdings == {<<a, Units>> : a \in Live} \cup areas

(* Each lies in storage that is assigned, and shares none of it.           *)
ElementsInv ==
    /\ HeapInv(heap)
    /\ Held(Holdings, heap.journal)
    /\ \A a \in Live : <<a, Units>> \notin areas
    /\ IsFiniteSet(Live) /\ IsFiniteSet(areas)

(* Nobody's extent has that id and the unit u in it.                       *)
Unheld(J, id, u) == \A e \in J : e.id = id => ~(e.off <= u /\ u < e.off + e.len)

(* Ids are given in order; and no extent has the id that the record of an  *)
(* element has which the guest freed while it was queued.                  *)
StaleInv ==
    /\ \A e \in heap.journal : e.id <= heap.ids
    /\ \A a \in DOMAIN allocated : allocated[a] \in Nat /\ allocated[a] <= heap.ids
    /\ dangling \cap Live = {} /\ dangling \subseteq Nat
    /\ \A a \in dangling \cap DOMAIN allocated :
         allocated[a] # 0 /\ Unheld(heap.journal, allocated[a], a)

(* An element has the length of a size class, and is assigned no more.     *)
LEMMA UnitsAre == Units \in Nat /\ Units >= 1 /\ RoundedSize(Units) = Units
<1>1. PICK k \in 0..(Classes - 1) : Units = Power[k]
    BY ElementAssumption
<1>2. Classes \in Nat /\ RoundTo \in Nat /\ RoundTo >= 1
    BY Geometry
<1>3. k \in 0..Classes
    BY <1>2
<1>4. Units \in Nat /\ Units >= 1
    BY <1>1, <1>3, Powers
<1>5. ClassIndex(Units) = k
    BY <1>1, <1>3, ClassOfPower
<1>6. RoundedSize(Units) = LET c == Power[k]
                           IN  IF c >= Units + RoundTo
                               THEN RoundTo * ((Units + RoundTo - 1) \div RoundTo) ELSE c
    BY <1>5, Zenon DEF RoundedSize
<1>7. ~(Units >= Units + RoundTo)
    BY <1>2, <1>4
<1> QED BY <1>1, <1>4, <1>6, <1>7

(* What an element that is placed, or goes, does to the holdings.          *)
LEMMA PlaceIs ==
    ASSUME NEW a, NEW place, NEW ecm, elements' = Place(a, place, ecm)
    PROVE  /\ Live' = Live \cup {a}
           /\ elements'[a].at = place
           /\ \A b \in Live \ {a} : elements'[b] = elements[b]
BY DEF Place, Live

(* And one that goes.                                                      *)
LEMMA WithoutIs ==
    ASSUME NEW a, elements' = Without(elements, a)
    PROVE  /\ Live' = Live \ {a}
           /\ \A b \in Live \ {a} : elements'[b] = elements[b]
BY EntryGone DEF Live

(* A new element.                                                          *)
LEMMA NewElement ==
    ASSUME ElementsInv, NEW a, AllocateAce(a), Live' = Live \cup {a}, areas' = areas
    PROVE  /\ ElementsInv'
           /\ Holdings' = Holdings \cup {<<a, Units>>}
           /\ \A p \in Holdings : p[1] # a
           /\ GainsAt(heap.journal, heap'.journal, a, Units)
<1>1. Units \in Nat /\ Units >= 1 /\ RoundedSize(Units) = Units
    BY UnitsAre
<1>2. Allocate(heap, Units).heap = heap' /\ Allocate(heap, Units).at = a /\ a # 0
    BY DEF AllocateAce
<1>3. HeapInv(heap') /\ GainsAt(heap.journal, heap'.journal, a, Units)
    BY <1>1, <1>2, AllocateIs DEF ElementsInv
<1>4. Journal(heap.journal) /\ Held(Holdings, heap.journal)
    BY DEF ElementsInv, HeapInv
<1>5. Held(Holdings \cup {<<a, Units>>}, heap'.journal) /\ \A p \in Holdings : p[1] # a
    <2>1. PICK P, J, K : P = Holdings /\ J = heap.journal /\ K = heap'.journal
        OBVIOUS
    <2>2. Units <= Units
        BY <1>1
    <2>3. Held(P \cup {<<a, Units>>}, K) /\ \A p \in P : p[1] # a
        BY <1>1, <1>3, <1>4, <2>1, <2>2, HeldGains
    <2> QED BY <2>1, <2>3
<1>6. Holdings' = Holdings \cup {<<a, Units>>}
    BY DEF Holdings
<1>7. \A b \in Live' : <<b, Units>> \notin areas'
    <2>1. <<a, Units>> \notin Holdings
        BY <1>5
    <2> QED BY <2>1 DEF Holdings, ElementsInv
<1>8. IsFiniteSet(Live') /\ IsFiniteSet(areas')
    BY FS_AddElement DEF ElementsInv
<1> QED BY <1>3, <1>5, <1>6, <1>7, <1>8 DEF ElementsInv

(* A new area of the guest.                                                *)
LEMMA NewArea ==
    ASSUME ElementsInv, NEW n \in Sizes, AssignArea(n)
    PROVE  /\ ElementsInv'
           /\ \E off, size : /\ GainsAt(heap.journal, heap'.journal, off, size)
                             /\ Holdings' = Holdings \cup {<<off, size>>}
                             /\ \A p \in Holdings : p[1] # off
<1>1. n \in Nat /\ n >= 1
    BY SizesAssumption
<1>2. PICK off, size : off = Allocate(heap, n).at /\ size = RoundedSize(n)
    OBVIOUS
<1>3. /\ Allocate(heap, n).heap = heap' /\ off # 0
      /\ areas' = areas \cup {<<off, size>>} /\ elements' = elements
    BY <1>2 DEF AssignArea
<1>4. HeapInv(heap') /\ GainsAt(heap.journal, heap'.journal, off, size)
    BY <1>1, <1>2, <1>3, AllocateIs DEF ElementsInv
<1>5. size \in Nat /\ size >= 1 /\ size <= size
    BY <1>4 DEF GainsAt
<1>6. Journal(heap.journal) /\ Held(Holdings, heap.journal)
    BY DEF ElementsInv, HeapInv
<1>7. Held(Holdings \cup {<<off, size>>}, heap'.journal) /\ \A p \in Holdings : p[1] # off
    BY <1>4, <1>5, <1>6, HeldGains
<1>8. Holdings' = Holdings \cup {<<off, size>>} /\ Live' = Live
    BY <1>3 DEF Holdings, Live
<1>9. \A b \in Live' : <<b, Units>> \notin areas'
    <2>1. <<off, size>> \notin Holdings
        BY <1>7
    <2>2. \A b \in Live : <<b, Units>> \in Holdings /\ <<b, Units>> \notin areas
        BY DEF Holdings, ElementsInv
    <2> QED BY <1>3, <1>8, <2>1, <2>2
<1>10. IsFiniteSet(Live') /\ IsFiniteSet(areas')
    BY <1>3, <1>8, FS_AddElement DEF ElementsInv
<1>11. ElementsInv'
    BY <1>4, <1>7, <1>8, <1>9, <1>10 DEF ElementsInv
<1> QED BY <1>4, <1>7, <1>8, <1>11

(* Something that is held goes: its run is freed, or stays assigned.       *)
Drops(q) ==
    /\ q \in Holdings /\ Holdings' = Holdings \ {q}
    /\ Live' \subseteq Live /\ areas' \subseteq areas
    /\ heap' = Free(heap, q[1], q[2]) \/ heap' = heap

(* The others keep what they hold, and only an extent around it is cut.    *)
LEMMA DropKeeps ==
    ASSUME ElementsInv, NEW q, Drops(q)
    PROVE  /\ ElementsInv'
           /\ heap' = heap
              \/ \E e \in heap.journal :
                   /\ PartOf(e, q[1], q[2])
                   /\ heap'.journal = (heap.journal \ {e}) \cup Remains(e, q[1], q[2])
<1>1. /\ q \in Holdings /\ Holdings' = Holdings \ {q}
      /\ HeapInv(heap) /\ Held(Holdings, heap.journal) /\ Journal(heap.journal)
    BY DEF Drops, ElementsInv, HeapInv
<1>2. /\ \A a \in Live' : <<a, Units>> \notin areas'
      /\ IsFiniteSet(Live') /\ IsFiniteSet(areas')
    BY FS_Subset DEF Drops, ElementsInv
<1>3. CASE heap' = heap
    <2>1. Held(Holdings \ {q}, heap.journal)
        BY <1>1 DEF Held
    <2> QED BY <1>1, <1>2, <1>3, <2>1 DEF ElementsInv
<1>4. CASE heap' = Free(heap, q[1], q[2])
    <2>1. PICK off, len : off = q[1] /\ len = q[2]
        OBVIOUS
    <2>2. PICK e \in heap.journal : PartOf(e, off, len)
        BY <1>1, <2>1 DEF Held
    <2>3. HeapInv(heap') /\ heap'.journal = (heap.journal \ {e}) \cup Remains(e, off, len)
        BY <1>1, <1>4, <2>1, <2>2, FreeIs
    <2>4. Held(Holdings', heap'.journal)
        BY <1>1, <2>1, <2>2, <2>3, HeldFrees
    <2>5. ElementsInv'
        BY <1>2, <2>3, <2>4 DEF ElementsInv
    <2> QED BY <2>1, <2>2, <2>3, <2>5
<1> QED BY <1>3, <1>4 DEF Drops

(* An element that goes.                                                   *)
LEMMA ElementDrops ==
    ASSUME ElementsInv, NEW a \in Live, elements' = Without(elements, a), areas' = areas,
           heap' = Free(heap, a, Units) \/ heap' = heap
    PROVE  Drops(<<a, Units>>)
<1>1. PICK q : q = <<a, Units>>
    OBVIOUS
<1>2. q[1] = a /\ q[2] = Units
    BY <1>1
<1>3. Live' = Live \ {a}
    BY WithoutIs
<1>4. q \in Holdings /\ q \notin areas
    BY <1>1 DEF Holdings, ElementsInv
<1>5. \A b \in Live : <<b, Units>> = q <=> b = a
    BY <1>1
<1>6. Holdings' = {<<b, Units>> : b \in Live \ {a}} \cup areas
    BY <1>3 DEF Holdings
<1>7. Holdings' = Holdings \ {q}
    BY <1>4, <1>5, <1>6 DEF Holdings
<1>8. Drops(q)
    BY <1>2, <1>3, <1>4, <1>7 DEF Drops
<1> QED BY <1>1, <1>8

(* An area of the guest that goes.                                         *)
LEMMA AreaDrops ==
    ASSUME ElementsInv, NEW area \in areas, FreeOwnArea(area)
    PROVE  Drops(area)
<1>1. /\ heap' = Free(heap, area[1], area[2])
      /\ areas' = areas \ {area} /\ elements' = elements
    BY DEF FreeOwnArea, FreeArea
<1>2. area \in Holdings /\ Live' = Live
    BY <1>1 DEF Holdings, Live
<1>3. \A b \in Live : <<b, Units>> # area
    BY DEF ElementsInv
<1>4. Holdings' = Holdings \ {area}
    BY <1>1, <1>2, <1>3 DEF Holdings
<1> QED BY <1>1, <1>2, <1>4 DEF Drops

(* A load.                                                                 *)
LEMMA LoadHolds ==
    ASSUME ElementsInv, heap' = RestoreCheckpoint(heap), Live' = Live, areas' = areas
    PROVE  ElementsInv'
<1>1. Restored(heap, heap')
    BY RestoreIs DEF ElementsInv
<1>2. /\ HeapInv(heap') /\ heap.span \in Nat
      /\ Covered(heap.journal) \subseteq 0..(heap.span - 1)
      /\ RunsOf(heap'.journal, Covered(heap.journal), heap.span)
    BY <1>1 DEF Restored
<1>3. Holdings' = Holdings
    BY DEF Holdings
<1>4. Held(Holdings, heap'.journal)
    BY <1>2, HeldLoads DEF ElementsInv, HeapInv
<1> QED BY <1>2, <1>3, <1>4 DEF ElementsInv

(* From one journal to the next: an extent with an id that had been issued *)
(* before lies in one that had it then.                                    *)
Continues(J, m, K, n) ==
    /\ m <= n
    /\ \A f \in K : /\ f.id <= n
                    /\ f.id <= m => \E e \in J : /\ e.id = f.id /\ e.off <= f.off
                                                 /\ f.off + f.len <= e.off + e.len

(* Where an extent is issued.                                              *)
LEMMA IssuedContinues ==
    ASSUME NEW h, Journal(h.journal), h.ids \in Nat, \A e \in h.journal : e.id <= h.ids,
           NEW r, NEW off, NEW size, Issued(h, r, off, size)
    PROVE  Continues(h.journal, h.ids, r.journal, r.ids)
<1>1. PICK J, m, x : J = h.journal /\ m = h.ids /\ x = [off |-> off, len |-> size, id |-> m + 1]
    OBVIOUS
<1>2. r.ids = m + 1 /\ r.journal = J \cup {x} /\ m \in Nat
    BY <1>1, ElementAssumption DEF Issued, Id
<1>3. x.id = m + 1
    BY <1>1
<1>4. ASSUME NEW f \in J PROVE f.id <= m /\ f.id \in Nat /\ f.off \in Nat /\ f.len \in Nat
    BY <1>1, ExtentIs
<1>5. \A f \in J : f.id <= m + 1
    BY <1>2, <1>4
<1>6. \A f \in J : \E e \in J : e.id = f.id /\ e.off <= f.off /\ f.off + f.len <= e.off + e.len
    BY <1>4
<1>7. Continues(J, m, J \cup {x}, m + 1)
    BY <1>2, <1>3, <1>5, <1>6 DEF Continues
<1> QED BY <1>1, <1>2, <1>7

(* And where one is cut: nobody has what was freed.                        *)
LEMMA FreedContinues ==
    ASSUME NEW J, Journal(J), NEW m \in Nat, \A e \in J : e.id <= m,
           NEW x \in J, NEW off, NEW len, PartOf(x, off, len),
           NEW K, K = (J \ {x}) \cup Remains(x, off, len)
    PROVE  /\ Continues(J, m, K, m)
           /\ \A f \in K : ~(f.off <= off /\ off < f.off + f.len)
<1>1. /\ x.off \in Nat /\ x.len \in Nat /\ x.id \in Nat /\ off \in Nat /\ len \in Nat /\ len >= 1
      /\ x.off <= off /\ off + len <= x.off + x.len
    BY ExtentIs DEF PartOf
<1>2. PICK a, b : /\ a = [off |-> x.off, len |-> off - x.off, id |-> x.id]
                  /\ b = [off |-> off + len, len |-> x.off + x.len - (off + len), id |-> x.id]
    OBVIOUS
<1>3. Remains(x, off, len) = {r \in {a, b} : r.len > 0}
    BY <1>2, RemainsAre
<1>4. ASSUME NEW f \in J
      PROVE  /\ f.id \in Nat /\ f.id <= m /\ f.off \in Nat /\ f.len \in Nat
             /\ \E e \in J : e.id = f.id /\ e.off <= f.off /\ f.off + f.len <= e.off + e.len
    BY ExtentIs
<1>5. ASSUME NEW f \in J, f # x PROVE ~(f.off <= off /\ off < f.off + f.len)
    <2>1. f.off + f.len <= x.off \/ x.off + x.len <= f.off
        BY <1>5 DEF Journal
    <2> QED BY <1>1, <1>4, <2>1
<1>6. /\ a.off = x.off /\ a.len = off - x.off /\ a.id = x.id
      /\ b.off = off + len /\ b.len = x.off + x.len - (off + len) /\ b.id = x.id
    BY <1>2
<1>7. ASSUME NEW f \in {a, b}, f.len > 0
      PROVE  /\ f.id = x.id /\ x.off <= f.off /\ f.off + f.len <= x.off + x.len
             /\ ~(f.off <= off /\ off < f.off + f.len)
    BY <1>1, <1>6, <1>7
<1>8. \A f \in K : (f \in J /\ f # x) \/ (f \in {a, b} /\ f.len > 0)
    BY <1>3
<1>9. \A f \in K : ~(f.off <= off /\ off < f.off + f.len)
    BY <1>5, <1>7, <1>8
<1>10. ASSUME NEW f \in K
       PROVE  /\ f.id <= m
              /\ \E e \in J : e.id = f.id /\ e.off <= f.off /\ f.off + f.len <= e.off + e.len
    <2>1. CASE f \in J
        BY <1>4, <2>1
    <2>2. CASE f \in {a, b} /\ f.len > 0
        <3>1. f.id = x.id /\ x.off <= f.off /\ f.off + f.len <= x.off + x.len
            BY <1>7, <2>2
        <3>2. x.id <= m
            OBVIOUS
        <3> QED BY <3>1, <3>2
    <2> QED BY <1>8, <2>1, <2>2
<1>11. m <= m
    OBVIOUS
<1>12. Continues(J, m, K, m)
    BY <1>10, <1>11 DEF Continues
<1> QED BY <1>9, <1>12

(* Or nothing happens.                                                     *)
LEMMA SameContinues ==
    ASSUME NEW J, Journal(J), NEW m \in Nat, \A e \in J : e.id <= m
    PROVE  Continues(J, m, J, m)
<1>1. \A f \in J : f.off \in Nat /\ f.len \in Nat /\ f.id \in Nat
    BY ExtentIs
<1>2. \A f \in J : \E e \in J : e.id = f.id /\ e.off <= f.off /\ f.off + f.len <= e.off + e.len
    BY <1>1
<1> QED BY <1>2 DEF Continues

(* What nobody has under an id that has been issued, nobody has later.     *)
LEMMA UnheldStays ==
    ASSUME NEW J, NEW K, NEW m \in Nat, NEW n, Continues(J, m, K, n), Journal(J), Journal(K),
           NEW id \in Nat, id <= m, NEW u \in Nat, Unheld(J, id, u)
    PROVE  Unheld(K, id, u)
<1> SUFFICES ASSUME NEW f \in K, f.id = id, f.off <= u, u < f.off + f.len PROVE FALSE
    BY DEF Unheld
<1>1. f.off \in Nat /\ f.len \in Nat
    BY ExtentIs
<1>2. PICK e \in J : e.id = id /\ e.off <= f.off /\ f.off + f.len <= e.off + e.len
    BY DEF Continues
<1>3. e.off \in Nat /\ e.len \in Nat
    BY ExtentIs
<1>4. e.off <= u /\ u < e.off + e.len
    BY <1>1, <1>2, <1>3
<1> QED BY <1>2, <1>4 DEF Unheld

(* The id that a lookup gives has been issued.                             *)
LEMMA LiveIdIs ==
    ASSUME NEW h, Journal(h.journal), h.ids \in Nat, \A e \in h.journal : e.id <= h.ids, NEW a
    PROVE  LET id == LiveAllocationAt(h, a, Units)
           IN  /\ id \in Nat /\ id <= h.ids
               /\ id # 0 => \E e \in h.journal : e.id = id /\ e.off = a /\ e.len = Units
<1>1. PICK S : S = {e \in h.journal : e.off = a /\ e.len = Units}
    OBVIOUS
<1>2. CASE S = {}
    <2>1. LiveAllocationAt(h, a, Units) = 0
        BY <1>1, <1>2 DEF LiveAllocationAt
    <2> QED BY <2>1
<1>3. CASE S # {}
    <2>1. PICK e : e = CHOOSE x \in S : TRUE
        OBVIOUS
    <2>2. e \in h.journal /\ e.off = a /\ e.len = Units
        BY <1>1, <1>3, <2>1
    <2>3. LiveAllocationAt(h, a, Units) = e.id
        BY <1>1, <1>3, <2>1 DEF LiveAllocationAt
    <2>4. e.id \in Nat /\ e.id <= h.ids
        BY <2>2, ExtentIs
    <2> QED BY <2>2, <2>3, <2>4
<1> QED BY <1>2, <1>3

(* When the host comes to an element that was freed while it was queued,   *)
(* it finds that its record is stale.                                      *)
LEMMA StaleIsDropped ==
    ASSUME HeapInv(heap), StaleInv, NEW a \in dangling, Release(a), elements' = Without(elements, a)
    PROVE  heap' = heap /\ Live' = Live
<1>1. PICK id : id = LiveAllocationAt(heap, a, Units)
    OBVIOUS
<1>2. id # allocated[a]
    <2> SUFFICES ASSUME id = allocated[a] PROVE FALSE
        OBVIOUS
    <2>1. a \in DOMAIN allocated
        BY DEF Release
    <2>2. id # 0 /\ Unheld(heap.journal, id, a) /\ a \in Nat
        BY <2>1 DEF StaleInv
    <2>3. PICK e \in heap.journal : e.id = id /\ e.off = a /\ e.len = Units
        BY <1>1, <2>2, LiveIdIs DEF HeapInv, StaleInv
    <2>4. a <= a /\ a < a + Units
        BY <2>2, UnitsAre
    <2> QED BY <2>2, <2>3, <2>4 DEF Unheld
<1>3. heap' = heap
    BY <1>1, <1>2 DEF Release
<1>4. a \notin Live
    BY DEF StaleInv
<1>5. Live' = Live
    BY <1>4, WithoutIs
<1> QED BY <1>3, <1>5

(* A step after which no record and no stale element is new, but for those *)
(* it accounts for.                                                        *)
LEMMA StaleKept ==
    ASSUME HeapInv(heap), HeapInv(heap'), StaleInv,
           Continues(heap.journal, heap.ids, heap'.journal, heap'.ids),
           \A b \in DOMAIN allocated' : \/ b \in DOMAIN allocated /\ allocated'[b] = allocated[b]
                                       \/ allocated'[b] = LiveAllocationAt(heap', b, Units),
           dangling' \cap Live' = {}, dangling' \subseteq Nat,
           \A b \in dangling' \cap DOMAIN allocated' :
               /\ b \in DOMAIN allocated /\ allocated'[b] = allocated[b]
               /\ b \in dangling \/ (allocated[b] # 0 /\ Unheld(heap'.journal, allocated[b], b))
    PROVE  StaleInv'
<1>1. /\ Journal(heap.journal) /\ Journal(heap'.journal) /\ heap.ids \in Nat /\ heap'.ids \in Nat
      /\ heap.ids <= heap'.ids
    BY DEF HeapInv, Continues
<1>2. \A e \in heap'.journal : e.id <= heap'.ids
    BY DEF Continues
<1>3. ASSUME NEW b \in DOMAIN allocated'
      PROVE  allocated'[b] \in Nat /\ allocated'[b] <= heap'.ids
    <2>1. CASE b \in DOMAIN allocated /\ allocated'[b] = allocated[b]
        <3>1. allocated[b] \in Nat /\ allocated[b] <= heap.ids
            BY <2>1 DEF StaleInv
        <3> QED BY <1>1, <2>1, <3>1
    <2>2. CASE allocated'[b] = LiveAllocationAt(heap', b, Units)
        BY <1>1, <1>2, <2>2, LiveIdIs
    <2> QED BY <2>1, <2>2
<1>4. ASSUME NEW b \in dangling' \cap DOMAIN allocated'
      PROVE  allocated'[b] # 0 /\ Unheld(heap'.journal, allocated'[b], b)
    <2>1. b \in DOMAIN allocated /\ allocated'[b] = allocated[b]
        OBVIOUS
    <2>2. CASE b \in dangling
        <3>1. PICK id : id = allocated[b]
            OBVIOUS
        <3>2. /\ id \in Nat /\ id <= heap.ids /\ id # 0 /\ Unheld(heap.journal, id, b) /\ b \in Nat
            BY <2>1, <2>2, <3>1 DEF StaleInv
        <3>3. Unheld(heap'.journal, id, b)
            BY <1>1, <3>2, UnheldStays
        <3> QED BY <2>1, <3>1, <3>2, <3>3
    <2>3. CASE b \notin dangling
        BY <2>1, <2>3
    <2> QED BY <2>2, <2>3
<1> QED BY <1>2, <1>3, <1>4 DEF StaleInv

(* Every step keeps what is held apart, and assigned.                      *)
LEMMA ElementsStep == ASSUME ElementsInv, StaleInv, [AceNext]_vars PROVE ElementsInv'
<1>1. ASSUME NEW a, BuildInternal(a) \/ BuildRequest(a) PROVE ElementsInv'
    <2>1. AllocateAce(a) /\ Live' = Live \cup {a} /\ areas' = areas
        BY <1>1, PlaceIs DEF BuildInternal, BuildRequest
    <2> QED BY <2>1, NewElement
<1>2. ASSUME UNCHANGED <<heap, areas>>, Live' = Live PROVE ElementsInv'
    BY <1>2 DEF ElementsInv, Holdings
<1>3. ASSUME NEW a, Complete(a) \/ DequeueByGuest(a) PROVE ElementsInv'
    <2>1. UNCHANGED <<heap, areas>>
        BY <1>3 DEF Complete, DequeueByGuest
    <2>2. Live' = Live
        BY <1>3, PlaceIs DEF Complete, DequeueByGuest, At, Live
    <2> QED BY <1>2, <2>1, <2>2
<1>4. ASSUME NEW a \in Live, Consume(a) \/ Cancel(a) \/ FreeElement(a) PROVE ElementsInv'
    <2>1. /\ elements' = Without(elements, a) /\ areas' = areas
          /\ heap' = Free(heap, a, Units) \/ heap' = heap
        BY <1>4 DEF Consume, Cancel, FreeElement, Release
    <2>2. Drops(<<a, Units>>)
        BY <2>1, ElementDrops
    <2> QED BY <2>2, DropKeeps
<1>5. ASSUME NEW n \in Sizes, AssignArea(n) PROVE ElementsInv'
    BY <1>5, NewArea
<1>6. ASSUME NEW area \in areas, FreeOwnArea(area) PROVE ElementsInv'
    BY <1>6, AreaDrops, DropKeeps
<1>7. ASSUME SaveAndLoadAces PROVE ElementsInv'
    <2>1. heap' = RestoreCheckpoint(heap) /\ Live' = Live /\ areas' = areas
        BY <1>7 DEF SaveAndLoadAces, SaveAndLoad, Live
    <2> QED BY <2>1, LoadHolds
<1>8. ASSUME UNCHANGED vars PROVE ElementsInv'
    BY <1>2, <1>8 DEF vars, Live
<1>9. ASSUME NEW a \in dangling, Consume(a) PROVE ElementsInv'
    <2>1. heap' = heap /\ areas' = areas /\ Live' = Live
        BY <1>9, StaleIsDropped DEF Consume, ElementsInv
    <2> QED BY <1>2, <2>1
<1> QED
    BY <1>1, <1>3, <1>4, <1>5, <1>6, <1>7, <1>8, <1>9 DEF AceNext

(* What frees a run that is held: ids stay, and nobody has its start.      *)
LEMMA DropContinues ==
    ASSUME ElementsInv, StaleInv, NEW q, Drops(q)
    PROVE  /\ Continues(heap.journal, heap.ids, heap'.journal, heap'.ids)
           /\ heap' = Free(heap, q[1], q[2]) =>
                \A f \in heap'.journal : ~(f.off <= q[1] /\ q[1] < f.off + f.len)
<1>1. /\ HeapInv(heap) /\ Held(Holdings, heap.journal) /\ Journal(heap.journal) /\ q \in Holdings
      /\ heap.ids \in Nat /\ \A e \in heap.journal : e.id <= heap.ids
    BY DEF Drops, ElementsInv, HeapInv, StaleInv
<1>2. CASE heap' = Free(heap, q[1], q[2])
    <2>1. PICK off, len : off = q[1] /\ len = q[2]
        OBVIOUS
    <2>2. PICK e \in heap.journal : PartOf(e, off, len)
        BY <1>1, <2>1 DEF Held
    <2>3. /\ heap'.journal = (heap.journal \ {e}) \cup Remains(e, off, len)
          /\ heap'.ids = heap.ids
        BY <1>1, <1>2, <2>1, <2>2, FreeIs
    <2>4. /\ Continues(heap.journal, heap.ids, heap'.journal, heap.ids)
          /\ \A f \in heap'.journal : ~(f.off <= off /\ off < f.off + f.len)
        BY <1>1, <2>2, <2>3, FreedContinues
    <2> QED BY <2>1, <2>3, <2>4
<1>3. CASE heap' = heap /\ heap' # Free(heap, q[1], q[2])
    BY <1>1, <1>3, SameContinues
<1> QED BY <1>2, <1>3 DEF Drops

(* Every step keeps the records of stale elements stale.                   *)
LEMMA StaleStep == ASSUME ElementsInv, StaleInv, [AceNext]_vars PROVE StaleInv'
<1>1. HeapInv(heap) /\ HeapInv(heap')
    BY ElementsStep DEF ElementsInv
<1>2. /\ Journal(heap.journal) /\ heap.ids \in Nat /\ \A e \in heap.journal : e.id <= heap.ids
      /\ dangling \cap Live = {} /\ dangling \subseteq Nat
    BY <1>1 DEF HeapInv, StaleInv
<1>3. ASSUME NEW off, NEW size, Issued(heap, heap', off, size)
      PROVE  Continues(heap.journal, heap.ids, heap'.journal, heap'.ids)
    BY <1>2, <1>3, IssuedContinues
<1>4. ASSUME NEW a, BuildInternal(a) \/ BuildRequest(a) PROVE StaleInv'
    <2>1. AllocateAce(a) /\ Live' = Live \cup {a}
        BY <1>4, PlaceIs DEF BuildInternal, BuildRequest
    <2>2. Allocate(heap, Units).heap = heap' /\ Allocate(heap, Units).at = a /\ a # 0
        BY <2>1 DEF AllocateAce
    <2>3. Issued(heap, heap', a, RoundedSize(Units))
        BY <1>1, <2>2, UnitsAre, AllocateIs
    <2>4. Continues(heap.journal, heap.ids, heap'.journal, heap'.ids)
        BY <1>3, <2>3
    <2>5. /\ DOMAIN allocated' = DOMAIN allocated \cup {a}
          /\ allocated'[a] = LiveAllocationAt(heap', a, Units)
          /\ \A b \in DOMAIN allocated \ {a} : allocated'[b] = allocated[b]
          /\ dangling' = dangling \ {a}
        BY <2>1 DEF AllocateAce
    <2>6. /\ dangling' \cap Live' = {} /\ dangling' \subseteq Nat
          /\ \A b \in DOMAIN allocated' : \/ b \in DOMAIN allocated /\ allocated'[b] = allocated[b]
                                          \/ allocated'[b] = LiveAllocationAt(heap', b, Units)
        BY <1>2, <2>1, <2>5
    <2>7. \A b \in dangling' \cap DOMAIN allocated' :
            b \in DOMAIN allocated /\ allocated'[b] = allocated[b] /\ b \in dangling
        BY <2>5
    <2> QED BY <1>1, <2>4, <2>6, <2>7, StaleKept
<1>5. ASSUME UNCHANGED <<heap, allocated>>, dangling' \subseteq dangling, Live' = Live PROVE StaleInv'
    BY <1>5 DEF StaleInv
<1>6. ASSUME NEW a, Complete(a) \/ DequeueByGuest(a) PROVE StaleInv'
    <2>1. UNCHANGED <<heap, allocated>> /\ dangling' \subseteq dangling
        BY <1>6 DEF Complete, DequeueByGuest
    <2>2. Live' = Live
        BY <1>6, PlaceIs DEF Complete, DequeueByGuest, At, Live
    <2> QED BY <1>5, <2>1, <2>2
<1>7. ASSUME Continues(heap.journal, heap.ids, heap'.journal, heap'.ids), Live' \subseteq Live,
             dangling' \subseteq dangling,
             \A b \in DOMAIN allocated' : b \in DOMAIN allocated /\ allocated'[b] = allocated[b]
      PROVE  StaleInv'
    <2>1. dangling' \cap Live' = {} /\ dangling' \subseteq Nat
        BY <1>2, <1>7
    <2>2. \A b \in dangling' \cap DOMAIN allocated' :
            b \in DOMAIN allocated /\ allocated'[b] = allocated[b] /\ b \in dangling
        BY <1>7
    <2> QED BY <1>1, <1>7, <2>1, <2>2, StaleKept
<1>8. ASSUME NEW a \in Live, Consume(a) \/ Cancel(a) PROVE StaleInv'
    <2>1. /\ elements' = Without(elements, a) /\ areas' = areas /\ dangling' \subseteq dangling
          /\ heap' = Free(heap, a, Units) \/ heap' = heap
          /\ allocated' = Without(allocated, a)
        BY <1>8 DEF Consume, Cancel, Release
    <2>2. Continues(heap.journal, heap.ids, heap'.journal, heap'.ids)
        BY <2>1, ElementDrops, DropContinues
    <2>3. Live' = Live \ {a}
        BY <2>1, WithoutIs
    <2>4. \A b \in DOMAIN allocated' : b \in DOMAIN allocated /\ allocated'[b] = allocated[b]
        BY <2>1, EntryGone
    <2> QED BY <1>7, <2>1, <2>2, <2>3, <2>4
<1>9. ASSUME NEW a \in dangling, Consume(a) PROVE StaleInv'
    <2>1. Release(a) /\ elements' = Without(elements, a) /\ dangling' \subseteq dangling
        BY <1>9 DEF Consume
    <2>2. heap' = heap /\ Live' = Live
        BY <1>1, <2>1, StaleIsDropped
    <2>3. \A b \in DOMAIN allocated' : b \in DOMAIN allocated /\ allocated'[b] = allocated[b]
        BY <2>1, EntryGone DEF Release
    <2>4. Continues(heap.journal, heap.ids, heap'.journal, heap'.ids)
        BY <1>2, <2>2, SameContinues
    <2> QED BY <1>7, <2>1, <2>2, <2>3, <2>4
<1>10. ASSUME NEW a \in Live, FreeElement(a) PROVE StaleInv'
    <2>1. /\ elements' = Without(elements, a) /\ areas' = areas
          /\ heap' = Free(heap, a, Units) /\ allocated' = allocated
          /\ dangling' \subseteq dangling \cup {a}
        BY <1>10 DEF FreeElement
    <2>2. PICK q : q = <<a, Units>>
        OBVIOUS
    <2>3. q[1] = a /\ q[2] = Units /\ Drops(q)
        BY <2>1, <2>2, ElementDrops
    <2>4. /\ Continues(heap.journal, heap.ids, heap'.journal, heap'.ids)
          /\ \A f \in heap'.journal : ~(f.off <= a /\ a < f.off + f.len)
        BY <2>1, <2>3, DropContinues
    <2>5. a \in Nat
        BY <2>2, <2>3, HeldIs DEF Drops, ElementsInv
    <2>6. Live' = Live \ {a}
        BY <2>1, WithoutIs
    <2>7. dangling' \cap Live' = {} /\ dangling' \subseteq Nat
        BY <1>2, <2>1, <2>5, <2>6
    <2>8. CASE At(a, "complete")
        <3>1. allocated[a] # 0
            BY <1>10, <2>8 DEF FreeElement, Identified, At
        <3>2. Unheld(heap'.journal, allocated[a], a)
            BY <2>4 DEF Unheld
        <3>3. \A b \in dangling' \cap DOMAIN allocated' :
                /\ b \in DOMAIN allocated /\ allocated'[b] = allocated[b]
                /\ b \in dangling \/ (allocated[b] # 0 /\ Unheld(heap'.journal, allocated[b], b))
            BY <2>1, <3>1, <3>2
        <3> QED BY <1>1, <2>1, <2>4, <2>7, <3>3, StaleKept
    <2>9. CASE ~At(a, "complete")
        <3>1. dangling' = dangling
            BY <1>10, <2>9 DEF FreeElement
        <3> QED BY <1>7, <2>1, <2>4, <2>6, <3>1
    <2> QED BY <2>8, <2>9
<1>11. ASSUME NEW n \in Sizes, AssignArea(n) PROVE StaleInv'
    <2>1. /\ Allocate(heap, n).heap = heap' /\ Allocate(heap, n).at # 0
          /\ UNCHANGED <<allocated, elements, dangling>>
        BY <1>11 DEF AssignArea
    <2>2. n \in Nat /\ n >= 1
        BY SizesAssumption
    <2>3. Issued(heap, heap', Allocate(heap, n).at, RoundedSize(n))
        BY <1>1, <2>1, <2>2, AllocateIs
    <2>4. Continues(heap.journal, heap.ids, heap'.journal, heap'.ids)
        BY <1>3, <2>3
    <2> QED BY <1>7, <2>1, <2>4 DEF Live
<1>12. ASSUME NEW area \in areas, FreeOwnArea(area) PROVE StaleInv'
    <2>1. Continues(heap.journal, heap.ids, heap'.journal, heap'.ids)
        BY <1>12, AreaDrops, DropContinues
    <2>2. UNCHANGED <<allocated, elements, dangling>>
        BY <1>12 DEF FreeOwnArea
    <2> QED BY <1>7, <2>1, <2>2 DEF Live
<1>13. ASSUME SaveAndLoadAces PROVE StaleInv'
    <2>1. /\ heap' = RestoreCheckpoint(heap) /\ dangling' = {}
          /\ DOMAIN allocated' = DOMAIN allocated
          /\ \A a \in DOMAIN allocated : allocated'[a] = LiveAllocationAt(heap', a, Units)
        BY <1>13 DEF SaveAndLoadAces, SaveAndLoad
    <2>2. \A e \in heap'.journal : e.id <= heap'.ids
        BY <1>1, <2>1, RestoreIs DEF Restored
    <2>3. \A a \in DOMAIN allocated' : allocated'[a] \in Nat /\ allocated'[a] <= heap'.ids
        BY <1>1, <2>1, <2>2, LiveIdIs DEF HeapInv
    <2> QED BY <2>1, <2>2, <2>3 DEF StaleInv
<1>14. ASSUME UNCHANGED vars PROVE StaleInv'
    BY <1>5, <1>14 DEF vars, Live
<1> QED
    BY <1>4, <1>6, <1>8, <1>9, <1>10, <1>11, <1>12, <1>13, <1>14 DEF AceNext

(* At first nothing is held.                                               *)
LEMMA ElementsStart == AceInit => /\ ElementsInv /\ heap.journal = {} /\ Holdings = {}
                                  /\ StaleInv
<1> SUFFICES ASSUME AceInit PROVE ElementsInv /\ heap.journal = {} /\ Holdings = {} /\ StaleInv
    OBVIOUS
<1>1. HeapInv(heap) /\ heap.journal = {}
    BY HeapInvInit DEF AceInit
<1>2. Live = {} /\ areas = {}
    BY DEF AceInit, Live
<1>3. Holdings = {}
    BY <1>2 DEF Holdings
<1>4. Held(Holdings, heap.journal)
    BY <1>3 DEF Held
<1>5. ElementsInv
    BY <1>1, <1>2, <1>3, <1>4, FS_EmptySet DEF ElementsInv
<1>6. StaleInv
    BY <1>1 DEF AceInit, StaleInv
<1> QED BY <1>1, <1>3, <1>5, <1>6

(* What is in use are the runs that are held.                              *)
LEMMA InUseIs == InUse = {Run(p[1], p[2]) : p \in Holdings}
<1> DEFINE A == {Run(a, Units) : a \in Live}
           B == {Run(r[1], r[2]) : r \in areas}
           C == {Run(p[1], p[2]) : p \in Holdings}
<1>1. ASSUME NEW a \in Live PROVE Run(a, Units) \in C
    <2>1. PICK q : q = <<a, Units>>
        OBVIOUS
    <2>2. q \in Holdings /\ q[1] = a /\ q[2] = Units
        BY <2>1 DEF Holdings
    <2>3. Run(q[1], q[2]) \in C
        BY <2>2
    <2> QED BY <2>2, <2>3
<1>2. B \subseteq C
    BY DEF Holdings
<1>3. ASSUME NEW p \in Holdings PROVE Run(p[1], p[2]) \in A \cup B
    <2>1. CASE p \in areas
        BY <2>1
    <2>2. CASE \E a \in Live : p = <<a, Units>>
        BY <2>2
    <2> QED BY <2>1, <2>2 DEF Holdings
<1>4. InUse = A \cup B
    BY DEF InUse
<1> QED BY <1>1, <1>2, <1>3, <1>4

(* Runs that are apart have no unit in common, and are not the same.       *)
LEMMA HeldRuns ==
    ASSUME NEW P, NEW J, Held(P, J), NEW p \in P, NEW q \in P, p # q
    PROVE  Run(p[1], p[2]) \cap Run(q[1], q[2]) = {} /\ Run(p[1], p[2]) # Run(q[1], q[2])
<1>1. PICK a \in Nat, b \in Nat : a = p[1] /\ b = p[2] /\ b >= 1
    BY HeldIs
<1>2. PICK c \in Nat, d \in Nat : c = q[1] /\ d = q[2] /\ d >= 1
    BY HeldIs
<1>3. a + b <= c \/ c + d <= a
    BY <1>1, <1>2 DEF Held, Beside
<1>4. Run(a, b) \cap Run(c, d) = {}
    BY <1>3, RunIs
<1>5. a \in Run(a, b)
    BY <1>1, RunIs
<1> QED BY <1>1, <1>2, <1>4, <1>5

(* As many runs as things that are held.                                   *)
LEMMA RunsCount ==
    ASSUME NEW P, NEW J, Held(P, J), NEW S, IsFiniteSet(S), NEW f, f \in [S -> P],
           \A x, y \in S : x # y => f[x] # f[y]
    PROVE  LET R == {Run(f[x][1], f[x][2]) : x \in S}
           IN  IsFiniteSet(R) /\ Cardinality(R) = Cardinality(S)
<1> DEFINE R == {Run(f[x][1], f[x][2]) : x \in S}
           g == [x \in S |-> Run(f[x][1], f[x][2])]
<1>1. g \in [S -> R]
    OBVIOUS
<1>2. \A x, y \in S : x # y => g[x] # g[y]
    <2> SUFFICES ASSUME NEW x \in S, NEW y \in S, x # y PROVE g[x] # g[y]
        OBVIOUS
    <2>1. f[x] \in P /\ f[y] \in P /\ f[x] # f[y]
        OBVIOUS
    <2>2. Run(f[x][1], f[x][2]) # Run(f[y][1], f[y][2])
        BY <2>1, HeldRuns
    <2> QED BY <2>2
<1>3. \A r \in R : \E x \in S : g[x] = r
    OBVIOUS
<1> HIDE DEF R, g
<1>4. g \in Bijection(S, R)
    BY <1>1, <1>2, <1>3 DEF Bijection, Injection, Surjection, IsInjective
<1>5. ExistsBijection(S, R)
    BY <1>4 DEF ExistsBijection
<1>6. IsFiniteSet(R) /\ Cardinality(R) = Cardinality(S)
    BY <1>5, FS_Bijection
<1> QED BY <1>6 DEF R

(* So none of them is free, or another's.                                  *)
LEMMA ElementsInvIsSafe == ElementsInv => ElementsSafe
<1> SUFFICES ASSUME ElementsInv PROVE ElementsSafe
    OBVIOUS
<1>1. /\ HeapInv(heap) /\ Held(Holdings, heap.journal) /\ Journal(heap.journal)
      /\ IsFiniteSet(Live) /\ IsFiniteSet(areas)
      /\ \A a \in Live : <<a, Units>> \notin areas
    BY DEF ElementsInv, HeapInv
<1>2. DisjointRuns(InUse)
    <2> SUFFICES ASSUME NEW r \in InUse, NEW s \in InUse, r # s PROVE r \cap s = {}
        BY DEF DisjointRuns
    <2>1. PICK p \in Holdings, q \in Holdings : r = Run(p[1], p[2]) /\ s = Run(q[1], q[2])
        BY InUseIs
    <2>2. p # q
        BY <2>1
    <2> QED BY <1>1, <2>1, <2>2, HeldRuns
<1>3. (UNION InUse) \cap FreeUnits(heap) = {}
    <2> SUFFICES ASSUME NEW r \in InUse, NEW u \in r PROVE u \notin FreeUnits(heap)
        OBVIOUS
    <2>1. PICK p \in Holdings : r = Run(p[1], p[2])
        BY InUseIs
    <2>2. PICK off \in Nat, len \in Nat : off = p[1] /\ len = p[2]
        BY <1>1, HeldIs
    <2>3. PICK e \in heap.journal : PartOf(e, off, len)
        BY <1>1, <2>2 DEF Held
    <2>4. e.off \in Nat /\ e.len \in Nat
        BY <1>1, ExtentIs
    <2>5. u \in Nat /\ off <= u /\ u < off + len
        BY <2>1, <2>2, RunIs
    <2>6. e.off <= u /\ u < e.off + e.len
        BY <2>3, <2>4, <2>5 DEF PartOf
    <2>7. u \in Covered(heap.journal)
        BY <1>1, <2>5, <2>6, CoveredIs
    <2> QED BY <1>1, <2>7 DEF HeapInv
<1>4. Cardinality(InUse) = Cardinality(Live) + Cardinality(areas)
    <2> DEFINE A == {Run(a, Units) : a \in Live}
               B == {Run(r[1], r[2]) : r \in areas}
               f == [a \in Live |-> <<a, Units>>]
               g == [r \in areas |-> r]
               F == {Run(f[a][1], f[a][2]) : a \in Live}
               G == {Run(g[r][1], g[r][2]) : r \in areas}
    <2>1. F = A /\ G = B
        OBVIOUS
    <2>2. f \in [Live -> Holdings] /\ \A x, y \in Live : x # y => f[x] # f[y]
        BY DEF Holdings
    <2>3. g \in [areas -> Holdings] /\ \A x, y \in areas : x # y => g[x] # g[y]
        BY DEF Holdings
    <2>4. IsFiniteSet(F) /\ Cardinality(F) = Cardinality(Live)
        <3> HIDE DEF f
        <3> QED BY <1>1, <2>2, RunsCount
    <2>5. IsFiniteSet(G) /\ Cardinality(G) = Cardinality(areas)
        <3> HIDE DEF g
        <3> QED BY <1>1, <2>3, RunsCount
    <2>6. A \cap B = {}
        <3> SUFFICES ASSUME NEW a \in Live, NEW r \in areas PROVE Run(a, Units) # Run(r[1], r[2])
            OBVIOUS
        <3>1. PICK q : q = <<a, Units>>
            OBVIOUS
        <3>2. q \in Holdings /\ r \in Holdings /\ q # r /\ q[1] = a /\ q[2] = Units
            BY <1>1, <3>1 DEF Holdings
        <3>3. Run(q[1], q[2]) # Run(r[1], r[2])
            BY <1>1, <3>2, HeldRuns
        <3> QED BY <3>2, <3>3
    <2>7. InUse = A \cup B
        BY DEF InUse
    <2> HIDE DEF A, B, f, g, F, G
    <2>8. Cardinality(A \cup B) = Cardinality(A) + Cardinality(B) - Cardinality(A \cap B)
        BY <2>1, <2>4, <2>5, FS_Union
    <2>9. Cardinality(A \cap B) = 0
        BY <2>6, FS_EmptySet
    <2>10. Cardinality(Live) \in Nat /\ Cardinality(areas) \in Nat
        BY <1>1, FS_CardinalityType
    <2> QED BY <2>1, <2>4, <2>5, <2>7, <2>8, <2>9, <2>10
<1> QED BY <1>2, <1>3, <1>4 DEF ElementsSafe

(* Whoever frees an element, the host or the guest, also one that is still *)
(* on its queue and that the host comes to later, and whatever is          *)
(* assigned, freed or loaded meanwhile, the storage of a live one is on no *)
(* free list, not another element's and not in an area of the guest        *)
(* (ActionControlElementQueue.cpp:100-132).                                *)
THEOREM ElementsSafeHolds == AceSpec => []ElementsSafe
<1>1. AceInit => ElementsInv /\ StaleInv
    BY ElementsStart
<1>2. ElementsInv /\ StaleInv /\ [AceNext]_vars => ElementsInv' /\ StaleInv'
    BY ElementsStep, StaleStep
<1>3. ElementsInv => ElementsSafe
    BY ElementsInvIsSafe
<1> QED BY <1>1, <1>2, <1>3, PTL DEF AceSpec

(* Until a load makes one extent of neighbours, each extent is one thing   *)
(* that is held, and the host's record of an element it still has is of    *)
(* exactly its extent.                                                     *)
Exact ==
    /\ \A e \in heap.journal : <<e.off, e.len>> \in Holdings
    /\ \A a \in Live : elements[a].at # "guest" =>
         a \in DOMAIN allocated /\ allocated[a] = LiveAllocationAt(heap, a, Units)

(* Both, with what is held apart.                                          *)
ExactInv == ElementsInv /\ StaleInv /\ (~loaded => Exact)

(* The id at an address changes only with the extent that is there.        *)
LEMMA SameId ==
    ASSUME NEW h, NEW g, NEW off, NEW len,
           \A e : e.off = off /\ e.len = len => (e \in h.journal <=> e \in g.journal)
    PROVE  LiveAllocationAt(h, off, len) = LiveAllocationAt(g, off, len)
<1> DEFINE Found(k) == {e \in k.journal : e.off = off /\ e.len = len}
           Answer(S) == IF S = {} THEN 0 ELSE (CHOOSE e \in S : TRUE).id
<1>1. Found(h) = Found(g)
    OBVIOUS
<1>2. \A k : LiveAllocationAt(k, off, len) = Answer(Found(k))
    BY DEF LiveAllocationAt
<1> HIDE DEF Found, Answer
<1> QED BY <1>1, <1>2

(* A new extent changes no other.                                          *)
LEMMA GainKeepsIds ==
    ASSUME NEW off, NEW size, GainsAt(heap.journal, heap'.journal, off, size),
           NEW b, b # off, NEW len
    PROVE  LiveAllocationAt(heap', b, len) = LiveAllocationAt(heap, b, len)
<1>1. PICK id : heap'.journal = heap.journal \cup {[off |-> off, len |-> size, id |-> id]}
    BY DEF GainsAt
<1>2. PICK n : n = [off |-> off, len |-> size, id |-> id]
    OBVIOUS
<1>3. n.off # b
    BY <1>2
<1>4. \A e : e.off = b /\ e.len = len => (e \in heap.journal <=> e \in heap'.journal)
    BY <1>1, <1>2, <1>3
<1> QED BY <1>4, SameId

(* What goes was one extent, and goes altogether when it is freed.         *)
LEMMA WholeExtentGoes ==
    ASSUME ElementsInv, Exact, NEW q \in Holdings, NEW e \in heap.journal,
           PartOf(e, q[1], q[2]),
           heap'.journal = (heap.journal \ {e}) \cup Remains(e, q[1], q[2])
    PROVE  heap'.journal = heap.journal \ {e} /\ <<e.off, e.len>> = q
<1>1. Held(Holdings, heap.journal) /\ Journal(heap.journal)
    BY DEF ElementsInv, HeapInv
<1>2. PICK off \in Nat, len \in Nat : off = q[1] /\ len = q[2] /\ len >= 1 /\ q = <<off, len>>
    BY <1>1, HeldIs
<1>3. e.off \in Nat /\ e.len \in Nat /\ e.len >= 1
    BY <1>1, ExtentIs
<1>4. PICK p : p = <<e.off, e.len>>
    OBVIOUS
<1>5. p \in Holdings /\ p[1] = e.off /\ p[2] = e.len
    BY <1>4 DEF Exact
<1>6. e.off <= off /\ off + len <= e.off + e.len
    BY <1>2 DEF PartOf
<1>7. p = q
    <2> SUFFICES ASSUME p # q PROVE FALSE
        OBVIOUS
    <2>1. Beside(p, q)
        BY <1>1, <1>5 DEF Held
    <2>2. e.off + e.len <= off \/ off + len <= e.off
        BY <1>2, <1>5, <2>1 DEF Beside
    <2> QED BY <1>2, <1>3, <1>6, <2>2
<1>8. e.off = off /\ e.len = len
    BY <1>2, <1>5, <1>7
<1>9. PICK R : R = Remains(e, off, len)
    OBVIOUS
<1>10. R = {}
    <2>1. PartOf(e, off, len)
        BY <1>2
    <2>2. PICK x, y : x = [off |-> e.off, len |-> off - e.off, id |-> e.id]
                      /\ y = [off |-> off + len, len |-> e.off + e.len - (off + len), id |-> e.id]
        OBVIOUS
    <2>3. R = {r \in {x, y} : r.len > 0}
        BY <1>1, <1>9, <2>1, <2>2, RemainsAre
    <2>4. x.len = 0 /\ y.len = 0
        BY <1>2, <1>8, <2>2
    <2> QED BY <2>3, <2>4
<1> QED BY <1>2, <1>4, <1>7, <1>9, <1>10

(* Something that is held is freed: nothing else of its extent was held.   *)
LEMMA DropExact ==
    ASSUME ElementsInv, Exact, NEW q, Drops(q), heap' = Free(heap, q[1], q[2]),
           \A a \in Live' : elements'[a] = elements[a] /\ <<a, Units>> # q,
           \A a \in Live' \cap DOMAIN allocated :
               a \in DOMAIN allocated' /\ allocated'[a] = allocated[a]
    PROVE  Exact'
<1>1. q \in Holdings /\ Holdings' = Holdings \ {q} /\ Live' \subseteq Live
    BY DEF Drops
<1>2. Held(Holdings, heap.journal) /\ Journal(heap.journal) /\ HeapInv(heap)
    BY DEF ElementsInv, HeapInv
<1>3. PICK off, len : off = q[1] /\ len = q[2]
    OBVIOUS
<1>4. PICK e \in heap.journal : PartOf(e, off, len)
    BY <1>1, <1>2, <1>3 DEF Held
<1>5. heap'.journal = (heap.journal \ {e}) \cup Remains(e, off, len)
    BY <1>2, <1>3, <1>4, FreeIs
<1>6. heap'.journal = heap.journal \ {e} /\ <<e.off, e.len>> = q
    BY <1>1, <1>3, <1>4, <1>5, WholeExtentGoes
<1>7. ASSUME NEW f \in heap'.journal PROVE <<f.off, f.len>> \in Holdings'
    <2>1. f \in heap.journal /\ f # e
        BY <1>6
    <2>2. <<f.off, f.len>> \in Holdings
        BY <2>1 DEF Exact
    <2>3. <<f.off, f.len>> # q
        <3> SUFFICES ASSUME <<f.off, f.len>> = <<e.off, e.len>> PROVE FALSE
            BY <1>6
        <3>1. f.off = e.off /\ f.len = e.len
            OBVIOUS
        <3>2. f.off + f.len <= e.off \/ e.off + e.len <= f.off
            BY <1>2, <2>1 DEF Journal
        <3>3. e.off \in Nat /\ e.len \in Nat /\ e.len >= 1
            BY <1>2, ExtentIs
        <3> QED BY <3>1, <3>2, <3>3
    <2> QED BY <1>1, <2>2, <2>3
<1>8. ASSUME NEW a \in Live', elements'[a].at # "guest"
      PROVE  a \in DOMAIN allocated' /\ allocated'[a] = LiveAllocationAt(heap', a, Units)
    <2>1. a \in DOMAIN allocated /\ allocated[a] = LiveAllocationAt(heap, a, Units)
        BY <1>1, <1>8 DEF Exact
    <2>2. ~(e.off = a /\ e.len = Units)
        BY <1>6
    <2>3. \A f : f.off = a /\ f.len = Units => (f \in heap.journal <=> f \in heap'.journal)
        BY <1>6, <2>2
    <2>4. LiveAllocationAt(heap, a, Units) = LiveAllocationAt(heap', a, Units)
        BY <2>3, SameId
    <2> QED BY <2>1, <2>4
<1> QED BY <1>7, <1>8 DEF Exact

(* A new element has a record of exactly its extent.                       *)
LEMMA NewElementExact ==
    ASSUME ElementsInv, Exact, NEW a, NEW place, NEW ecm, AllocateAce(a),
           elements' = Place(a, place, ecm), areas' = areas
    PROVE  Exact'
<1>1. Live' = Live \cup {a} /\ \A b \in Live \ {a} : elements'[b] = elements[b]
    BY PlaceIs
<1>2. /\ Holdings' = Holdings \cup {<<a, Units>>}
      /\ \A p \in Holdings : p[1] # a
      /\ GainsAt(heap.journal, heap'.journal, a, Units)
    BY <1>1, NewElement
<1>3. /\ DOMAIN allocated' = DOMAIN allocated \cup {a}
      /\ allocated'[a] = LiveAllocationAt(heap', a, Units)
      /\ \A x \in DOMAIN allocated \ {a} : allocated'[x] = allocated[x]
    BY DEF AllocateAce
<1>4. PICK id : heap'.journal = heap.journal \cup {[off |-> a, len |-> Units, id |-> id]}
    BY <1>2 DEF GainsAt
<1>5. ASSUME NEW f \in heap'.journal PROVE <<f.off, f.len>> \in Holdings'
    <2>1. CASE f \in heap.journal
        BY <1>2, <2>1 DEF Exact
    <2>2. CASE f = [off |-> a, len |-> Units, id |-> id]
        <3>1. f.off = a /\ f.len = Units
            BY <2>2
        <3> QED BY <1>2, <3>1
    <2> QED BY <1>4, <2>1, <2>2
<1>6. ASSUME NEW b \in Live', elements'[b].at # "guest"
      PROVE  b \in DOMAIN allocated' /\ allocated'[b] = LiveAllocationAt(heap', b, Units)
    <2>1. CASE b = a
        BY <1>3, <2>1
    <2>2. CASE b # a
        <3>1. b \in Live /\ elements[b].at # "guest"
            BY <1>1, <1>6, <2>2
        <3>2. b \in DOMAIN allocated /\ allocated[b] = LiveAllocationAt(heap, b, Units)
            BY <3>1 DEF Exact
        <3>3. LiveAllocationAt(heap', b, Units) = LiveAllocationAt(heap, b, Units)
            BY <1>2, <2>2, GainKeepsIds
        <3> QED BY <1>3, <2>2, <3>2, <3>3
    <2> QED BY <2>1, <2>2
<1> QED BY <1>5, <1>6 DEF Exact

(* Nor does a new area touch a record.                                     *)
LEMMA NewAreaExact ==
    ASSUME ElementsInv, Exact, NEW n \in Sizes, AssignArea(n)
    PROVE  Exact'
<1>1. PICK off, size : /\ GainsAt(heap.journal, heap'.journal, off, size)
                       /\ Holdings' = Holdings \cup {<<off, size>>}
                       /\ \A p \in Holdings : p[1] # off
    BY NewArea
<1>2. UNCHANGED <<elements, allocated>> /\ Live' = Live
    BY DEF AssignArea, Live
<1>3. PICK id : heap'.journal = heap.journal \cup {[off |-> off, len |-> size, id |-> id]}
    BY <1>1 DEF GainsAt
<1>4. ASSUME NEW f \in heap'.journal PROVE <<f.off, f.len>> \in Holdings'
    <2>1. CASE f \in heap.journal
        BY <1>1, <2>1 DEF Exact
    <2>2. CASE f = [off |-> off, len |-> size, id |-> id]
        <3>1. f.off = off /\ f.len = size
            BY <2>2
        <3> QED BY <1>1, <3>1
    <2> QED BY <1>3, <2>1, <2>2
<1>5. ASSUME NEW b \in Live, elements[b].at # "guest"
      PROVE  b \in DOMAIN allocated /\ allocated[b] = LiveAllocationAt(heap', b, Units)
    <2>1. PICK p : p = <<b, Units>>
        OBVIOUS
    <2>2. p \in Holdings /\ p[1] = b
        BY <2>1 DEF Holdings
    <2>3. b # off
        BY <1>1, <2>2
    <2>4. LiveAllocationAt(heap', b, Units) = LiveAllocationAt(heap, b, Units)
        BY <1>1, <2>3, GainKeepsIds
    <2> QED BY <1>5, <2>4 DEF Exact
<1> QED BY <1>2, <1>4, <1>5 DEF Exact

(* Every step keeps extents and holdings, and records and extents, in      *)
(* step, until a load.                                                     *)
LEMMA ExactStep ==
    ASSUME ElementsInv, StaleInv, Exact, [AceNext]_vars, ~loaded' PROVE Exact'
<1>1. ASSUME NEW a, BuildInternal(a) \/ BuildRequest(a) PROVE Exact'
    <2>1. AllocateAce(a) /\ areas' = areas
        BY <1>1 DEF BuildInternal, BuildRequest
    <2>2. PICK place, ecm : elements' = Place(a, place, ecm)
        BY <1>1 DEF BuildInternal, BuildRequest
    <2> QED BY <2>1, <2>2, NewElementExact
<1>2. ASSUME UNCHANGED <<heap, areas, allocated>>, Live' = Live,
             \A a \in Live : elements'[a].at # "guest" => elements[a].at # "guest"
      PROVE  Exact'
    BY <1>2 DEF Exact, Holdings
<1>3. ASSUME NEW a \in Live, Complete(a) \/ DequeueByGuest(a), elements' # elements PROVE Exact'
    <2>1. PICK place, ecm : elements' = Place(a, place, ecm)
                            /\ (place # "guest" => elements[a].at # "guest")
        BY <1>3 DEF Complete, DequeueByGuest, At
    <2>2. UNCHANGED <<heap, areas, allocated>> /\ Live' = Live
        BY <1>3, <2>1, PlaceIs DEF Complete, DequeueByGuest
    <2>3. \A b \in Live : elements'[b].at # "guest" => elements[b].at # "guest"
        BY <2>1, PlaceIs
    <2> QED BY <1>2, <2>2, <2>3
<1>4. ASSUME NEW a \in Live, elements' = Without(elements, a), areas' = areas,
             heap' = Free(heap, a, Units),
             \A b \in DOMAIN allocated \ {a} : b \in DOMAIN allocated' /\ allocated'[b] = allocated[b]
      PROVE  Exact'
    <2>1. PICK q : q = <<a, Units>>
        OBVIOUS
    <2>2. Drops(q)
        BY <1>4, <2>1, ElementDrops
    <2>3. q[1] = a /\ q[2] = Units /\ \A b : <<b, Units>> = q <=> b = a
        BY <2>1
    <2>4. Live' = Live \ {a} /\ \A b \in Live \ {a} : elements'[b] = elements[b]
        BY <1>4, WithoutIs
    <2>5. /\ heap' = Free(heap, q[1], q[2])
          /\ \A b \in Live' : elements'[b] = elements[b] /\ <<b, Units>> # q
          /\ \A b \in Live' \cap DOMAIN allocated :
               b \in DOMAIN allocated' /\ allocated'[b] = allocated[b]
        BY <1>4, <2>3, <2>4
    <2> QED BY <2>2, <2>5, DropExact
<1>5. ASSUME NEW a \in Live, Consume(a) \/ Cancel(a) PROVE Exact'
    <2>1. /\ elements' = Without(elements, a) /\ areas' = areas
          /\ elements[a].at # "guest" /\ Release(a)
        BY <1>5 DEF Consume, Cancel, At, StaleInv
    <2>2. allocated[a] = LiveAllocationAt(heap, a, Units)
        BY <2>1 DEF Exact
    <2>3. heap' = Free(heap, a, Units) /\ allocated' = Without(allocated, a)
        BY <2>1, <2>2 DEF Release
    <2> QED BY <1>4, <2>1, <2>3, EntryGone
<1>6. ASSUME NEW a \in Live, FreeElement(a) PROVE Exact'
    BY <1>4, <1>6 DEF FreeElement
<1>7. ASSUME NEW n \in Sizes, AssignArea(n) PROVE Exact'
    BY <1>7, NewAreaExact
<1>8. ASSUME NEW area \in areas, FreeOwnArea(area) PROVE Exact'
    <2>1. UNCHANGED <<elements, allocated>> /\ heap' = Free(heap, area[1], area[2])
        BY <1>8 DEF FreeOwnArea, FreeArea
    <2>2. Drops(area)
        BY <1>8, AreaDrops
    <2>3. Live' = Live /\ \A a \in Live : <<a, Units>> # area
        BY <1>8, <2>1 DEF Live, ElementsInv
    <2> QED BY <2>1, <2>2, <2>3, DropExact
<1>9. ~SaveAndLoadAces
    BY DEF SaveAndLoadAces
<1>10. ASSUME UNCHANGED vars PROVE Exact'
    BY <1>2, <1>10 DEF vars, Live
<1>11. ASSUME NEW a, Complete(a) \/ DequeueByGuest(a), elements' = elements PROVE Exact'
    <2>1. UNCHANGED <<heap, areas, allocated>> /\ Live' = Live
        BY <1>11 DEF Complete, DequeueByGuest, Live
    <2> QED BY <1>2, <1>11, <2>1
<1>12. ASSUME NEW a \in dangling, Consume(a) PROVE Exact'
    <2>1. /\ Release(a) /\ elements' = Without(elements, a) /\ UNCHANGED areas
          /\ a \notin Live
        BY <1>12 DEF Consume, StaleInv
    <2>2. heap' = heap /\ Live' = Live
        BY <2>1, StaleIsDropped DEF ElementsInv
    <2>3. \A b \in Live : elements'[b] = elements[b]
        BY <2>1, WithoutIs
    <2>4. \A b \in DOMAIN allocated \ {a} : b \in DOMAIN allocated' /\ allocated'[b] = allocated[b]
        BY <2>1, EntryGone DEF Release
    <2> QED BY <2>1, <2>2, <2>3, <2>4 DEF Exact, Holdings
<1>13. ASSUME NEW a, Complete(a) \/ DequeueByGuest(a) PROVE Exact'
    BY <1>3, <1>11, <1>13 DEF Complete, DequeueByGuest, At
<1> QED
    BY <1>1, <1>5, <1>6, <1>7, <1>8, <1>9, <1>10, <1>12, <1>13 DEF AceNext

(* So does every step before one.                                          *)
LEMMA ExactInvStep == ASSUME ExactInv, [AceNext]_vars PROVE ExactInv'
<1>1. ElementsInv' /\ StaleInv'
    BY ElementsStep, StaleStep DEF ExactInv
<1>2. ~loaded' => ~loaded
    BY DEF AceNext, BuildInternal, BuildRequest, Complete, Consume, Cancel, DequeueByGuest,
           FreeElement, AssignArea, FreeOwnArea, SaveAndLoadAces, vars
<1>3. ~loaded' => Exact'
    BY <1>2, ExactStep DEF ExactInv
<1> QED BY <1>1, <1>3 DEF ExactInv

(* What is assigned is what is held.                                       *)
LEMMA ExactInvIsTight == ExactInv => NothingLeaks
<1> SUFFICES ASSUME ElementsInv, Exact PROVE Covered(heap.journal) = UNION InUse
    BY DEF ExactInv, NothingLeaks
<1>1. Held(Holdings, heap.journal) /\ Journal(heap.journal)
    BY DEF ElementsInv, HeapInv
<1>2. ASSUME NEW u \in Covered(heap.journal) PROVE u \in UNION InUse
    <2>1. PICK e \in heap.journal : u \in Nat /\ e.off <= u /\ u < e.off + e.len
        BY <1>1, CoveredIs
    <2>2. e.off \in Nat /\ e.len \in Nat
        BY <1>1, ExtentIs
    <2>3. PICK p : p = <<e.off, e.len>>
        OBVIOUS
    <2>4. p \in Holdings /\ p[1] = e.off /\ p[2] = e.len
        BY <2>3 DEF Exact
    <2>5. u \in Run(p[1], p[2])
        BY <2>1, <2>2, <2>4, RunIs
    <2> QED BY <2>4, <2>5, InUseIs
<1>3. ASSUME NEW u \in UNION InUse PROVE u \in Covered(heap.journal)
    <2>1. PICK p \in Holdings : u \in Run(p[1], p[2])
        BY InUseIs
    <2>2. PICK off \in Nat, len \in Nat : off = p[1] /\ len = p[2]
        BY <1>1, HeldIs
    <2>3. PICK e \in heap.journal : PartOf(e, off, len)
        BY <1>1, <2>2 DEF Held
    <2>4. e.off \in Nat /\ e.len \in Nat
        BY <1>1, ExtentIs
    <2>5. u \in Nat /\ off <= u /\ u < off + len
        BY <2>1, <2>2, RunIs
    <2>6. e.off <= u /\ u < e.off + e.len
        BY <2>3, <2>4, <2>5 DEF PartOf
    <2> QED BY <1>1, <2>5, <2>6, CoveredIs
<1> QED BY <1>2, <1>3

(* Until a load, the pool holds nothing as assigned that no element and no *)
(* area of the guest is: whichever way an element ends, its storage comes  *)
(* back, and no record goes stale while the host still needs it            *)
(* (ActionControlElementQueue.cpp:100-132).                                *)
THEOREM NothingLeaksHolds == AceSpec => []NothingLeaks
<1>1. AceInit => ExactInv
    <2>1. AceInit => Live = {}
        BY DEF AceInit, Live
    <2> QED BY <2>1, ElementsStart DEF ExactInv, Exact
<1>2. ExactInv /\ [AceNext]_vars => ExactInv'
    BY ExactInvStep
<1>3. ExactInv => NothingLeaks
    BY ExactInvIsTight
<1> QED BY <1>1, <1>2, <1>3, PTL DEF AceSpec
=============================================================================
