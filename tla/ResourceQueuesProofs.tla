------------------------ MODULE ResourceQueuesProofs ------------------------
(***************************************************************************)
(* Proofs about the resource queues, for any tasks, jobs and resources:    *)
(* what a walk of a queue grants can be shared, who waits has to wait, and *)
(* nobody who waits is overtaken or robbed.  The walks are recursive       *)
(* functions along a queue; what they compute is proved by the least       *)
(* number principle on sets of places.                                     *)
(***************************************************************************)
EXTENDS ResourceQueues, WellFoundedInduction, SequenceTheorems, TLAPS

(* No program asks for the extended level (section 6 of the README: then   *)
(* resourceShareCombine loses the bit, and owners conflict).               *)
NotExtended == \A s \in Requests : ~s.ext

(***************************************************************************)
(* Shares.                                                                 *)
(***************************************************************************)

Level == [lv : 0..4, ext : {FALSE}]

Higher(m, n) == IF m > n THEN m ELSE n

(* Without the extended bit, holding both is holding the higher level, and *)
(* the code's test of a conflict is the published table.                   *)
LEMMA Shares ==
    ASSUME NEW a \in Level, NEW b \in Level
    PROVE  /\ Combine(a, b) \in Level
           /\ Combine(a, b).lv = Higher(a.lv, b.lv)
           /\ Conflicts(a, b) <=> a.lv + b.lv > 4
           /\ CanShare(a, b) <=> a.lv + b.lv <= 4
           /\ a.lv \in 0..4
<1>1. PICK m \in 0..4, n \in 0..4 : a = [lv |-> m, ext |-> FALSE] /\ b = [lv |-> n, ext |-> FALSE]
    BY DEF Level
<1>2. a.lv = m /\ b.lv = n /\ a.ext = FALSE /\ b.ext = FALSE
    BY <1>1
<1>3. Combine(a, b) = [lv |-> Higher(m, n), ext |-> FALSE]
    <2>1. CASE m > n
        BY <2>1, <1>1, <1>2 DEF Combine, Higher
    <2>2. CASE m < n
        BY <2>2, <1>1, <1>2 DEF Combine, Higher
    <2>3. CASE m = n
        BY <2>3, <1>1, <1>2 DEF Combine, Higher
    <2> QED BY <2>1, <2>2, <2>3
<1>4. Higher(m, n) \in 0..4
    BY DEF Higher
<1>5. Conflicts(a, b) <=> a.lv + b.lv > 4
    BY <1>2 DEF Conflicts
<1>6. CanShare(a, b) <=> a.lv + b.lv <= 4
    BY <1>2 DEF CanShare
<1>7. Combine(a, b) \in Level /\ Combine(a, b).lv = Higher(a.lv, b.lv)
    BY <1>2, <1>3, <1>4 DEF Level
<1> QED BY <1>2, <1>5, <1>6, <1>7

LEMMA SameLevel ==
    ASSUME NEW a \in Level, NEW b \in Level, a.lv = b.lv
    PROVE  a = b
<1>1. a = [lv |-> a.lv, ext |-> FALSE] /\ b = [lv |-> b.lv, ext |-> FALSE]
    BY DEF Level
<1> QED BY <1>1

LEMMA NothingIs == Nothing \in Level /\ Nothing.lv = 0
  BY DEF Nothing, Level

(***************************************************************************)
(* The least number principle, and what it says of a step from each number *)
(* to the next.                                                            *)
(***************************************************************************)

(* What holds at the first place, and at each place after one where it     *)
(* holds, holds at every place.                                            *)
LEMMA UpTo ==
    ASSUME NEW n \in Nat, NEW H, 0 \in H,
           \A i \in 1..n : i - 1 \in H => i \in H
    PROVE  0..n \subseteq H
<1> DEFINE T == (0..n) \ H
<1>1. SUFFICES ASSUME T # {} PROVE FALSE
    OBVIOUS
<1>2. T \subseteq Nat
    OBVIOUS
<1>3. IsWellFoundedOn(OpToRel(<, Nat), Nat)
    BY NatLessThanWellFounded
<1>4. PICK x \in T : \A y \in T : ~(<<y, x>> \in OpToRel(<, Nat))
    <2> HIDE DEF T
    <2> QED BY <1>1, <1>2, <1>3, WFMin
<1>5. \A y \in T : ~(y < x)
    BY <1>2, <1>4 DEF OpToRel
<1>6. x \in 1..n
    <2>1. x \in 0..n /\ x \notin H
        OBVIOUS
    <2>2. x # 0
        BY <2>1
    <2> QED BY <2>1, <2>2
<1>7. x - 1 \in 0..n /\ x - 1 < x
    BY <1>6
<1>8. x - 1 \in H
    BY <1>5, <1>7
<1> QED BY <1>4, <1>6, <1>8

(***************************************************************************)
(* Elements and queues.                                                    *)
(***************************************************************************)

Under == [owner : Owners, active : Level, own : BOOLEAN,
          requested : Level, nested : BOOLEAN, seen : BOOLEAN]

Entry == [owner : Owners, active : Level, own : BOOLEAN, requested : Level,
          nested : BOOLEAN, seen : BOOLEAN, under : Seq(Under)]

(* The active level of an element is that of all its owner asked for from  *)
(* the oldest of its nested elements to it, and one that nests over        *)
(* another says so.                                                        *)
Stacked(e) ==
    /\ e.active.lv = Higher(e.requested.lv, IF e.under = <<>> THEN 0 ELSE e.under[1].active.lv)
    /\ e.under # <<>> => e.nested
    /\ \A k \in 1..Len(e.under) :
         /\ e.under[k].owner = e.owner /\ ~e.under[k].own /\ e.under[k].seen
         /\ e.under[k].active.lv = Higher(e.under[k].requested.lv,
                                          IF k = Len(e.under) THEN 0 ELSE e.under[k + 1].active.lv)
         /\ k < Len(e.under) => e.under[k].nested

Sound(e) == e \in Entry /\ Len(e.under) < Nesting /\ Stacked(e)

(* A queue outside a supervisor call: an element of an owner, and all of   *)
(* them evaluated.                                                         *)
OneEach(q) == \A i, k \in 1..Len(q) : q[i].owner = q[k].owner => i = k

Queue(q) ==
    /\ q \in Seq(Entry)
    /\ \A i \in 1..Len(q) : Sound(q[i])
    /\ OneEach(q)

Evaluated(q) == \A i \in 1..Len(q) : q[i].seen

OwnersApart(q) ==
    \A i, k \in 1..Len(q) : i # k /\ q[i].own /\ q[k].own => q[i].active.lv + q[k].active.lv <= 4

LEMMA QueueIs ==
    ASSUME NEW q \in Seq(Entry)
    PROVE  /\ Len(q) \in Nat /\ DOMAIN q = 1..Len(q)
           /\ \A i \in 1..Len(q) : q[i] \in Entry
  OBVIOUS

LEMMA EntryIs ==
    ASSUME NEW e \in Entry
    PROVE  /\ e.owner \in Owners /\ e.active \in Level /\ e.own \in BOOLEAN
           /\ e.requested \in Level /\ e.nested \in BOOLEAN /\ e.seen \in BOOLEAN
           /\ e.under \in Seq(Under)
           /\ e.active.lv \in 0..4
           /\ [e EXCEPT !.seen = TRUE] \in Entry
           /\ [e EXCEPT !.own = TRUE, !.seen = TRUE] \in Entry
  BY DEF Entry, Level

(***************************************************************************)
(* The walk of a queue.                                                    *)
(***************************************************************************)

Start(all) == [all |-> all, q |-> <<>>, posts |-> {}]

Walk(q, all, wait, w) ==
    /\ w[0] = Start(all)
    /\ \A i \in 1..Len(q) : w[i] = Offer(w[i - 1], q[i], wait)

(* A walk visits the elements one after the other.                         *)
LEMMA EvaluateWalks ==
    ASSUME NEW q \in Seq(Entry), NEW all, NEW wait
    PROVE  \E w : Walk(q, all, wait, w) /\ Evaluate(q, all, wait) = w[Len(q)]
<1> DEFINE n == Len(q)
           One(g, i) == IF i = 0 THEN Start(all) ELSE Offer(g[i - 1], q[i], wait)
           H == {k \in 0..n : \E g : g = [i \in 0..k |-> One(g, i)]}
<1>1. n \in Nat
    OBVIOUS
<1>2. 0 \in H
    <2> DEFINE g == [i \in 0..0 |-> Start(all)]
    <2>1. g = [i \in 0..0 |-> One(g, i)]
        OBVIOUS
    <2> HIDE DEF g, One
    <2>2. \E f : f = [i \in 0..0 |-> One(f, i)]
        BY <2>1, Zenon
    <2> QED BY <1>1, <2>2
<1>3. ASSUME NEW k \in 1..n, k - 1 \in H PROVE k \in H
    <2>1. PICK g : g = [i \in 0..(k - 1) |-> One(g, i)]
        BY <1>3
    <2> DEFINE f == [i \in 0..k |-> IF i < k THEN g[i] ELSE Offer(g[k - 1], q[k], wait)]
    <2>2. ASSUME NEW i \in 0..k PROVE f[i] = One(f, i)
        <3>1. CASE i = 0
            <4>1. f[0] = g[0] /\ g[0] = One(g, 0)
                BY <1>1, <2>1
            <4> QED BY <3>1, <4>1
        <3>2. CASE i \in 1..(k - 1)
            <4>1. f[i] = g[i] /\ g[i] = One(g, i) /\ f[i - 1] = g[i - 1]
                BY <1>1, <2>1, <3>2
            <4> QED BY <3>2, <4>1
        <3>3. CASE i = k
            <4>1. f[k] = Offer(g[k - 1], q[k], wait) /\ f[k - 1] = g[k - 1]
                BY <1>1
            <4> QED BY <3>3, <4>1
        <3> QED BY <1>1, <3>1, <3>2, <3>3
    <2>3. f = [i \in 0..k |-> One(f, i)]
        <3>1. f = [i \in 0..k |-> f[i]]
            OBVIOUS
        <3> HIDE DEF f, One
        <3> QED BY <2>2, <3>1
    <2> HIDE DEF f, One
    <2>4. \E h : h = [i \in 0..k |-> One(h, i)]
        BY <2>3, Zenon
    <2> QED BY <1>1, <2>4
<1>4. n \in H
    <2> HIDE DEF H, n
    <2>1. 0..n \subseteq H
        BY <1>1, <1>2, <1>3, UpTo
    <2> QED BY <1>1, <2>1
<1> DEFINE w == CHOOSE g : g = [i \in 0..n |-> One(g, i)]
<1>5. w = [i \in 0..n |-> One(w, i)]
    BY <1>4
<1>6. Evaluate(q, all, wait) = w[n]
    BY DEF Evaluate, Start
<1>7. Walk(q, all, wait, w)
    <2> HIDE DEF w
    <2> QED BY <1>1, <1>5 DEF Walk
<1> QED BY <1>6, <1>7

Walks == [all : Level, q : Seq(Entry), posts : SUBSET Tasks]

Granted(e) == [e EXCEPT !.own = TRUE, !.seen = TRUE]

Refused(e) == [e EXCEPT !.seen = TRUE]

(* An answer changes only whether the element is owned and evaluated.      *)
LEMMA AnswersAre ==
    ASSUME NEW e \in Entry
    PROVE  /\ Granted(e) \in Entry /\ Granted(e).own /\ Granted(e).seen
           /\ Refused(e) \in Entry /\ Refused(e).own = e.own /\ Refused(e).seen
           /\ \A f \in {Granted(e), Refused(e)} :
                /\ f.owner = e.owner /\ f.active = e.active /\ f.requested = e.requested
                /\ f.nested = e.nested /\ f.under = e.under
  BY DEF Entry, Granted, Refused

(* A task's own element is posted to it, a job's to its current task.      *)
LEMMA TaskOfIs == ASSUME NEW o \in Owners PROVE TaskOf(o) \in Tasks
  BY ResourceAssumption DEF TaskOf, Owners

(* What an element finds on its turn: it is an owner already, it is        *)
(* granted, or it conflicts; and what it adds to the level behind it.      *)
Turn(before, e, f, after, wait) ==
    \/ e.own /\ f = e /\ after.all = before.all /\ after.posts = before.posts
    \/ /\ ~e.own /\ before.all.lv + e.active.lv <= 4 /\ f = Granted(e)
       /\ after.all.lv = Higher(before.all.lv, e.active.lv)
       /\ after.posts = before.posts \cup (IF e.seen THEN {TaskOf(e.owner)} ELSE {})
    \/ /\ ~e.own /\ before.all.lv + e.active.lv > 4 /\ f = Refused(e)
       /\ after.all.lv = IF e.seen \/ wait THEN Higher(before.all.lv, e.active.lv)
                         ELSE before.all.lv
       /\ after.posts = before.posts

LEMMA OfferIs ==
    ASSUME NEW walk \in Walks, NEW e \in Entry, NEW wait \in BOOLEAN
    PROVE  LET next == Offer(walk, e, wait)
           IN  /\ next \in Walks
               /\ \E f \in Entry : next.q = Append(walk.q, f) /\ Turn(walk, e, f, next, wait)
<1>1. /\ walk = [all |-> walk.all, q |-> walk.q, posts |-> walk.posts]
      /\ walk.all \in Level /\ walk.q \in Seq(Entry) /\ walk.posts \in SUBSET Tasks
    BY DEF Walks
<1>2. /\ e.active \in Level /\ e.own \in BOOLEAN /\ e.seen \in BOOLEAN
      /\ Granted(e) \in Entry /\ Refused(e) \in Entry /\ e.owner \in Owners
    BY EntryIs DEF Granted, Refused
<1>3. TaskOf(e.owner) \in Tasks
    BY <1>2, TaskOfIs
<1>4. /\ Combine(walk.all, e.active) \in Level
      /\ Combine(walk.all, e.active).lv = Higher(walk.all.lv, e.active.lv)
      /\ Conflicts(walk.all, e.active) <=> walk.all.lv + e.active.lv > 4
      /\ walk.all.lv \in 0..4 /\ e.active.lv \in 0..4
    BY <1>1, <1>2, Shares
<1> DEFINE next == Offer(walk, e, wait)
<1>5. CASE e.own
    <2>1. next = [all |-> walk.all, q |-> Append(walk.q, e), posts |-> walk.posts]
        BY <1>1, <1>5 DEF Offer
    <2>2. next \in Walks
        BY <1>1, <2>1 DEF Walks
    <2>3. next.q = Append(walk.q, e) /\ Turn(walk, e, e, next, wait)
        BY <1>5, <2>1 DEF Turn
    <2> QED BY <2>2, <2>3
<1>6. CASE ~e.own /\ ~Conflicts(walk.all, e.active)
    <2>1. next = [all |-> Combine(walk.all, e.active), q |-> Append(walk.q, Granted(e)),
                  posts |-> IF e.seen THEN walk.posts \cup {TaskOf(e.owner)} ELSE walk.posts]
        BY <1>6 DEF Offer, Granted
    <2>2. next \in Walks
        BY <1>1, <1>2, <1>3, <1>4, <2>1 DEF Walks
    <2>3. next.posts = walk.posts \cup (IF e.seen THEN {TaskOf(e.owner)} ELSE {})
        BY <2>1
    <2>4. next.all.lv = Higher(walk.all.lv, e.active.lv) /\ walk.all.lv + e.active.lv <= 4
        BY <1>4, <1>6, <2>1
    <2>5. next.q = Append(walk.q, Granted(e)) /\ Turn(walk, e, Granted(e), next, wait)
        BY <1>6, <2>1, <2>3, <2>4 DEF Turn
    <2> QED BY <1>2, <2>2, <2>5
<1>7. CASE ~e.own /\ Conflicts(walk.all, e.active)
    <2>1. next = [all |-> IF e.seen \/ wait THEN Combine(walk.all, e.active) ELSE walk.all,
                  q |-> Append(walk.q, Refused(e)), posts |-> walk.posts]
        BY <1>7 DEF Offer, Refused
    <2>2. next \in Walks
        BY <1>1, <1>2, <1>4, <2>1 DEF Walks
    <2>3. /\ next.all.lv = IF e.seen \/ wait THEN Higher(walk.all.lv, e.active.lv) ELSE walk.all.lv
          /\ walk.all.lv + e.active.lv > 4
        BY <1>4, <1>7, <2>1
    <2>4. next.q = Append(walk.q, Refused(e)) /\ Turn(walk, e, Refused(e), next, wait)
        BY <1>7, <2>1, <2>3 DEF Turn
    <2> QED BY <1>2, <2>2, <2>4
<1> QED BY <1>5, <1>6, <1>7

(* An element that is heard: it is granted, or waits.                      *)
Heard(e, f, wait) == ~e.own /\ (f.own \/ e.seen \/ wait)

(* A walk up to a place has left what is before the place as it was when   *)
(* it came by; the level never falls, and is one that was heard.           *)
WalkedTo(q, all, wait, w, i) ==
    /\ w[i] \in Walks /\ Len(w[i].q) = i
    /\ \A k \in 1..i : w[i].q[k] = w[k].q[k]
    /\ \A k \in 0..i : /\ w[k].all.lv \in 0..4 /\ w[k].all.lv <= w[i].all.lv
                       /\ w[k].posts \subseteq w[i].posts
    /\ \/ w[i].all.lv = all.lv
       \/ \E k \in 1..i : Heard(q[k], w[k].q[k], wait) /\ q[k].active.lv = w[i].all.lv

LEMMA WalkGoes ==
    ASSUME NEW q \in Seq(Entry), NEW all \in Level, NEW wait \in BOOLEAN, NEW w,
           Walk(q, all, wait, w)
    PROVE  /\ \A i \in 0..Len(q) : WalkedTo(q, all, wait, w, i)
           /\ \A i \in 1..Len(q) : Turn(w[i - 1], q[i], w[i].q[i], w[i], wait)
<1> DEFINE n == Len(q)
           H == {i \in 0..n : WalkedTo(q, all, wait, w, i)}
<1>1. n \in Nat /\ \A i \in 1..n : q[i] \in Entry
    OBVIOUS
<1>2. 0 \in H
    <2>1. w[0] = [all |-> all, q |-> <<>>, posts |-> {}]
        BY DEF Walk, Start
    <2>2. w[0] \in Walks /\ Len(w[0].q) = 0 /\ w[0].all = all
        BY <2>1 DEF Walks
    <2>3. w[0].all.lv \in 0..4
        BY <2>2 DEF Walks, Level
    <2> QED BY <1>1, <2>2, <2>3 DEF WalkedTo
<1>3. ASSUME NEW i \in 1..n, WalkedTo(q, all, wait, w, i - 1)
      PROVE  WalkedTo(q, all, wait, w, i) /\ Turn(w[i - 1], q[i], w[i].q[i], w[i], wait)
    <2> DEFINE v == w[i - 1]
               e == q[i]
    <2>1. v \in Walks /\ Len(v.q) = i - 1 /\ v.q \in Seq(Entry)
        BY <1>3 DEF WalkedTo, Walks
    <2>2. w[i] = Offer(v, e, wait) /\ e \in Entry
        BY <1>1 DEF Walk
    <2>3. w[i] \in Walks /\ \E f \in Entry : w[i].q = Append(v.q, f) /\ Turn(v, e, f, w[i], wait)
        <3> HIDE DEF v, e
        <3> QED BY <2>1, <2>2, OfferIs
    <2>4. PICK f \in Entry : w[i].q = Append(v.q, f) /\ Turn(v, e, f, w[i], wait)
        BY <2>3
    <2>5. /\ Len(w[i].q) = i /\ w[i].q[i] = f
          /\ \A k \in 1..(i - 1) : w[i].q[k] = v.q[k]
        BY <2>1, <2>4
    <2>6. v.all.lv \in 0..4 /\ w[i].all.lv \in 0..4 /\ e.active.lv \in 0..4
        BY <2>1, <2>2, <2>3, EntryIs DEF Walks, Level
    <2>7. v.all.lv <= w[i].all.lv /\ v.posts \subseteq w[i].posts
        BY <2>4, <2>6 DEF Turn, Higher
    <2>8. \A k \in 1..i : w[i].q[k] = w[k].q[k]
        <3>1. \A k \in 1..(i - 1) : v.q[k] = w[k].q[k]
            BY <1>3 DEF WalkedTo
        <3> QED BY <2>5, <3>1
    <2>9. \A k \in 0..i : /\ w[k].all.lv \in 0..4 /\ w[k].all.lv <= w[i].all.lv
                          /\ w[k].posts \subseteq w[i].posts
        <3>1. ASSUME NEW k \in 0..(i - 1)
              PROVE  /\ w[k].all.lv \in 0..4 /\ w[k].all.lv <= w[i].all.lv
                     /\ w[k].posts \subseteq w[i].posts
            <4>1. /\ w[k].all.lv \in 0..4 /\ w[k].all.lv <= v.all.lv
                  /\ w[k].posts \subseteq v.posts
                BY <1>3 DEF WalkedTo
            <4> QED BY <2>6, <2>7, <4>1
        <3> QED BY <2>6, <3>1
    <2>10. \/ w[i].all.lv = all.lv
           \/ \E k \in 1..i : Heard(q[k], w[k].q[k], wait) /\ q[k].active.lv = w[i].all.lv
        <3>1. CASE w[i].all.lv = v.all.lv
            BY <1>3, <3>1 DEF WalkedTo
        <3>2. CASE w[i].all.lv # v.all.lv
            <4>1. CASE f = Granted(e) /\ ~e.own
                <5>1. f.own
                    BY <2>2, <4>1, AnswersAre
                <5>2. w[i].all.lv = e.active.lv
                    BY <2>2, <2>4, <2>6, <3>2, <4>1, AnswersAre DEF Turn, Higher
                <5> QED BY <2>5, <4>1, <5>1, <5>2 DEF Heard
            <4>2. CASE ~e.own /\ f = Refused(e) /\ (e.seen \/ wait)
                <5>1. w[i].all.lv = e.active.lv
                    BY <2>2, <2>4, <2>6, <3>2, <4>2, AnswersAre DEF Turn, Higher
                <5> QED BY <2>5, <4>2, <5>1 DEF Heard
            <4> QED BY <2>2, <2>4, <3>2, <4>1, <4>2 DEF Turn
        <3> QED BY <3>1, <3>2
    <2> QED BY <2>3, <2>4, <2>5, <2>8, <2>9, <2>10 DEF WalkedTo
<1>4. 0..n \subseteq H
    <2>1. \A i \in 1..n : i - 1 \in H => i \in H
        BY <1>1, <1>3
    <2> HIDE DEF H, n
    <2> QED BY <1>1, <1>2, <2>1, UpTo
<1> QED BY <1>1, <1>3, <1>4

(* The level a walk starts from is that of the owners on the queue.        *)
LevelOf(q, all) ==
    /\ \A k \in 1..Len(q) : q[k].own => q[k].active.lv <= all.lv
    /\ all.lv = 0 \/ \E k \in 1..Len(q) : q[k].own /\ q[k].active.lv = all.lv

(* Element for element, what a walk of q made of it, and whom it posts.    *)
Answers(q, r, posts) ==
    /\ r \in Seq(Entry) /\ Len(r) = Len(q) /\ posts \in SUBSET Tasks
    /\ \A k \in 1..Len(q) :
         /\ q[k].own => r[k] = q[k]
         /\ ~q[k].own => r[k] = Granted(q[k]) \/ r[k] = Refused(q[k])
         /\ ~q[k].own /\ r[k].own /\ q[k].seen => TaskOf(q[k].owner) \in posts

(* What is not granted is kept from it by an owner, or by an element       *)
(* before it that was granted or waits.                                    *)
KeptFrom(q, r, wait) ==
    \A k \in 1..Len(q) : ~r[k].own =>
        \E j \in 1..Len(q) : /\ j # k /\ r[j].active.lv + r[k].active.lv > 4
                             /\ q[j].own \/ (j < k /\ Heard(q[j], r[j], wait))

(* What is granted can be shared with all that was heard before it.        *)
Shareable(q, r, wait) ==
    \A i, k \in 1..Len(q) :
        i < k /\ ~q[k].own /\ r[k].own /\ (q[i].own \/ Heard(q[i], r[i], wait))
            => r[i].active.lv + r[k].active.lv <= 4

LEMMA EvaluateSettles ==
    ASSUME NEW q \in Seq(Entry), NEW all \in Level, NEW wait \in BOOLEAN,
           LevelOf(q, all), OwnersApart(q)
    PROVE  LET R == Evaluate(q, all, wait)
           IN  /\ Answers(q, R.q, R.posts) /\ OwnersApart(R.q)
               /\ KeptFrom(q, R.q, wait) /\ Shareable(q, R.q, wait)
<1> DEFINE n == Len(q)
<1>1. PICK w : Walk(q, all, wait, w) /\ Evaluate(q, all, wait) = w[n]
    BY EvaluateWalks
<1> DEFINE r == w[n].q
<1>2. n \in Nat /\ n = Len(q) /\ \A k \in 1..n : q[k] \in Entry
    OBVIOUS
<1>3. /\ \A i \in 0..n : WalkedTo(q, all, wait, w, i)
      /\ \A i \in 1..n : Turn(w[i - 1], q[i], w[i].q[i], w[i], wait)
    BY <1>1, WalkGoes
<1>4. /\ r \in Seq(Entry) /\ Len(r) = n /\ w[n].posts \in SUBSET Tasks
      /\ \A k \in 1..n : r[k] = w[k].q[k]
    BY <1>2, <1>3 DEF WalkedTo, Walks
<1>5. \A k \in 1..n : Turn(w[k - 1], q[k], r[k], w[k], wait)
    BY <1>3, <1>4
<1>6. /\ \A k \in 0..n : w[k].all.lv \in 0..4 /\ w[k].posts \subseteq w[n].posts
      /\ \A k \in 0..n, m \in 0..n : k <= m => w[k].all.lv <= w[m].all.lv
      /\ w[0].all.lv = all.lv
    <2>1. \A m \in 0..n : \A k \in 0..m : /\ w[k].all.lv \in 0..4 /\ w[k].all.lv <= w[m].all.lv
                                          /\ w[k].posts \subseteq w[m].posts
        BY <1>2, <1>3 DEF WalkedTo
    <2>2. n \in 0..n /\ \A k, m \in 0..n : k <= m => k \in 0..m
        BY <1>2
    <2>3. w[0].all.lv = all.lv
        BY <1>1 DEF Walk, Start
    <2> QED BY <2>1, <2>2, <2>3
<1>7. ASSUME NEW k \in 1..n
      PROVE  /\ q[k].active.lv \in 0..4 /\ r[k].active = q[k].active /\ r[k].own \in BOOLEAN
             /\ q[k].own => r[k] = q[k]
             /\ ~q[k].own => r[k] = Granted(q[k]) \/ r[k] = Refused(q[k])
             /\ ~q[k].own /\ r[k].own => /\ w[k - 1].all.lv + q[k].active.lv <= 4
                                         /\ q[k].seen => TaskOf(q[k].owner) \in w[n].posts
             /\ ~r[k].own => w[k - 1].all.lv + q[k].active.lv > 4
             /\ Heard(q[k], r[k], wait) => q[k].active.lv <= w[k].all.lv
    <2> DEFINE e == q[k]
               f == r[k]
    <2>1. e \in Entry /\ Turn(w[k - 1], e, f, w[k], wait)
        BY <1>2, <1>5
    <2>2. w[k].posts \subseteq w[n].posts /\ w[k].all.lv \in 0..4 /\ w[k - 1].all.lv \in 0..4
        BY <1>2, <1>6
    <2>3. /\ e.active.lv \in 0..4 /\ e.own \in BOOLEAN /\ e.seen \in BOOLEAN
          /\ Granted(e).own /\ Refused(e).own = e.own
          /\ Granted(e).active = e.active /\ Refused(e).active = e.active
        BY <2>1, EntryIs, AnswersAre
    <2> HIDE DEF e, f
    <2>4. CASE e.own /\ f = e
        <3>1. f.active = e.active /\ f.own
            BY <2>4
        <3> QED BY <2>3, <2>4, <3>1 DEF Heard, e, f
    <2>5. CASE /\ ~e.own /\ w[k - 1].all.lv + e.active.lv <= 4 /\ f = Granted(e)
               /\ w[k].all.lv = Higher(w[k - 1].all.lv, e.active.lv)
               /\ w[k].posts = w[k - 1].posts \cup (IF e.seen THEN {TaskOf(e.owner)} ELSE {})
        <3>1. f.active = e.active /\ f.own
            BY <2>3, <2>5
        <3>2. e.active.lv <= w[k].all.lv
            BY <2>2, <2>3, <2>5 DEF Higher
        <3>3. e.seen => TaskOf(e.owner) \in w[n].posts
            BY <2>2, <2>5
        <3> QED BY <2>3, <2>5, <3>1, <3>2, <3>3 DEF Heard, e, f
    <2>6. CASE /\ ~e.own /\ w[k - 1].all.lv + e.active.lv > 4 /\ f = Refused(e)
               /\ w[k].all.lv = IF e.seen \/ wait THEN Higher(w[k - 1].all.lv, e.active.lv)
                                ELSE w[k - 1].all.lv
        <3>1. f.active = e.active /\ f.own = e.own
            BY <2>3, <2>6
        <3>2. e.seen \/ wait => e.active.lv <= w[k].all.lv
            BY <2>2, <2>3, <2>6 DEF Higher
        <3> QED BY <2>3, <2>6, <3>1, <3>2 DEF Heard, e, f
    <2> QED BY <2>1, <2>4, <2>5, <2>6 DEF Turn
<1> HIDE DEF n, r
<1>14. /\ \A k \in 1..n : q[k].active.lv \in Int /\ r[k].active = q[k].active
       /\ \A k \in 0..n : w[k].all.lv \in Int
    BY <1>6, <1>7
<1>15. /\ \A k \in 1..n : ~q[k].own /\ r[k].own => w[k - 1].all.lv + q[k].active.lv <= 4
       /\ \A k \in 1..n : Heard(q[k], r[k], wait) => q[k].active.lv <= w[k].all.lv
    BY <1>7
<1>16. \A k \in 1..n : q[k].own => r[k] = q[k]
    BY <1>7
<1>17. \A k \in 1..n : ~q[k].own => r[k] = Granted(q[k]) \/ r[k] = Refused(q[k])
    BY <1>7
<1>18. \A k \in 1..n : ~q[k].own /\ r[k].own /\ q[k].seen => TaskOf(q[k].owner) \in w[n].posts
    BY <1>7, Zenon
<1>8. Answers(q, r, w[n].posts)
    BY <1>2, <1>4, <1>16, <1>17, <1>18, Zenon DEF Answers
<1>9. \A k \in 1..n : q[k].own => q[k].active.lv <= w[0].all.lv
    BY <1>2, <1>6 DEF LevelOf
<1>10. ASSUME NEW k \in 1..n, NEW i \in 1..n,
              ~q[k].own, r[k].own, q[i].own \/ (i < k /\ Heard(q[i], r[i], wait))
       PROVE  r[i].active.lv + r[k].active.lv <= 4
    <2>1. k - 1 \in 0..n /\ 0 \in 0..n /\ i \in 0..n /\ 0 <= k - 1
        BY <1>2
    <2> DEFINE x == q[i].active.lv
               z == w[k - 1].all.lv
    <2>5. x \in Int /\ z \in Int /\ w[0].all.lv \in Int /\ w[i].all.lv \in Int
        BY <1>14, <2>1
    <2>2. x <= z
        <3>1. CASE q[i].own
            <4>1. x <= w[0].all.lv /\ w[0].all.lv <= z
                BY <1>6, <1>9, <2>1, <3>1
            <4> HIDE DEF x, z
            <4> QED BY <2>5, <4>1 DEF z
        <3>2. CASE i < k /\ Heard(q[i], r[i], wait)
            <4>1. x <= w[i].all.lv /\ i <= k - 1
                BY <1>7, <3>2
            <4>2. w[i].all.lv <= z
                BY <1>6, <2>1, <4>1
            <4> HIDE DEF x, z
            <4> QED BY <2>5, <4>1, <4>2
        <3> QED BY <1>10, <3>1, <3>2
    <2>3. z + q[k].active.lv <= 4
        BY <1>10, <1>15
    <2>4. r[i].active.lv = x /\ r[k].active.lv = q[k].active.lv /\ q[k].active.lv \in Int
        BY <1>14
    <2> HIDE DEF x, z
    <2> QED BY <2>2, <2>3, <2>4, <2>5
<1>11. Shareable(q, r, wait)
    BY <1>2, <1>10 DEF Shareable
<1>12. OwnersApart(r)
    <2> SUFFICES ASSUME NEW i \in 1..n, NEW k \in 1..n, i # k, r[i].own, r[k].own
                 PROVE  r[i].active.lv + r[k].active.lv <= 4
        BY <1>2, <1>4 DEF OwnersApart
    <2>1. /\ q[i].active.lv \in 0..4 /\ q[k].active.lv \in 0..4
          /\ r[i].active = q[i].active /\ r[k].active = q[k].active
        BY <1>7
    <2>2. CASE q[i].own /\ q[k].own
        BY <1>2, <2>1, <2>2 DEF OwnersApart
    <2>3. CASE ~q[k].own /\ (q[i].own \/ i < k)
        BY <1>10, <2>3 DEF Heard
    <2>4. CASE ~q[i].own /\ (q[k].own \/ k < i)
        <3>1. r[k].active.lv + r[i].active.lv <= 4
            BY <1>10, <2>4 DEF Heard
        <3> QED BY <2>1, <3>1
    <2>5. i < k \/ k < i
        BY <1>2
    <2> QED BY <2>2, <2>3, <2>4, <2>5
<1>13. KeptFrom(q, r, wait)
    <2> DEFINE Keeps(j, k) == /\ j # k /\ r[j].active.lv + r[k].active.lv > 4
                              /\ q[j].own \/ (j < k /\ Heard(q[j], r[j], wait))
    <2> SUFFICES ASSUME NEW k \in 1..n, ~r[k].own
                 PROVE  \E j \in 1..n : Keeps(j, k)
        BY <1>2, Zenon DEF KeptFrom
    <2>1. /\ w[k - 1].all.lv + q[k].active.lv > 4 /\ w[k - 1].all.lv \in Int
          /\ q[k].active.lv \in 0..4 /\ r[k].active = q[k].active /\ k - 1 \in 0..n
        <3>1. k - 1 \in 0..n
            BY <1>2
        <3>2. w[k - 1].all.lv + q[k].active.lv > 4
            BY <1>7, Zenon
        <3> QED BY <1>7, <1>14, <3>1, <3>2
    <2>2. \/ w[k - 1].all.lv = all.lv
          \/ \E j \in 1..(k - 1) : /\ Heard(q[j], w[j].q[j], wait)
                                   /\ q[j].active.lv = w[k - 1].all.lv
        BY <1>3, <2>1 DEF WalkedTo
    <2>3. CASE w[k - 1].all.lv = all.lv
        <3>1. PICK j \in 1..n : q[j].own /\ q[j].active.lv = all.lv
            <4>1. all.lv # 0
                BY <2>1, <2>3
            <4> QED BY <1>2, <4>1, Zenon DEF LevelOf
        <3>2. r[j].own /\ r[j].active.lv = w[k - 1].all.lv
            BY <1>7, <2>3, <3>1
        <3>3. j # k
            BY <3>2
        <3> QED BY <2>1, <3>1, <3>2, <3>3
    <2>4. CASE \E j \in 1..(k - 1) : /\ Heard(q[j], w[j].q[j], wait)
                                    /\ q[j].active.lv = w[k - 1].all.lv
        <3>1. PICK j \in 1..(k - 1) : /\ Heard(q[j], w[j].q[j], wait)
                                     /\ q[j].active.lv = w[k - 1].all.lv
            BY <2>4
        <3>2. j \in 1..n /\ j < k /\ j # k
            BY <1>2
        <3>3. r[j].active.lv = w[k - 1].all.lv /\ Heard(q[j], r[j], wait)
            BY <1>4, <1>7, <3>1, <3>2
        <3> QED BY <2>1, <3>2, <3>3
    <2> QED BY <2>2, <2>3, <2>4
<1> QED BY <1>1, <1>8, <1>11, <1>12, <1>13 DEF r

(***************************************************************************)
(* The level of the owners of a queue.                                     *)
(***************************************************************************)

Another(e, o) == e.own /\ ~OwnedBy(e, o)

Levels(q, o, w) ==
    /\ w[0] = Nothing
    /\ \A i \in 1..Len(q) : w[i] = IF Another(q[i], o) THEN Combine(w[i - 1], q[i].active)
                                   ELSE w[i - 1]

(* The levels are combined one after the other.                            *)
LEMMA OwnedLevelsWalks ==
    ASSUME NEW q \in Seq(Entry), NEW o
    PROVE  \E w : Levels(q, o, w) /\ OwnedLevels(q, o) = w[Len(q)]
<1> DEFINE n == Len(q)
           One(g, i) == IF i = 0 THEN Nothing
                        ELSE IF q[i].own /\ ~OwnedBy(q[i], o) THEN Combine(g[i - 1], q[i].active)
                        ELSE g[i - 1]
           H == {k \in 0..n : \E g : g = [i \in 0..k |-> One(g, i)]}
<1>1. n \in Nat
    OBVIOUS
<1>2. 0 \in H
    <2> DEFINE g == [i \in 0..0 |-> Nothing]
    <2>1. g = [i \in 0..0 |-> One(g, i)]
        OBVIOUS
    <2> HIDE DEF g, One
    <2>2. \E f : f = [i \in 0..0 |-> One(f, i)]
        BY <2>1, Zenon
    <2> QED BY <1>1, <2>2
<1>3. ASSUME NEW k \in 1..n, k - 1 \in H PROVE k \in H
    <2>1. PICK g : g = [i \in 0..(k - 1) |-> One(g, i)]
        BY <1>3
    <2> DEFINE f == [i \in 0..k |-> IF i < k THEN g[i] ELSE One(g, k)]
    <2>2. ASSUME NEW i \in 0..k PROVE f[i] = One(f, i)
        <3>1. CASE i = 0
            <4>1. f[0] = g[0] /\ g[0] = One(g, 0)
                BY <1>1, <2>1
            <4> QED BY <3>1, <4>1
        <3>2. CASE i \in 1..(k - 1)
            <4>1. f[i] = g[i] /\ g[i] = One(g, i) /\ f[i - 1] = g[i - 1]
                BY <1>1, <2>1, <3>2
            <4> QED BY <3>2, <4>1
        <3>3. CASE i = k
            <4>1. f[k] = One(g, k) /\ f[k - 1] = g[k - 1]
                BY <1>1
            <4> QED BY <3>3, <4>1
        <3> QED BY <1>1, <3>1, <3>2, <3>3
    <2>3. f = [i \in 0..k |-> One(f, i)]
        <3>1. f = [i \in 0..k |-> f[i]]
            OBVIOUS
        <3> HIDE DEF f, One
        <3> QED BY <2>2, <3>1
    <2> HIDE DEF f, One
    <2>4. \E h : h = [i \in 0..k |-> One(h, i)]
        BY <2>3, Zenon
    <2> QED BY <1>1, <2>4
<1>4. n \in H
    <2> HIDE DEF H, n
    <2>1. 0..n \subseteq H
        BY <1>1, <1>2, <1>3, UpTo
    <2> QED BY <1>1, <2>1
<1> DEFINE w == CHOOSE g : g = [i \in 0..n |-> One(g, i)]
<1>5. w = [i \in 0..n |-> One(w, i)]
    BY <1>4
<1>6. OwnedLevels(q, o) = w[n]
    BY DEF OwnedLevels
<1>7. Levels(q, o, w)
    <2> HIDE DEF w
    <2> QED BY <1>1, <1>5 DEF Levels, Another
<1> QED BY <1>6, <1>7

(* It is the highest level of an owner that is not the caller.             *)
LEMMA OwnedLevelsIs ==
    ASSUME NEW q \in Seq(Entry), NEW o
    PROVE  LET all == OwnedLevels(q, o)
           IN  /\ all \in Level
               /\ \A k \in 1..Len(q) : Another(q[k], o) => q[k].active.lv <= all.lv
               /\ all.lv = 0 \/ \E k \in 1..Len(q) : Another(q[k], o) /\ q[k].active.lv = all.lv
<1> DEFINE n == Len(q)
<1>1. PICK w : Levels(q, o, w) /\ OwnedLevels(q, o) = w[n]
    BY OwnedLevelsWalks
<1> DEFINE Good(i) == /\ w[i] \in Level
                      /\ \A k \in 1..i : Another(q[k], o) => q[k].active.lv <= w[i].lv
                      /\ w[i].lv = 0 \/ \E k \in 1..i : Another(q[k], o) /\ q[k].active.lv = w[i].lv
           H == {i \in 0..n : Good(i)}
<1>2. n \in Nat /\ n = Len(q) /\ \A k \in 1..n : q[k] \in Entry
    OBVIOUS
<1>3. Good(0)
    BY <1>1, NothingIs DEF Levels
<1>4. ASSUME NEW i \in 1..n, Good(i - 1) PROVE Good(i)
    <2> DEFINE v == w[i - 1]
               e == q[i]
    <2>1. e.active \in Level /\ e.active.lv \in 0..4 /\ v \in Level /\ v.lv \in 0..4
        <3>1. e \in Entry /\ v \in Level
            BY <1>2, <1>4
        <3>2. \A s \in Level : s.lv \in 0..4
            BY DEF Level
        <3> HIDE DEF e, v
        <3> QED BY <3>1, <3>2, EntryIs
    <2>2. w[i] = IF Another(e, o) THEN Combine(v, e.active) ELSE v
        BY <1>1 DEF Levels
    <2>3. /\ \A k \in 1..(i - 1) : Another(q[k], o) => q[k].active.lv <= v.lv
          /\ v.lv = 0 \/ \E k \in 1..(i - 1) : Another(q[k], o) /\ q[k].active.lv = v.lv
        BY <1>4
    <2>4. \A k \in 1..i : q[k].active.lv \in 0..4
        <3>1. \A k \in 1..i : q[k] \in Entry
            BY <1>2
        <3>2. \A x \in Entry : x.active.lv \in 0..4
            BY EntryIs
        <3> QED BY <3>1, <3>2
    <2>5. CASE ~Another(e, o)
        <3>1. w[i] = v
            BY <2>2, <2>5
        <3>2. \A k \in 1..i : Another(q[k], o) => k \in 1..(i - 1)
            BY <2>5
        <3> QED BY <2>1, <2>3, <3>1, <3>2
    <2>6. CASE Another(e, o)
        <3>1. w[i] \in Level /\ w[i].lv = Higher(v.lv, e.active.lv)
            <4> HIDE DEF v, e
            <4> QED BY <2>1, <2>2, <2>6, Shares
        <3>2. v.lv <= w[i].lv /\ e.active.lv <= w[i].lv /\ w[i].lv \in {v.lv, e.active.lv}
            BY <2>1, <3>1 DEF Higher
        <3>3. ASSUME NEW k \in 1..i, Another(q[k], o) PROVE q[k].active.lv <= w[i].lv
            <4>1. CASE k = i
                BY <3>2, <4>1
            <4>2. CASE k \in 1..(i - 1)
                <5>1. q[k].active.lv <= v.lv
                    BY <2>3, <3>3, <4>2
                <5> QED BY <2>1, <2>4, <3>2, <5>1
            <4> QED BY <4>1, <4>2
        <3>4. w[i].lv = 0 \/ \E k \in 1..i : Another(q[k], o) /\ q[k].active.lv = w[i].lv
            BY <2>3, <2>6, <3>2
        <3> QED BY <3>1, <3>3, <3>4
    <2> QED BY <2>5, <2>6
<1>5. 0..n \subseteq H
    <2>1. 0 \in H /\ \A i \in 1..n : i - 1 \in H => i \in H
        <3> HIDE DEF Good
        <3> QED BY <1>2, <1>3, <1>4
    <2> HIDE DEF H, n
    <2> QED BY <1>2, <2>1, UpTo
<1>6. Good(n)
    BY <1>2, <1>5
<1> QED BY <1>1, <1>6

(***************************************************************************)
(* Elements that enter and leave a queue.                                  *)
(***************************************************************************)

LEMMA RemoveAtIs ==
    ASSUME NEW S, NEW q \in Seq(S), NEW i \in 1..Len(q)
    PROVE  /\ RemoveAt(q, i) \in Seq(S) /\ Len(RemoveAt(q, i)) = Len(q) - 1
           /\ \A k \in 1..(Len(q) - 1) : RemoveAt(q, i)[k] = IF k < i THEN q[k] ELSE q[k + 1]
<1> DEFINE a == SubSeq(q, 1, i - 1)
           b == SubSeq(q, i + 1, Len(q))
<1>1. Len(q) \in Nat /\ i \in Nat /\ i >= 1 /\ i <= Len(q)
    OBVIOUS
<1>2. a \in Seq(S) /\ Len(a) = i - 1 /\ \A k \in 1..(i - 1) : a[k] = q[k]
    BY <1>1
<1>3. b \in Seq(S) /\ Len(b) = Len(q) - i /\ \A k \in 1..(Len(q) - i) : b[k] = q[i + k]
    <2>1. CASE i = Len(q)
        BY <1>1, <2>1
    <2>2. CASE i < Len(q)
        BY <1>1, <2>2
    <2> QED BY <1>1, <2>1, <2>2
<1> HIDE DEF a, b
<1>4. /\ a \o b \in Seq(S) /\ Len(a \o b) = Len(q) - 1
      /\ \A k \in 1..(Len(q) - 1) : (a \o b)[k] = IF k <= Len(a) THEN a[k] ELSE b[k - Len(a)]
    <2>1. /\ a \o b \in Seq(S) /\ Len(a \o b) = Len(a) + Len(b)
          /\ \A k \in 1..(Len(a) + Len(b)) :
               (a \o b)[k] = IF k <= Len(a) THEN a[k] ELSE b[k - Len(a)]
        BY <1>2, <1>3, ConcatProperties
    <2>2. Len(a) + Len(b) = Len(q) - 1
        BY <1>1, <1>2, <1>3
    <2> QED BY <2>1, <2>2
<1>5. ASSUME NEW k \in 1..(Len(q) - 1)
      PROVE  (a \o b)[k] = IF k < i THEN q[k] ELSE q[k + 1]
    <2>1. CASE k < i
        BY <1>1, <1>2, <1>4, <2>1
    <2>2. CASE k >= i
        <3>1. k - Len(a) \in 1..(Len(q) - i) /\ i + (k - Len(a)) = k + 1 /\ ~(k <= Len(a))
            BY <1>1, <1>2, <2>2
        <3>2. (a \o b)[k] = b[k - Len(a)]
            BY <1>4, <3>1
        <3>3. b[k - Len(a)] = q[i + (k - Len(a))]
            BY <1>3, <3>1
        <3> QED BY <1>1, <2>2, <3>1, <3>2, <3>3
    <2>3. k < i \/ k >= i
        BY <1>1
    <2> QED BY <2>1, <2>2, <2>3
<1>6. RemoveAt(q, i) = a \o b
    BY DEF RemoveAt, a, b
<1> QED BY <1>4, <1>5, <1>6

LEMMA PrependIs ==
    ASSUME NEW S, NEW s \in Seq(S), NEW x \in S
    PROVE  /\ <<x>> \o s \in Seq(S) /\ Len(<<x>> \o s) = Len(s) + 1
           /\ (<<x>> \o s)[1] = x
           /\ \A k \in 1..Len(s) : (<<x>> \o s)[k + 1] = s[k]
           /\ \A m \in 1..(Len(s) + 1) : m = 1 \/ \E k \in 1..Len(s) : m = k + 1
<1>1. <<x>> \in Seq(S) /\ Len(<<x>>) = 1 /\ <<x>>[1] = x /\ Len(s) \in Nat
    OBVIOUS
<1>2. \A m \in 1..(Len(s) + 1) : m = 1 \/ \E k \in 1..Len(s) : m = k + 1
    <2>1. \A m \in 1..(Len(s) + 1) : m # 1 => m - 1 \in 1..Len(s) /\ m = (m - 1) + 1
        BY <1>1
    <2> QED BY <2>1
<1> QED BY <1>1, <1>2

(* Where an element is once another has left: one place further if the     *)
(* head was put back, one less if it was behind.                           *)
Shift(h, i, k) == h + IF k < i THEN k ELSE k - 1

Returns(e) == e.nested /\ e.under # <<>>

Returned(e) == WithUnder(Head(e.under), Tail(e.under))

(* The nested elements of an element, but for the latest.                  *)
LEMMA TailIs ==
    ASSUME NEW u \in Seq(Under), u # <<>>
    PROVE  /\ Len(u) \in Nat /\ Len(u) >= 1 /\ u[1] \in Under /\ Head(u) = u[1]
           /\ Tail(u) \in Seq(Under) /\ Len(Tail(u)) = Len(u) - 1
           /\ \A k \in 1..(Len(u) - 1) : Tail(u)[k] = u[k + 1]
           /\ Tail(u) = <<>> <=> Len(u) = 1
<1>1. Len(u) \in Nat /\ Len(u) >= 1 /\ u[1] \in Under /\ Head(u) = u[1]
    OBVIOUS
<1>2. /\ Tail(u) \in Seq(Under) /\ Len(Tail(u)) = Len(u) - 1
      /\ \A k \in 1..(Len(u) - 1) : Tail(u)[k] = u[k + 1]
    BY <1>1
<1>3. Tail(u) = <<>> <=> Len(Tail(u)) = 0
    BY <1>2, EmptySeq
<1> QED BY <1>1, <1>2, <1>3

(* What comes back to the head has less than what leaves had, and waits    *)
(* like any other, evaluated once.                                         *)
LEMMA ReturnedIs ==
    ASSUME NEW e, Sound(e), Returns(e)
    PROVE  /\ Sound(Returned(e)) /\ Returned(e).owner = e.owner
           /\ ~Returned(e).own /\ Returned(e).seen
           /\ Returned(e).active.lv <= e.active.lv
<1>1. PICK u : u = e.under
    OBVIOUS
<1>2. PICK x : x = Returned(e)
    OBVIOUS
<1>3. e \in Entry /\ Len(u) < Nesting /\ Stacked(e) /\ u # <<>>
    BY <1>1 DEF Sound, Returns
<1>4. u \in Seq(Under) /\ e.active.lv \in 0..4 /\ e.requested.lv \in 0..4
    BY <1>1, <1>3 DEF Entry, Level
<1>5. /\ Len(u) \in Nat /\ Len(u) >= 1 /\ u[1] \in Under /\ Head(u) = u[1]
      /\ Tail(u) \in Seq(Under) /\ Len(Tail(u)) = Len(u) - 1
      /\ \A k \in 1..(Len(u) - 1) : Tail(u)[k] = u[k + 1]
      /\ Tail(u) = <<>> <=> Len(u) = 1
    BY <1>3, <1>4, TailIs
<1>6. x = [owner |-> u[1].owner, active |-> u[1].active, own |-> u[1].own,
           requested |-> u[1].requested, nested |-> u[1].nested, seen |-> u[1].seen,
           under |-> Tail(u)]
    BY <1>1, <1>2, <1>5 DEF Returned, WithUnder
<1>7. /\ x.owner = u[1].owner /\ x.active = u[1].active /\ x.own = u[1].own
      /\ x.requested = u[1].requested /\ x.nested = u[1].nested /\ x.seen = u[1].seen
      /\ x.under = Tail(u)
    BY <1>6
<1>8. x \in Entry
    <2>1. /\ u[1].owner \in Owners /\ u[1].active \in Level /\ u[1].own \in BOOLEAN
          /\ u[1].requested \in Level /\ u[1].nested \in BOOLEAN /\ u[1].seen \in BOOLEAN
        BY <1>5 DEF Under
    <2> QED BY <1>5, <1>6, <2>1 DEF Entry
<1>9. /\ \A k \in 1..Len(u) : u[k].owner = e.owner /\ ~u[k].own /\ u[k].seen
      /\ \A k \in 1..Len(u) : u[k].active.lv = Higher(u[k].requested.lv,
                                    IF k = Len(u) THEN 0 ELSE u[k + 1].active.lv)
      /\ \A k \in 1..Len(u) : k < Len(u) => u[k].nested
      /\ e.active.lv = Higher(e.requested.lv, u[1].active.lv)
    BY <1>1, <1>3 DEF Stacked
<1>10. 1 \in 1..Len(u)
    BY <1>5
<1>11. x.owner = e.owner /\ ~x.own /\ x.seen
    BY <1>7, <1>9, <1>10
<1>12. x.active.lv <= e.active.lv
    <2>1. u[1].active.lv \in 0..4
        BY <1>5 DEF Under, Level
    <2>2. u[1].active.lv <= Higher(e.requested.lv, u[1].active.lv)
        BY <1>4, <2>1 DEF Higher
    <2> QED BY <1>7, <1>9, <2>2
<1>13. Stacked(x)
    <2> DEFINE v == Tail(u)
    <2>1. x.active.lv = Higher(x.requested.lv, IF v = <<>> THEN 0 ELSE v[1].active.lv)
        <3>1. v # <<>> => v[1] = u[2] /\ Len(u) # 1
            BY <1>5
        <3>2. u[1].active.lv = Higher(u[1].requested.lv, IF 1 = Len(u) THEN 0 ELSE u[1 + 1].active.lv)
            BY <1>9, <1>10
        <3>3. 1 + 1 = 2
            OBVIOUS
        <3> QED BY <1>5, <1>7, <3>1, <3>2, <3>3, Zenon
    <2>2. v # <<>> => x.nested
        <3>1. v # <<>> => 1 < Len(u)
            BY <1>5
        <3> QED BY <1>7, <1>9, <1>10, <3>1, Zenon
    <2>3. ASSUME NEW k \in 1..Len(v)
          PROVE  /\ v[k].owner = x.owner /\ ~v[k].own /\ v[k].seen
                 /\ v[k].active.lv = Higher(v[k].requested.lv,
                        IF k = Len(v) THEN 0 ELSE v[k + 1].active.lv)
                 /\ k < Len(v) => v[k].nested
        <3>1. k + 1 \in 1..Len(u) /\ v[k] = u[k + 1] /\ (k = Len(v) <=> k + 1 = Len(u))
              /\ (k < Len(v) => k + 1 < Len(u))
            BY <1>5
        <3>2. k # Len(v) => v[k + 1] = u[(k + 1) + 1]
            <4>1. k # Len(v) => k + 1 \in 1..(Len(u) - 1)
                <5>1. Len(v) = Len(u) - 1 /\ Len(u) \in Nat /\ Len(u) >= 1
                    BY <1>5
                <5> HIDE DEF v
                <5> QED BY <5>1
            <4> QED BY <1>5, <4>1, Zenon
        <3>3. /\ u[k + 1].owner = e.owner /\ ~u[k + 1].own /\ u[k + 1].seen
              /\ u[k + 1].active.lv = Higher(u[k + 1].requested.lv,
                    IF k + 1 = Len(u) THEN 0 ELSE u[(k + 1) + 1].active.lv)
              /\ k + 1 < Len(u) => u[k + 1].nested
            BY <1>9, <3>1
        <3> HIDE DEF v
        <3> QED BY <1>11, <3>1, <3>2, <3>3, Zenon
    <2>4. x.under = v
        BY <1>7
    <2> HIDE DEF v
    <2> QED BY <2>1, <2>2, <2>3, <2>4 DEF Stacked
<1>14. Len(x.under) < Nesting
    BY <1>3, <1>5, <1>7, ResourceAssumption
<1> QED BY <1>2, <1>8, <1>11, <1>12, <1>13, <1>14 DEF Sound

Head1(e) == IF Returns(e) THEN 1 ELSE 0

(* The others keep their order when an element leaves; one that was nested *)
(* over comes back before them.                                            *)
LEMMA DequeueIs ==
    ASSUME NEW q \in Seq(Entry), NEW i \in 1..Len(q), Sound(q[i])
    PROVE  LET d == DequeueElement(q, i)
               h == Head1(q[i])
           IN  /\ d \in Seq(Entry) /\ Len(d) = Len(q) - 1 + h
               /\ \A k \in 1..Len(q) : k # i => /\ Shift(h, i, k) \in 1..Len(d)
                                               /\ d[Shift(h, i, k)] = q[k]
               /\ Returns(q[i]) => d[1] = Returned(q[i])
               /\ \A m \in 1..Len(d) : \/ Returns(q[i]) /\ m = 1
                                       \/ \E k \in 1..Len(q) : k # i /\ m = Shift(h, i, k)
<1> DEFINE n == Len(q)
           r == RemoveAt(q, i)
<1>1. /\ n \in Nat /\ i \in 1..n /\ r \in Seq(Entry) /\ Len(r) = n - 1
      /\ \A k \in 1..(n - 1) : r[k] = IF k < i THEN q[k] ELSE q[k + 1]
    BY RemoveAtIs
<1> DEFINE At(k) == IF k < i THEN k ELSE k - 1
<1>2. \A k \in 1..n : k # i => At(k) \in 1..(n - 1) /\ r[At(k)] = q[k]
    <2>1. ASSUME NEW k \in 1..n, k # i PROVE At(k) \in 1..(n - 1) /\ r[At(k)] = q[k]
        <3> HIDE DEF n, r
        <3>1. CASE k < i
            BY <1>1, <3>1
        <3>2. CASE k > i
            <4>1. k - 1 \in 1..(n - 1) /\ ~(k < i) /\ ~(k - 1 < i) /\ (k - 1) + 1 = k
                BY <1>1, <3>2
            <4> QED BY <1>1, <4>1
        <3> QED BY <1>1, <2>1, <3>1, <3>2
    <2> QED BY <2>1
<1>3. \A m \in 1..(n - 1) : \E k \in 1..n : k # i /\ m = At(k)
    <2> SUFFICES ASSUME NEW m \in 1..(n - 1) PROVE \E k \in 1..n : k # i /\ m = At(k)
        OBVIOUS
    <2> HIDE DEF n
    <2>1. CASE m < i
        <3>1. m \in 1..n /\ m # i /\ m = At(m)
            BY <1>1, <2>1
        <3> QED BY <3>1
    <2>2. CASE m >= i
        <3>1. m + 1 \in 1..n /\ m + 1 # i /\ m = At(m + 1)
            BY <1>1, <2>2
        <3> QED BY <3>1
    <2> QED BY <1>1, <2>1, <2>2
<1>4. CASE ~Returns(q[i])
    <2>1. DequeueElement(q, i) = r /\ Head1(q[i]) = 0
        <3>1. r = <<>> \o r
            BY <1>1, ConcatEmptySeq
        <3> QED BY <1>4, <3>1 DEF DequeueElement, Returns, Head1
    <2>2. \A k \in 1..n : Shift(0, i, k) = At(k)
        BY <1>1 DEF Shift
    <2> HIDE DEF r, At, n
    <2> QED BY <1>1, <1>2, <1>3, <1>4, <2>1, <2>2 DEF n
<1>5. CASE Returns(q[i])
    <2> DEFINE x == Returned(q[i])
               d == <<x>> \o r
    <2>1. DequeueElement(q, i) = d /\ Head1(q[i]) = 1
        BY <1>5 DEF DequeueElement, Returns, Head1, Returned
    <2>2. x \in Entry
        BY <1>5, ReturnedIs DEF Sound
    <2>3. /\ d \in Seq(Entry) /\ Len(d) = Len(r) + 1 /\ d[1] = x
          /\ \A k \in 1..Len(r) : d[k + 1] = r[k]
          /\ \A m \in 1..(Len(r) + 1) : m = 1 \/ \E k \in 1..Len(r) : m = k + 1
        <3> HIDE DEF x, r
        <3> QED BY <1>1, <2>2, PrependIs
    <2> HIDE DEF d, r, x, n
    <2>4. \A k \in 1..n : k # i => Shift(1, i, k) = At(k) + 1
        BY <1>1 DEF Shift
    <2> HIDE DEF At
    <2>5. Len(d) = n
        BY <1>1, <2>3
    <2>6. \A k \in 1..n : k # i => Shift(1, i, k) \in 1..n /\ d[Shift(1, i, k)] = q[k]
        <3> SUFFICES ASSUME NEW k \in 1..n, k # i
                     PROVE  Shift(1, i, k) \in 1..n /\ d[Shift(1, i, k)] = q[k]
            OBVIOUS
        <3>1. At(k) \in 1..(n - 1) /\ r[At(k)] = q[k] /\ Shift(1, i, k) = At(k) + 1
            BY <1>2, <2>4
        <3>2. At(k) + 1 \in 1..n
            BY <1>1, <3>1
        <3>3. d[At(k) + 1] = r[At(k)]
            BY <1>1, <2>3, <3>1
        <3> QED BY <3>1, <3>2, <3>3
    <2>7. \A m \in 1..n : m = 1 \/ \E k \in 1..n : k # i /\ m = Shift(1, i, k)
        <3> SUFFICES ASSUME NEW m \in 1..n, m # 1
                     PROVE  \E k \in 1..n : k # i /\ m = Shift(1, i, k)
            OBVIOUS
        <3>1. m - 1 \in 1..(n - 1) /\ m = (m - 1) + 1
            BY <1>1
        <3>2. PICK k \in 1..n : k # i /\ m - 1 = At(k)
            BY <1>3, <3>1
        <3>3. Shift(1, i, k) = m
            BY <2>4, <3>1, <3>2
        <3> QED BY <3>2, <3>3
    <2>8. n - 1 + 1 = n
        BY <1>1
    <2> QED BY <1>5, <2>1, <2>3, <2>5, <2>6, <2>7, <2>8 DEF n, x
<1> QED BY <1>4, <1>5

(* Of the others nothing changes, and the caller owns nothing.             *)
OthersStay(q, p, o) ==
    /\ \A k \in 1..Len(q) : q[k].owner # o => \E m \in 1..Len(p) : p[m] = q[k]
    /\ \A m \in 1..Len(p) : p[m].owner # o => \E k \in 1..Len(q) : p[m] = q[k]
    /\ \A m \in 1..Len(p) : p[m].owner = o => ~p[m].own

(* An element leaves: a queue is left, the others are on it as before.     *)
LEMMA Leaving ==
    ASSUME NEW q, Queue(q), Evaluated(q), NEW i \in 1..Len(q)
    PROVE  LET d == DequeueElement(q, i)
           IN  Queue(d) /\ Evaluated(d) /\ OthersStay(q, d, q[i].owner)
<1> DEFINE n == Len(q)
           d == DequeueElement(q, i)
           h == Head1(q[i])
           S(k) == Shift(h, i, k)
<1>1. q \in Seq(Entry) /\ n \in Nat /\ i \in 1..n /\ \A k \in 1..n : Sound(q[k]) /\ q[k].seen
    BY DEF Queue, Evaluated
<1>2. /\ d \in Seq(Entry) /\ Len(d) \in Nat /\ h \in 0..1
      /\ \A k \in 1..n : k # i => S(k) \in 1..Len(d) /\ d[S(k)] = q[k]
      /\ Returns(q[i]) => d[1] = Returned(q[i])
      /\ \A m \in 1..Len(d) : \/ Returns(q[i]) /\ m = 1
                              \/ \E k \in 1..n : k # i /\ m = S(k)
    <2>1. h \in 0..1
        BY DEF Head1
    <2>2. d \in Seq(Entry)
        BY <1>1, DequeueIs
    <2>3. Len(d) \in Nat
        BY <2>2
    <2>4. \A k \in 1..n : k # i => S(k) \in 1..Len(d) /\ d[S(k)] = q[k]
        BY <1>1, DequeueIs
    <2>5. Returns(q[i]) => d[1] = Returned(q[i])
        BY <1>1, DequeueIs
    <2>6. \A m \in 1..Len(d) : \/ Returns(q[i]) /\ m = 1
                               \/ \E k \in 1..n : k # i /\ m = S(k)
        <3>1. q \in Seq(Entry) /\ Sound(q[i])
            BY <1>1
        <3> QED BY <3>1, DequeueIs, Zenon
    <2> QED BY <2>1, <2>2, <2>3, <2>4, <2>5, <2>6
<1>3. Returns(q[i]) => /\ Sound(d[1]) /\ d[1].owner = q[i].owner
                       /\ ~d[1].own /\ d[1].seen
    BY <1>1, <1>2, ReturnedIs
<1> HIDE DEF d, h, S
<1>4. \A k \in 1..n : k # i => q[k].owner # q[i].owner
    BY <1>1 DEF Queue, OneEach
<1>5. ASSUME NEW m \in 1..Len(d)
      PROVE  /\ Sound(d[m]) /\ d[m].seen
             /\ \/ Returns(q[i]) /\ m = 1 /\ d[m].owner = q[i].owner /\ ~d[m].own
                \/ \E k \in 1..n : k # i /\ m = S(k) /\ d[m] = q[k]
    <2>1. CASE Returns(q[i]) /\ m = 1
        <3>1. d[m] = d[1]
            BY <2>1
        <3>2. /\ Sound(d[m]) /\ d[m].owner = q[i].owner
              /\ ~d[m].own /\ d[m].seen
            BY <1>3, <2>1, <3>1, Zenon
        <3> QED BY <2>1, <3>2, Zenon
    <2>2. CASE \E k \in 1..n : k # i /\ m = S(k)
        BY <1>1, <1>2, <2>2
    <2> QED BY <1>2, <2>1, <2>2
<1>6. OneEach(d)
    <2> SUFFICES ASSUME NEW m \in 1..Len(d), NEW l \in 1..Len(d), d[m].owner = d[l].owner
                 PROVE  m = l
        BY DEF OneEach
    <2>1. CASE d[m].owner = q[i].owner
        <3>1. m = 1 /\ l = 1
            BY <1>4, <1>5, <2>1
        <3> QED BY <3>1
    <2>2. CASE d[m].owner # q[i].owner
        <3>1. PICK k \in 1..n : k # i /\ m = S(k) /\ d[m] = q[k]
            BY <1>5, <2>2
        <3>2. PICK j \in 1..n : j # i /\ l = S(j) /\ d[l] = q[j]
            BY <1>5, <2>2
        <3>3. k = j
            BY <3>1, <3>2 DEF Queue, OneEach
        <3> QED BY <3>1, <3>2, <3>3
    <2> QED BY <2>1, <2>2
<1>7. Queue(d) /\ Evaluated(d)
    BY <1>2, <1>5, <1>6 DEF Queue, Evaluated
<1>8. OthersStay(q, d, q[i].owner)
    <2>1. \A k \in 1..n : q[k].owner # q[i].owner => \E m \in 1..Len(d) : d[m] = q[k]
        BY <1>2
    <2>2. \A m \in 1..Len(d) : d[m].owner # q[i].owner => \E k \in 1..n : d[m] = q[k]
        BY <1>5
    <2>3. \A m \in 1..Len(d) : d[m].owner = q[i].owner => ~d[m].own
        BY <1>4, <1>5
    <2> QED BY <2>1, <2>2, <2>3 DEF OthersStay
<1> QED BY <1>7, <1>8 DEF d

(* What is left of the owners can still be shared, and the level taken     *)
(* before the caller's element moved is that of the owners left.           *)
LEMMA LevelsAfter ==
    ASSUME NEW q, Queue(q), OwnersApart(q), NEW p, Queue(p), NEW o, OthersStay(q, p, o)
    PROVE  /\ OwnersApart(p)
           /\ OwnedLevels(q, o) \in Level /\ LevelOf(p, OwnedLevels(q, o))
           /\ OwnedLevels(p, o) \in Level /\ LevelOf(p, OwnedLevels(p, o))
<1>1. q \in Seq(Entry) /\ p \in Seq(Entry)
    BY DEF Queue
<1>2. \A m \in 1..Len(p) : p[m].own => \E k \in 1..Len(q) : p[m] = q[k] /\ Another(q[k], o)
    <2> SUFFICES ASSUME NEW m \in 1..Len(p), p[m].own
                 PROVE  \E k \in 1..Len(q) : p[m] = q[k] /\ Another(q[k], o)
        OBVIOUS
    <2>1. p[m].owner # o
        BY DEF OthersStay
    <2>2. PICK k \in 1..Len(q) : p[m] = q[k]
        BY <2>1 DEF OthersStay
    <2>3. Another(q[k], o)
        BY <2>1, <2>2 DEF Another, OwnedBy
    <2> QED BY <2>2, <2>3
<1>3. OwnersApart(p)
    <2> SUFFICES ASSUME NEW m \in 1..Len(p), NEW l \in 1..Len(p), m # l, p[m].own, p[l].own
                 PROVE  p[m].active.lv + p[l].active.lv <= 4
        BY DEF OwnersApart
    <2>1. PICK k \in 1..Len(q) : p[m] = q[k]
        BY <1>2
    <2>2. PICK j \in 1..Len(q) : p[l] = q[j]
        BY <1>2
    <2>3. k # j
        BY <2>1, <2>2 DEF Queue, OneEach
    <2> QED BY <2>1, <2>2, <2>3 DEF OwnersApart
<1>4. OwnedLevels(q, o) \in Level /\ LevelOf(p, OwnedLevels(q, o))
    <2> DEFINE all == OwnedLevels(q, o)
    <2>1. /\ all \in Level
          /\ \A k \in 1..Len(q) : Another(q[k], o) => q[k].active.lv <= all.lv
          /\ all.lv = 0 \/ \E k \in 1..Len(q) : Another(q[k], o) /\ q[k].active.lv = all.lv
        BY <1>1, OwnedLevelsIs
    <2> HIDE DEF all
    <2>2. \A m \in 1..Len(p) : p[m].own => p[m].active.lv <= all.lv
        BY <1>2, <2>1
    <2>3. all.lv = 0 \/ \E m \in 1..Len(p) : p[m].own /\ p[m].active.lv = all.lv
        <3>1. CASE \E k \in 1..Len(q) : Another(q[k], o) /\ q[k].active.lv = all.lv
            <4>1. PICK k \in 1..Len(q) : Another(q[k], o) /\ q[k].active.lv = all.lv
                BY <3>1
            <4>2. PICK m \in 1..Len(p) : p[m] = q[k]
                BY <4>1 DEF OthersStay, Another, OwnedBy
            <4> QED BY <4>1, <4>2 DEF Another
        <3> QED BY <2>1, <3>1
    <2> QED BY <2>1, <2>2, <2>3 DEF LevelOf, all
<1>5. OwnedLevels(p, o) \in Level /\ LevelOf(p, OwnedLevels(p, o))
    <2> DEFINE all == OwnedLevels(p, o)
    <2>1. /\ all \in Level
          /\ \A k \in 1..Len(p) : Another(p[k], o) => p[k].active.lv <= all.lv
          /\ all.lv = 0 \/ \E k \in 1..Len(p) : Another(p[k], o) /\ p[k].active.lv = all.lv
        BY <1>1, OwnedLevelsIs
    <2> HIDE DEF all
    <2>2. \A m \in 1..Len(p) : p[m].own => Another(p[m], o)
        BY DEF OthersStay, Another, OwnedBy
    <2>3. \A m \in 1..Len(p) : p[m].own => p[m].active.lv <= all.lv
        BY <2>1, <2>2
    <2>4. all.lv = 0 \/ \E m \in 1..Len(p) : p[m].own /\ p[m].active.lv = all.lv
        BY <2>1 DEF Another
    <2> QED BY <2>1, <2>3, <2>4 DEF LevelOf, all
<1> QED BY <1>3, <1>4, <1>5

(* Where an owner's element is.                                            *)
LEMMA MineIs ==
    ASSUME NEW q \in Seq(Entry), NEW o
    PROVE  /\ Mine(q, o) = 0 => \A k \in 1..Len(q) : q[k].owner # o
           /\ Mine(q, o) # 0 => Mine(q, o) \in 1..Len(q) /\ q[Mine(q, o)].owner = o
<1>1. DOMAIN q = 1..Len(q) /\ Len(q) \in Nat
    OBVIOUS
<1>2. CASE \E k \in 1..Len(q) : q[k].owner = o
    <2>1. Mine(q, o) = CHOOSE k \in 1..Len(q) : q[k].owner = o
        BY <1>1, <1>2 DEF Mine, OwnedBy
    <2>2. Mine(q, o) \in 1..Len(q) /\ q[Mine(q, o)].owner = o
        BY <1>2, <2>1
    <2> QED BY <1>1, <2>2
<1>3. CASE \A k \in 1..Len(q) : q[k].owner # o
    <2>1. Mine(q, o) = 0
        BY <1>1, <1>3 DEF Mine, OwnedBy
    <2> QED BY <1>3, <2>1
<1> QED BY <1>2, <1>3

(* It is there if there is one, and nowhere else.                          *)
LEMMA MineAt ==
    ASSUME NEW q, Queue(q), NEW k \in 1..Len(q)
    PROVE  Mine(q, q[k].owner) = k
<1>1. q \in Seq(Entry)
    BY DEF Queue
<1>2. Mine(q, q[k].owner) \in 1..Len(q) /\ q[Mine(q, q[k].owner)].owner = q[k].owner
    BY <1>1, MineIs
<1> QED BY <1>2 DEF Queue, OneEach

(***************************************************************************)
(* What a supervisor call makes of a queue.                                *)
(***************************************************************************)

Bars(s, m, k) == /\ k # m /\ (k < m \/ s[k].own)
                 /\ s[k].active.lv + s[m].active.lv > 4

OthersBarred(s, o) ==
    \A m \in 1..Len(s) : ~s[m].own /\ s[m].owner # o => \E k \in 1..Len(s) : Bars(s, m, k)

(* The others are there; they own what they owned, and who is granted      *)
(* something is posted.                                                    *)
OthersThere(q, s, posts, o) ==
    \A k \in 1..Len(q) : q[k].owner # o =>
        \E m \in 1..Len(s) :
            /\ s[m].owner = q[k].owner
            /\ q[k].own => s[m].own
            /\ ~q[k].own /\ s[m].own => TaskOf(q[k].owner) \in posts

OthersFrom(q, s, o) ==
    \A m \in 1..Len(s) : s[m].owner # o => \E k \in 1..Len(q) : q[k].owner = s[m].owner

OwnsIn(q, o) == \E k \in 1..Len(q) : q[k].owner = o /\ q[k].own

(* A new owner can share with all others before it.                        *)
NoneOvertaken(q, s, o) ==
    \A k \in 1..Len(s) : s[k].own /\ ~OwnsIn(q, s[k].owner) =>
        \A i \in 1..(k - 1) : s[i].owner # o => s[i].active.lv + s[k].active.lv <= 4

Fine(s) == Queue(s) /\ Evaluated(s) /\ OwnersApart(s)

Settles(q, s, posts, o) ==
    /\ Fine(s) /\ OthersThere(q, s, posts, o) /\ OthersFrom(q, s, o)
    /\ NoneOvertaken(q, s, o) /\ OthersBarred(s, o)

(***************************************************************************)
(* A request enters a queue.                                               *)
(***************************************************************************)

(* A new element that nests over nothing.                                  *)
LEMMA NewIs ==
    ASSUME NEW o \in Owners, NEW share \in Level, NEW nested \in BOOLEAN
    PROVE  LET e == New(o, share, nested, share, <<>>)
           IN  Sound(e) /\ e.owner = o /\ ~e.own /\ ~e.seen
<1>1. PICK e : e = New(o, share, nested, share, <<>>)
    OBVIOUS
<1>2. e = [owner |-> o, active |-> share, own |-> FALSE, requested |-> share,
           nested |-> nested, seen |-> FALSE, under |-> <<>>]
    BY <1>1 DEF New
<1>3. <<>> \in Seq(Under) /\ Len(<<>>) = 0 /\ share.lv \in 0..4
    BY DEF Level
<1>4. e \in Entry
    BY <1>2, <1>3 DEF Entry
<1>5. /\ e.owner = o /\ ~e.own /\ ~e.seen /\ e.under = <<>>
      /\ e.active = share /\ e.requested = share
    BY <1>2
<1>6. Len(e.under) < Nesting
    BY <1>3, <1>5, ResourceAssumption
<1>7. Stacked(e)
    <2>1. share.lv = Higher(share.lv, 0)
        BY <1>3 DEF Higher
    <2>2. 1..Len(e.under) = {}
        BY <1>3, <1>5
    <2> QED BY <1>5, <2>1, <2>2 DEF Stacked
<1> QED BY <1>1, <1>4, <1>5, <1>6, <1>7 DEF Sound

(* A new element that nests over another: the level of both.               *)
LEMMA NestedIs ==
    ASSUME NEW e, Sound(e), e.seen, NEW share \in Level, Len(e.under) + 2 <= Nesting
    PROVE  LET old == [WithoutUnder(e) EXCEPT !.own = FALSE]
               x == New(e.owner, share, TRUE, Combine(share, old.active), <<old>> \o e.under)
           IN  Sound(x) /\ x.owner = e.owner /\ ~x.own /\ ~x.seen
<1>1. PICK u : u = e.under
    OBVIOUS
<1>2. PICK old : old = [WithoutUnder(e) EXCEPT !.own = FALSE]
    OBVIOUS
<1>3. PICK v : v = <<old>> \o u
    OBVIOUS
<1>4. PICK x : x = New(e.owner, share, TRUE, Combine(share, old.active), v)
    OBVIOUS
<1>5. /\ e.owner \in Owners /\ e.active \in Level /\ e.requested \in Level
      /\ e.nested \in BOOLEAN /\ e.seen \in BOOLEAN /\ u \in Seq(Under)
      /\ Stacked(e) /\ Len(u) + 2 <= Nesting /\ Len(u) \in Nat
    <2>1. e \in Entry /\ Stacked(e)
        BY DEF Sound
    <2>2. /\ e.owner \in Owners /\ e.active \in Level /\ e.requested \in Level
          /\ e.nested \in BOOLEAN /\ e.seen \in BOOLEAN /\ e.under \in Seq(Under)
        BY <2>1, EntryIs
    <2>3. Len(e.under) \in Nat
        BY <2>2
    <2> QED BY <1>1, <2>1, <2>2, <2>3, Zenon
<1>6. old = [owner |-> e.owner, active |-> e.active, own |-> FALSE, requested |-> e.requested,
             nested |-> e.nested, seen |-> e.seen]
    BY <1>2 DEF WithoutUnder
<1>7. /\ old.owner = e.owner /\ old.active = e.active /\ ~old.own
      /\ old.requested = e.requested /\ old.nested = e.nested /\ old.seen = e.seen
    BY <1>6
<1>8. old \in Under
    BY <1>5, <1>6 DEF Under
<1>9. /\ v \in Seq(Under) /\ Len(v) = Len(u) + 1 /\ v[1] = old
      /\ \A k \in 1..Len(u) : v[k + 1] = u[k]
      /\ \A m \in 1..(Len(u) + 1) : m = 1 \/ \E k \in 1..Len(u) : m = k + 1
    BY <1>3, <1>5, <1>8, PrependIs
<1>10. /\ Combine(share, old.active) \in Level
       /\ Combine(share, old.active).lv = Higher(share.lv, old.active.lv)
    BY <1>5, <1>7, Shares
<1>11. x = [owner |-> e.owner, active |-> Combine(share, old.active), own |-> FALSE,
            requested |-> share, nested |-> TRUE, seen |-> FALSE, under |-> v]
    BY <1>4 DEF New
<1>12. /\ x.owner = e.owner /\ x.active = Combine(share, old.active) /\ ~x.own
       /\ x.requested = share /\ x.nested /\ ~x.seen /\ x.under = v
    BY <1>11
<1>13. x \in Entry
    BY <1>5, <1>9, <1>10, <1>11 DEF Entry
<1>14. Len(x.under) < Nesting
    BY <1>5, <1>9, <1>12, ResourceAssumption
<1>15. /\ \A k \in 1..Len(u) : u[k].owner = e.owner /\ ~u[k].own /\ u[k].seen
       /\ \A k \in 1..Len(u) : u[k].active.lv = Higher(u[k].requested.lv,
                                    IF k = Len(u) THEN 0 ELSE u[k + 1].active.lv)
       /\ \A k \in 1..Len(u) : k < Len(u) => u[k].nested
       /\ e.active.lv = Higher(e.requested.lv, IF u = <<>> THEN 0 ELSE u[1].active.lv)
       /\ u # <<>> => e.nested
    BY <1>1, <1>5 DEF Stacked
<1>16. u = <<>> <=> Len(u) = 0
    BY <1>5, EmptySeq
<1>17. Stacked(x)
    <2>1. x.active.lv = Higher(x.requested.lv, IF v = <<>> THEN 0 ELSE v[1].active.lv)
        <3>1. v # <<>>
            BY <1>5, <1>9
        <3> QED BY <1>9, <1>10, <1>12, <3>1
    <2>2. ASSUME NEW m \in 1..Len(v)
          PROVE  /\ v[m].owner = x.owner /\ ~v[m].own /\ v[m].seen
                 /\ v[m].active.lv = Higher(v[m].requested.lv,
                        IF m = Len(v) THEN 0 ELSE v[m + 1].active.lv)
                 /\ m < Len(v) => v[m].nested
        <3>1. CASE m = 1
            <4>1. v[m] = old
                BY <1>9, <3>1
            <4>2. /\ (m = Len(v) <=> Len(u) = 0) /\ (m < Len(v) => Len(u) # 0)
                  /\ (Len(u) # 0 => v[m + 1] = u[1])
                BY <1>5, <1>9, <3>1
            <4>3. old.active.lv = Higher(old.requested.lv,
                        IF m = Len(v) THEN 0 ELSE v[m + 1].active.lv)
                BY <1>7, <1>15, <1>16, <4>2
            <4>4. m < Len(v) => old.nested
                BY <1>7, <1>15, <1>16, <4>2
            <4>5. old.owner = x.owner /\ ~old.own /\ old.seen
                BY <1>7, <1>12
            <4> QED BY <4>1, <4>3, <4>4, <4>5, Zenon
        <3>2. CASE m # 1
            <4>1. PICK k \in 1..Len(u) : m = k + 1
                BY <1>9, <3>2
            <4>2. /\ v[m] = u[k] /\ (m = Len(v) <=> k = Len(u)) /\ (m < Len(v) => k < Len(u))
                  /\ (k # Len(u) => v[m + 1] = u[k + 1])
                <5>1. k # Len(u) => k + 1 \in 1..Len(u)
                    BY <1>5
                <5> QED BY <1>5, <1>9, <4>1, <5>1
            <4>3. u[k].active.lv = Higher(u[k].requested.lv,
                        IF m = Len(v) THEN 0 ELSE v[m + 1].active.lv)
                BY <1>15, <4>2
            <4>4. m < Len(v) => u[k].nested
                BY <1>15, <4>2
            <4>5. u[k].owner = x.owner /\ ~u[k].own /\ u[k].seen
                BY <1>12, <1>15
            <4> QED BY <4>2, <4>3, <4>4, <4>5, Zenon
        <3> QED BY <3>1, <3>2
    <2> QED BY <1>12, <2>1, <2>2, Zenon DEF Stacked
<1>18. Sound(x) /\ x.owner = e.owner /\ ~x.own /\ ~x.seen
    BY <1>12, <1>13, <1>14, <1>17 DEF Sound
<1> QED BY <1>1, <1>2, <1>3, <1>4, <1>18

(* The caller has one new element on the queue, and the others theirs.     *)
Entered(q, p, o) ==
    /\ Queue(p) /\ OthersStay(q, p, o)
    /\ \E m \in 1..Len(p) : p[m].owner = o
    /\ \A m \in 1..Len(p) : p[m].owner = o => ~p[m].seen
    /\ \A m \in 1..Len(p) : p[m].owner # o => p[m].seen

(* It is at place a, and the others' elements where at says.               *)
Comes(q, p, o, a, at) ==
    /\ p \in Seq(Entry) /\ a \in 1..Len(p)
    /\ Sound(p[a]) /\ p[a].owner = o /\ ~p[a].own /\ ~p[a].seen
    /\ \A m \in 1..Len(p) : m # a =>
          \E k \in 1..Len(q) : q[k].owner # o /\ p[m] = q[k] /\ m = at[k]
    /\ \A k \in 1..Len(q) : q[k].owner # o => at[k] \in 1..Len(p) /\ p[at[k]] = q[k]

LEMMA EnteredBy ==
    ASSUME NEW q, Queue(q), Evaluated(q), NEW o, NEW p, NEW a, NEW at, Comes(q, p, o, a, at)
    PROVE  Entered(q, p, o)
<1>0. /\ p \in Seq(Entry) /\ a \in 1..Len(p)
      /\ Sound(p[a]) /\ p[a].owner = o /\ ~p[a].own /\ ~p[a].seen
      /\ \A m \in 1..Len(p) : m # a =>
            \E k \in 1..Len(q) : q[k].owner # o /\ p[m] = q[k] /\ m = at[k]
      /\ \A k \in 1..Len(q) : q[k].owner # o => at[k] \in 1..Len(p) /\ p[at[k]] = q[k]
    BY Zenon DEF Comes
<1>1. ASSUME NEW m \in 1..Len(p), m # a
      PROVE  Sound(p[m]) /\ p[m].seen /\ p[m].owner # o
    <2>1. PICK k \in 1..Len(q) : q[k].owner # o /\ p[m] = q[k]
        BY <1>0, <1>1
    <2>2. Sound(q[k]) /\ q[k].seen
        BY DEF Queue, Evaluated
    <2> QED BY <2>1, <2>2
<1>2. \A m \in 1..Len(p) : Sound(p[m])
    BY <1>0, <1>1
<1>3. OneEach(p)
    <2> SUFFICES ASSUME NEW m \in 1..Len(p), NEW l \in 1..Len(p), p[m].owner = p[l].owner
                 PROVE  m = l
        BY DEF OneEach
    <2>1. CASE m = a \/ l = a
        BY <1>0, <1>1, <2>1
    <2>2. CASE m # a /\ l # a
        <3>1. PICK k \in 1..Len(q) : p[m] = q[k] /\ m = at[k]
            BY <1>0, <2>2
        <3>2. PICK j \in 1..Len(q) : p[l] = q[j] /\ l = at[j]
            BY <1>0, <2>2
        <3>3. k = j
            BY <3>1, <3>2 DEF Queue, OneEach
        <3> QED BY <3>1, <3>2, <3>3
    <2> QED BY <2>1, <2>2
<1>4. OthersStay(q, p, o)
    <2>1. \A k \in 1..Len(q) : q[k].owner # o => \E m \in 1..Len(p) : p[m] = q[k]
        BY <1>0
    <2>2. \A m \in 1..Len(p) : p[m].owner # o => \E k \in 1..Len(q) : p[m] = q[k]
        BY <1>0
    <2>3. \A m \in 1..Len(p) : p[m].owner = o => m = a
        BY <1>0, <1>1
    <2>4. \A m \in 1..Len(p) : p[m].owner = o => ~p[m].own
        BY <1>0, <2>3
    <2> QED BY <2>1, <2>2, <2>4 DEF OthersStay
<1>5. /\ \E m \in 1..Len(p) : p[m].owner = o
      /\ \A m \in 1..Len(p) : p[m].owner = o => ~p[m].seen
      /\ \A m \in 1..Len(p) : p[m].owner # o => p[m].seen
    BY <1>0, <1>1
<1> QED BY <1>0, <1>2, <1>3, <1>4, <1>5 DEF Entered, Queue

(* A request in any of its three ways.                                     *)
LEMMA Entering ==
    ASSUME NEW q, Queue(q), Evaluated(q), NEW o \in Owners, NEW share \in Level,
           NEW nested \in BOOLEAN,
           Mine(q, o) # 0 => IF nested THEN Len(q[Mine(q, o)].under) + 2 <= Nesting
                             ELSE ~q[Mine(q, o)].nested
    PROVE  Entered(q, EnqueueElement(q, o, share, nested), o)
<1> DEFINE i == Mine(q, o)
           n == Len(q)
           p == EnqueueElement(q, o, share, nested)
<1>1. /\ q \in Seq(Entry) /\ n \in Nat
      /\ i = 0 => \A k \in 1..n : q[k].owner # o
      /\ i # 0 => i \in 1..n /\ q[i].owner = o
    BY MineIs DEF Queue
<1>2. \A k \in 1..n : k # i /\ i # 0 => q[k].owner # o
    BY <1>1 DEF Queue, OneEach
<1>3. CASE i = 0
    <2>1. PICK x : x = New(o, share, nested, share, <<>>)
        OBVIOUS
    <2>2. Sound(x) /\ x.owner = o /\ ~x.own /\ ~x.seen /\ x \in Entry
        BY <2>1, NewIs DEF Sound
    <2>3. p = Append(q, x)
        BY <1>3, <2>1 DEF EnqueueElement
    <2> HIDE DEF p
    <2>4. /\ p \in Seq(Entry) /\ Len(p) = n + 1 /\ p[n + 1] = x
          /\ \A k \in 1..n : p[k] = q[k]
        BY <1>1, <2>2, <2>3
    <2> DEFINE at == [k \in 1..n |-> k]
    <2> HIDE DEF n, i
    <2>5. n + 1 \in 1..Len(p)
        BY <1>1, <2>4
    <2>6. \A m \in 1..Len(p) : m # n + 1 =>
              \E k \in 1..n : q[k].owner # o /\ p[m] = q[k] /\ m = at[k]
        <3>1. \A m \in 1..Len(p) : m # n + 1 => m \in 1..n
            BY <1>1, <2>4
        <3> QED BY <1>1, <1>3, <2>4, <3>1
    <2>7. \A k \in 1..n : q[k].owner # o => at[k] \in 1..Len(p) /\ p[at[k]] = q[k]
        BY <1>1, <2>4
    <2> HIDE DEF at
    <2>20. Sound(p[n + 1]) /\ p[n + 1].owner = o /\ ~p[n + 1].own /\ ~p[n + 1].seen
        BY <2>2, <2>4
    <2>21. Comes(q, p, o, n + 1, at)
        BY <2>20, <2>2, <2>4, <2>5, <2>6, <2>7 DEF Comes, n
    <2> QED BY <2>21, EnteredBy DEF p
<1>4. CASE i # 0 /\ nested
    <2>1. PICK old : old = [WithoutUnder(q[i]) EXCEPT !.own = FALSE]
        OBVIOUS
    <2>2. PICK x : x = New(o, share, TRUE, Combine(share, old.active), <<old>> \o q[i].under)
        OBVIOUS
    <2>3. Sound(x) /\ x.owner = o /\ ~x.own /\ ~x.seen /\ x \in Entry
        <3>1. Sound(q[i]) /\ q[i].seen /\ q[i].owner = o
            BY <1>1, <1>4 DEF Queue, Evaluated
        <3>2. Len(q[i].under) + 2 <= Nesting
            BY <1>4
        <3>3. Sound(x) /\ x.owner = o /\ ~x.own /\ ~x.seen
            BY <2>1, <2>2, <3>1, <3>2, NestedIs
        <3> QED BY <3>3 DEF Sound
    <2>4. PICK r : r = RemoveAt(q, i)
        OBVIOUS
    <2>5. p = <<x>> \o r
        BY <1>4, <2>1, <2>2, <2>4 DEF EnqueueElement
    <2>6. /\ i \in 1..n /\ r \in Seq(Entry) /\ Len(r) = n - 1
          /\ \A k \in 1..(n - 1) : r[k] = IF k < i THEN q[k] ELSE q[k + 1]
        BY <1>1, <1>4, <2>4, RemoveAtIs
    <2>7. /\ p \in Seq(Entry) /\ Len(p) = Len(r) + 1 /\ p[1] = x
          /\ \A k \in 1..Len(r) : p[k + 1] = r[k]
          /\ \A m \in 1..(Len(r) + 1) : m = 1 \/ \E k \in 1..Len(r) : m = k + 1
        BY <2>3, <2>5, <2>6, PrependIs
    <2> DEFINE at == [k \in 1..n |-> IF k < i THEN k + 1 ELSE k]
    <2> HIDE DEF n, i, p
    <2>8. 1 \in 1..Len(p)
        BY <1>1, <2>6, <2>7
    <2>9. ASSUME NEW m \in 1..Len(p), m # 1
          PROVE  \E k \in 1..n : q[k].owner # o /\ p[m] = q[k] /\ m = at[k]
        <3>1. PICK l \in 1..(n - 1) : m = l + 1
            BY <1>1, <2>6, <2>7, <2>9
        <3>2. p[m] = r[l]
            BY <2>6, <2>7, <3>1
        <3>3. CASE l < i
            <4>1. l \in 1..n /\ l # i /\ at[l] = m /\ p[m] = q[l]
                BY <1>1, <2>6, <3>1, <3>2, <3>3
            <4> QED BY <1>2, <1>4, <4>1
        <3>4. CASE l >= i
            <4>1. l + 1 \in 1..n /\ l + 1 # i /\ at[l + 1] = m /\ p[m] = q[l + 1]
                BY <1>1, <2>6, <3>1, <3>2, <3>4
            <4> QED BY <1>2, <1>4, <4>1
        <3> QED BY <2>6, <3>3, <3>4
    <2>10. ASSUME NEW k \in 1..n, q[k].owner # o
           PROVE  at[k] \in 1..Len(p) /\ p[at[k]] = q[k]
        <3>1. k # i
            BY <1>1, <1>4, <2>10
        <3>2. CASE k < i
            <4>1. k \in 1..(n - 1) /\ at[k] = k + 1 /\ k + 1 \in 1..Len(p)
                BY <1>1, <2>6, <2>7, <3>2
            <4> QED BY <2>6, <2>7, <3>2, <4>1
        <3>3. CASE k > i
            <4>1. k - 1 \in 1..(n - 1) /\ at[k] = k /\ k \in 1..Len(p) /\ ~(k - 1 < i)
                  /\ (k - 1) + 1 = k
                BY <1>1, <2>6, <2>7, <3>3
            <4>2. p[k] = r[k - 1] /\ r[k - 1] = q[k]
                BY <2>6, <2>7, <4>1
            <4> QED BY <4>1, <4>2
        <3> QED BY <1>1, <2>6, <3>1, <3>2, <3>3
    <2> HIDE DEF at
    <2>20. Sound(p[1]) /\ p[1].owner = o /\ ~p[1].own /\ ~p[1].seen
        BY <2>3, <2>7
    <2>21. Comes(q, p, o, 1, at)
        BY <2>20, <2>3, <2>7, <2>8, <2>9, <2>10 DEF Comes, n
    <2> QED BY <2>21, EnteredBy DEF p
<1>5. CASE i # 0 /\ ~nested
    <2>1. PICK x : x = New(o, share, FALSE, share, <<>>)
        OBVIOUS
    <2>2. Sound(x) /\ x.owner = o /\ ~x.own /\ ~x.seen /\ x \in Entry
        BY <2>1, NewIs DEF Sound
    <2>3. q[i].under = <<>>
        <3>1. Stacked(q[i]) /\ ~q[i].nested
            BY <1>1, <1>5 DEF Queue, Sound
        <3> QED BY <3>1 DEF Stacked
    <2>4. p = [q EXCEPT ![i] = x]
        BY <1>5, <2>1, <2>3 DEF EnqueueElement
    <2> HIDE DEF p
    <2>5. /\ i \in 1..n /\ p \in Seq(Entry) /\ Len(p) = n /\ p[i] = x
          /\ \A k \in 1..n : k # i => p[k] = q[k]
        BY <1>1, <1>5, <2>2, <2>4
    <2> DEFINE at == [k \in 1..n |-> k]
    <2> HIDE DEF n, i
    <2>6. \A m \in 1..Len(p) : m # i =>
              \E k \in 1..n : q[k].owner # o /\ p[m] = q[k] /\ m = at[k]
        BY <1>2, <1>5, <2>5
    <2>7. \A k \in 1..n : q[k].owner # o => at[k] \in 1..Len(p) /\ p[at[k]] = q[k]
        BY <1>1, <1>5, <2>5
    <2> HIDE DEF at
    <2>20. Sound(p[i]) /\ p[i].owner = o /\ ~p[i].own /\ ~p[i].seen
        BY <2>2, <2>5
    <2>21. Comes(q, p, o, i, at)
        BY <2>20, <2>2, <2>5, <2>6, <2>7 DEF Comes, n
    <2> QED BY <2>21, EnteredBy DEF p
<1> QED BY <1>3, <1>4, <1>5

(***************************************************************************)
(* A queue is evaluated after one owner's element moved.                   *)
(***************************************************************************)

LEMMA AnswersAreSound ==
    ASSUME NEW e, Sound(e), NEW f \in {e, Granted(e), Refused(e)}
    PROVE  Sound(f) /\ f.owner = e.owner /\ f.active = e.active
<1>1. e \in Entry /\ Len(e.under) < Nesting /\ Stacked(e)
    BY DEF Sound
<1>2. /\ f \in Entry
      /\ f.owner = e.owner /\ f.active = e.active /\ f.requested = e.requested
      /\ f.nested = e.nested /\ f.under = e.under
    BY <1>1, AnswersAre
<1>3. Stacked(f)
    BY <1>1, <1>2, Zenon DEF Stacked
<1> QED BY <1>1, <1>2, <1>3 DEF Sound

AllBarred(s) == \A m \in 1..Len(s) : ~s[m].own => \E k \in 1..Len(s) : Bars(s, m, k)

LEMMA WalkIs ==
    ASSUME NEW q, Fine(q), NEW p, Queue(p), NEW o, OthersStay(q, p, o),
           \A m \in 1..Len(p) : p[m].owner # o => p[m].seen,
           NEW all \in Level, LevelOf(p, all), NEW wait \in BOOLEAN
    PROVE  LET R == Evaluate(p, all, wait)
           IN  /\ Settles(q, R.q, R.posts, o) /\ AllBarred(R.q)
               /\ R.posts \subseteq Tasks /\ Len(R.q) = Len(p)
               /\ \A m \in 1..Len(p) : R.q[m].owner = p[m].owner /\ R.q[m].active = p[m].active
               /\ \A m \in 1..Len(p) : p[m].own => R.q[m] = p[m]
               /\ KeptFrom(p, R.q, wait)
<1> DEFINE R == Evaluate(p, all, wait)
           n == Len(p)
<1>1. PICK r, posts : r = R.q /\ posts = R.posts
    OBVIOUS
<1>2. p \in Seq(Entry) /\ n \in Nat /\ OwnersApart(p)
    BY LevelsAfter DEF Queue, Fine
<1>3. Answers(p, r, posts) /\ OwnersApart(r) /\ KeptFrom(p, r, wait) /\ Shareable(p, r, wait)
    <2>1. Answers(p, R.q, R.posts) /\ OwnersApart(R.q)
          /\ KeptFrom(p, R.q, wait) /\ Shareable(p, R.q, wait)
        BY <1>2, EvaluateSettles
    <2> HIDE DEF R
    <2> QED BY <1>1, <2>1
<1> HIDE DEF R
<1>4. /\ r \in Seq(Entry) /\ Len(r) = n /\ posts \subseteq Tasks
      /\ \A m \in 1..n : p[m].own => r[m] = p[m]
      /\ \A m \in 1..n : ~p[m].own => r[m] = Granted(p[m]) \/ r[m] = Refused(p[m])
    BY <1>3 DEF Answers
<1>5. \A m \in 1..n : ~p[m].own /\ r[m].own /\ p[m].seen => TaskOf(p[m].owner) \in posts
    BY <1>3, Zenon DEF Answers
<1>6. \A m \in 1..n : Sound(p[m]) /\ p[m] \in Entry
    BY DEF Queue, Sound
<1>7. ASSUME NEW m \in 1..n
      PROVE  Sound(r[m]) /\ r[m].owner = p[m].owner /\ r[m].active = p[m].active
    <2>1. r[m] \in {p[m], Granted(p[m]), Refused(p[m])}
        BY <1>4
    <2> QED BY <1>6, <2>1, AnswersAreSound
<1>8. \A m \in 1..n : p[m].own => p[m].owner # o
    BY DEF OthersStay
<1>9. ASSUME NEW m \in 1..n PROVE r[m].seen
    <2>1. CASE p[m].own
        <3>1. p[m].seen
            BY <1>8, <2>1
        <3>2. r[m] = p[m]
            BY <1>4, <2>1
        <3> QED BY <3>1, <3>2
    <2>2. CASE ~p[m].own
        <3>1. Granted(p[m]).seen /\ Refused(p[m]).seen
            BY <1>6, AnswersAre
        <3>2. r[m] = Granted(p[m]) \/ r[m] = Refused(p[m])
            BY <1>4, <2>2
        <3>3. CASE r[m] = Granted(p[m])
            BY <3>1, <3>3
        <3>4. CASE r[m] = Refused(p[m])
            BY <3>1, <3>4
        <3> QED BY <3>2, <3>3, <3>4
    <2> QED BY <2>1, <2>2
<1> HIDE DEF n
<1>10. Fine(r)
    <2>1. OneEach(r)
        <3>1. OneEach(p)
            BY DEF Queue
        <3> QED BY <1>4, <1>7, <3>1 DEF OneEach, n
    <2> QED BY <1>3, <1>4, <1>7, <1>9, <2>1 DEF Fine, Queue, Evaluated
<1>11. OthersThere(q, r, posts, o)
    <2> SUFFICES ASSUME NEW k \in 1..Len(q), q[k].owner # o
                 PROVE  \E m \in 1..Len(r) :
                            /\ r[m].owner = q[k].owner
                            /\ q[k].own => r[m].own
                            /\ ~q[k].own /\ r[m].own => TaskOf(q[k].owner) \in posts
        BY Zenon DEF OthersThere
    <2>1. PICK m \in 1..n : p[m] = q[k]
        BY DEF OthersStay, n
    <2>2. r[m].owner = q[k].owner /\ m \in 1..Len(r)
        BY <1>4, <1>7, <2>1
    <2>3. p[m].own => r[m].own
        BY <1>4
    <2>4. q[k].own => r[m].own
        BY <2>1, <2>3
    <2>5. p[m].seen
        BY <2>1 DEF n
    <2>6. ~p[m].own /\ r[m].own => TaskOf(p[m].owner) \in posts
        BY <1>5, <2>5, Zenon
    <2>7. ~q[k].own /\ r[m].own => TaskOf(q[k].owner) \in posts
        BY <2>1, <2>6
    <2> QED BY <2>2, <2>4, <2>7, Zenon
<1>12. NoneOvertaken(q, r, o)
    <2> SUFFICES ASSUME NEW k \in 1..n, r[k].own, ~OwnsIn(q, r[k].owner),
                        NEW i \in 1..(k - 1), r[i].owner # o
                 PROVE  r[i].active.lv + r[k].active.lv <= 4
        BY <1>4, Zenon DEF NoneOvertaken
    <2>1. i \in 1..n /\ i < k
        BY <1>2 DEF n
    <2>2. ~p[k].own
        <3> SUFFICES ASSUME p[k].own PROVE FALSE
            OBVIOUS
        <3>1. p[k].owner # o
            BY <1>8
        <3>2. PICK j \in 1..Len(q) : p[k] = q[j]
            BY <3>1 DEF OthersStay, n
        <3>3. q[j].owner = r[k].owner /\ q[j].own
            BY <1>7, <3>2
        <3> QED BY <3>3 DEF OwnsIn
    <2>3. p[i].seen
        BY <1>7, <2>1 DEF n
    <2>4. p[i].own \/ Heard(p[i], r[i], wait)
        BY <2>3 DEF Heard
    <2> QED BY <1>3, <2>1, <2>2, <2>4, Zenon DEF Shareable, n
<1>13. AllBarred(r)
    <2> SUFFICES ASSUME NEW m \in 1..n, ~r[m].own PROVE \E k \in 1..n : Bars(r, m, k)
        BY <1>4 DEF AllBarred
    <2>1. PICK k \in 1..n : /\ k # m /\ r[k].active.lv + r[m].active.lv > 4
                            /\ p[k].own \/ (k < m /\ Heard(p[k], r[k], wait))
        BY <1>3, Zenon DEF KeptFrom, n
    <2>2. k < m \/ r[k].own
        <3>1. CASE p[k].own
            BY <1>4, <3>1
        <3> QED BY <2>1, <3>1
    <2> QED BY <2>1, <2>2 DEF Bars
<1>14. Settles(q, r, posts, o)
    <2>1. OthersBarred(r, o)
        BY <1>13 DEF AllBarred, OthersBarred
    <2>2. OthersFrom(q, r, o)
        <3> SUFFICES ASSUME NEW m \in 1..n, r[m].owner # o
                     PROVE  \E k \in 1..Len(q) : q[k].owner = r[m].owner
            BY <1>4 DEF OthersFrom
        <3>1. p[m].owner = r[m].owner
            BY <1>7
        <3>2. PICK k \in 1..Len(q) : p[m] = q[k]
            BY <3>1 DEF OthersStay, n
        <3> QED BY <3>1, <3>2
    <2> QED BY <1>10, <1>11, <1>12, <2>1, <2>2 DEF Settles
<1>15. \A m \in 1..n : r[m].owner = p[m].owner /\ r[m].active = p[m].active
    BY <1>7
<1> QED BY <1>1, <1>3, <1>4, <1>13, <1>14, <1>15 DEF R, n

(* A request that is refused without a wait leaves the queue again: it has *)
(* kept nobody from anything, and the others stay in their order.          *)
LEMMA Refusing ==
    ASSUME NEW q, NEW p, NEW o, NEW s, NEW posts,
           Settles(q, s, posts, o), KeptFrom(p, s, FALSE), Len(s) = Len(p),
           \A m \in 1..Len(p) : s[m].owner = p[m].owner,
           \A m \in 1..Len(p) : p[m].own => s[m] = p[m],
           \A m \in 1..Len(p) : p[m].owner = o => ~p[m].own /\ ~p[m].seen,
           NEW k \in 1..Len(s), s[k].owner = o, ~s[k].own
    PROVE  Settles(q, DequeueElement(s, k), posts, o)
<1>1. PICK d : d = DequeueElement(s, k)
    OBVIOUS
<1>2. PICK h : h = Head1(s[k])
    OBVIOUS
<1>3. PICK n : n = Len(s)
    OBVIOUS
<1>4. /\ Queue(s) /\ Evaluated(s) /\ OwnersApart(s) /\ s \in Seq(Entry) /\ n \in Nat
      /\ k \in 1..n /\ h \in 0..1 /\ Sound(s[k])
    BY <1>2, <1>3 DEF Settles, Fine, Queue, Head1
<1>5. Queue(d) /\ Evaluated(d) /\ OthersStay(s, d, o)
    BY <1>1, <1>4, Leaving
<1>6. Fine(d)
    BY <1>4, <1>5, LevelsAfter DEF Fine
<1>7. /\ \A j \in 1..n : j # k => Shift(h, k, j) \in 1..Len(d) /\ d[Shift(h, k, j)] = s[j]
      /\ \A m \in 1..Len(d) : \/ Returns(s[k]) /\ m = 1
                              \/ \E j \in 1..n : j # k /\ m = Shift(h, k, j)
      /\ Returns(s[k]) => d[1] = Returned(s[k])
    <2>1. /\ \A j \in 1..n : j # k => Shift(h, k, j) \in 1..Len(d) /\ d[Shift(h, k, j)] = s[j]
          /\ Returns(s[k]) => d[1] = Returned(s[k])
        BY <1>1, <1>2, <1>3, <1>4, DequeueIs
    <2>2. \A m \in 1..Len(d) : \/ Returns(s[k]) /\ m = 1
                               \/ \E j \in 1..n : j # k /\ m = Shift(h, k, j)
        BY <1>1, <1>2, <1>3, <1>4, DequeueIs, Zenon
    <2> QED BY <2>1, <2>2
<1>8. ASSUME NEW m \in 1..Len(d), d[m].owner # o
      PROVE  \E j \in 1..n : j # k /\ m = Shift(h, k, j) /\ d[m] = s[j]
    <2>1. ~(Returns(s[k]) /\ m = 1)
        <3> SUFFICES ASSUME Returns(s[k]), m = 1 PROVE FALSE
            OBVIOUS
        <3>1. Returned(s[k]).owner = s[k].owner
            BY <1>4, ReturnedIs
        <3> QED BY <1>7, <1>8, <3>1
    <2>2. PICK j \in 1..n : j # k /\ m = Shift(h, k, j)
        BY <1>7, <2>1
    <2> QED BY <1>7, <2>2
<1>9. \A i, j \in 1..n : i # k /\ j # k /\ i # j =>
          /\ Shift(h, k, i) < Shift(h, k, j) <=> i < j
          /\ Shift(h, k, i) # Shift(h, k, j)
    BY <1>4 DEF Shift
<1>10. OthersThere(q, d, posts, o)
    <2> SUFFICES ASSUME NEW a \in 1..Len(q), q[a].owner # o
                 PROVE  \E m \in 1..Len(d) :
                            /\ d[m].owner = q[a].owner
                            /\ q[a].own => d[m].own
                            /\ ~q[a].own /\ d[m].own => TaskOf(q[a].owner) \in posts
        BY Zenon DEF OthersThere
    <2>1. PICK m \in 1..Len(s) :
              /\ s[m].owner = q[a].owner
              /\ q[a].own => s[m].own
              /\ ~q[a].own /\ s[m].own => TaskOf(q[a].owner) \in posts
        BY Zenon DEF Settles, OthersThere
    <2>2. s[m].owner # o
        BY <2>1
    <2>3. PICK l \in 1..Len(d) : d[l] = s[m]
        BY <1>5, <2>2 DEF OthersStay
    <2>4. d[l].owner = s[m].owner
        BY <2>3
    <2>5. d[l].own = s[m].own
        BY <2>3
    <2> QED BY <2>1, <2>4, <2>5, Zenon
<1>11. NoneOvertaken(q, d, o)
    <2> SUFFICES ASSUME NEW a \in 1..Len(d), d[a].own, ~OwnsIn(q, d[a].owner),
                        NEW b \in 1..(a - 1), d[b].owner # o
                 PROVE  d[b].active.lv + d[a].active.lv <= 4
        BY Zenon DEF NoneOvertaken
    <2>1. d[a].owner # o /\ b \in 1..Len(d) /\ b < a
        <3>1. Len(d) \in Nat
            BY <1>5 DEF Queue
        <3> QED BY <1>5, <3>1 DEF OthersStay
    <2>2. PICK i \in 1..n : i # k /\ a = Shift(h, k, i) /\ d[a] = s[i]
        BY <1>8, <2>1
    <2>3. PICK j \in 1..n : j # k /\ b = Shift(h, k, j) /\ d[b] = s[j]
        BY <1>8, <2>1
    <2>4. j < i
        <3>1. i # j
            BY <2>1, <2>2, <2>3
        <3> QED BY <1>9, <2>1, <2>2, <2>3, <3>1
    <2>5. s[i].own /\ ~OwnsIn(q, s[i].owner) /\ s[j].owner # o /\ j \in 1..(i - 1)
        BY <1>4, <2>2, <2>3, <2>4
    <2>6. s[j].active.lv + s[i].active.lv <= 4
        BY <1>3, <2>5, Zenon DEF Settles, NoneOvertaken
    <2> QED BY <2>2, <2>3, <2>6
<1>12. OthersBarred(d, o)
    <2> SUFFICES ASSUME NEW m \in 1..Len(d), ~d[m].own, d[m].owner # o
                 PROVE  \E l \in 1..Len(d) : Bars(d, m, l)
        BY DEF OthersBarred
    <2>1. PICK i \in 1..n : i # k /\ m = Shift(h, k, i) /\ d[m] = s[i]
        BY <1>8
    <2>2. ~s[i].own /\ i \in 1..Len(p)
        BY <1>3, <2>1
    <2>3. PICK j \in 1..Len(p) : /\ j # i /\ s[j].active.lv + s[i].active.lv > 4
                                 /\ p[j].own \/ (j < i /\ Heard(p[j], s[j], FALSE))
        BY <2>2, Zenon DEF KeptFrom
    <2>4. j # k
        <3> SUFFICES ASSUME j = k PROVE FALSE
            OBVIOUS
        <3>1. p[k].owner = o
            BY <1>3
        <3>2. ~p[k].own /\ ~p[k].seen
            BY <3>1
        <3> QED BY <2>3, <3>2 DEF Heard
    <2>5. j < i \/ s[j].own
        <3>1. CASE p[j].own
            <4>1. s[j] = p[j]
                BY <3>1
            <4> QED BY <3>1, <4>1
        <3> QED BY <2>3, <3>1
    <2>6. PICK l : l = Shift(h, k, j)
        OBVIOUS
    <2>7. l \in 1..Len(d) /\ d[l] = s[j]
        BY <1>3, <1>7, <2>4, <2>6
    <2>8. l # m /\ (j < i => l < m)
        BY <1>3, <1>9, <2>1, <2>3, <2>4, <2>6
    <2>9. l < m \/ d[l].own
        BY <2>5, <2>7, <2>8
    <2>10. d[l].active.lv + d[m].active.lv > 4
        BY <2>1, <2>3, <2>7
    <2> QED BY <2>7, <2>8, <2>9, <2>10 DEF Bars
<1>13. OthersFrom(q, d, o)
    <2> SUFFICES ASSUME NEW m \in 1..Len(d), d[m].owner # o
                 PROVE  \E j \in 1..Len(q) : q[j].owner = d[m].owner
        BY DEF OthersFrom
    <2>1. PICK l \in 1..Len(s) : d[m] = s[l]
        BY <1>5 DEF OthersStay
    <2>2. PICK j \in 1..Len(q) : q[j].owner = s[l].owner
        BY <2>1 DEF Settles, OthersFrom
    <2> QED BY <2>1, <2>2
<1> QED BY <1>1, <1>6, <1>10, <1>11, <1>12, <1>13 DEF Settles

(***************************************************************************)
(* The rebuild after a nested element was dequeued.                        *)
(***************************************************************************)

Chain(e) == Append(Reverse(e.under), WithoutUnder(e))

(* The elements of an owner on a resource, the oldest first.               *)
LEMMA ChainIs ==
    ASSUME NEW e, Sound(e)
    PROVE  LET c == Chain(e)
               L == Len(e.under)
           IN  /\ c \in Seq(Under) /\ L \in Nat /\ Len(c) = L + 1
               /\ c[L + 1] = WithoutUnder(e)
               /\ \A k \in 1..L : L + 1 - k \in 1..L /\ c[k] = e.under[L + 1 - k]
               /\ Reverse(Front(c)) = e.under
<1>1. PICK u : u = e.under
    OBVIOUS
<1>2. PICK L : L = Len(u)
    OBVIOUS
<1>3. e \in Entry /\ u \in Seq(Under) /\ L \in Nat
    <2>1. e \in Entry
        BY DEF Sound
    <2>2. u \in Seq(Under)
        BY <1>1, <2>1, EntryIs
    <2> QED BY <1>2, <2>1, <2>2
<1>4. PICK v : v = Reverse(u)
    OBVIOUS
<1>5. v = [i \in 1..L |-> u[(L - i) + 1]]
    BY <1>2, <1>4 DEF Reverse
<1>6. \A i \in 1..L : (L - i) + 1 \in 1..L /\ u[i] \in Under
    BY <1>2, <1>3
<1>7. v \in Seq(Under) /\ Len(v) = L /\ \A i \in 1..L : v[i] = u[(L - i) + 1]
    BY <1>3, <1>5, <1>6
<1>8. PICK x : x = WithoutUnder(e)
    OBVIOUS
<1>9. x \in Under
    BY <1>3, <1>8, EntryIs DEF WithoutUnder, Under
<1>10. PICK c : c = Append(v, x)
    OBVIOUS
<1>11. /\ c \in Seq(Under) /\ Len(c) = L + 1 /\ c[L + 1] = x
       /\ \A k \in 1..L : c[k] = v[k]
    BY <1>3, <1>7, <1>9, <1>10
<1>12. \A k \in 1..L : L + 1 - k \in 1..L /\ c[k] = u[L + 1 - k]
    <2>1. \A k \in 1..L : (L - k) + 1 = L + 1 - k
        BY <1>3
    <2> QED BY <1>6, <1>7, <1>11, <2>1
<1>13. PICK w : w = Front(c)
    OBVIOUS
<1>14. w \in Seq(Under) /\ Len(w) = L /\ \A k \in 1..L : w[k] = c[k]
    <2>1. w = SubSeq(c, 1, L)
        BY <1>3, <1>11, <1>13 DEF Front
    <2> QED BY <1>3, <1>11, <2>1
<1>15. Reverse(w) = u
    <2>1. Reverse(w) = [i \in 1..L |-> w[(L - i) + 1]]
        BY <1>14 DEF Reverse
    <2>2. \A i \in 1..L : w[(L - i) + 1] = u[i]
        <3> SUFFICES ASSUME NEW i \in 1..L PROVE w[(L - i) + 1] = u[i]
            OBVIOUS
        <3>1. (L - i) + 1 \in 1..L /\ L + 1 - ((L - i) + 1) = i
            BY <1>3
        <3> QED BY <1>12, <1>14, <3>1
    <2>3. u = [i \in 1..L |-> u[i]]
        BY <1>2, <1>3
    <2> QED BY <2>1, <2>2, <2>3
<1> QED BY <1>1, <1>2, <1>3, <1>4, <1>8, <1>10, <1>11, <1>12, <1>13, <1>15 DEF Chain

(* The active levels are already what the rebuild computes.                *)
LEMMA RebuildIs ==
    ASSUME NEW e, Sound(e)
    PROVE  Rebuilt(Chain(e)) = Chain(e)
<1>1. PICK c : c = Chain(e)
    OBVIOUS
<1>2. PICK u : u = e.under
    OBVIOUS
<1>3. PICK L : L = Len(u)
    OBVIOUS
<1>4. PICK n : n = Len(c)
    OBVIOUS
<1>5. /\ c \in Seq(Under) /\ L \in Nat /\ n = L + 1
      /\ c[L + 1] = WithoutUnder(e)
      /\ \A k \in 1..L : L + 1 - k \in 1..L /\ c[k] = u[L + 1 - k]
    BY <1>1, <1>2, <1>3, <1>4, ChainIs
<1>6. \A k \in 1..n : /\ c[k] \in Under /\ c[k].active \in Level /\ c[k].requested \in Level
                      /\ c[k].active.lv \in 0..4 /\ c[k].requested.lv \in 0..4
    <2>1. \A k \in 1..n : c[k] \in Under
        <3>1. c \in Seq(Under)
            BY <1>5
        <3> QED BY <1>4, <3>1
    <2> QED BY <2>1 DEF Under, Level
<1>7. Stacked(e) /\ u \in Seq(Under)
    BY <1>2, EntryIs DEF Sound
<1>8. ASSUME NEW k \in 1..n
      PROVE  c[k].active.lv = Higher(c[k].requested.lv, IF k = 1 THEN 0 ELSE c[k - 1].active.lv)
    <2>1. CASE k = L + 1
        <3>1. /\ c[k].active = e.active /\ c[k].requested = e.requested
            BY <1>5, <2>1 DEF WithoutUnder
        <3>2. u = <<>> <=> k = 1
            BY <1>3, <1>5, <1>7, <2>1, EmptySeq
        <3>3. k # 1 => c[k - 1] = u[1]
            <4>1. k # 1 => L \in 1..L /\ k - 1 = L /\ L + 1 - L = 1
                BY <1>5, <2>1
            <4> QED BY <1>5, <4>1
        <3>4. e.active.lv = Higher(e.requested.lv, IF u = <<>> THEN 0 ELSE u[1].active.lv)
            BY <1>2, <1>7 DEF Stacked
        <3> QED BY <3>1, <3>2, <3>3, <3>4
    <2>2. CASE k \in 1..L
        <3>1. PICK j \in 1..L : j = L + 1 - k
            BY <1>5, <2>2
        <3>2. c[k] = u[j] /\ (j = L <=> k = 1)
            BY <1>5, <2>2, <3>1
        <3>3. k # 1 => c[k - 1] = u[j + 1]
            <4>1. k # 1 => k - 1 \in 1..L /\ L + 1 - (k - 1) = j + 1
                BY <1>5, <2>2, <3>1
            <4> QED BY <1>5, <4>1
        <3>4. u[j].active.lv = Higher(u[j].requested.lv, IF j = L THEN 0 ELSE u[j + 1].active.lv)
            BY <1>2, <1>3, <1>7 DEF Stacked
        <3> QED BY <3>2, <3>3, <3>4
    <2> QED BY <1>5, <2>1, <2>2
<1>9. ASSUME NEW k \in 1..n
      PROVE  c[k].active = Combine(c[k].requested, IF k = 1 THEN Nothing ELSE c[k - 1].active)
    <2>1. PICK b : b = IF k = 1 THEN Nothing ELSE c[k - 1].active
        OBVIOUS
    <2>2. b \in Level /\ b.lv = IF k = 1 THEN 0 ELSE c[k - 1].active.lv
        <3>1. k # 1 => k - 1 \in 1..n
            BY <1>5
        <3> QED BY <1>6, <2>1, <3>1, NothingIs
    <2>3. /\ Combine(c[k].requested, b) \in Level
          /\ Combine(c[k].requested, b).lv = Higher(c[k].requested.lv, b.lv)
        BY <1>6, <2>2, Shares
    <2>4. Combine(c[k].requested, b).lv = c[k].active.lv
        BY <1>8, <2>2, <2>3
    <2>5. Combine(c[k].requested, b) = c[k].active
        BY <1>6, <2>3, <2>4, SameLevel
    <2> QED BY <2>1, <2>5
<1> DEFINE One(g, k) == Combine(c[k].requested, IF k = 1 THEN Nothing ELSE g[k - 1])
           level == CHOOSE g : g = [k \in 1..n |-> One(g, k)]
<1>10. level = [k \in 1..n |-> One(level, k)]
    <2> DEFINE a == [k \in 1..n |-> c[k].active]
    <2>1. \A k \in 1..n : One(a, k) = a[k]
        <3> SUFFICES ASSUME NEW k \in 1..n PROVE One(a, k) = a[k]
            OBVIOUS
        <3>1. k # 1 => k - 1 \in 1..n
            BY <1>5
        <3>2. k # 1 => a[k - 1] = c[k - 1].active
            BY <3>1
        <3> QED BY <1>9, <3>2
    <2>2. a = [k \in 1..n |-> One(a, k)]
        <3>1. a = [k \in 1..n |-> a[k]]
            OBVIOUS
        <3> HIDE DEF a, One
        <3> QED BY <2>1, <3>1
    <2> HIDE DEF a, One
    <2>3. \E g : g = [k \in 1..n |-> One(g, k)]
        BY <2>2, Zenon
    <2> QED BY <2>3, Zenon
<1>11. \A k \in 1..n : level[k] = One(level, k)
    <2> HIDE DEF level, One
    <2> QED BY <1>10
<1> HIDE DEF level
<1>12. \A k \in 1..n : level[k] = c[k].active
    <2> DEFINE H == {0} \cup {k \in 1..n : level[k] = c[k].active}
    <2>1. \A k \in 1..n : k - 1 \in H => k \in H
        <3> SUFFICES ASSUME NEW k \in 1..n, k - 1 \in H PROVE level[k] = c[k].active
            OBVIOUS
        <3>1. k # 1 => level[k - 1] = c[k - 1].active
            BY <1>5
        <3> QED BY <1>9, <1>11, <3>1
    <2>2. 0 \in H /\ n \in Nat
        BY <1>5
    <2>3. 0..n \subseteq H
        <3> HIDE DEF H
        <3> QED BY <2>1, <2>2, UpTo
    <2> QED BY <1>5, <2>3
<1>13. Rebuilt(c) = [k \in 1..n |-> [c[k] EXCEPT !.active = level[k]]]
    BY <1>4 DEF Rebuilt, level
<1>14. \A k \in 1..n : [c[k] EXCEPT !.active = level[k]] = c[k]
    <2>1. \A x \in Under : [x EXCEPT !.active = x.active] = x
        BY DEF Under
    <2> QED BY <1>6, <1>12, <2>1
<1>15. c = [k \in 1..n |-> c[k]]
    <2>1. c \in Seq(Under)
        BY <1>5
    <2> QED BY <1>4, <2>1
<1> QED BY <1>1, <1>13, <1>14, <1>15

(***************************************************************************)
(* The calls, each on the queue of its resource.                           *)
(***************************************************************************)

LEMMA RequestIs == ASSUME NotExtended, NEW share \in Requests PROVE share \in Level
<1>1. share \in [lv : 1..4, ext : BOOLEAN] /\ ~share.ext
    BY ResourceAssumption DEF NotExtended
<1>2. share = [lv |-> share.lv, ext |-> share.ext] /\ share.lv \in 1..4
    BY <1>1
<1>3. PICK b \in BOOLEAN : b = share.ext
    BY <1>1
<1>4. b = FALSE
    BY <1>1, <1>3
<1>5. share = [lv |-> share.lv, ext |-> FALSE]
    BY <1>2, <1>3, <1>4, Zenon
<1>6. PICK m \in 0..4 : m = share.lv
    BY <1>2
<1>7. share = [lv |-> m, ext |-> FALSE]
    BY <1>5, <1>6, Zenon
<1> QED BY <1>7 DEF Level

(* SVC 21 on the queue q, as ResourceEnqueue has it: walk is its           *)
(* evaluation, k the place of the caller's element in it, s the queue left.*)
Enqueues(q, o, share, nested, wait, walk, k, s) ==
    /\ Fine(q) /\ o \in Owners /\ share \in Requests /\ nested \in BOOLEAN /\ wait \in BOOLEAN
    /\ Mine(q, o) # 0 => IF nested THEN Len(q[Mine(q, o)].under) + 2 <= Nesting
                         ELSE ~q[Mine(q, o)].nested
    /\ walk = Evaluate(EnqueueElement(q, o, share, nested), OwnedLevels(q, o), wait)
    /\ k = Mine(walk.q, o)
    /\ s = IF walk.q[k].own \/ wait THEN walk.q ELSE DequeueElement(walk.q, k)

WaitsBarred(s, o) ==
    \E i \in 1..Len(s) : /\ s[i].owner = o /\ ~s[i].own
                         /\ \E l \in 1..Len(s) : Bars(s, i, l)

(* A request that is granted, that waits behind what bars it, or that is   *)
(* refused.                                                                *)
LEMMA EnqueueSettles ==
    ASSUME NotExtended, NEW q, NEW o, NEW share, NEW nested, NEW wait, NEW walk, NEW k, NEW s,
           Enqueues(q, o, share, nested, wait, walk, k, s)
    PROVE  /\ Settles(q, s, walk.posts, o) /\ walk.posts \subseteq Tasks
           /\ walk.q[k].own \in BOOLEAN
           /\ wait /\ ~walk.q[k].own => WaitsBarred(s, o)
<1>1. /\ Fine(q) /\ o \in Owners /\ share \in Requests /\ nested \in BOOLEAN /\ wait \in BOOLEAN
      /\ Mine(q, o) # 0 => IF nested THEN Len(q[Mine(q, o)].under) + 2 <= Nesting
                           ELSE ~q[Mine(q, o)].nested
      /\ k = Mine(walk.q, o)
    BY Zenon DEF Enqueues
<1>2. PICK p : p = EnqueueElement(q, o, share, nested)
    OBVIOUS
<1>3. PICK all : all = OwnedLevels(q, o)
    OBVIOUS
<1>4. walk = Evaluate(p, all, wait)
    BY <1>2, <1>3, Zenon DEF Enqueues
<1>5. s = IF walk.q[k].own \/ wait THEN walk.q ELSE DequeueElement(walk.q, k)
    BY Zenon DEF Enqueues
<1>6. Queue(q) /\ Evaluated(q) /\ OwnersApart(q)
    BY <1>1 DEF Fine
<1>7. Entered(q, p, o)
    BY <1>1, <1>2, <1>6, Entering, RequestIs
<1>8. /\ Queue(p) /\ OthersStay(q, p, o)
      /\ \E m \in 1..Len(p) : p[m].owner = o
      /\ \A m \in 1..Len(p) : p[m].owner = o => ~p[m].seen
      /\ \A m \in 1..Len(p) : p[m].owner # o => p[m].seen
    BY <1>7, Zenon DEF Entered
<1>9. all \in Level /\ LevelOf(p, all)
    BY <1>3, <1>6, <1>8, LevelsAfter
<1>10. /\ Settles(q, walk.q, walk.posts, o) /\ AllBarred(walk.q)
       /\ walk.posts \subseteq Tasks /\ Len(walk.q) = Len(p)
       /\ \A m \in 1..Len(p) : walk.q[m].owner = p[m].owner
       /\ \A m \in 1..Len(p) : p[m].own => walk.q[m] = p[m]
       /\ KeptFrom(p, walk.q, wait)
    BY <1>1, <1>4, <1>8, <1>9, WalkIs
<1>11. Queue(walk.q) /\ walk.q \in Seq(Entry)
    BY <1>10 DEF Settles, Fine, Queue
<1>12. k \in 1..Len(walk.q) /\ walk.q[k].owner = o
    <2>1. \E m \in 1..Len(walk.q) : walk.q[m].owner = o
        BY <1>8, <1>10
    <2> QED BY <1>1, <1>11, <2>1, MineIs
<1>13. walk.q[k].own \in BOOLEAN
    <2>1. PICK e \in Entry : e = walk.q[k]
        BY <1>11, <1>12
    <2>2. e.own \in BOOLEAN
        BY EntryIs
    <2> QED BY <2>1, <2>2
<1>14. Settles(q, s, walk.posts, o)
    <2>1. CASE walk.q[k].own \/ wait
        BY <1>5, <1>10, <2>1
    <2>2. CASE ~walk.q[k].own /\ ~wait
        <3>1. wait = FALSE
            BY <2>2
        <3>2. KeptFrom(p, walk.q, FALSE)
            BY <1>10, <3>1
        <3>3. \A m \in 1..Len(p) : p[m].owner = o => ~p[m].own /\ ~p[m].seen
            BY <1>8, Zenon DEF OthersStay
        <3>4. Settles(q, DequeueElement(walk.q, k), walk.posts, o)
            BY <1>10, <1>12, <2>2, <3>2, <3>3, Refusing
        <3> QED BY <1>5, <2>2, <3>4
    <2> QED BY <2>1, <2>2
<1>15. wait /\ ~walk.q[k].own => WaitsBarred(s, o)
    <2> SUFFICES ASSUME wait, ~walk.q[k].own PROVE WaitsBarred(s, o)
        OBVIOUS
    <2>1. s = walk.q
        BY <1>5
    <2>2. \E l \in 1..Len(s) : Bars(s, k, l)
        BY <1>10, <1>12, <2>1 DEF AllBarred
    <2>3. k \in 1..Len(s) /\ s[k].owner = o /\ ~s[k].own
        BY <1>12, <2>1
    <2> QED BY <2>2, <2>3 DEF WaitsBarred
<1> QED BY <1>10, <1>13, <1>14, <1>15

(* An element leaves, d is the rest and R its evaluation; the level of the *)
(* owners was taken before or after.                                       *)
Departs(q, i, d, all, R) ==
    /\ Fine(q) /\ i \in 1..Len(q) /\ d = DequeueElement(q, i)
    /\ all \in {OwnedLevels(q, q[i].owner), OwnedLevels(d, q[i].owner)}
    /\ R = Evaluate(d, all, FALSE)

Departed(d, R) ==
    /\ R.posts \subseteq Tasks
    /\ Len(R.q) = Len(d) /\ KeptFrom(d, R.q, FALSE)
    /\ \A m \in 1..Len(d) : R.q[m].owner = d[m].owner /\ R.q[m].active = d[m].active
    /\ \A m \in 1..Len(d) : d[m].own => R.q[m] = d[m]

LEMMA LeaveSettles ==
    ASSUME NEW q, NEW i, NEW d, NEW all, NEW R, Departs(q, i, d, all, R)
    PROVE  Settles(q, R.q, R.posts, q[i].owner) /\ Departed(d, R)
<1>1. PICK o : o = q[i].owner
    OBVIOUS
<1>2. /\ Fine(q) /\ i \in 1..Len(q) /\ d = DequeueElement(q, i)
      /\ all \in {OwnedLevels(q, o), OwnedLevels(d, o)}
      /\ R = Evaluate(d, all, FALSE)
    BY <1>1 DEF Departs
<1>3. Queue(q) /\ Evaluated(q) /\ OwnersApart(q)
    BY <1>2 DEF Fine
<1>4. Queue(d) /\ Evaluated(d) /\ OthersStay(q, d, o)
    BY <1>1, <1>2, <1>3, Leaving
<1>5. all \in Level /\ LevelOf(d, all)
    BY <1>2, <1>3, <1>4, LevelsAfter
<1>6. \A m \in 1..Len(d) : d[m].owner # o => d[m].seen
    BY <1>4 DEF Evaluated
<1>7. PICK wait \in BOOLEAN : wait = FALSE
    OBVIOUS
<1>8. R = Evaluate(d, all, wait)
    BY <1>2, <1>7
<1>9. /\ Settles(q, R.q, R.posts, o) /\ R.posts \subseteq Tasks
      /\ Len(R.q) = Len(d) /\ KeptFrom(d, R.q, wait)
      /\ \A m \in 1..Len(d) : R.q[m].owner = d[m].owner /\ R.q[m].active = d[m].active
      /\ \A m \in 1..Len(d) : d[m].own => R.q[m] = d[m]
    <2>1. Fine(q) /\ Queue(d) /\ OthersStay(q, d, o)
        BY <1>2, <1>4
    <2> QED BY <1>5, <1>6, <1>8, <2>1, WalkIs
<1> QED BY <1>1, <1>7, <1>9 DEF Departed

(* What o has on the queue q, it owns.                                     *)
OwnsAll(q, o) == \A i \in 1..Len(q) : q[i].owner = o => q[i].own

(* SVC 21 as ResourceDequeue has it.                                       *)
Dequeues(q, o, i, R) ==
    /\ Fine(q) /\ i = Mine(q, o)
    /\ R = Evaluate(IF i = 0 THEN q ELSE DequeueElement(q, i), OwnedLevels(q, o), FALSE)

(* A dequeue; if what it gave up was owned and nested over another, that   *)
(* other is granted at once: the others shared with more.                  *)
LEMMA DequeueSettles ==
    ASSUME NEW q, NEW o, NEW i, NEW R, Dequeues(q, o, i, R)
    PROVE  /\ Settles(q, R.q, R.posts, o) /\ R.posts \subseteq Tasks
           /\ i # 0 /\ q[i].own /\ q[i].under # <<>> => OwnsAll(R.q, o)
<1>1. Fine(q) /\ i = Mine(q, o)
    BY DEF Dequeues
<1>2. PICK d : d = IF i = 0 THEN q ELSE DequeueElement(q, i)
    OBVIOUS
<1>3. PICK all : all = OwnedLevels(q, o)
    OBVIOUS
<1>4. R = Evaluate(d, all, FALSE)
    BY <1>2, <1>3, Zenon DEF Dequeues
<1>5. /\ Queue(q) /\ Evaluated(q) /\ OwnersApart(q) /\ q \in Seq(Entry)
      /\ i = 0 => \A k \in 1..Len(q) : q[k].owner # o
      /\ i # 0 => i \in 1..Len(q) /\ q[i].owner = o
    BY <1>1, MineIs DEF Fine, Queue
<1>6. CASE i = 0
    <2>1. d = q /\ OthersStay(q, q, o)
        BY <1>2, <1>5, <1>6 DEF OthersStay
    <2>2. all \in Level /\ LevelOf(q, all)
        BY <1>3, <1>5, <2>1, LevelsAfter
    <2>3. \A m \in 1..Len(q) : q[m].owner # o => q[m].seen
        BY <1>5 DEF Evaluated
    <2>4. PICK wait \in BOOLEAN : wait = FALSE
        OBVIOUS
    <2>5. R = Evaluate(q, all, wait)
        BY <1>4, <2>1, <2>4
    <2>6. Settles(q, R.q, R.posts, o) /\ R.posts \subseteq Tasks
        <3>1. Queue(q) /\ OthersStay(q, q, o)
            BY <1>5, <2>1
        <3> QED BY <1>1, <2>2, <2>3, <2>5, <3>1, WalkIs
    <2> QED BY <1>6, <2>6
<1>7. CASE i # 0
    <2>1. d = DequeueElement(q, i) /\ i \in 1..Len(q) /\ q[i].owner = o
        BY <1>2, <1>5, <1>7
    <2>2. /\ Settles(q, R.q, R.posts, o) /\ R.posts \subseteq Tasks
          /\ Len(R.q) = Len(d) /\ KeptFrom(d, R.q, FALSE)
          /\ \A m \in 1..Len(d) : R.q[m].owner = d[m].owner /\ R.q[m].active = d[m].active
          /\ \A m \in 1..Len(d) : d[m].own => R.q[m] = d[m]
        <3>1. Departs(q, i, d, all, R)
            BY <1>1, <1>3, <1>4, <2>1 DEF Departs
        <3>2. q[i].owner = o
            BY <2>1
        <3>3. Settles(q, R.q, R.posts, q[i].owner)
            BY <3>1, LeaveSettles
        <3>4. Settles(q, R.q, R.posts, o)
            BY <3>2, <3>3
        <3>5. Departed(d, R)
            BY <3>1, LeaveSettles
        <3> QED BY <3>4, <3>5 DEF Departed
    <2>3. ASSUME q[i].own, q[i].under # <<>>
          PROVE  OwnsAll(R.q, o)
        <3>1. Sound(q[i]) /\ Returns(q[i])
            <4>1. Sound(q[i]) /\ Stacked(q[i])
                BY <1>5, <2>1 DEF Queue, Sound
            <4> QED BY <2>3, <4>1 DEF Stacked, Returns
        <3>2. PICK x : x = Returned(q[i])
            OBVIOUS
        <3>3. x.owner = o /\ x.active.lv <= q[i].active.lv
              /\ x.active.lv \in 0..4 /\ q[i].active.lv \in 0..4
            <4>1. Sound(x) /\ x.owner = q[i].owner /\ x.active.lv <= q[i].active.lv
                BY <3>1, <3>2, ReturnedIs
            <4>2. x \in Entry /\ q[i] \in Entry
                BY <3>1, <4>1 DEF Sound
            <4> QED BY <2>1, <4>1, <4>2, EntryIs
        <3>4. PICK h : h = Head1(q[i])
            OBVIOUS
        <3>5. h = 1
            BY <3>1, <3>4 DEF Head1
        <3>6. /\ d \in Seq(Entry) /\ Len(d) = Len(q) - 1 + h /\ d[1] = x
              /\ \A k \in 1..Len(q) : k # i => Shift(h, i, k) \in 1..Len(d) /\ d[Shift(h, i, k)] = q[k]
            BY <1>5, <2>1, <3>1, <3>2, <3>4, DequeueIs
        <3>7. \A m \in 1..Len(d) : m = 1 \/ \E k \in 1..Len(q) : k # i /\ m = Shift(h, i, k)
            <4>1. \A m \in 1..Len(d) : \/ Returns(q[i]) /\ m = 1
                                       \/ \E k \in 1..Len(q) : k # i /\ m = Shift(h, i, k)
                <5>1. q \in Seq(Entry) /\ i \in 1..Len(q) /\ Sound(q[i]) /\ d = DequeueElement(q, i)
                    BY <1>5, <2>1, <3>1
                <5>2. \A m \in 1..Len(d) : \/ Returns(q[i]) /\ m = 1
                                           \/ \E k \in 1..Len(q) : k # i /\ m = Shift(Head1(q[i]), i, k)
                    BY <5>1, DequeueIs, Zenon
                <5> QED BY <3>4, <5>2
            <4> QED BY <4>1
        <3>8. 1 \in 1..Len(d)
            <4>1. Len(q) \in Nat /\ Len(q) >= 1
                BY <1>5, <2>1
            <4> QED BY <3>5, <3>6, <4>1
        <3>9. R.q[1].own
            <4> SUFFICES ASSUME ~R.q[1].own PROVE FALSE
                OBVIOUS
            <4>1. PICK j \in 1..Len(d) : /\ j # 1 /\ R.q[j].active.lv + R.q[1].active.lv > 4
                                         /\ d[j].own \/ (j < 1 /\ Heard(d[j], R.q[j], FALSE))
                BY <2>2, <3>8, Zenon DEF KeptFrom
            <4>2. d[j].own
                <5>1. ~(j < 1)
                    BY <3>6
                <5> QED BY <4>1, <5>1
            <4>3. PICK k \in 1..Len(q) : k # i /\ j = Shift(h, i, k)
                BY <3>7, <4>1
            <4>4. R.q[j] = d[j] /\ d[j] = q[k]
                BY <2>2, <3>6, <4>2, <4>3
            <4>5. q[k].own
                BY <4>2, <4>4
            <4>6. q[k].active.lv + q[i].active.lv <= 4
                BY <1>5, <2>1, <2>3, <4>3, <4>5 DEF OwnersApart
            <4>7. R.q[1].active.lv = x.active.lv
                BY <2>2, <3>6, <3>8
            <4>8. q[k].active.lv \in 0..4
                <5>1. q[k] \in Entry
                    BY <1>5
                <5> QED BY <5>1, EntryIs
            <4>9. R.q[j].active.lv = q[k].active.lv
                BY <4>4
            <4>10. q[k].active.lv + x.active.lv > 4
                BY <4>1, <4>7, <4>9
            <4> QED BY <3>3, <4>6, <4>8, <4>10
        <3>10. ASSUME NEW m \in 1..Len(R.q), R.q[m].owner = o PROVE R.q[m].own
            <4>1. R.q[1].owner = o
                BY <2>2, <3>3, <3>6, <3>8
            <4>2. OneEach(R.q)
                BY <2>2 DEF Settles, Fine, Queue
            <4>3. m = 1
                BY <2>2, <3>8, <3>10, <4>1, <4>2 DEF OneEach
            <4> QED BY <3>9, <4>3
        <3> QED BY <3>10 DEF OwnsAll
    <2> QED BY <2>2, <2>3
<1> QED BY <1>6, <1>7

LEMMA ReleaseSettles ==
    ASSUME NEW q, Fine(q), NEW t, Mine(q, t) # 0
    PROVE  /\ Settles(q, Release(q, t).q, Release(q, t).posts, t)
           /\ Release(q, t).posts \subseteq Tasks
<1>1. PICK i : i = Mine(q, t)
    OBVIOUS
<1>2. i \in 1..Len(q) /\ q[i].owner = t
    BY <1>1, MineIs DEF Fine, Queue
<1>3. PICK d : d = DequeueElement(q, i)
    OBVIOUS
<1>4. PICK all : all = OwnedLevels(d, t)
    OBVIOUS
<1>5. PICK R : R = Evaluate(d, all, FALSE)
    OBVIOUS
<1>6. R = Release(q, t)
    BY <1>1, <1>3, <1>4, <1>5 DEF Release
<1>7. Departs(q, i, d, all, R)
    BY <1>2, <1>3, <1>4, <1>5 DEF Departs
<1>8. Settles(q, R.q, R.posts, t) /\ R.posts \subseteq Tasks
    BY <1>2, <1>7, LeaveSettles DEF Departed
<1> QED BY <1>6, <1>8

(* The rebuild leaves the queue as it was: its element is an owner since   *)
(* the dequeue that asked for the rebuild.                                 *)
LEMMA RebuildStays ==
    ASSUME NEW q, Fine(q), NEW i \in 1..Len(q), q[i].own
    PROVE  LET chain == Rebuilt(Append(Reverse(q[i].under), WithoutUnder(q[i])))
           IN  [q EXCEPT ![i] = WithUnder([chain[Len(chain)] EXCEPT !.own = TRUE],
                                          Reverse(Front(chain)))] = q
<1>1. PICK e : e = q[i]
    OBVIOUS
<1>2. Sound(e) /\ e \in Entry /\ e.own /\ q \in Seq(Entry)
    BY <1>1 DEF Fine, Queue, Sound
<1>3. PICK c : c = Rebuilt(Append(Reverse(e.under), WithoutUnder(e)))
    OBVIOUS
<1>4. c = Chain(e)
    BY <1>2, <1>3, RebuildIs DEF Chain
<1>5. c[Len(c)] = WithoutUnder(e) /\ Reverse(Front(c)) = e.under
    BY <1>2, <1>4, ChainIs
<1>6. WithUnder([WithoutUnder(e) EXCEPT !.own = TRUE], e.under) = e
    <2>1. PICK y \in [owner : Owners, active : Level, own : BOOLEAN, requested : Level,
                      nested : BOOLEAN, seen : BOOLEAN, under : Seq(Under)] : y = e
        BY <1>2 DEF Entry
    <2>2. y.own = TRUE
        BY <1>2, <2>1
    <2>3. PICK z : z = [WithoutUnder(y) EXCEPT !.own = TRUE]
        OBVIOUS
    <2>4. z = [owner |-> y.owner, active |-> y.active, own |-> TRUE,
               requested |-> y.requested, nested |-> y.nested, seen |-> y.seen]
        BY <2>3 DEF WithoutUnder
    <2>5. WithUnder(z, y.under) = [owner |-> y.owner, active |-> y.active, own |-> TRUE,
               requested |-> y.requested, nested |-> y.nested, seen |-> y.seen,
               under |-> y.under]
        BY <2>4 DEF WithUnder
    <2>6. y = [owner |-> y.owner, active |-> y.active, own |-> y.own,
               requested |-> y.requested, nested |-> y.nested, seen |-> y.seen,
               under |-> y.under]
        OBVIOUS
    <2>7. WithUnder(z, y.under) = y
        BY <2>2, <2>5, <2>6, Zenon
    <2> QED BY <2>1, <2>3, <2>7
<1>7. [q EXCEPT ![i] = e] = q
    BY <1>1, <1>2
<1>8. WithUnder([c[Len(c)] EXCEPT !.own = TRUE], Reverse(Front(c))) = e
    BY <1>5, <1>6, Zenon
<1> QED BY <1>1, <1>3, <1>7, <1>8

(***************************************************************************)
(* The invariant.                                                          *)
(***************************************************************************)

(* A request of the task t is kept waiting on one of the queues Q.         *)
BarredIn(Q, t) ==
    \E r \in Resources : \E i \in 1..Len(Q[r]) :
        /\ TaskOf(Q[r][i].owner) = t /\ ~Q[r][i].own
        /\ \E l \in 1..Len(Q[r]) : Bars(Q[r], i, l)

Priority == [now : {Normal, Highest}, saved : {Normal, Highest}]

(* Between calls every element has been evaluated, the owners can share,   *)
(* a job that is to call SVC 20 owns its element, and who waits is barred. *)
GrantInv ==
    /\ queue \in [Resources -> Seq(Entry)]
    /\ \A r \in Resources : Fine(queue[r])
    /\ waiting \in [Tasks -> BOOLEAN] /\ ended \subseteq Tasks
    /\ priority \in [Tasks -> Priority]
    /\ rebuild \subseteq Jobs \X Resources
    /\ \A o \in Jobs, r \in Resources : <<o, r>> \in rebuild => OwnsAll(queue[r], o)
    /\ \A t \in Tasks : waiting[t] => BarredIn(queue, t)

(* One owner's call has settled the queues in D.                           *)
Called(o, D, posts) ==
    /\ Calls(o) /\ o \in Owners /\ D \subseteq Resources
    /\ queue' \in [Resources -> Seq(Entry)]
    /\ \A r \in D : Settles(queue[r], queue'[r], posts, o)
    /\ \A r \in Resources \ D : queue'[r] = queue[r]
    /\ waiting' \in [Tasks -> BOOLEAN]
    /\ \A t \in Tasks : t # TaskOf(o) /\ waiting'[t] => waiting[t] /\ t \notin posts
    /\ waiting'[TaskOf(o)] => BarredIn(queue', TaskOf(o))

(* Then the queues are fine, everybody who waits is barred, and what the   *)
(* other jobs owned they own.                                              *)
LEMMA CalledKeeps ==
    ASSUME GrantInv, NEW o, NEW D, NEW posts, Called(o, D, posts)
    PROVE  /\ \A r \in Resources : Fine(queue'[r])
           /\ \A t \in Tasks : waiting'[t] => BarredIn(queue', t)
           /\ \A r \in Resources : \A x \in Owners :
                  x # o /\ OwnsAll(queue[r], x) => OwnsAll(queue'[r], x)
<1>1. /\ \A r \in Resources : Fine(queue[r])
      /\ \A t \in Tasks : waiting[t] => BarredIn(queue, t)
    BY DEF GrantInv
<1>2. /\ D \subseteq Resources /\ o \in Owners
      /\ \A r \in D : Settles(queue[r], queue'[r], posts, o)
      /\ \A r \in Resources \ D : queue'[r] = queue[r]
      /\ \A t \in Tasks : t # TaskOf(o) /\ waiting'[t] => waiting[t] /\ t \notin posts
      /\ waiting'[TaskOf(o)] => BarredIn(queue', TaskOf(o))
    BY DEF Called
<1>3. \A r \in Resources : Fine(queue'[r])
    BY <1>1, <1>2 DEF Settles
<1>4. ASSUME NEW t \in Tasks, waiting'[t], t # TaskOf(o) PROVE BarredIn(queue', t)
    <2>1. waiting[t] /\ t \notin posts
        BY <1>2, <1>4
    <2>2. PICK r \in Resources : \E i \in 1..Len(queue[r]) :
              /\ TaskOf(queue[r][i].owner) = t /\ ~queue[r][i].own
              /\ \E l \in 1..Len(queue[r]) : Bars(queue[r], i, l)
        BY <1>1, <2>1 DEF BarredIn
    <2>3. CASE r \notin D
        <3>1. queue'[r] = queue[r]
            BY <1>2, <2>3
        <3> QED BY <2>2, <3>1 DEF BarredIn
    <2>4. CASE r \in D
        <3>1. PICK q, s : q = queue[r] /\ s = queue'[r]
            OBVIOUS
        <3>2. Settles(q, s, posts, o)
            BY <1>2, <2>4, <3>1
        <3>3. PICK i \in 1..Len(q) : TaskOf(q[i].owner) = t /\ ~q[i].own
            BY <2>2, <3>1
        <3>4. q[i].owner # o
            BY <1>4, <3>3
        <3>5. PICK m \in 1..Len(s) :
                  /\ s[m].owner = q[i].owner
                  /\ ~q[i].own /\ s[m].own => TaskOf(q[i].owner) \in posts
            BY <3>2, <3>4, Zenon DEF Settles, OthersThere
        <3>6. ~s[m].own
            BY <2>1, <3>3, <3>5
        <3>7. TaskOf(s[m].owner) = t /\ s[m].owner # o
            BY <3>3, <3>4, <3>5
        <3>8. \E l \in 1..Len(s) : Bars(s, m, l)
            BY <3>2, <3>6, <3>7 DEF Settles, OthersBarred
        <3> QED BY <3>1, <3>6, <3>7, <3>8 DEF BarredIn
    <2> QED BY <2>3, <2>4
<1>5. ASSUME NEW r \in Resources, NEW x \in Owners, x # o, OwnsAll(queue[r], x)
      PROVE  OwnsAll(queue'[r], x)
    <2>1. CASE r \notin D
        <3>1. queue'[r] = queue[r]
            BY <1>2, <2>1
        <3> QED BY <1>5, <3>1
    <2>2. CASE r \in D
        <3>1. PICK q, s : q = queue[r] /\ s = queue'[r]
            OBVIOUS
        <3>2. Settles(q, s, posts, o)
            BY <1>2, <2>2, <3>1
        <3> SUFFICES ASSUME NEW m \in 1..Len(s), s[m].owner = x PROVE s[m].own
            BY <3>1 DEF OwnsAll
        <3>3. PICK k \in 1..Len(q) : q[k].owner = x
            BY <1>5, <3>2 DEF Settles, OthersFrom
        <3>4. q[k].own /\ q[k].owner # o
            BY <1>5, <3>1, <3>3 DEF OwnsAll
        <3>5. PICK l \in 1..Len(s) : s[l].owner = q[k].owner /\ (q[k].own => s[l].own)
            BY <3>2, <3>4, Zenon DEF Settles, OthersThere
        <3>6. OneEach(s)
            BY <3>2 DEF Settles, Fine, Queue
        <3>7. l = m
            BY <3>3, <3>5, <3>6 DEF OneEach
        <3> QED BY <3>4, <3>5, <3>7
    <2> QED BY <2>1, <2>2
<1> QED BY <1>2, <1>3, <1>4, <1>5

(* Nobody who waits is overtaken, and only the caller gives up a share.    *)
LEMMA CalledIsSafe ==
    ASSUME GrantInv, NEW o, NEW D, NEW posts, Called(o, D, posts)
    PROVE  NotOvertaken /\ SharesKept
<1>1. \A r \in Resources : Fine(queue[r]) /\ queue[r] \in Seq(Entry)
    BY DEF GrantInv
<1>2. /\ D \subseteq Resources /\ o \in Owners /\ Calls(o)
      /\ \A r \in D : Settles(queue[r], queue'[r], posts, o)
      /\ \A r \in Resources \ D : queue'[r] = queue[r]
      /\ \A r \in Resources : queue'[r] \in Seq(Entry)
    BY DEF Called
<1>3. NotOvertaken
    <2> SUFFICES ASSUME NEW r \in Resources, NEW k \in DOMAIN queue'[r],
                        queue'[r][k].own, ~Owns(queue'[r][k].owner, r),
                        NEW i \in 1..(k - 1), waiting[TaskOf(queue'[r][i].owner)]
                 PROVE  CanShare(queue'[r][i].active, queue'[r][k].active)
        BY Zenon DEF NotOvertaken
    <2>1. PICK q, s : q = queue[r] /\ s = queue'[r]
        OBVIOUS
    <2>2. q \in Seq(Entry) /\ s \in Seq(Entry) /\ k \in 1..Len(s) /\ i \in 1..Len(s)
        <3>1. s \in Seq(Entry) /\ q \in Seq(Entry)
            BY <1>1, <1>2, <2>1
        <3>2. k \in 1..Len(s) /\ Len(s) \in Nat
            BY <2>1, <3>1
        <3> QED BY <3>1, <3>2
    <2>3. ~OwnsIn(q, s[k].owner)
        <3>1. DOMAIN q = 1..Len(q)
            BY <2>2
        <3>2. ~\E a \in DOMAIN q : q[a].owner = s[k].owner /\ q[a].own
            BY <2>1, Zenon DEF Owns
        <3> QED BY <3>1, <3>2 DEF OwnsIn
    <2>4. s[k].own
        BY <2>1
    <2>5. s[i].owner # o
        BY <1>2, <2>1 DEF Calls
    <2>6. r \in D
        <3> SUFFICES ASSUME r \notin D PROVE FALSE
            OBVIOUS
        <3>1. s = q
            BY <1>2, <2>1
        <3> QED BY <2>2, <2>3, <2>4, <3>1 DEF OwnsIn
    <2>7. s[i].active.lv + s[k].active.lv <= 4
        <3>1. NoneOvertaken(q, s, o)
            BY <1>2, <2>1, <2>6 DEF Settles
        <3> QED BY <2>2, <2>3, <2>4, <2>5, <3>1, Zenon DEF NoneOvertaken
    <2>8. s[i].active \in Level /\ s[k].active \in Level
        <3>1. s[i] \in Entry /\ s[k] \in Entry
            BY <2>2
        <3> QED BY <3>1, EntryIs
    <2> QED BY <2>1, <2>7, <2>8, Shares
<1>4. SharesKept
    <2> SUFFICES ASSUME NEW r \in Resources, NEW x \in Owners, Owns(x, r), ~Owns(x, r)'
                 PROVE  x = o
        BY <1>2, Zenon DEF SharesKept
    <2> SUFFICES ASSUME x # o PROVE FALSE
        OBVIOUS
    <2>1. PICK q, s : q = queue[r] /\ s = queue'[r]
        OBVIOUS
    <2>2. q \in Seq(Entry) /\ s \in Seq(Entry) /\ DOMAIN q = 1..Len(q) /\ DOMAIN s = 1..Len(s)
        <3>1. s \in Seq(Entry) /\ q \in Seq(Entry)
            BY <1>1, <1>2, <2>1
        <3> QED BY <3>1
    <2>3. PICK k \in 1..Len(q) : q[k].owner = x /\ q[k].own
        BY <2>1, <2>2 DEF Owns
    <2>4. \A m \in 1..Len(s) : s[m].owner = x => ~s[m].own
        BY <2>1, <2>2 DEF Owns
    <2>5. CASE r \notin D
        <3>1. s = q
            BY <1>2, <2>1, <2>5
        <3> QED BY <2>3, <2>4, <3>1
    <2>6. CASE r \in D
        <3>1. Settles(q, s, posts, o)
            BY <1>2, <2>1, <2>6
        <3>2. PICK m \in 1..Len(s) : s[m].owner = q[k].owner /\ (q[k].own => s[m].own)
            BY <2>3, <3>1, Zenon DEF Settles, OthersThere
        <3> QED BY <2>3, <2>4, <3>2
    <2> QED BY <2>5, <2>6
<1> QED BY <1>3, <1>4

(* The invariant says what the runs check.                                 *)
LEMMA InvGrants == GrantInv => GrantsAreRight
<1> SUFFICES ASSUME GrantInv PROVE GrantsAreRight
    OBVIOUS
<1>1. \A r \in Resources : /\ Queue(queue[r]) /\ OwnersApart(queue[r])
                           /\ queue[r] \in Seq(Entry) /\ DOMAIN queue[r] = 1..Len(queue[r])
    BY DEF GrantInv, Fine
<1>2. \A r \in Resources : \A i \in 1..Len(queue[r]) : queue[r][i].active \in Level
    <2> SUFFICES ASSUME NEW r \in Resources, NEW i \in 1..Len(queue[r])
                 PROVE  queue[r][i].active \in Level
        OBVIOUS
    <2>1. queue[r][i] \in Entry
        BY <1>1
    <2> QED BY <2>1, EntryIs
<1>3. OwnersShare
    <2> SUFFICES ASSUME NEW r \in Resources, NEW i \in 1..Len(queue[r]),
                        NEW k \in 1..Len(queue[r]), i # k, queue[r][i].own, queue[r][k].own
                 PROVE  CanShare(queue[r][i].active, queue[r][k].active)
        BY <1>1, Zenon DEF OwnersShare
    <2>1. queue[r][i].active.lv + queue[r][k].active.lv <= 4
        BY <1>1 DEF OwnersApart
    <2> QED BY <1>2, <2>1, Shares
<1>4. WaitIsNeeded
    <2> SUFFICES ASSUME NEW t \in Tasks, waiting[t]
                 PROVE  \E r \in Resources : \E i \in DOMAIN queue[r] :
                            /\ TaskOf(queue[r][i].owner) = t /\ ~queue[r][i].own
                            /\ Barred(queue[r], i)
        BY Zenon DEF WaitIsNeeded
    <2>1. BarredIn(queue, t)
        BY DEF GrantInv
    <2>6. PICK r \in Resources : \E i \in 1..Len(queue[r]) :
              /\ TaskOf(queue[r][i].owner) = t /\ ~queue[r][i].own
              /\ \E l \in 1..Len(queue[r]) : Bars(queue[r], i, l)
        BY <2>1 DEF BarredIn
    <2>2. PICK i \in 1..Len(queue[r]) :
              /\ TaskOf(queue[r][i].owner) = t /\ ~queue[r][i].own
              /\ \E l \in 1..Len(queue[r]) : Bars(queue[r], i, l)
        BY <2>6
    <2>3. PICK l \in 1..Len(queue[r]) : Bars(queue[r], i, l)
        BY <2>2
    <2>4. ~CanShare(queue[r][l].active, queue[r][i].active)
        <3>1. PICK a \in Level, b \in Level : a = queue[r][l].active /\ b = queue[r][i].active
            BY <1>2
        <3>2. a.lv + b.lv > 4
            BY <2>3, <3>1 DEF Bars
        <3>3. a.lv \in 0..4 /\ b.lv \in 0..4 /\ (CanShare(a, b) <=> a.lv + b.lv <= 4)
            BY Shares
        <3>4. ~CanShare(a, b)
            BY <3>2, <3>3
        <3> QED BY <3>1, <3>4
    <2>5. Barred(queue[r], i)
        BY <1>1, <2>3, <2>4 DEF Barred, Bars
    <2> QED BY <1>1, <2>2, <2>5
<1> QED BY <1>3, <1>4 DEF GrantsAreRight

(***************************************************************************)
(* The steps.                                                              *)
(***************************************************************************)

(* What else the invariant asks of a call.                                 *)
LEMMA Settled ==
    ASSUME GrantInv, NEW o, NEW D, NEW posts, Called(o, D, posts),
           ended' \subseteq Tasks, priority' \in [Tasks -> Priority],
           rebuild' \subseteq Jobs \X Resources,
           \A x \in Jobs, r \in Resources : <<x, r>> \in rebuild' =>
               \/ <<x, r>> \in rebuild /\ (x # o \/ r \notin D)
               \/ OwnsAll(queue'[r], x)
    PROVE  GrantInv' /\ NotOvertaken /\ SharesKept
<1>1. /\ \A r \in Resources : Fine(queue'[r])
      /\ \A t \in Tasks : waiting'[t] => BarredIn(queue', t)
      /\ \A r \in Resources : \A x \in Owners :
             x # o /\ OwnsAll(queue[r], x) => OwnsAll(queue'[r], x)
    BY CalledKeeps
<1>2. ASSUME NEW x \in Jobs, NEW r \in Resources, <<x, r>> \in rebuild'
      PROVE  OwnsAll(queue'[r], x)
    <2>1. CASE OwnsAll(queue'[r], x)
        BY <2>1
    <2>2. CASE <<x, r>> \in rebuild /\ x # o
        <3>1. OwnsAll(queue[r], x) /\ x \in Owners
            BY <2>2 DEF GrantInv, Owners
        <3> QED BY <1>1, <2>2, <3>1
    <2>3. CASE <<x, r>> \in rebuild /\ r \notin D
        <3>1. OwnsAll(queue[r], x) /\ queue'[r] = queue[r]
            BY <2>3 DEF GrantInv, Called
        <3> QED BY <3>1
    <2> QED BY <1>2, <2>1, <2>2, <2>3
<1>3. queue' \in [Resources -> Seq(Entry)] /\ waiting' \in [Tasks -> BOOLEAN]
    BY DEF Called
<1>4. GrantInv'
    BY <1>1, <1>2, <1>3 DEF GrantInv
<1> QED BY <1>4, CalledIsSafe

(* A priority is the normal one or the highest that is stored.             *)
LEMMA PrioritiesAre ==
    ASSUME priority \in [Tasks -> Priority]
    PROVE  /\ \A holders : RaiseHolders(holders) \in [Tasks -> Priority]
           /\ \A o : RestoreHolder(o) \in [Tasks -> Priority]
<1>1. \A t \in Tasks : /\ priority[t] \in Priority
                       /\ priority[t].now \in {Normal, Highest} /\ priority[t].now < Ceiling
    <2> SUFFICES ASSUME NEW t \in Tasks
                 PROVE  /\ priority[t] \in Priority
                        /\ priority[t].now \in {Normal, Highest} /\ priority[t].now < Ceiling
        OBVIOUS
    <2>1. priority[t] \in Priority
        OBVIOUS
    <2>2. priority[t].now \in {Normal, Highest}
        BY <2>1 DEF Priority
    <2> QED BY <2>1, <2>2 DEF Normal, Highest, Ceiling
<1>2. SetPriority(Ceiling) = Highest
    BY DEF SetPriority, Ceiling, Highest
<1>3. \A t \in Tasks : [now |-> SetPriority(Ceiling), saved |-> priority[t].now] \in Priority
    BY <1>1, <1>2 DEF Priority
<1>4. \A holders : RaiseHolders(holders) \in [Tasks -> Priority]
    BY <1>1, <1>3 DEF RaiseHolders
<1>5. \A o : RestoreHolder(o) \in [Tasks -> Priority]
    <2>1. \A t \in Tasks : ~(priority[t].now >= Ceiling)
        BY <1>1 DEF Normal, Highest, Ceiling
    <2> QED BY <1>1, <2>1 DEF RestoreHolder
<1> QED BY <1>4, <1>5

LEMMA EnqueueKeeps ==
    ASSUME NotExtended, GrantInv, NEW o \in Owners, NEW r \in Resources, NEW share \in Requests,
           NEW nested \in BOOLEAN, NEW wait \in BOOLEAN, ResourceEnqueue(o, r, share, nested, wait)
    PROVE  GrantInv' /\ NotOvertaken /\ SharesKept
<1>1. PICK q : q = queue[r]
    OBVIOUS
<1>2. PICK walk : walk = Evaluate(EnqueueElement(q, o, share, nested), OwnedLevels(q, o), wait)
    OBVIOUS
<1>3. PICK k : k = Mine(walk.q, o)
    OBVIOUS
<1>4. PICK s : s = IF walk.q[k].own \/ wait THEN walk.q ELSE DequeueElement(walk.q, k)
    OBVIOUS
<1>5. PICK posts : posts = walk.posts
    OBVIOUS
<1>6. /\ Calls(o)
      /\ Mine(q, o) # 0 => IF nested THEN Len(q[Mine(q, o)].under) + 2 <= Nesting
                           ELSE ~q[Mine(q, o)].nested
      /\ priority' = IF r \in Critical THEN RaiseHolders(Holders(q, o)) ELSE priority
      /\ queue' = [queue EXCEPT ![r] = s]
      /\ waiting' = [Post(posts) EXCEPT ![TaskOf(o)] = wait /\ ~walk.q[k].own]
      /\ rebuild' = rebuild \ {<<o, r>>}
      /\ UNCHANGED ended
    BY <1>1, <1>2, <1>3, <1>4, <1>5 DEF ResourceEnqueue
<1>7. /\ queue \in [Resources -> Seq(Entry)] /\ Fine(q)
      /\ waiting \in [Tasks -> BOOLEAN] /\ ended \subseteq Tasks
      /\ priority \in [Tasks -> Priority] /\ rebuild \subseteq Jobs \X Resources
    BY <1>1 DEF GrantInv
<1>8. /\ Settles(q, s, posts, o) /\ walk.q[k].own \in BOOLEAN
      /\ wait /\ ~walk.q[k].own => WaitsBarred(s, o)
    <2>1. Enqueues(q, o, share, nested, wait, walk, k, s)
        BY <1>2, <1>3, <1>4, <1>6, <1>7 DEF Enqueues
    <2> QED BY <1>5, <2>1, EnqueueSettles
<1>9. s \in Seq(Entry) /\ TaskOf(o) \in Tasks
    BY <1>8, TaskOfIs DEF Settles, Fine, Queue
<1>10. queue' \in [Resources -> Seq(Entry)] /\ queue'[r] = s
       /\ \A x \in Resources \ {r} : queue'[x] = queue[x]
    BY <1>6, <1>7, <1>9
<1>11. Called(o, {r}, posts)
    <2>1. \A x \in {r} : Settles(queue[x], queue'[x], posts, o)
        BY <1>1, <1>8, <1>10
    <2>2. PICK w \in BOOLEAN : w = (wait /\ ~walk.q[k].own)
        BY <1>8
    <2>3. /\ waiting' \in [Tasks -> BOOLEAN] /\ waiting'[TaskOf(o)] = w
          /\ \A t \in Tasks : t # TaskOf(o) => waiting'[t] = (waiting[t] /\ t \notin posts)
        <3>1. waiting' = [Post(posts) EXCEPT ![TaskOf(o)] = w]
            BY <1>6, <2>2
        <3>2. Post(posts) \in [Tasks -> BOOLEAN]
              /\ \A t \in Tasks : Post(posts)[t] = (waiting[t] /\ t \notin posts)
            BY <1>7 DEF Post
        <3> QED BY <1>9, <3>1, <3>2
    <2>4. w => BarredIn(queue', TaskOf(o))
        BY <1>8, <1>10, <2>2 DEF BarredIn, WaitsBarred
    <2> QED BY <1>6, <1>10, <2>1, <2>3, <2>4 DEF Called
<1>12. priority' \in [Tasks -> Priority] /\ ended' \subseteq Tasks
       /\ rebuild' \subseteq Jobs \X Resources
    BY <1>6, <1>7, PrioritiesAre
<1>13. \A x \in Jobs, y \in Resources : <<x, y>> \in rebuild' =>
           <<x, y>> \in rebuild /\ (x # o \/ y \notin {r})
    BY <1>6
<1> QED BY <1>11, <1>12, <1>13, Settled

(* More may be posted than a queue asks for.                               *)
LEMMA MorePosts ==
    ASSUME NEW q, NEW s, NEW o, NEW posts, NEW more, posts \subseteq more, Settles(q, s, posts, o)
    PROVE  Settles(q, s, more, o)
<1>1. OthersThere(q, s, more, o)
    <2> SUFFICES ASSUME NEW k \in 1..Len(q), q[k].owner # o
                 PROVE  \E m \in 1..Len(s) :
                            /\ s[m].owner = q[k].owner
                            /\ q[k].own => s[m].own
                            /\ ~q[k].own /\ s[m].own => TaskOf(q[k].owner) \in more
        BY Zenon DEF OthersThere
    <2>1. PICK m \in 1..Len(s) :
              /\ s[m].owner = q[k].owner
              /\ q[k].own => s[m].own
              /\ ~q[k].own /\ s[m].own => TaskOf(q[k].owner) \in posts
        BY Zenon DEF Settles, OthersThere
    <2>2. TaskOf(q[k].owner) \in posts => TaskOf(q[k].owner) \in more
        OBVIOUS
    <2> QED BY <2>1, <2>2, Zenon
<1> QED BY <1>1 DEF Settles

LEMMA DequeueKeeps ==
    ASSUME GrantInv, NEW o \in Owners, NEW r \in Resources, ResourceDequeue(o, r)
    PROVE  GrantInv' /\ NotOvertaken /\ SharesKept
<1>1. PICK q : q = queue[r]
    OBVIOUS
<1>2. PICK i : i = Mine(q, o)
    OBVIOUS
<1>3. PICK R : R = Evaluate(IF i = 0 THEN q ELSE DequeueElement(q, i), OwnedLevels(q, o), FALSE)
    OBVIOUS
<1>4. PICK s, posts : s = R.q /\ posts = R.posts
    OBVIOUS
<1>5. /\ Calls(o)
      /\ priority' = IF r \in Critical THEN RestoreHolder(o) ELSE priority
      /\ queue' = [queue EXCEPT ![r] = s]
      /\ waiting' = Post(posts)
      /\ rebuild' = IF o \in Jobs /\ i # 0 /\ q[i].own /\ q[i].under # <<>>
                    THEN rebuild \cup {<<o, r>>} ELSE rebuild \ {<<o, r>>}
      /\ UNCHANGED ended
    BY <1>1, <1>2, <1>3, <1>4 DEF ResourceDequeue
<1>6. /\ queue \in [Resources -> Seq(Entry)] /\ Fine(q)
      /\ waiting \in [Tasks -> BOOLEAN] /\ ended \subseteq Tasks
      /\ priority \in [Tasks -> Priority] /\ rebuild \subseteq Jobs \X Resources
    BY <1>1 DEF GrantInv
<1>7. /\ Settles(q, s, posts, o)
      /\ i # 0 /\ q[i].own /\ q[i].under # <<>> => OwnsAll(s, o)
    <2>1. Dequeues(q, o, i, R)
        BY <1>2, <1>3, <1>6 DEF Dequeues
    <2> QED BY <1>4, <2>1, DequeueSettles
<1>8. s \in Seq(Entry) /\ TaskOf(o) \in Tasks
    BY <1>7, TaskOfIs DEF Settles, Fine, Queue
<1>9. queue' \in [Resources -> Seq(Entry)] /\ queue'[r] = s
      /\ \A x \in Resources \ {r} : queue'[x] = queue[x]
    BY <1>5, <1>6, <1>8
<1>10. Called(o, {r}, posts)
    <2>1. \A x \in {r} : Settles(queue[x], queue'[x], posts, o)
        BY <1>1, <1>7, <1>9
    <2>2. /\ waiting' \in [Tasks -> BOOLEAN]
          /\ \A t \in Tasks : waiting'[t] = (waiting[t] /\ t \notin posts)
        BY <1>5, <1>6 DEF Post
    <2>3. ~waiting'[TaskOf(o)]
        BY <1>5, <1>8, <2>2 DEF Calls
    <2> QED BY <1>5, <1>9, <2>1, <2>2, <2>3 DEF Called
<1>11. priority' \in [Tasks -> Priority] /\ ended' \subseteq Tasks
       /\ rebuild' \subseteq Jobs \X Resources
    <2>1. priority' \in [Tasks -> Priority]
        BY <1>5, <1>6, PrioritiesAre
    <2> QED BY <1>5, <1>6, <2>1
<1>12. \A x \in Jobs, y \in Resources : <<x, y>> \in rebuild' =>
           \/ <<x, y>> \in rebuild /\ (x # o \/ y \notin {r})
           \/ OwnsAll(queue'[y], x)
    <2> SUFFICES ASSUME NEW x \in Jobs, NEW y \in Resources, <<x, y>> \in rebuild',
                        ~(<<x, y>> \in rebuild /\ (x # o \/ y \notin {r}))
                 PROVE  OwnsAll(queue'[y], x)
        OBVIOUS
    <2>1. x = o /\ y = r /\ i # 0 /\ q[i].own /\ q[i].under # <<>>
        BY <1>5
    <2> QED BY <1>7, <1>9, <2>1
<1> QED BY <1>10, <1>11, <1>12, Settled

(* SVC 20 changes nothing but that its turn is over.                       *)
LEMMA RebuildKeeps ==
    ASSUME GrantInv, NEW j \in Jobs, NEW r \in Resources, SpecificResourceDequeue(j, r)
    PROVE  GrantInv' /\ NotOvertaken /\ SharesKept
<1>1. PICK q : q = queue[r]
    OBVIOUS
<1>2. PICK i : i = Mine(q, j)
    OBVIOUS
<1>3. PICK chain : chain = Rebuilt(Append(Reverse(q[i].under), WithoutUnder(q[i])))
    OBVIOUS
<1>4. PICK e : e = WithUnder([chain[Len(chain)] EXCEPT !.own = TRUE], Reverse(Front(chain)))
    OBVIOUS
<1>5. /\ Calls(j) /\ <<j, r>> \in rebuild /\ i # 0
      /\ queue' = [queue EXCEPT ![r][i] = e]
      /\ rebuild' = rebuild \ {<<j, r>>}
      /\ UNCHANGED <<waiting, ended, priority>>
    BY <1>1, <1>2, <1>3, <1>4 DEF SpecificResourceDequeue
<1>6. /\ queue \in [Resources -> Seq(Entry)] /\ Fine(q) /\ OwnsAll(q, j)
      /\ q \in Seq(Entry)
    BY <1>1, <1>5 DEF GrantInv, Fine, Queue
<1>7. i \in 1..Len(q) /\ q[i].owner = j
    BY <1>2, <1>5, <1>6, MineIs
<1>8. [q EXCEPT ![i] = e] = q
    <2>1. q[i].own
        BY <1>6, <1>7 DEF OwnsAll
    <2> QED BY <1>3, <1>4, <1>6, <1>7, <2>1, RebuildStays
<1>9. queue' = queue
    <2>1. queue' = [queue EXCEPT ![r] = [q EXCEPT ![i] = e]]
        BY <1>1, <1>5
    <2> QED BY <1>1, <1>6, <1>8, <2>1
<1>10. Called(j, {}, {})
    <2>1. waiting' = waiting /\ waiting \in [Tasks -> BOOLEAN]
        BY <1>5 DEF GrantInv
    <2>2. ~waiting[TaskOf(j)] /\ j \in Owners
        BY <1>5 DEF Calls, Owners
    <2> QED BY <1>5, <1>6, <1>9, <2>1, <2>2 DEF Called
<1>11. priority' \in [Tasks -> Priority] /\ ended' \subseteq Tasks
       /\ rebuild' \subseteq Jobs \X Resources
    BY <1>5 DEF GrantInv
<1>12. \A x \in Jobs, y \in Resources : <<x, y>> \in rebuild' =>
           <<x, y>> \in rebuild /\ (x # j \/ y \notin {})
    BY <1>5
<1> QED BY <1>10, <1>11, <1>12, Settled

LEMMA ReleaseKeeps ==
    ASSUME GrantInv, NEW t \in Tasks, ReleaseTaskResources(t)
    PROVE  GrantInv' /\ NotOvertaken /\ SharesKept
<1>1. PICK held : held = {r \in Resources : Mine(queue[r], t) # 0}
    OBVIOUS
<1>2. PICK posts : posts = UNION {Release(queue[r], t).posts : r \in held}
    OBVIOUS
<1>3. /\ Calls(t)
      /\ queue' = [r \in Resources |-> IF r \in held THEN Release(queue[r], t).q ELSE queue[r]]
      /\ waiting' = Post(posts)
      /\ ended' = ended \cup {t}
      /\ UNCHANGED <<priority, rebuild>>
    BY <1>1, <1>2 DEF ReleaseTaskResources
<1>4. /\ queue \in [Resources -> Seq(Entry)] /\ \A r \in Resources : Fine(queue[r])
      /\ waiting \in [Tasks -> BOOLEAN] /\ ended \subseteq Tasks
      /\ priority \in [Tasks -> Priority] /\ rebuild \subseteq Jobs \X Resources
    BY DEF GrantInv
<1>5. t \in Owners /\ TaskOf(t) = t
    BY ResourceAssumption DEF Owners, TaskOf
<1>6. ASSUME NEW r \in held PROVE Settles(queue[r], Release(queue[r], t).q, posts, t)
    <2>1. Settles(queue[r], Release(queue[r], t).q, Release(queue[r], t).posts, t)
        BY <1>1, <1>4, ReleaseSettles
    <2>2. Release(queue[r], t).posts \subseteq posts
        BY <1>2
    <2> QED BY <2>1, <2>2, MorePosts
<1>7. /\ queue' \in [Resources -> Seq(Entry)]
      /\ \A r \in held : queue'[r] = Release(queue[r], t).q
      /\ \A r \in Resources \ held : queue'[r] = queue[r]
    <2>1. held \subseteq Resources
        BY <1>1
    <2>2. \A r \in held : Release(queue[r], t).q \in Seq(Entry)
        BY <1>6 DEF Settles, Fine, Queue
    <2> QED BY <1>3, <1>4, <2>1, <2>2
<1>8. Called(t, held, posts)
    <2>1. /\ waiting' \in [Tasks -> BOOLEAN]
          /\ \A x \in Tasks : waiting'[x] = (waiting[x] /\ x \notin posts)
        BY <1>3, <1>4 DEF Post
    <2>2. ~waiting'[TaskOf(t)]
        BY <1>3, <1>5, <2>1 DEF Calls
    <2>3. held \subseteq Resources
        BY <1>1
    <2> QED BY <1>3, <1>5, <1>6, <1>7, <2>1, <2>2, <2>3 DEF Called
<1>9. \A x \in Jobs, y \in Resources : <<x, y>> \in rebuild' =>
          <<x, y>> \in rebuild /\ (x # t \/ y \notin held)
    BY <1>3, ResourceAssumption
<1>10. priority' \in [Tasks -> Priority] /\ ended' \subseteq Tasks
       /\ rebuild' \subseteq Jobs \X Resources
    BY <1>3, <1>4
<1> QED BY <1>8, <1>9, <1>10, Settled

(***************************************************************************)
(* The theorems.                                                           *)
(***************************************************************************)

LEMMA InitGranted == Init => GrantInv
<1> SUFFICES ASSUME Init PROVE GrantInv
    OBVIOUS
<1>1. queue = [r \in Resources |-> <<>>] /\ <<>> \in Seq(Entry) /\ Len(<<>>) = 0
    BY DEF Init
<1>2. Fine(<<>>)
    BY DEF Fine, Queue, Evaluated, OwnersApart, OneEach
<1>3. /\ waiting = [t \in Tasks |-> FALSE] /\ ended = {} /\ rebuild = {}
      /\ priority = [t \in Tasks |-> [now |-> Normal, saved |-> Normal]]
    BY DEF Init
<1>4. priority \in [Tasks -> Priority]
    BY <1>3 DEF Priority
<1> QED BY <1>1, <1>2, <1>3, <1>4 DEF GrantInv

(* Every call keeps the invariant, overtakes nobody and robs nobody.       *)
LEMMA StepGrants ==
    ASSUME NotExtended, GrantInv, [Next]_vars
    PROVE  GrantInv' /\ [NotOvertaken /\ SharesKept]_vars
<1>1. CASE UNCHANGED vars
    BY <1>1 DEF vars, GrantInv
<1>2. ASSUME NEW o \in Owners, NEW r \in Resources, NEW share \in Requests,
             NEW nested \in BOOLEAN, NEW wait \in BOOLEAN,
             ResourceEnqueue(o, r, share, nested, wait)
      PROVE  GrantInv' /\ NotOvertaken /\ SharesKept
    BY <1>2, EnqueueKeeps
<1>3. ASSUME NEW o \in Owners, NEW r \in Resources, ResourceDequeue(o, r)
      PROVE  GrantInv' /\ NotOvertaken /\ SharesKept
    BY <1>3, DequeueKeeps
<1>4. ASSUME NEW j \in Jobs, NEW r \in Resources, SpecificResourceDequeue(j, r)
      PROVE  GrantInv' /\ NotOvertaken /\ SharesKept
    BY <1>4, RebuildKeeps
<1>5. ASSUME NEW t \in Tasks, ReleaseTaskResources(t)
      PROVE  GrantInv' /\ NotOvertaken /\ SharesKept
    BY <1>5, ReleaseKeeps
<1> QED BY <1>1, <1>2, <1>3, <1>4, <1>5 DEF Next

THEOREM GrantInvHolds == NotExtended => (Spec => []GrantInv)
<1> SUFFICES ASSUME NotExtended PROVE Spec => []GrantInv
    OBVIOUS
<1>1. Init => GrantInv
    BY InitGranted
<1>2. GrantInv /\ [Next]_vars => GrantInv'
    BY StepGrants
<1> QED BY <1>1, <1>2, PTL DEF Spec

(* Where no request is for the extended level: what the walks grant can be *)
(* shared by all its owners, and a task sits in the resource wait only     *)
(* while something bars its request (resourceEvaluateQueue, and all that   *)
(* calls it).                                                              *)
THEOREM GrantsAreRightHolds == NotExtended => (Spec => []GrantsAreRight)
<1> SUFFICES ASSUME NotExtended PROVE Spec => []GrantsAreRight
    OBVIOUS
<1>1. Spec => []GrantInv
    BY GrantInvHolds
<1>2. GrantInv => GrantsAreRight
    BY InvGrants
<1> QED BY <1>1, <1>2, PTL

(* There also no call grants a request past one that waits before it and   *)
(* cannot share with it, and none takes from an owner what it holds.       *)
THEOREM WaitersAreSafeHolds == NotExtended => (Spec => WaitersAreSafe)
<1> SUFFICES ASSUME NotExtended PROVE Spec => WaitersAreSafe
    OBVIOUS
<1>1. Spec => []GrantInv
    BY GrantInvHolds
<1>2. GrantInv /\ [Next]_vars => [NotOvertaken /\ SharesKept]_vars
    BY StepGrants
<1> QED BY <1>1, <1>2, PTL DEF Spec, WaitersAreSafe
=============================================================================
