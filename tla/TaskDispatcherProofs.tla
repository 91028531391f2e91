------------------------ MODULE TaskDispatcherProofs ------------------------
(* Proofs that TaskDispatcher keeps every task in its own context, for     *)
(* every finite set of tasks, any priorities, keys and conditions, and the *)
(* host events whose delivery is right.                                    *)
EXTENDS TaskDispatcher, SequenceTheorems, FiniteSetTheorems, TLAPS

(* The host events that find the registers where they belong: at idle the  *)
(* ones that reload them, if they ready a task; while a task runs the ones *)
(* that do not.                                                            *)
RightlyDelivered ==
    /\ AtIdle \subseteq {"completion", "status"}
    /\ WhileRunning \subseteq {"completion", "condition"}
    /\ ~Unawaited

(* What a stop leaves: nothing to run, dispatching enabled, and the        *)
(* context of the task that stopped in its request block.                  *)
StoppedInv == stopped => enabled /\ idle /\ ready = <<>> /\ saved[current]

(* The inductive invariant, in two parts: the queues, which no host event  *)
(* disturbs, and the machine, which the wrong ones do.                     *)
QueueTyped ==
    /\ cond \in [Tasks -> SUBSET Conditions]
    /\ deferred \in [Tasks -> SUBSET {"task"}]
    /\ want \in [Tasks -> Keys \cup {AnyEvent, None}]
    /\ mask \in [Tasks -> SUBSET Masks]
    /\ events \in [Tasks -> [Keys -> 0..Elements]]
    /\ priority \in [Tasks -> 0..255] /\ floor \in [Tasks -> 0..255]
    /\ ready \in Seq(Tasks)

MachineTyped ==
    /\ current \in Tasks
    /\ redispatch \in BOOLEAN /\ enabled \in BOOLEAN
    /\ stopped \in BOOLEAN /\ idle \in BOOLEAN
    /\ live \in [of : Tasks, fresh : BOOLEAN]
    /\ saved \in [Tasks -> BOOLEAN]

QueueInv == QueueTyped /\ ReadyIffNotWaiting
MachineInv == WaiterNeverRuns /\ RunsOwnContext /\ StoppedInv

USE DEF waits, order, machine, contexts, vars

(* Inserting puts the tasks of the set on the queue, each task once.       *)
LEMMA InsertedQueue ==
  ASSUME NEW q \in Seq(Tasks), NEW set \in SUBSET Tasks, NEW p, NEW r \in Inserted(q, set, p)
  PROVE  /\ r \in Seq(Tasks)
         /\ IsInjective(r)
         /\ Range(r) = Range(q) \cup set
<1> DEFINE S == Range(q) \cup set
           n == Cardinality(S)
<1>1. S \subseteq Tasks
  BY DEF Range
<1>2. IsFiniteSet(S) /\ n \in Nat
  BY <1>1, FS_Subset, FS_CardinalityType, DispatcherAssumption DEF DispatcherAssumption
<1>3. r \in [1..n -> S] /\ Range(r) = S
  BY DEF Inserted
<1>4. r \in Surjection(1..n, S)
  BY <1>3 DEF Surjection, Range
<1>5. IsFiniteSet(1..n) /\ Cardinality(1..n) = n
  BY <1>2, FS_Interval
<1>6. r \in Injection(1..n, S)
  BY <1>2, <1>4, <1>5, FS_SurjSameCardinalityImpliesInj
<1>7. IsInjective(r)
  BY <1>6 DEF Injection, IsInjective
<1>8. r \in Seq(Tasks)
  <2> HIDE DEF S, n
  <2>1. r \in [1..n -> Tasks]
    BY <1>1, <1>3
  <2> QED
    BY <1>2, <2>1
<1> QED
  BY <1>3, <1>7, <1>8

(* Removing takes the one task from the queue.                             *)
LEMMA WithoutQueue ==
  ASSUME NEW q \in Seq(Tasks), IsInjective(q), NEW t \in Tasks
  PROVE  /\ Without(q, t) \in Seq(Tasks)
         /\ IsInjective(Without(q, t))
         /\ Range(Without(q, t)) = Range(q) \ {t}
         /\ \A j, k \in DOMAIN Without(q, t) : j < k =>
               \E m, n \in DOMAIN q : m < n /\ Without(q, t)[j] = q[m] /\ Without(q, t)[k] = q[n]
<1>1. CASE t \notin Range(q)
  BY <1>1 DEF Without
<1>2. CASE t \in Range(q)
  <2> DEFINE i == CHOOSE k \in DOMAIN q : q[k] = t
             w == Without(q, t)
  <2>1. DOMAIN q = 1..Len(q) /\ Len(q) \in Nat /\ \A k \in 1..Len(q) : q[k] \in Tasks
    BY LenProperties
  <2>2. i \in 1..Len(q) /\ q[i] = t
    BY <1>2, <2>1 DEF Range
  <2>3. w = SubSeq(q, 1, i - 1) \o SubSeq(q, i + 1, Len(q))
    BY <1>2 DEF Without, RemoveAt
  <2> HIDE DEF i, w
  <2>4. /\ w \in Seq(Tasks)
        /\ Len(w) = Len(q) - 1
        /\ \A k \in 1..Len(w) : w[k] = IF k < i THEN q[k] ELSE q[k + 1]
    <3> DEFINE a == SubSeq(q, 1, i - 1)
               b == SubSeq(q, i + 1, Len(q))
    <3>1. /\ a \in Seq(Tasks) /\ Len(a) = i - 1
          /\ \A k \in 1..(i - 1) : a[k] = q[k]
      BY <2>1, <2>2
    <3>2. /\ b \in Seq(Tasks) /\ Len(b) = Len(q) - i
          /\ \A k \in 1..(Len(q) - i) : b[k] = q[i + k]
      <4>0. i + 1 \in Int /\ Len(q) \in Int /\ Len(q) - (i + 1) + 1 = Len(q) - i
        BY <2>1, <2>2
      <4>1. \A k \in (i + 1)..Len(q) : q[k] \in Tasks
        <5>1. ASSUME NEW k \in (i + 1)..Len(q)  PROVE k \in 1..Len(q)
          BY <2>1, <2>2
        <5> QED
          BY <2>1, <5>1
      <4>3. \A k \in 1..(Len(q) - i) : (i + 1) + k - 1 = i + k
        BY <2>1, <2>2
      <4>4. (IF i + 1 <= Len(q) THEN Len(q) - (i + 1) + 1 ELSE 0) = Len(q) - i
        <5>1. \A n \in Nat : \A m \in 1..n : (IF m + 1 <= n THEN n - (m + 1) + 1 ELSE 0) = n - m
          OBVIOUS
        <5> QED
          BY <2>1, <2>2, <5>1
      <4>2. /\ b \in Seq(Tasks)
            /\ Len(b) = IF i + 1 <= Len(q) THEN Len(q) - (i + 1) + 1 ELSE 0
            /\ \A k \in 1..(Len(q) - (i + 1) + 1) : b[k] = q[(i + 1) + k - 1]
        BY <4>0, <4>1, SubSeqProperties
      <4> QED
        BY <4>0, <4>2, <4>3, <4>4
    <3> HIDE DEF a, b
    <3>3. /\ w \in Seq(Tasks) /\ Len(w) = Len(a) + Len(b)
          /\ \A k \in 1..Len(w) : w[k] = IF k <= Len(a) THEN a[k] ELSE b[k - Len(a)]
      BY <2>3, <3>1, <3>2, ConcatProperties DEF a, b
    <3>4. ASSUME NEW k \in 1..Len(w), k >= i  PROVE b[k - Len(a)] = q[k + 1]
      <4>1. k - Len(a) \in 1..(Len(q) - i) /\ i + (k - Len(a)) = k + 1
        BY <2>1, <2>2, <3>1, <3>2, <3>3, <3>4
      <4> QED
        BY <3>2, <4>1
    <3> QED
      BY <2>1, <2>2, <3>1, <3>2, <3>3, <3>4
  <2>5. DOMAIN w = 1..Len(w)
    BY <2>4, LenProperties
  <2>6. \A j, k \in 1..Len(q) : q[j] = q[k] => j = k
    BY <2>1 DEF IsInjective
  <2>7. IsInjective(w)
    BY <2>1, <2>2, <2>4, <2>5, <2>6 DEF IsInjective
  <2>8. Range(w) = Range(q) \ {t}
    <3>1. ASSUME NEW k \in 1..Len(w)  PROVE w[k] \in Range(q) \ {t}
      <4>1. PICK j \in 1..Len(q) : j # i /\ w[k] = q[j]
        BY <2>1, <2>2, <2>4
      <4> QED
        BY <2>1, <2>2, <2>6, <4>1 DEF Range
    <3>2. ASSUME NEW k \in 1..Len(q), q[k] # t  PROVE q[k] \in Range(w)
      <4>1. CASE k < i
        BY <2>1, <2>2, <2>4, <2>5, <4>1 DEF Range
      <4>2. CASE k > i
        <5>1. k - 1 \in 1..Len(w) /\ w[k - 1] = q[k]
          BY <2>1, <2>2, <2>4, <4>2
        <5> QED
          BY <2>5, <5>1 DEF Range
      <4> QED
        BY <2>1, <2>2, <3>2, <4>1, <4>2
    <3> QED
      BY <2>1, <2>5, <3>1, <3>2 DEF Range
  <2>9. ASSUME NEW j \in DOMAIN w, NEW k \in DOMAIN w, j < k
        PROVE  \E m, n \in DOMAIN q : m < n /\ w[j] = q[m] /\ w[k] = q[n]
    <3>1. PICK m \in 1..Len(q) : w[j] = q[m] /\ m = IF j < i THEN j ELSE j + 1
      BY <2>1, <2>2, <2>4, <2>5
    <3>2. PICK n \in 1..Len(q) : w[k] = q[n] /\ n = IF k < i THEN k ELSE k + 1
      BY <2>1, <2>2, <2>4, <2>5
    <3>3. m < n
      BY <2>2, <2>4, <2>5, <2>9, <3>1, <3>2
    <3> QED
      BY <2>1, <3>1, <3>2, <3>3
  <2> QED
    BY <2>4, <2>7, <2>8, <2>9 DEF w
<1> QED
  BY <1>1, <1>2

LEMMA HeadInRange ==
  ASSUME NEW s \in Seq(Tasks), s # <<>>
  PROVE  Head(s) \in Tasks /\ Head(s) \in Range(s) /\ 1 \in DOMAIN s /\ Head(s) = s[1]
<1>1. DOMAIN s = 1..Len(s) /\ Len(s) \in Nat \ {0}
  BY LenProperties, EmptySeq
<1>2. 1 \in DOMAIN s /\ s[1] \in Tasks
  BY <1>1, ElementOfSeq
<1>3. Head(s) = s[1]
  BY <1>1
<1> QED
  BY <1>2, <1>3 DEF Range

(* What is selected is no task, or one that waits for nothing.             *)
LEMMA Selected ==
  ASSUME current \in Tasks, QueueInv', NEW on \in BOOLEAN
  PROVE  /\ Select(on) # None => Select(on) \in Tasks /\ cond'[Select(on)] = {}
         /\ on /\ Select(on) = None => ready' = <<>>
<1>1. ready' \in Seq(Tasks) /\ Range(ready') = {t \in Tasks : cond'[t] = {}}
  BY DEF QueueInv, QueueTyped, ReadyIffNotWaiting
<1>2. None \notin Tasks
  BY DispatcherAssumption DEF DispatcherAssumption
<1>3. CASE on /\ ready' # <<>>
  <2>1. Select(on) = Head(ready')
    BY <1>3 DEF Select
  <2>2. Head(ready') \in Tasks /\ Head(ready') \in Range(ready')
    BY <1>1, <1>3, HeadInRange
  <2> QED
    BY <1>1, <1>2, <2>1, <2>2
<1>4. CASE on /\ ready' = <<>>
  BY <1>4 DEF Select
<1>5. CASE ~on
  BY <1>5 DEF Select
<1> QED
  BY <1>3, <1>4, <1>5

-----------------------------------------------------------------------------
(* The queues.                                                             *)

(* Readying the tasks of a set that are left with no condition.            *)
LEMMA Readied ==
  ASSUME QueueInv, NEW set \in SUBSET Tasks, NEW p, NEW r \in Inserted(ready, set, p),
         NEW c \in [Tasks -> SUBSET Conditions],
         \A t \in Tasks : c[t] = {} <=> cond[t] = {} \/ t \in set
  PROVE  r \in Seq(Tasks) /\ IsInjective(r) /\ Range(r) = {t \in Tasks : c[t] = {}}
<1>1. ready \in Seq(Tasks) /\ Range(ready) = {t \in Tasks : cond[t] = {}}
  BY DEF QueueInv, QueueTyped, ReadyIffNotWaiting
<1>2. r \in Seq(Tasks) /\ IsInjective(r) /\ Range(r) = Range(ready) \cup set
  BY <1>1, InsertedQueue
<1> QED
  BY <1>1, <1>2

(* Taking off a task that waits from now on.                               *)
LEMMA Unreadied ==
  ASSUME QueueInv, NEW t \in Tasks, NEW c \in [Tasks -> SUBSET Conditions],
         c[t] # {}, \A u \in Tasks \ {t} : c[u] = cond[u]
  PROVE  LET r == Without(ready, t)
         IN  r \in Seq(Tasks) /\ IsInjective(r) /\ Range(r) = {u \in Tasks : c[u] = {}}
<1>1. ready \in Seq(Tasks) /\ IsInjective(ready) /\ Range(ready) = {u \in Tasks : cond[u] = {}}
  BY DEF QueueInv, QueueTyped, ReadyIffNotWaiting
<1>2. /\ Without(ready, t) \in Seq(Tasks) /\ IsInjective(Without(ready, t))
      /\ Range(Without(ready, t)) = Range(ready) \ {t}
  BY <1>1, WithoutQueue
<1> QED
  BY <1>1, <1>2

(* Moving a task to the place of its new priority.                         *)
LEMMA Moved ==
  ASSUME QueueInv, NEW t \in Tasks, NEW n \in 0..255, SetPriority(t, n)
  PROVE  /\ priority' \in [Tasks -> 0..255]
         /\ ready' \in Seq(Tasks) /\ IsInjective(ready')
         /\ Range(ready') = {u \in Tasks : cond[u] = {}}
<1>1. /\ ready \in Seq(Tasks) /\ IsInjective(ready) /\ Range(ready) = {u \in Tasks : cond[u] = {}}
      /\ priority \in [Tasks -> 0..255]
  BY DEF QueueInv, QueueTyped, ReadyIffNotWaiting
<1>2. priority' \in [Tasks -> 0..255]
  BY <1>1 DEF SetPriority
<1>3. CASE cond[t] = {}
  <2>1. /\ Without(ready, t) \in Seq(Tasks)
        /\ Range(Without(ready, t)) = Range(ready) \ {t}
    BY <1>1, WithoutQueue
  <2>2. ready' \in Inserted(Without(ready, t), {t}, priority')
    BY <1>3 DEF SetPriority
  <2>3. /\ ready' \in Seq(Tasks) /\ IsInjective(ready')
        /\ Range(ready') = Range(Without(ready, t)) \cup {t}
    BY <2>1, <2>2, InsertedQueue
  <2> QED
    BY <1>1, <1>2, <1>3, <2>1, <2>3
<1>4. CASE cond[t] # {}
  BY <1>1, <1>2, <1>4 DEF SetPriority
<1> QED
  BY <1>3, <1>4

(* A priority stays a byte.                                                *)
LEMMA LoweredByte ==
  ASSUME QueueInv, NEW t \in Tasks, NEW n \in 0..255
  PROVE  Lowered(t, n) \in 0..255 /\ Stored(t, n) \in 0..255
<1>1. Bias[t] \in Nat /\ floor[t] \in 0..255
  BY DispatcherAssumption DEF DispatcherAssumption, QueueInv, QueueTyped
<1>2. ASSUME NEW m \in 0..255  PROVE Stored(t, m) \in 0..255
  <2>1. \A a \in 0..255 : \A b \in Nat : (IF a + 4 * b > 236 THEN 236 ELSE a + 4 * b) \in 0..255
    OBVIOUS
  <2> QED
    BY <1>1, <2>1 DEF Stored
<1>3. (n + 252) % 256 \in 0..255
  OBVIOUS
<1> QED
  BY <1>1, <1>2, <1>3 DEF Lowered

(* Taking an element, and queueing one.                                    *)
LEMMA ElementsCounted ==
  ASSUME QueueInv, NEW t \in Tasks, NEW k \in Keys
  PROVE  /\ events[t][k] > 0 => Taken(t, k) \in [Tasks -> [Keys -> 0..Elements]]
         /\ events[t][k] < Elements => Queued(t, k) \in [Tasks -> [Keys -> 0..Elements]]
<1>1. events \in [Tasks -> [Keys -> 0..Elements]] /\ Elements \in Nat
  BY DispatcherAssumption DEF DispatcherAssumption, QueueInv, QueueTyped
<1>2. events[t] \in [Keys -> 0..Elements] /\ events[t][k] \in 0..Elements
  BY <1>1
<1>3. ASSUME NEW n \in 0..Elements
      PROVE  [events EXCEPT ![t][k] = n] \in [Tasks -> [Keys -> 0..Elements]]
  BY <1>1, <1>2
<1>4. events[t][k] > 0 => events[t][k] - 1 \in 0..Elements
  BY <1>1, <1>2
<1>5. events[t][k] < Elements => events[t][k] + 1 \in 0..Elements
  BY <1>1, <1>2
<1> QED
  BY <1>3, <1>4, <1>5 DEF Taken, Queued

LEMMA QueueWait ==
  ASSUME QueueInv, current \in Tasks, NEW condition \in Conditions, Wait(condition)
  PROVE  /\ cond' \in [Tasks -> SUBSET Conditions]
         /\ ready' \in Seq(Tasks) /\ ReadyIffNotWaiting'
<1>1. cond' \in [Tasks -> SUBSET Conditions]
      /\ cond'[current] # {} /\ \A u \in Tasks \ {current} : cond'[u] = cond[u]
  BY DEF Wait, QueueInv, QueueTyped
<1>2. ready' = Without(ready, current)
  BY DEF Wait
<1> QED
  BY <1>1, <1>2, Unreadied DEF ReadyIffNotWaiting

(* A post of one task, or of several.                                      *)
LEMMA QueuePost ==
  ASSUME QueueInv, NEW set \in SUBSET Tasks, NEW condition,
         NEW c, c = ClearedOf(cond, set, condition),
         NEW p, NEW r \in Inserted(ready, ReadiedOf(set, c), p)
  PROVE  /\ c \in [Tasks -> SUBSET Conditions]
         /\ r \in Seq(Tasks) /\ IsInjective(r) /\ Range(r) = {t \in Tasks : c[t] = {}}
<1>1. cond \in [Tasks -> SUBSET Conditions]
  BY DEF QueueInv, QueueTyped
<1>2. c \in [Tasks -> SUBSET Conditions]
  BY <1>1 DEF ClearedOf
<1>3. ReadiedOf(set, c) \in SUBSET Tasks
  BY DEF ReadiedOf
<1>4. \A t \in Tasks : c[t] = {} <=> cond[t] = {} \/ t \in ReadiedOf(set, c)
  BY <1>1 DEF ClearedOf, ReadiedOf
<1>5. PICK readied \in SUBSET Tasks : readied = ReadiedOf(set, c)
  BY <1>3
<1>6. /\ \A t \in Tasks : c[t] = {} <=> cond[t] = {} \/ t \in readied
      /\ r \in Inserted(ready, readied, p)
  BY <1>4, <1>5
<1>7. r \in Seq(Tasks) /\ IsInjective(r) /\ Range(r) = {t \in Tasks : c[t] = {}}
  BY <1>2, <1>6, Readied
<1> QED
  BY <1>2, <1>7

LEMMA QueueComplete ==
  ASSUME QueueInv, NEW t \in Tasks, NEW k \in Keys, Complete(t, k)
  PROVE  QueueInv'
<1>1. CASE Wakes(t, k)
  <2>1. /\ cond' = ClearedOf(cond, {t}, "event")
        /\ ready' \in Inserted(ready, ReadiedOf({t}, cond'), priority)
    BY <1>1 DEF Complete
  <2>2. /\ cond' \in [Tasks -> SUBSET Conditions]
        /\ ready' \in Seq(Tasks) /\ ReadyIffNotWaiting'
    BY <2>1, QueuePost DEF ReadyIffNotWaiting
  <2> QED
    BY <1>1, <2>2 DEF Complete, QueueInv, QueueTyped
<1>2. CASE ~Wakes(t, k)
  <2>1. events' \in [Tasks -> [Keys -> 0..Elements]]
    BY <1>2, ElementsCounted DEF Complete
  <2> QED
    BY <1>2, <2>1 DEF Complete, QueueInv, QueueTyped, ReadyIffNotWaiting
<1> QED
  BY <1>1, <1>2

-----------------------------------------------------------------------------
(* The supervisor calls.                                                   *)

SupervisorCall ==
    \/ OtherCall
    \/ \E w \in Keys \cup {AnyEvent}, long \in BOOLEAN : EventTaken(w, long) \/ EventWait(w, long)
    \/ \E m \in Masks : GeneralWait(m) \/ GeneralPost(m)
    \/ \E long \in BOOLEAN : TaskWait(long)
    \/ \E t \in Tasks : AsynchronousTaskWait(t) \/ DeferredTaskWait(t) \/ TaskPost(t)
    \/ \E t \in Tasks, k \in Keys : PostTask(t, k)
    \/ \E t \in Tasks, n \in Requested : TaskBlockPriorityQueue(t, n)

(* How a call ends: only one that enables dispatching, and asks for it,    *)
(* waits; any other leaves its task with no condition it had not.          *)
CallEnds ==
    /\ ~stopped
    /\ enabled' \in BOOLEAN
    /\ \E asked, waiting \in BOOLEAN :
          /\ EndOfCall(asked, waiting)
          /\ waiting => asked /\ enabled'
          /\ ~waiting => cond'[current] \subseteq cond[current]

LEMMA WaitEnds ==
  ASSUME ~stopped, NEW condition, Wait(condition)
  PROVE  CallEnds
BY DEF Wait, CallEnds

LEMMA CallQueues ==
  ASSUME QueueInv, MachineTyped, SupervisorCall
  PROVE  QueueInv' /\ CallEnds
<1>1. current \in Tasks /\ enabled \in BOOLEAN
  BY DEF MachineTyped
<1>2. CASE OtherCall
  <2>1. QueueInv'
    BY <1>2 DEF OtherCall, QueueInv, QueueTyped, ReadyIffNotWaiting
  <2>2. CallEnds
    BY <1>1, <1>2 DEF OtherCall, CallEnds
  <2> QED
    BY <2>1, <2>2
<1>3. ASSUME NEW w \in Keys \cup {AnyEvent}, NEW long \in BOOLEAN, EventTaken(w, long)
      PROVE  QueueInv' /\ CallEnds
  <2>1. events' \in [Tasks -> [Keys -> 0..Elements]]
    <3>1. CASE \E k \in Pending(current, w) : events' = Taken(current, k)
      BY <1>1, <3>1, ElementsCounted DEF Pending
    <3>2. CASE events' = events
      BY <3>2 DEF QueueInv, QueueTyped
    <3> QED
      BY <1>3, <3>1, <3>2 DEF EventTaken
  <2>2. /\ priority' \in [Tasks -> 0..255]
        /\ ready' \in Seq(Tasks) /\ IsInjective(ready')
        /\ Range(ready') = {u \in Tasks : cond[u] = {}}
    <3>1. CASE long
      <4>1. priority[current] \in 0..255
        BY <1>1 DEF QueueInv, QueueTyped
      <4>2. Lowered(current, priority[current]) \in 0..255
        BY <1>1, <4>1, LoweredByte
      <4>3. SetPriority(current, Lowered(current, priority[current]))
        BY <1>3, <3>1 DEF EventTaken
      <4> QED
        BY <1>1, <4>2, <4>3, Moved
    <3>2. CASE ~long
      BY <1>3, <3>2 DEF EventTaken, QueueInv, QueueTyped, ReadyIffNotWaiting
    <3> QED
      BY <3>1, <3>2
  <2>3. QueueInv'
    BY <1>3, <2>1, <2>2 DEF EventTaken, QueueInv, QueueTyped, ReadyIffNotWaiting
  <2>4. CallEnds
    BY <1>1, <1>3 DEF EventTaken, CallEnds
  <2> QED
    BY <2>3, <2>4
<1>4. ASSUME NEW w \in Keys \cup {AnyEvent}, NEW long \in BOOLEAN, EventWait(w, long)
      PROVE  QueueInv' /\ CallEnds
  <2>1. ~stopped /\ Wait("event") /\ "event" \in Conditions
    BY <1>4 DEF EventWait, Conditions
  <2>2. priority' \in [Tasks -> 0..255]
    <3>1. priority \in [Tasks -> 0..255] /\ priority[current] \in 0..255
      BY <1>1 DEF QueueInv, QueueTyped
    <3>2. Lowered(current, priority[current]) \in 0..255
      BY <1>1, <3>1, LoweredByte
    <3>3. Lowered(current, Lowered(current, priority[current])) \in 0..255
      BY <1>1, <3>2, LoweredByte
    <3> QED
      BY <1>4, <3>1, <3>3 DEF EventWait
  <2>3. want' \in [Tasks -> Keys \cup {AnyEvent, None}]
    BY <1>1, <1>4 DEF EventWait, QueueInv, QueueTyped
  <2>4. QueueInv'
    <3>1. /\ cond' \in [Tasks -> SUBSET Conditions]
          /\ ready' \in Seq(Tasks) /\ ReadyIffNotWaiting'
      BY <1>1, <2>1, QueueWait
    <3> QED
      BY <1>4, <2>2, <2>3, <3>1 DEF EventWait, QueueInv, QueueTyped
  <2> QED
    BY <2>1, <2>4, WaitEnds
<1>5. ASSUME NEW m \in Masks, GeneralWait(m)
      PROVE  QueueInv' /\ CallEnds
  <2>1. ~stopped /\ Wait("general") /\ "general" \in Conditions
    BY <1>5 DEF GeneralWait, Conditions
  <2>2. mask' \in [Tasks -> SUBSET Masks]
    BY <1>5 DEF GeneralWait, QueueInv, QueueTyped
  <2>3. /\ cond' \in [Tasks -> SUBSET Conditions]
        /\ ready' \in Seq(Tasks) /\ ReadyIffNotWaiting'
    BY <1>1, <2>1, QueueWait
  <2>4. QueueInv'
    BY <1>5, <2>2, <2>3 DEF GeneralWait, QueueInv, QueueTyped
  <2> QED
    BY <2>1, <2>4, WaitEnds
<1>6. ASSUME NEW m \in Masks, GeneralPost(m)
      PROVE  QueueInv' /\ CallEnds
  <2> DEFINE posted == {t \in Tasks : m \in mask[t]}
  <2>1. posted \in SUBSET Tasks
    OBVIOUS
  <2>2. /\ cond' = ClearedOf(cond, posted, "general")
        /\ mask' = [t \in Tasks |-> IF t \in posted THEN {} ELSE mask[t]]
        /\ ready' \in Inserted(ready, ReadiedOf(posted, cond'), priority)
        /\ UNCHANGED <<deferred, want, events, priority, floor, enabled>>
        /\ EndOfCall(ReadiedOf(posted, cond') # {}, FALSE)
        /\ ~stopped
    BY <1>6 DEF GeneralPost
  <2> HIDE DEF posted
  <2>3. /\ cond' \in [Tasks -> SUBSET Conditions]
        /\ ready' \in Seq(Tasks) /\ ReadyIffNotWaiting'
    BY <2>1, <2>2, QueuePost DEF ReadyIffNotWaiting
  <2>4. mask' \in [Tasks -> SUBSET Masks]
    BY <2>2 DEF QueueInv, QueueTyped
  <2>5. QueueInv'
    BY <2>2, <2>3, <2>4 DEF QueueInv, QueueTyped
  <2>6. cond'[current] \subseteq cond[current]
    BY <1>1, <2>2 DEF ClearedOf
  <2>7. CallEnds
    BY <1>1, <2>2, <2>6 DEF CallEnds
  <2> QED
    BY <2>5, <2>7
<1>7. ASSUME NEW long \in BOOLEAN, TaskWait(long)
      PROVE  QueueInv' /\ CallEnds
  <2>1. ~stopped /\ Wait("task") /\ "task" \in Conditions
    BY <1>7 DEF TaskWait, Conditions
  <2>2. priority' \in [Tasks -> 0..255]
    <3>1. priority \in [Tasks -> 0..255] /\ priority[current] \in 0..255
      BY <1>1 DEF QueueInv, QueueTyped
    <3>2. Lowered(current, priority[current]) \in 0..255
      BY <1>1, <3>1, LoweredByte
    <3> QED
      BY <1>7, <3>1, <3>2 DEF TaskWait
  <2>3. /\ cond' \in [Tasks -> SUBSET Conditions]
        /\ ready' \in Seq(Tasks) /\ ReadyIffNotWaiting'
    BY <1>1, <2>1, QueueWait
  <2>4. QueueInv'
    BY <1>7, <2>2, <2>3 DEF TaskWait, QueueInv, QueueTyped
  <2> QED
    BY <2>1, <2>4, WaitEnds
<1>8. ASSUME NEW t \in Tasks, AsynchronousTaskWait(t)
      PROVE  QueueInv' /\ CallEnds
  <2>1. /\ cond' = [cond EXCEPT ![t] = @ \cup {"task"} \cup deferred[t]]
        /\ deferred' = [deferred EXCEPT ![t] = {}]
        /\ ready' = Without(ready, t) /\ t # current
    BY <1>8 DEF AsynchronousTaskWait
  <2>2. /\ cond' \in [Tasks -> SUBSET Conditions] /\ cond'[t] # {}
        /\ \A u \in Tasks \ {t} : cond'[u] = cond[u]
        /\ deferred' \in [Tasks -> SUBSET {"task"}]
    BY <2>1 DEF QueueInv, QueueTyped, Conditions
  <2>3. ready' \in Seq(Tasks) /\ ReadyIffNotWaiting'
    BY <2>1, <2>2, Unreadied DEF ReadyIffNotWaiting
  <2>4. QueueInv'
    BY <1>8, <2>2, <2>3 DEF AsynchronousTaskWait, QueueInv, QueueTyped
  <2>5. CallEnds
    BY <1>1, <1>8, <2>1, <2>2 DEF AsynchronousTaskWait, CallEnds
  <2> QED
    BY <2>4, <2>5
<1>9. ASSUME NEW t \in Tasks, DeferredTaskWait(t)
      PROVE  QueueInv' /\ CallEnds
  <2>1. QueueInv'
    BY <1>9 DEF DeferredTaskWait, QueueInv, QueueTyped, ReadyIffNotWaiting
  <2>2. CallEnds
    BY <1>1, <1>9 DEF DeferredTaskWait, CallEnds
  <2> QED
    BY <2>1, <2>2
<1>10. ASSUME NEW t \in Tasks, TaskPost(t)
       PROVE  QueueInv' /\ CallEnds
  <2>1. /\ cond' = ClearedOf(cond, {t}, "task")
        /\ ready' \in Inserted(ready, ReadiedOf({t}, cond'), priority)
    BY <1>10 DEF TaskPost
  <2>2. /\ cond' \in [Tasks -> SUBSET Conditions]
        /\ ready' \in Seq(Tasks) /\ ReadyIffNotWaiting'
    BY <2>1, QueuePost DEF ReadyIffNotWaiting
  <2>3. deferred' \in [Tasks -> SUBSET {"task"}]
    BY <1>10 DEF TaskPost, ClearedOf, QueueInv, QueueTyped
  <2>4. QueueInv'
    BY <1>10, <2>2, <2>3 DEF TaskPost, QueueInv, QueueTyped
  <2>5. cond'[current] \subseteq cond[current]
    BY <1>1, <2>1 DEF ClearedOf
  <2>6. CallEnds
    BY <1>1, <1>10, <2>5 DEF TaskPost, CallEnds
  <2> QED
    BY <2>4, <2>6
<1>11. ASSUME NEW t \in Tasks, NEW k \in Keys, PostTask(t, k)
       PROVE  QueueInv' /\ CallEnds
  <2>1. QueueInv'
    BY <1>11, QueueComplete DEF PostTask
  <2>2. cond'[current] \subseteq cond[current]
    BY <1>1, <1>11 DEF PostTask, Complete, ClearedOf
  <2>3. CallEnds
    BY <1>1, <1>11, <2>2 DEF PostTask, CallEnds
  <2> QED
    BY <2>1, <2>3
<1>12. ASSUME NEW t \in Tasks, NEW n \in Requested, TaskBlockPriorityQueue(t, n)
       PROVE  QueueInv' /\ CallEnds
  <2>1. n \in 0..255
    BY DispatcherAssumption DEF DispatcherAssumption
  <2>2. Stored(t, n) \in 0..255 /\ SetPriority(t, Stored(t, n))
    BY <1>12, <2>1, LoweredByte DEF TaskBlockPriorityQueue
  <2>3. /\ priority' \in [Tasks -> 0..255]
        /\ ready' \in Seq(Tasks) /\ IsInjective(ready')
        /\ Range(ready') = {u \in Tasks : cond[u] = {}}
    BY <2>2, Moved
  <2>4. QueueInv'
    BY <1>12, <2>1, <2>3 DEF TaskBlockPriorityQueue, QueueInv, QueueTyped, ReadyIffNotWaiting
  <2>5. CallEnds
    BY <1>1, <1>12 DEF TaskBlockPriorityQueue, CallEnds
  <2> QED
    BY <2>4, <2>5
<1> QED
  BY <1>2, <1>3, <1>4, <1>5, <1>6, <1>7, <1>8, <1>9, <1>10, <1>11, <1>12 DEF SupervisorCall

(* The end of a call leaves the machine well: what runs is loaded with its *)
(* own context, or nothing runs.                                           *)
LEMMA CallMachine ==
  ASSUME QueueInv, QueueInv', MachineTyped, CallEnds
  PROVE  MachineTyped' /\ (MachineInv => MachineInv')
<1>1. PICK asked \in BOOLEAN, waiting \in BOOLEAN :
          /\ EndOfCall(asked, waiting)
          /\ waiting => asked /\ enabled'
          /\ ~waiting => cond'[current] \subseteq cond[current]
  BY DEF CallEnds
<1>2. /\ ~stopped /\ enabled' \in BOOLEAN /\ current \in Tasks /\ redispatch \in BOOLEAN
      /\ idle \in BOOLEAN /\ live \in [of : Tasks, fresh : BOOLEAN] /\ saved \in [Tasks -> BOOLEAN]
  BY DEF CallEnds, MachineTyped
<1> DEFINE next == Select(enabled')
           runs == (asked \/ redispatch) /\ next # None
<1>3. /\ next # None => next \in Tasks /\ cond'[next] = {}
      /\ enabled' /\ next = None => ready' = <<>>
  BY <1>2, Selected
<1>4. /\ current' = IF runs THEN next ELSE current
      /\ idle' = IF runs THEN FALSE ELSE idle \/ waiting
      /\ stopped' = (waiting /\ ~runs)
      /\ redispatch' = FALSE
      /\ saved' = Spilled
      /\ live' = Reloaded(current', saved')
  BY <1>1 DEF EndOfCall
<1> HIDE DEF next
<1>5. current' \in Tasks
  BY <1>2, <1>3, <1>4
<1>6. saved' \in [Tasks -> BOOLEAN]
  BY <1>2, <1>4 DEF Spilled
<1>7. live' = [of |-> current', fresh |-> saved'[current']]
  BY <1>4 DEF Reloaded
<1>8. live' \in [of : Tasks, fresh : BOOLEAN]
  BY <1>5, <1>6, <1>7
<1>9. idle' \in BOOLEAN /\ stopped' \in BOOLEAN /\ redispatch' \in BOOLEAN
  BY <1>2, <1>4
<1>10. MachineTyped'
  BY <1>2, <1>5, <1>6, <1>8, <1>9 DEF MachineTyped
<1>11. ASSUME MachineInv  PROVE MachineInv'
  <2>1. cond[current] = {} /\ live = Own(current) /\ \A t \in Tasks \ {current} : saved[t]
    BY <1>2, <1>11 DEF MachineInv, WaiterNeverRuns, RunsOwnContext
  <2>2. \A t \in Tasks : saved'[t]
    BY <1>2, <1>4, <2>1 DEF Spilled
  <2>3. RunsOwnContext'
    BY <1>5, <1>7, <2>2 DEF RunsOwnContext, Own
  <2>4. WaiterNeverRuns'
    <3>1. CASE runs
      BY <1>3, <1>4, <3>1 DEF WaiterNeverRuns
    <3>2. CASE ~runs /\ ~waiting
      BY <1>1, <1>4, <2>1, <3>2 DEF WaiterNeverRuns
    <3>3. CASE ~runs /\ waiting
      BY <1>4, <3>3 DEF WaiterNeverRuns
    <3> QED
      BY <3>1, <3>2, <3>3
  <2>5. StoppedInv'
    <3>1. ASSUME stopped'  PROVE enabled' /\ idle' /\ ready' = <<>> /\ saved'[current']
      BY <1>1, <1>3, <1>4, <1>5, <2>2, <3>1
    <3> QED
      BY <3>1 DEF StoppedInv
  <2> QED
    BY <2>3, <2>4, <2>5 DEF MachineInv
<1> QED
  BY <1>10, <1>11

-----------------------------------------------------------------------------
(* The host events.                                                        *)

HostEvent ==
    \E s \in Sources : HostEventWhileRunning(s[1], s[2], s[3]) \/ HostEventAtIdle(s[1], s[2], s[3])

LEMMA SourceTyped ==
  ASSUME NEW s \in Sources
  PROVE  s[2] \in Tasks /\ s[3] \in Keys
BY DispatcherAssumption DEF Sources, DispatcherAssumption

LEMMA DeliverTyped ==
  ASSUME QueueInv, MachineTyped, NEW h, NEW t \in Tasks, NEW k \in Keys, Deliver(h, t, k)
  PROVE  QueueInv' /\ MachineTyped'
<1> DEFINE asked == Wakes(t, k) /\ (cond'[t] = {} \/ redispatch)
           on == enabled \/ h \in {"condition", "deferredAid"}
           next == Select(on)
           runs == asked /\ next # None
           exchanged == runs /\ next # current /\ ~stopped
           blocks == IF exchanged THEN Spilled ELSE saved
           registers == IF exchanged THEN Reloaded(next, blocks)
                        ELSE IF Wakes(t, k) /\ live.of = t THEN [live EXCEPT !.fresh = FALSE]
                        ELSE live
           reloads == h = "status" \/ (h = "completion" /\ stopped)
           starts == h # "condition" \/ (Wakes(t, k) /\ stopped)
<1>1. QueueInv'
  <2>1. Complete(t, k)
    BY DEF Deliver
  <2> QED
    BY <2>1, QueueComplete
<1>2. /\ current \in Tasks /\ redispatch \in BOOLEAN /\ enabled \in BOOLEAN /\ stopped \in BOOLEAN
      /\ idle \in BOOLEAN /\ live \in [of : Tasks, fresh : BOOLEAN] /\ saved \in [Tasks -> BOOLEAN]
  BY DEF MachineTyped
<1>3. next # None => next \in Tasks
  BY <1>1, <1>2, Selected
<1>4. /\ current' = IF runs THEN next ELSE current
      /\ idle' = (idle /\ ~runs)
      /\ enabled' = (enabled \/ h # "completion" \/ stopped)
      /\ saved' = blocks
      /\ live' = IF reloads THEN Reloaded(current', blocks) ELSE registers
      /\ redispatch' = IF starts /\ h # "deferredAid" THEN TRUE ELSE redispatch /\ ~asked
      /\ stopped' = (stopped /\ ~starts)
  BY DEF Deliver
<1> HIDE DEF next
<1>5. current' \in Tasks
  BY <1>2, <1>3, <1>4
<1>6. blocks \in [Tasks -> BOOLEAN]
  BY <1>2 DEF Spilled
<1>7. registers \in [of : Tasks, fresh : BOOLEAN]
  <2>1. CASE exchanged
    <3>1. registers = [of |-> next, fresh |-> blocks[next]]
      BY <2>1 DEF Reloaded
    <3> QED
      BY <1>3, <1>6, <2>1, <3>1
  <2>2. CASE ~exchanged
    BY <1>2, <2>2
  <2> QED
    BY <2>1, <2>2
<1>8. live' \in [of : Tasks, fresh : BOOLEAN]
  <2>1. CASE reloads
    <3>1. live' = [of |-> current', fresh |-> blocks[current']]
      BY <1>4, <2>1 DEF Reloaded
    <3> QED
      BY <1>5, <1>6, <3>1
  <2>2. CASE ~reloads
    BY <1>4, <1>7, <2>2
  <2> QED
    BY <2>1, <2>2
<1>9. idle' \in BOOLEAN /\ enabled' \in BOOLEAN /\ redispatch' \in BOOLEAN /\ stopped' \in BOOLEAN
  BY <1>2, <1>4
<1> QED
  BY <1>1, <1>4, <1>5, <1>6, <1>8, <1>9 DEF MachineTyped

(* While a task runs: it is not in an event wait, so what is delivered     *)
(* wakes another, and a switch stores and loads the registers itself.      *)
LEMMA RunningMachine ==
  ASSUME QueueInv, MachineTyped, MachineInv, RightlyDelivered,
         NEW h, NEW t \in Tasks, NEW k \in Keys, HostEventWhileRunning(h, t, k)
  PROVE  MachineInv'
<1> DEFINE asked == Wakes(t, k) /\ (cond'[t] = {} \/ redispatch)
           on == enabled \/ h \in {"condition", "deferredAid"}
           next == Select(on)
           runs == asked /\ next # None
           exchanged == runs /\ next # current /\ ~stopped
           blocks == IF exchanged THEN Spilled ELSE saved
           registers == IF exchanged THEN Reloaded(next, blocks)
                        ELSE IF Wakes(t, k) /\ live.of = t THEN [live EXCEPT !.fresh = FALSE]
                        ELSE live
           reloads == h = "status" \/ (h = "completion" /\ stopped)
<1>1. ~stopped /\ h \in {"completion", "condition"} /\ Deliver(h, t, k)
  BY DEF HostEventWhileRunning, RightlyDelivered
<1>2. QueueInv' /\ Complete(t, k)
  BY <1>1, DeliverTyped DEF Deliver
<1>3. /\ current \in Tasks /\ enabled \in BOOLEAN /\ saved \in [Tasks -> BOOLEAN]
      /\ cond[current] = {} /\ live = Own(current) /\ \A u \in Tasks \ {current} : saved[u]
  BY <1>1 DEF MachineTyped, MachineInv, WaiterNeverRuns, RunsOwnContext
<1>4. next # None => next \in Tasks /\ cond'[next] = {}
  BY <1>2, <1>3, Selected
<1>5. /\ current' = IF runs THEN next ELSE current
      /\ saved' = blocks
      /\ live' = registers
      /\ ~stopped'
  <2>1. /\ current' = IF runs THEN next ELSE current
        /\ saved' = blocks
        /\ live' = IF reloads THEN Reloaded(current', blocks) ELSE registers
    BY <1>1 DEF Deliver
  <2>2. stopped' = (stopped /\ ~(h # "condition" \/ (Wakes(t, k) /\ stopped)))
    BY <1>1 DEF Deliver
  <2> QED
    BY <1>1, <2>1, <2>2
<1> HIDE DEF next
<1>6. cond'[current] = {}
  BY <1>2, <1>3 DEF Complete, ClearedOf
<1>7. ~(Wakes(t, k) /\ live.of = t)
  BY <1>3 DEF Wakes, Own
<1>8. CASE exchanged
  <2>1. current' = next /\ saved' = Spilled /\ live' = Reloaded(next, saved')
    BY <1>5, <1>8
  <2>2. \A u \in Tasks : saved'[u]
    BY <1>3, <2>1 DEF Spilled
  <2>3. live' = Own(current')
    BY <1>4, <1>8, <2>1, <2>2 DEF Reloaded, Own
  <2> QED
    BY <1>4, <1>5, <1>8, <2>1, <2>2, <2>3 DEF MachineInv, WaiterNeverRuns, RunsOwnContext, StoppedInv
<1>9. CASE ~exchanged
  <2>1. current' = current /\ saved' = saved /\ live' = live
    BY <1>1, <1>5, <1>7, <1>9
  <2> QED
    BY <1>3, <1>5, <1>6, <2>1 DEF MachineInv, WaiterNeverRuns, RunsOwnContext, StoppedInv, Own
<1> QED
  BY <1>8, <1>9

(* At idle: the task that is woken is the only one ready, so it becomes    *)
(* current, and the registers are loaded with its context.                 *)
LEMMA IdleMachine ==
  ASSUME QueueInv, MachineTyped, MachineInv, RightlyDelivered,
         NEW h, NEW t \in Tasks, NEW k \in Keys, HostEventAtIdle(h, t, k)
  PROVE  MachineInv'
<1>1. /\ stopped /\ h \in {"completion", "status"} /\ Deliver(h, t, k)
      /\ Wakes(t, k) /\ cond[t] = {"event"}
  BY DEF HostEventAtIdle, RightlyDelivered
<1>2. QueueInv' /\ Complete(t, k)
  BY <1>1, DeliverTyped DEF Deliver
<1>3. /\ current \in Tasks /\ enabled /\ saved \in [Tasks -> BOOLEAN]
      /\ \A u \in Tasks : saved[u]
  BY <1>1 DEF MachineTyped, MachineInv, RunsOwnContext, StoppedInv
<1>4. cond'[t] = {}
  BY <1>1, <1>2 DEF Complete, ClearedOf
<1> DEFINE next == Select(enabled \/ h \in {"condition", "deferredAid"})
<1>5. next # None /\ next \in Tasks /\ cond'[next] = {}
  <2>1. t \in Range(ready')
    BY <1>2, <1>4 DEF QueueInv, ReadyIffNotWaiting
  <2>2. ready' # <<>>
    BY <2>1 DEF Range
  <2>3. /\ next # None => next \in Tasks /\ cond'[next] = {}
        /\ next = None => ready' = <<>>
    BY <1>2, <1>3, Selected
  <2> QED
    BY <2>2, <2>3
<1>6. current' = next /\ saved' = saved /\ live' = Reloaded(next, saved) /\ ~stopped'
  <2> DEFINE asked == Wakes(t, k) /\ (cond'[t] = {} \/ redispatch)
             runs == asked /\ next # None
             exchanged == runs /\ next # current /\ ~stopped
             blocks == IF exchanged THEN Spilled ELSE saved
             registers == IF exchanged THEN Reloaded(next, blocks)
                          ELSE IF Wakes(t, k) /\ live.of = t THEN [live EXCEPT !.fresh = FALSE]
                          ELSE live
             reloads == h = "status" \/ (h = "completion" /\ stopped)
  <2>1. /\ current' = IF runs THEN next ELSE current
        /\ saved' = blocks
        /\ live' = IF reloads THEN Reloaded(current', blocks) ELSE registers
        /\ stopped' = (stopped /\ ~(h # "condition" \/ (Wakes(t, k) /\ stopped)))
    BY <1>1 DEF Deliver
  <2> HIDE DEF next
  <2>2. runs /\ ~exchanged /\ reloads
    BY <1>1, <1>4, <1>5
  <2> QED
    BY <1>1, <2>1, <2>2
<1> HIDE DEF next
<1>7. live' = Own(current')
  BY <1>3, <1>5, <1>6 DEF Reloaded, Own
<1> QED
  BY <1>3, <1>5, <1>6, <1>7 DEF MachineInv, WaiterNeverRuns, RunsOwnContext, StoppedInv

-----------------------------------------------------------------------------
(* The guest's own steps.                                                  *)

LEMMA GuestSteps ==
  ASSUME QueueInv, MachineTyped, Instruction \/ LoadProgramMode
  PROVE  QueueInv' /\ MachineTyped' /\ (MachineInv => MachineInv')
<1>1. /\ ~stopped
      /\ saved' = IF live.fresh THEN [saved EXCEPT ![live.of] = FALSE] ELSE saved
      /\ UNCHANGED <<waits, order, current, redispatch, stopped, idle, live>>
      /\ enabled' = enabled \/ enabled' = ~enabled
  BY DEF Instruction, LoadProgramMode
<1>2. QueueInv'
  BY <1>1 DEF QueueInv, QueueTyped, ReadyIffNotWaiting
<1>3. /\ current \in Tasks /\ redispatch \in BOOLEAN /\ enabled \in BOOLEAN /\ stopped \in BOOLEAN
      /\ idle \in BOOLEAN /\ live \in [of : Tasks, fresh : BOOLEAN] /\ saved \in [Tasks -> BOOLEAN]
  BY DEF MachineTyped
<1>4. saved' \in [Tasks -> BOOLEAN] /\ enabled' \in BOOLEAN
  BY <1>1, <1>3
<1>5. MachineTyped'
  BY <1>1, <1>3, <1>4 DEF MachineTyped
<1>6. ASSUME MachineInv  PROVE MachineInv'
  <2>1. live = Own(current) /\ cond[current] = {} /\ \A t \in Tasks \ {current} : saved[t]
    BY <1>1, <1>6 DEF MachineInv, WaiterNeverRuns, RunsOwnContext
  <2>2. \A t \in Tasks \ {current} : saved'[t]
    BY <1>1, <1>3, <2>1 DEF Own
  <2> QED
    BY <1>1, <2>1, <2>2 DEF MachineInv, WaiterNeverRuns, RunsOwnContext, StoppedInv, Own
<1> QED
  BY <1>2, <1>5, <1>6

-----------------------------------------------------------------------------
LEMMA Starts ==
  ASSUME Init
  PROVE  QueueInv /\ MachineTyped /\ MachineInv /\ NoEventLost
<1>1. <<>> \in Seq(Tasks) /\ Range(<<>>) = {}
  BY EmptySeq DEF Range
<1>2. ready \in Seq(Tasks) /\ IsInjective(ready) /\ Range(ready) = Tasks
  BY <1>1, InsertedQueue DEF Init
<1>3. CommandTask \in Tasks /\ Elements \in Nat /\ InitialPriority \in [Tasks -> 0..255]
  BY DispatcherAssumption DEF DispatcherAssumption
<1>4. ready # <<>>
  BY <1>1, <1>2, <1>3
<1>5. current \in Tasks
  BY <1>2, <1>4, HeadInRange DEF Init
<1>6. QueueInv
  BY <1>2, <1>3 DEF Init, QueueInv, QueueTyped, ReadyIffNotWaiting
<1>7. MachineTyped
  BY <1>5 DEF Init, MachineTyped, Own
<1>8. MachineInv
  BY <1>5 DEF Init, MachineInv, WaiterNeverRuns, RunsOwnContext, StoppedInv
<1>9. NoEventLost
  BY DEF Init, NoEventLost
<1> QED
  BY <1>6, <1>7, <1>8, <1>9

LEMMA StepCases ==
  ASSUME Next
  PROVE  Instruction \/ LoadProgramMode \/ SupervisorCall \/ HostEvent
BY DEF Next, SupervisorCall, HostEvent

LEMMA StepTyped ==
  ASSUME QueueInv, MachineTyped, [Next]_vars
  PROVE  QueueInv' /\ MachineTyped'
<1>1. CASE SupervisorCall
  BY <1>1, CallQueues, CallMachine
<1>2. CASE HostEvent
  <2>1. PICK s \in Sources : Deliver(s[1], s[2], s[3])
    BY <1>2 DEF HostEvent, HostEventWhileRunning, HostEventAtIdle
  <2> QED
    BY <2>1, SourceTyped, DeliverTyped
<1>3. CASE Instruction \/ LoadProgramMode
  BY <1>3, GuestSteps
<1>4. CASE UNCHANGED vars
  BY <1>4 DEF QueueInv, QueueTyped, ReadyIffNotWaiting, MachineTyped
<1> QED
  BY <1>1, <1>2, <1>3, <1>4, StepCases

LEMMA StepMachine ==
  ASSUME QueueInv, MachineTyped, MachineInv, RightlyDelivered, [Next]_vars
  PROVE  MachineInv'
<1>1. CASE SupervisorCall
  BY <1>1, CallQueues, CallMachine
<1>2. CASE HostEvent
  <2>1. PICK s \in Sources : \/ HostEventWhileRunning(s[1], s[2], s[3])
                            \/ HostEventAtIdle(s[1], s[2], s[3])
    BY <1>2 DEF HostEvent
  <2> QED
    BY <2>1, SourceTyped, RunningMachine, IdleMachine
<1>3. CASE Instruction \/ LoadProgramMode
  BY <1>3, GuestSteps
<1>4. CASE UNCHANGED vars
  BY <1>4 DEF MachineInv, WaiterNeverRuns, RunsOwnContext, StoppedInv
<1> QED
  BY <1>1, <1>2, <1>3, <1>4, StepCases

(* The state is well typed, whatever host events arrive.                   *)
THEOREM TypeCorrect == Spec => []TypeOK
<1>1. Init => QueueInv /\ MachineTyped
  BY Starts
<1>2. QueueInv /\ MachineTyped /\ [Next]_vars => (QueueInv /\ MachineTyped)'
  BY StepTyped
<1>3. QueueInv /\ MachineTyped => TypeOK
  BY DEF QueueInv, QueueTyped, MachineTyped, TypeOK
<1> QED
  BY <1>1, <1>2, <1>3, PTL DEF Spec

(* The ready queue holds the tasks that wait for nothing, each once:       *)
(* postTaskBlock and the wait return keep it so through every call and     *)
(* every host event.                                                       *)
THEOREM ReadyQueue == Spec => []ReadyIffNotWaiting
<1>1. Init => QueueInv /\ MachineTyped
  BY Starts
<1>2. QueueInv /\ MachineTyped /\ [Next]_vars => (QueueInv /\ MachineTyped)'
  BY StepTyped
<1>3. QueueInv => ReadyIffNotWaiting
  BY DEF QueueInv
<1> QED
  BY <1>1, <1>2, <1>3, PTL DEF Spec

(* No task that waits is run: dispatch selects a ready task, or leaves     *)
(* the processor stopped.  For the host events delivered rightly.          *)
THEOREM NoWaiterRuns == RightlyDelivered /\ Spec => []WaiterNeverRuns
<1>1. Init => QueueInv /\ MachineTyped /\ MachineInv
  BY Starts
<1>2. RightlyDelivered /\ QueueInv /\ MachineTyped /\ MachineInv /\ [Next]_vars
      => (QueueInv /\ MachineTyped /\ MachineInv)'
  BY StepTyped, StepMachine
<1>3. MachineInv => WaiterNeverRuns
  BY DEF MachineInv
<1>4. CASE RightlyDelivered
  BY <1>1, <1>2, <1>3, <1>4, PTL DEF Spec
<1>5. CASE ~RightlyDelivered
  BY <1>5
<1> QED
  BY <1>4, <1>5

(* Every task runs in its own context and finds there all it has done and  *)
(* been given, whatever switches came between.  For the host events        *)
(* delivered rightly.                                                      *)
THEOREM OwnContext == RightlyDelivered /\ Spec => []RunsOwnContext
<1>1. Init => QueueInv /\ MachineTyped /\ MachineInv
  BY Starts
<1>2. RightlyDelivered /\ QueueInv /\ MachineTyped /\ MachineInv /\ [Next]_vars
      => (QueueInv /\ MachineTyped /\ MachineInv)'
  BY StepTyped, StepMachine
<1>3. MachineInv => RunsOwnContext
  BY DEF MachineInv
<1>4. CASE RightlyDelivered
  BY <1>1, <1>2, <1>3, <1>4, PTL DEF Spec
<1>5. CASE ~RightlyDelivered
  BY <1>5
<1> QED
  BY <1>4, <1>5

(* The processor stops only with nothing to run and dispatching enabled,   *)
(* so that a host event can start it again.  For the host events           *)
(* delivered rightly.                                                      *)
THEOREM StopsIdle == RightlyDelivered /\ Spec => []StopsOnlyIdle
<1>1. Init => QueueInv /\ MachineTyped /\ MachineInv
  BY Starts
<1>2. RightlyDelivered /\ QueueInv /\ MachineTyped /\ MachineInv /\ [Next]_vars
      => (QueueInv /\ MachineTyped /\ MachineInv)'
  BY StepTyped, StepMachine
<1>3. MachineInv => StopsOnlyIdle
  BY DEF MachineInv, StoppedInv, StopsOnlyIdle
<1>4. CASE RightlyDelivered
  BY <1>1, <1>2, <1>3, <1>4, PTL DEF Spec
<1>5. CASE ~RightlyDelivered
  BY <1>5
<1> QED
  BY <1>4, <1>5

-----------------------------------------------------------------------------
(* Events.                                                                 *)

(* A step that begins no event wait and queues no element loses none.      *)
LEMMA NoneLost ==
  ASSUME NoEventLost,
         \A t \in Tasks : "event" \in cond'[t] => "event" \in cond[t] /\ want'[t] = want[t],
         \A t \in Tasks, k \in Keys : events[t][k] = 0 => events'[t][k] = 0
  PROVE  NoEventLost'
BY DEF NoEventLost, Matches

(* A completion of an element, by a call or by the host.                   *)
LEMMA CompleteEvents ==
  ASSUME QueueInv, NoEventLost, NEW t \in Tasks, NEW k \in Keys, Complete(t, k)
  PROVE  NoEventLost'
<1>0. events \in [Tasks -> [Keys -> 0..Elements]] /\ want \in [Tasks -> Keys \cup {AnyEvent, None}]
  BY DEF QueueInv, QueueTyped
<1>1. CASE Wakes(t, k)
  <2>1. /\ events' = events /\ want' = [want EXCEPT ![t] = None]
        /\ "event" \notin cond'[t] /\ \A u \in Tasks \ {t} : cond'[u] = cond[u]
    BY <1>1 DEF Complete, ClearedOf
  <2> QED
    BY <1>0, <2>1, NoneLost
<1>2. CASE ~Wakes(t, k)
  <2>1. UNCHANGED <<cond, want>> /\ events' = Queued(t, k)
    BY <1>2 DEF Complete
  <2>2. ASSUME NEW u \in Tasks, NEW j \in Keys, "event" \in cond[u], Matches(want[u], j)
        PROVE  events'[u][j] = 0
    <3>1. events[u][j] = 0 /\ ~(u = t /\ j = k)
      BY <1>2, <2>2 DEF NoEventLost, Wakes
    <3> QED
      BY <1>0, <2>1, <3>1 DEF Queued
  <2> QED
    BY <2>1, <2>2 DEF NoEventLost
<1> QED
  BY <1>1, <1>2

LEMMA CallEvents ==
  ASSUME QueueInv, MachineTyped, NoEventLost, SupervisorCall
  PROVE  NoEventLost'
<1>1. /\ current \in Tasks /\ cond \in [Tasks -> SUBSET Conditions]
      /\ deferred \in [Tasks -> SUBSET {"task"}]
      /\ want \in [Tasks -> Keys \cup {AnyEvent, None}]
      /\ events \in [Tasks -> [Keys -> 0..Elements]] /\ Elements \in Nat
  BY DispatcherAssumption DEF MachineTyped, QueueInv, QueueTyped, DispatcherAssumption
<1>2. ASSUME UNCHANGED <<cond, want, events>>  PROVE NoEventLost'
  BY <1>2 DEF NoEventLost
<1>3. ASSUME NEW w \in Keys \cup {AnyEvent}, NEW long \in BOOLEAN, EventTaken(w, long)
      PROVE  NoEventLost'
  <2>1. UNCHANGED <<cond, want>>
    BY <1>3 DEF EventTaken
  <2>2. CASE \E k \in Pending(current, w) : events' = Taken(current, k)
    <3>1. PICK k \in Keys : events[current][k] > 0 /\ events' = Taken(current, k)
      BY <2>2 DEF Pending
    <3>2. \A t \in Tasks, j \in Keys : events[t][j] = 0 => events'[t][j] = 0
      BY <1>1, <3>1 DEF Taken
    <3> QED
      BY <2>1, <3>2, NoneLost
  <2>3. CASE events' = events
    BY <1>2, <2>1, <2>3
  <2> QED
    BY <1>3, <2>2, <2>3 DEF EventTaken
<1>4. ASSUME NEW w \in Keys \cup {AnyEvent}, NEW long \in BOOLEAN, EventWait(w, long)
      PROVE  NoEventLost'
  <2>1. /\ cond' = [cond EXCEPT ![current] = @ \cup {"event"}]
        /\ want' = [want EXCEPT ![current] = w]
        /\ events' = events /\ Pending(current, w) = {}
    BY <1>4 DEF EventWait, Wait
  <2>2. ASSUME NEW k \in Keys, Matches(w, k)  PROVE events[current][k] = 0
    <3>1. ~(events[current][k] > 0)
      BY <2>1, <2>2 DEF Pending
    <3>2. events[current][k] \in 0..Elements
      BY <1>1
    <3> QED
      BY <1>1, <3>1, <3>2
  <2>3. ASSUME NEW t \in Tasks, NEW k \in Keys, "event" \in cond'[t], Matches(want'[t], k)
        PROVE  events'[t][k] = 0
    <3>1. CASE t = current
      BY <1>1, <2>1, <2>2, <2>3, <3>1
    <3>2. CASE t # current
      BY <1>1, <2>1, <2>3, <3>2 DEF NoEventLost
    <3> QED
      BY <3>1, <3>2
  <2> QED
    BY <2>3 DEF NoEventLost
<1>5. ASSUME NEW m \in Masks, GeneralWait(m)  PROVE NoEventLost'
  <2>1. cond' = [cond EXCEPT ![current] = @ \cup {"general"}] /\ UNCHANGED <<want, events>>
    BY <1>5 DEF GeneralWait, Wait
  <2> QED
    BY <1>1, <2>1, NoneLost
<1>6. ASSUME NEW m \in Masks, GeneralPost(m)  PROVE NoEventLost'
  <2>1. UNCHANGED <<want, events>> /\ \A t \in Tasks : cond'[t] \subseteq cond[t]
    BY <1>6 DEF GeneralPost, ClearedOf
  <2> QED
    BY <2>1, NoneLost
<1>7. ASSUME NEW long \in BOOLEAN, TaskWait(long)  PROVE NoEventLost'
  <2>1. cond' = [cond EXCEPT ![current] = @ \cup {"task"}] /\ UNCHANGED <<want, events>>
    BY <1>7 DEF TaskWait, Wait
  <2> QED
    BY <1>1, <2>1, NoneLost
<1>8. ASSUME NEW t \in Tasks, AsynchronousTaskWait(t)  PROVE NoEventLost'
  <2>1. cond' = [cond EXCEPT ![t] = @ \cup {"task"} \cup deferred[t]] /\ UNCHANGED <<want, events>>
    BY <1>8 DEF AsynchronousTaskWait
  <2> QED
    BY <1>1, <2>1, NoneLost
<1>9. ASSUME NEW t \in Tasks, DeferredTaskWait(t)  PROVE NoEventLost'
  BY <1>2, <1>9 DEF DeferredTaskWait
<1>10. ASSUME NEW t \in Tasks, TaskPost(t)  PROVE NoEventLost'
  <2>1. UNCHANGED <<want, events>> /\ \A u \in Tasks : cond'[u] \subseteq cond[u]
    BY <1>10 DEF TaskPost, ClearedOf
  <2> QED
    BY <2>1, NoneLost
<1>11. ASSUME OtherCall  PROVE NoEventLost'
  BY <1>2, <1>11 DEF OtherCall
<1>12. ASSUME NEW t \in Tasks, NEW n \in Requested, TaskBlockPriorityQueue(t, n)  PROVE NoEventLost'
  BY <1>2, <1>12 DEF TaskBlockPriorityQueue
<1>13. ASSUME NEW t \in Tasks, NEW k \in Keys, PostTask(t, k)  PROVE NoEventLost'
  BY <1>13, CompleteEvents DEF PostTask
<1> QED
  BY <1>3, <1>4, <1>5, <1>6, <1>7, <1>8, <1>9, <1>10, <1>11, <1>12, <1>13 DEF SupervisorCall

(* No task waits for an event while an element that satisfies it is        *)
(* queued: completedEvent looks before the wait, and completeToTask queues *)
(* only what the task does not wait for.  Whatever host events arrive.     *)
THEOREM EventsFound == Spec => []NoEventLost
<1>1. Init => QueueInv /\ MachineTyped /\ NoEventLost
  BY Starts
<1>2. QueueInv /\ MachineTyped /\ NoEventLost /\ [Next]_vars => (QueueInv /\ MachineTyped /\ NoEventLost)'
  <2> SUFFICES ASSUME QueueInv, MachineTyped, NoEventLost, [Next]_vars
               PROVE  (QueueInv /\ MachineTyped /\ NoEventLost)'
    OBVIOUS
  <2>1. CASE SupervisorCall
    BY <2>1, CallEvents, StepTyped
  <2>2. CASE HostEvent
    <3>1. PICK s \in Sources : Deliver(s[1], s[2], s[3])
      BY <2>2 DEF HostEvent, HostEventWhileRunning, HostEventAtIdle
    <3>2. Complete(s[2], s[3])
      BY <3>1 DEF Deliver
    <3> QED
      BY <3>2, SourceTyped, CompleteEvents, StepTyped
  <2>3. CASE Instruction \/ LoadProgramMode \/ UNCHANGED vars
    <3>1. UNCHANGED <<cond, want, events>>
      BY <2>3 DEF Instruction, LoadProgramMode
    <3> QED
      BY <3>1, StepTyped DEF NoEventLost
  <2> QED
    BY <2>1, <2>2, <2>3, StepCases
<1> QED
  BY <1>1, <1>2, PTL DEF Spec

-----------------------------------------------------------------------------
(* The order of the ready queue.                                           *)

Ordered(q, p) == \A i, j \in DOMAIN q : i < j => p[q[i]] >= p[q[j]]

LEMMA InsertedOrder ==
  ASSUME NEW q \in Seq(Tasks), NEW set \in SUBSET Tasks, NEW p \in [Tasks -> 0..255],
         Ordered(q, p), NEW r \in Inserted(q, set, p)
  PROVE  Ordered(r, p)
<1>1. r \in Seq(Tasks)
  BY InsertedQueue
<1>2. DOMAIN r = 1..Len(r) /\ Len(r) \in Nat /\ \A k \in DOMAIN r : p[r[k]] \in 0..255
  BY <1>1, LenProperties, ElementOfSeq
<1> DEFINE new == set \ Range(q)
<1>3. \A i, j \in DOMAIN r : i < j =>
         IF r[j] \in new THEN p[r[i]] >= p[r[j]]
         ELSE IF r[i] \in new
              THEN \E k \in (i + 1)..j : r[k] \notin new /\ p[r[k]] < p[r[i]]
              ELSE \E m, n \in DOMAIN q : m < n /\ r[i] = q[m] /\ r[j] = q[n]
  BY DEF Inserted, Placed
<1> HIDE DEF new
<1>4. ASSUME NEW i \in DOMAIN r, NEW j \in DOMAIN r, i < j, r[i] \notin new, r[j] \notin new
      PROVE  p[r[i]] >= p[r[j]]
  <2>1. PICK m \in DOMAIN q, n \in DOMAIN q : m < n /\ r[i] = q[m] /\ r[j] = q[n]
    BY <1>3, <1>4
  <2> QED
    BY <2>1 DEF Ordered
<1>5. ASSUME NEW i \in DOMAIN r, NEW j \in DOMAIN r, i < j
      PROVE  p[r[i]] >= p[r[j]]
  <2>1. CASE r[j] \in new
    BY <1>3, <1>5, <2>1
  <2>2. CASE r[j] \notin new /\ r[i] \notin new
    BY <1>4, <1>5, <2>2
  <2>3. CASE r[j] \notin new /\ r[i] \in new
    <3>1. PICK k \in (i + 1)..j : r[k] \notin new /\ p[r[k]] < p[r[i]]
      BY <1>3, <1>5, <2>3
    <3>2. k \in DOMAIN r /\ k \in Int /\ j \in Int /\ k <= j
      BY <1>2, <3>1
    <3>3. CASE k = j
      <4>1. p[r[i]] \in 0..255 /\ p[r[j]] \in 0..255
        BY <1>2, <1>5
      <4>2. \A a, b \in 0..255 : b < a => a >= b
        OBVIOUS
      <4> QED
        BY <3>1, <3>3, <4>1, <4>2
    <3>4. CASE k < j
      <4>1. p[r[k]] >= p[r[j]]
        BY <1>4, <2>3, <3>1, <3>2, <3>4
      <4>2. p[r[i]] \in 0..255 /\ p[r[j]] \in 0..255 /\ p[r[k]] \in 0..255
        BY <1>2, <1>5, <3>2
      <4>3. \A a, b, c \in 0..255 : c < a /\ c >= b => a >= b
        OBVIOUS
      <4> QED
        BY <3>1, <4>1, <4>2, <4>3
    <3> QED
      BY <3>2, <3>3, <3>4
  <2> QED
    BY <2>1, <2>2, <2>3
<1> QED
  BY <1>5 DEF Ordered

LEMMA WithoutOrder ==
  ASSUME NEW q \in Seq(Tasks), IsInjective(q), NEW t \in Tasks, NEW p, NEW new,
         Ordered(q, p), \A u \in Tasks \ {t} : new[u] = p[u]
  PROVE  Ordered(Without(q, t), new)
<1> DEFINE w == Without(q, t)
<1>1. /\ w \in Seq(Tasks) /\ Range(w) = Range(q) \ {t}
      /\ \A j, k \in DOMAIN w : j < k => \E m, n \in DOMAIN q : m < n /\ w[j] = q[m] /\ w[k] = q[n]
  BY WithoutQueue
<1> HIDE DEF w
<1>2. \A k \in DOMAIN w : w[k] \in Tasks \ {t}
  <2>1. \A k \in DOMAIN w : w[k] \in Range(w)
    BY DEF Range
  <2>2. Range(q) \subseteq Tasks
    BY DEF Range
  <2> QED
    BY <1>1, <2>1, <2>2
<1>3. ASSUME NEW j \in DOMAIN w, NEW k \in DOMAIN w, j < k
      PROVE  new[w[j]] >= new[w[k]]
  <2>1. p[w[j]] >= p[w[k]]
    BY <1>1, <1>3 DEF Ordered
  <2> QED
    BY <1>2, <2>1
<1> QED
  BY <1>3 DEF Ordered, w

(* What is inserted at the priorities that hold leaves the queue ordered.  *)
LEMMA PostOrder ==
  ASSUME QueueInv, ReadyInOrder, NEW set \in SUBSET Tasks, priority' = priority,
         ready' \in Inserted(ready, set, priority)
  PROVE  ReadyInOrder'
<1>1. ready \in Seq(Tasks) /\ priority \in [Tasks -> 0..255] /\ Ordered(ready, priority)
  BY DEF QueueInv, QueueTyped, ReadyInOrder, Ordered
<1>2. Ordered(ready', priority)
  BY <1>1, InsertedOrder
<1> QED
  BY <1>2 DEF Ordered, ReadyInOrder

(* So does taking a task off, whatever becomes of its priority.            *)
LEMMA WaitOrder ==
  ASSUME QueueInv, ReadyInOrder, NEW t \in Tasks, ready' = Without(ready, t),
         \A u \in Tasks \ {t} : priority'[u] = priority[u]
  PROVE  ReadyInOrder'
<1>1. ready \in Seq(Tasks) /\ IsInjective(ready) /\ Ordered(ready, priority)
  BY DEF QueueInv, QueueTyped, ReadyIffNotWaiting, ReadyInOrder, Ordered
<1>2. Ordered(ready', priority')
  BY <1>1, WithoutOrder
<1> QED
  BY <1>2 DEF Ordered, ReadyInOrder

(* And changing a priority, for the task is moved.                         *)
LEMMA PriorityOrder ==
  ASSUME QueueInv, ReadyInOrder, NEW t \in Tasks, NEW n \in 0..255, SetPriority(t, n)
  PROVE  ReadyInOrder'
<1>1. /\ ready \in Seq(Tasks) /\ IsInjective(ready) /\ Ordered(ready, priority)
      /\ Range(ready) = {u \in Tasks : cond[u] = {}} /\ priority \in [Tasks -> 0..255]
  BY DEF QueueInv, QueueTyped, ReadyIffNotWaiting, ReadyInOrder, Ordered
<1>2. /\ priority' = [priority EXCEPT ![t] = n] /\ priority' \in [Tasks -> 0..255]
      /\ \A u \in Tasks \ {t} : priority'[u] = priority[u]
  BY <1>1 DEF SetPriority
<1>3. CASE cond[t] = {}
  <2>1. ready' \in Inserted(Without(ready, t), {t}, priority')
    BY <1>3 DEF SetPriority
  <2>2. Without(ready, t) \in Seq(Tasks)
    BY <1>1, WithoutQueue
  <2>3. Ordered(Without(ready, t), priority')
    BY <1>1, <1>2, WithoutOrder
  <2>4. Ordered(ready', priority')
    BY <1>2, <2>1, <2>2, <2>3, InsertedOrder
  <2> QED
    BY <2>4 DEF Ordered, ReadyInOrder
<1>4. CASE cond[t] # {}
  <2>1. ready' = ready
    BY <1>4 DEF SetPriority
  <2>2. \A i \in DOMAIN ready : priority'[ready[i]] = priority[ready[i]]
    <3>1. \A i \in DOMAIN ready : ready[i] \in Range(ready)
      BY DEF Range
    <3> QED
      BY <1>1, <1>2, <1>4, <3>1
  <2> QED
    BY <1>1, <2>1, <2>2 DEF Ordered, ReadyInOrder
<1> QED
  BY <1>3, <1>4

LEMMA CompleteOrder ==
  ASSUME QueueInv, ReadyInOrder, NEW t \in Tasks, NEW k \in Keys, Complete(t, k)
  PROVE  ReadyInOrder'
<1>1. CASE Wakes(t, k)
  <2>1. ready' \in Inserted(ready, ReadiedOf({t}, cond'), priority) /\ priority' = priority
    BY <1>1 DEF Complete
  <2>2. ReadiedOf({t}, cond') \in SUBSET Tasks
    BY DEF ReadiedOf
  <2> QED
    BY <2>1, <2>2, PostOrder
<1>2. CASE ~Wakes(t, k)
  BY <1>2 DEF Complete, ReadyInOrder
<1> QED
  BY <1>1, <1>2

LEMMA CallOrder ==
  ASSUME QueueInv, MachineTyped, ReadyInOrder, SupervisorCall
  PROVE  ReadyInOrder'
<1>1. current \in Tasks /\ priority \in [Tasks -> 0..255] /\ priority[current] \in 0..255
  BY DEF MachineTyped, QueueInv, QueueTyped
<1>2. ASSUME UNCHANGED order  PROVE ReadyInOrder'
  BY <1>2 DEF ReadyInOrder
<1>3. ASSUME NEW w \in Keys \cup {AnyEvent}, NEW long \in BOOLEAN, EventTaken(w, long)
      PROVE  ReadyInOrder'
  <2>1. CASE long
    <3>1. Lowered(current, priority[current]) \in 0..255
      BY <1>1, LoweredByte
    <3>2. SetPriority(current, Lowered(current, priority[current]))
      BY <1>3, <2>1 DEF EventTaken
    <3> QED
      BY <1>1, <3>1, <3>2, PriorityOrder
  <2>2. CASE ~long
    BY <1>2, <1>3, <2>2 DEF EventTaken
  <2> QED
    BY <2>1, <2>2
<1>4. ASSUME NEW w \in Keys \cup {AnyEvent}, NEW long \in BOOLEAN, EventWait(w, long)
      PROVE  ReadyInOrder'
  <2>1. ready' = Without(ready, current) /\ \A u \in Tasks \ {current} : priority'[u] = priority[u]
    BY <1>1, <1>4 DEF EventWait, Wait
  <2> QED
    BY <1>1, <2>1, WaitOrder
<1>5. ASSUME NEW m \in Masks, GeneralWait(m)  PROVE ReadyInOrder'
  BY <1>1, <1>5, WaitOrder DEF GeneralWait, Wait
<1>6. ASSUME NEW m \in Masks, GeneralPost(m)  PROVE ReadyInOrder'
  <2> DEFINE posted == {t \in Tasks : m \in mask[t]}
  <2>1. ready' \in Inserted(ready, ReadiedOf(posted, cond'), priority) /\ priority' = priority
    BY <1>6 DEF GeneralPost
  <2>2. ReadiedOf(posted, cond') \in SUBSET Tasks
    BY DEF ReadiedOf
  <2> HIDE DEF posted
  <2> QED
    BY <2>1, <2>2, PostOrder
<1>7. ASSUME NEW long \in BOOLEAN, TaskWait(long)  PROVE ReadyInOrder'
  <2>1. ready' = Without(ready, current) /\ \A u \in Tasks \ {current} : priority'[u] = priority[u]
    BY <1>1, <1>7 DEF TaskWait, Wait
  <2> QED
    BY <1>1, <2>1, WaitOrder
<1>8. ASSUME NEW t \in Tasks, AsynchronousTaskWait(t)  PROVE ReadyInOrder'
  BY <1>8, WaitOrder DEF AsynchronousTaskWait
<1>9. ASSUME NEW t \in Tasks, DeferredTaskWait(t)  PROVE ReadyInOrder'
  BY <1>2, <1>9 DEF DeferredTaskWait
<1>10. ASSUME NEW t \in Tasks, TaskPost(t)  PROVE ReadyInOrder'
  <2>1. ready' \in Inserted(ready, ReadiedOf({t}, cond'), priority) /\ priority' = priority
    BY <1>10 DEF TaskPost
  <2>2. ReadiedOf({t}, cond') \in SUBSET Tasks
    BY DEF ReadiedOf
  <2> QED
    BY <2>1, <2>2, PostOrder
<1>11. ASSUME OtherCall  PROVE ReadyInOrder'
  BY <1>2, <1>11 DEF OtherCall
<1>12. ASSUME NEW t \in Tasks, NEW n \in Requested, TaskBlockPriorityQueue(t, n)  PROVE ReadyInOrder'
  <2>1. n \in 0..255
    BY DispatcherAssumption DEF DispatcherAssumption
  <2>2. Stored(t, n) \in 0..255 /\ SetPriority(t, Stored(t, n))
    BY <1>12, <2>1, LoweredByte DEF TaskBlockPriorityQueue
  <2> QED
    BY <2>2, PriorityOrder
<1>13. ASSUME NEW t \in Tasks, NEW k \in Keys, PostTask(t, k)  PROVE ReadyInOrder'
  BY <1>13, CompleteOrder DEF PostTask
<1> QED
  BY <1>3, <1>4, <1>5, <1>6, <1>7, <1>8, <1>9, <1>10, <1>11, <1>12, <1>13 DEF SupervisorCall

LEMMA StepOrder ==
  ASSUME QueueInv, MachineTyped, ReadyInOrder, [Next]_vars
  PROVE  ReadyInOrder'
<1>1. CASE SupervisorCall
  BY <1>1, CallOrder
<1>2. CASE HostEvent
  <2>1. PICK s \in Sources : Deliver(s[1], s[2], s[3])
    BY <1>2 DEF HostEvent, HostEventWhileRunning, HostEventAtIdle
  <2>2. Complete(s[2], s[3])
    BY <2>1 DEF Deliver
  <2> QED
    BY <2>2, SourceTyped, CompleteOrder
<1>3. CASE Instruction \/ LoadProgramMode \/ UNCHANGED vars
  <2>1. UNCHANGED order
    BY <1>3 DEF Instruction, LoadProgramMode
  <2> QED
    BY <2>1 DEF ReadyInOrder
<1> QED
  BY <1>1, <1>2, <1>3, StepCases

LEMMA StartsInOrder ==
  ASSUME Init
  PROVE  ReadyInOrder
<1>1. <<>> \in Seq(Tasks) /\ InitialPriority \in [Tasks -> 0..255]
  BY EmptySeq, DispatcherAssumption DEF DispatcherAssumption
<1>2. Ordered(<<>>, InitialPriority)
  BY DEF Ordered
<1>3. Ordered(ready, priority)
  BY <1>1, <1>2, InsertedOrder DEF Init
<1> QED
  BY <1>3 DEF Ordered, ReadyInOrder

(* The ready queue is ordered by priority through every post, wait and     *)
(* change of priority, for queueBlock inserts by it and                    *)
(* setDispatchingPriority moves what it changes.                           *)
THEOREM QueueInOrder == Spec => []ReadyInOrder
<1>1. Init => QueueInv /\ MachineTyped /\ ReadyInOrder
  BY Starts, StartsInOrder
<1>2. QueueInv /\ MachineTyped /\ ReadyInOrder /\ [Next]_vars
      => (QueueInv /\ MachineTyped /\ ReadyInOrder)'
  BY StepTyped, StepOrder
<1> QED
  BY <1>1, <1>2, PTL DEF Spec

(* Both together: a ready task runs, or there is none.  For the host       *)
(* events delivered rightly.                                               *)
THEOREM RunsWhoCanRun == RightlyDelivered /\ Spec => []RunsWhoCan
<1>1. RightlyDelivered /\ Spec => []WaiterNeverRuns
  BY NoWaiterRuns
<1>2. RightlyDelivered /\ Spec => []StopsOnlyIdle
  BY StopsIdle
<1>3. WaiterNeverRuns /\ StopsOnlyIdle => RunsWhoCan
  BY DEF RunsWhoCan
<1> QED
  BY <1>1, <1>2, <1>3, PTL

(* Both together: the head of the ready queue is the task that should run. *)
THEOREM ReadyQueueRight == Spec => []QueueIsRight
<1>1. Spec => []ReadyIffNotWaiting
  BY ReadyQueue
<1>2. Spec => []ReadyInOrder
  BY QueueInOrder
<1>3. ReadyIffNotWaiting /\ ReadyInOrder => QueueIsRight
  BY DEF QueueIsRight
<1> QED
  BY <1>1, <1>2, <1>3, PTL

-----------------------------------------------------------------------------
(* Preemption.                                                             *)

Preempts == \A t \in Tasks :
    enabled' /\ cond[t] # {} /\ cond'[t] = {} => priority'[current'] >= priority'[t]

(* The head of the queue is of the highest priority.                       *)
LEMMA HeadFirst ==
  ASSUME QueueInv', ReadyInOrder', NEW t \in Tasks, cond'[t] = {}, current' = Head(ready')
  PROVE  priority'[current'] >= priority'[t]
<1>1. ready' \in Seq(Tasks) /\ t \in Range(ready') /\ priority' \in [Tasks -> 0..255]
  BY DEF QueueInv, QueueTyped, ReadyIffNotWaiting
<1>2. ready' # <<>>
  BY <1>1 DEF Range
<1>3. 1 \in DOMAIN ready' /\ current' = ready'[1] /\ current' \in Tasks
  BY <1>1, <1>2, HeadInRange
<1>4. PICK i \in DOMAIN ready' : ready'[i] = t
  BY <1>1 DEF Range
<1>5. i \in Nat /\ i >= 1
  BY <1>1, <1>4, LenProperties
<1>6. CASE i = 1
  <2>1. current' = t
    BY <1>3, <1>4, <1>6
  <2>2. \A n \in 0..255 : n >= n
    OBVIOUS
  <2> QED
    BY <1>1, <2>1, <2>2
<1>7. CASE i > 1
  BY <1>3, <1>4, <1>7 DEF ReadyInOrder
<1> QED
  BY <1>5, <1>6, <1>7

LEMMA SelectsHead ==
  ASSUME QueueInv', NEW t \in Tasks, cond'[t] = {}
  PROVE  Select(TRUE) = Head(ready') /\ Head(ready') # None
<1>1. ready' \in Seq(Tasks) /\ t \in Range(ready')
  BY DEF QueueInv, QueueTyped, ReadyIffNotWaiting
<1>2. ready' # <<>>
  BY <1>1 DEF Range
<1>3. Head(ready') \in Tasks /\ None \notin Tasks
  BY <1>1, <1>2, HeadInRange, DispatcherAssumption DEF DispatcherAssumption
<1> QED
  BY <1>2, <1>3 DEF Select

(* A call that readies a task asks for the dispatch.                       *)
LEMMA CallAsks ==
  ASSUME QueueInv, MachineTyped, SupervisorCall, NEW t \in Tasks, cond[t] # {}, cond'[t] = {}
  PROVE  \E waiting \in BOOLEAN : EndOfCall(TRUE, waiting)
<1>1. current \in Tasks /\ cond \in [Tasks -> SUBSET Conditions]
  BY DEF MachineTyped, QueueInv, QueueTyped
<1>2. ASSUME cond' = cond  PROVE FALSE
  BY <1>2
<1>3. ASSUME NEW condition, Wait(condition)  PROVE FALSE
  BY <1>1, <1>3 DEF Wait
<1>4. ASSUME NEW m \in Masks, GeneralPost(m)  PROVE EndOfCall(TRUE, FALSE)
  <2> DEFINE posted == {u \in Tasks : m \in mask[u]}
  <2>1. cond' = ClearedOf(cond, posted, "general") /\ EndOfCall(ReadiedOf(posted, cond') # {}, FALSE)
    BY <1>4 DEF GeneralPost
  <2> HIDE DEF posted
  <2>2. t \in ReadiedOf(posted, cond')
    BY <2>1 DEF ClearedOf, ReadiedOf
  <2>3. (ReadiedOf(posted, cond') # {}) = TRUE
    BY <2>2
  <2> QED
    BY <2>1, <2>3
<1>5. ASSUME NEW u \in Tasks, AsynchronousTaskWait(u)  PROVE FALSE
  BY <1>1, <1>5 DEF AsynchronousTaskWait
<1>6. ASSUME NEW u \in Tasks, TaskPost(u)  PROVE EndOfCall(TRUE, FALSE)
  <2>1. cond' = ClearedOf(cond, {u}, "task") /\ EndOfCall(ReadiedOf({u}, cond') # {}, FALSE)
    BY <1>6 DEF TaskPost
  <2>2. t \in ReadiedOf({u}, cond')
    BY <2>1 DEF ClearedOf, ReadiedOf
  <2>3. (ReadiedOf({u}, cond') # {}) = TRUE
    BY <2>2
  <2> QED
    BY <2>1, <2>3
<1>7. ASSUME NEW u \in Tasks, NEW k \in Keys, PostTask(u, k)  PROVE EndOfCall(TRUE, FALSE)
  <2>1. Complete(u, k) /\ EndOfCall(Wakes(u, k) /\ cond'[u] = {}, FALSE)
    BY <1>7 DEF PostTask
  <2>2. Wakes(u, k) /\ cond' = ClearedOf(cond, {u}, "event")
    BY <2>1 DEF Complete
  <2>3. u = t
    BY <2>2 DEF ClearedOf
  <2>4. (Wakes(u, k) /\ cond'[u] = {}) = TRUE
    BY <2>2, <2>3 DEF Wakes
  <2> QED
    BY <2>1, <2>4
<1> QED
  BY <1>2, <1>3, <1>4, <1>5, <1>6, <1>7
  DEF SupervisorCall, OtherCall, EventTaken, EventWait, GeneralWait, TaskWait, DeferredTaskWait,
      TaskBlockPriorityQueue

LEMMA StepPreempts ==
  ASSUME QueueInv, MachineTyped, MachineInv, ReadyInOrder, RightlyDelivered, [Next]_vars
  PROVE  Preempts
<1> SUFFICES ASSUME NEW t \in Tasks, enabled', cond[t] # {}, cond'[t] = {}
             PROVE  priority'[current'] >= priority'[t]
  BY DEF Preempts
<1>1. QueueInv' /\ MachineTyped' /\ ReadyInOrder' /\ enabled \in BOOLEAN
  BY StepTyped, StepOrder DEF MachineTyped
<1>2. Select(TRUE) = Head(ready') /\ Head(ready') # None
  BY <1>1, SelectsHead
<1>3. CASE SupervisorCall
  <2>1. PICK waiting \in BOOLEAN : EndOfCall(TRUE, waiting)
    BY <1>3, CallAsks
  <2>2. enabled' = TRUE
    BY <1>1 DEF MachineTyped
  <2>3. current' = Head(ready')
    BY <1>2, <2>1, <2>2 DEF EndOfCall
  <2> QED
    BY <1>1, <2>3, HeadFirst
<1>4. CASE HostEvent
  <2>1. PICK s \in Sources : \/ HostEventWhileRunning(s[1], s[2], s[3])
                            \/ HostEventAtIdle(s[1], s[2], s[3])
    BY <1>4 DEF HostEvent
  <2>2. Deliver(s[1], s[2], s[3])
    BY <2>1 DEF HostEventWhileRunning, HostEventAtIdle
  <2>3. Wakes(s[2], s[3]) /\ s[2] = t
    BY <2>2 DEF Deliver, Complete, ClearedOf
  <2>4. (enabled \/ s[1] \in {"condition", "deferredAid"}) = TRUE
    <3>1. CASE HostEventWhileRunning(s[1], s[2], s[3])
      <4>1. s[1] \in {"completion", "condition"} /\ ~stopped
        BY <3>1 DEF HostEventWhileRunning, RightlyDelivered
      <4>2. enabled' = (enabled \/ s[1] # "completion" \/ stopped)
        BY <2>2 DEF Deliver
      <4> QED
        BY <1>1, <4>1, <4>2
    <3>2. CASE HostEventAtIdle(s[1], s[2], s[3])
      BY <3>2 DEF HostEventAtIdle, MachineInv, StoppedInv
    <3> QED
      BY <2>1, <3>1, <3>2
  <2>5. current' = Head(ready')
    <3>1. current' = IF /\ Wakes(s[2], s[3]) /\ (cond'[s[2]] = {} \/ redispatch)
                        /\ Select(enabled \/ s[1] \in {"condition", "deferredAid"}) # None
                     THEN Select(enabled \/ s[1] \in {"condition", "deferredAid"}) ELSE current
      BY <2>2 DEF Deliver
    <3> QED
      BY <1>2, <2>3, <2>4, <3>1
  <2> QED
    BY <1>1, <2>5, HeadFirst
<1>5. CASE Instruction \/ LoadProgramMode \/ UNCHANGED vars
  <2>1. cond' = cond
    BY <1>5 DEF Instruction, LoadProgramMode
  <2> QED
    BY <2>1
<1> QED
  BY <1>3, <1>4, <1>5, StepCases

(* A task readied while dispatching is enabled preempts one of lower       *)
(* priority in the same step, whether a supervisor call or a host event    *)
(* readied it.  For the host events delivered rightly.                     *)
THEOREM Preemption == RightlyDelivered /\ Spec => ReadiedPreempts
<1> DEFINE Inv == QueueInv /\ MachineTyped /\ MachineInv /\ ReadyInOrder
<1>1. Init => Inv
  BY Starts, StartsInOrder
<1>2. RightlyDelivered /\ Inv /\ [Next]_vars => Inv'
  BY StepTyped, StepMachine, StepOrder
<1>3. RightlyDelivered /\ Inv /\ [Next]_vars => [Preempts]_vars
  BY StepPreempts
<1>4. CASE RightlyDelivered
  <2>1. Spec => [][Preempts]_vars
    BY <1>1, <1>2, <1>3, <1>4, PTL DEF Spec
  <2> QED
    BY <2>1 DEF ReadiedPreempts, Preempts
<1>5. CASE ~RightlyDelivered
  BY <1>5
<1> QED
  BY <1>4, <1>5
=============================================================================
