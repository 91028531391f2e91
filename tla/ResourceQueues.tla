--------------------------- MODULE ResourceQueues ---------------------------
(***************************************************************************)
(* Resource allocation: SVC 20 and SVC 21, and the release at the end of a *)
(* task (src/Processors/ControlStorage/As36Dispatch.cpp 1860-2357).  A     *)
(* resource has a queue of allocation queue elements; each carries the     *)
(* share level its owner asked for, and is an owner of the resource once   *)
(* it can share with everything before it.  A request either waits, in the *)
(* one resource wait a task has (TB_STAT2 10), or is refused at once.      *)
(*                                                                         *)
(* A supervisor call is one step: the control processor is not interrupted *)
(* in it.  Which of the tasks that do not wait runs next is left open here *)
(* (TaskDispatcher models the choice), so the order of calls is arbitrary. *)
(***************************************************************************)
EXTENDS Naturals, Sequences, SequencesExt, FiniteSets

CONSTANTS
    Tasks,          \* task blocks
    Jobs,           \* job control blocks that also own elements
    CurrentTask,    \* jcb+77: the task an element queued by JCB is posted to
    Resources,      \* resource queue headers
    Critical,       \* those the program asks for as critical system resources
    Requests,       \* the share bytes asked for: [lv |-> level + 1, ext |-> BOOLEAN]
    Nesters,        \* the owners whose programs use nested requests
    Nesting         \* bound: the elements of one owner on one resource

VARIABLES
    queue,          \* resource -> its allocation queue elements, in order
    waiting,        \* task -> TB_STAT2 10 is on
    ended,          \* tasks that have terminated
    priority,       \* task -> tb+7, and what tb+28 saved of it
    rebuild         \* <<job, resource>>: its nested element was dequeued last

vars == <<queue, waiting, ended, priority, rebuild>>

Owners == Tasks \cup Jobs

Share == [lv : 0..4, ext : BOOLEAN]

(* What is stored is the level plus one, so that zero is "nothing".        *)
Nothing == [lv |-> 0, ext |-> FALSE]

ASSUME ResourceAssumption ==
    /\ Tasks # {} /\ Tasks \cap Jobs = {}
    /\ CurrentTask \in [Jobs -> Tasks]
    /\ Critical \subseteq Resources /\ Nesters \subseteq Owners
    /\ Requests \subseteq [lv : 1..4, ext : BOOLEAN]
    /\ Nesting \in Nat \ {0}

TaskOf(o) == IF o \in Jobs THEN CurrentTask[o] ELSE o

(* A normal priority, the highest setDispatchingPriority stores, and the   *)
(* ceiling the holder of a critical resource is to be raised to.           *)
Normal == 200
Highest == 236
Ceiling == 240

(* An element: its owner, the ACTIVE share and its owner bit (own), the    *)
(* REQUESTED share, its nesting bit and its evaluated bit (seen), and the  *)
(* elements it nests over, the latest first, all off the resource queue.   *)
Plain == [owner : Owners, active : Share, own : BOOLEAN,
          requested : Share, nested : BOOLEAN, seen : BOOLEAN]

WithUnder(e, under) == [owner |-> e.owner, active |-> e.active, own |-> e.own,
                        requested |-> e.requested, nested |-> e.nested, seen |-> e.seen,
                        under |-> under]

WithoutUnder(e) == [owner |-> e.owner, active |-> e.active, own |-> e.own,
                    requested |-> e.requested, nested |-> e.nested, seen |-> e.seen]

Init ==
    /\ queue = [r \in Resources |-> <<>>]
    /\ waiting = [t \in Tasks |-> FALSE]
    /\ ended = {}
    /\ priority = [t \in Tasks |-> [now |-> Normal, saved |-> Normal]]
    /\ rebuild = {}

-----------------------------------------------------------------------------
(* The share byte of holding both: the higher level.  Where b is the       *)
(* higher only its level is kept, and the extended bit of both is lost.    *)
Combine(a, b) ==
    IF a.lv > b.lv THEN a
    ELSE IF a.lv < b.lv THEN [lv |-> b.lv, ext |-> FALSE]
    ELSE IF b.lv \notin {2, 3} \/ a = b THEN a
    ELSE [lv |-> 3, ext |-> FALSE]

(* The two cannot be held together.                                        *)
Conflicts(a, b) ==
    \/ a.lv + b.lv > 4
    \/ a.lv + b.lv = 4 /\ a.ext # b.ext

OwnedBy(e, o) == e.owner = o

(* The levels of the owners of a queue, those of o's own elements aside.   *)
OwnedLevels(q, o) ==
    LET upTo[i \in 0..Len(q)] ==
          IF i = 0 THEN Nothing
          ELSE IF q[i].own /\ ~OwnedBy(q[i], o) THEN Combine(upTo[i - 1], q[i].active)
          ELSE upTo[i - 1]
    IN upTo[Len(q)]

(* Fault: a request that waits does not bar the ones behind it.            *)
Offer_NotBarred(walk, e, wait) ==
    IF e.own \/ Conflicts(walk.all, e.active)
    THEN [walk EXCEPT !.q = Append(@, [e EXCEPT !.seen = TRUE])]
    ELSE [all |-> Combine(walk.all, e.active),
          q |-> Append(walk.q, [e EXCEPT !.own = TRUE, !.seen = TRUE]),
          posts |-> IF e.seen THEN walk.posts \cup {TaskOf(e.owner)} ELSE walk.posts]

(* One step of the second walk: an element that is no owner yet becomes    *)
(* one if it can share with all that is granted or waits before it; if it  *)
(* had been evaluated before, its task is posted.  An element evaluated    *)
(* for the first time that cannot share bars the ones behind it only if    *)
(* its request waits.                                                      *)
Offer(walk, e, wait) ==
    IF e.own THEN [walk EXCEPT !.q = Append(@, e)]
    ELSE IF ~Conflicts(walk.all, e.active)
    THEN [all |-> Combine(walk.all, e.active),
          q |-> Append(walk.q, [e EXCEPT !.own = TRUE, !.seen = TRUE]),
          posts |-> IF e.seen THEN walk.posts \cup {TaskOf(e.owner)} ELSE walk.posts]
    ELSE [all |-> IF e.seen \/ wait THEN Combine(walk.all, e.active) ELSE walk.all,
          q |-> Append(walk.q, [e EXCEPT !.seen = TRUE]),
          posts |-> walk.posts]

Evaluate(q, all, wait) ==
    LET upTo[i \in 0..Len(q)] ==
          IF i = 0 THEN [all |-> all, q |-> <<>>, posts |-> {}]
          ELSE Offer(upTo[i - 1], q[i], wait)
    IN upTo[Len(q)]

(* Where o's element is on a queue, 0 if it has none.                      *)
Mine(q, o) == IF \E i \in DOMAIN q : OwnedBy(q[i], o)
              THEN CHOOSE i \in DOMAIN q : OwnedBy(q[i], o) ELSE 0

(* An element leaves the queue; the one it nested over comes back at the   *)
(* head, without the ownership it lost when it was nested over.            *)
DequeueElement(q, i) ==
    LET e == q[i] IN
    (IF e.nested /\ e.under # <<>> THEN <<WithUnder(Head(e.under), Tail(e.under))>> ELSE <<>>)
        \o RemoveAt(q, i)

New(o, share, nested, active, under) ==
    [owner |-> o, active |-> active, own |-> FALSE, requested |-> share,
     nested |-> nested, seen |-> FALSE, under |-> under]

(* The request enters the queue: in place of the owner's element, over it  *)
(* at the head, or at the tail.                                            *)
EnqueueElement(q, o, share, nested) ==
    LET i == Mine(q, o) IN
    IF i = 0 THEN Append(q, New(o, share, nested, share, <<>>))
    ELSE IF nested
    THEN LET old == [WithoutUnder(q[i]) EXCEPT !.own = FALSE] IN
         <<New(o, share, TRUE, Combine(share, old.active), <<old>> \o q[i].under)>> \o RemoveAt(q, i)
    ELSE [q EXCEPT ![i] = New(o, share, FALSE, share, @.under)]

(* Those posted leave the resource wait; each is in the one wait its bit   *)
(* stands for, whatever resource it is about.                              *)
Post(posts) == [t \in Tasks |-> waiting[t] /\ t \notin posts]

SetPriority(p) == IF p > Highest THEN Highest ELSE p

(* The owners of a critical resource a request finds are raised, and the   *)
(* one that gives it up is restored, if its priority is at the ceiling.    *)
RaiseHolders(holders) ==
    [t \in Tasks |-> IF t \in holders /\ priority[t].now < Ceiling
                     THEN [now |-> SetPriority(Ceiling), saved |-> priority[t].now]
                     ELSE priority[t]]

RestoreHolder(o) ==
    [t \in Tasks |-> IF t = o /\ priority[t].now >= Ceiling
                     THEN [priority[t] EXCEPT !.now = SetPriority(@.saved)] ELSE priority[t]]

Holders(q, o) == {TaskOf(e.owner) : e \in {e \in Range(q) : e.own /\ ~OwnedBy(e, o)}}

Calls(o) == TaskOf(o) \notin ended /\ ~waiting[TaskOf(o)]

-----------------------------------------------------------------------------
(* SVC 21, enqueue.  A request that does not nest is made for an owner     *)
(* that holds no nested element.                                           *)
ResourceEnqueue(o, r, share, nested, wait) ==
    LET q    == queue[r]
        i    == Mine(q, o)
        walk == Evaluate(EnqueueElement(q, o, share, nested), OwnedLevels(q, o), wait)
        k    == Mine(walk.q, o) IN
    /\ Calls(o)
    /\ nested => o \in Nesters
    /\ i # 0 => IF nested THEN Len(q[i].under) + 2 <= Nesting ELSE ~q[i].nested
    /\ priority' = IF r \in Critical THEN RaiseHolders(Holders(q, o)) ELSE priority
    /\ queue' = [queue EXCEPT ![r] = IF walk.q[k].own \/ wait THEN walk.q
                                     ELSE DequeueElement(walk.q, k)]
    /\ waiting' = [Post(walk.posts) EXCEPT ![TaskOf(o)] = wait /\ ~walk.q[k].own]
    /\ rebuild' = rebuild \ {<<o, r>>}
    /\ UNCHANGED ended

(* SVC 21, dequeue.  A call for an owner without an element only evaluates *)
(* the queue again.                                                        *)
ResourceDequeue(o, r) ==
    LET q    == queue[r]
        i    == Mine(q, o)
        walk == Evaluate(IF i = 0 THEN q ELSE DequeueElement(q, i), OwnedLevels(q, o), FALSE) IN
    /\ Calls(o)
    /\ priority' = IF r \in Critical THEN RestoreHolder(o) ELSE priority
    /\ queue' = [queue EXCEPT ![r] = walk.q]
    /\ waiting' = Post(walk.posts)
    /\ rebuild' = IF o \in Jobs /\ i # 0 /\ q[i].own /\ q[i].under # <<>>
                  THEN rebuild \cup {<<o, r>>} ELSE rebuild \ {<<o, r>>}
    /\ UNCHANGED ended

(* The active share levels of the job's elements, the oldest first, each   *)
(* the combination of what was requested up to it.                         *)
Rebuilt(chain) ==
    LET level[k \in 1..Len(chain)] ==
          Combine(chain[k].requested, IF k = 1 THEN Nothing ELSE level[k - 1])
    IN [k \in 1..Len(chain) |-> [chain[k] EXCEPT !.active = level[k]]]

(* SVC 20, which the program calls after it dequeued a nested element it   *)
(* owned: the youngest element of the job becomes an owner, and nothing is *)
(* evaluated.                                                              *)
SpecificResourceDequeue(j, r) ==
    LET q     == queue[r]
        i     == Mine(q, j)
        chain == Rebuilt(Append(Reverse(q[i].under), WithoutUnder(q[i]))) IN
    /\ Calls(j)
    /\ <<j, r>> \in rebuild
    /\ i # 0
    /\ queue' = [queue EXCEPT ![r][i] = WithUnder([chain[Len(chain)] EXCEPT !.own = TRUE],
                                                  Reverse(Front(chain)))]
    /\ rebuild' = rebuild \ {<<j, r>>}
    /\ UNCHANGED <<waiting, ended, priority>>

(* Fault: a queue is not evaluated after the terminating task left it.     *)
Release_NoWalk(q, t) == [q |-> DequeueElement(q, Mine(q, t)), posts |-> {}]

(* One element of a terminating task is released and its queue evaluated.  *)
Release(q, t) ==
    LET rest == DequeueElement(q, Mine(q, t)) IN
    Evaluate(rest, OwnedLevels(rest, t), FALSE)

(* A task terminates (SVC 11, or an abnormal termination): all it owns     *)
(* itself is released.  Its job owns nothing any more then, and it holds   *)
(* no nested element of its own.                                           *)
ReleaseTaskResources(t) ==
    LET held     == {r \in Resources : Mine(queue[r], t) # 0}
        freed(r) == Release(queue[r], t) IN
    /\ Calls(t)
    /\ \A r \in Resources, j \in Jobs : CurrentTask[j] = t => Mine(queue[r], j) = 0
    /\ \A r \in held : queue[r][Mine(queue[r], t)].under = <<>>
    /\ queue' = [r \in Resources |-> IF r \in held THEN freed(r).q ELSE queue[r]]
    /\ waiting' = Post(UNION {freed(r).posts : r \in held})
    /\ ended' = ended \cup {t}
    /\ UNCHANGED <<priority, rebuild>>

Next ==
    \/ \E o \in Owners, r \in Resources :
         \/ \E share \in Requests, nested, wait \in BOOLEAN : ResourceEnqueue(o, r, share, nested, wait)
         \/ ResourceDequeue(o, r)
    \/ \E j \in Jobs, r \in Resources : SpecificResourceDequeue(j, r)
    \/ \E t \in Tasks : ReleaseTaskResources(t)

Spec == Init /\ [][Next]_vars

-----------------------------------------------------------------------------
(* Every element is well formed and an owner has one on each queue.        *)
TypeOK ==
    /\ \A r \in Resources :
         /\ \A i \in DOMAIN queue[r] : LET e == queue[r][i] IN
              /\ WithoutUnder(e) \in Plain
              /\ e.under \in Seq(Plain) /\ Len(e.under) < Nesting
              /\ \A k \in DOMAIN e.under : e.under[k].owner = e.owner /\ ~e.under[k].own
         /\ \A i, k \in DOMAIN queue[r] : queue[r][i].owner = queue[r][k].owner => i = k
    /\ waiting \in [Tasks -> BOOLEAN]
    /\ ended \subseteq Tasks
    /\ priority \in [Tasks -> [now : {Normal, Highest}, saved : {Normal, Highest}]]
    /\ rebuild \subseteq Jobs \X Resources

Owns(o, r) == \E i \in DOMAIN queue[r] : queue[r][i].owner = o /\ queue[r][i].own

(* The table of SA21-9436 3-107 the header quotes: level 0 with 0, 1 and   *)
(* 2, level 1 with 0 and 1, level 2 with 0, level 3 with none; and         *)
(* extended level 1 with extended level 1 and 0.                           *)
CanShare(a, b) == a.lv + b.lv <= 4 /\ (a.lv = 2 /\ b.lv = 2 => a.ext = b.ext)

(* Two owners of a resource can share it (resourceEvaluateQueue): however  *)
(* requests, nested requests, refusals, rebuilds and terminations follow   *)
(* each other.                                                             *)
OwnersShare ==
    \A r \in Resources : \A i, k \in DOMAIN queue[r] :
        i # k /\ queue[r][i].own /\ queue[r][k].own
            => CanShare(queue[r][i].active, queue[r][k].active)

(* Something before it, or an owner behind it, keeps the element waiting.  *)
Barred(q, i) ==
    \E k \in DOMAIN q \ {i} : (k < i \/ q[k].own) /\ ~CanShare(q[k].active, q[i].active)

(* No post is lost: a task that sits in the resource wait has a request    *)
(* that cannot be granted now.  All that frees a resource, the walk of a   *)
(* dequeue, of a refusal or of a termination, has looked at it.            *)
WaitIsNeeded ==
    \A t \in Tasks : waiting[t] =>
        \E r \in Resources : \E i \in DOMAIN queue[r] :
            /\ TaskOf(queue[r][i].owner) = t /\ ~queue[r][i].own
            /\ Barred(queue[r], i)

(* What the walks have granted is neither too much nor too little.         *)
GrantsAreRight == OwnersShare /\ WaitIsNeeded

(* A task that waits is not overtaken: a request behind its own is granted *)
(* only if the two can share (resourceEvaluateQueue, 2348-2350).           *)
NotOvertaken ==
    \A r \in Resources : \A k \in DOMAIN queue'[r] :
        queue'[r][k].own /\ ~Owns(queue'[r][k].owner, r) =>
            \A i \in 1..(k - 1) : waiting[TaskOf(queue'[r][i].owner)] =>
                CanShare(queue'[r][i].active, queue'[r][k].active)

(* What a task owns itself or through its job it keeps while it waits for  *)
(* something else: no call of another revokes a share.                     *)
SharesKept ==
    \A r \in Resources, o \in Owners : Owns(o, r) /\ ~Owns(o, r)' => Calls(o)

(* Who waits is neither overtaken nor robbed.                              *)
WaitersAreSafe == [][NotOvertaken /\ SharesKept]_vars
=============================================================================
