--------------------------- MODULE TaskDispatcher ---------------------------
(***************************************************************************)
(* The dispatcher of the control processor, its wait and post services,    *)
(* and the host events the live loop delivers to it                        *)
(* (src/Processors/ControlStorage/As36Dispatch.cpp 39-1380, the supervisor *)
(* call entry of As36ControlStorageProcessor.cpp and the producers of      *)
(* As36WorkStation.cpp, called from src/Monitor/MonitorCliLive.cpp).       *)
(*                                                                         *)
(* There is one set of registers.  A task that does not run has its        *)
(* context in its request block; what is told apart of a context is only   *)
(* whether it holds all the task has done and been given.  A supervisor    *)
(* call, or the delivery of one host event, is one step: both run on the   *)
(* guest's thread, between two instructions.                               *)
(*                                                                         *)
(* Left out: the re-issue of an interrupted call (330-363), the ordering   *)
(* of the initial job task (175-221), the wait of SVC 23, and which of two *)
(* elements a multiple wait takes first.                                   *)
(***************************************************************************)
EXTENDS Naturals, Sequences, FiniteSets, SequencesExt

CONSTANTS
    Tasks,              \* task blocks
    CommandTask,        \* task id 0009, the IPL and command processor task
    None,               \* no task
    Keys,               \* what a completed element is matched by
    Multi,              \* the keys of elements a multiple wait may take
    ConditionKey,       \* the element of an internal condition or of a status
    AnyEvent,                \* a multiple wait
    Masks,              \* the conditions of a general wait
    InitialPriority,    \* task -> tb+7 and tb+20 of a new task
    Bias,               \* task -> tb+64
    Requested,          \* the priorities SVC 24 asks for
    AtIdle,             \* host events delivered while every task waits
    WhileRunning,       \* host events delivered at a preemption point
    Unawaited,          \* those delivered at idle may ready no task
    Elements            \* bound: the elements of one key queued to one task

ASSUME DispatcherAssumption ==
    /\ IsFiniteSet(Tasks) /\ CommandTask \in Tasks /\ None \notin Tasks
    /\ Multi \subseteq Keys /\ ConditionKey \in Multi
    /\ AnyEvent \notin Keys /\ None \notin Keys \cup {AnyEvent}
    /\ InitialPriority \in [Tasks -> 0..255] /\ Bias \in [Tasks -> Nat]
    /\ Requested \subseteq 0..255
    /\ AtIdle \cup WhileRunning \subseteq {"completion", "status", "condition", "deferredAid"}
    /\ Unawaited \in BOOLEAN
    /\ Elements \in Nat \ {0}

VARIABLES
    cond,           \* task -> TB_STAT2, the conditions it waits for
    deferred,       \* task -> tb+6, a wait to be folded into a later one
    want,           \* task -> what its event wait names, None when in none
    mask,           \* task -> tb+8, the conditions of its general wait
    events,         \* task -> the completed elements queued to it, by key
    priority,       \* task -> tb+7
    floor,          \* task -> tb+20
    ready,          \* system queue 40
    current,        \* currentTaskBlock_, and system queue header 37
    redispatch,     \* a dispatch was asked for and not made
    enabled,        \* task dispatching is enabled (PMR bit 0)
    stopped,        \* the host stop latch of the main storage processor
    idle,           \* idleEventWait_
    live,           \* whose context the registers hold, and whether all of it
    saved           \* task -> its request block holds all of its context

waits == <<cond, deferred, want, mask, events>>
order == <<priority, floor, ready>>
machine == <<current, redispatch, enabled, stopped, idle>>
contexts == <<live, saved>>
vars == <<waits, order, machine, contexts>>

Conditions == {"event", "general", "task"}

-----------------------------------------------------------------------------
(* System queue 40.                                                        *)

(* The order of q is kept, and each task of new comes just before the      *)
(* first of lower priority, so behind its equals.                          *)
Placed(r, q, new, p) ==
    \A i, j \in DOMAIN r : i < j =>
        IF r[j] \in new THEN p[r[i]] >= p[r[j]]
        ELSE IF r[i] \in new
             THEN \E k \in (i + 1)..j : r[k] \notin new /\ p[r[k]] < p[r[i]]
             ELSE \E m, n \in DOMAIN q : m < n /\ r[i] = q[m] /\ r[j] = q[n]

(* The queues that come of inserting the tasks of a set, the higher        *)
(* priorities first; a task that is queued already stays where it is.      *)
Inserted(q, set, p) ==
    {r \in [1..Cardinality(Range(q) \cup set) -> Range(q) \cup set] :
        /\ Range(r) = Range(q) \cup set
        /\ Placed(r, q, set \ Range(q), p)}

Without(q, t) ==
    IF t \in Range(q) THEN RemoveAt(q, CHOOSE i \in DOMAIN q : q[i] = t) ELSE q

(* Priorities.  A long wait lowers one by four, in a byte, not below the   *)
(* floor; what it lowered to is stored with the bias added again.          *)
Stored(t, p) == IF p + 4 * Bias[t] > 236 THEN 236 ELSE p + 4 * Bias[t]

Lowered(t, p) ==
    LET lowered == (p + 252) % 256
    IN IF p >= 240 THEN p
       ELSE IF lowered >= floor[t] THEN Stored(t, lowered)
       ELSE floor[t]

(* Fault: the task keeps its place.                                        *)
SetPriority_NotRequeued(t, p) ==
    /\ priority' = [priority EXCEPT ![t] = p]
    /\ ready' = ready

(* Give t a priority, and its place on the ready queue if it does not wait.*)
SetPriority(t, p) ==
    /\ priority' = [priority EXCEPT ![t] = p]
    /\ IF cond[t] = {} THEN ready' \in Inserted(Without(ready, t), {t}, priority')
       ELSE ready' = ready

-----------------------------------------------------------------------------
(* The task the machine would run next: the head of the ready queue, or,   *)
(* with dispatching disabled, the one it runs unless that waits.           *)
Select(on) ==
    IF on THEN IF ready' = <<>> THEN None ELSE Head(ready')
    ELSE IF cond'[current] = {} THEN current ELSE None

Own(t) == [of |-> t, fresh |-> TRUE]

(* Fault: the registers are not stored.                                    *)
Spilled_NotStored == saved

(* The registers stored into the request block of the current task.        *)
Spilled == [saved EXCEPT ![current] = (live = Own(current))]

(* The context of t reloaded from its request block.                       *)
Reloaded(t, blocks) == [of |-> t, fresh |-> blocks[t]]

(* A supervisor call: the registers are stored before its handler; after   *)
(* it, a dispatch asked for is made, and the registers of the task that is *)
(* current then are loaded.  A task that waits when no other is ready      *)
(* stops the processor.                                                    *)
EndOfCall(asked, waiting) ==
    LET next == Select(enabled')
        runs == (asked \/ redispatch) /\ next # None
    IN /\ current' = IF runs THEN next ELSE current
       /\ idle' = IF runs THEN FALSE ELSE idle \/ waiting
       /\ stopped' = (waiting /\ ~runs)
       /\ redispatch' = FALSE
       /\ saved' = Spilled
       /\ live' = Reloaded(current', saved')

(* Fault: the task stays on the ready queue.                               *)
Wait_StillReady(condition) ==
    /\ cond' = [cond EXCEPT ![current] = @ \cup {condition}]
    /\ ready' = ready
    /\ enabled' = TRUE
    /\ EndOfCall(TRUE, TRUE)

(* The wait of the current task.  The deferred wait at tb+6 is not folded  *)
(* in: that is for a task other than the current one.                      *)
Wait(condition) ==
    /\ cond' = [cond EXCEPT ![current] = @ \cup {condition}]
    /\ ready' = Without(ready, current)
    /\ enabled' = TRUE
    /\ EndOfCall(TRUE, TRUE)

Matches(w, k) == w = k \/ (w = AnyEvent /\ k \in Multi)

(* Fault: a multiple wait does not look at the queue.                      *)
Pending_KeyOnly(t, w) == {k \in Keys : events[t][k] > 0 /\ w = k}

Pending(t, w) == {k \in Keys : events[t][k] > 0 /\ Matches(w, k)}

Taken(t, k) == [events EXCEPT ![t][k] = @ - 1]
Queued(t, k) == [events EXCEPT ![t][k] = @ + 1]

-----------------------------------------------------------------------------
Init ==
    /\ cond = [t \in Tasks |-> {}]
    /\ deferred = [t \in Tasks |-> {}]
    /\ want = [t \in Tasks |-> None]
    /\ mask = [t \in Tasks |-> {}]
    /\ events = [t \in Tasks |-> [k \in Keys |-> 0]]
    /\ priority = InitialPriority
    /\ floor = InitialPriority
    /\ ready \in Inserted(<<>>, Tasks, InitialPriority)
    /\ current = Head(ready)
    /\ redispatch = FALSE /\ enabled = TRUE
    /\ stopped = FALSE /\ idle = FALSE
    /\ live = Own(current)
    /\ saved = [t \in Tasks |-> TRUE]

(* An instruction of the guest: the request block no longer holds it.      *)
Instruction ==
    /\ ~stopped
    /\ saved' = IF live.fresh THEN [saved EXCEPT ![live.of] = FALSE] ELSE saved
    /\ UNCHANGED <<waits, order, machine, live>>

(* LPMR turns task dispatching on or off; it makes no dispatch.            *)
LoadProgramMode ==
    /\ ~stopped
    /\ enabled' = ~enabled
    /\ saved' = IF live.fresh THEN [saved EXCEPT ![live.of] = FALSE] ELSE saved
    /\ UNCHANGED <<waits, order, current, redispatch, stopped, idle, live>>

(* SVC 02 that need not wait: an element matches, or the ECM it names is   *)
(* complete already.                                                       *)
EventTaken(w, long) ==
    /\ ~stopped
    /\ \/ \E k \in Pending(current, w) : events' = Taken(current, k)
       \/ Pending(current, w) = {} /\ w \in Keys /\ events' = events
    /\ IF long THEN SetPriority(current, Lowered(current, priority[current]))
       ELSE UNCHANGED <<priority, ready>>
    /\ UNCHANGED <<cond, deferred, want, mask, floor, enabled>>
    /\ EndOfCall(FALSE, FALSE)

(* SVC 02 that waits.  With Q bit 1 the priority is lowered twice, here    *)
(* and again in the wait.                                                  *)
EventWait(w, long) ==
    /\ ~stopped
    /\ Pending(current, w) = {}
    /\ want' = [want EXCEPT ![current] = w]
    /\ priority' = IF long
                   THEN [priority EXCEPT ![current] = Lowered(current, Lowered(current, @))]
                   ELSE priority
    /\ UNCHANGED <<deferred, mask, events, floor>>
    /\ Wait("event")

(* SVC 02 without Q bit 7, and every other call that changes nothing here. *)
OtherCall ==
    /\ ~stopped
    /\ UNCHANGED <<waits, order, enabled>>
    /\ EndOfCall(FALSE, FALSE)

(* SVC 00.                                                                 *)
GeneralWait(m) ==
    /\ ~stopped
    /\ mask' = [mask EXCEPT ![current] = @ \cup {m}]
    /\ UNCHANGED <<deferred, want, events, priority, floor>>
    /\ Wait("general")

(* SVC 1E.                                                                 *)
TaskWait(long) ==
    /\ ~stopped
    /\ priority' = IF long THEN [priority EXCEPT ![current] = Lowered(current, @)] ELSE priority
    /\ UNCHANGED <<deferred, want, mask, events, floor>>
    /\ Wait("task")

(* SVC 17 puts another task into a wait, and the deferred wait with it.    *)
AsynchronousTaskWait(t) ==
    /\ ~stopped
    /\ t # current
    /\ cond' = [cond EXCEPT ![t] = @ \cup {"task"} \cup deferred[t]]
    /\ deferred' = [deferred EXCEPT ![t] = {}]
    /\ ready' = Without(ready, t)
    /\ UNCHANGED <<want, mask, events, priority, floor, enabled>>
    /\ EndOfCall(TRUE, FALSE)

(* SVC 17 refused: the task is the current one, or holds a lock, or is in  *)
(* a transfer.  What the command task asks for is deferred.                *)
DeferredTaskWait(t) ==
    /\ ~stopped
    /\ current = CommandTask
    /\ deferred' = [deferred EXCEPT ![t] = {"task"}]
    /\ UNCHANGED <<cond, want, mask, events, order, enabled>>
    /\ EndOfCall(FALSE, FALSE)

-----------------------------------------------------------------------------
(* Posting.  A condition leaves the wait of a task, and the deferred one;  *)
(* a task that is left with none is ready.                                 *)
ClearedOf(waiting, set, condition) ==
    [t \in Tasks |-> IF t \in set THEN waiting[t] \ {condition} ELSE waiting[t]]

ReadiedOf(set, waiting) == {t \in set : waiting[t] = {}}

(* SVC 01: the tasks whose general wait names the condition.               *)
GeneralPost(m) ==
    /\ ~stopped
    /\ LET posted == {t \in Tasks : m \in mask[t]}
       IN /\ cond' = ClearedOf(cond, posted, "general")
          /\ mask' = [t \in Tasks |-> IF t \in posted THEN {} ELSE mask[t]]
          /\ ready' \in Inserted(ready, ReadiedOf(posted, cond'), priority)
          /\ UNCHANGED <<deferred, want, events, priority, floor, enabled>>
          /\ EndOfCall(ReadiedOf(posted, cond') # {}, FALSE)

(* Fault: no dispatch is asked for.                                        *)
TaskPost_NotDispatched(t) ==
    /\ ~stopped
    /\ cond' = ClearedOf(cond, {t}, "task")
    /\ deferred' = ClearedOf(deferred, {t}, "task")
    /\ ready' \in Inserted(ready, ReadiedOf({t}, cond'), priority)
    /\ UNCHANGED <<want, mask, events, priority, floor, enabled>>
    /\ EndOfCall(FALSE, FALSE)

(* SVC 1D.                                                                 *)
TaskPost(t) ==
    /\ ~stopped
    /\ cond' = ClearedOf(cond, {t}, "task")
    /\ deferred' = ClearedOf(deferred, {t}, "task")
    /\ ready' \in Inserted(ready, ReadiedOf({t}, cond'), priority)
    /\ UNCHANGED <<want, mask, events, priority, floor, enabled>>
    /\ EndOfCall(ReadiedOf({t}, cond') # {}, FALSE)

(* A completed element is queued to its task; if the task is in an event   *)
(* wait that it satisfies, the element is taken and the task posted.       *)
Wakes(t, k) == "event" \in cond[t] /\ Matches(want[t], k)

Complete(t, k) ==
    /\ events[t][k] < Elements
    /\ IF Wakes(t, k)
       THEN /\ cond' = ClearedOf(cond, {t}, "event")
            /\ want' = [want EXCEPT ![t] = None]
            /\ ready' \in Inserted(ready, ReadiedOf({t}, cond'), priority)
            /\ events' = events
       ELSE /\ events' = Queued(t, k)
            /\ UNCHANGED <<cond, want, ready>>
    /\ UNCHANGED <<deferred, mask, priority, floor>>

(* SVC 2B, and SVC 03 and SVC 19 for an element that names a task.         *)
PostTask(t, k) ==
    /\ ~stopped
    /\ Complete(t, k)
    /\ enabled' = enabled
    /\ EndOfCall(Wakes(t, k) /\ cond'[t] = {}, FALSE)

(* SVC 24: no dispatch is asked for.                                       *)
TaskBlockPriorityQueue(t, p) ==
    /\ ~stopped
    /\ floor' = [floor EXCEPT ![t] = p]
    /\ SetPriority(t, Stored(t, p))
    /\ UNCHANGED <<waits, enabled>>
    /\ EndOfCall(FALSE, FALSE)

-----------------------------------------------------------------------------
(* The host events.  "completion": the retained element of a device        *)
(* operation.  "status": an input status with no read outstanding.         *)
(* "condition": the Attention or System Request key.  "deferredAid": the   *)
(* power-on AID kept until every task waits.                               *)

(* Outside a supervisor call a dispatch exchanges the registers itself,    *)
(* but only if the processor is not stopped.  What an element gives the    *)
(* task it wakes goes to the request block: registers that already held    *)
(* the context do not have it.                                             *)
Deliver(h, t, k) ==
    LET asked == Wakes(t, k) /\ (cond'[t] = {} \/ redispatch)
        next == Select(enabled \/ h \in {"condition", "deferredAid"})
        runs == asked /\ next # None
        exchanged == runs /\ next # current /\ ~stopped
        blocks == IF exchanged THEN Spilled ELSE saved
        registers == IF exchanged THEN Reloaded(next, blocks)
                     ELSE IF Wakes(t, k) /\ live.of = t THEN [live EXCEPT !.fresh = FALSE]
                     ELSE live
        reloads == h = "status" \/ (h = "completion" /\ stopped)
        starts == h # "condition" \/ (Wakes(t, k) /\ stopped)
    IN /\ Complete(t, k)
       /\ current' = IF runs THEN next ELSE current
       /\ idle' = (idle /\ ~runs)
       /\ enabled' = (enabled \/ h # "completion" \/ stopped)
       /\ saved' = blocks
       /\ live' = IF reloads THEN Reloaded(current', blocks) ELSE registers
       /\ redispatch' = IF starts /\ h # "deferredAid" THEN TRUE ELSE redispatch /\ ~asked
       /\ stopped' = (stopped /\ ~starts)

(* At a preemption point, while a task runs.                               *)
HostEventWhileRunning(h, t, k) ==
    /\ ~stopped
    /\ h \in WhileRunning
    /\ Deliver(h, t, k)

(* At the idle boundary of the live loop.                                  *)
HostEventAtIdle(h, t, k) ==
    /\ stopped /\ idle
    /\ h \in AtIdle
    /\ Unawaited \/ (Wakes(t, k) /\ cond[t] = {"event"})
    /\ Deliver(h, t, k)

(* All but a completion are for the command task.                          *)
Sources == ({"completion"} \X Tasks \X Keys)
           \cup ({"status", "condition", "deferredAid"} \X {CommandTask} \X {ConditionKey})

Next ==
    \/ Instruction \/ LoadProgramMode \/ OtherCall
    \/ \E w \in Keys \cup {AnyEvent}, long \in BOOLEAN : EventTaken(w, long) \/ EventWait(w, long)
    \/ \E m \in Masks : GeneralWait(m) \/ GeneralPost(m)
    \/ \E long \in BOOLEAN : TaskWait(long)
    \/ \E t \in Tasks : AsynchronousTaskWait(t) \/ DeferredTaskWait(t) \/ TaskPost(t)
    \/ \E t \in Tasks, k \in Keys : PostTask(t, k)
    \/ \E t \in Tasks, p \in Requested : TaskBlockPriorityQueue(t, p)
    \/ \E s \in Sources : HostEventWhileRunning(s[1], s[2], s[3])
                          \/ HostEventAtIdle(s[1], s[2], s[3])

Spec == Init /\ [][Next]_vars
-----------------------------------------------------------------------------
TypeOK ==
    /\ cond \in [Tasks -> SUBSET Conditions]
    /\ deferred \in [Tasks -> SUBSET {"task"}]
    /\ want \in [Tasks -> Keys \cup {AnyEvent, None}]
    /\ mask \in [Tasks -> SUBSET Masks]
    /\ events \in [Tasks -> [Keys -> 0..Elements]]
    /\ priority \in [Tasks -> 0..255] /\ floor \in [Tasks -> 0..255]
    /\ ready \in Seq(Tasks)
    /\ current \in Tasks
    /\ redispatch \in BOOLEAN /\ enabled \in BOOLEAN
    /\ stopped \in BOOLEAN /\ idle \in BOOLEAN
    /\ live \in [of : Tasks, fresh : BOOLEAN]
    /\ saved \in [Tasks -> BOOLEAN]

(* A task that waits is never the one that runs.                           *)
WaiterNeverRuns == ~stopped => cond[current] = {}

(* The task that runs does so in its own registers, with all that it has   *)
(* done and been given in them; and every other task has that in its       *)
(* request block, where the next dispatch will find it.                    *)
RunsOwnContext ==
    /\ ~stopped => live = Own(current)
    /\ \A t \in Tasks \ {current} : saved[t]

(* The ready queue holds the tasks that wait for nothing, each once.       *)
ReadyIffNotWaiting ==
    /\ Range(ready) = {t \in Tasks : cond[t] = {}}
    /\ IsInjective(ready)

(* It is ordered by priority, whatever has changed the priorities.         *)
ReadyInOrder ==
    \A i, j \in DOMAIN ready : i < j => priority[ready[i]] >= priority[ready[j]]

(* So its head is who should run: dispatch looks at nothing else.          *)
QueueIsRight == ReadyIffNotWaiting /\ ReadyInOrder

(* No task waits for an event while an element that satisfies it is queued.*)
NoEventLost ==
    \A t \in Tasks, k \in Keys :
        "event" \in cond[t] /\ Matches(want[t], k) => events[t][k] = 0

(* The processor stops only when no task could run, and the live loop      *)
(* knows that it waits for a host event.                                   *)
StopsOnlyIdle == stopped => idle /\ enabled /\ ready = <<>>

(* The processor runs a task that may run, and stops when there is none.   *)
RunsWhoCan == WaiterNeverRuns /\ StopsOnlyIdle

(* A task readied while dispatching is enabled is not left behind one of   *)
(* lower priority.                                                         *)
ReadiedPreempts ==
    [][\A t \in Tasks :
          enabled' /\ cond[t] # {} /\ cond'[t] = {}
          => priority'[current'] >= priority'[t]]_vars
=============================================================================
