---------------------------- MODULE LiveMonitor ----------------------------
(***************************************************************************)
(* The execution controller of SIM/36 (src/Monitor/MonitorCliLive.cpp).    *)
(*                                                                         *)
(* Three kinds of threads share a machine:                                 *)
(*   - the monitor thread reads the operator's commands;                   *)
(*   - the guest thread, while there is one, runs the driver loop;         *)
(*   - station (socket and session) threads latch an event and ring the    *)
(*     machine's doorbell, and touch nothing else.                         *)
(* A command that touches the machine while the guest thread runs is       *)
(* queued, and the guest thread runs it at a preemption point or at its    *)
(* idle park.                                                              *)
(*                                                                         *)
(* pc[t] is the statement thread t executes next.  One step is one access  *)
(* to shared state: an atomic load or store, a critical section of         *)
(* liveLock_, or a call on the machine the running thread owns.  The guest *)
(* program is abstracted to the ways one instruction can end.              *)
(*                                                                         *)
(* An operator named <Action>_<Fault> is the action with a plausible bug;  *)
(* it is not part of Next, and shows which property would notice the bug.  *)
(***************************************************************************)
EXTENDS Naturals, Sequences, FiniteSets

CONSTANTS
    Stations,       \* the stations whose socket threads raise attentions
    Console,        \* the console keyboard, driven by `console send`
    Verbs           \* the commands the operator uses

VARIABLES
    pc,             \* [Threads -> label]
    cmd,            \* the command the monitor thread is executing
    liveRunning,    \* liveRunning_: a guest thread owns the machine
    liveThread,     \* liveThread_.joinable()
    lockHeld,       \* liveLock_ is held across a blocking call
    liveIdle,       \* liveIdle_: the driver loop is parked
    stopRequested,  \* liveStopRequested_
    liveQueue,      \* liveQueue_, a sequence of commands
    livePending,    \* livePending_
    item,           \* the queued command the guest thread is running
    itemDone,       \* item->done of the command the monitor waits for
    nested,         \* the guest thread drives for a `step` it drained
    stopped,        \* MainStorageProcessor::stopped_
    stopReason,     \* MainStorageProcessor::stopReason_, by its cause
    idleEventWait,  \* the control processor's idleEventWait_
    powerOff,       \* systemPowerOffRequested_
    deferredAid,    \* pendingCnfwsPowerOnTub_ # 0
    timer,          \* the earliest native timer: none, armed or due
    doorbell,       \* Machine::nativeEventSet_
    latch,          \* the sources whose attention is pending
    unseen,         \* history: latched, and not inspected by the loop since
    ringing,        \* stations between raising the latch and the doorbell
    scan,           \* sources the delivery chain has still to inspect
    posted          \* the delivery chain has posted guest work so far

threadVars == <<liveRunning, liveThread, lockHeld>>
flagVars   == <<liveIdle, stopRequested>>
queueVars  == <<liveQueue, livePending, item, itemDone>>
ctlVars    == <<cmd, threadVars, flagVars, queueVars>>
mspVars    == <<stopped, stopReason>>
cspVars    == <<idleEventWait, powerOff, deferredAid, timer>>
latchVars  == <<latch, unseen, ringing>>
scanVars   == <<scan, posted>>
eventVars  == <<doorbell, latchVars, scanVars>>
vars == <<pc, nested, ctlVars, mspVars, cspVars, eventVars>>

Threads == {"monitor", "guest"}
Sources == Stations \cup {Console}

(* What an operator can type, by how the session dispatches it.            *)
MachineCommands == {"inspect", "send", "step"}
HostCommands    == {"start", "ipl", "stop", "wait", "quit"}
Commands        == MachineCommands \cup HostCommands

ASSUME ConsoleAssumption == Console \notin Stations
ASSUME VerbsAssumption   == Verbs \subseteq Commands

(* Why the processor last stopped.  "fault" stands for every stop that     *)
(* makes step() return false: breakpoints, checks and refused calls.       *)
StopReasons == {"none", "idle", "fault", "pseudoIpl", "power"}

(* The statements of driveMachine that touch shared state.                 *)
DriverLabels == {"step", "preemptPump", "preemptPop", "preemptRun",
                 "preemptStop", "preemptScan", "outer", "idlePump", "idlePop",
                 "idleRun", "idleStop", "idleFlush", "idleTimer", "idleScan",
                 "park", "wait", "woken"}
GuestLabels   == DriverLabels \cup
                 {"none", "flip", "drainPop", "drainRun", "drainDone", "tail",
                  "ended"}
MonitorLabels == DriverLabels \cup
                 {"ready", "typed", "enqueue", "ring", "await", "direct",
                  "start", "startFlags", "startLock", "startJoin", "spawn",
                  "ipl", "iplReset", "stop", "stopSet", "stopRing",
                  "stopMove", "stopJoin", "stopClear", "waitRunning",
                  "waitIdle", "waitPending", "quit"}

At(t, l)   == pc[t] = l
Goto(t, l) == pc' = [pc EXCEPT ![t] = l]

-----------------------------------------------------------------------------
(* The machine, as one instruction or one host event changes it.           *)

(* MainStorageProcessor::start clears the stop latch and its reason.       *)
StartMsp == stopped' = FALSE /\ stopReason' = "none"

Halt(why) == stopped' = TRUE /\ stopReason' = why

(* A dispatch that selects a task leaves the no-task exit; one that finds  *)
(* none changes nothing.                                                   *)
MayDispatch == idleEventWait' \in {idleEventWait, FALSE}

(* `console send` raises the console's attention and rings.                *)
Send == /\ latch' = latch \cup {Console}
        /\ unseen' = unseen \cup {Console}
        /\ doorbell' = TRUE

-----------------------------------------------------------------------------
(* driveMachine, run for ever by the guest thread, and up to an            *)
(* instruction count by `step`, on the thread that executes the command.   *)

Bounded(t) == t = "monitor" \/ nested

(* driveMachine returns to `step`, to the drained item or to liveBody.     *)
Leave(t) == /\ Goto(t, IF t = "monitor" THEN "ready"
                       ELSE IF nested THEN "drainDone" ELSE "flip")
            /\ nested' = IF t = "guest" THEN FALSE ELSE nested

Continue(t, l) == Goto(t, l) /\ UNCHANGED nested

(* An instruction that is not, or is, a preemption point.                  *)
StepRuns(t) ==
    /\ At(t, "step") /\ ~stopped
    /\ \E l \in {"step", "preemptPump"} : Continue(t, l)
    /\ UNCHANGED <<ctlVars, mspVars, cspVars, eventVars>>

(* A supervisor call, always a preemption point: it may dispatch another   *)
(* task, arm a timer, or defer a power-on AID.                             *)
StepService(t) ==
    /\ At(t, "step") /\ ~stopped
    /\ Continue(t, "preemptPump")
    /\ MayDispatch
    /\ timer' \in {timer, "armed"}
    /\ deferredAid' \in {deferredAid, TRUE}
    /\ UNCHANGED <<ctlVars, mspVars, powerOff, eventVars>>

(* A wait call with nothing ready: the dispatcher's no-task exit.          *)
StepIdles(t) ==
    /\ At(t, "step") /\ ~stopped
    /\ Halt("idle")
    /\ idleEventWait' = TRUE
    /\ Continue(t, "preemptPump")
    /\ UNCHANGED <<ctlVars, powerOff, deferredAid, timer, eventVars>>

(* The guest asks for a pseudo IPL: the call is serviced, and stops.       *)
StepPseudoIpl(t) ==
    /\ At(t, "step") /\ ~stopped
    /\ Halt("pseudoIpl")
    /\ Continue(t, "preemptPump")
    /\ UNCHANGED <<ctlVars, cspVars, eventVars>>

(* A breakpoint, a check or a refused call stops the processor.            *)
StepFaults(t) ==
    /\ At(t, "step") /\ ~stopped
    /\ Halt("fault")
    /\ Continue(t, "outer")
    /\ UNCHANGED <<ctlVars, cspVars, eventVars>>

(* SSP reaches its final power-control wait.                               *)
DetectSystemPowerOff(t) ==
    /\ At(t, "step") /\ ~stopped
    /\ Halt("power")
    /\ powerOff' = TRUE
    /\ Continue(t, "outer")
    /\ UNCHANGED <<ctlVars, idleEventWait, deferredAid, timer, eventVars>>

(* The latch is already set, or `step N` has run its N instructions.       *)
StepEnds(t) ==
    /\ At(t, "step") /\ (stopped \/ Bounded(t))
    /\ Continue(t, "outer")
    /\ UNCHANGED <<ctlVars, mspVars, cspVars, eventVars>>

(* A C++ exception leaves driveMachine; its caller catches it.             *)
StepThrows(t) ==
    /\ At(t, "step") /\ ~stopped
    /\ Leave(t)
    /\ UNCHANGED <<ctlVars, mspVars, cspVars, eventVars>>

(* Whether there is queued work is read without the lock.                  *)
CheckPending(t, here, pop, next) ==
    /\ At(t, here)
    /\ Continue(t, IF livePending # 0 THEN pop ELSE next)
    /\ UNCHANGED <<ctlVars, mspVars, cspVars, eventVars>>

(* pumpLiveWork's critical section: take the next item, or find none.      *)
PopItem(t, here, run) ==
    /\ At(t, here) /\ ~lockHeld /\ liveQueue # <<>>
    /\ item' = Head(liveQueue)
    /\ liveQueue' = Tail(liveQueue)
    /\ livePending' = Len(liveQueue')
    /\ Continue(t, run)
    /\ UNCHANGED <<cmd, threadVars, flagVars, itemDone, mspVars, cspVars,
                   eventVars>>

PopNothing(t, here, next) ==
    /\ At(t, here) /\ ~lockHeld /\ liveQueue = <<>>
    /\ livePending' = 0
    /\ Continue(t, next)
    /\ UNCHANGED <<cmd, threadVars, flagVars, liveQueue, item, itemDone,
                   mspVars, cspVars, eventVars>>

(* runLiveItem.  A `step` run inside the loop is refused, because          *)
(* liveRunning_ is still set; DrainStep is the case where it is not.       *)
RunItem(t, here, pop) ==
    /\ At(t, here)
    /\ item = "step" => liveRunning
    /\ itemDone' = TRUE
    /\ item' = "none"
    /\ Continue(t, pop)
    /\ \/ item = "send" /\ Send
       \/ item # "send" /\ UNCHANGED <<latch, unseen, doorbell>>
    /\ UNCHANGED <<cmd, threadVars, flagVars, liveQueue, livePending,
                   mspVars, cspVars, ringing, scanVars>>

(* The stop request is read; otherwise the delivery chain starts a pass.   *)
PreemptStop(t) ==
    /\ At(t, "preemptStop")
    /\ Continue(t, IF stopRequested THEN "outer" ELSE "preemptScan")
    /\ scan' = IF stopRequested THEN {} ELSE Sources
    /\ UNCHANGED <<ctlVars, mspVars, cspVars, doorbell, latchVars, posted>>

IdleStop(t) ==
    /\ At(t, "idleStop")
    /\ \/ stopRequested /\ Leave(t)
       \/ ~stopRequested /\ Continue(t, "idleFlush")
    /\ UNCHANGED <<ctlVars, mspVars, cspVars, eventVars>>

(* deliverPendingInputStatuses and deliverPendingAttentions visit one      *)
(* station.  A pending attention is delivered as guest work, absorbed, or  *)
(* retained for a later pass.                                              *)
InspectSource(t, s) ==
    /\ pc[t] \in {"preemptScan", "idleScan"} /\ s \in scan
    /\ scan' = scan \ {s}
    /\ unseen' = unseen \ {s}
    /\ \/ UNCHANGED <<latch, posted>>
       \/ s \in latch /\ latch' = latch \ {s} /\ posted' \in {posted, TRUE}
    /\ MayDispatch
    /\ UNCHANGED <<pc, nested, ctlVars, mspVars, powerOff, deferredAid, timer,
                   doorbell, ringing>>

(* Delivered work restarts the processor, whatever had stopped it; the     *)
(* rest of the chain is skipped once an earlier part of it has delivered.  *)
FinishScan(t) ==
    /\ pc[t] \in {"preemptScan", "idleScan"} /\ (scan = {} \/ posted)
    /\ Continue(t, IF posted \/ At(t, "preemptScan") THEN "step" ELSE "park")
    /\ IF posted THEN StartMsp ELSE UNCHANGED mspVars
    /\ scan' = {}
    /\ posted' = FALSE
    /\ UNCHANGED <<ctlVars, cspVars, doorbell, latchVars>>

(* The inner loop has ended: a stop request, power off, and any stop that  *)
(* is not the idle wait leave the driver.                                  *)
Outer(t) ==
    /\ At(t, "outer")
    /\ \/ /\ stopRequested \/ powerOff \/ ~stopped \/ ~idleEventWait
          /\ Leave(t)
       \/ /\ ~stopRequested /\ ~powerOff /\ stopped /\ idleEventWait
          /\ Continue(t, "idlePump")
    /\ UNCHANGED <<ctlVars, mspVars, cspVars, eventVars>>

(* A deferred power-on AID is delivered at the idle boundary and resumes.  *)
FlushDeferredAid(t) ==
    /\ At(t, "idleFlush")
    /\ deferredAid' = FALSE
    /\ \/ /\ deferredAid
          /\ StartMsp /\ MayDispatch
          /\ Continue(t, "step")
       \/ /\ ~deferredAid
          /\ UNCHANGED <<mspVars, idleEventWait>>
          /\ Continue(t, "idleTimer")
    /\ UNCHANGED <<ctlVars, powerOff, timer, eventVars>>

(* Every due timer is re-armed for a day or removed; none readies a task.  *)
ServiceDueNativeTimers(t) ==
    /\ At(t, "idleTimer")
    /\ Continue(t, "idleScan")
    /\ timer' \in IF timer = "due" THEN {"armed", "none"} ELSE {timer}
    /\ scan' = Sources
    /\ UNCHANGED <<ctlVars, mspVars, idleEventWait, powerOff, deferredAid,
                   doorbell, latchVars, posted>>

(* Fault: the doorbell is reset before the wait instead of by it.          *)
Park_ResetsDoorbell(t) ==
    /\ At(t, "park")
    /\ \/ Bounded(t) /\ Leave(t) /\ UNCHANGED <<liveIdle, doorbell>>
       \/ /\ ~Bounded(t) /\ Continue(t, "wait")
          /\ liveIdle' = TRUE /\ doorbell' = FALSE
    /\ UNCHANGED <<cmd, threadVars, stopRequested, queueVars, mspVars,
                   cspVars, latchVars, scanVars>>

(* A bounded drive ends at the idle wait; the guest thread announces it.   *)
Park(t) ==
    /\ At(t, "park")
    /\ \/ Bounded(t) /\ Leave(t) /\ UNCHANGED liveIdle
       \/ ~Bounded(t) /\ Continue(t, "wait") /\ liveIdle' = TRUE
    /\ UNCHANGED <<cmd, threadVars, stopRequested, queueVars, mspVars,
                   cspVars, eventVars>>

(* waitForNativeEvent: the doorbell resets itself; a timer bounds the wait.*)
Wake(t) ==
    /\ At(t, "wait") /\ (doorbell \/ timer = "due")
    /\ doorbell' = FALSE
    /\ Continue(t, "woken")
    /\ UNCHANGED <<ctlVars, mspVars, cspVars, latchVars, scanVars>>

(* Fault: liveIdle_ stays up while the loop runs.                          *)
ClearIdle_Forgotten(t) ==
    /\ At(t, "woken")
    /\ Continue(t, "step")
    /\ UNCHANGED <<ctlVars, mspVars, cspVars, eventVars>>

ClearIdle(t) ==
    /\ At(t, "woken")
    /\ liveIdle' = FALSE
    /\ Continue(t, "step")
    /\ UNCHANGED <<cmd, threadVars, stopRequested, queueVars, mspVars,
                   cspVars, eventVars>>

Driver(t) ==
    \/ StepRuns(t) \/ StepService(t) \/ StepIdles(t) \/ StepPseudoIpl(t)
    \/ StepFaults(t) \/ DetectSystemPowerOff(t) \/ StepEnds(t)
    \/ StepThrows(t)
    \/ CheckPending(t, "preemptPump", "preemptPop", "preemptStop")
    \/ CheckPending(t, "idlePump", "idlePop", "idleStop")
    \/ PopItem(t, "preemptPop", "preemptRun") \/ PopItem(t, "idlePop", "idleRun")
    \/ PopNothing(t, "preemptPop", "preemptStop")
    \/ PopNothing(t, "idlePop", "idleStop")
    \/ RunItem(t, "preemptRun", "preemptPop")
    \/ RunItem(t, "idleRun", "idlePop")
    \/ PreemptStop(t) \/ IdleStop(t)
    \/ \E s \in Sources : InspectSource(t, s)
    \/ FinishScan(t) \/ Outer(t) \/ FlushDeferredAid(t)
    \/ ServiceDueNativeTimers(t) \/ Park(t) \/ Wake(t) \/ ClearIdle(t)

-----------------------------------------------------------------------------
(* liveBody: what the guest thread does once driveMachine has returned.    *)

(* The flag falls under the lock the producer enqueues under.              *)
Flip ==
    /\ At("guest", "flip") /\ ~lockHeld
    /\ liveRunning' = FALSE
    /\ Goto("guest", "drainPop")
    /\ UNCHANGED <<nested, cmd, liveThread, lockHeld, flagVars, queueVars,
                   mspVars, cspVars, eventVars>>

(* A `step` queued just before the flip finds the machine not running, so  *)
(* it drives the machine from the drain.                                   *)
DrainStep ==
    /\ At("guest", "drainRun") /\ item = "step" /\ ~liveRunning
    /\ StartMsp
    /\ nested' = TRUE
    /\ Goto("guest", "step")
    /\ UNCHANGED <<ctlVars, cspVars, eventVars>>

DrainDone ==
    /\ At("guest", "drainDone")
    /\ itemDone' = TRUE
    /\ item' = "none"
    /\ Continue("guest", "drainPop")
    /\ UNCHANGED <<cmd, threadVars, flagVars, liveQueue, livePending, mspVars,
                   cspVars, eventVars>>

(* The closing report; then the thread has ended and can be joined.        *)
LiveBodyTail ==
    /\ At("guest", "tail")
    /\ liveIdle' = FALSE
    /\ Continue("guest", "ended")
    /\ UNCHANGED <<cmd, threadVars, stopRequested, queueVars, mspVars,
                   cspVars, eventVars>>

LiveBody == \/ Flip \/ DrainStep \/ DrainDone \/ LiveBodyTail
            \/ PopItem("guest", "drainPop", "drainRun")
            \/ PopNothing("guest", "drainPop", "tail")
            \/ RunItem("guest", "drainRun", "drainPop")

-----------------------------------------------------------------------------
(* The monitor thread.                                                     *)

MonitorGoto(l) == Goto("monitor", l) /\ UNCHANGED nested

(* The operator types a command; host control verbs are not marshalled.    *)
Type(c) ==
    /\ At("monitor", "ready")
    /\ cmd' = c
    /\ MonitorGoto(CASE c \in MachineCommands -> "typed"
                     [] c = "start" -> "start"
                     [] c = "ipl"   -> "ipl"
                     [] c = "wait"  -> "waitRunning"
                     [] c \in {"stop", "quit"} -> "stop")
    /\ UNCHANGED <<threadVars, flagVars, queueVars, mspVars, cspVars,
                   eventVars>>

ShouldMarshal ==
    /\ At("monitor", "typed") /\ ~lockHeld
    /\ MonitorGoto(IF liveRunning THEN "enqueue" ELSE "direct")
    /\ UNCHANGED <<ctlVars, mspVars, cspVars, eventVars>>

(* Fault: the item is queued without looking at liveRunning_ again.        *)
RunOnGuestThread_NoRecheck ==
    /\ At("monitor", "enqueue") /\ ~lockHeld
    /\ liveQueue' = Append(liveQueue, cmd)
    /\ livePending' = Len(liveQueue')
    /\ MonitorGoto("ring")
    /\ UNCHANGED <<cmd, threadVars, flagVars, item, itemDone, mspVars,
                   cspVars, eventVars>>

(* runOnGuestThread: the guest may have gone since shouldMarshal looked.   *)
RunOnGuestThread ==
    /\ At("monitor", "enqueue") /\ ~lockHeld
    /\ \/ /\ liveRunning
          /\ liveQueue' = Append(liveQueue, cmd)
          /\ livePending' = Len(liveQueue')
          /\ MonitorGoto("ring")
       \/ /\ ~liveRunning
          /\ MonitorGoto("direct")
          /\ UNCHANGED <<liveQueue, livePending>>
    /\ UNCHANGED <<cmd, threadVars, flagVars, item, itemDone, mspVars,
                   cspVars, eventVars>>

(* Fault: nothing wakes the parked loop.                                   *)
MonitorRings_Silent(here, next) ==
    /\ At("monitor", here)
    /\ MonitorGoto(next)
    /\ UNCHANGED <<ctlVars, mspVars, cspVars, eventVars>>

(* m_.signalNativeEvent, after queueing work and after asking for a stop.  *)
MonitorRings(here, next) ==
    /\ At("monitor", here)
    /\ doorbell' = TRUE
    /\ MonitorGoto(next)
    /\ UNCHANGED <<ctlVars, mspVars, cspVars, latchVars, scanVars>>

AwaitItem ==
    /\ At("monitor", "await") /\ itemDone
    /\ itemDone' = FALSE
    /\ MonitorGoto("ready")
    /\ UNCHANGED <<cmd, threadVars, flagVars, liveQueue, livePending, item,
                   mspVars, cspVars, eventVars>>

(* With no guest thread the command runs here, on the monitor thread.      *)
ExecuteDirect ==
    /\ At("monitor", "direct")
    /\ MonitorGoto(IF cmd = "step" THEN "step" ELSE "ready")
    /\ IF cmd = "step" THEN StartMsp ELSE UNCHANGED mspVars
    /\ IF cmd = "send" THEN Send ELSE UNCHANGED <<latch, unseen, doorbell>>
    /\ UNCHANGED <<ctlVars, cspVars, ringing, scanVars>>

(* `start`: refused while running and after a power off.                   *)
StartCommand ==
    /\ At("monitor", "start")
    /\ \/ (liveRunning \/ powerOff) /\ MonitorGoto("ready") /\ UNCHANGED mspVars
       \/ ~liveRunning /\ ~powerOff /\ MonitorGoto("startFlags") /\ StartMsp
    /\ UNCHANGED <<ctlVars, cspVars, eventVars>>

(* Fault: `ipl` is not refused while the guest runs.                       *)
IplCommand_NotRefused ==
    /\ At("monitor", "ipl")
    /\ MonitorGoto("iplReset")
    /\ UNCHANGED <<ctlVars, mspVars, cspVars, eventVars>>

(* `ipl [pause]`: Machine::reset, then execution unless it pauses.  The    *)
(* reset rebuilds the processors; it leaves idleEventWait_ and the         *)
(* deferred power-on AID as they were.                                     *)
IplCommand ==
    /\ At("monitor", "ipl")
    /\ MonitorGoto(IF liveRunning THEN "ready" ELSE "iplReset")
    /\ UNCHANGED <<ctlVars, mspVars, cspVars, eventVars>>

IplReset ==
    /\ At("monitor", "iplReset")
    /\ StartMsp
    /\ powerOff' = FALSE
    /\ timer' = "none"
    /\ \E l \in {"ready", "startFlags"} : MonitorGoto(l)
    /\ UNCHANGED <<ctlVars, idleEventWait, deferredAid, eventVars>>

(* startExecution, shared by `ipl` and `start`.                            *)
StartFlags ==
    /\ At("monitor", "startFlags")
    /\ stopRequested' = FALSE
    /\ liveIdle' = FALSE
    /\ MonitorGoto("startLock")
    /\ UNCHANGED <<cmd, threadVars, queueVars, mspVars, cspVars, eventVars>>

(* The old thread is joined with the lock held.                            *)
StartLock ==
    /\ At("monitor", "startLock") /\ ~lockHeld
    /\ lockHeld' = TRUE
    /\ MonitorGoto(IF liveThread THEN "startJoin" ELSE "spawn")
    /\ UNCHANGED <<cmd, liveRunning, liveThread, flagVars, queueVars, mspVars,
                   cspVars, eventVars>>

StartJoin ==
    /\ At("monitor", "startJoin") /\ At("guest", "ended")
    /\ liveThread' = FALSE
    /\ pc' = [pc EXCEPT !["monitor"] = "spawn", !["guest"] = "none"]
    /\ UNCHANGED <<nested, cmd, liveRunning, lockHeld, flagVars, queueVars,
                   mspVars, cspVars, eventVars>>

Spawn ==
    /\ At("monitor", "spawn")
    /\ liveRunning' = TRUE
    /\ liveThread' = TRUE
    /\ lockHeld' = FALSE
    /\ pc' = [pc EXCEPT !["monitor"] = "ready", !["guest"] = "step"]
    /\ UNCHANGED <<nested, cmd, flagVars, queueVars, mspVars, cspVars,
                   eventVars>>

(* `stop`, and stopExecutionForTeardown, which also reaps a thread that    *)
(* has ended by itself.                                                    *)
StopCommand ==
    /\ At("monitor", "stop") /\ ~lockHeld
    /\ MonitorGoto(IF liveRunning THEN "stopSet"
                   ELSE IF cmd = "quit" THEN "stopMove" ELSE "ready")
    /\ UNCHANGED <<ctlVars, mspVars, cspVars, eventVars>>

StopSet ==
    /\ At("monitor", "stopSet")
    /\ stopRequested' = TRUE
    /\ MonitorGoto("stopRing")
    /\ UNCHANGED <<cmd, threadVars, liveIdle, queueVars, mspVars, cspVars,
                   eventVars>>

(* joinLiveThread moves the handle under the lock and joins without it.    *)
StopMove ==
    /\ At("monitor", "stopMove") /\ ~lockHeld
    /\ liveThread' = FALSE
    /\ MonitorGoto(IF liveThread THEN "stopJoin" ELSE "stopClear")
    /\ UNCHANGED <<cmd, liveRunning, lockHeld, flagVars, queueVars, mspVars,
                   cspVars, eventVars>>

StopJoin ==
    /\ At("monitor", "stopJoin") /\ At("guest", "ended")
    /\ pc' = [pc EXCEPT !["monitor"] = "stopClear", !["guest"] = "none"]
    /\ UNCHANGED <<nested, ctlVars, mspVars, cspVars, eventVars>>

StopClear ==
    /\ At("monitor", "stopClear")
    /\ stopRequested' = FALSE
    /\ MonitorGoto(IF cmd = "quit" THEN "quit" ELSE "ready")
    /\ UNCHANGED <<cmd, threadVars, liveIdle, queueVars, mspVars, cspVars,
                   eventVars>>

(* `wait idle` polls three atomics, until its deadline.                    *)
WaitRunning ==
    /\ At("monitor", "waitRunning")
    /\ \/ liveRunning /\ MonitorGoto("waitIdle")
       \/ MonitorGoto("ready")
    /\ UNCHANGED <<ctlVars, mspVars, cspVars, eventVars>>

WaitIdle ==
    /\ At("monitor", "waitIdle")
    /\ MonitorGoto(IF liveIdle THEN "waitPending" ELSE "waitRunning")
    /\ UNCHANGED <<ctlVars, mspVars, cspVars, eventVars>>

WaitPending ==
    /\ At("monitor", "waitPending")
    /\ MonitorGoto(IF livePending = 0 THEN "ready" ELSE "waitRunning")
    /\ UNCHANGED <<ctlVars, mspVars, cspVars, eventVars>>

MonitorSteps ==
    \/ ShouldMarshal \/ RunOnGuestThread \/ AwaitItem \/ ExecuteDirect
    \/ MonitorRings("ring", "await") \/ MonitorRings("stopRing", "stopMove")
    \/ StartCommand \/ IplCommand \/ IplReset \/ StartFlags \/ StartLock
    \/ StartJoin \/ Spawn \/ StopCommand \/ StopSet \/ StopMove \/ StopJoin
    \/ StopClear \/ WaitRunning \/ WaitIdle \/ WaitPending

-----------------------------------------------------------------------------
(* Station threads: latch first, then ring.                                *)

RaiseAttention(s) ==
    /\ s \notin ringing
    /\ latch' = latch \cup {s}
    /\ unseen' = unseen \cup {s}
    /\ ringing' = ringing \cup {s}
    /\ UNCHANGED <<pc, nested, ctlVars, mspVars, cspVars, doorbell, scanVars>>

(* Fault: the attention is latched and the machine is not signalled.       *)
SignalMachine_Silent(s) ==
    /\ s \in ringing
    /\ ringing' = ringing \ {s}
    /\ UNCHANGED <<pc, nested, ctlVars, mspVars, cspVars, doorbell, latch,
                   unseen, scanVars>>

SignalMachine(s) ==
    /\ s \in ringing
    /\ doorbell' = TRUE
    /\ ringing' = ringing \ {s}
    /\ UNCHANGED <<pc, nested, ctlVars, mspVars, cspVars, latch, unseen,
                   scanVars>>

TimerElapses ==
    /\ timer = "armed"
    /\ timer' = "due"
    /\ UNCHANGED <<pc, nested, ctlVars, mspVars, idleEventWait, powerOff,
                   deferredAid, eventVars>>

-----------------------------------------------------------------------------
(* The first command of a session is the `ipl` that built the machine.     *)
Init ==
    /\ pc = [monitor |-> "ipl", guest |-> "none"]
    /\ cmd = "ipl"
    /\ liveRunning = FALSE /\ liveThread = FALSE /\ lockHeld = FALSE
    /\ liveIdle = FALSE /\ stopRequested = FALSE
    /\ liveQueue = <<>> /\ livePending = 0 /\ item = "none"
    /\ itemDone = FALSE /\ nested = FALSE
    /\ stopped = FALSE /\ stopReason = "none"
    /\ idleEventWait = FALSE /\ powerOff = FALSE
    /\ deferredAid = FALSE /\ timer = "none"
    /\ doorbell = FALSE /\ latch = {} /\ unseen = {} /\ ringing = {}
    /\ scan = {} /\ posted = FALSE

Next ==
    \/ \E t \in Threads : Driver(t)
    \/ LiveBody
    \/ MonitorSteps
    \/ \E c \in Verbs : Type(c)
    \/ \E s \in Stations : RaiseAttention(s) \/ SignalMachine(s)
    \/ TimerElapses

(* Threads that can run do run.  The guest program leaves the inner loop   *)
(* or reaches a preemption point: every BC, JC and SVC is one.  A `step N` *)
(* counts down, so a bounded drive that keeps coming back to the inner     *)
(* loop ends.  Nobody obliges the operator to type or a client to press a  *)
(* key.                                                                    *)
LeaveStep(t) == At(t, "step") /\ Driver(t) /\ ~At(t, "step")'

Fairness ==
    /\ \A t \in Threads : /\ WF_vars(Driver(t))
                         /\ WF_vars(LeaveStep(t))
                         /\ SF_vars(Bounded(t) /\ ~stopped /\ StepEnds(t))
    /\ WF_vars(LiveBody)
    /\ WF_vars(MonitorSteps)
    /\ \A s \in Stations : WF_vars(SignalMachine(s))
    /\ WF_vars(TimerElapses)

Spec     == Init /\ [][Next]_vars
FairSpec == Spec /\ Fairness

-----------------------------------------------------------------------------
ThreadsTyped ==
    /\ pc \in [Threads -> MonitorLabels \cup GuestLabels]
    /\ pc["monitor"] \in MonitorLabels
    /\ pc["guest"] \in GuestLabels

FlagsTyped ==
    /\ liveRunning \in BOOLEAN /\ liveThread \in BOOLEAN
    /\ lockHeld \in BOOLEAN /\ liveIdle \in BOOLEAN
    /\ stopRequested \in BOOLEAN /\ itemDone \in BOOLEAN
    /\ nested \in BOOLEAN /\ stopped \in BOOLEAN
    /\ idleEventWait \in BOOLEAN /\ powerOff \in BOOLEAN
    /\ deferredAid \in BOOLEAN /\ doorbell \in BOOLEAN
    /\ posted \in BOOLEAN

DataTyped ==
    /\ cmd \in Commands
    /\ liveQueue \in Seq(MachineCommands)
    /\ livePending \in Nat
    /\ item \in MachineCommands \cup {"none"}
    /\ stopReason \in StopReasons
    /\ timer \in {"none", "armed", "due"}
    /\ latch \subseteq Sources /\ unseen \subseteq Sources
    /\ ringing \subseteq Stations /\ scan \subseteq Sources

TypeOK == ThreadsTyped /\ FlagsTyped /\ DataTyped

(* The threads that touch guest storage, the scheduler or a device next.   *)
OwnsMachine(t) ==
    \/ pc[t] \in DriverLabels \cup {"direct", "iplReset", "drainRun"}
    \/ pc[t] = "start" /\ ~liveRunning

(* "Exactly one thread ever touches guest storage": a command the monitor  *)
(* thread executes itself never overlaps the driver loop or the drain of   *)
(* the guest thread, whichever way the thread is ending meanwhile.         *)
SingleOwner == ~(OwnsMachine("monitor") /\ OwnsMachine("guest"))

(* std::thread discipline: a new guest thread is only created when the     *)
(* previous one is gone, a live thread always has a handle somebody will   *)
(* join, and `quit` leaves none behind.                                    *)
OneGuestThread ==
    /\ At("monitor", "spawn") => At("guest", "none") /\ ~liveThread
    /\ ~At("guest", "none") => liveThread \/ At("monitor", "stopJoin")
    /\ At("monitor", "quit") => At("guest", "none") /\ liveQueue = <<>>

(* At most one thread drives the machine, through every start, stop, fault *)
(* and quit.                                                               *)
OneDriver == SingleOwner /\ OneGuestThread

(* No lost wakeup: when the driver loop is parked and its doorbell silent, *)
(* everything latched since it last looked is about to ring: a queued      *)
(* command, a stop request and each station's attention.                   *)
NoLostWakeup ==
    At("guest", "wait") /\ ~doorbell =>
        /\ liveQueue # <<>> => At("monitor", "ring")
        /\ stopRequested => At("monitor", "stopRing")
        /\ unseen \subseteq ringing

(* When `wait idle` is about to report, the loop has looked at every key   *)
(* the operator sent before the wait, and no command is left queued.       *)
IdleReportFresh ==
    At("monitor", "waitPending") => Console \notin unseen /\ liveQueue = <<>>

(* A marshalled command is answered, also when the guest stops by itself   *)
(* between the check and the enqueue or between the enqueue and the pump.  *)
CommandAnswered == At("monitor", "await") ~> At("monitor", "ready")

(* `stop` and `quit` end: the guest loop leaves at a safe point, whether   *)
(* it is computing, parked, or already on its way out.                     *)
StopTerminates ==
    At("monitor", "stopJoin") ~> pc["monitor"] \in {"ready", "quit"}

(* An attention raised while the guest runs is inspected, or the guest     *)
(* thread ends, provided the operator stops queueing commands.             *)
AttentionInspected ==
    <>[]At("monitor", "ready") =>
        \A s \in Stations :
            (s \in unseen /\ liveRunning) ~> (s \notin unseen \/ ~liveRunning)

-----------------------------------------------------------------------------
(* What the repository's text says of the code, and the code does not do.  *)

(* `start` resumes execution.  It cannot when it joins the old thread with *)
(* liveLock_ held while that thread still needs the lock for its drain.    *)
StartCanFinish == ~(At("monitor", "startJoin") /\ At("guest", "drainPop"))

(* "A later stop of the MSP for another reason must be reported as that    *)
(* reason rather than mistaken for the external-event idle."               *)
StopNotMistakenForIdle == At("guest", "wait") => stopReason = "idle"

(* "The machine is stopped at the point the restart would happen; `ipl` to *)
(* take it": only an operator's command ends a pseudo-IPL stop.            *)
PseudoIplStays ==
    [][stopReason = "pseudoIpl" /\ stopReason' # "pseudoIpl" =>
         \/ pc["monitor"] \in {"start", "direct", "iplReset"}
         \/ At("guest", "drainRun")]_vars
=============================================================================
