------------------------- MODULE LiveMonitorProofs -------------------------
(* Proofs that LiveMonitor keeps its type and safety invariants, for every *)
(* set of stations and every choice of commands.                           *)
EXTENDS LiveMonitor, SequenceTheorems, TLAPS

(* Who owns the machine follows from liveRunning_, and the monitor thread  *)
(* executes machine code only in the windows where the flag is down.       *)
Ownership ==
    /\ liveRunning <=> pc["guest"] \in DriverLabels \cup {"flip"} /\ ~nested
    /\ nested => pc["guest"] \in DriverLabels
    /\ pc["monitor"] \in DriverLabels \cup
         {"direct", "iplReset", "startFlags", "startLock", "startJoin",
          "spawn"} => ~liveRunning
    /\ lockHeld <=> pc["monitor"] \in {"startJoin", "spawn"}
    /\ pc["monitor"] \notin {"preemptRun", "idleRun", "wait", "woken"}
    /\ pc["monitor"] \in {"typed", "enqueue"} => cmd \in MachineCommands

(* The std::thread handle follows the thread.                              *)
Handles ==
    /\ ~At("guest", "none") <=> liveThread \/ At("monitor", "stopJoin")
    /\ pc["monitor"] \in {"spawn", "stopJoin", "stopClear", "quit"}
         => ~liveThread
    /\ At("monitor", "startJoin") => liveThread

(* There is at most one marshalled command, and it is in one place: in the *)
(* queue, being run, or done.                                              *)
Queue ==
    /\ livePending = Len(liveQueue)
    /\ Len(liveQueue) <= 1
    /\ item # "none" <=>
         nested \/ pc["guest"] \in {"preemptRun", "idleRun", "drainRun",
                                    "drainDone"}
    /\ nested => pc["guest"] \notin {"preemptRun", "idleRun"}
    /\ item # "none" => Len(liveQueue) = 0 /\ ~itemDone
    /\ Len(liveQueue) = 1 => ~itemDone /\ (liveRunning \/ At("guest", "drainPop"))
    /\ item # "none" \/ itemDone \/ Len(liveQueue) = 1 <=>
         pc["monitor"] \in {"ring", "await"}

(* What the driver loop has already looked at rings when it changes.       *)
Doorbell ==
    /\ At("guest", "idleStop") \/ At("guest", "idleFlush")
         \/ At("guest", "idleTimer") \/ At("guest", "idleScan")
         \/ At("guest", "park") \/ At("guest", "wait") =>
           (~doorbell /\ Len(liveQueue) = 1 => At("monitor", "ring"))
    /\ At("guest", "idleFlush") \/ At("guest", "idleTimer")
         \/ At("guest", "idleScan") \/ At("guest", "park")
         \/ At("guest", "wait") =>
           (~doorbell /\ stopRequested => At("monitor", "stopRing"))
    /\ At("guest", "idleScan") /\ ~doorbell => unseen \subseteq ringing \cup scan
    /\ At("guest", "park") \/ At("guest", "wait") =>
           (~doorbell => unseen \subseteq ringing)

(* The console key is inspected before the loop parks.                     *)
Idle ==
    /\ liveIdle => pc["guest"] \in {"wait", "woken"}
    /\ Console \in unseen => pc["guest"] \notin {"park", "wait", "woken"}
    /\ Console \in unseen /\ At("guest", "idleScan") => Console \in scan
    /\ At("monitor", "waitPending") => Console \notin unseen

IndInv == TypeOK /\ Ownership /\ Handles /\ Queue /\ Doorbell /\ Idle

(* What happens outside the two threads, and stuttering.                  *)
OtherSteps ==
    \/ \E c \in Verbs : Type(c)
    \/ \E s \in Stations : RaiseAttention(s) \/ SignalMachine(s)
    \/ TimerElapses
    \/ UNCHANGED vars

(* Definitions every proof expands: control points, sets of labels, and the *)
(* tuples of variables that a step leaves alone.                           *)
USE DEF At, Goto, Continue, MonitorGoto, Leave, Bounded, StartMsp, Halt,
        MayDispatch, Send, Threads, Sources, MachineCommands, HostCommands,
        Commands, StopReasons, DriverLabels, GuestLabels, MonitorLabels,
        threadVars, flagVars, queueVars, ctlVars, mspVars, cspVars, latchVars,
        scanVars, eventVars, vars

(* Steps of the driver loop: who owns the machine and its thread handle. *)
LEMMA DriverControl ==
  ASSUME IndInv, NEW t \in Threads, Driver(t)
  PROVE  ThreadsTyped' /\ Ownership' /\ Handles'
<1> USE DEF IndInv, TypeOK, ThreadsTyped, FlagsTyped, DataTyped, Ownership, Handles, Queue
<1>1. CASE StepRuns(t)  BY <1>1 DEF StepRuns
<1>2. CASE StepService(t)  BY <1>2 DEF StepService
<1>3. CASE StepIdles(t)  BY <1>3 DEF StepIdles
<1>4. CASE StepPseudoIpl(t)  BY <1>4 DEF StepPseudoIpl
<1>5. CASE StepFaults(t)  BY <1>5 DEF StepFaults
<1>6. CASE DetectSystemPowerOff(t)  BY <1>6 DEF DetectSystemPowerOff
<1>7. CASE StepEnds(t)  BY <1>7 DEF StepEnds
<1>8. CASE StepThrows(t)  BY <1>8 DEF StepThrows
<1>9. CASE CheckPending(t, "preemptPump", "preemptPop", "preemptStop")
  BY <1>9 DEF CheckPending
<1>10. CASE CheckPending(t, "idlePump", "idlePop", "idleStop")
  BY <1>10 DEF CheckPending
<1>11. CASE PopItem(t, "preemptPop", "preemptRun")  BY <1>11 DEF PopItem
<1>12. CASE PopItem(t, "idlePop", "idleRun")  BY <1>12 DEF PopItem
<1>13. CASE PopNothing(t, "preemptPop", "preemptStop")  BY <1>13 DEF PopNothing
<1>14. CASE PopNothing(t, "idlePop", "idleStop")  BY <1>14 DEF PopNothing
<1>15. CASE RunItem(t, "preemptRun", "preemptPop")  BY <1>15 DEF RunItem
<1>16. CASE RunItem(t, "idleRun", "idlePop")  BY <1>16 DEF RunItem
<1>17. CASE PreemptStop(t)  BY <1>17 DEF PreemptStop
<1>18. CASE IdleStop(t)
  <2>1. CASE Leave(t)
    BY <1>18, <2>1 DEF IdleStop
  <2>2. CASE Continue(t, "idleFlush")
    BY <1>18, <2>2 DEF IdleStop
  <2> QED  BY <1>18, <2>1, <2>2 DEF IdleStop
<1>19. CASE \E s \in Sources : InspectSource(t, s)  BY <1>19 DEF InspectSource
<1>20. CASE FinishScan(t)  BY <1>20 DEF FinishScan
<1>21. CASE Outer(t)
  <2>1. CASE Leave(t)
    BY <1>21, <2>1 DEF Outer
  <2>2. CASE Continue(t, "idlePump")
    BY <1>21, <2>2 DEF Outer
  <2> QED  BY <1>21, <2>1, <2>2 DEF Outer
<1>22. CASE FlushDeferredAid(t)
  <2>1. CASE Continue(t, "step")
    BY <1>22, <2>1 DEF FlushDeferredAid
  <2>2. CASE Continue(t, "idleTimer")
    BY <1>22, <2>2 DEF FlushDeferredAid
  <2> QED  BY <1>22, <2>1, <2>2 DEF FlushDeferredAid
<1>23. CASE ServiceDueNativeTimers(t)  BY <1>23 DEF ServiceDueNativeTimers
<1>24. CASE Park(t)
  <2>1. CASE Leave(t)
    BY <1>24, <2>1 DEF Park
  <2>2. CASE Continue(t, "wait")
    BY <1>24, <2>2 DEF Park
  <2> QED  BY <1>24, <2>1, <2>2 DEF Park
<1>25. CASE Wake(t)  BY <1>25 DEF Wake
<1>26. CASE ClearIdle(t)  BY <1>26 DEF ClearIdle
<1> QED
  BY <1>1, <1>2, <1>3, <1>4, <1>5, <1>6, <1>7, <1>8, <1>9, <1>10, <1>11,
      <1>12, <1>13, <1>14, <1>15, <1>16, <1>17, <1>18, <1>19, <1>20,
      <1>21, <1>22, <1>23, <1>24, <1>25, <1>26 DEF Driver

(* Steps of liveBody: who owns the machine and its thread handle. *)
LEMMA LiveBodyControl ==
  ASSUME IndInv, LiveBody
  PROVE  ThreadsTyped' /\ Ownership' /\ Handles'
<1> USE DEF IndInv, TypeOK, ThreadsTyped, FlagsTyped, DataTyped, Ownership, Handles, Queue
<1>1. CASE Flip  BY <1>1 DEF Flip
<1>2. CASE DrainStep  BY <1>2 DEF DrainStep
<1>3. CASE DrainDone  BY <1>3 DEF DrainDone
<1>4. CASE LiveBodyTail  BY <1>4 DEF LiveBodyTail
<1>5. CASE PopItem("guest", "drainPop", "drainRun")  BY <1>5 DEF PopItem
<1>6. CASE PopNothing("guest", "drainPop", "tail")  BY <1>6 DEF PopNothing
<1>7. CASE RunItem("guest", "drainRun", "drainPop")  BY <1>7 DEF RunItem
<1> QED
  BY <1>1, <1>2, <1>3, <1>4, <1>5, <1>6, <1>7 DEF LiveBody

(* Steps of the monitor thread: who owns the machine and its thread handle. *)
LEMMA MonitorControl ==
  ASSUME IndInv, MonitorSteps
  PROVE  ThreadsTyped' /\ Ownership' /\ Handles'
<1> USE DEF IndInv, TypeOK, ThreadsTyped, FlagsTyped, DataTyped, Ownership, Handles, Queue
<1>1. CASE ShouldMarshal  BY <1>1 DEF ShouldMarshal
<1>2. CASE RunOnGuestThread  BY <1>2 DEF RunOnGuestThread
<1>3. CASE AwaitItem  BY <1>3 DEF AwaitItem
<1>4. CASE ExecuteDirect  BY <1>4 DEF ExecuteDirect
<1>5. CASE MonitorRings("ring", "await")  BY <1>5 DEF MonitorRings
<1>6. CASE MonitorRings("stopRing", "stopMove")  BY <1>6 DEF MonitorRings
<1>7. CASE StartCommand  BY <1>7 DEF StartCommand
<1>8. CASE IplCommand  BY <1>8 DEF IplCommand
<1>9. CASE IplReset  BY <1>9 DEF IplReset
<1>10. CASE StartFlags  BY <1>10 DEF StartFlags
<1>11. CASE StartLock  BY <1>11 DEF StartLock
<1>12. CASE StartJoin  BY <1>12 DEF StartJoin
<1>13. CASE Spawn  BY <1>13 DEF Spawn
<1>14. CASE StopCommand  BY <1>14 DEF StopCommand
<1>15. CASE StopSet  BY <1>15 DEF StopSet
<1>16. CASE StopMove  BY <1>16 DEF StopMove
<1>17. CASE StopJoin  BY <1>17 DEF StopJoin
<1>18. CASE StopClear  BY <1>18 DEF StopClear
<1>19. CASE WaitRunning  BY <1>19 DEF WaitRunning
<1>20. CASE WaitIdle  BY <1>20 DEF WaitIdle
<1>21. CASE WaitPending  BY <1>21 DEF WaitPending
<1> QED
  BY <1>1, <1>2, <1>3, <1>4, <1>5, <1>6, <1>7, <1>8, <1>9, <1>10, <1>11,
      <1>12, <1>13, <1>14, <1>15, <1>16, <1>17, <1>18, <1>19, <1>20, <1>21 DEF MonitorSteps

(* A typed command, a station, a timer or nothing: who owns the machine and its thread handle. *)
LEMMA OtherControl ==
  ASSUME IndInv, OtherSteps
  PROVE  ThreadsTyped' /\ Ownership' /\ Handles'
<1> USE DEF IndInv, TypeOK, ThreadsTyped, FlagsTyped, DataTyped, Ownership, Handles, Queue
<1>1. CASE \E c \in Verbs : Type(c)  BY <1>1, VerbsAssumption DEF Type
<1>2. CASE \E s \in Stations : RaiseAttention(s)  BY <1>2 DEF RaiseAttention
<1>3. CASE \E s \in Stations : SignalMachine(s)  BY <1>3 DEF SignalMachine
<1>4. CASE TimerElapses  BY <1>4 DEF TimerElapses
<1>5. CASE UNCHANGED vars  BY <1>5
<1> QED
  BY <1>1, <1>2, <1>3, <1>4, <1>5 DEF OtherSteps

(* Steps of the driver loop: the types of the flags. *)
LEMMA DriverFlags ==
  ASSUME IndInv, NEW t \in Threads, Driver(t)
  PROVE  FlagsTyped'
<1> USE DEF IndInv, TypeOK, FlagsTyped
<1>1. CASE StepRuns(t)  BY <1>1 DEF StepRuns
<1>2. CASE StepService(t)
  <2>1. idleEventWait' \in BOOLEAN
    BY <1>2 DEF StepService
  <2>2. deferredAid' \in BOOLEAN
    BY <1>2 DEF StepService
  <2> QED  BY <1>2, <2>1, <2>2 DEF StepService
<1>3. CASE StepIdles(t)  BY <1>3 DEF StepIdles
<1>4. CASE StepPseudoIpl(t)  BY <1>4 DEF StepPseudoIpl
<1>5. CASE StepFaults(t)  BY <1>5 DEF StepFaults
<1>6. CASE DetectSystemPowerOff(t)  BY <1>6 DEF DetectSystemPowerOff
<1>7. CASE StepEnds(t)  BY <1>7 DEF StepEnds
<1>8. CASE StepThrows(t)  BY <1>8 DEF StepThrows
<1>9. CASE CheckPending(t, "preemptPump", "preemptPop", "preemptStop")
  BY <1>9 DEF CheckPending
<1>10. CASE CheckPending(t, "idlePump", "idlePop", "idleStop")
  BY <1>10 DEF CheckPending
<1>11. CASE PopItem(t, "preemptPop", "preemptRun")  BY <1>11 DEF PopItem
<1>12. CASE PopItem(t, "idlePop", "idleRun")  BY <1>12 DEF PopItem
<1>13. CASE PopNothing(t, "preemptPop", "preemptStop")  BY <1>13 DEF PopNothing
<1>14. CASE PopNothing(t, "idlePop", "idleStop")  BY <1>14 DEF PopNothing
<1>15. CASE RunItem(t, "preemptRun", "preemptPop")
  <2>1. doorbell' \in BOOLEAN
    BY <1>15 DEF RunItem
  <2>2. itemDone' \in BOOLEAN /\ nested' \in BOOLEAN
    BY <1>15 DEF RunItem
  <2> QED  BY <1>15, <2>1, <2>2 DEF RunItem
<1>16. CASE RunItem(t, "idleRun", "idlePop")
  <2>1. doorbell' \in BOOLEAN
    BY <1>16 DEF RunItem
  <2>2. itemDone' \in BOOLEAN /\ nested' \in BOOLEAN
    BY <1>16 DEF RunItem
  <2> QED  BY <1>16, <2>1, <2>2 DEF RunItem
<1>17. CASE PreemptStop(t)  BY <1>17 DEF PreemptStop
<1>18. CASE IdleStop(t)
  <2>1. nested' \in BOOLEAN
    BY <1>18 DEF IdleStop
  <2> QED  BY <1>18, <2>1 DEF IdleStop
<1>19. CASE \E s \in Sources : InspectSource(t, s)
  <2>1. PICK s \in Sources : InspectSource(t, s)
    BY <1>19
  <2>2. idleEventWait' \in BOOLEAN
    BY <2>1 DEF InspectSource
  <2>3. posted' \in BOOLEAN
    BY <2>1 DEF InspectSource
  <2> QED  BY <2>1, <2>2, <2>3 DEF InspectSource
<1>20. CASE FinishScan(t)
  <2>1. stopped' \in BOOLEAN
    BY <1>20 DEF FinishScan
  <2>2. posted' \in BOOLEAN
    BY <1>20 DEF FinishScan
  <2> QED  BY <1>20, <2>1, <2>2 DEF FinishScan
<1>21. CASE Outer(t)
  <2>1. nested' \in BOOLEAN
    BY <1>21 DEF Outer
  <2> QED  BY <1>21, <2>1 DEF Outer
<1>22. CASE FlushDeferredAid(t)
  <2>1. stopped' \in BOOLEAN
    BY <1>22 DEF FlushDeferredAid
  <2>2. idleEventWait' \in BOOLEAN
    BY <1>22 DEF FlushDeferredAid
  <2>3. deferredAid' \in BOOLEAN
    BY <1>22 DEF FlushDeferredAid
  <2> QED  BY <1>22, <2>1, <2>2, <2>3 DEF FlushDeferredAid
<1>23. CASE ServiceDueNativeTimers(t)  BY <1>23 DEF ServiceDueNativeTimers
<1>24. CASE Park(t)
  <2>1. liveIdle' \in BOOLEAN
    BY <1>24 DEF Park
  <2>2. nested' \in BOOLEAN
    BY <1>24 DEF Park
  <2> QED  BY <1>24, <2>1, <2>2 DEF Park
<1>25. CASE Wake(t)  BY <1>25 DEF Wake
<1>26. CASE ClearIdle(t)  BY <1>26 DEF ClearIdle
<1> QED
  BY <1>1, <1>2, <1>3, <1>4, <1>5, <1>6, <1>7, <1>8, <1>9, <1>10, <1>11,
      <1>12, <1>13, <1>14, <1>15, <1>16, <1>17, <1>18, <1>19, <1>20,
      <1>21, <1>22, <1>23, <1>24, <1>25, <1>26 DEF Driver

(* Steps of liveBody: the types of the flags. *)
LEMMA LiveBodyFlags ==
  ASSUME IndInv, LiveBody
  PROVE  FlagsTyped'
<1> USE DEF IndInv, TypeOK, FlagsTyped
<1>1. CASE Flip  BY <1>1 DEF Flip
<1>2. CASE DrainStep  BY <1>2 DEF DrainStep
<1>3. CASE DrainDone  BY <1>3 DEF DrainDone
<1>4. CASE LiveBodyTail  BY <1>4 DEF LiveBodyTail
<1>5. CASE PopItem("guest", "drainPop", "drainRun")  BY <1>5 DEF PopItem
<1>6. CASE PopNothing("guest", "drainPop", "tail")  BY <1>6 DEF PopNothing
<1>7. CASE RunItem("guest", "drainRun", "drainPop")  BY <1>7 DEF RunItem
<1> QED
  BY <1>1, <1>2, <1>3, <1>4, <1>5, <1>6, <1>7 DEF LiveBody

(* Steps of the monitor thread: the types of the flags. *)
LEMMA MonitorFlags ==
  ASSUME IndInv, MonitorSteps
  PROVE  FlagsTyped'
<1> USE DEF IndInv, TypeOK, FlagsTyped
<1>1. CASE ShouldMarshal  BY <1>1 DEF ShouldMarshal
<1>2. CASE RunOnGuestThread  BY <1>2 DEF RunOnGuestThread
<1>3. CASE AwaitItem  BY <1>3 DEF AwaitItem
<1>4. CASE ExecuteDirect
  <2>1. stopped' \in BOOLEAN
    BY <1>4 DEF ExecuteDirect
  <2>2. doorbell' \in BOOLEAN
    BY <1>4 DEF ExecuteDirect
  <2> QED  BY <1>4, <2>1, <2>2 DEF ExecuteDirect
<1>5. CASE MonitorRings("ring", "await")  BY <1>5 DEF MonitorRings
<1>6. CASE MonitorRings("stopRing", "stopMove")  BY <1>6 DEF MonitorRings
<1>7. CASE StartCommand
  <2>1. stopped' \in BOOLEAN
    BY <1>7 DEF StartCommand
  <2> QED  BY <1>7, <2>1 DEF StartCommand
<1>8. CASE IplCommand  BY <1>8 DEF IplCommand
<1>9. CASE IplReset  BY <1>9 DEF IplReset
<1>10. CASE StartFlags  BY <1>10 DEF StartFlags
<1>11. CASE StartLock  BY <1>11 DEF StartLock
<1>12. CASE StartJoin  BY <1>12 DEF StartJoin
<1>13. CASE Spawn  BY <1>13 DEF Spawn
<1>14. CASE StopCommand  BY <1>14 DEF StopCommand
<1>15. CASE StopSet  BY <1>15 DEF StopSet
<1>16. CASE StopMove  BY <1>16 DEF StopMove
<1>17. CASE StopJoin  BY <1>17 DEF StopJoin
<1>18. CASE StopClear  BY <1>18 DEF StopClear
<1>19. CASE WaitRunning  BY <1>19 DEF WaitRunning
<1>20. CASE WaitIdle  BY <1>20 DEF WaitIdle
<1>21. CASE WaitPending  BY <1>21 DEF WaitPending
<1> QED
  BY <1>1, <1>2, <1>3, <1>4, <1>5, <1>6, <1>7, <1>8, <1>9, <1>10, <1>11,
      <1>12, <1>13, <1>14, <1>15, <1>16, <1>17, <1>18, <1>19, <1>20, <1>21 DEF MonitorSteps

(* A typed command, a station, a timer or nothing: the types of the flags. *)
LEMMA OtherFlags ==
  ASSUME IndInv, OtherSteps
  PROVE  FlagsTyped'
<1> USE DEF IndInv, TypeOK, FlagsTyped
<1>1. CASE \E c \in Verbs : Type(c)  BY <1>1, VerbsAssumption DEF Type
<1>2. CASE \E s \in Stations : RaiseAttention(s)  BY <1>2 DEF RaiseAttention
<1>3. CASE \E s \in Stations : SignalMachine(s)  BY <1>3 DEF SignalMachine
<1>4. CASE TimerElapses  BY <1>4 DEF TimerElapses
<1>5. CASE UNCHANGED vars  BY <1>5
<1> QED
  BY <1>1, <1>2, <1>3, <1>4, <1>5 DEF OtherSteps

(* Steps of the driver loop: the types of the other variables. *)
LEMMA DriverData ==
  ASSUME IndInv, NEW t \in Threads, Driver(t)
  PROVE  DataTyped'
<1> USE DEF IndInv, TypeOK, DataTyped, Ownership, ThreadsTyped, Queue
<1>1. CASE StepRuns(t)  BY <1>1 DEF StepRuns
<1>2. CASE StepService(t)  BY <1>2 DEF StepService
<1>3. CASE StepIdles(t)  BY <1>3 DEF StepIdles
<1>4. CASE StepPseudoIpl(t)  BY <1>4 DEF StepPseudoIpl
<1>5. CASE StepFaults(t)  BY <1>5 DEF StepFaults
<1>6. CASE DetectSystemPowerOff(t)  BY <1>6 DEF DetectSystemPowerOff
<1>7. CASE StepEnds(t)  BY <1>7 DEF StepEnds
<1>8. CASE StepThrows(t)  BY <1>8 DEF StepThrows
<1>9. CASE CheckPending(t, "preemptPump", "preemptPop", "preemptStop")
  BY <1>9 DEF CheckPending
<1>10. CASE CheckPending(t, "idlePump", "idlePop", "idleStop")
  BY <1>10 DEF CheckPending
<1>11. CASE PopItem(t, "preemptPop", "preemptRun")  BY <1>11 DEF PopItem
<1>12. CASE PopItem(t, "idlePop", "idleRun")  BY <1>12 DEF PopItem
<1>13. CASE PopNothing(t, "preemptPop", "preemptStop")  BY <1>13 DEF PopNothing
<1>14. CASE PopNothing(t, "idlePop", "idleStop")  BY <1>14 DEF PopNothing
<1>15. CASE RunItem(t, "preemptRun", "preemptPop")  BY <1>15 DEF RunItem
<1>16. CASE RunItem(t, "idleRun", "idlePop")  BY <1>16 DEF RunItem
<1>17. CASE PreemptStop(t)  BY <1>17 DEF PreemptStop
<1>18. CASE IdleStop(t)
  <2>1. CASE Leave(t)
    BY <1>18, <2>1 DEF IdleStop
  <2>2. CASE Continue(t, "idleFlush")
    BY <1>18, <2>2 DEF IdleStop
  <2> QED  BY <1>18, <2>1, <2>2 DEF IdleStop
<1>19. CASE \E s \in Sources : InspectSource(t, s)
  <2>1. PICK s \in Sources : InspectSource(t, s)
    BY <1>19
  <2>2. latch' \subseteq Sources /\ unseen' \subseteq Sources
    BY <2>1 DEF InspectSource
  <2> QED  BY <2>1, <2>2 DEF InspectSource
<1>20. CASE FinishScan(t)  BY <1>20 DEF FinishScan
<1>21. CASE Outer(t)
  <2>1. CASE Leave(t)
    BY <1>21, <2>1 DEF Outer
  <2>2. CASE Continue(t, "idlePump")
    BY <1>21, <2>2 DEF Outer
  <2> QED  BY <1>21, <2>1, <2>2 DEF Outer
<1>22. CASE FlushDeferredAid(t)
  <2>1. UNCHANGED <<cmd, liveQueue, livePending, item, timer, latch, unseen, ringing, scan>>
    BY <1>22 DEF FlushDeferredAid
  <2>2. stopReason' \in {stopReason, "none"}
    BY <1>22 DEF FlushDeferredAid
  <2> QED  BY <2>1, <2>2 DEF DataTyped, StopReasons
<1>23. CASE ServiceDueNativeTimers(t)  BY <1>23 DEF ServiceDueNativeTimers
<1>24. CASE Park(t)
  <2>1. CASE Leave(t)
    BY <1>24, <2>1 DEF Park
  <2>2. CASE Continue(t, "wait")
    BY <1>24, <2>2 DEF Park
  <2> QED  BY <1>24, <2>1, <2>2 DEF Park
<1>25. CASE Wake(t)  BY <1>25 DEF Wake
<1>26. CASE ClearIdle(t)  BY <1>26 DEF ClearIdle
<1> QED
  BY <1>1, <1>2, <1>3, <1>4, <1>5, <1>6, <1>7, <1>8, <1>9, <1>10, <1>11,
      <1>12, <1>13, <1>14, <1>15, <1>16, <1>17, <1>18, <1>19, <1>20,
      <1>21, <1>22, <1>23, <1>24, <1>25, <1>26 DEF Driver

(* Steps of liveBody: the types of the other variables. *)
LEMMA LiveBodyData ==
  ASSUME IndInv, LiveBody
  PROVE  DataTyped'
<1> USE DEF IndInv, TypeOK, DataTyped, Ownership, ThreadsTyped, Queue
<1>1. CASE Flip  BY <1>1 DEF Flip
<1>2. CASE DrainStep  BY <1>2 DEF DrainStep
<1>3. CASE DrainDone  BY <1>3 DEF DrainDone
<1>4. CASE LiveBodyTail  BY <1>4 DEF LiveBodyTail
<1>5. CASE PopItem("guest", "drainPop", "drainRun")  BY <1>5 DEF PopItem
<1>6. CASE PopNothing("guest", "drainPop", "tail")  BY <1>6 DEF PopNothing
<1>7. CASE RunItem("guest", "drainRun", "drainPop")  BY <1>7 DEF RunItem
<1> QED
  BY <1>1, <1>2, <1>3, <1>4, <1>5, <1>6, <1>7 DEF LiveBody

(* Steps of the monitor thread: the types of the other variables. *)
LEMMA MonitorData ==
  ASSUME IndInv, MonitorSteps
  PROVE  DataTyped'
<1> USE DEF IndInv, TypeOK, DataTyped, Ownership, ThreadsTyped, Queue
<1>1. CASE ShouldMarshal  BY <1>1 DEF ShouldMarshal
<1>2. CASE RunOnGuestThread  BY <1>2 DEF RunOnGuestThread
<1>3. CASE AwaitItem  BY <1>3 DEF AwaitItem
<1>4. CASE ExecuteDirect  BY <1>4 DEF ExecuteDirect
<1>5. CASE MonitorRings("ring", "await")  BY <1>5 DEF MonitorRings
<1>6. CASE MonitorRings("stopRing", "stopMove")  BY <1>6 DEF MonitorRings
<1>7. CASE StartCommand  BY <1>7 DEF StartCommand
<1>8. CASE IplCommand  BY <1>8 DEF IplCommand
<1>9. CASE IplReset  BY <1>9 DEF IplReset
<1>10. CASE StartFlags  BY <1>10 DEF StartFlags
<1>11. CASE StartLock  BY <1>11 DEF StartLock
<1>12. CASE StartJoin  BY <1>12 DEF StartJoin
<1>13. CASE Spawn  BY <1>13 DEF Spawn
<1>14. CASE StopCommand  BY <1>14 DEF StopCommand
<1>15. CASE StopSet  BY <1>15 DEF StopSet
<1>16. CASE StopMove  BY <1>16 DEF StopMove
<1>17. CASE StopJoin  BY <1>17 DEF StopJoin
<1>18. CASE StopClear  BY <1>18 DEF StopClear
<1>19. CASE WaitRunning  BY <1>19 DEF WaitRunning
<1>20. CASE WaitIdle  BY <1>20 DEF WaitIdle
<1>21. CASE WaitPending  BY <1>21 DEF WaitPending
<1> QED
  BY <1>1, <1>2, <1>3, <1>4, <1>5, <1>6, <1>7, <1>8, <1>9, <1>10, <1>11,
      <1>12, <1>13, <1>14, <1>15, <1>16, <1>17, <1>18, <1>19, <1>20, <1>21 DEF MonitorSteps

(* A typed command, a station, a timer or nothing: the types of the other variables. *)
LEMMA OtherData ==
  ASSUME IndInv, OtherSteps
  PROVE  DataTyped'
<1> USE DEF IndInv, TypeOK, DataTyped, Ownership, ThreadsTyped, Queue
<1>1. CASE \E c \in Verbs : Type(c)  BY <1>1, VerbsAssumption DEF Type
<1>2. CASE \E s \in Stations : RaiseAttention(s)  BY <1>2 DEF RaiseAttention
<1>3. CASE \E s \in Stations : SignalMachine(s)  BY <1>3 DEF SignalMachine
<1>4. CASE TimerElapses  BY <1>4 DEF TimerElapses
<1>5. CASE UNCHANGED vars  BY <1>5
<1> QED
  BY <1>1, <1>2, <1>3, <1>4, <1>5 DEF OtherSteps

(* Steps of the driver loop: a marshalled command is in one place. *)
LEMMA DriverQueue ==
  ASSUME IndInv, NEW t \in Threads, Driver(t)
  PROVE  Queue'
<1> USE DEF IndInv, TypeOK, ThreadsTyped, FlagsTyped, DataTyped, Ownership, Queue, Handles
<1>1. CASE StepRuns(t)  BY <1>1 DEF StepRuns
<1>2. CASE StepService(t)  BY <1>2 DEF StepService
<1>3. CASE StepIdles(t)  BY <1>3 DEF StepIdles
<1>4. CASE StepPseudoIpl(t)  BY <1>4 DEF StepPseudoIpl
<1>5. CASE StepFaults(t)  BY <1>5 DEF StepFaults
<1>6. CASE DetectSystemPowerOff(t)  BY <1>6 DEF DetectSystemPowerOff
<1>7. CASE StepEnds(t)  BY <1>7 DEF StepEnds
<1>8. CASE StepThrows(t)  BY <1>8 DEF StepThrows
<1>9. CASE CheckPending(t, "preemptPump", "preemptPop", "preemptStop")
  BY <1>9 DEF CheckPending
<1>10. CASE CheckPending(t, "idlePump", "idlePop", "idleStop")
  BY <1>10 DEF CheckPending
<1>11. CASE PopItem(t, "preemptPop", "preemptRun")  BY <1>11 DEF PopItem
<1>12. CASE PopItem(t, "idlePop", "idleRun")  BY <1>12 DEF PopItem
<1>13. CASE PopNothing(t, "preemptPop", "preemptStop")  BY <1>13 DEF PopNothing
<1>14. CASE PopNothing(t, "idlePop", "idleStop")  BY <1>14 DEF PopNothing
<1>15. CASE RunItem(t, "preemptRun", "preemptPop")
  <2>1. /\ pc'["guest"] \notin {"preemptRun", "idleRun", "drainRun", "drainDone"}
        /\ pc'["monitor"] = pc["monitor"]
        /\ t = "guest"
    BY <1>15 DEF RunItem
  <2>2. item # "none" /\ item' = "none" /\ itemDone' /\ ~nested /\ ~nested'
    BY <1>15, <2>1 DEF RunItem
  <2> QED  BY <1>15, <2>1, <2>2 DEF RunItem
<1>16. CASE RunItem(t, "idleRun", "idlePop")
  <2>1. /\ pc'["guest"] \notin {"preemptRun", "idleRun", "drainRun", "drainDone"}
        /\ pc'["monitor"] = pc["monitor"]
        /\ t = "guest"
    BY <1>16 DEF RunItem
  <2>2. item # "none" /\ item' = "none" /\ itemDone' /\ ~nested /\ ~nested'
    BY <1>16, <2>1 DEF RunItem
  <2> QED  BY <1>16, <2>1, <2>2 DEF RunItem
<1>17. CASE PreemptStop(t)  BY <1>17 DEF PreemptStop
<1>18. CASE IdleStop(t)
  <2>1. CASE Leave(t)
    BY <1>18, <2>1 DEF IdleStop
  <2>2. CASE Continue(t, "idleFlush")
    BY <1>18, <2>2 DEF IdleStop
  <2> QED  BY <1>18, <2>1, <2>2 DEF IdleStop
<1>19. CASE \E s \in Sources : InspectSource(t, s)  BY <1>19 DEF InspectSource
<1>20. CASE FinishScan(t)  BY <1>20 DEF FinishScan
<1>21. CASE Outer(t)
  <2>1. CASE Leave(t)
    BY <1>21, <2>1 DEF Outer
  <2>2. CASE Continue(t, "idlePump")
    BY <1>21, <2>2 DEF Outer
  <2> QED  BY <1>21, <2>1, <2>2 DEF Outer
<1>22. CASE FlushDeferredAid(t)
  <2>1. CASE Continue(t, "step")
    BY <1>22, <2>1 DEF FlushDeferredAid
  <2>2. CASE Continue(t, "idleTimer")
    BY <1>22, <2>2 DEF FlushDeferredAid
  <2> QED  BY <1>22, <2>1, <2>2 DEF FlushDeferredAid
<1>23. CASE ServiceDueNativeTimers(t)  BY <1>23 DEF ServiceDueNativeTimers
<1>24. CASE Park(t)
  <2>1. CASE Leave(t)
    BY <1>24, <2>1 DEF Park
  <2>2. CASE Continue(t, "wait")
    BY <1>24, <2>2 DEF Park
  <2> QED  BY <1>24, <2>1, <2>2 DEF Park
<1>25. CASE Wake(t)  BY <1>25 DEF Wake
<1>26. CASE ClearIdle(t)  BY <1>26 DEF ClearIdle
<1> QED
  BY <1>1, <1>2, <1>3, <1>4, <1>5, <1>6, <1>7, <1>8, <1>9, <1>10, <1>11,
      <1>12, <1>13, <1>14, <1>15, <1>16, <1>17, <1>18, <1>19, <1>20,
      <1>21, <1>22, <1>23, <1>24, <1>25, <1>26 DEF Driver

(* Steps of liveBody: a marshalled command is in one place. *)
LEMMA LiveBodyQueue ==
  ASSUME IndInv, LiveBody
  PROVE  Queue'
<1> USE DEF IndInv, TypeOK, ThreadsTyped, FlagsTyped, DataTyped, Ownership, Queue, Handles
<1>1. CASE Flip  BY <1>1 DEF Flip
<1>2. CASE DrainStep  BY <1>2 DEF DrainStep
<1>3. CASE DrainDone  BY <1>3 DEF DrainDone
<1>4. CASE LiveBodyTail  BY <1>4 DEF LiveBodyTail
<1>5. CASE PopItem("guest", "drainPop", "drainRun")  BY <1>5 DEF PopItem
<1>6. CASE PopNothing("guest", "drainPop", "tail")  BY <1>6 DEF PopNothing
<1>7. CASE RunItem("guest", "drainRun", "drainPop")  BY <1>7 DEF RunItem
<1> QED
  BY <1>1, <1>2, <1>3, <1>4, <1>5, <1>6, <1>7 DEF LiveBody

(* Steps of the monitor thread: a marshalled command is in one place. *)
LEMMA MonitorQueue ==
  ASSUME IndInv, MonitorSteps
  PROVE  Queue'
<1> USE DEF IndInv, TypeOK, ThreadsTyped, FlagsTyped, DataTyped, Ownership, Queue, Handles
<1>1. CASE ShouldMarshal  BY <1>1 DEF ShouldMarshal
<1>2. CASE RunOnGuestThread
  <2>1. CASE liveRunning
    <3>1. /\ liveQueue' = Append(liveQueue, cmd)
          /\ Len(liveQueue') = Len(liveQueue) + 1
      BY <1>2, <2>1 DEF RunOnGuestThread
    <3> QED  BY <1>2, <2>1, <3>1 DEF RunOnGuestThread
  <2>2. CASE ~liveRunning
    <3>1. /\ pc'["guest"] = pc["guest"]
          /\ pc["monitor"] = "enqueue" /\ pc'["monitor"] = "direct"
          /\ UNCHANGED <<liveQueue, livePending, item, itemDone, nested>>
          /\ UNCHANGED liveRunning
      BY <1>2, <2>2 DEF RunOnGuestThread
    <3> QED  BY <3>1
  <2> QED  BY <2>1, <2>2
<1>3. CASE AwaitItem  BY <1>3 DEF AwaitItem
<1>4. CASE ExecuteDirect  BY <1>4 DEF ExecuteDirect
<1>5. CASE MonitorRings("ring", "await")  BY <1>5 DEF MonitorRings
<1>6. CASE MonitorRings("stopRing", "stopMove")  BY <1>6 DEF MonitorRings
<1>7. CASE StartCommand  BY <1>7 DEF StartCommand
<1>8. CASE IplCommand  BY <1>8 DEF IplCommand
<1>9. CASE IplReset  BY <1>9 DEF IplReset
<1>10. CASE StartFlags  BY <1>10 DEF StartFlags
<1>11. CASE StartLock  BY <1>11 DEF StartLock
<1>12. CASE StartJoin  BY <1>12 DEF StartJoin
<1>13. CASE Spawn  BY <1>13 DEF Spawn
<1>14. CASE StopCommand  BY <1>14 DEF StopCommand
<1>15. CASE StopSet  BY <1>15 DEF StopSet
<1>16. CASE StopMove  BY <1>16 DEF StopMove
<1>17. CASE StopJoin  BY <1>17 DEF StopJoin
<1>18. CASE StopClear  BY <1>18 DEF StopClear
<1>19. CASE WaitRunning  BY <1>19 DEF WaitRunning
<1>20. CASE WaitIdle  BY <1>20 DEF WaitIdle
<1>21. CASE WaitPending  BY <1>21 DEF WaitPending
<1> QED
  BY <1>1, <1>2, <1>3, <1>4, <1>5, <1>6, <1>7, <1>8, <1>9, <1>10, <1>11,
      <1>12, <1>13, <1>14, <1>15, <1>16, <1>17, <1>18, <1>19, <1>20, <1>21 DEF MonitorSteps

(* A typed command, a station, a timer or nothing: a marshalled command is in one place. *)
LEMMA OtherQueue ==
  ASSUME IndInv, OtherSteps
  PROVE  Queue'
<1> USE DEF IndInv, TypeOK, ThreadsTyped, FlagsTyped, DataTyped, Ownership, Queue, Handles
<1>1. CASE \E c \in Verbs : Type(c)  BY <1>1, VerbsAssumption DEF Type
<1>2. CASE \E s \in Stations : RaiseAttention(s)  BY <1>2 DEF RaiseAttention
<1>3. CASE \E s \in Stations : SignalMachine(s)  BY <1>3 DEF SignalMachine
<1>4. CASE TimerElapses  BY <1>4 DEF TimerElapses
<1>5. CASE UNCHANGED vars  BY <1>5
<1> QED
  BY <1>1, <1>2, <1>3, <1>4, <1>5 DEF OtherSteps

(* Steps of the driver loop: nothing the parked loop has to see is missed. *)
LEMMA DriverWakeup ==
  ASSUME IndInv, NEW t \in Threads, Driver(t)
  PROVE  Doorbell' /\ Idle'
<1> USE DEF IndInv, TypeOK, ThreadsTyped, FlagsTyped, DataTyped, Ownership, Handles, Queue, Doorbell, Idle
<1>1. CASE StepRuns(t)  BY <1>1 DEF StepRuns
<1>2. CASE StepService(t)  BY <1>2 DEF StepService
<1>3. CASE StepIdles(t)  BY <1>3 DEF StepIdles
<1>4. CASE StepPseudoIpl(t)  BY <1>4 DEF StepPseudoIpl
<1>5. CASE StepFaults(t)  BY <1>5 DEF StepFaults
<1>6. CASE DetectSystemPowerOff(t)  BY <1>6 DEF DetectSystemPowerOff
<1>7. CASE StepEnds(t)  BY <1>7 DEF StepEnds
<1>8. CASE StepThrows(t)  BY <1>8 DEF StepThrows
<1>9. CASE CheckPending(t, "preemptPump", "preemptPop", "preemptStop")
  BY <1>9 DEF CheckPending
<1>10. CASE CheckPending(t, "idlePump", "idlePop", "idleStop")
  BY <1>10 DEF CheckPending
<1>11. CASE PopItem(t, "preemptPop", "preemptRun")  BY <1>11 DEF PopItem
<1>12. CASE PopItem(t, "idlePop", "idleRun")  BY <1>12 DEF PopItem
<1>13. CASE PopNothing(t, "preemptPop", "preemptStop")  BY <1>13 DEF PopNothing
<1>14. CASE PopNothing(t, "idlePop", "idleStop")  BY <1>14 DEF PopNothing
<1>15. CASE RunItem(t, "preemptRun", "preemptPop")  BY <1>15 DEF RunItem
<1>16. CASE RunItem(t, "idleRun", "idlePop")  BY <1>16 DEF RunItem
<1>17. CASE PreemptStop(t)  BY <1>17 DEF PreemptStop
<1>18. CASE IdleStop(t)
  <2>1. CASE Leave(t)
    BY <1>18, <2>1 DEF IdleStop
  <2>2. CASE Continue(t, "idleFlush")
    BY <1>18, <2>2 DEF IdleStop
  <2> QED  BY <1>18, <2>1, <2>2 DEF IdleStop
<1>19. CASE \E s \in Sources : InspectSource(t, s)
  BY <1>19, ConsoleAssumption DEF InspectSource
<1>20. CASE FinishScan(t)  BY <1>20 DEF FinishScan
<1>21. CASE Outer(t)
  <2>1. CASE Leave(t)
    BY <1>21, <2>1 DEF Outer
  <2>2. CASE Continue(t, "idlePump")
    BY <1>21, <2>2 DEF Outer
  <2> QED  BY <1>21, <2>1, <2>2 DEF Outer
<1>22. CASE FlushDeferredAid(t)
  <2>1. CASE Continue(t, "step")
    BY <1>22, <2>1 DEF FlushDeferredAid
  <2>2. CASE Continue(t, "idleTimer")
    BY <1>22, <2>2 DEF FlushDeferredAid
  <2> QED  BY <1>22, <2>1, <2>2 DEF FlushDeferredAid
<1>23. CASE ServiceDueNativeTimers(t)  BY <1>23 DEF ServiceDueNativeTimers
<1>24. CASE Park(t)
  <2>1. CASE Leave(t)
    <3>1. Doorbell'
      BY <1>24, <2>1 DEF Park
    <3>2. UNCHANGED <<liveIdle, unseen>>
      BY <1>24, <2>1 DEF Park
    <3>3. CASE t = "guest"
      BY <1>24, <2>1, <3>1, <3>2, <3>3 DEF Park
    <3>4. CASE t = "monitor"
      BY <1>24, <2>1, <3>1, <3>2, <3>4 DEF Park
    <3> QED  BY <3>3, <3>4
  <2>2. CASE Continue(t, "wait")
    BY <1>24, <2>2 DEF Park
  <2> QED  BY <1>24, <2>1, <2>2 DEF Park
<1>25. CASE Wake(t)  BY <1>25 DEF Wake
<1>26. CASE ClearIdle(t)  BY <1>26 DEF ClearIdle
<1> QED
  BY <1>1, <1>2, <1>3, <1>4, <1>5, <1>6, <1>7, <1>8, <1>9, <1>10, <1>11,
      <1>12, <1>13, <1>14, <1>15, <1>16, <1>17, <1>18, <1>19, <1>20,
      <1>21, <1>22, <1>23, <1>24, <1>25, <1>26 DEF Driver

(* Steps of liveBody: nothing the parked loop has to see is missed. *)
LEMMA LiveBodyWakeup ==
  ASSUME IndInv, LiveBody
  PROVE  Doorbell' /\ Idle'
<1> USE DEF IndInv, TypeOK, ThreadsTyped, FlagsTyped, DataTyped, Ownership, Handles, Queue, Doorbell, Idle
<1>1. CASE Flip  BY <1>1 DEF Flip
<1>2. CASE DrainStep  BY <1>2 DEF DrainStep
<1>3. CASE DrainDone  BY <1>3 DEF DrainDone
<1>4. CASE LiveBodyTail  BY <1>4 DEF LiveBodyTail
<1>5. CASE PopItem("guest", "drainPop", "drainRun")  BY <1>5 DEF PopItem
<1>6. CASE PopNothing("guest", "drainPop", "tail")  BY <1>6 DEF PopNothing
<1>7. CASE RunItem("guest", "drainRun", "drainPop")  BY <1>7 DEF RunItem
<1> QED
  BY <1>1, <1>2, <1>3, <1>4, <1>5, <1>6, <1>7 DEF LiveBody

(* Steps of the monitor thread: nothing the parked loop has to see is missed. *)
LEMMA MonitorWakeup ==
  ASSUME IndInv, MonitorSteps
  PROVE  Doorbell' /\ Idle'
<1> USE DEF IndInv, TypeOK, ThreadsTyped, FlagsTyped, DataTyped, Ownership, Handles, Queue, Doorbell, Idle
<1>1. CASE ShouldMarshal  BY <1>1 DEF ShouldMarshal
<1>2. CASE RunOnGuestThread  BY <1>2 DEF RunOnGuestThread
<1>3. CASE AwaitItem  BY <1>3 DEF AwaitItem
<1>4. CASE ExecuteDirect  BY <1>4 DEF ExecuteDirect
<1>5. CASE MonitorRings("ring", "await")  BY <1>5 DEF MonitorRings
<1>6. CASE MonitorRings("stopRing", "stopMove")  BY <1>6 DEF MonitorRings
<1>7. CASE StartCommand  BY <1>7 DEF StartCommand
<1>8. CASE IplCommand  BY <1>8 DEF IplCommand
<1>9. CASE IplReset  BY <1>9 DEF IplReset
<1>10. CASE StartFlags  BY <1>10 DEF StartFlags
<1>11. CASE StartLock  BY <1>11 DEF StartLock
<1>12. CASE StartJoin  BY <1>12 DEF StartJoin
<1>13. CASE Spawn  BY <1>13 DEF Spawn
<1>14. CASE StopCommand  BY <1>14 DEF StopCommand
<1>15. CASE StopSet  BY <1>15 DEF StopSet
<1>16. CASE StopMove  BY <1>16 DEF StopMove
<1>17. CASE StopJoin  BY <1>17 DEF StopJoin
<1>18. CASE StopClear  BY <1>18 DEF StopClear
<1>19. CASE WaitRunning  BY <1>19 DEF WaitRunning
<1>20. CASE WaitIdle  BY <1>20 DEF WaitIdle
<1>21. CASE WaitPending  BY <1>21 DEF WaitPending
<1> QED
  BY <1>1, <1>2, <1>3, <1>4, <1>5, <1>6, <1>7, <1>8, <1>9, <1>10, <1>11,
      <1>12, <1>13, <1>14, <1>15, <1>16, <1>17, <1>18, <1>19, <1>20, <1>21 DEF MonitorSteps

(* A typed command, a station, a timer or nothing: nothing the parked loop has to see is missed. *)
LEMMA OtherWakeup ==
  ASSUME IndInv, OtherSteps
  PROVE  Doorbell' /\ Idle'
<1> USE DEF IndInv, TypeOK, ThreadsTyped, FlagsTyped, DataTyped, Ownership, Handles, Queue, Doorbell, Idle
<1>1. CASE \E c \in Verbs : Type(c)  BY <1>1, VerbsAssumption DEF Type
<1>2. CASE \E s \in Stations : RaiseAttention(s)
  BY <1>2, ConsoleAssumption DEF RaiseAttention
<1>3. CASE \E s \in Stations : SignalMachine(s)
  BY <1>3, ConsoleAssumption DEF SignalMachine
<1>4. CASE TimerElapses  BY <1>4 DEF TimerElapses
<1>5. CASE UNCHANGED vars  BY <1>5
<1> QED
  BY <1>1, <1>2, <1>3, <1>4, <1>5 DEF OtherSteps

-----------------------------------------------------------------------------
(* The invariant holds initially: the first `ipl` is about to be executed  *)
(* and no guest thread has been created.                                   *)
LEMMA InitIndInv == Init => IndInv
<1> SUFFICES ASSUME Init PROVE IndInv
  OBVIOUS
<1> USE DEF Init
<1>1. TypeOK
  <2>1. ThreadsTyped
    BY DEF ThreadsTyped
  <2>2. FlagsTyped
    BY DEF FlagsTyped
  <2>3. DataTyped
    BY EmptySeq DEF DataTyped
  <2> QED  BY <2>1, <2>2, <2>3 DEF TypeOK
<1>2. Ownership /\ Handles
  BY DEF Ownership, Handles
<1>3. Queue
  BY DEF Queue
<1>4. Doorbell /\ Idle
  BY DEF Doorbell, Idle
<1> QED  BY <1>1, <1>2, <1>3, <1>4 DEF IndInv

(* Every step of every thread keeps the invariant.                         *)
LEMMA NextIndInv == IndInv /\ [Next]_vars => IndInv'
<1> SUFFICES ASSUME IndInv, [Next]_vars PROVE IndInv'
  OBVIOUS
<1>1. ASSUME NEW t \in Threads, Driver(t) PROVE IndInv'
  BY <1>1, DriverControl, DriverFlags, DriverData, DriverQueue, DriverWakeup
  DEF IndInv, TypeOK
<1>2. CASE LiveBody
  BY <1>2, LiveBodyControl, LiveBodyFlags, LiveBodyData, LiveBodyQueue,
     LiveBodyWakeup
  DEF IndInv, TypeOK
<1>3. CASE MonitorSteps
  BY <1>3, MonitorControl, MonitorFlags, MonitorData, MonitorQueue,
     MonitorWakeup
  DEF IndInv, TypeOK
<1>4. CASE OtherSteps
  BY <1>4, OtherControl, OtherFlags, OtherData, OtherQueue, OtherWakeup
  DEF IndInv, TypeOK
<1> QED  BY <1>1, <1>2, <1>3, <1>4 DEF Next, OtherSteps

(* The inductive invariant holds in every reachable state.                 *)
LEMMA Inductive == Spec => []IndInv
<1>1. Init => IndInv
  BY InitIndInv
<1>2. IndInv /\ [Next]_vars => IndInv'
  BY NextIndInv
<1> QED  BY <1>1, <1>2, PTL DEF Spec

(* Type correctness, for every set of stations and of commands.            *)
THEOREM TypeCorrectness == Spec => []TypeOK
<1>1. IndInv => TypeOK
  BY DEF IndInv
<1> QED  BY <1>1, Inductive, PTL

(* The monitor thread never executes machine code while the guest thread   *)
(* drives the machine or drains commands: liveRunning_, read under         *)
(* liveLock_, is down whenever the monitor thread is past its checks, and  *)
(* at most one marshalled command exists.                                  *)
THEOREM SingleOwnerHolds == Spec => []SingleOwner
<1>1. IndInv => SingleOwner
  BY DEF IndInv, TypeOK, ThreadsTyped, Ownership, Handles, Queue, SingleOwner,
         OwnsMachine
<1> QED  BY <1>1, Inductive, PTL

(* A guest thread is only created when there is none, has a handle while   *)
(* it lives, and is gone, with its queue empty, once the session quits.    *)
THEOREM OneGuestThreadHolds == Spec => []OneGuestThread
<1>1. IndInv => OneGuestThread
  <2> SUFFICES ASSUME IndInv PROVE OneGuestThread
    OBVIOUS
  <2> USE DEF IndInv, TypeOK, ThreadsTyped, FlagsTyped, DataTyped, Ownership,
              Handles, Queue
  <2>1. At("monitor", "spawn") => At("guest", "none") /\ ~liveThread
    OBVIOUS
  <2>2. ~At("guest", "none") => liveThread \/ At("monitor", "stopJoin")
    OBVIOUS
  <2>3. ASSUME At("monitor", "quit") PROVE At("guest", "none") /\ liveQueue = <<>>
    <3>1. Len(liveQueue) = 0
      BY <2>3
    <3> QED  BY <2>3, <3>1, EmptySeq
  <2> QED  BY <2>1, <2>2, <2>3 DEF OneGuestThread
<1> QED  BY <1>1, Inductive, PTL

(* The discipline of the threads as a whole.                               *)
THEOREM OneDriverHolds == Spec => []OneDriver
<1>1. SingleOwner /\ OneGuestThread => OneDriver
  BY DEF OneDriver
<1> QED  BY <1>1, SingleOwnerHolds, OneGuestThreadHolds, PTL

(* The parked loop misses no ring: signals come after what they announce,  *)
(* and the loop looks at everything between taking a ring and parking.     *)
THEOREM NoLostWakeupHolds == Spec => []NoLostWakeup
<1>1. IndInv => NoLostWakeup
  <2> SUFFICES ASSUME IndInv, At("guest", "wait"), ~doorbell
               PROVE  /\ liveQueue # <<>> => At("monitor", "ring")
                      /\ stopRequested => At("monitor", "stopRing")
                      /\ unseen \subseteq ringing
    BY DEF NoLostWakeup
  <2> USE DEF IndInv, TypeOK, ThreadsTyped, FlagsTyped, DataTyped, Queue,
              Doorbell
  <2>1. ASSUME liveQueue # <<>> PROVE At("monitor", "ring")
    <3>1. Len(liveQueue) = 1
      BY <2>1, EmptySeq, LenProperties
    <3> QED  BY <3>1
  <2>2. (stopRequested => At("monitor", "stopRing")) /\ unseen \subseteq ringing
    OBVIOUS
  <2> QED  BY <2>1, <2>2
<1> QED  BY <1>1, Inductive, PTL

(* `wait idle` reports a quiet machine: the loop parks only when it has    *)
(* seen the console's keys, and liveIdle_ is up only while it is parked.   *)
THEOREM IdleReportFreshHolds == Spec => []IdleReportFresh
<1>1. IndInv => IdleReportFresh
  <2> SUFFICES ASSUME IndInv, At("monitor", "waitPending")
               PROVE  Console \notin unseen /\ liveQueue = <<>>
    BY DEF IdleReportFresh
  <2> USE DEF IndInv, TypeOK, DataTyped, Queue, Idle
  <2>1. Len(liveQueue) = 0
    <3>1. Len(liveQueue) \in Nat
      BY LenProperties
    <3> QED  BY <3>1
  <2> QED  BY <2>1, EmptySeq
<1> QED  BY <1>1, Inductive, PTL
=============================================================================
