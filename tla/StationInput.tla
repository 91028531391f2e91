---------------------------- MODULE StationInput ----------------------------
(***************************************************************************)
(* One display station with a listener of its own, from the socket to the  *)
(* guest: the accept loop and the readers of its clients, the backend's    *)
(* latches, the delivery chain of the guest thread, the operations the     *)
(* work-station controller retains, and the operator who constructs,       *)
(* releases and re-IPLs the machine.                                       *)
(*                                                                         *)
(* reader[c] is what client c's reader thread does next: "negotiate",      *)
(* "signal" (that 5250 mode is agreed), "raise" (the attention), "reading",*)
(* or the kind of the record it is about to park; "idle" when its loop is  *)
(* over.  chain is where the guest thread is in a pass of the delivery     *)
(* chain; it is "rest" while the guest program runs.                       *)
(*                                                                         *)
(* An operator named <Action>_<Fault> is the action with a plausible bug;  *)
(* it is not part of Next.                                                 *)
(***************************************************************************)
EXTENDS StationBackend

CONSTANTS
    Clients,        \* the TN5250 clients
    Nobody,         \* no client
    Operations      \* what the guest asks of the display and waits for

ASSUME OperationsAssumption == Operations \subseteq {"invite", "read", "c1", "save"}

ASSUME NobodyAssumption == Nobody \notin Clients

VARIABLES
    open,           \* the clients whose session is not closed_
    agreed,         \* ready() of the installed session
    signalled,      \* the clients whose readySignalled_ is set, while they may be asked
    closing,        \* the clients whose reader has still to run the close handler
    reader,         \* [Clients -> what the reader thread does next]
    session,        \* session_: the client installed at the backend
    parked,         \* the records parked at the backend
    attention,      \* attentionPending_
    powerOff,       \* powerOffPending_
    machine,        \* whether a machine is constructed: off, reset or up
    seen,           \* attached(), as read by resetForMachine
    chain,          \* the guest thread's place in the delivery chain
    configured,     \* SSP has built and configured the station's unit block
    known,          \* tubAddress # 0
    transferred,    \* the display is transferred to the guest
    detached,       \* displayDetached: the controller rejects commands
    ops,            \* the operations the controller retains
    status,         \* inputResponseStatus_ holds a status for the unit
    retained,       \* retainedDeviceInput_, a sequence of at most one
    user,           \* history: the client at whose display it was transferred
    unheard         \* history: that client went before it had signalled

sessionVars  == <<agreed, signalled, closing, reader>>
hostVars     == <<open, sessionVars, session>>
latchVars    == <<attention, powerOff>>
backendVars  == <<parked, latchVars>>
machineVars  == <<machine, seen>>
bindingVars  == <<configured, known, transferred, detached, user, unheard>>
deviceVars   == <<ops, status, retained>>
guestVars    == <<chain, bindingVars, deviceVars>>
vars == <<hostVars, backendVars, machineVars, guestVars>>

Attached == session \in open

(* ready() is the state of the negotiation.  It holds before the session   *)
(* has signalled it, and whether or not the session is still open.         *)
Ready == agreed

-----------------------------------------------------------------------------
(* The accept loop and the sessions' readers.                              *)

(* A client id is free to stand for a new client once nothing refers to it.*)
Unused(c) == /\ c \notin open \cup closing \cup {session, user}
             /\ reader[c] = "idle"

(* Only one client may be attached; a second one is refused.               *)
Accept(c) ==
    /\ Unused(c)
    /\ ~Attached
    /\ open' = open \cup {c}
    /\ agreed' = FALSE /\ signalled' = signalled \ {c}
    /\ reader' = [reader EXCEPT ![c] = "negotiate"]
    /\ session' = c
    /\ UNCHANGED <<closing, backendVars, machineVars, guestVars>>

(* A reader that closes its session runs the close handler before it goes  *)
(* on with what it has read.                                               *)
At(c, stages) == reader[c] \in stages /\ c \notin closing

(* The last option both sides need for 5250 mode.                          *)
Agree(c) ==
    /\ At(c, {"negotiate"})
    /\ agreed' = (agreed \/ c = session)
    /\ reader' = [reader EXCEPT ![c] = "signal"]
    /\ UNCHANGED <<open, signalled, closing, session, backendVars, machineVars,
                   guestVars>>

(* signalReadyOnce, a step of its own: the device becomes present.         *)
SignalReady(c) ==
    /\ At(c, {"signal"})
    /\ signalled' = signalled \cup {c}
    /\ reader' = [reader EXCEPT ![c] = "raise"]
    /\ UNCHANGED <<open, agreed, closing, session, backendVars, machineVars, guestVars>>

(* A client that takes an option back, or gives it again.                  *)
Renegotiate(c) ==
    /\ At(c, {"reading"}) /\ c = session
    /\ agreed' = ~agreed
    /\ UNCHANGED <<open, signalled, closing, reader, session, backendVars, machineVars,
                   guestVars>>

(* onSessionGone: a client that had signalled switched its display off,    *)
(* and one that had not is not heard of.                                   *)
Gone(c) ==
    /\ powerOff' = (powerOff \/ c \in signalled)
    /\ unheard' = (unheard \/ (c = user /\ c \notin signalled))

(* The installed session is closed by a thread that is not its reader, and *)
(* its close handler runs there and then.                                  *)
CloseInstalled ==
    /\ open' = open \ {session}
    /\ IF Attached THEN Gone(session) ELSE UNCHANGED <<powerOff, unheard>>

(* A printer client reached a display, whenever it names its type: the     *)
(* endpoint drops the session it has by now.                               *)
KindMismatch(c) ==
    /\ At(c, {"negotiate", "signal", "reading"})
    /\ CloseInstalled
    /\ session' = Nobody /\ agreed' = FALSE
    /\ UNCHANGED <<signalled, closing, reader, parked, attention, machineVars, chain, configured, known,
                   transferred, detached, user, deviceVars>>

(* What was read before the connection was lost is still delivered.        *)
Receives(c, kind) ==
    /\ At(c, {"reading"})
    /\ reader' = [reader EXCEPT ![c] = kind]
    /\ UNCHANGED <<open, agreed, signalled, closing, session, backendVars, machineVars,
                   guestVars>>

(* enqueue parks the record first and raises the attention second.         *)
Park(c) ==
    /\ reader[c] \in RecordKinds
    /\ parked' = Enqueue(parked, reader[c])
    /\ reader' = [reader EXCEPT ![c] = IF RaisesAttention(@) THEN "raise" ELSE "reading"]
    /\ UNCHANGED <<open, agreed, signalled, closing, session, latchVars, machineVars,
                   guestVars>>

RaiseAttention(c) ==
    /\ reader[c] = "raise"
    /\ attention' = TRUE
    /\ reader' = [reader EXCEPT ![c] = "reading"]
    /\ UNCHANGED <<open, agreed, signalled, closing, session, parked, powerOff,
                   machineVars, guestVars>>

(* The connection is lost: the reader's loop ends.                         *)
HangUp(c) ==
    /\ reader[c] \in {"negotiate", "reading"} /\ c \in open
    /\ open' = open \ {c}
    /\ closing' = closing \cup {c}
    /\ reader' = [reader EXCEPT ![c] = "idle"]
    /\ UNCHANGED <<agreed, signalled, session, backendVars, machineVars, guestVars>>

(* The reader's own answer in the negotiation cannot be written; it goes   *)
(* on with what it has read.                                               *)
AnswerFails(c) ==
    /\ reader[c] \in {"negotiate", "signal"} /\ c \in open
    /\ open' = open \ {c}
    /\ closing' = closing \cup {c}
    /\ UNCHANGED <<agreed, signalled, reader, session, backendVars, machineVars,
                   guestVars>>

SessionGone_OnlyInstalled(c) ==
    /\ c \in closing
    /\ closing' = closing \ {c}
    /\ signalled' = signalled \ {c}
    /\ IF c = session THEN Gone(c) ELSE UNCHANGED <<powerOff, unheard>>
    /\ UNCHANGED <<open, agreed, reader, session, parked, attention, machineVars,
                   chain, configured, known, transferred, detached, user, deviceVars>>

(* The close handler of a session its reader closed.                       *)
SessionGone(c) ==
    /\ c \in closing
    /\ closing' = closing \ {c}
    /\ signalled' = signalled \ {c}
    /\ Gone(c)
    /\ UNCHANGED <<open, agreed, reader, session, parked, attention, machineVars,
                   chain, configured, known, transferred, detached, user, deviceVars>>

ReaderEnds(c) ==
    /\ At(c, {"negotiate", "reading"}) /\ c \notin open
    /\ reader' = [reader EXCEPT ![c] = "idle"] /\ signalled' = signalled \ {c}
    /\ UNCHANGED <<open, agreed, closing, session, backendVars, machineVars,
                   guestVars>>

Reader(c) == SignalReady(c) \/ Park(c) \/ RaiseAttention(c) \/ SessionGone(c) \/ ReaderEnds(c)

-----------------------------------------------------------------------------
(* The operator.  Nothing of the guest survives its machine.               *)

Construct ==
    /\ machine = "off"
    /\ machine' = "reset"
    /\ parked' = NothingParked
    /\ seen' = Attached
    /\ UNCHANGED <<hostVars, latchVars, guestVars>>

(* resetAttention stores what resetForMachine has read before.             *)
ResetAttention ==
    /\ machine = "reset"
    /\ machine' = "up"
    /\ attention' = seen
    /\ seen' = FALSE
    /\ UNCHANGED <<hostVars, parked, powerOff, guestVars>>

Release ==
    /\ machine = "up" /\ chain = "rest"
    /\ machine' = "off"
    /\ configured' = FALSE /\ known' = FALSE /\ transferred' = FALSE
    /\ detached' = FALSE /\ user' = Nobody /\ unheard' = FALSE
    /\ ops' = {} /\ status' = FALSE /\ retained' = <<>>
    /\ UNCHANGED <<hostVars, backendVars, seen, chain>>

(* An IPL of a constructed machine resets the processors and not the       *)
(* displays, their backends or their clients.                              *)
Ipl ==
    /\ machine = "up" /\ chain = "rest"
    /\ configured' = FALSE /\ transferred' = FALSE
    /\ user' = Nobody /\ unheard' = FALSE
    /\ ops' = {} /\ status' = FALSE
    /\ UNCHANGED <<hostVars, backendVars, machineVars, chain, known, detached, retained>>

-----------------------------------------------------------------------------
(* The guest program, between two passes of the delivery chain.            *)

GuestRuns == machine = "up" /\ chain = "rest"

GuestConfigures ==
    /\ GuestRuns /\ ~configured
    /\ configured' = TRUE
    /\ UNCHANGED <<hostVars, backendVars, machineVars, chain, known, transferred, detached,
                   user, unheard, deviceVars>>

(* Every command to the station makes its unit block known; a display that *)
(* was powered off rejects it.  change is what it does otherwise.          *)
Request(o, change) ==
    /\ GuestRuns /\ configured /\ o \in Operations
    /\ known' = TRUE
    /\ IF detached THEN UNCHANGED deviceVars ELSE change
    /\ UNCHANGED <<hostVars, backendVars, machineVars, chain, configured, transferred,
                   detached, user, unheard>>

Sent == Attached /\ Ready

(* A new A7 clears the status, and is retained only if it was sent.        *)
PutWithInvite ==
    Request("invite", /\ ops' = IF Sent THEN ops \cup {"invite"} ELSE ops
                      /\ status' = FALSE
                      /\ UNCHANGED retained)

(* The response phase of an A7 imports the status there is, or waits.      *)
AwaitResponse ==
    Request("c1", /\ ops' = IF status THEN ops ELSE ops \cup {"c1"}
                  /\ status' = FALSE
                  /\ UNCHANGED retained)

ReadInputFields ==
    Request("read", ops' = ops \cup {"read"} /\ UNCHANGED <<status, retained>>)

SaveScreen ==
    Request("save", /\ ops' = IF Sent THEN ops \cup {"save"} ELSE ops
                    /\ UNCHANGED <<status, retained>>)

(* Any command writes; a write that fails closes the session on the guest  *)
(* thread.                                                                 *)
WriteFails ==
    /\ GuestRuns /\ configured /\ ~detached /\ Sent
    /\ known' = TRUE
    /\ CloseInstalled
    /\ status' \in {status, FALSE}
    /\ UNCHANGED <<sessionVars, session, parked, attention, machineVars, chain,
                   configured, transferred, detached, user, ops, retained>>

(* Its task ends: the controller forgets the operation.                    *)
CancelPending(o) ==
    /\ GuestRuns /\ o \in ops
    /\ ops' = ops \ {o}
    /\ UNCHANGED <<hostVars, backendVars, machineVars, chain, bindingVars, status, retained>>

Guest == \/ GuestConfigures \/ PutWithInvite \/ AwaitResponse \/ ReadInputFields
         \/ SaveScreen \/ WriteFails
         \/ \E o \in Operations : CancelPending(o)

-----------------------------------------------------------------------------
(* A pass of the delivery chain, on the guest thread: the status half of a *)
(* parked response, then one retained operation, then the latches.  A pass *)
(* that has woken the guest ends there and leaves the rest to the next.    *)

chainHost == <<hostVars, machineVars>>

StatusDue == attention /\ known /\ configured /\ StatusAvailable(parked)

DeliverInputStatus ==
    /\ GuestRuns /\ StatusDue
    /\ parked' = TakeInputStatus(parked)
    /\ status' = TRUE
    /\ chain' = "latch"
    /\ UNCHANGED <<chainHost, latchVars, bindingVars, ops, retained>>

NoInputStatus ==
    /\ GuestRuns /\ ~StatusDue
    /\ chain' = "complete"
    /\ UNCHANGED <<chainHost, backendVars, bindingVars, deviceVars>>

(* The response a Read Input Fields gets: the retained one comes first.    *)
Responses == retained \o [i \in DOMAIN parked.inbound |-> parked.inbound[i].whole]

(* Whether the controller can complete operation o, in the order it tries. *)
Completable(o) ==
    /\ o \in ops
    /\ CASE o = "save"   -> parked.saves > 0
         [] o = "c1"     -> status
         [] o = "invite" -> status /\ parked.inbound # <<>>
         [] o = "read"   -> status /\ Responses # <<>>

CompletesAfter == [save |-> {}, c1 |-> {"save"}, invite |-> {"save", "c1"},
                   read |-> {"save", "c1", "invite"}]

FailsAfter == [invite |-> {}, read |-> {"invite"}, c1 |-> {"invite", "read"},
               save |-> {"invite", "read", "c1"}]

(* A read whose response is too short to be one stays outstanding.         *)
TooShort(o) == o = "read" /\ ~Head(Responses)

(* After the status half the pass ends whatever is completed; otherwise it *)
(* ends if the owner of what was completed is in an event wait.            *)
AfterCompletion(o) == CASE chain = "latch" -> {"rest"}
                        [] TooShort(o)     -> {"attend"}
                        [] OTHER           -> {"rest", "attend"}

CompleteOperation(o) ==
    /\ chain \in {"latch", "complete"}
    /\ Completable(o) /\ ~\E p \in CompletesAfter[o] : Completable(p)
    /\ attention' = (attention /\ chain = "complete")
    /\ chain' \in AfterCompletion(o)
    /\ ops' = IF TooShort(o) THEN ops ELSE ops \ {o}
    /\ status' = (status /\ (o \in {"save", "invite"} \/ TooShort(o)))
    /\ retained' = CASE o = "invite" -> <<Head(parked.inbound).whole>>
                     [] o = "read"   -> <<>>
                     [] OTHER        -> retained
    /\ parked' = CASE o = "save" -> TakeSaveScreen(parked)
                   [] o = "invite" \/ (o = "read" /\ retained = <<>>) -> Receive(parked)
                   [] OTHER -> parked
    /\ UNCHANGED <<chainHost, powerOff, bindingVars>>

CompleteNothing ==
    /\ chain \in {"latch", "complete"}
    /\ ~\E o \in Operations : Completable(o)
    /\ attention' = (attention /\ chain = "complete")
    /\ chain' = IF chain = "latch" THEN "rest" ELSE "attend"
    /\ UNCHANGED <<chainHost, parked, powerOff, bindingVars, deviceVars>>

(* powerOffStation.  It fails one operation after another and stops at the *)
(* first whose owner is not in an event wait.                              *)
PowerOff ==
    /\ chain = "attend" /\ powerOff
    /\ powerOff' = FALSE
    /\ \E failed \in SUBSET ops :
         /\ ops # {} => failed # {}
         /\ \A o \in failed : FailsAfter[o] \cap ops \subseteq failed
         /\ ops' = ops \ failed
         /\ status' = (status /\ failed = {})
    /\ parked' = NothingParked
    /\ retained' = <<>>
    /\ detached' = TRUE /\ transferred' = FALSE /\ user' = Nobody /\ unheard' = FALSE
    /\ chain' = "present"
    /\ UNCHANGED <<chainHost, attention, configured, known>>

Presenting == chain = "present" \/ (chain = "attend" /\ ~powerOff)

ControlDue == Ready /\ parked.control /\ (known \/ configured)

BindDue == Ready /\ attention /\ configured

(* Attention or System Request goes to the guest.                          *)
DeliverControl ==
    /\ Presenting /\ ControlDue
    /\ parked' = TakeUnsolicitedRequest(parked)
    /\ attention' = FALSE
    /\ chain' = "rest"
    /\ UNCHANGED <<chainHost, powerOff, bindingVars, deviceVars>>

(* The display is transferred at the idle wait only.                       *)
Defer ==
    /\ Presenting /\ ~ControlDue /\ BindDue /\ ~transferred
    /\ chain' = "rest"
    /\ UNCHANGED <<chainHost, backendVars, bindingVars, deviceVars>>

Bind ==
    /\ Presenting /\ ~ControlDue /\ BindDue
    /\ transferred' = TRUE
    /\ IF transferred
       THEN UNCHANGED <<detached, user, unheard>>
       ELSE /\ detached' = FALSE /\ unheard' = FALSE
            /\ user' = (IF Attached THEN session ELSE Nobody)
    /\ known' = TRUE
    /\ attention' = FALSE
    /\ chain' = "rest"
    /\ UNCHANGED <<chainHost, parked, powerOff, configured, deviceVars>>

(* An attention of a display that is not there is dropped once the guest   *)
(* has named the station, and kept before.                                 *)
IgnoreAttention ==
    /\ Presenting /\ ~ControlDue /\ ~BindDue
    /\ attention' = (attention /\ ~known)
    /\ chain' = "rest"
    /\ UNCHANGED <<chainHost, parked, powerOff, bindingVars, deviceVars>>

Chain == \/ DeliverInputStatus \/ NoInputStatus
         \/ \E o \in Operations : CompleteOperation(o)
         \/ CompleteNothing
         \/ PowerOff \/ DeliverControl \/ Defer \/ Bind \/ IgnoreAttention

-----------------------------------------------------------------------------
Init ==
    /\ open = {} /\ agreed = FALSE /\ signalled = {} /\ closing = {}
    /\ reader = [c \in Clients |-> "idle"]
    /\ session = Nobody
    /\ parked = NothingParked
    /\ attention = FALSE /\ powerOff = FALSE
    /\ machine = "off" /\ seen = FALSE
    /\ chain = "rest"
    /\ configured = FALSE /\ known = FALSE /\ transferred = FALSE /\ detached = FALSE
    /\ user = Nobody /\ unheard = FALSE
    /\ ops = {} /\ status = FALSE /\ retained = <<>>

Client(c) == \/ Accept(c) \/ Agree(c) \/ Renegotiate(c) \/ KindMismatch(c)
             \/ HangUp(c) \/ AnswerFails(c)
             \/ \E kind \in RecordKinds : Receives(c, kind)

Next == \/ \E c \in Clients : Client(c) \/ Reader(c)
        \/ Construct \/ ResetAttention \/ Release \/ Ipl
        \/ Guest \/ Chain

Spec == Init /\ [][Next]_vars

(* The sessions' threads are scheduled, and the guest thread comes back to *)
(* the delivery chain.                                                     *)
FairSpec == Spec /\ WF_vars(Chain) /\ \A c \in Clients : WF_vars(Reader(c))

-----------------------------------------------------------------------------
(* Properties.                                                             *)

ReaderStages == {"idle", "negotiate", "signal", "reading", "raise"}

RetainedResponses == {<<>>, <<TRUE>>, <<FALSE>>}

(* The values of the variables; a backend parks at most InboundLimit       *)
(* responses and SaveLimit screens, and a display retains at most one.     *)
TypeOK ==
    /\ {open, signalled, closing} \subseteq SUBSET Clients /\ agreed \in BOOLEAN
    /\ reader \in [Clients -> RecordKinds \cup ReaderStages]
    /\ session \in Clients \cup {Nobody}
    /\ parked \in ParkedRecords
    /\ attention \in BOOLEAN /\ powerOff \in BOOLEAN
    /\ machine \in {"off", "reset", "up"} /\ seen \in BOOLEAN
    /\ chain \in {"rest", "latch", "complete", "attend", "present"}
    /\ configured \in BOOLEAN /\ known \in BOOLEAN
    /\ transferred \in BOOLEAN /\ detached \in BOOLEAN
    /\ user \in Clients \cup {Nobody} /\ unheard \in BOOLEAN
    /\ ops \in SUBSET Operations
    /\ status \in BOOLEAN
    /\ retained \in RetainedResponses

(* headStatusTaken_ stands for the status of the response that is first    *)
(* now: it is set if and only if that very response has reported its       *)
(* status, and none behind it has.  Whatever removes a response between    *)
(* its two halves (a read, an invite, the newer one that displaces it, a   *)
(* power-off, a new machine) takes the mark along, so that no response is  *)
(* silenced by the one before it and none reports twice.                   *)
StatusIsItsOwn == MarkIsItsOwn(parked)

(* The client at whose display the guest's session was started cannot go   *)
(* without the guest thread hearing of it: its close handler is still to   *)
(* run or has left the power-off latch up, across every exchange of the    *)
(* installed session and every new machine.  The one hang-up nobody hears  *)
(* of is that of a client that went between ready(), on which a display is *)
(* transferred, and readySignalled_, on which the close handler reports.   *)
HangUpReported ==
    user \in Clients \ open => user \in closing \/ powerOff \/ unheard

(* src/src/Monitor/MonitorCliLive.cpp:453-454: "a client that hung up      *)
(* switched its terminal off.  Whatever the guest still had outstanding    *)
(* against that terminal fails now".                                       *)
EveryHangUpHeard == ~unheard

(* The guest's commands to a transferred display are carried out; only     *)
(* after a power-off, until the next bind, are they rejected.              *)
TransferredNotDetached == transferred => ~detached

(* The session of a client that hung up ends: its display is powered off   *)
(* although screens and keys of the client are still parked and owed to    *)
(* the guest, unless records keep coming in or the client went before it   *)
(* had signalled that it was there.                                        *)
HangUpNoticed ==
    \A c \in Clients :
        \/ []<>(\E d \in Clients : reader[d] \in RecordKinds)
        \/ (user = c /\ c \notin open) ~> (user # c \/ unheard)

(* Nothing is under way: no latch is up, no handler or delivery is due.    *)
Quiet == /\ machine = "up" /\ chain = "rest"
         /\ closing = {} /\ ~powerOff /\ ~attention
         /\ \A c \in Clients : reader[c] \notin RecordKinds \cup {"signal", "raise"}

(* src/src/Monitor/MonitorCliLive.cpp:455-459: "a client arriving          *)
(* afterwards [...] is a fresh power-on and gets its own action-0 bind and *)
(* sign-on rather than inheriting a session whose display no longer        *)
(* exists".                                                                *)
NoInheritedSession == Quiet /\ Attached /\ Ready /\ transferred => user = session

(* MonitorCliLive.cpp:499-501: "The attention latch is deliberately not    *)
(* consumed until the bind has completed": the delivery chain takes the    *)
(* latch of a present client of a configured station only when the display *)
(* is transferred, or the client never gets its sign-on.                   *)
PresentEdgeKept ==
    [][attention /\ ~attention' /\ machine = "up" /\ configured /\ Attached /\ Ready
          => transferred']_vars
=============================================================================
