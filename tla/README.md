# TLA+ models of SIM/36

SIM/36 runs System/36 SSP on an emulated Advanced/36: one C++ process with a
monitor (the operator's command line), a guest thread that executes the guest
program, and socket threads that carry TN5250 displays and printers. This
directory holds TLA+ modules of its core logic, the TLC runs that check them,
and proofs of the theorems that matter most. Paths below are relative to
`src/src` unless they start with `src/`.

    tlc -config LiveMonitor_safety.cfg MCLiveMonitor.tla    # a model-checking run
    tlapm LiveMonitorProofs.tla                             # a proof

Every configuration names its module: `X_safety.cfg` and `X_live.cfg` are for `MCX.tla`.

Contents: [1 Inventory](#1-inventory), [2 Modules](#2-modules),
[3 Runs](#3-runs-bounds-and-what-they-show), [4 Fairness](#4-fairness),
[5 Proofs](#5-proofs), [6 Disagreements](#6-where-the-code-and-its-text-disagree),
[7 Plan](#7-plan), [8 Not modelled](#8-not-modelled).

## 1. Inventory

### Threads and who may touch what

| Thread | Runs | Touches |
|---|---|---|
| monitor | `MonitorCli`, the session's commands | the machine, only while no guest thread runs; otherwise it queues commands |
| guest | `liveBody` -> `driveMachine` | guest storage, processors, devices |
| accept (one per port) | `StationBackend::acceptLoop` | its backend, under the backend's lock |
| session (one per client) | `Telnet5250Session::readLoop` | its backend's queues and latches; the doorbell |
| multiplexer accept and conversations | `StationMultiplexer` | hand-over of a socket to a backend |

The rule of `MonitorCliLive.cpp:10-30` is that exactly one thread touches guest
storage. Everything a socket thread wants reaches the guest as a latch plus a
ring of `Machine::signalNativeEvent`.

### Components

| Component | State | Operations | Interacts with | Correct when |
|---|---|---|---|---|
| Live execution controller (`Monitor/MonitorCliLive.cpp`) | queue of marshalled commands, thread handle, idle and stop flags | marshal, `start`, `stop`, `ipl`, `step`, `wait idle`, the driver loop, the delivery chain | everything | one owner of the machine, commands answered, no lost wakeup, no unjoined thread |
| Machine doorbell, reset (`Machine/Machine.cpp`) | event flag; processors and devices | signal, wait, reset | controller, station backends | a ring is never lost |
| Session and dispatch (`Monitor/SimulatorSession.cpp`, `CommandRegistry.cpp`) | the machine, backends of all stations, configuration | `construct`, `ipl`, `release`, attach, serve | all of the above | backends outlive machines, no dangling binding |
| Station backends (`Host/StationBackend.cpp`) | attached session, parked input, unsolicited and save-screen queues, attention and power-off latches | accept, adopt, send, receive, release, rebind, reset | sessions, virtual devices, delivery chain | a client's input reaches the station it was typed on, once, or is given up with the client |
| Multiplexer (`Host/StationMultiplexer.cpp`) | conversations, which station is whose | choose, hand over, reclaim, rebind | backends | one client per station, no client lost |
| Telnet session (`Host/Telnet5250Session.cpp`) | negotiation state, handlers, socket | start, deliver, write, close, retarget | backend or conversation | handlers never run for an owner that let go |
| Virtual work station (`Devices/VirtualWorkstation.cpp`) | power, outstanding operation, invite, save-screen flag | output, invite, cancel, take input, save, restore | backend, work-station controller | an answer belongs to the request it answers |
| Device set and controllers (`Devices/*.cpp`) | retained operations by IOB | start, complete, cancel, reset | control storage processor | a retained request is completed once |
| Printer jobs (`Host/StationBackend.cpp`, `PrinterPdf.cpp`) | job file, spool directory, lock file | begin, append, end, number | other processes using the directory | no job file overwrites another |
| System queue space (`Processors/ControlStorage/GuestHeap.cpp`) | free lists, size classes, ownership journal | assign, free, extend, checkpoint, reset | all of the control storage processor | storage has one owner; nothing is lost |
| Action control elements (`ActionControlElementQueue.cpp`) | allocation ids, retained event control masks | allocate, release, post, checkpoint | system queue space, dispatcher, the guest | a live element is nobody else's |
| Dispatcher (`As36Dispatch.cpp`) | ready chain, waits, complete queues | dispatch, wait, post | everything in control storage | no event lost, no runnable task forgotten |
| Transfer, task creation, storage, timers (`As36Transfer.cpp`, `As36TaskCreate.cpp`, `As36Storage.cpp`, ...) | program blocks, tasks, pages, timer queue | load, attach, terminate, page, time | dispatcher, system queue space | use counts and queues agree |
| Work-station events (`As36WorkStation.cpp`) | retained requests, transfers, deferred AIDs | complete, fail, transfer | device set, elements | a completion goes to the request that waits |
| Main storage processor (`MainStorageProcessor.cpp`, `InstructionSet.cpp`) | registers, storage, stop latch | step, start, stop | controller, control storage | instruction semantics |
| BASIC and FORTRAN assists | guest data | interpret | main storage | numeric semantics |
| Tape (`VirtualTape.cpp`, `Storage/*Tape*`) | position, files, marks | read, write, space, rewind | I/O blocks | position and medium agree |
| Diskette and disk (`VirtualDiskette.cpp`, `VirtualFixedDisk.cpp`, `DiskBackend.cpp`) | medium | read, write | I/O blocks | a sector read is the last written |
| Checkpoint and snapshot (`As36Checkpoint.cpp`, `MachineSnapshot.cpp`) | an archive of all state | save, load | every component | a load gives back what was saved |
| Scheduler, registers (`Machine/Scheduler.cpp`) | levels, register sets | select | processors | the highest level runs |
| Console, VTOC, library, configuration, renderers, PDF | buffers, parsers | print, parse | monitor | - |

### What is hard here

Marshalled commands against a guest that stops by itself; parking against
ringing; joins against locks; a client that disconnects between a status and the
attention it belongs to; adoption of a socket by a listener and a multiplexer at
once; an allocator shared with a guest program that frees parts of what it was
given; host records of objects the guest may free on its own; snapshots that
keep only part of the state and rebuild the rest; use counts of control blocks
that tasks, maps and inherited programs share; registers that belong to a task
which an interrupt, a wait or a preemption has set aside; a tape that is cached
in memory until it is unloaded. `PROJECT.json` lists these as hazards, each at
its line; those without a property say why.

## 2. Modules

| Module | Models | Composed with |
|---|---|---|
| `LiveMonitor` | the execution controller: monitor thread, guest thread, station threads | - |
| `StationBackend` | what a display's backend parks, as operators on a record | - |
| `StationInput` | one display: accept loop, readers, latches, delivery chain, retained operations, transfer, operator | extends `StationBackend` |
| `StationMultiplexer` | one listener for all displays: conversations, hand-over, reclaim, rebind, IPL | - |
| `GuestHeap` | the buddy allocator as pure operators on a heap record | - |
| `SystemQueueSpace` | the allocator under its clients: SVC 06, SVC 07, snapshot, reset | extends `GuestHeap`; refines `AreaPool` |
| `AreaPool` | what any allocator of areas promises | abstract specification |
| `ActionControlElements` | host records of elements the guest may free | extends `SystemQueueSpace` |
| `ResourceQueues` | allocation queue elements: who owns a resource, who waits | - |
| `TaskDispatcher` | dispatch, wait, post, priorities, host events | - |
| `ModuleStorage` | the arena of pages and the load of a module | - |
| `ProgramStorage` | program blocks, request blocks, maps, regions, work spaces and their counts | extends `ModuleStorage` |
| `TaskWorkArea` | disk sectors of work areas and swap areas, as operators | - |
| `TapeMedium` | blocks, marks and a head, the same for both backends | - |
| `TapeDrive` | drive, backends, guest commands, operator's commands, flush | extends `TapeMedium`; refines `SavedDataSets` |
| `SavedDataSets` | what a tape promises: data sets saved are data sets restored | abstract specification |
| `DisketteMedium`, `FixedDisk` | addressing and transfers of the media, as operators | - |
| `MachineSnapshot` | save and load of a machine: media, locks, outstanding work, stations | extends both media |
| `MspInstructions` | the instruction set of the main storage processor, as operators | - |
| `BasicNumber`, `BasicAssist` | the BASIC interpreter and its numbers, as operators | - |
| `...Proofs` | theorems about the module they are named after | extends it |
| `SystemQueueProofs` | theorems about the allocator, the elements in its pool, and the abstract pool | extends `ActionControlElements`, instantiates `AreaPool` |
| `MC...` | TLC instances | |

`MCTaskDispatcher` also extends `MspInstructions` and `BasicAssist`, and
`MCProgramStorage` extends `TaskWorkArea`: tasks run those instructions and own
those work areas. Their properties say what an operator computes for every input
within bounds, so one state settles them.

An operator `<Definition>_<Fault>` is its definition with a plausible bug. It is
no part of any specification; it shows which property notices that bug.

### LiveMonitor

`pc[t]` is the statement that thread `t` executes next, with labels named after
the code: `enqueue`, `ring`, `await` are `runOnGuestThread`; `step`,
`preempt...`, `outer`, `idle...`, `park`, `wait`, `woken` are `driveMachine`;
`flip`, `drain...`, `tail` are the end of `liveBody`. One step is one access to
shared state: an atomic load or store, a critical section of `liveLock_`, or a
call on the machine. `lockHeld` is only true where the code blocks with
`liveLock_` held, that is in `startExecution`'s join.

`stopped`, `stopReason`, `idleEventWait`, `powerOff`, `deferredAid`, `timer` are
the processor latches the loop reads. The guest program is abstracted to the ways
an instruction can end (`StepRuns` ... `StepThrows`); commands are abstracted to
`inspect` (any command executed on the machine), `send` (a key), `step` (drives
the machine), and the host verbs. `latch` is the attention latch of each station;
`unseen` and `ringing` are history: latched and not inspected since, and between
the latch and the ring.

### GuestHeap, SystemQueueSpace, AreaPool

Offsets and lengths are in units of 16 bytes, the granularity: every rule of the
code rounds up to it first. A heap record has the three representations the code
keeps in step: `free` (`free_`), `filed` (`class_`) and `journal` (`allocated_`).
The while loops of `enqueue` are recursive functions of the length or the class
reached: `Absorbed` is the length after the blocks above have been taken in, `Base`
where the block of each class starts while buddies merge, `Merged` the block the
merging ends with, `Decomposition` the blocks a run is carved into. `Enqueue` composes
them in the code's order and takes the blocks `Within` the grown run off the lists. `Allocate` tries
the lists, extends the pool once on a miss and tries again. `Free` keeps the five
refusals and the code's tolerance of a range that is no live extent, which is
reported and freed all the same. `RestoreCheckpoint` rebuilds the journal as the
code does: one opaque extent for each gap between free elements, less the unit
every extension keeps for itself.

`SystemQueueSpace` lets clients free any prefix or suffix of what they hold.
(SVC 07's plain arm frees only the length the guest names, so the rest of a
class-rounded carve stays assigned: the native machine does the same.)

`AreaPool` is the abstract pool: assign an area nobody has a unit of, free any
part, forget on a load how the assigned storage was divided. `ImplementsAreaPool`
maps `areas` to the journal without its ids.

### ActionControlElements

`allocated` and `ecms` are the host's records. `elements` says where each live
element is: at a device, on a complete queue, or dequeued by the guest. `areas` is
what the guest assigned for itself, with `Allocate` of the same pool. The guest
frees an element with the same `Free` as any area, once it has dequeued it or before:
`dangling` holds the addresses of elements freed while they were queued. The wait call
that comes to such an address (`Consume`) finds a record whose allocation is gone, or
whose storage has another owner by now, and drops it. `Cancel` stands for task
termination, which drops a request still at the device; `SaveAndLoadAces` restores
the heap first and looks the ids up in it, as `As36Checkpoint.cpp:200-240` does. What
a queue holds behind an element that was freed in it is the guest's storage and not
followed: its entry ends when a new element is built over it, and at a load.

### StationBackend, StationInput

One display with a listener of its own. `reader[c]` is what client `c`'s reader
thread does next, so the two halves of `enqueue` (park under the lock, then raise
the latch) are two steps, and a reader may still deliver what it had read when its
session was closed. `open` is "not `closed_`"; `closing` holds the clients whose reader has
closed the session and has still to run the close handler: between the two, the
accept loop may install the next client. Being ready has two steps. `agreed` is
`ready()` of the installed session, the state of the negotiation
(`Telnet5250Session.cpp:186-191`): it holds before the session has signalled it,
whether or not the session is still open (`Ready` does not ask for `open`, as
`StationBackend::ready` does not), and it can be taken back (`Renegotiate`).
`signalled` is `readySignalled_`, which `SignalReady` sets in a step of its own
before the attention is raised, and which alone the close handler asks (`Gone`).
The guest can write to, and be transferred to, a client between the two; such a
client can go before it has signalled, by a lost connection, a failed answer of
its own reader (`AnswerFails`), a failed write of the guest or a printer's terminal
type. `unheard` is history: that this became of `user`.

`chain` is the guest thread's place in a pass of the delivery chain: `latch` is
between the status half and the latch it takes for it, `complete` before
`completePendingWorkStationInput`, `attend` before `takePowerOffPending`,
`present` after it. Each step is a stretch that shares at most one latch or one
critical section with the socket threads, with one exception: `Bind` reads the
latch, transfers and takes the latch in one step, so a raise between its first
read and its take is seen as one before both.

`ops` is the set of operations the controller retains, one of each kind: `invite`
(A7), `c1` (its response wait), `read` (Read Input Fields) and `save` (Save
Screen). `status` is the `inputResponseStatus_` of the unit, `retained` the
display's retained input. Whether the owner of a completed operation is in an event
wait is a free choice (`AfterCompletion`), and so is how many operations
`powerOffStation` fails before one is not posted. A response is only known by
whether it is long enough to have a cursor and an AID (`whole`); whether its own
status was ever delivered (`reported`) is history, which `StatusIsItsOwn` compares
with the backend's `headStatusTaken_`. `user` is history: the client at whose
display the station was transferred.

The guest writes, reads and forgets operations in any order, which is more than
SSP does. Stations served by the multiplexer, the system console, `wsInteractive`
and the auto-sign-on statement are left out.

### StationMultiplexer

Several displays behind one listener. `reader[c]` is where client `c`'s thread is:
in its conversation, at the hand-over, or reading for a station. `choice` is the
station it asked for, `target` the owner its handlers call, `bound` which backend
the machine's unit has, `session` the client a backend has, `attention` its latch,
`noticed` whether the machine has looked since a client arrived, `machine` the
machine (or none), `monitor` the monitor's place in `constructMachine`,
`releaseMachine` and `reboot`. Nothing is held from `isFree` to the binding, so two
conversations may find one station free, and `constructMachine` may rebind during a
hand-over; both happen. Two histories name whom: `rivals`, the clients that found
their station free while another was being handed over to it, and `missed`, those
that parked while a machine was constructed or that `rebind` found no place for.
The properties are about everybody else, and say that nobody else is touched.

### ResourceQueues

`queue[r]` is the allocation queue of a resource: elements of tasks and of jobs,
each with the levels it requested and holds, whether it is owned, and the elements
nested under it. `waiting` is bit 10 of `TB_STAT2`, `rebuild` the job and resource whose nested
element was dequeued last. A supervisor call is one step, as it is in the code (the guest thread
runs it to its end); the order in which tasks call is arbitrary. `Combine` loses
the extended bit, as the code does.

### TaskDispatcher

`cond` is `TB_STAT2`, `deferred` byte 6, `mask` and `want` what a task waits for,
`events` the completed elements by key, `priority` and `floor` bytes 7 and 20,
`ready` queue 40, `redispatch`, `enabled`, `stopped` and `idle` the processor's.
`live` says whose context the registers hold and whether all of it, `saved` which
request blocks hold all of it: a task may only be left when its context is in one
of the two, and only run from a full one. Host events (`attention`, `completion`,
`status`, `condition`) come at idle or while a task runs; `AtIdle` and
`WhileRunning` say which, and `Unawaited` whether they may be for a task that does
not wait for them.

### TapeMedium, TapeDrive, SavedDataSets

A medium is a sequence of blocks and marks with a head. Both backends walk it
the same way, so `TapeMedium` is shared; what differs is when the host's files
change (`flush` of a folder, at once for a SIMH file). `drive` is the unit, `folder`
and `tap` the two kinds of host file, `guest` the procedure in progress and what it
has moved. A
guest's save writes labels, data, and trailers; it may be broken off. The operator's
`tape load`, `unload`, `rewind`, `space`, `mark`, `init` and listings come at any time,
under a procedure in progress too, as nothing in `MonitorCli::tape` asks for one
(`OperatorMove`, `OperatorMark`); `guest.disturbed` and `marred` remember that a tape
was moved or exchanged under a procedure, and which tapes were written after it.

`SavedDataSets` knows a tape only as the list of data sets saved on it: a save appends
when it completes, a restore gives back exactly what was saved, an unload persists as a
whole, and only a tape in `Fragile` (a folder) may be lost, by an interrupted
unload or by a write over its volume label. A procedure the operator disturbs is
promised less: its restore may give anything, its save may cost the data sets from one
on to the end of the tape in the drive (`Spoil`), but no other tape, nothing the host
has, none of the data sets ahead, and no later procedure. `KeepsDataSets` is the
refinement. `OperatorWaits` says that the operator does not initialise the tape in the
drive, does not mount it again while it has pending writes, and starts no machine over
a drive in use.

### ModuleStorage, ProgramStorage, TaskWorkArea

A cell is the address of a control block. `block` is what is there: kind, owner,
use count, pages, load member. `stack[t]` are the request blocks of task `t`, each
with the program it runs, its map entries, its inherited programs and its
translation image; `held` the blocks whose address SVC 31 gave to the guest;
`transient` the host's `currentTransientProgramBlock_`; `arena` the next page and
the returned ones. Logical pages are abstracted to windows: one object occupies one
window. A region has one page in storage and one in its swap area. SVC 2C and SVC 12
grow the extent over the second (`Grow`): it may move, and every image that names the
page that moves follows by its frame number (`Rebased`). SVC 2C can also just raise the
page count (`AssignArea`), which publishes the page after the extent without seeing to
its storage; after that, and when an image in use still had the second page elsewhere
as the extent took it over, the region is `astray`, and of this one page
`PagesInOnePlace` says nothing. Two constants let in what the code does not exclude:
`Misplaced` and `AreaContended` (section 6).

`TaskWorkArea` has the sector arithmetic of a task's disk space: SVC 33 takes the
best fit from the end of a free run, SVC 34 gives back and joins, SVC 51 addresses
within; the swap allocator takes the first fit from a list sorted and merged.
`Rounds` bounds the breadth-first exploration of everything a guest can have
allocated and given back.

### MachineSnapshot, DisketteMedium, FixedDisk

`disk` and `diskettes` are what the operator's images hold, `media` the directory
of media the session has unpacked from a checkpoint, `lock` who holds the lock file
of the volume, `definition` the configuration, `machine` the constructed machine:
its attachments, what the guest knows it wrote (`knows`), and for each operation
whether an I/O block waits for it, has its element, and is retained by its device.
`station` is a display's backend, `saving` and `snapshot` a save between its two
steps and its result. A value stands for a whole medium, and `written` names the
one medium the guest of a behaviour writes on. `Modes` are the attachments of the
volume; `Operations` the guest's operations and `Captured` those a save keeps. What a
save leaves out without being refused is remembered as history (`missed` of the machine,
`missedSaved` of the checkpoint): the writes of an overlay, an exchange of diskettes or a
hang-up the guest had still to be told of. `missed` also says that another emulator wrote
on the diskette in the drive, which no lock prevents. The two properties it occurs in
excuse exactly these cases, until the guest writes again or powers the display off.

### MspInstructions, BasicNumber, BasicAssist

The machine record of `MspInstructions` has storage, registers, `pact`, `psr`,
the privileged and dispatching bits, and what an instruction leaves besides
(`check`, `jumped`, `end`). `BasicAssist` interprets a program over a record of
storage cells and the control record `cb`; `ip`, `sp`, `control` and `operand` are
the interpreter's own, and an exit commits them as the code does. Decimal numbers
have `SignificantDigits` digits (2 for 6 or 14), strings `LongestString` characters
(2 for 255): the rounding and the capacity rules do not depend on how many.

## 3. Runs, bounds and what they show

| Run | States | Bounds | Shows |
|---|---|---|---|
| `live_safety` | 1,086,049 | all eight commands, one station and the console | `OneDriver` (one owner of the machine, one guest thread), `NoLostWakeup`, `IdleReportFresh` |
| `live_liveness` | 172,434 | the verbs `step` and `stop` | `CommandAnswered`, `StopTerminates`, `AttentionInspected` |
| `sqs` | 37,136 | a pool of 13 units, requests of 1, 3 and 5 | `PoolIntact` (a partition, filed by length, accounts), `FreeAccepted`, `RestoreKeepsStorage`, `ImplementsAreaPool` |
| `ace` | 169,268 | 4 allocations between two loads | `ElementsSafe`, `HostStateIsOwn`, `NothingLeaks` across guest frees and loads |
| `station_safety` | 2,319,911 | two clients, one park slot, one screen; input and short answers; A7, its wait, reads | `StatusIsItsOwn`, `HangUpReported` |
| `station_liveness` | 515,478 | two clients; screens and keys; Save Screen | `HangUpNoticed` |
| `multiplexer` | 2,552,185 | three clients, two stations, one of them the console | `PlacementsAgree`, `ArrivalIsNoticed`, `PlacementSurvives` |
| `resources` | 37,846 | three tasks, one of which runs a job; one resource, nesting of two | `GrantsAreRight`, `WaitersAreSafe` |
| `dispatcher` | 260,792 | the command task and two others, one key, one element | `RunsWhoCan`, `RunsOwnContext`, `QueueIsRight`, `NoEventLost`, `ReadiedPreempts`; `InstructionsAreRight`, `BasicIsRight` |
| `tape` | 65,172 | a folder and a SIMH tape, two data sets, one save broken off or one procedure disturbed or one operator's tape mark | `CleanTapeIsSafe`, `KeepsDataSets` |
| `programs` | 275,523 | two tasks, two cells, four modules, two request blocks, one map entry, three pages | `ReferencesAreRight`, `PagesInOnePlace`, `StorageApart`, `TransientHeld`; `WorkAreasAreRight` |
| `snapshot` | 4,091,319 | two diskettes, a volume attached for writing or with an overlay, two kinds of operation, one of them captured | `GuestSeesItsWrites`, `NoOrphanWait`, `PresentIsAttached`, `NothingLost`; `MediaTransfers` |

Each run covers every action of its module, and every property has a fault
operator of a mapped definition that breaks it.

`LiveMonitor` has no counters: a monitor thread has at most one command queued (the
`Queue` conjunct of the proof), so one station, the console and all verbs are the
whole space.

The pool of `sqs` is 13 units: a header, an initial segment of 4 units and one
extension, three size classes and requests of 1, 3 and 5 units, where 3 is carved
out of a larger block and 5 is above every class. Extension, merging up to the
largest class, odd absorption, decomposition, and refusal all happen; the length
of a behaviour is not bounded (nobody compares allocation ids there, so
`TrackIds` keeps them at 0). `ace` compares them, so `MaxIds` bounds the
allocations between two loads to four: enough for an address to be reused twice
while its first owner is still on record, and on a queue.

Two clients are enough for `StationInput`: at most one session is installed, and
the second stands for whoever comes next while the first is still closing; an
identifier is used again once nothing refers to it, so there is no bound on how
many come and go. `InboundLimit` is the code's 1; `SaveLimit` is 1 instead of 8,
the guest's one Save Screen being outstanding at a time. The two runs divide the
kinds of record and operation between them to keep each within minutes;
`RecordKinds` and `Operations` say which. Three clients and two stations let the
multiplexer have a client to displace, one to replace it and one elsewhere, two
that race and one that must not lose by it.

`dispatcher`: with three tasks there is one to run, one to preempt and one to be
preempted; the third has a bias, and the command task its fixed priority.
`resources`: a task has an element of its own and one of its job, which nests, and
two others contend with both; `Plainly` are levels 1 and 2, not extended.
`programs`: two tasks and four modules (ordinary, two transients, one not shared)
are enough for a block to be shared, displaced, overlaid and deleted while
another task refers to it. Larger instances of `resources`, with three levels (174,720
states), and of `dispatcher`, with two keys (54,740), were run by hand.
`snapshot`: a behaviour's guest writes on one medium and, where that is the volume,
issues operations or has a client (`Workloads`), because nothing in the code or in the
properties relates the three. `tape`: a head may be in the middle of either data set, a tape has
room for the IPL data set and a save behind it (`MaxItems`), and either cartridge may
be the write-protected one; one disturbance (`MaxBroken`) meets every step of every
procedure, with the head at every place the operator can move it to from there.

The properties of the operators (`InstructionsAreRight`, `BasicIsRight`,
`WorkAreasAreRight`, `MediaTransfers`) quantify over boundary values: fields of one
to three bytes with every digit that carries, borrows or overflows; every pair of
operands of small BASIC numbers; bursts of 1, 2, 3, 5 and 100 instructions; 2,814
free chains and 256 swap lists; every image geometry the probe of
`DisketteBackend.cpp` distinguishes, and volumes of two sectors with two keys each.
They are stated under a condition a reachable state meets.

`CHECK_DEADLOCK FALSE` is where the system may stop: a session quits, or `start`
deadlocks (`LiveMonitor`, section 6); every task has ended (`ResourceQueues`); the
processor stops idle (`TaskDispatcher`); the simulator is left (`MachineSnapshot`).

## 4. Fairness

In `LiveMonitor`, each thread that can run does
(weak fairness of `Driver(t)`, `LiveBody`, `MonitorSteps`, `SignalMachine(s)`,
elapsing time): the operating system schedules threads. `LeaveStep` says that the
guest program reaches a preemption point or stops: every branch-on-condition,
jump and supervisor call is one (`MainStorageProcessor.cpp:435-488`), and a
program without any would be straight-line code. Strong fairness of `StepEnds`
says that a drive of N instructions counts down although it is left for
preemption points on the way. No fairness is assumed of the operator, of clients,
or of a particular outcome of an instruction.

In `StationInput`, the readers and close handlers are scheduled (`WF` of
`Reader(c)`) and the guest thread, while the machine is up, comes back to the
delivery chain and gets through it (`WF` of `Chain`): every preemption point and
every idle wait enters it. No fairness is assumed of clients, of the operator or
of the guest's requests. `HangUpNoticed` excuses behaviours in which records keep
coming in: the chain serves input before it looks at a hang-up, and a pass that
woke the guest ends there.

The other modules are checked for safety only and assume no fairness.

## 5. Proofs

51 theorems in eight modules. "Unconditional" below means: from the assumptions the
module states about its constants, for all their values.

| Module | Theorem | Says | Holds |
|---|---|---|---|
| `LiveMonitorProofs` | `OneDriverHolds`, `NoLostWakeupHolds`, `IdleReportFreshHolds` | the run's safety properties | unconditionally |
| `StationInputProofs` | `StatusIsItsOwnHolds`, `HangUpReportedHolds`, `TransferredNotDetachedHolds` | what a display's latches promise | unconditionally |
| `StationMultiplexerProofs` | `ArrivalIsNoticedHolds` | a client that arrives is noticed | unconditionally |
| | `PlacementSurvivesHolds` | nothing but the end of its session takes a client without a rival from its station | unconditionally |
| | `PlacementsAgreeHolds` | everyone is placed, nobody is hidden, but for `rivals` and `missed` | unconditionally |
| `SystemQueueProofs` | `PoolIntactHolds`, `FreeAcceptedHolds`, `RestoreKeepsStorageHolds` | lists, extents and account are one division of the storage; no client is refused; a load gives it all back | unconditionally |
| | `ImplementsAreaPoolHolds` | the allocator refines the abstract pool | unconditionally |
| | `NoOverlapHolds` | the abstract pool gives no unit twice | unconditionally |
| | `HeapInvHolds` | the inductive invariant of the allocator | unconditionally |
| | `HostStateIsOwnHolds` | records and masks are those of their own element | unconditionally, for any heap |
| | `ElementsSafeHolds`, `NothingLeaksHolds` | an element's storage is nobody else's; what is assigned is in use | unconditionally |
| `ResourceQueuesProofs` | `GrantsAreRightHolds` | owners can share, and who waits has to | `NotExtended` |
| | `WaitersAreSafeHolds` | no request is granted past one that bars it, no owner is robbed | `NotExtended` |
| `TaskDispatcherProofs` | `ReadyQueueRight`, `EventsFound` | the ready queue; no completed event is forgotten | unconditionally |
| | `RunsWhoCanRun`, `OwnContext`, `Preemption` | who runs, with which registers, and who preempts | `RightlyDelivered` |
| `ProgramStorageProofs` | `StorageApartHolds` | no page of storage has two owners | unconditionally |
| | `TransientHeldHolds` | a program that runs in the transient area finds its own code there | `~AreaContended` |
| | `ReferencesAreRightHolds` | use counts are what refers to a block; nothing is deleted in use, nothing is stranded | `~Misplaced`, `ByteSuffices` |
| | `PagesInOnePlaceHolds` | a translation file that may be used names the pages where the blocks are, but for the second page of a region astray | `~Misplaced`, `ByteSuffices` |
| `MachineSnapshotProofs` | `NothingLostHolds` | the media in use exist, wherever a save or load breaks off | unconditionally |
| | `NoOrphanWaitHolds` | nobody waits for an operation the save left out | only `screen` and `put` are left out |
| | `PresentIsAttachedHolds` | a display the guest takes for powered on has a client, or a power-off still to tell, unless a save left the hang-up out | unconditionally |
| | `GuestSeesItsWritesHolds` | the guest reads back what it wrote, unless another emulator wrote on its diskette or a save left it out | unconditionally |
| | `ProbeFindsImages`, `ImagesAreLinear`, `ImagesMoveWholeTransfers` | the records of an image are one line; the probe, the sequential addresses and the transfers (of up to three records) agree about it | every geometry the probe can find |
| | `EveryWriteIsExact`, `EverySearchFindsLeast` | a write changes its sectors only; a scan stops at the least key not below its argument | every volume; searches of ascending keys |
| | `MediaTransfersHolds` | all of these, for whatever the guest asks | `MediaAssumption` |

A hypothesis is never there to make a proof go through: each excludes a behaviour
of the code that TLC shows to violate the property (section 6), and the runs check
under the same hypothesis. The one exception is `ByteSuffices`, which relates the
model's bounds: so few request blocks and entries that a count stays below 255, where
the code goes on in an overflow halfword that is not modelled.

**LiveMonitor.** None of the five invariants is inductive.
`IndInv` adds:

- `Ownership`: `liveRunning_` is up exactly while the guest thread is in its loop,
  and the monitor only proceeds to touch the machine while it is down;
- `Handles`: a guest thread exists exactly while somebody holds its handle;
- `Queue`: there is at most one marshalled command, in exactly one place: queued,
  being run, or done and awaited;
- `Doorbell`: from the loop's last look at the queue and the stop flag to its
  wait, whatever appeared since comes with a ring that is up or about to be;
- `Idle`: `liveIdle_` is up only at the wait, and the console's key is raised on
  the guest thread itself, so it cannot be unseen there.

`NoLostWakeup` for stations follows because every source raised after the scan
began is still in `ringing` or has rung. Each lemma takes one group of actions
(driver, liveBody, monitor, others) through one conjunct.

**SystemQueueSpace.** From `GeometryAssumption` and `SizesAssumption` only: any number
of classes, any rounding, any header, any initial part and any number of segments. The
invariant is `HeapInv`: every block on the lists has the length of a class, lies in the
pool's storage (`Storage`, all but the header and the first unit of each extension) and
is filed under its class, no two overlap (`Lists`); extents lie apart (`Journal`); the
units of the extents are exactly the storage that is not free; `used` is their number.
`PoolIntact` alone says nothing of blocks being of classes inside storage in a form a
step can use, and the other two properties follow from `HeapInv` without a step.

Each loop is shown first to have a value (`Recursion`: whatever goes down to smaller
numbers defines a function), then what it is. `Enqueue` is the heart: a run that is
storage and not free (`Taken`) grows by whole free blocks only (`Grown`), upwards by
absorption and either way by buddies, so none of the blocks that stay sticks out of it
(`Clean`) and the free storage gains exactly the run (`EnqueueIs`), whatever comes of
it: one block, a merged one, or the chunks of `DecompositionIs`. That a buddy lies
beside its block (`BuddyIs`) is all the arithmetic of buddies that is needed: blocks
need not be aligned for any of this, and those of the initial part are not. From there
an assign takes storage that was free (`AssignedIs`), a free gives back a part of one
extent (`FreeIs`, `JournalSplit`), a load makes one extent of each run of what is not
free (`RebuildIs`, `EnqueueAllIs`), an extension adds a segment but for its first unit
(`NextSegment`).

The refinement takes the same calls to steps of `AreaPool`: what an assign adds is
apart from every area, what a free leaves is what the abstract free leaves, and the
extents after a load are the maximal runs of what was owned. `NoOverlap` is proved of
the abstract pool by itself, for every set of assignable units.

**StationInput.** `TypeOK` and `StatusIsItsOwn` are inductive together: the mark of a
response that is not there would be left over a queue of any length. One lemma for
each operator of the backend (`EnqueueParkable` and those after it) shows that it
keeps both, for every limit. `HangUpReported` and `TransferredNotDetached` are
inductive by themselves, the first for every order of closing, close handlers,
exchanges of the installed session and the guest's own failing writes.

**StationMultiplexer.** Three layers. `ArrivalInv` gives type correctness and
`ArrivalIsNoticed`: the latch is raised after the session is installed, so a machine
built later looks at the session and one built earlier has the latch. `ClaimsInv`
says what a client that found its station free may count on: nobody else claims it
and nobody is bound there, or they are rivals. `MonitorInv` (who hands over while
there is a machine holds a backend, or missed it) and `AgreementInv` (session,
binding and callbacks agree, stage by stage, for whom has no rival) give
`PlacementsAgree`: a rival's session or binding never replaces one of a client that
is not a rival itself.

**ActionControlElements.** `HostStateIsOwn` is inductive as it stands. What the
heap answers is not used at all: a record is made with the id that the allocation
gave, and a release or a load drops records whose id differs. `ElementsSafe` needs the
heap: `ElementsInv` is `HeapInv` and that each element and each area of the guest lies
within one extent, beside all others (`Held`). It is not enough to know that they are
apart: a free has to cut the extent around what is freed, and a load makes one extent
of neighbours, so that several are held in one (`HeldFrees`, `HeldLoads`). Until a load
`Exact` says more: each extent is one thing that is held, and the record of an element
the host still has names exactly its extent, so that a release does free it; this gives
`NothingLeaks`. It needs an element to have the length of a class, as 32 bytes have
(`ElementAssumption`): what rounding added would stay behind. Of an element the guest
freed while it was queued, `StaleInv` says that its record is stale for good: ids are
issued in order (`Issued`), what a free leaves of an extent has its id and is part of it
(`Continues`), so nobody gets that unit under that id again (`UnheldStays`), and the
host's release drops the record without a free (`StaleIsDropped`).

**ResourceQueues.** The walks of a queue (`Evaluate`, `OwnedLevels`, `Rebuilt`) are
recursive functions over places. What they compute is proved by the least number
principle (`UpTo`, from `WFMin`): the places up to which a statement about a walk is
true are a set, and a set that has 0 and with each place the next has them all. So
`WalkGoes` takes one element through the walk, `EvaluateSettles` all of them:
afterwards an element owns its resource if it did before or nothing before it and no
owner bars it, and no owner conflicts with another. `Leaving` and `Entering` say what
`Dequeue` and `Enqueue` make of a queue before it is evaluated: an owner that leaves or
is put back holds less than before, one that is refused gets back what it held
(`Refusing`). `GrantInv` says between calls: every queue has been evaluated and its
owners can share (`Fine`), a job that is still to call SVC 20 owns its element (so that
`RebuildStays`: what SVC 20 rebuilds is what is there), and whoever waits is barred on
some queue: a call that changes one queue must leave that witness on the others. `CalledKeeps` and `CalledIsSafe` take the invariant and the action property
from the queues a call has settled, whichever call it was. `NotExtended` (no request is
for the extended level) excludes `Combine`'s loss of the extended bit (section 6).

**TaskDispatcher.** `QueueInv` (`ReadyIffNotWaiting` and the queue's typing) and
`MachineTyped` are inductive whatever the host delivers: every service that ends a
wait enqueues, and every one that starts it dequeues, at the place of the task's
priority. `MachineInv` adds that the current task does not wait, that the registers
or a request block hold the whole of each task's context, and that the processor
stops only with an empty ready queue (`StoppedInv`). It needs `RightlyDelivered`:
at idle only completions and statuses, while a task runs only completions and
conditions, all of them awaited.

**ProgramStorage.** `StorageInv`: stacks are typed, what the guest holds is a cell,
the current task lives, and `Stored`: each block's pages are a whole extent, the
extents are disjoint, and together with the returned ones they are all pages below
the arena's next. The lemmas about `Counted`, `Loaded`, `Rebuild` and
`SpacesReleased` take `Stored` through every composite handler; they say nothing about
counts, which is why the theorem is unconditional: however wrong a count, storage is
never in two places. `TransientInv`
extends `TransientHeld` from the current task to every task: whoever runs a program
in place runs the one the host has recorded.

`RefInv` adds the counts (`Sound`): each block's `use` is the number of references,
only a work space in its queue is pinned, what nobody refers to is such a space, owners
live, and (`Few`) the request blocks are bounded. `NothingStranded` alone is not
inductive: a space could be pinned outside its queue and lose its last reference. The
references of all stacks are the pairs of a place on a stack and a slot of the frame
there; the size of that set changes with one stack by what the stack gains and loses
(`PairsChange`, with `SameSize` between the pairs of a task and those of its stack), and
a window given up splits a map table in two (`InWithout`). `CountingRight` is the heart:
if what is gained and lost balances the two numbers, `Counted` is right after it and
deletes exactly what nobody refers to any more. A transfer uses it twice: what the new
request block refers to is gained, and acquired blocks must still be there
(`FrameRefers`, `ReadySound`), before what the caller referred to is lost.

`PagesInOnePlace` is inductive relative to `RefInv`. A step keeps the place of every
block that is there after it (`Follows`, from block to block: through `Counted`,
`Loaded`, `SpacesReleased` and the single changes), a file that is in use after it was
in use before or is built over blocks that are followed (`Comes`), and what a file
names is referred to, hence, by the counts, there (`ReferredIn`). Where use counts were
wrong, a deleted block's pages would stay in images: this is the one theorem that needs
the other. `GrowShows` is apart: an extent moves, and the images follow by frame
number. That this moves no page of another block is `StorageApart`; the pages named are
pages of their blocks (`AdmittedIs`), except for the second of a region astray, and who has
the second page of the region that grows is what makes it so (`ShownElsewhere`).

**MachineSnapshot.** `SnapshotInv` (types, the media exist, a save in progress
agrees with the machine it is of, the checkpoint with its media) gives
`NothingLost`. The other three are inductive relative to it. `GuestSeesItsWrites`
is strengthened by `Undisturbed` (a volume written on is locked or overlaid, and what is
not attached has not been written) and `SavedAsKnown` (what a save and a checkpoint hold
of the written medium is what their guest knows, where they are not silent about it);
`PresentIsAttached` by what a save and a checkpoint of a powered display are silent about.

`MediaTransfers` says nothing of the state but that there is a machine: it is about
the operators, and holds for all inputs that `MediaAssumption` admits, which TLC
evaluates for the instance's. For an image the four track lengths are four linear
formulas (`Tracks`), and that each record begins where the one before it ends
(`EndToEnd`) is arithmetic by cases of them; the sequential addresses are quotients
and remainders of the same numbers. For a volume, `CompareIs` shows that the first
unlike byte orders two keys as their numbers do, by the prefixes of both keys
(`StepByStep`, a least counterexample instead of induction), and `AscendingLeast` that
on ascending keys the first hit in the order of the scan is the least.

Only model-checked:

- liveness under fairness;
- the refinement `KeepsDataSets` and `CleanTapeIsSafe`: the walks of a tape, whose
  data sets a quantified refinement would have to relate to the blocks;
- `InstructionsAreRight`, `BasicIsRight`, `WorkAreasAreRight`: what operators
  compute for bounded inputs.

## 6. Where the code and its text disagree

The model says what the code does. Where a comment, a document or a test says
something else, the module states the other reading as a property or admits it by
a constant; TLC finds each of these violated. What the passing runs check instead
names its exceptions by a history variable, or excludes what a constant can exclude.

| Property, and where | What happens |
|---|---|
| `StartCanFinish` (`LiveMonitor`) | `start` joins the old guest thread with `liveLock_` held; that thread needs the lock for its drain (`MonitorCliLive.cpp:129`) |
| `StopNotMistakenForIdle` (`LiveMonitor`) | `idleEventWait_` survives `stop` and `start`; a later fault is taken for the idle wait (`As36Dispatch.cpp:269`) |
| `PseudoIplStays` (`LiveMonitor`) | a host event delivered in the iteration of the pseudo-IPL call restarts the machine |
| `NothingLeaksAfterLoad` (`ActionControlElements`) | after a load, an element whose neighbour is freed first is dropped without a free |
| `ElementsSafe` without `Identified` in `FreeElement` (`ActionControlElements`) | a load gives an element that shares its extent id 0, which is also what `liveAllocationAt` answers for storage nobody has: if the guest frees it while it is queued, the host frees it again (`ActionControlElementQueue.cpp:118-123`) |
| `NoInheritedSession` (`StationInput`) | a client that hangs up early leaves its attention; the display is transferred to its dead session and the next client gets no sign-on (`StationBackend.cpp:44`) |
| `EveryHangUpHeard` (`StationInput`) | a client can be transferred to once `ready()` holds, and is reported gone only once `readySignalled_` is set: one that goes in between leaves its display powered on (`StationBackend.cpp:82` against `MonitorCliLive.cpp:453-454`) |
| `PresentEdgeKept` (`StationInput`) | Attention pressed before the transfer takes the latch of the present edge with it |
| `CheckpointRestores` (`TapeDrive`) | a checkpoint with a SIMH tape mounted cannot be restored: the position is of a tape whose contents are left out (`MachineSnapshot.cpp:161-166`, `Machine.cpp:347-351`) |
| `EveryoneKeepsPlace` (`StationMultiplexer`) | no lock between `isFree` and the binding (`StationMultiplexer.cpp:218-240`): the first of two clients is disposed of unseen; a hand-over meets `constructMachine`'s rebind, though by `RUNNING.md:151-154` a client that picked its station while the machine was stopped "is on that station when the guest IPLs" |
| `RunsOwnContext` with an attention in `AtIdle` (`TaskDispatcher`) | Attention, System Request and a deferred AID at idle switch the current task without loading its registers |
| `WaiterNeverRuns` with `Unawaited = TRUE` (`TaskDispatcher`) | `postTaskCheckDispatch` answers true for an element nobody awaits, and the idle loop starts a waiting task; `As36WorkStation.cpp:149-152` expects otherwise |
| `OwnersShare` with `Requests <- Extended` (`ResourceQueues`) | `Combine` loses the extended bit of both (`As36Dispatch.cpp:1923`) |
| `CountsAreReferences` with `Misplaced` (`ProgramStorage`) | a block mapped from below its load page takes a reference on the block named and releases one on the program (`As36Transfer.cpp:511-518`, against the comment at 1354-1355) |
| `PagesAreOwn` (`ProgramStorage`) | SVC 2C raises the pages of a program block and rebuilds the registers without `ensureModuleStoragePages` (`As36Storage.cpp:163-176`), so the image names the page after the extent, whoever has it; and a region that grows leaves the images of other request blocks on its old second page (1206). The comment at 1127-1133 wants the storage first: "Otherwise the arena can hand the unreserved tail to a transient and both ATR mappings name the same physical frames" |
| `TransientHeld` with `AreaContended` (`ProgramStorage`) | a dispatch never takes back the transient area another task's module has displaced |
| `GuestReadsItsWrites` (`MachineSnapshot`) | a save copies the base of an overlay volume, without what the guest wrote; a save while the guest has still to be told of an exchange loses that (`VirtualDiskette::mediaChanged_`); diskettes are opened without a lock (`DisketteBackend.cpp:185-219`) |
| `EveryHangUpReaches` (`MachineSnapshot`) | a save while a hang-up is still to be delivered loses it (`powerOffPending_`), against `RUNNING.md:212-218` |

More that shows in the definitions:

- **GuestHeap.** `Free` refuses a second free only where a free element starts
  (`GuestHeap.cpp:389`), so storage that has merged into a larger free element can
  be freed again and is then on the lists twice; `src/test/system-queue-space.sh:82`
  expects the refusal. `RestoreCheckpoint` merges equal buddies that were apart when
  saved (204), while `MachineSnapshot.h:3-4` promises a machine "read back exactly as
  it was written": the storage is the same, its division is not.
- **StationInput.** `powerOffStation` stops at the first retained operation whose
  owner is not in an event wait and leaves the rest (`MonitorCliLive.cpp:700`,
  against `RUNNING.md:198-199`). A reset keeps the power-off latch
  (`StationBackend.cpp:125`), and a deferred AID survives it.
- **StationMultiplexer.** Two adoptions between `sessionAttached` and the
  installation dispose of the first client; `multiplexStations` reads `machine_`
  from reader threads without a lock; a station defined anew leaves the backend's
  old address in a snapshot (guarded out in `Undefine`).
- **Machine life cycle** (not modelled). `constructMachine` rebinds the stations when the
  constructor of `Machine` throws, but not when `readVtocs` does
  (`SimulatorSession.cpp:446`): the new machine is destroyed and the stations keep its
  signal function; the call of it is undefined.
- **TaskDispatcher.** SVC 17's deferred byte is never folded in by a task's wait on
  itself (`As36Dispatch.cpp:69`, comment 582-584). `resumeSupervisorCall` backs up
  the instruction address and issues the call again as well (325-358).
  `longWaitPriority` lowers twice for SVC 02 with bit 1, and 8-bit wrap-around raises a
  priority below 4 to 236 (1207-1209).
- **ResourceQueues.** A refused nested request puts the previous element back without
  its ownership (2219-2221); `raiseHolderPriority` caps at 236, below the 240 that
  `restoreHolderPriority` looks for; SVC 20 grants without evaluation;
  `releaseTaskResources` frees the oldest nested element and queues it again (guarded
  out).
- **ProgramStorage.** References of a frame whose block is outside the queue space are
  never released (`As36Transfer.cpp:674-678`); a work space created for another task is
  on both chains; a module built in swapped form is referred to by nobody; a header that
  asks for more pages than it loads maps arena pages it does not own (1486-1507).
- **TaskWorkArea.** An extent with base 0 whose displacement 0 is given answers 0, which
  is taken for a failure; an exact fit leaks the element's 16 bytes (`As36TaskCreate.cpp:700`
  against 786); swap areas are cleared through the base-0 extent, which IPL never
  builds; `swapAreaSectors` is 16 bits wide; a free checks its first sector only.
- **TapeDrive.** A folder's flush removes data files before it renames the new ones, the
  manifest last (`Fragile`); it keeps the volume id of the old manifest, so a tape
  initialised with another id no longer opens; it closes an unterminated last file with a
  mark. Spacing back over files leaves the head at the start of the previous one.
  Quitting without an unload loses what was written. The operator may rewind, space, mark
  or exchange the tape between two writes of a save, which goes on at the new place and
  erases what is ahead (`MediaCommands.cpp:304-337`, no check that a procedure runs); a
  mark right behind the volume label makes the next save write over the label, and a
  folder without one no longer opens: all this is in the model and in what
  `SavedDataSets` promises. Excluded by `OperatorWaits`: `tape init` of the tape in the
  drive, `tape load` of it with pending writes (the image is read before they are
  flushed), and a machine started over it; the image and the host's copy part.
- **MachineSnapshot.** Only the last station transferred is recorded (documented). Not
  captured: console input, `savedDisplayStates_`, the current transient. A
  load that fails late on a SIMH tape has already released the old machine. A crash
  leaves lock, temporary file and media directory. Read-only and overlay attachments
  take no lock. A sequential transfer of short records may run into spare cylinders
  (`VirtualDiskette.cpp:230`).
- **MspInstructions.** L of A0-A3 changes registers though the read of its prefix byte
  aborts; only the page of the first byte of an instruction is translated at its fetch;
  `readZoned` overflows beyond 18 digits.
- **BasicAssist.** `currentOperand_` is not committed at the end of a burst
  (`BasicAssist.cpp:918-924`), so an opcode 50 or 53 that comes first after it uses 0,
  though 96-101 says the complete state is published; a negative overflow substitutes
  the largest positive number; RETURN does not restore the saved stack pointer.

## 7. Plan

Done: the modules of section 2 with their runs, and the proofs of section 5.
Next, in this order:

1. `CleanTapeIsSafe`, as far as it needs no walk: what `clean` means through each
   command.
2. `PrinterJobs`: the numbering of job files between processes, lock file, crash.
3. A machine whose construction fails (`readVtocs`, section 6); the FORTRAN assist; `WorkSpaceHeap`.

Variations of handlers that are modelled with less than the code has: relocation of a
module, SVC 2A and 2B, SVC 33's wait and the check-extent flag, resource calls of another
task, `GeneralPost`'s second loop, SVC 23, 30 and 31 of the dispatcher, queue scans,
job-phase ordering, the protection-fault path, the read modes of a display, and the tape
commands without effect.

## 8. Not modelled

Byte-level encoding (TN5250 framing, EBCDIC, the S36CKPT archive), text (commands'
wording, dumps, PDF layout), parsers, VTOC and library readers, console output, the
decoding of work-station I/O blocks, printers and their job files, the level selection
of the scheduler, the FORTRAN assist, host I/O that fails. The components of
`PROJECT.json` give the reason for each.
