------------------------ MODULE StationMultiplexer ------------------------
(***************************************************************************)
(* The listener that serves every display (src/Host/StationMultiplexer.cpp)*)
(* and the machine it outlives.  Each client has a conversation, whose     *)
(* reader thread shows the menu, looks the chosen station up and hands the *)
(* session to the station's backend, or parks it when no machine is        *)
(* constructed.  The monitor thread constructs the machine, resets it,     *)
(* changes the stations and turns the multiplexer off.                     *)
(*                                                                         *)
(* reader[c] is what client c's reader thread does next; "menu" and        *)
(* "placed" wait for the client.  A client outlives nothing that refers to *)
(* it: its id is free again once its reader ended.                         *)
(*                                                                         *)
(* An operator named <Action>_<Fault> is the action with a plausible bug;  *)
(* it is not part of Next.                                                 *)
(***************************************************************************)
EXTENDS Naturals, FiniteSets

CONSTANTS
    Clients,        \* the TN5250 clients
    Nobody,         \* no client
    Stations,       \* the addresses a display may be configured at
    Console         \* the station that is present without a client

ASSUME StationsAssumption == Console \in Stations /\ Nobody \notin Clients

VARIABLES
    open,           \* the clients whose session is not closed_
    reader,         \* [Clients -> what the reader thread does next]
    choice,         \* [Clients -> the station looked up]
    hasBackend,     \* the clients whose view of the station had a backend
    target,         \* [Clients -> whom the session's callbacks belong to]
    bound,          \* bound_: [Stations -> the client placed there]
    session,        \* session_: [Stations -> the client at the backend]
    attention,      \* the stations with attentionPending_
    noticed,        \* [Stations -> the client the guest found present]
    defined,        \* the display stations of the definition
    built,          \* the display stations of the machine, if constructed
    machine,        \* whether there is a machine
    monitor,        \* what the monitor thread does next
    on,             \* whether the multiplexer listens
    rivals,         \* history: the clients that found their station free
                    \* while another was being handed over to it
    missed          \* history: the clients that parked while a machine was
                    \* constructed, or that a rebinding found no place for

history     == <<rivals, missed>>
clientVars  == <<open, reader, choice, hasBackend, target, history>>
stationVars == <<bound, session, attention, noticed>>
monitorVars == <<defined, built, machine, monitor, on>>
vars == <<clientVars, stationVars, monitorVars>>

HandOver == {"listed", "free", "attach", "ring", "bind"}

HandingOver == {c \in Clients : reader[c] \in HandOver}

Goto(c, step) == reader' = [reader EXCEPT ![c] = step]

(* The hand-over of c ends, and what it looked up with it.                 *)
Finish(c, step) ==
    /\ Goto(c, step)
    /\ choice' = [choice EXCEPT ![c] = Console]
    /\ hasBackend' = hasBackend \ {c}

(* Those that have found station s free and are being handed over to it.   *)
Claiming(s) == {c \in HandingOver : reader[c] # "listed" /\ choice[c] = s}

Placed(c) == reader[c] = "placed"

-----------------------------------------------------------------------------
(* The conversation of a client.                                           *)

(* accept and the negotiation, up to the painted menu.                     *)
Connect(c) ==
    /\ on /\ reader[c] = "out"
    /\ \A s \in Stations : c \notin {bound[s], session[s]}
    /\ open' = open \cup {c}
    /\ Goto(c, "menu")
    /\ target' = [target EXCEPT ![c] = "menu"]
    /\ UNCHANGED <<choice, hasBackend, history, stationVars, monitorVars>>

(* multiplexStations: without a machine every display is available and has *)
(* no backend; with one it is available while no client is at its backend. *)
Shown == IF machine THEN built ELSE defined
Available(s) == ~machine \/ session[s] \notin open

(* The client types a station, or its DEVNAME names one.                   *)
Choose(c, s) ==
    /\ reader[c] = "menu" /\ c \in open
    /\ s \in Shown /\ Available(s)
    /\ Goto(c, "listed")
    /\ choice' = [choice EXCEPT ![c] = s]
    /\ hasBackend' = IF machine THEN hasBackend \cup {c} ELSE hasBackend \ {c}
    /\ UNCHANGED <<open, target, history, stationVars, monitorVars>>

(* isFree forgets a binding whose client hung up.                          *)
IsFree_Always(c) ==
    /\ reader[c] = "listed"
    /\ Goto(c, "free")
    /\ UNCHANGED <<open, choice, hasBackend, target, history, stationVars, monitorVars>>

IsFree(c) ==
    LET s == choice[c]
    IN  /\ reader[c] = "listed"
        /\ \/ /\ bound[s] \notin open
              /\ bound' = [bound EXCEPT ![s] = Nobody]
              /\ rivals' = IF Claiming(s) = {} THEN rivals ELSE rivals \cup Claiming(s) \cup {c}
              /\ Goto(c, "free")
              /\ UNCHANGED <<choice, hasBackend, missed>>
           \/ /\ bound[s] \in open
              /\ Finish(c, "menu")
              /\ missed' = missed \ {c}
              /\ UNCHANGED <<bound, rivals>>
        /\ UNCHANGED <<open, target, session, attention, noticed, monitorVars>>

(* Without a backend the session is parked.                                *)
Park(c) ==
    /\ reader[c] = "free" /\ c \notin hasBackend
    /\ target' = [target EXCEPT ![c] = "parked"]
    /\ Goto(c, "bind")
    /\ UNCHANGED <<open, choice, hasBackend, history, stationVars, monitorVars>>

(* adoptSession refuses a station that has a client.                       *)
SessionAttached(c) ==
    /\ reader[c] = "free" /\ c \in hasBackend
    /\ \/ /\ session[choice[c]] \in open
          /\ Finish(c, "menu")
          /\ rivals' = rivals \ {c}
       \/ /\ session[choice[c]] \notin open
          /\ Goto(c, "attach")
          /\ UNCHANGED <<choice, hasBackend, rivals>>
    /\ UNCHANGED <<open, target, missed, stationVars, monitorVars>>

(* retarget, setClosed and installSession, which closes the session before.*)
InstallSession(c) ==
    LET s == choice[c]
    IN  /\ reader[c] = "attach"
        /\ target' = [target EXCEPT ![c] = s]
        /\ session' = [session EXCEPT ![s] = c]
        /\ open' = open \ ({session[s]} \ {c})
        /\ Goto(c, "ring")
        /\ UNCHANGED <<choice, hasBackend, history, bound, attention, noticed, monitorVars>>

(* sessionAdopted: the console was present before its client came.         *)
SessionAdopted(c) ==
    /\ reader[c] = "ring"
    /\ attention' = attention \cup ({choice[c]} \ {Console})
    /\ Goto(c, "bind")
    /\ UNCHANGED <<open, choice, hasBackend, target, history, bound, session, noticed, monitorVars>>

(* bind, and handedOver_.                                                  *)
Bind(c) ==
    /\ reader[c] = "bind"
    /\ bound' = [bound EXCEPT ![choice[c]] = c]
    /\ Finish(c, "placed")
    /\ UNCHANGED <<open, target, history, session, attention, noticed,
                   monitorVars>>

HangUp(c) ==
    /\ reader[c] \in {"menu", "placed"} /\ c \in open
    /\ open' = open \ {c}
    /\ UNCHANGED <<reader, choice, hasBackend, target, history, stationVars, monitorVars>>

(* The reader of a closed session ends, whoever closed it.                 *)
ReaderEnds(c) ==
    /\ reader[c] \in {"menu", "placed"} /\ c \notin open
    /\ Finish(c, "out")
    /\ target' = [target EXCEPT ![c] = "menu"]
    /\ rivals' = rivals \ {c} /\ missed' = missed \ {c}
    /\ UNCHANGED <<open, stationVars, monitorVars>>

-----------------------------------------------------------------------------
(* The monitor thread.                                                     *)

Configurable == monitor = "ready" /\ ~machine

(* The machine takes the stations of the definition; from here on the      *)
(* readers see it.                                                         *)
ConstructMachine ==
    /\ Configurable
    /\ machine' = TRUE /\ built' = defined
    /\ noticed' = [s \in Stations |-> Nobody]
    /\ monitor' = "ipl"
    /\ missed' = missed \cup (HandingOver \ hasBackend)
    /\ UNCHANGED <<open, reader, choice, hasBackend, target, rivals, bound, session, attention,
                   defined, on>>

ResetForMachine_Clears ==
    /\ monitor = "ipl"
    /\ attention' = {}
    /\ monitor' = "rebind"
    /\ UNCHANGED <<clientVars, bound, session, noticed, defined, built, machine, on>>

(* The attention of a display says whether a client is attached to it; the *)
(* console needs none.                                                     *)
ResetForMachine ==
    /\ monitor = "ipl"
    /\ attention' = {s \in built \ {Console} : session[s] \in open}
    /\ monitor' = "rebind"
    /\ UNCHANGED <<clientVars, bound, session, noticed, defined, built, machine, on>>

(* rebind: the clients placed on stations of this machine are adopted by   *)
(* their backends, the others are disconnected.                            *)
Rebind ==
    LET living  == {s \in Stations : bound[s] \in open}
        adopted == {s \in living \cap built : session[s] \notin open}
        movesTo == [c \in {bound[s] : s \in adopted} |-> CHOOSE s \in adopted : bound[s] = c]
    IN  /\ monitor = "rebind"
        /\ open' = open \ {bound[s] : s \in living \ built}
        /\ bound' = [s \in Stations |-> IF s \in living \cap built THEN bound[s] ELSE Nobody]
        /\ session' = [s \in Stations |-> IF s \in adopted THEN bound[s] ELSE session[s]]
        /\ target' = [c \in Clients |-> IF c \in DOMAIN movesTo THEN movesTo[c] ELSE target[c]]
        /\ attention' = attention \cup (adopted \ {Console})
        /\ monitor' = "ready"
        /\ missed' = missed \cup {bound[s] : s \in {t \in living \cap built :
                                                      session'[t] # bound[t]}}
        /\ UNCHANGED <<reader, choice, hasBackend, rivals, noticed, defined, built, machine, on>>

Reclaim_Forgets ==
    /\ monitor = "ready" /\ machine
    /\ session' = [s \in Stations |->
                      IF s \in built /\ bound[s] # Nobody THEN Nobody ELSE session[s]]
    /\ bound' = [s \in Stations |-> Nobody]
    /\ monitor' = "reset"
    /\ UNCHANGED <<clientVars, attention, noticed, defined, built, machine, on>>

(* reclaim, before the machine goes: the bound stations' backends release  *)
(* their sessions, which stay open.                                        *)
Reclaim ==
    /\ monitor = "ready" /\ machine
    /\ session' = [s \in Stations |->
                      IF s \in built /\ bound[s] # Nobody THEN Nobody ELSE session[s]]
    /\ bound' = [s \in Stations |-> IF bound[s] \in open THEN bound[s] ELSE Nobody]
    /\ open' = open
    /\ monitor' = "reset"
    /\ UNCHANGED <<reader, choice, hasBackend, target, history, attention, noticed, defined, built,
                   machine, on>>

ReleaseMachine ==
    /\ monitor = "reset"
    /\ machine' = FALSE /\ built' = {}
    /\ monitor' = "ready"
    /\ UNCHANGED <<clientVars, stationVars, defined, on>>

(* A definition changes while no reader holds a backend that goes with it. *)
Define(s) ==
    /\ Configurable /\ s \notin defined
    /\ defined' = defined \cup {s}
    /\ UNCHANGED <<clientVars, stationVars, built, machine, monitor, on>>

Undefine(s) ==
    /\ Configurable /\ s \in defined \ {Console}
    /\ \A c \in HandingOver : c \in hasBackend => choice[c] # s
    /\ defined' = defined \ {s}
    /\ session' = [session EXCEPT ![s] = Nobody]

(* `remove station`: its backend goes, and the client at it.               *)
RemoveStation(s) ==
    /\ Undefine(s)
    /\ open' = open \ {session[s]}
    /\ UNCHANGED <<reader, choice, hasBackend, target, history, bound, attention, noticed, built,
                   machine, monitor, on>>

(* `set station role printer`: disconnectStation as well.                  *)
SetRolePrinter(s) ==
    /\ Undefine(s)
    /\ open' = open \ {session[s], bound[s]}
    /\ bound' = [bound EXCEPT ![s] = Nobody]
    /\ UNCHANGED <<reader, choice, hasBackend, target, history, attention, noticed, built, machine,
                   monitor, on>>

StartMultiplexer ==
    /\ Configurable /\ ~on
    /\ on' = TRUE
    /\ UNCHANGED <<clientVars, stationVars, defined, built, machine, monitor>>

(* dispose closes the sessions it placed and those on the menu, ...        *)
StopMultiplexer ==
    /\ Configurable /\ on
    /\ on' = FALSE
    /\ open' = {}
    /\ bound' = [s \in Stations |-> Nobody]
    /\ monitor' = "join"
    /\ UNCHANGED <<reader, choice, hasBackend, target, history, session, attention, noticed,
                   defined,
                   built, machine>>

(* ... and waits for their readers.                                        *)
JoinReaders ==
    /\ monitor = "join"
    /\ \A c \in Clients : reader[c] = "out"
    /\ bound' = [s \in Stations |-> Nobody]
    /\ monitor' = "ready"
    /\ UNCHANGED <<clientVars, session, attention, noticed, defined, built, machine, on>>

-----------------------------------------------------------------------------
(* The guest looks at a display whose attention is latched.                *)
InspectStation(s) ==
    /\ machine /\ monitor = "ready"
    /\ s \in attention \cap built
    /\ attention' = attention \ {s}
    /\ noticed' = [noticed EXCEPT ![s] = session[s]]
    /\ UNCHANGED <<clientVars, bound, session, monitorVars>>

-----------------------------------------------------------------------------
Init ==
    /\ open = {} /\ hasBackend = {}
    /\ reader = [c \in Clients |-> "out"]
    /\ choice = [c \in Clients |-> Console]
    /\ target = [c \in Clients |-> "menu"]
    /\ bound = [s \in Stations |-> Nobody]
    /\ session = [s \in Stations |-> Nobody]
    /\ noticed = [s \in Stations |-> Nobody]
    /\ attention = {} /\ rivals = {} /\ missed = {}
    /\ defined = Stations /\ built = {}
    /\ machine = FALSE /\ monitor = "ready" /\ on = TRUE

Conversation(c) ==
    \/ Connect(c) \/ \E s \in Stations : Choose(c, s)
    \/ IsFree(c) \/ Park(c) \/ SessionAttached(c) \/ InstallSession(c) \/ SessionAdopted(c)
    \/ Bind(c) \/ HangUp(c) \/ ReaderEnds(c)

Monitor ==
    \/ ConstructMachine \/ ResetForMachine \/ Rebind
    \/ Reclaim \/ ReleaseMachine
    \/ \E s \in Stations : Define(s) \/ RemoveStation(s) \/ SetRolePrinter(s)
    \/ StartMultiplexer \/ StopMultiplexer \/ JoinReaders

Next ==
    \/ \E c \in Clients : Conversation(c)
    \/ Monitor
    \/ \E s \in Stations : InspectStation(s)

Spec == Init /\ [][Next]_vars

-----------------------------------------------------------------------------
(* Properties                                                              *)

TypeOK ==
    /\ open \subseteq Clients /\ hasBackend \subseteq Clients
    /\ rivals \subseteq Clients /\ missed \subseteq Clients
    /\ reader \in [Clients -> {"out", "menu", "placed"} \cup HandOver]
    /\ choice \in [Clients -> Stations]
    /\ target \in [Clients -> {"menu", "parked"} \cup Stations]
    /\ bound \in [Stations -> Clients \cup {Nobody}]
    /\ session \in [Stations -> Clients \cup {Nobody}]
    /\ noticed \in [Stations -> Clients \cup {Nobody}]
    /\ attention \subseteq Stations /\ defined \subseteq Stations /\ built \subseteq Stations
    /\ machine \in BOOLEAN /\ on \in BOOLEAN
    /\ monitor \in {"ready", "ipl", "rebind", "reset", "join"}

(* The client is recorded at a station and, once a machine is constructed, *)
(* its keys and its hang-up go to that station's backend.                  *)
Seated(c) ==
    \E s \in Stations : /\ bound[s] = c
                        /\ machine => session[s] = c /\ target[c] = s

(* A client that was told its station is on that station when the guest    *)
(* runs, whatever others do, unless its own hand-over met another at its   *)
(* station or the construction of a machine, or the station was still      *)
(* taken by such a one.                                                    *)
EveryoneIsPlaced ==
    monitor = "ready" =>
        \A c \in open \ (rivals \cup missed) : Placed(c) => Seated(c)

(* A display that has a client has one the multiplexer knows of, and shows *)
(* as taken, so that no reset leaves it behind; but for rivals.            *)
NobodyIsHidden ==
    monitor = "ready" =>
        \A s \in Stations : session[s] \in open \ rivals =>
            bound[s] = session[s] \/ reader[session[s]] \in {"ring", "bind"}

(* The multiplexer and the stations agree about who sits where.            *)
PlacementsAgree == EveryoneIsPlaced /\ NobodyIsHidden

(* The arrival of a client is noticed by every machine that finds it at a  *)
(* display: its attention is latched until the guest has looked.           *)
ArrivalIsNoticed ==
    machine /\ monitor = "ready" =>
        \A s \in built \ {Console} :
            session[s] \in open /\ reader[session[s]] # "ring" =>
                s \in attention \/ noticed[s] = session[s]

(* StationMultiplexer.h: a placement survives reset; nothing but the end   *)
(* of the session takes a client from its station, unless it had a rival.  *)
PlacementSurvives ==
    [][\A s \in Stations :
          bound[s] \in (open \cap open') \ rivals => bound'[s] = bound[s]]_vars

-----------------------------------------------------------------------------
(* RUNNING.md: a client that picked a station while the machine was        *)
(* stopped "is on that station when the guest IPLs", also one that met     *)
(* another, or the machine's construction, in its hand-over.               *)
EveryoneKeepsPlace ==
    monitor = "ready" => \A c \in open : Placed(c) => Seated(c)
=============================================================================
