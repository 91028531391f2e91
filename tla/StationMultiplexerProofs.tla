---------------------- MODULE StationMultiplexerProofs ----------------------
(***************************************************************************)
(* Proofs about the multiplexer for any number of clients and stations, in *)
(* three layers, each resting on the one before:                           *)
(*   - TypeOK and ArrivalIsNoticed;                                        *)
(*   - what a client claims: PlacementSurvives;                            *)
(*   - who sits where: PlacementsAgree.                                    *)
(* StationMultiplexer.cpp leaves two windows open: two clients may find    *)
(* one station free, and a machine may be constructed during a hand-over.  *)
(* The histories `rivals` and `missed` name the clients that came through  *)
(* one, and the proofs are that nobody else is touched by them.            *)
(***************************************************************************)
EXTENDS StationMultiplexer, TLAPS

(* Where the reader of a client is that sits at no station yet.            *)
Unplaced == {"menu", "listed", "free", "attach"}

(* A client is bound when its conversation is over, and at a backend when  *)
(* installSession or rebind put it there.                                  *)
Whereabouts ==
    /\ \A c \in open : reader[c] # "out"
    /\ \A s \in Stations : \A c \in Clients :
          bound[s] = c => reader[c] \in {"placed", "out"}
    /\ \A s \in Stations : \A c \in Clients :
          session[s] = c => /\ reader[c] \notin Unplaced
                            /\ reader[c] = "ring" => s = choice[c]

(* After resetForMachine, before rebind, as ArrivalIsNoticed requires of   *)
(* the machine that is ready.                                              *)
ResetKnowsArrivals ==
    machine /\ monitor = "rebind" =>
        \A s \in built \ {Console} :
            session[s] \in open /\ reader[session[s]] # "ring" => s \in attention

ArrivalInv == TypeOK /\ Whereabouts /\ ResetKnowsArrivals /\ ArrivalIsNoticed

(* Two that claim one station are rivals; the claim of a client that has   *)
(* none was on a station where nobody is bound, and whoever else is bound  *)
(* at a claimed station is a rival.  A client is bound at one station at   *)
(* most.                                                                   *)
ClaimsInv ==
    /\ \A s \in Stations : \A c, d \in Claiming(s) : c # d => c \in rivals
    /\ \A s \in Stations : \A c \in Claiming(s) :
          /\ c \notin rivals => bound[s] = Nobody
          /\ bound[s] \in open => bound[s] \in rivals
    /\ \A s, t \in Stations : bound[s] = bound[t] /\ bound[s] # Nobody => s = t
    /\ monitor = "join" => open = {} /\ ~on

(* Who hands over while there is a machine holds a backend, or missed the  *)
(* machine's construction.                                                 *)
MonitorInv == machine => HandingOver \subseteq hasBackend \cup missed

(* A client without a rival that is at a backend got there in its          *)
(* hand-over, or is bound there, and its callbacks belong to the station;  *)
(* a machine that is ready has every client that is bound and has not      *)
(* missed it.                                                              *)
AgreementInv ==
    /\ \A c \in Clients : reader[c] \in {"attach", "ring"} => c \in hasBackend
    /\ \A c \in Clients \ rivals : reader[c] \in {"ring", "bind"} /\ c \in hasBackend =>
          session[choice[c]] = c /\ target[c] = choice[c]
    /\ \A s \in Stations : \A c \in Clients :
          session[s] = c /\ reader[c] \in {"ring", "bind"} =>
              s = choice[c] /\ c \in hasBackend
    /\ \A s \in Stations : session[s] \in open \ rivals =>
          /\ target[session[s]] = s
          /\ bound[s] = session[s] \/ reader[session[s]] \in {"ring", "bind"}
    /\ \A c \in open \ rivals : Placed(c) => \E s \in Stations : bound[s] = c
    /\ machine /\ monitor = "ready" =>
          \A s \in Stations : bound[s] \in open \ (rivals \cup missed) => session[s] = bound[s]

-----------------------------------------------------------------------------
(* The operators every step is read with.                                  *)
USE DEF HandOver, HandingOver, Goto, Placed, Configurable, Undefine, Shown, Available, Unplaced,
        Claiming, Finish,
        history, clientVars, stationVars, monitorVars, vars

(* The arrival of a client: steps of the readers, of the monitor thread    *)
(* and of the guest.                                                       *)
LEMMA ArrivalStep ==
    ASSUME ArrivalInv, [Next]_vars
    PROVE  ArrivalInv'
<1> USE StationsAssumption DEF ArrivalInv, TypeOK, Whereabouts, ResetKnowsArrivals, ArrivalIsNoticed
<1>1. ASSUME NEW c \in Clients, Conversation(c)
      PROVE  ArrivalInv'
  <2>1. CASE Connect(c)             BY <2>1 DEF Connect
  <2>2. ASSUME NEW s \in Stations, Choose(c, s)
        PROVE  ArrivalInv'          BY <2>2 DEF Choose
  <2>3. CASE IsFree(c)
    <3>1. \A s \in Stations : bound'[s] \in {bound[s], Nobody}
      BY <2>3 DEF IsFree
    <3>2. reader' \in {[reader EXCEPT ![c] = "free"], [reader EXCEPT ![c] = "menu"]}
          /\ reader[c] = "listed"
      BY <2>3 DEF IsFree
    <3> QED
      BY <2>3, <3>1, <3>2 DEF IsFree
  <2>4. CASE Park(c)                BY <2>4 DEF Park
  <2>5. CASE SessionAttached(c)     BY <2>5 DEF SessionAttached
  <2>6. CASE InstallSession(c)      BY <2>6 DEF InstallSession
  <2>7. CASE SessionAdopted(c)      BY <2>7 DEF SessionAdopted
  <2>8. CASE Bind(c)                BY <2>8 DEF Bind
  <2>9. CASE HangUp(c)              BY <2>9 DEF HangUp
  <2>10. CASE ReaderEnds(c)         BY <2>10 DEF ReaderEnds
  <2> QED
    BY <1>1, <2>1, <2>2, <2>3, <2>4, <2>5, <2>6, <2>7, <2>8, <2>9, <2>10 DEF Conversation
<1>2. ASSUME Monitor
      PROVE  ArrivalInv'
  <2>1. CASE ConstructMachine       BY <2>1 DEF ConstructMachine
  <2>2. CASE ResetForMachine        BY <2>2 DEF ResetForMachine
  <2>3. CASE Rebind                 BY <2>3 DEF Rebind
  <2>4. CASE Reclaim                BY <2>4 DEF Reclaim
  <2>5. CASE ReleaseMachine         BY <2>5 DEF ReleaseMachine
  <2>6. ASSUME NEW s \in Stations, Define(s) \/ RemoveStation(s) \/ SetRolePrinter(s)
        PROVE  ArrivalInv'          BY <2>6 DEF Define, RemoveStation, SetRolePrinter
  <2>7. CASE StartMultiplexer       BY <2>7 DEF StartMultiplexer
  <2>8. CASE StopMultiplexer        BY <2>8 DEF StopMultiplexer
  <2>9. CASE JoinReaders            BY <2>9 DEF JoinReaders
  <2> QED
    BY <1>2, <2>1, <2>2, <2>3, <2>4, <2>5, <2>6, <2>7, <2>8, <2>9 DEF Monitor
<1>3. ASSUME NEW s \in Stations, InspectStation(s)
      PROVE  ArrivalInv'
  BY <1>3 DEF InspectStation
<1>4. CASE UNCHANGED vars
  BY <1>4
<1> QED
  BY <1>1, <1>2, <1>3, <1>4 DEF Next

(* ArrivalInv holds throughout, whatever clients and machines do.          *)
THEOREM ArrivalInvHolds == Spec => []ArrivalInv
<1>1. Init => ArrivalInv
  <2> SUFFICES ASSUME Init PROVE ArrivalInv
    OBVIOUS
  <2>1. TypeOK /\ ~machine
    BY StationsAssumption DEF Init, TypeOK
  <2>2. Whereabouts
    BY StationsAssumption DEF Init, Whereabouts
  <2> QED
    BY <2>1, <2>2 DEF ArrivalInv, ResetKnowsArrivals, ArrivalIsNoticed
<1> QED
  BY <1>1, ArrivalStep, PTL DEF Spec

(* The types of the multiplexer's state (StationMultiplexer.h).            *)
THEOREM MultiplexerTypeCorrect == Spec => []TypeOK
BY ArrivalInvHolds, PTL DEF ArrivalInv

(* No client arrives at a display of a machine without the guest being     *)
(* told: sessionAdopted, resetForMachine and rebind latch the attention,   *)
(* and only the guest's look at the display takes it away.                 *)
THEOREM ArrivalIsNoticedHolds == Spec => []ArrivalIsNoticed
BY ArrivalInvHolds, PTL DEF ArrivalInv

-----------------------------------------------------------------------------
(* What a client claims stays its own, or it has a rival.                  *)
LEMMA ClaimsStep ==
    ASSUME ArrivalInv, ClaimsInv, [Next]_vars
    PROVE  ClaimsInv'
<1> USE StationsAssumption DEF ArrivalInv, TypeOK, Whereabouts, ClaimsInv
<1>1. ASSUME NEW c \in Clients, Conversation(c)
      PROVE  ClaimsInv'
  <2>1. CASE Connect(c)
    <3>1. /\ reader[c] = "out" /\ reader' = [reader EXCEPT ![c] = "menu"]
          /\ choice' = choice /\ bound' = bound /\ rivals' = rivals /\ monitor' = monitor
          /\ open' = open \cup {c} /\ \A s \in Stations : bound[s] # c
          /\ on
      BY <2>1 DEF Connect
    <3>2. \A s \in Stations : Claiming(s)' = Claiming(s)
      BY <3>1
    <3> QED
      BY <3>1, <3>2
  <2>2. ASSUME NEW s \in Stations, Choose(c, s)
        PROVE  ClaimsInv'           BY <2>2 DEF Choose
  <2>3. CASE IsFree(c)
    <3>1. /\ reader[c] = "listed" /\ choice[c] \in Stations
          /\ open' = open /\ monitor' = monitor /\ on' = on
      BY <2>3 DEF IsFree
    <3>2. CASE bound[choice[c]] \notin open
      <4>1. /\ choice' = choice /\ reader' = [reader EXCEPT ![c] = "free"]
            /\ bound' = [bound EXCEPT ![choice[c]] = Nobody]
        BY <2>3, <3>2 DEF IsFree
      <4>2. \A s \in Stations :
               Claiming(s)' = IF s = choice[c] THEN Claiming(s) \cup {c} ELSE Claiming(s)
        BY <3>1, <4>1
      <4>3. /\ rivals \subseteq rivals'
            /\ Claiming(choice[c]) # {} => Claiming(choice[c]) \cup {c} \subseteq rivals'
        BY <2>3, <3>2 DEF IsFree
      <4>4. \A s \in Stations : bound'[s] = IF s = choice[c] THEN Nobody ELSE bound[s]
        BY <4>1
      <4> HIDE DEF Claiming
      <4>5. \A s \in Stations : \A d, e \in Claiming(s)' : d # e => d \in rivals'
        BY <3>1, <4>2, <4>3
      <4>6. \A s \in Stations : \A d \in Claiming(s)' :
               /\ d \notin rivals' => bound'[s] = Nobody
               /\ bound'[s] \in open => bound'[s] \in rivals'
        BY <3>1, <4>2, <4>3, <4>4
      <4> QED
        BY <3>1, <4>4, <4>5, <4>6
    <3>3. CASE bound[choice[c]] \in open
      <4>1. /\ choice' = [choice EXCEPT ![c] = Console] /\ reader' = [reader EXCEPT ![c] = "menu"]
            /\ bound' = bound /\ rivals' = rivals
        BY <2>3, <3>3 DEF IsFree
      <4>2. \A s \in Stations : Claiming(s)' = Claiming(s)
        BY <3>1, <4>1
      <4> QED
        BY <3>1, <4>1, <4>2
    <3> QED
      BY <3>2, <3>3
  <2>4. CASE Park(c)                BY <2>4 DEF Park
  <2>5. CASE SessionAttached(c)
    <3>1. /\ reader[c] = "free" /\ bound' = bound
          /\ open' = open /\ monitor' = monitor /\ on' = on
          /\ rivals \ {c} \subseteq rivals' /\ \A s \in Stations : bound[s] # c
      BY <2>5 DEF SessionAttached
    <3>2. CASE rivals' = rivals
      <4>1. \A s \in Stations : Claiming(s)' \subseteq Claiming(s)
        BY <2>5 DEF SessionAttached
      <4> QED
        BY <3>1, <3>2, <4>1
    <3>3. CASE rivals' = rivals \ {c} /\ reader' = [reader EXCEPT ![c] = "menu"]
      <4>1. \A s \in Stations : Claiming(s)' \subseteq Claiming(s) \ {c}
        BY <2>5, <3>3 DEF SessionAttached
      <4> QED
        BY <3>1, <3>3, <4>1
    <3> QED
      BY <2>5, <3>2, <3>3 DEF SessionAttached
  <2>6. CASE InstallSession(c)      BY <2>6 DEF InstallSession
  <2>7. CASE SessionAdopted(c)      BY <2>7 DEF SessionAdopted
  <2>8. CASE Bind(c)
    <3>1. /\ reader[c] = "bind" /\ choice[c] \in Stations
          /\ choice' = [choice EXCEPT ![c] = Console]
          /\ reader' = [reader EXCEPT ![c] = "placed"]
          /\ bound' = [bound EXCEPT ![choice[c]] = c]
          /\ open' = open /\ rivals' = rivals /\ monitor' = monitor /\ on' = on
      BY <2>8 DEF Bind
    <3>2. /\ \A s \in Stations : Claiming(s)' = Claiming(s) \ {c}
          /\ c \in Claiming(choice[c])
      BY <3>1
    <3>3. \A s \in Stations : bound'[s] = IF s = choice[c] THEN c ELSE bound[s]
      BY <3>1
    <3>4. \A s \in Stations : bound[s] # c
      BY <3>1
    <3> HIDE DEF Claiming
    <3>5. \A s \in Stations : \A d, e \in Claiming(s)' : d # e => d \in rivals'
      BY <3>1, <3>2
    <3>6. \A s \in Stations : \A d \in Claiming(s)' :
             /\ d \notin rivals' => bound'[s] = Nobody
             /\ bound'[s] \in open => bound'[s] \in rivals'
      BY <3>1, <3>2, <3>3
    <3>7. \A s, t \in Stations : bound'[s] = bound'[t] /\ bound'[s] # Nobody => s = t
      BY <3>3, <3>4
    <3> QED
      BY <3>1, <3>5, <3>6, <3>7
  <2>9. CASE HangUp(c)              BY <2>9 DEF HangUp
  <2>10. CASE ReaderEnds(c)         BY <2>10 DEF ReaderEnds
  <2> QED
    BY <1>1, <2>1, <2>2, <2>3, <2>4, <2>5, <2>6, <2>7, <2>8, <2>9, <2>10 DEF Conversation
<1>2. ASSUME Monitor
      PROVE  ClaimsInv'
  <2>1. CASE ConstructMachine       BY <2>1 DEF ConstructMachine
  <2>2. CASE ResetForMachine        BY <2>2 DEF ResetForMachine
  <2>3. CASE Rebind                 BY <2>3 DEF Rebind
  <2>4. CASE Reclaim                BY <2>4 DEF Reclaim
  <2>5. CASE ReleaseMachine         BY <2>5 DEF ReleaseMachine
  <2>6. ASSUME NEW s \in Stations, Define(s) \/ RemoveStation(s) \/ SetRolePrinter(s)
        PROVE  ClaimsInv'           BY <2>6 DEF Define, RemoveStation, SetRolePrinter
  <2>7. CASE StartMultiplexer       BY <2>7 DEF StartMultiplexer
  <2>8. CASE StopMultiplexer        BY <2>8 DEF StopMultiplexer
  <2>9. CASE JoinReaders            BY <2>9 DEF JoinReaders
  <2> QED
    BY <1>2, <2>1, <2>2, <2>3, <2>4, <2>5, <2>6, <2>7, <2>8, <2>9 DEF Monitor
<1>3. ASSUME NEW s \in Stations, InspectStation(s)
      PROVE  ClaimsInv'
  BY <1>3 DEF InspectStation
<1>4. CASE UNCHANGED vars
  BY <1>4
<1> QED
  BY <1>1, <1>2, <1>3, <1>4 DEF Next

(* What a step leaves of a placement.                                      *)
LEMMA BoundStep ==
    ASSUME ArrivalInv, ClaimsInv, [Next]_vars,
           NEW s \in Stations, bound[s] \in (open \cap open') \ rivals
    PROVE  bound'[s] = bound[s]
<1> USE StationsAssumption DEF ArrivalInv, TypeOK, ClaimsInv
<1>1. ASSUME NEW c \in Clients, Conversation(c)
      PROVE  bound'[s] = bound[s]
  BY <1>1 DEF Conversation, Connect, Choose, IsFree, Park, SessionAttached, InstallSession,
              SessionAdopted, Bind, HangUp, ReaderEnds
<1>2. CASE Rebind
  BY <1>2 DEF Rebind
<1>3. ASSUME Monitor, ~Rebind
      PROVE  bound'[s] = bound[s]
  BY <1>3 DEF Monitor, ConstructMachine, ResetForMachine, Reclaim, ReleaseMachine, Define,
              RemoveStation, SetRolePrinter, StartMultiplexer, StopMultiplexer, JoinReaders
<1>4. ASSUME NEW t \in Stations, InspectStation(t)
      PROVE  bound'[s] = bound[s]
  BY <1>4 DEF InspectStation
<1> QED
  BY <1>1, <1>2, <1>3, <1>4 DEF Next

(* Each client has what it claims, but for rivals.                         *)
THEOREM ClaimsInvHolds == Spec => []ClaimsInv
<1>1. Init => ClaimsInv
  BY StationsAssumption DEF Init, ClaimsInv
<1>2. ArrivalInv /\ ClaimsInv /\ [Next]_vars => ClaimsInv'
  BY ClaimsStep
<1> QED
  BY <1>1, <1>2, ArrivalInvHolds, PTL DEF Spec

(* Nothing but the end of its session takes a client that has no rival     *)
(* from its station: not a reset, not a new machine, not other clients,    *)
(* rivals of each other or not.                                            *)
THEOREM PlacementSurvivesHolds == Spec => PlacementSurvives
<1>1. ArrivalInv /\ ClaimsInv /\ [Next]_vars =>
        [\A s \in Stations :
            bound[s] \in (open \cap open') \ rivals => bound'[s] = bound[s]]_vars
  BY BoundStep
<1> QED
  BY <1>1, ArrivalInvHolds, ClaimsInvHolds, PTL DEF Spec, PlacementSurvives

-----------------------------------------------------------------------------
(* Who sits where.                                                         *)

(* Each step of a hand-over, and of the monitor thread, keeps the two sides *)
(* together.                                                               *)
LEMMA AgreementStep ==
    ASSUME ArrivalInv, ClaimsInv, MonitorInv, AgreementInv, [Next]_vars
    PROVE  MonitorInv' /\ AgreementInv'
<1> USE StationsAssumption
    DEF ArrivalInv, TypeOK, Whereabouts, ClaimsInv, MonitorInv, AgreementInv
<1>1. ASSUME NEW c \in Clients, Conversation(c)
      PROVE  MonitorInv' /\ AgreementInv'
  <2>1. CASE Connect(c)             BY <2>1 DEF Connect
  <2>2. ASSUME NEW s \in Stations, Choose(c, s)
        PROVE  MonitorInv' /\ AgreementInv' BY <2>2 DEF Choose
  <2>3. CASE IsFree(c)
    <3>1. /\ reader[c] = "listed" /\ choice[c] \in Stations
          /\ open' = open /\ session' = session /\ target' = target
          /\ machine' = machine /\ monitor' = monitor
          /\ rivals \subseteq rivals' /\ missed \ {c} \subseteq missed'
      BY <2>3 DEF IsFree
    <3>2. \A s \in Stations :
             \/ bound'[s] = bound[s]
             \/ bound[s] \notin open /\ bound'[s] = Nobody
      BY <2>3 DEF IsFree
    <3>3. /\ reader' \in {[reader EXCEPT ![c] = "free"], [reader EXCEPT ![c] = "menu"]}
          /\ \A d \in Clients \ {c} :
                choice'[d] = choice[d] /\ (d \in hasBackend' <=> d \in hasBackend)
          /\ reader'[c] = "free" => hasBackend' = hasBackend /\ missed' = missed
      BY <2>3 DEF IsFree
    <3>4. Nobody \notin open /\ \A s \in Stations : bound[s] # c /\ session[s] # c
      BY <3>1
    <3>5. MonitorInv'
      BY <3>1, <3>3
    <3>6. \A d \in Clients : reader'[d] \in {"attach", "ring"} => d \in hasBackend'
      BY <3>1, <3>3
    <3>7. \A d \in Clients \ rivals' : reader'[d] \in {"ring", "bind"} /\ d \in hasBackend' =>
             session'[choice'[d]] = d /\ target'[d] = choice'[d]
      BY <3>1, <3>3
    <3>8. \A s \in Stations : \A d \in Clients :
             session'[s] = d /\ reader'[d] \in {"ring", "bind"} =>
                 s = choice'[d] /\ d \in hasBackend'
      BY <3>1, <3>3
    <3>9. \A s \in Stations : session'[s] \in open' \ rivals' =>
             /\ target'[session'[s]] = s
             /\ bound'[s] = session'[s] \/ reader'[session'[s]] \in {"ring", "bind"}
      BY <3>1, <3>2, <3>3, <3>4
    <3>10. \A d \in open' \ rivals' : Placed(d)' => \E s \in Stations : bound'[s] = d
      BY <3>1, <3>2, <3>3, <3>4
    <3>11. machine' /\ monitor' = "ready" =>
             \A s \in Stations :
                bound'[s] \in open' \ (rivals' \cup missed') => session'[s] = bound'[s]
      BY <3>1, <3>2, <3>4
    <3> QED
      BY <3>5, <3>6, <3>7, <3>8, <3>9, <3>10, <3>11
  <2>4. CASE Park(c)                BY <2>4 DEF Park
  <2>5. CASE SessionAttached(c)     BY <2>5 DEF SessionAttached
  <2>6. CASE InstallSession(c)      BY <2>6 DEF InstallSession
  <2>7. CASE SessionAdopted(c)      BY <2>7 DEF SessionAdopted
  <2>8. CASE Bind(c)                BY <2>8 DEF Bind
  <2>9. CASE HangUp(c)              BY <2>9 DEF HangUp
  <2>10. CASE ReaderEnds(c)         BY <2>10 DEF ReaderEnds
  <2> QED
    BY <1>1, <2>1, <2>2, <2>3, <2>4, <2>5, <2>6, <2>7, <2>8, <2>9, <2>10 DEF Conversation
<1>2. ASSUME Monitor
      PROVE  MonitorInv' /\ AgreementInv'
  <2>1. CASE ConstructMachine       BY <2>1 DEF ConstructMachine
  <2>2. CASE ResetForMachine        BY <2>2 DEF ResetForMachine
  <2>3. CASE Rebind                 BY <2>3 DEF Rebind
  <2>4. CASE Reclaim                BY <2>4 DEF Reclaim
  <2>5. CASE ReleaseMachine         BY <2>5 DEF ReleaseMachine
  <2>6. ASSUME NEW s \in Stations, Define(s) \/ RemoveStation(s) \/ SetRolePrinter(s)
        PROVE  MonitorInv' /\ AgreementInv' BY <2>6 DEF Define, RemoveStation, SetRolePrinter
  <2>7. CASE StartMultiplexer       BY <2>7 DEF StartMultiplexer
  <2>8. CASE StopMultiplexer        BY <2>8 DEF StopMultiplexer
  <2>9. CASE JoinReaders            BY <2>9 DEF JoinReaders
  <2> QED
    BY <1>2, <2>1, <2>2, <2>3, <2>4, <2>5, <2>6, <2>7, <2>8, <2>9 DEF Monitor
<1>3. ASSUME NEW s \in Stations, InspectStation(s)
      PROVE  MonitorInv' /\ AgreementInv'
  BY <1>3 DEF InspectStation
<1>4. CASE UNCHANGED vars
  BY <1>4
<1> QED
  BY <1>1, <1>2, <1>3, <1>4 DEF Next

(* ... and whoever sits at a backend is recorded or is handing over there. *)
THEOREM AgreementInvHolds == Spec => [](MonitorInv /\ AgreementInv)
<1>1. Init => MonitorInv /\ AgreementInv
  BY StationsAssumption DEF Init, MonitorInv, AgreementInv
<1>2. ArrivalInv /\ ClaimsInv /\ MonitorInv /\ AgreementInv /\ [Next]_vars
      => (MonitorInv /\ AgreementInv)'
  BY AgreementStep
<1> QED
  BY <1>1, <1>2, ArrivalInvHolds, ClaimsInvHolds, PTL DEF Spec

(* Whenever the monitor thread rests, the multiplexer and the stations'    *)
(* backends agree about who sits where, in both directions, but for those  *)
(* that had a rival or missed the construction of the machine.             *)
THEOREM PlacementsAgreeHolds == Spec => []PlacementsAgree
<1>1. ArrivalInv /\ AgreementInv => PlacementsAgree
  BY StationsAssumption
     DEF ArrivalInv, TypeOK, AgreementInv, PlacementsAgree, EveryoneIsPlaced, NobodyIsHidden, Seated
<1> QED
  BY <1>1, ArrivalInvHolds, AgreementInvHolds, PTL
=============================================================================
