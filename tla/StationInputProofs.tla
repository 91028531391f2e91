------------------------ MODULE StationInputProofs ------------------------
(* Proofs that StationInput keeps its type and safety invariants, for every*)
(* set of clients, every limit and whatever the guest asks for.            *)
EXTENDS StationInput, SequenceTheorems, TLAPS

(* What the proof of HangUpReported needs of the types.                    *)
SessionType == session \in Clients \cup {Nobody}

USE DEF sessionVars, hostVars, latchVars, backendVars, machineVars, bindingVars, deviceVars, guestVars,
        vars, chainHost, Attached, Ready, GuestRuns, Presenting, Sent

(* A queue whose responses other than the first have not reported.         *)
Queues == {s \in Seq(InputResponses) : Len(s) <= InboundLimit}

(* What a display's backend parks: records of their type, and a mark that  *)
(* stands for the first response.                                          *)
Parkable(p) == p \in ParkedRecords /\ MarkIsItsOwn(p)

(* The fields of what is parked.                                           *)
LEMMA ParkedFields ==
  /\ ParkedRecords = [inbound : Queues, statusTaken : BOOLEAN, saves : 0..SaveLimit,
                      control : BOOLEAN]
  /\ \A p \in ParkedRecords :
        /\ p.inbound \in Queues /\ p.inbound \in Seq(InputResponses)
        /\ Len(p.inbound) \in Nat /\ Len(p.inbound) <= InboundLimit
        /\ DOMAIN p.inbound = 1..Len(p.inbound)
        /\ p.statusTaken \in BOOLEAN /\ p.saves \in 0..SaveLimit /\ p.control \in BOOLEAN
<1>1. ParkedRecords = [inbound : Queues, statusTaken : BOOLEAN, saves : 0..SaveLimit,
                       control : BOOLEAN]
  BY DEF ParkedRecords, Queues
<1> QED  BY <1>1, LenProperties DEF Queues

(* A new machine and a power-off park nothing.                             *)
LEMMA NothingParkable == Parkable(NothingParked)
<1>1. <<>> \in Queues
  BY LimitsAssumption, EmptySeq DEF Queues
<1>2. NothingParked \in ParkedRecords
  BY <1>1, ParkedFields, LimitsAssumption DEF NothingParked
<1>3. MarkIsItsOwn(NothingParked)
  BY DEF NothingParked, MarkIsItsOwn
<1> QED  BY <1>2, <1>3 DEF Parkable

(* What is left of a queue when its first response goes has not reported.  *)
LEMMA TailUnreported ==
  ASSUME NEW p, Parkable(p), p.inbound # <<>>
  PROVE  /\ Tail(p.inbound) \in Seq(InputResponses)
         /\ Len(Tail(p.inbound)) = Len(p.inbound) - 1
         /\ \A i \in 1..Len(Tail(p.inbound)) : ~Tail(p.inbound)[i].reported
<1> DEFINE q == p.inbound
<1>1. q \in Seq(InputResponses) /\ q # <<>> /\ Len(q) \in Nat /\ DOMAIN q = 1..Len(q)
  BY ParkedFields DEF Parkable
<1>2. \A i \in DOMAIN q : q[i].reported <=> i = 1 /\ p.statusTaken
  BY DEF Parkable, MarkIsItsOwn
<1> HIDE DEF q
<1>3. /\ Tail(q) \in Seq(InputResponses) /\ Len(Tail(q)) = Len(q) - 1
      /\ \A i \in 1..Len(Tail(q)) : Tail(q)[i] = q[i+1]
  BY <1>1, HeadTailProperties
<1>4. ASSUME NEW i \in 1..Len(Tail(q)) PROVE ~Tail(q)[i].reported
  <2>1. i + 1 \in DOMAIN q /\ i + 1 # 1
    BY <1>1, <1>3
  <2> QED  BY <1>2, <1>3, <2>1
<1> QED  BY <1>3, <1>4 DEF q

(* What a client sends.                                                    *)
LEMMA EnqueueParkable ==
  ASSUME NEW p, Parkable(p), NEW kind \in RecordKinds
  PROVE  Parkable(Enqueue(p, kind))
<1> USE LimitsAssumption, KindsAssumption
<1>0. p \in ParkedRecords /\ MarkIsItsOwn(p)
  BY DEF Parkable
<1>1. CASE kind = "control"
  <2> DEFINE e == Enqueue(p, kind)
  <2>1. e = [p EXCEPT !.control = TRUE]
    BY <1>1 DEF Enqueue
  <2>2. e \in ParkedRecords /\ e.inbound = p.inbound /\ e.statusTaken = p.statusTaken
    BY <1>0, <2>1, ParkedFields
  <2> HIDE DEF e
  <2>3. MarkIsItsOwn(e)
    BY <1>0, <2>2 DEF MarkIsItsOwn
  <2> QED  BY <2>2, <2>3 DEF Parkable, e
<1>2. CASE kind = "save"
  <2> DEFINE e == Enqueue(p, kind)
  <2>1. e = [p EXCEPT !.saves = IF @ = SaveLimit THEN @ ELSE @ + 1]
    BY <1>2 DEF Enqueue
  <2>2. e \in ParkedRecords /\ e.inbound = p.inbound /\ e.statusTaken = p.statusTaken
    BY <1>0, <2>1, ParkedFields
  <2> HIDE DEF e
  <2>3. MarkIsItsOwn(e)
    BY <1>0, <2>2 DEF MarkIsItsOwn
  <2> QED  BY <2>2, <2>3 DEF Parkable, e
<1>3. CASE kind \notin {"control", "save"}
  <2> DEFINE displaces == Len(p.inbound) = InboundLimit
             kept == IF displaces THEN Tail(p.inbound) ELSE p.inbound
             r == [whole |-> kind = "input", reported |-> FALSE]
             q == Append(kept, r)
             mark == p.statusTaken /\ ~displaces
             e == Enqueue(p, kind)
  <2>1. displaces => p.inbound # <<>>
    BY EmptySeq
  <2>2. kept \in Seq(InputResponses) /\ Len(kept) \in Nat /\ Len(kept) < InboundLimit
    BY <1>0, <2>1, ParkedFields, TailUnreported
  <2>3. \A i \in 1..Len(kept) : kept[i].reported <=> i = 1 /\ mark
    <3>1. CASE displaces
      BY <2>1, <3>1, TailUnreported
    <3>2. CASE ~displaces
      BY <1>0, <3>2, ParkedFields DEF MarkIsItsOwn
    <3> QED  BY <3>1, <3>2
  <2>4. mark => Len(kept) # 0
    <3>1. ASSUME mark PROVE Len(p.inbound) # 0
      BY <1>0, <3>1, ParkedFields, EmptySeq DEF MarkIsItsOwn
    <3> QED  BY <3>1
  <2>5. mark \in BOOLEAN
    BY <1>0, ParkedFields
  <2>6. e = [p EXCEPT !.inbound = q, !.statusTaken = mark]
    BY <1>3 DEF Enqueue
  <2>7. r \in InputResponses /\ ~r.reported
    BY DEF InputResponses
  <2> HIDE DEF r, mark, kept
  <2>8. /\ q \in Seq(InputResponses) /\ Len(q) = Len(kept) + 1
        /\ \A i \in 1..Len(kept) : q[i] = kept[i]
        /\ q[Len(kept) + 1] = r
    BY <2>2, <2>7, AppendProperties
  <2> HIDE DEF q
  <2>9. q \in Queues /\ q # <<>> /\ DOMAIN q = 1..Len(q)
    BY <2>2, <2>8, LenProperties, EmptySeq DEF Queues
  <2>10. \A i \in DOMAIN q : q[i].reported <=> i = 1 /\ mark
    <3> SUFFICES ASSUME NEW i \in DOMAIN q PROVE q[i].reported <=> i = 1 /\ mark
      OBVIOUS
    <3>1. CASE i \in 1..Len(kept)
      BY <2>3, <2>8, <3>1
    <3>2. CASE i = Len(kept) + 1
      BY <2>2, <2>4, <2>7, <2>8, <3>2
    <3> QED  BY <2>2, <2>8, <2>9, <3>1, <3>2
  <2>11. e \in ParkedRecords /\ e.inbound = q /\ e.statusTaken = mark
    BY <1>0, <2>5, <2>6, <2>9, ParkedFields
  <2> HIDE DEF e
  <2>12. MarkIsItsOwn(e)
    BY <2>9, <2>10, <2>11 DEF MarkIsItsOwn
  <2> QED  BY <2>11, <2>12 DEF Parkable, e
<1> QED  BY <1>1, <1>2, <1>3

(* The status half of the first response is delivered.                     *)
LEMMA TakeStatusParkable ==
  ASSUME NEW p, Parkable(p), p.inbound # <<>>
  PROVE  Parkable(TakeInputStatus(p))
<1> DEFINE q == [p.inbound EXCEPT ![1].reported = TRUE]
           e == TakeInputStatus(p)
<1>1. p \in ParkedRecords /\ MarkIsItsOwn(p)
  BY DEF Parkable
<1>2. p.inbound \in Seq(InputResponses) /\ Len(p.inbound) \in Nat /\ DOMAIN p.inbound = 1..Len(p.inbound)
      /\ Len(p.inbound) <= InboundLimit
  BY <1>1, ParkedFields
<1>3. 1 \in DOMAIN p.inbound /\ p.inbound[1] \in InputResponses
  BY <1>2, EmptySeq, ElementOfSeq
<1>4. [p.inbound[1] EXCEPT !.reported = TRUE] \in InputResponses
  BY <1>3 DEF InputResponses
<1>5. /\ q \in Seq(InputResponses) /\ Len(q) = Len(p.inbound) /\ DOMAIN q = DOMAIN p.inbound
      /\ \A i \in DOMAIN q : q[i] = IF i = 1 THEN [p.inbound[1] EXCEPT !.reported = TRUE]
                                             ELSE p.inbound[i]
  <2>1. q = [p.inbound EXCEPT ![1] = [p.inbound[1] EXCEPT !.reported = TRUE]]
    OBVIOUS
  <2>2. /\ q \in Seq(InputResponses) /\ Len(q) = Len(p.inbound)
    BY <1>2, <1>3, <1>4, <2>1, ExceptSeq
  <2> QED  BY <1>2, <2>1, <2>2
<1>6. e = [p EXCEPT !.statusTaken = TRUE, !.inbound = q]
  BY <1>1 DEF TakeInputStatus, ParkedRecords
<1>7. \A i \in DOMAIN q : q[i].reported <=> i = 1
  <2>1. [p.inbound[1] EXCEPT !.reported = TRUE].reported
    BY <1>3 DEF InputResponses
  <2>2. \A i \in DOMAIN p.inbound : i # 1 => ~p.inbound[i].reported
    BY <1>1 DEF MarkIsItsOwn
  <2> QED  BY <1>5, <2>1, <2>2
<1>8. q \in Queues /\ q # <<>>
  BY <1>2, <1>3, <1>5 DEF Queues
<1> HIDE DEF q
<1>9. e \in ParkedRecords /\ e.inbound = q /\ e.statusTaken
  BY <1>1, <1>6, <1>8, ParkedFields
<1> HIDE DEF e
<1>10. MarkIsItsOwn(e)
  BY <1>7, <1>8, <1>9 DEF MarkIsItsOwn
<1> QED  BY <1>9, <1>10 DEF Parkable, e

(* The first response is read.                                             *)
LEMMA ReceiveParkable ==
  ASSUME NEW p, Parkable(p), p.inbound # <<>>
  PROVE  Parkable(Receive(p))
<1> DEFINE q == Tail(p.inbound)
           e == Receive(p)
<1>1. p \in ParkedRecords
  BY DEF Parkable
<1>2. q \in Seq(InputResponses) /\ q \in Queues /\ DOMAIN q = 1..Len(q)
  <2>1. /\ q \in Seq(InputResponses) /\ Len(q) = Len(p.inbound) - 1
        /\ Len(p.inbound) \in Nat /\ Len(p.inbound) <= InboundLimit
    BY <1>1, TailUnreported, ParkedFields
  <2> HIDE DEF q
  <2> QED  BY <2>1, LenProperties, LimitsAssumption DEF Queues
<1>3. \A i \in DOMAIN q : ~q[i].reported
  BY <1>2, TailUnreported
<1>4. e = [p EXCEPT !.inbound = q, !.statusTaken = FALSE]
  BY DEF Receive
<1> HIDE DEF q
<1>5. e \in ParkedRecords /\ e.inbound = q /\ ~e.statusTaken
  BY <1>1, <1>2, <1>4, ParkedFields
<1> HIDE DEF e
<1>6. MarkIsItsOwn(e)
  BY <1>3, <1>5 DEF MarkIsItsOwn
<1> QED  BY <1>5, <1>6 DEF Parkable, e

(* A screen or a key is taken.                                             *)
LEMMA TakeOtherParkable ==
  ASSUME NEW p, Parkable(p)
  PROVE  /\ p.saves > 0 => Parkable(TakeSaveScreen(p))
         /\ Parkable(TakeUnsolicitedRequest(p))
<1>1. p \in ParkedRecords /\ MarkIsItsOwn(p)
  BY DEF Parkable
<1>2. ASSUME NEW e \in ParkedRecords, e.inbound = p.inbound, e.statusTaken = p.statusTaken
      PROVE  Parkable(e)
  BY <1>1, <1>2 DEF Parkable, MarkIsItsOwn
<1>3. ASSUME p.saves > 0 PROVE Parkable(TakeSaveScreen(p))
  <2> DEFINE e == TakeSaveScreen(p)
  <2>1. e = [p EXCEPT !.saves = @ - 1]
    BY DEF TakeSaveScreen
  <2>2. p.saves - 1 \in 0..SaveLimit
    BY <1>1, <1>3, ParkedFields, LimitsAssumption
  <2>3. e \in ParkedRecords /\ e.inbound = p.inbound /\ e.statusTaken = p.statusTaken
    BY <1>1, <2>1, <2>2, ParkedFields
  <2> QED  BY <1>2, <2>3
<1>4. Parkable(TakeUnsolicitedRequest(p))
  <2> DEFINE e == TakeUnsolicitedRequest(p)
  <2>1. e = [p EXCEPT !.control = FALSE]
    BY DEF TakeUnsolicitedRequest
  <2>2. e \in ParkedRecords /\ e.inbound = p.inbound /\ e.statusTaken = p.statusTaken
    BY <1>1, <2>1, ParkedFields
  <2> QED  BY <1>2, <2>2
<1> QED  BY <1>3, <1>4

-----------------------------------------------------------------------------
(* Types, and the status half.  Each needs the other: the mark of a        *)
(* response that is not there would be left over a queue of any length.    *)

ParkedInv == TypeOK /\ StatusIsItsOwn

(* What a display may retain.                                              *)
LEMMA Retention == <<>> \in RetainedResponses /\ \A b \in BOOLEAN : <<b>> \in RetainedResponses
BY DEF RetainedResponses

(* No step parks what is not parkable.                                     *)
LEMMA ParkableStep == ASSUME Parkable(parked), [Next]_vars PROVE Parkable(parked')
<1>1. ASSUME NEW c \in Clients, Client(c) PROVE Parkable(parked')
  BY <1>1 DEF Client, Accept, Agree, Renegotiate, KindMismatch, HangUp, AnswerFails, Receives
<1>2. ASSUME NEW c \in Clients, Reader(c) PROVE Parkable(parked')
  <2>1. CASE Park(c)
    BY <2>1, EnqueueParkable DEF Park
  <2>2. CASE SignalReady(c) \/ RaiseAttention(c) \/ SessionGone(c) \/ ReaderEnds(c)
    BY <2>2 DEF SignalReady, RaiseAttention, SessionGone, ReaderEnds
  <2> QED  BY <1>2, <2>1, <2>2 DEF Reader
<1>3. CASE Construct \/ PowerOff
  BY <1>3, NothingParkable DEF Construct, PowerOff
<1>4. CASE ResetAttention \/ Release \/ Ipl
  BY <1>4 DEF ResetAttention, Release, Ipl
<1>5. CASE Guest
  BY <1>5 DEF Guest, GuestConfigures, PutWithInvite, AwaitResponse, ReadInputFields,
              SaveScreen, Request, WriteFails, CancelPending
<1>6. CASE DeliverInputStatus
  <2>1. parked.inbound # <<>> /\ parked' = TakeInputStatus(parked)
    BY <1>6 DEF DeliverInputStatus, StatusDue, StatusAvailable
  <2> QED  BY <2>1, TakeStatusParkable
<1>7. CASE DeliverControl
  BY <1>7, TakeOtherParkable DEF DeliverControl
<1>8. ASSUME NEW o \in Operations, CompleteOperation(o) PROVE Parkable(parked')
  <2>1. parked \in ParkedRecords
    BY DEF Parkable
  <2>2. CASE o = "save"
    BY <1>8, <2>2, TakeOtherParkable DEF CompleteOperation, Completable
  <2>3. CASE o = "invite"
    <3>1. parked.inbound # <<>> /\ parked' = Receive(parked)
      BY <1>8, <2>3 DEF CompleteOperation, Completable
    <3> QED  BY <3>1, ReceiveParkable
  <2>4. CASE o = "read" /\ retained = <<>>
    <3>1. Responses # <<>> /\ parked' = Receive(parked)
      BY <1>8, <2>4 DEF CompleteOperation, Completable
    <3>2. ASSUME parked.inbound = <<>> PROVE FALSE
      <4>1. DOMAIN parked.inbound = {}
        BY <3>2
      <4>2. [i \in DOMAIN parked.inbound |-> parked.inbound[i].whole] = <<>>
        BY <4>1
      <4> QED  BY <2>4, <3>1, <4>2, ConcatProperties DEF Responses
    <3> QED  BY <3>1, <3>2, ReceiveParkable
  <2>5. CASE o = "c1" \/ (o = "read" /\ retained # <<>>)
    BY <1>8, <2>5 DEF CompleteOperation
  <2> QED  BY <2>2, <2>3, <2>4, <2>5, OperationsAssumption
<1>9. CASE NoInputStatus \/ CompleteNothing \/ Defer \/ Bind \/ IgnoreAttention
  BY <1>9 DEF NoInputStatus, CompleteNothing, Defer, Bind, IgnoreAttention
<1>10. CASE UNCHANGED vars
  BY <1>10
<1> QED
  BY <1>1, <1>2, <1>3, <1>4, <1>5, <1>6, <1>7, <1>8, <1>9, <1>10 DEF Next, Chain

(* Every step keeps the other types.                                       *)
LEMMA TypeStep ==
  ASSUME TypeOK, Parkable(parked), Parkable(parked'), [Next]_vars
  PROVE  TypeOK'
<1>0. parked \in ParkedRecords /\ parked' \in ParkedRecords
  BY DEF Parkable
<1> USE <1>0, NobodyAssumption, Retention DEF TypeOK, Gone, CloseInstalled
<1>1. ASSUME NEW c \in Clients, Accept(c) \/ Agree(c) \/ Renegotiate(c) PROVE TypeOK'
  <2>1. CASE Accept(c)
    <3>1. reader' \in [Clients -> RecordKinds \cup ReaderStages]
      BY <2>1 DEF Accept, ReaderStages
    <3>2. {open', signalled', closing'} \subseteq SUBSET Clients /\ agreed' \in BOOLEAN
          /\ session' \in Clients \cup {Nobody}
      BY <2>1 DEF Accept
    <3>3. UNCHANGED <<backendVars, machineVars, guestVars>>
      BY <2>1 DEF Accept
    <3> QED  BY <3>1, <3>2, <3>3
  <2>2. CASE Agree(c)
    <3>1. agreed' \in BOOLEAN
      BY <2>2 DEF Agree
    <3>2. reader' \in [Clients -> RecordKinds \cup ReaderStages]
      BY <2>2 DEF Agree, ReaderStages
    <3>3. UNCHANGED <<open, signalled, closing, session, backendVars, machineVars, guestVars>>
      BY <2>2 DEF Agree
    <3> QED  BY <3>1, <3>2, <3>3
  <2>3. CASE Renegotiate(c)
    <3>1. agreed' \in BOOLEAN
      BY <2>3 DEF Renegotiate
    <3> QED  BY <2>3, <3>1 DEF Renegotiate
  <2> QED  BY <1>1, <2>1, <2>2, <2>3
<1>2. ASSUME NEW c \in Clients, KindMismatch(c) PROVE TypeOK'
  <2>1. powerOff' \in BOOLEAN /\ unheard' \in BOOLEAN
    BY <1>2 DEF KindMismatch
  <2>2. open' \in SUBSET Clients
    BY <1>2 DEF KindMismatch
  <2>3. /\ session' = Nobody /\ agreed' = FALSE
        /\ UNCHANGED <<signalled, closing, reader, parked, attention>>
        /\ UNCHANGED <<machineVars, chain, configured, known, transferred, detached, user, deviceVars>>
    BY <1>2 DEF KindMismatch
  <2>4. /\ configured' \in BOOLEAN /\ known' \in BOOLEAN
        /\ transferred' \in BOOLEAN /\ detached' \in BOOLEAN
        /\ user' \in Clients \cup {Nobody}
        /\ ops' \in SUBSET Operations /\ status' \in BOOLEAN /\ retained' \in RetainedResponses
    BY <2>3
  <2>5. /\ machine' \in {"off", "reset", "up"} /\ seen' \in BOOLEAN /\ attention' \in BOOLEAN
        /\ chain' \in {"rest", "latch", "complete", "attend", "present"}
    BY <2>3
  <2>6. /\ {open', signalled', closing'} \subseteq SUBSET Clients /\ agreed' \in BOOLEAN
        /\ reader' \in [Clients -> RecordKinds \cup ReaderStages]
        /\ session' \in Clients \cup {Nobody}
    BY <2>2, <2>3
  <2> QED  BY <2>1, <2>4, <2>5, <2>6
<1>3. ASSUME NEW c \in Clients, HangUp(c) \/ AnswerFails(c) PROVE TypeOK'
  <2>1. open' \in SUBSET Clients /\ closing' \in SUBSET Clients
    BY <1>3 DEF HangUp, AnswerFails
  <2>2. reader' \in [Clients -> RecordKinds \cup ReaderStages]
    BY <1>3 DEF HangUp, AnswerFails, ReaderStages
  <2> QED  BY <1>3, <2>1, <2>2 DEF HangUp, AnswerFails
<1>4. ASSUME NEW c \in Clients, NEW kind \in RecordKinds, Receives(c, kind) PROVE TypeOK'
  BY <1>4 DEF Receives
<1>5. ASSUME NEW c \in Clients, Park(c) PROVE TypeOK'
  <2>1. UNCHANGED <<open, agreed, signalled, closing, session, latchVars, machineVars, guestVars>>
    BY <1>5 DEF Park
  <2>2. reader' \in [Clients -> RecordKinds \cup ReaderStages]
    BY <1>5 DEF Park, ReaderStages
  <2> QED  BY <2>1, <2>2
<1>6. ASSUME NEW c \in Clients, SignalReady(c) \/ RaiseAttention(c) PROVE TypeOK'
  <2>1. CASE SignalReady(c)
    BY <2>1 DEF SignalReady, ReaderStages
  <2>2. CASE RaiseAttention(c)
    BY <2>2 DEF RaiseAttention, ReaderStages
  <2> QED  BY <1>6, <2>1, <2>2
<1>7. ASSUME NEW c \in Clients, SessionGone(c) \/ ReaderEnds(c) PROVE TypeOK'
  <2>1. CASE SessionGone(c)
    <3>1. powerOff' \in BOOLEAN /\ unheard' \in BOOLEAN
      BY <2>1 DEF SessionGone
    <3> QED  BY <2>1, <3>1 DEF SessionGone
  <2>2. CASE ReaderEnds(c)
    BY <2>2 DEF ReaderEnds, ReaderStages
  <2> QED  BY <1>7, <2>1, <2>2
<1>8. CASE Construct
  BY <1>8 DEF Construct
<1>9. CASE ResetAttention
  <2>1. /\ UNCHANGED <<hostVars, parked, powerOff, guestVars>>
        /\ machine' = "up" /\ attention' \in BOOLEAN /\ seen' \in BOOLEAN
    BY <1>9 DEF ResetAttention
  <2> QED  BY <2>1
<1>10. CASE Release \/ Ipl
  BY <1>10 DEF Release, Ipl
<1>11. ASSUME Guest PROVE TypeOK'
  <2>1. CASE PutWithInvite \/ AwaitResponse \/ ReadInputFields \/ SaveScreen
    <3>1. /\ UNCHANGED <<hostVars, backendVars, machineVars, chain, configured, transferred,
                         detached, user, unheard, retained>>
          /\ known' = TRUE
      BY <2>1 DEF PutWithInvite, AwaitResponse, ReadInputFields, SaveScreen, Request
    <3>2. ops' \in SUBSET Operations
      BY <2>1 DEF PutWithInvite, AwaitResponse, ReadInputFields, SaveScreen, Request
    <3>3. status' \in BOOLEAN
      BY <2>1 DEF PutWithInvite, AwaitResponse, ReadInputFields, SaveScreen, Request
    <3> QED  BY <3>1, <3>2, <3>3
  <2>3. CASE WriteFails
    <3>1. powerOff' \in BOOLEAN /\ unheard' \in BOOLEAN
      BY <2>3 DEF WriteFails
    <3>2. open' \in SUBSET Clients /\ status' \in BOOLEAN
      BY <2>3 DEF WriteFails
    <3> QED  BY <2>3, <3>1, <3>2 DEF WriteFails
  <2>4. CASE GuestConfigures
    BY <2>4 DEF GuestConfigures
  <2>5. ASSUME NEW o \in Operations, CancelPending(o) PROVE TypeOK'
    BY <2>5 DEF CancelPending
  <2> QED  BY <1>11, <2>1, <2>3, <2>4, <2>5 DEF Guest
<1>12. CASE DeliverInputStatus
  BY <1>12 DEF DeliverInputStatus
<1>13. ASSUME NEW o \in Operations, CompleteOperation(o) PROVE TypeOK'
  <2>1. UNCHANGED <<chainHost, powerOff, bindingVars>>
    BY <1>13 DEF CompleteOperation
  <2>2. chain' \in {"rest", "attend"}
    BY <1>13 DEF CompleteOperation, AfterCompletion
  <2>3. attention' \in BOOLEAN /\ status' \in BOOLEAN /\ ops' \in SUBSET Operations
    BY <1>13 DEF CompleteOperation
  <2>4. retained' \in RetainedResponses
    <3>1. CASE o = "invite"
      <4>1. parked.inbound # <<>> /\ retained' = <<Head(parked.inbound).whole>>
        BY <1>13, <3>1 DEF CompleteOperation, Completable
      <4>2. Head(parked.inbound) \in InputResponses
        BY <4>1, ParkedFields, HeadTailProperties
      <4>3. Head(parked.inbound).whole \in BOOLEAN
        BY <4>2 DEF InputResponses
      <4> QED  BY <4>1, <4>3
    <3>2. CASE o # "invite"
      BY <1>13, <3>2 DEF CompleteOperation
    <3> QED  BY <3>1, <3>2
  <2> QED  BY <2>1, <2>2, <2>3, <2>4
<1>14. CASE PowerOff
  <2>1. ops' \in SUBSET Operations /\ status' \in BOOLEAN
    BY <1>14 DEF PowerOff
  <2> QED  BY <1>14, <2>1 DEF PowerOff
<1>15. CASE DeliverControl
  <2>1. UNCHANGED hostVars
    BY <1>15 DEF DeliverControl
  <2>2. UNCHANGED <<machineVars, powerOff, bindingVars, deviceVars>>
        /\ attention' = FALSE /\ chain' = "rest"
    BY <1>15 DEF DeliverControl
  <2>3. /\ {open', signalled', closing'} \subseteq SUBSET Clients /\ agreed' \in BOOLEAN
        /\ reader' \in [Clients -> RecordKinds \cup ReaderStages]
        /\ session' \in Clients \cup {Nobody}
    BY <2>1
  <2>4. /\ machine' \in {"off", "reset", "up"} /\ seen' \in BOOLEAN
        /\ powerOff' \in BOOLEAN /\ attention' \in BOOLEAN
    BY <2>2
  <2>5. /\ configured' \in BOOLEAN /\ known' \in BOOLEAN
        /\ transferred' \in BOOLEAN /\ detached' \in BOOLEAN
        /\ user' \in Clients \cup {Nobody} /\ unheard' \in BOOLEAN
    BY <2>2
  <2>6. ops' \in SUBSET Operations /\ status' \in BOOLEAN /\ retained' \in RetainedResponses
    BY <2>2
  <2> QED  BY <2>2, <2>3, <2>4, <2>5, <2>6
<1>16. CASE NoInputStatus \/ Defer
  BY <1>16 DEF NoInputStatus, Defer
<1>17. CASE CompleteNothing
  BY <1>17 DEF CompleteNothing
<1>18. CASE Bind
  BY <1>18 DEF Bind
<1>19. CASE IgnoreAttention
  BY <1>19 DEF IgnoreAttention
<1>20. CASE UNCHANGED vars
  BY <1>20
<1> QED
  BY <1>1, <1>2, <1>3, <1>4, <1>5, <1>6, <1>7, <1>8, <1>9, <1>10, <1>11, <1>12, <1>13, <1>14,
     <1>15, <1>16, <1>17, <1>18, <1>19, <1>20 DEF Next, Client, Reader, Chain

(* Types and status half together, in every reachable state.               *)
LEMMA ParkedInvHolds == Spec => []ParkedInv
<1>1. Init => ParkedInv
  <2>1. Init => Parkable(parked)
    BY NothingParkable DEF Init
  <2>2. Init => TypeOK
    BY <2>1, Retention DEF Init, TypeOK, Parkable, ReaderStages
  <2> QED  BY <2>1, <2>2 DEF ParkedInv, Parkable, StatusIsItsOwn
<1>2. ParkedInv /\ [Next]_vars => ParkedInv'
  <2> SUFFICES ASSUME ParkedInv, [Next]_vars PROVE ParkedInv'
    OBVIOUS
  <2>1. TypeOK /\ Parkable(parked)
    BY DEF ParkedInv, TypeOK, StatusIsItsOwn, Parkable
  <2>2. Parkable(parked')
    BY <2>1, ParkableStep
  <2>3. TypeOK'
    BY <2>1, <2>2, TypeStep
  <2> QED  BY <2>2, <2>3 DEF ParkedInv, StatusIsItsOwn, Parkable
<1> QED  BY <1>1, <1>2, PTL DEF Spec

(* Every step keeps the types; the backend keeps its limits whatever the   *)
(* clients send and the guest leaves unread.                               *)
THEOREM TypeOKHolds == Spec => []TypeOK
<1>1. ParkedInv => TypeOK
  BY DEF ParkedInv
<1> QED  BY <1>1, ParkedInvHolds, PTL

(* The mark of a delivered status stands for the first response parked, and*)
(* leaves with it.                                                         *)
THEOREM StatusIsItsOwnHolds == Spec => []StatusIsItsOwn
<1>1. ParkedInv => StatusIsItsOwn
  BY DEF ParkedInv
<1> QED  BY <1>1, ParkedInvHolds, PTL

-----------------------------------------------------------------------------
(* The client of the guest's session.                                      *)

(* No step loses the client's departure.                                   *)
LEMMA HangUpStep == ASSUME SessionType, HangUpReported, [Next]_vars PROVE HangUpReported'
<1> USE NobodyAssumption, KindsAssumption DEF SessionType, HangUpReported, Gone, CloseInstalled
<1>1. ASSUME NEW c \in Clients, Accept(c) PROVE HangUpReported'
  BY <1>1 DEF Accept, Unused
<1>2. ASSUME NEW c \in Clients, KindMismatch(c) PROVE HangUpReported'
  BY <1>2 DEF KindMismatch
<1>3. ASSUME NEW c \in Clients, HangUp(c) \/ AnswerFails(c) PROVE HangUpReported'
  BY <1>3 DEF HangUp, AnswerFails
<1>4. ASSUME NEW c \in Clients, \/ Agree(c) \/ Renegotiate(c)
                                \/ \E kind \in RecordKinds : Receives(c, kind)
      PROVE  HangUpReported'
  BY <1>4 DEF Agree, Renegotiate, Receives
<1>5. ASSUME NEW c \in Clients, SignalReady(c) \/ Park(c) \/ RaiseAttention(c) \/ ReaderEnds(c)
      PROVE  HangUpReported'
  BY <1>5 DEF SignalReady, Park, RaiseAttention, ReaderEnds
<1>6. ASSUME NEW c \in Clients, SessionGone(c) PROVE HangUpReported'
  BY <1>6 DEF SessionGone
<1>7. CASE Construct \/ ResetAttention
  BY <1>7 DEF Construct, ResetAttention
<1>8. CASE Release \/ Ipl
  BY <1>8 DEF Release, Ipl
<1>9. CASE Guest
  <2>1. CASE WriteFails
    BY <2>1 DEF WriteFails
  <2>2. CASE GuestConfigures \/ \E o \in Operations : CancelPending(o)
    BY <2>2 DEF GuestConfigures, CancelPending
  <2>3. CASE PutWithInvite \/ AwaitResponse \/ ReadInputFields \/ SaveScreen
    BY <2>3 DEF PutWithInvite, AwaitResponse, ReadInputFields, SaveScreen, Request
  <2> QED  BY <1>9, <2>1, <2>2, <2>3 DEF Guest
<1>10. CASE PowerOff
  BY <1>10 DEF PowerOff
<1>11. CASE Bind
  BY <1>11 DEF Bind
<1>12. CASE \/ DeliverInputStatus \/ NoInputStatus \/ \E o \in Operations : CompleteOperation(o)
            \/ CompleteNothing \/ DeliverControl \/ Defer \/ IgnoreAttention
  BY <1>12 DEF DeliverInputStatus, NoInputStatus, CompleteOperation, CompleteNothing,
               DeliverControl, Defer, IgnoreAttention
<1>13. CASE UNCHANGED vars
  BY <1>13
<1> QED
  BY <1>1, <1>2, <1>3, <1>4, <1>5, <1>6, <1>7, <1>8, <1>9, <1>10, <1>11, <1>12, <1>13
  DEF Next, Client, Reader, Chain

(* The client at whose display the guest's session was started cannot go   *)
(* without its close handler being due or the power-off latch being up,    *)
(* unless it went before its session had signalled.                        *)
THEOREM HangUpReportedHolds == Spec => []HangUpReported
<1>1. Init => HangUpReported
  BY NobodyAssumption DEF Init, HangUpReported
<1>2. TypeOK => SessionType
  BY DEF TypeOK, SessionType
<1>3. SessionType /\ HangUpReported /\ [Next]_vars => HangUpReported'
  BY HangUpStep
<1> QED  BY <1>1, <1>2, <1>3, TypeOKHolds, PTL DEF Spec

-----------------------------------------------------------------------------
(* A transferred display carries out the guest's commands: the power-off   *)
(* that makes it reject them takes the transfer back, and only a bind      *)
(* transfers it again.                                                     *)
THEOREM TransferredNotDetachedHolds == Spec => []TransferredNotDetached
<1> USE DEF TransferredNotDetached
<1>1. Init => TransferredNotDetached
  BY DEF Init
<1>2. ASSUME TransferredNotDetached, [Next]_vars
      PROVE  TransferredNotDetached'
  <2>1. ASSUME NEW c \in Clients, Client(c) \/ Reader(c) PROVE UNCHANGED <<transferred, detached>>
    BY <2>1 DEF Client, Accept, Agree, Renegotiate, KindMismatch, HangUp, AnswerFails,
                Receives, Reader, SignalReady, Park, RaiseAttention, SessionGone, ReaderEnds
  <2>2. CASE Construct \/ ResetAttention
    BY <1>2, <2>2 DEF Construct, ResetAttention
  <2>3. CASE Release \/ Ipl
    BY <2>3 DEF Release, Ipl
  <2>4. CASE Guest
    BY <1>2, <2>4 DEF Guest, GuestConfigures, PutWithInvite, AwaitResponse, ReadInputFields,
                      SaveScreen, Request, WriteFails, CancelPending
  <2>5. CASE PowerOff
    BY <2>5 DEF PowerOff
  <2>6. CASE Bind
    BY <1>2, <2>6 DEF Bind
  <2>7. CASE \/ DeliverInputStatus \/ NoInputStatus \/ CompleteNothing
             \/ \E o \in Operations : CompleteOperation(o)
             \/ DeliverControl \/ Defer \/ IgnoreAttention
    BY <1>2, <2>7 DEF DeliverInputStatus, NoInputStatus, CompleteOperation, CompleteNothing,
                      DeliverControl, Defer, IgnoreAttention
  <2>8. CASE UNCHANGED vars
    BY <1>2, <2>8
  <2> QED  BY <1>2, <2>1, <2>2, <2>3, <2>4, <2>5, <2>6, <2>7, <2>8 DEF Next, Chain
<1> QED  BY <1>1, <1>2, PTL DEF Spec
=============================================================================
