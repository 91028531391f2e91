--------------------------- MODULE StationBackend ---------------------------
(***************************************************************************)
(* What a display's backend parks for the guest                            *)
(* (src/Host/StationBackend.cpp, WorkstationBackend), as a record p:       *)
(*   inbound      the responses not yet read, oldest first;                *)
(*   statusTaken  headStatusTaken_: the status of the first was delivered; *)
(*   saves        the number of Save Screen responses not yet read;        *)
(*   control      an Attention or System Request waits for the guest.      *)
(* A response r is known by whether it is long enough to carry a cursor    *)
(* and an AID (r.whole) and, as history, by whether its own status was     *)
(* ever delivered (r.reported).  Every operator is one critical section of *)
(* the backend's gate.                                                     *)
(* <Operator>_<Fault> is the operator with a plausible bug.                *)
(***************************************************************************)
EXTENDS Naturals, Sequences

CONSTANTS
    InboundLimit,   \* kInboundLimit
    SaveLimit,      \* kSaveResponseLimit
    RecordKinds     \* what clients send, of the four kinds below

ASSUME LimitsAssumption == {InboundLimit, SaveLimit} \subseteq Nat \ {0}

(* A response to a read, one too short to be one (the answer to Cancel     *)
(* Invite), a key without data, or a screen image.                         *)
ASSUME KindsAssumption == RecordKinds \subseteq {"input", "short", "control", "save"}

NothingParked == [inbound |-> <<>>, statusTaken |-> FALSE, saves |-> 0, control |-> FALSE]

InputResponses == [whole : BOOLEAN, reported : BOOLEAN]

ParkedRecords == [inbound : {s \in Seq(InputResponses) : Len(s) <= InboundLimit},
                  statusTaken : BOOLEAN, saves : 0..SaveLimit, control : BOOLEAN]

RaisesAttention(kind) == kind \in {"input", "control"}

Enqueue_KeepsStatus(p, kind) ==
    LET kept == IF Len(p.inbound) = InboundLimit THEN Tail(p.inbound) ELSE p.inbound
    IN  CASE kind = "control" -> [p EXCEPT !.control = TRUE]
          [] kind = "save"    -> [p EXCEPT !.saves = IF @ = SaveLimit THEN @ ELSE @ + 1]
          [] OTHER -> [p EXCEPT !.inbound =
                          Append(kept, [whole |-> kind = "input", reported |-> FALSE])]

(* The newest response displaces the oldest, and with it its status; a     *)
(* Save Screen response beyond the limit displaces one; a key displaces    *)
(* the key before it.                                                      *)
Enqueue(p, kind) ==
    LET displaces == Len(p.inbound) = InboundLimit
        kept      == IF displaces THEN Tail(p.inbound) ELSE p.inbound
    IN  CASE kind = "control" -> [p EXCEPT !.control = TRUE]
          [] kind = "save"    -> [p EXCEPT !.saves = IF @ = SaveLimit THEN @ ELSE @ + 1]
          [] OTHER -> [p EXCEPT !.inbound =
                          Append(kept, [whole |-> kind = "input", reported |-> FALSE]),
                                !.statusTaken = @ /\ ~displaces]

StatusAvailable(p) == ~p.statusTaken /\ p.inbound # <<>> /\ Head(p.inbound).whole

TakeInputStatus(p) == [p EXCEPT !.statusTaken = TRUE, !.inbound[1].reported = TRUE]

Receive(p) == [p EXCEPT !.inbound = Tail(@), !.statusTaken = FALSE]

TakeSaveScreen_Peeks(p) == p

TakeSaveScreen(p) == [p EXCEPT !.saves = @ - 1]

TakeUnsolicitedRequest(p) == [p EXCEPT !.control = FALSE]

(* The mark stands for the first response and for no other.                *)
MarkIsItsOwn(p) ==
    /\ p.statusTaken => p.inbound # <<>>
    /\ \A i \in DOMAIN p.inbound : p.inbound[i].reported <=> i = 1 /\ p.statusTaken
=============================================================================
