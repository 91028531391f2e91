--------------------------- MODULE MspInstructions ---------------------------
(***************************************************************************)
(* The instruction set of the main storage processor                       *)
(* (MainStorageProcessor.cpp, InstructionSet.cpp, MspRegisters.cpp).       *)
(*                                                                         *)
(* A machine is a record of store (the bytes a program can reach: an       *)
(* address outside its domain is protected, or beyond storage), reg (the   *)
(* 2-byte registers), pact (the prefix beside each of them), psr (the      *)
(* conditions that are on), privileged and dispatching (bits 7 and 0 of    *)
(* the program mode), check (the request block's burst check), jumped and  *)
(* end (how the instruction ended: none, aborted, called or stopped).      *)
(* An operand is named by its rightmost byte and processed from right to   *)
(* left.  The translation of an address, breakpoints, patches and traces   *)
(* are left out.                                                           *)
(***************************************************************************)
EXTENDS Integers, Sequences, SequencesExt, FiniteSetsExt, TLC

At(a, i) == (a + i) % 65536

Offsets(n) == [i \in 1 .. n |-> i - 1]

ToNumber(bytes) == FoldLeft(LAMBDA v, b : v * 256 + b, 0, bytes)

-----------------------------------------------------------------------------
(* Operand bytes.  After an abort nothing is read and nothing is written.  *)

Reach(m, addresses) ==
    IF m.end = "none" /\ ~(addresses \subseteq DOMAIN m.store)
    THEN [m EXCEPT !.end = "aborted"] ELSE m

Byte(m, a) == IF m.end # "aborted" /\ a \in DOMAIN m.store THEN m.store[a] ELSE 0

Put(m, a, v) ==
    IF m.end = "aborted" \/ a \notin DOMAIN m.store THEN Reach(m, {a})
    ELSE [m EXCEPT !.store[a] = v]

Bits(v) == {b \in {1, 2, 4, 8, 16, 32, 64, 128} : (v \div b) % 2 = 1}

Field(m, a) == ToNumber(<<Byte(m, At(a, -1)), Byte(m, a)>>)

-----------------------------------------------------------------------------
(* Conditions.                                                             *)

Order == {"equal", "low", "high"}

Weight == [equal |-> 1, low |-> 2, high |-> 4, decimal |-> 8, false |-> 16,
           binary |-> 32, bit1 |-> 64, bit0 |-> 128]

Mask(v) == {c \in DOMAIN Weight : (v \div Weight[c]) % 2 = 1}

Psr(m) == MapThenSumSet(LAMBDA c : Weight[c], m.psr)

LoadPsr(p) ==
    IF "equal" \in p THEN p \ {"low", "high"}
    ELSE IF "low" \in p THEN p \ {"high"} ELSE p \cup {"high"}

Status(m, cleared, now) ==
    IF m.end = "aborted" THEN m
    ELSE [m EXCEPT !.psr = LoadPsr((@ \ cleared) \cup now)]

Compared(x, y) == IF x < y THEN "low" ELSE IF x > y THEN "high" ELSE "equal"

SetCompare(m, x, y) == Status(m, Order, {Compared(x, y)})

(* The conditions a branch tests, and what testing them turns off.         *)
Tested(q) == Mask(q) \ {"bit0", "bit1"}

ConditionTrue(m, q) ==
    (Tested(q) \cap m.psr # {}) <=> ("bit0" \in Mask(q))

AfterTest(m, q) ==
    LET off == Tested(q) \cap {"false", "decimal"}
    IN  IF off = {} THEN m ELSE [m EXCEPT !.psr = LoadPsr(@ \ off)]

-----------------------------------------------------------------------------
(* Characters.                                                             *)

MoveCharacters(m, q, a, b) ==
    FoldLeft(LAMBDA x, i : Put(Reach(x, {At(b, -i)}), At(a, -i), Byte(x, At(b, -i))),
             m, Offsets(q + 1))

MoveHex(m, q, a, b) ==
    LET d == Byte(m, a)
        half == IF q % 2 = 1 THEN (Byte(m, b) % 16) ELSE Byte(m, b) \div 16
        v == IF (q \div 2) % 2 = 1 THEN 16 * (d \div 16) + half ELSE (d % 16) + 16 * half
    IN  Put(Reach(m, {a, b}), a, v)

(* From the left, and no further than the first bytes that differ.         *)
CompareCharacters(m, q, a, b) ==
    LET differ == {i \in 0 .. q : Byte(m, At(a, -i)) # Byte(m, At(b, -i))}
        last == IF differ = {} THEN 0 ELSE Max(differ)
    IN  SetCompare(Reach(m, UNION {{At(a, -i), At(b, -i)} : i \in last .. q}),
                   Byte(m, At(a, -last)), Byte(m, At(b, -last)))

AddLogical(m, q, a, b, subtract) ==
    LET Addend(x, i) == LET v == Byte(x, At(b, -i)) IN IF subtract THEN 255 - v ELSE v
        Total(s, i) == Byte(s.m, At(a, -i)) + Addend(s.m, i) + s.carry
        last == FoldLeft(LAMBDA s, i :
                   [m |-> Put(Reach(s.m, {At(a, -i), At(b, -i)}), At(a, -i), Total(s, i) % 256),
                    carry |-> Total(s, i) \div 256,
                    zero |-> s.zero /\ Total(s, i) % 256 = 0],
                   [m |-> m, carry |-> IF subtract THEN 1 ELSE 0, zero |-> TRUE], Offsets(q + 1))
        overflow == IF subtract THEN {} ELSE {"binary"}
    IN  Status(last.m, Order \cup overflow,
               {IF last.zero THEN "equal" ELSE IF last.carry = 1 THEN "high" ELSE "low"}
                  \cup (IF last.carry = 1 THEN overflow ELSE {}))

SubtractLogicalImmediate(m, q, a) ==
    SetCompare(Put(m, a, (Byte(m, a) - q) % 256), Byte(m, a), q)

TestBits(m, bits, sense, a) ==
    LET tested == Bits(Byte(m, a)) \cap Bits(bits)
        holds == IF sense THEN tested = Bits(bits) ELSE tested = {}
    IN  IF holds THEN Reach(m, {a}) ELSE Status(Reach(m, {a}), {}, {"false"})

SetBits(m, bits, a) == Put(m, a, Byte(m, a) + SumSet(Bits(bits) \ Bits(Byte(m, a))))

ClearBits(m, bits, a) == Put(m, a, Byte(m, a) - SumSet(Bits(bits) \cap Bits(Byte(m, a))))

ShiftRightCharacter(m, q, a) ==
    LET n == (q % 16) + 1
        OneBit(s) ==
            LET bits == FoldLeft(LAMBDA x, i :
                    LET c == At(a, i + 1 - n)
                        v == Byte(x.m, c)
                    IN  [m |-> Put(x.m, c, 128 * x.carry + (v \div 2)), carry |-> v % 2],
                    [m |-> s.m, carry |-> 0], Offsets(n))
            IN  [m |-> bits.m, lost |-> s.lost \/ bits.carry = 1]
        last == FoldLeft(LAMBDA s, k : OneBit(s), [m |-> m, lost |-> FALSE], Offsets((q \div 16) + 1))
        rest == {Byte(last.m, At(a, -i)) : i \in 0 .. n - 1}
    IN  Status(last.m, Order \cup {"binary"},
               {IF rest = {0} THEN "equal" ELSE IF Byte(last.m, a) % 2 = 1 THEN "high" ELSE "low"}
                  \cup (IF last.lost THEN {"binary"} ELSE {}))

-----------------------------------------------------------------------------
(* Zoned decimal: the digit in the low half of a byte, the sign in the     *)
(* zone of the rightmost byte.                                             *)

ZonePlus == 15 * 16
ZoneMinus == 13 * 16

Negative(m, a) == Byte(m, a) \div 16 = 13

ReadZoned(m, a, n) ==
    LET v == FoldLeft(LAMBDA x, i : 10 * x + (Byte(m, At(a, i + 1 - n)) % 16), 0, Offsets(n))
    IN  IF Negative(m, a) THEN -v ELSE v

Magnitude(v) == IF v < 0 THEN -v ELSE v

WriteZoned(m, a, n, v) ==
    FoldLeft(LAMBDA x, i :
        Put(x, At(a, -i), (IF i = 0 /\ v < 0 THEN ZoneMinus ELSE ZonePlus)
                            + ((Magnitude(v) \div (10 ^ i)) % 10)),
        m, Offsets(n))

SetDecimalResult(m, a, v, overflow) ==
    IF m.end = "aborted" THEN m
    ELSE Status([m EXCEPT !.reg.arr = a], Order \cup {"decimal"},
                {CASE v > 0 -> "high" [] v < 0 -> "low" [] OTHER -> "equal"}
                   \cup (IF overflow THEN {"decimal"} ELSE {}))

Length2(q) == (q % 16) + 1

Length1(q) == (q \div 16) + Length2(q)

Digits(m, a, n) == {At(a, -i) : i \in 0 .. n - 1}

(* Digits are moved as they are; only the source's own digits count.       *)
ZeroAndAddZoned(m, q, a, b) ==
    LET Digit(x, i) == IF i < Length2(q) THEN Byte(x, At(b, -i)) % 16 ELSE 0
        minus == Negative(m, b)
        last == FoldLeft(LAMBDA s, i :
                   [m |-> Put(IF i < Length2(q) THEN Reach(s.m, {At(b, -i)}) ELSE s.m, At(a, -i),
                              (IF i = 0 /\ minus THEN ZoneMinus ELSE ZonePlus) + Digit(s.m, i)),
                    zero |-> s.zero /\ Digit(s.m, i) = 0],
                   [m |-> Reach(m, {b}), zero |-> TRUE], Offsets(Length1(q)))
    IN  SetDecimalResult(last.m, a, IF last.zero THEN 0 ELSE IF minus THEN -1 ELSE 1, FALSE)

(* A bug to tell from the code: the condition is that of the stored field. *)
AddZoned_Stored(m, q, a, b, subtract) ==
    LET x == ReadZoned(m, a, Length1(q))
        y == ReadZoned(m, b, Length2(q))
        v == IF subtract THEN x - y ELSE x + y
        read == Reach(m, Digits(m, a, Length1(q)) \cup Digits(m, b, Length2(q)))
        stored == WriteZoned(read, a, Length1(q), v)
    IN  SetDecimalResult(stored, a, ReadZoned(stored, a, Length1(q)), Magnitude(v) >= 10 ^ Length1(q))

AddZoned(m, q, a, b, subtract) ==
    LET x == ReadZoned(m, a, Length1(q))
        y == ReadZoned(m, b, Length2(q))
        v == IF subtract THEN x - y ELSE x + y
        read == Reach(m, Digits(m, a, Length1(q)) \cup Digits(m, b, Length2(q)))
    IN  SetDecimalResult(WriteZoned(read, a, Length1(q), v), a, v, Magnitude(v) >= 10 ^ Length1(q))

EditMark == 32

Edit(m, q, a, b) ==
    LET last == FoldLeft(LAMBDA s, i :
            IF Byte(s.m, At(a, -i)) # EditMark THEN [s EXCEPT !.m = Reach(@, {At(a, -i)})]
            ELSE [m |-> Put(Reach(s.m, {At(b, -s.taken)}), At(a, -i),
                            ZonePlus + (Byte(s.m, At(b, -s.taken)) % 16)),
                  taken |-> s.taken + 1],
            [m |-> m, taken |-> 0], Offsets(q + 1))
        v == ReadZoned(last.m, b, last.taken)
    IN  IF last.taken = 0 THEN Status(last.m, Order, {})
        ELSE Status(last.m, Order, {Compared(v, 0)})

InsertAndTestCharacters(m, q, a, b) ==
    LET Significant(x, i) == Byte(x, At(a, i)) \in ZonePlus + 1 .. ZonePlus + 9
        last == FoldLeft(LAMBDA s, i :
            IF s.found \/ Significant(s.m, i) THEN [s EXCEPT !.found = TRUE]
            ELSE [s EXCEPT !.m = Put(s.m, At(a, i), Byte(m, b)), !.at = i + 1],
            [m |-> Reach(m, {b}), found |-> FALSE, at |-> 0], Offsets(q + 1))
    IN  IF last.m.end = "aborted" THEN last.m ELSE [last.m EXCEPT !.reg.arr = At(a, last.at)]

-----------------------------------------------------------------------------
(* Registers.                                                              *)

Registers == {"xr1", "xr2", "arr", "iar", "wr4", "wr5", "wr6", "wr7"}

Selectors == [xr1 |-> {\h1, \h3, \h41, \hA1}, xr2 |-> {\h2, \h42, \hA2}, psr |-> {\h4},
              arr |-> {\h8, \h43}, iar |-> {\h10, \h20, \h40, \hA3}, wr4 |-> {\h44},
              wr5 |-> {\h45}, wr6 |-> {\h46}, wr7 |-> {\h47}, dir |-> {\hA0}]

Selected(q) ==
    IF \E r \in DOMAIN Selectors : q \in Selectors[r]
    THEN CHOOSE r \in DOMAIN Selectors : q \in Selectors[r] ELSE "xr1"

ThreeByteForm(q) == q \in \hA0 .. \hA3

(* dir has a prefix and no register: its number is 0.                      *)
GetRegister(m, r) == CASE r = "dir" -> 0 [] r = "psr" -> Psr(m) [] OTHER -> m.reg[r]

GetSelected(m, q) == GetRegister(m, Selected(q))

SetRegister(m, r, v) ==
    CASE r = "dir" -> m
      [] r = "psr" -> [m EXCEPT !.psr = LoadPsr(Mask(v % 256))]
      [] OTHER -> [m EXCEPT !.reg[r] = v, !.jumped = @ \/ r = "iar"]

SetPrefix(m, r, v) == [m EXCEPT !.pact[r] = v]

(* The prefix is loaded even when reading it aborts.                       *)
SetSelected(m, q, v, a) ==
    CASE q = 0 -> m
      [] ThreeByteForm(q) -> SetRegister(SetPrefix(Reach(m, {At(a, -2)}), Selected(q), Byte(m, At(a, -2))),
                                         Selected(q), v)
      [] OTHER -> SetRegister(m, Selected(q), v)

LoadRegister(m, q, a) ==
    LET read == Reach(m, {At(a, -1), a})
    IN  IF read.end = "aborted" THEN read ELSE SetSelected(read, q, Field(m, a), a)

WriteField(m, a, v) == Put(Put(m, At(a, -1), v \div 256), a, v % 256)

StoreRegister(m, q, a) ==
    LET stored == WriteField(m, a, GetSelected(m, q))
    IN  IF ThreeByteForm(q) THEN Put(stored, At(a, -2), m.pact[Selected(q)]) ELSE stored

LoadAddress(m, q, prefix, a) ==
    CASE q = 0 -> m
      [] ThreeByteForm(q) -> SetRegister(SetPrefix(m, Selected(q), prefix), Selected(q), a)
      [] OTHER -> SetRegister(m, Selected(q), a)

SetSum(m, q, sum, carry, overflow) ==
    LET set == IF q = 0 THEN m ELSE SetRegister(m, Selected(q), sum % 65536)
    IN  IF m.end = "aborted" THEN m
        ELSE IF q = 4 THEN set
        ELSE Status(set, Order \cup overflow,
                    {IF sum % 65536 = 0 THEN "equal" ELSE IF carry THEN "high" ELSE "low"}
                       \cup (IF carry THEN overflow ELSE {}))

AddToRegister(m, q, a, subtract) ==
    LET Sum(r, v) ==
            IF subtract THEN SetSum(Reach(m, {At(a, -1), a}), q, r - v, v <= r, {})
            ELSE SetSum(Reach(m, {At(a, -1), a}), q, r + v, r + v > 65535, {"binary"})
    IN  Sum(GetSelected(m, q), Field(m, a))

(* The program mode: whether dispatching is enabled, whether the program   *)
(* is privileged, and one bit for each prefix that selects translation.    *)
ModeBit == [dir |-> 2, xr1 |-> 16, xr2 |-> 4, iar |-> 8]

On(v, bit) == (v \div bit) % 2 = 1

SetPrefixes(m, r) ==
    [m EXCEPT !.pact = [p \in DOMAIN @ |-> (@[p] % 128) + IF On(r, ModeBit[p]) THEN 128 ELSE 0]]

SetOwn(m, r) == [m EXCEPT !.privileged = ~On(r, 1), !.dispatching = On(r, 128)]

LoadProgramModeRegister(m, q, r) ==
    CASE ~m.privileged \/ q \notin {0, \h80} -> [m EXCEPT !.end = "stopped"]
      [] m.privileged /\ q = \h80 -> SetOwn(m, r)
      [] m.privileged /\ q = 0 -> SetPrefixes(SetOwn(m, r), r)

-----------------------------------------------------------------------------
(* Decoding and execution.                                                 *)

Modes == <<"direct", "xr1", "xr2", "none">>

Mode1(op) == Modes[(op \div 64) + 1]

Mode2(op) == Modes[((op \div 16) % 4) + 1]

ModeWidth == [direct |-> 2, xr1 |-> 1, xr2 |-> 1, none |-> 0]

ControlForm == <<"BC", "JC", "JC", "", "SVC", "XFER", "LPMR", "", "", "", "", "", "SVC", "", "", "">>

TwoAddressForm == <<"", "", "", "", "ZAZ", "", "AZ", "SZ", "MVX", "", "ED", "ITC", "MVC", "CLC", "ALC", "SLC">>

OneAddressForm == <<"", "", "", "", "ST", "L", "A", "S", "TBN", "TBF", "SBN", "SBF", "MVI", "CLI", "SRC", "SLI">>

BranchForm == <<"BC", "", "LA", "", "", "", "", "", "", "", "", "", "", "", "", "">>

Mnemonic(op) ==
    LET form == CASE op \div 16 = 15 -> ControlForm
                  [] Mode1(op) # "none" /\ Mode2(op) # "none" -> TwoAddressForm
                  [] Mode1(op) # "none" /\ Mode2(op) = "none" -> OneAddressForm
                  [] OTHER -> BranchForm
    IN  form[(op % 16) + 1]

IsSvc(op) == op \in {\hF4, \hFC}

InlineParameters(r) ==
    CASE r \in {0, 1, 3, \h12, \h19, \h1B, \h22} -> 2
      [] r \in {\h0E, \h0F, \h10, \h14, \h1A, \h50, \h51} -> 3
      [] r \in {4, 8, \h0B, \h0C, \h0D, \h13, \h17, \h1D, \h1E, \h21, \h23, \h24, \h2B, \h4C, \h52} -> 1
      [] OTHER -> 0

Width1(op) == ModeWidth[Mode1(op)]

Width2(op) == IF op \div 16 = 15 THEN 1 ELSE ModeWidth[Mode2(op)]

InstructionLength(op, r) ==
    IF IsSvc(op) THEN 3 + InlineParameters(r) ELSE 2 + Width1(op) + Width2(op)

Decode(m, at) ==
    LET op == Byte(m, at)
        Bytes(from, n) == ToNumber([i \in 1 .. n |-> Byte(m, At(at, from + i - 1))])
    IN  [op |-> op, q |-> Byte(m, At(at, 1)), mnemonic |-> Mnemonic(op),
         operand1 |-> Bytes(2, Width1(op)), operand2 |-> Bytes(2 + Width1(op), Width2(op)),
         length |-> InstructionLength(op, Byte(m, At(at, 2)))]

Base(m, mode) ==
    CASE mode = "direct" -> 0 [] mode = "none" -> m.reg.arr [] OTHER -> m.reg[mode]

Logical(m, mode, value) == At(Base(m, mode), value)

Prefix(m, mode) == IF mode \in {"xr1", "xr2"} THEN m.pact[mode] ELSE m.pact.dir

(* Branches, calls and LA do not look at storage.                          *)
Operands(m, i) ==
    IF i.op \div 16 = 15 \/ i.mnemonic \in {"BC", "LA"} THEN {}
    ELSE (IF Width1(i.op) > 0 THEN {Logical(m, Mode1(i.op), i.operand1)} ELSE {})
            \cup (IF Width2(i.op) > 0 THEN {Logical(m, Mode2(i.op), i.operand2)} ELSE {})

GoTo(m, target) == [m EXCEPT !.reg.iar = target, !.jumped = TRUE]

BranchOnCondition(m, q, next, target) ==
    LET tested == AfterTest(m, q)
    IN  IF ConditionTrue(m, q) THEN GoTo([tested EXCEPT !.reg.arr = next], target) ELSE tested

JumpOnCondition(m, i, next) ==
    LET target == At(next, IF i.op = \hF1 THEN -i.operand2 ELSE i.operand2)
        tested == AfterTest(m, i.q)
    IN  IF ConditionTrue(m, i.q) THEN GoTo(tested, target) ELSE tested

(* An unassigned code ends a burst: it stops the machine when the request  *)
(* block asks for that, once, and is passed over otherwise.                *)
Escape(m, next) ==
    IF m.check THEN [GoTo(m, next) EXCEPT !.end = "stopped", !.check = FALSE] ELSE GoTo(m, next)

Operation(m, i, a, b, next) ==
    CASE i.mnemonic \in {"SVC", "XFER"} -> [GoTo(m, next) EXCEPT !.end = "called"]
      [] i.mnemonic = "MVC" -> MoveCharacters(m, i.q, a, b)
      [] i.mnemonic = "MVI" -> Put(m, a, i.q)
      [] i.mnemonic = "CLC" -> CompareCharacters(m, i.q, a, b)
      [] i.mnemonic = "CLI" -> SetCompare(Reach(m, {a}), Byte(m, a), i.q)
      [] i.mnemonic = "ALC" -> AddLogical(m, i.q, a, b, FALSE)
      [] i.mnemonic = "SLC" -> AddLogical(m, i.q, a, b, TRUE)
      [] i.mnemonic = "SLI" -> SubtractLogicalImmediate(m, i.q, a)
      [] i.mnemonic = "TBN" -> TestBits(m, i.q, TRUE, a)
      [] i.mnemonic = "TBF" -> TestBits(m, i.q, FALSE, a)
      [] i.mnemonic = "SBN" -> SetBits(m, i.q, a)
      [] i.mnemonic = "SBF" -> ClearBits(m, i.q, a)
      [] i.mnemonic = "MVX" -> MoveHex(m, i.q, a, b)
      [] i.mnemonic = "ZAZ" -> ZeroAndAddZoned(m, i.q, a, b)
      [] i.mnemonic = "AZ" -> AddZoned(m, i.q, a, b, FALSE)
      [] i.mnemonic = "SZ" -> AddZoned(m, i.q, a, b, TRUE)
      [] i.mnemonic = "SRC" -> ShiftRightCharacter(m, i.q, a)
      [] i.mnemonic = "ED" -> Edit(m, i.q, a, b)
      [] i.mnemonic = "ITC" -> InsertAndTestCharacters(m, i.q, a, b)
      [] i.mnemonic = "LPMR" -> LoadProgramModeRegister(m, i.q, i.operand2)
      [] i.mnemonic = "L" -> LoadRegister(m, i.q, a)
      [] i.mnemonic = "ST" -> StoreRegister(m, i.q, a)
      [] i.mnemonic = "A" -> AddToRegister(m, i.q, a, FALSE)
      [] i.mnemonic = "S" -> AddToRegister(m, i.q, a, TRUE)
      [] i.mnemonic = "LA" -> LoadAddress(m, i.q, Prefix(m, Mode2(i.op)), b)
      [] i.mnemonic = "BC" -> BranchOnCondition(m, i.q, next, b)
      [] i.mnemonic = "JC" -> JumpOnCondition(m, i, next)
      [] OTHER -> Escape(m, next)

(* One instruction: an aborted one leaves the address at itself.  Only the *)
(* page of the first byte is looked at: an instruction does not straddle   *)
(* pages here.                                                             *)
GoOn(m, next) == IF m.end = "none" /\ ~m.jumped THEN GoTo(m, next) ELSE m

Perform(m, i, next) ==
    LET begun == Reach([m EXCEPT !.end = "none", !.jumped = FALSE], {m.reg.iar} \cup Operands(m, i))
    IN  IF begun.end # "none" THEN begun
        ELSE GoOn(Operation(begun, i, Logical(m, Mode1(i.op), i.operand1),
                            Logical(m, Mode2(i.op), i.operand2), next), next)

Step(m) ==
    LET Decoded(i) == Perform(m, i, At(m.reg.iar, i.length))
    IN  Decoded(Decode(m, m.reg.iar))

-----------------------------------------------------------------------------
(* What the instructions promise, over the boundary values of short        *)
(* fields.  Field 1 ends at X and field 2 at Y.                            *)

X == 10
Y == 20

Machine(store) ==
    [store |-> store, reg |-> [r \in Registers |-> 0], psr |-> {"high"},
     pact |-> [p \in {"dir", "xr1", "xr2", "iar"} |-> 0],
     privileged |-> TRUE, dispatching |-> TRUE, check |-> FALSE, jumped |-> FALSE,
     end |-> "none"]

(* The bytes of s, the last of them at address a.                          *)
EndingAt(s, a) == [k \in a + 1 - Len(s) .. a |-> s[k - a + Len(s)]]

Blank == [k \in 0 .. 63 |-> 0]

Holding(x, y) == Machine(EndingAt(x, X) @@ EndingAt(y, Y) @@ Blank)

Number(m, a, n) == ToNumber([i \in 1 .. n |-> m.store[a - n + i]])

Edges == {0, 1, 127, 128, 255}

Binary == UNION {[1 .. n -> Edges] : n \in 1 .. 2}

(* ALC adds and SLC subtracts as whole numbers do, and leaves the order    *)
(* that CLC finds; SRC divides, and binary overflow tells the remainder.   *)
BinaryIsRight ==
    \A x \in Binary : \A y \in [DOMAIN x -> Edges] :
        LET n == Len(x)
            u == ToNumber(x)
            v == ToNumber(y)
            sum == AddLogical(Holding(x, y), n - 1, X, Y, FALSE)
            rest == AddLogical(Holding(x, y), n - 1, X, Y, TRUE)
        IN  /\ Number(sum, X, n) = (u + v) % (256 ^ n)
            /\ "binary" \in sum.psr <=> u + v >= 256 ^ n
            /\ "equal" \in sum.psr <=> (u + v) % (256 ^ n) = 0
            /\ Number(rest, X, n) = (u - v) % (256 ^ n)
            /\ rest.psr \cap Order = {Compared(u, v)}
            /\ rest.psr = CompareCharacters(Holding(x, y), n - 1, X, Y).psr
            /\ Number(AddLogical(rest, n - 1, X, Y, FALSE), X, n) = u

ShiftsAreRight ==
    \A x \in Binary : \A k \in {1, 2, 8, 9} :
        LET done == ShiftRightCharacter(Holding(x, <<0>>), 16 * (k - 1) + Len(x) - 1, X)
            u == ToNumber(x)
        IN  /\ Number(done, X, Len(x)) = u \div (2 ^ k)
            /\ "binary" \in done.psr <=> u % (2 ^ k) # 0
            /\ "equal" \in done.psr <=> u < 2 ^ k

Zoned(digits, minus) ==
    [i \in DOMAIN digits |-> digits[i] + IF minus /\ i = Len(digits) THEN ZoneMinus ELSE ZonePlus]

Sign(v) == CASE v > 0 -> "high" [] v < 0 -> "low" [] OTHER -> "equal"

(* AZ and SZ compute in whole numbers and keep the digits that fit, with   *)
(* the sign and the order of the whole result; ZAZ copies the number; and  *)
(* what was added and is subtracted again was not changed.                 *)
DecimalIsRight ==
    \A l2 \in 1 .. 2, more \in 0 .. 1 :
      \A x \in [1 .. l2 + more -> {0, 9}], y \in [1 .. l2 -> {0, 1, 9}], s \in BOOLEAN, t \in BOOLEAN :
        LET l1 == l2 + more
            q == 16 * more + l2 - 1
            m == Holding(Zoned(x, s), Zoned(y, t))
            u == ReadZoned(m, X, l1)
            v == ReadZoned(m, Y, l2)
            sum == AddZoned(m, q, X, Y, FALSE)
            kept == Magnitude(u + v) % (10 ^ l1)
        IN  /\ ReadZoned(sum, X, l1) = IF u + v < 0 THEN -kept ELSE kept
            /\ "decimal" \in sum.psr <=> Magnitude(u + v) >= 10 ^ l1
            /\ sum.psr \cap Order = {Sign(u + v)}
            /\ "decimal" \notin sum.psr => ReadZoned(AddZoned(sum, q, X, Y, TRUE), X, l1) = u
            /\ ReadZoned(ZeroAndAddZoned(m, q, X, Y), X, l1) = v
            /\ ZeroAndAddZoned(m, q, X, Y).psr \cap Order = {Sign(v)}

(* A field moved onto its left neighbour spreads its last byte; ED fills   *)
(* the marks of a pattern, and only them, with the last digits in order;   *)
(* ITC replaces what precedes the first significant digit.                 *)
CharactersAreRight ==
    /\ \A y \in [1 .. 3 -> {1, 2}] :
          Number(MoveCharacters(Holding(<<0>>, y), 2, Y - 1, Y), Y - 1, 3) = ToNumber([i \in 1 .. 3 |-> y[3]])
    /\ \A x \in [1 .. 3 -> {EditMark, 64}] :
          LET done == Edit(Holding(x, <<\hD1, \hF2, \hD3>>), 2, X, Y)
              marks == {i \in 1 .. 3 : x[i] = EditMark}
          IN  \A i \in 1 .. 3 :
                 done.store[X - 3 + i] = IF i \in marks THEN ZonePlus + 3 - Cardinality({k \in marks : k > i})
                                         ELSE x[i]
    /\ \A x \in [1 .. 3 -> {64, \hF0, \hF5}] :
          LET done == InsertAndTestCharacters(Holding(x, <<92>>), 2, X - 2, Y)
              significant == {i \in 1 .. 3 : x[i] = \hF5}
              first == IF significant = {} THEN 4 ELSE Min(significant)
          IN  /\ done.reg.arr = X - 3 + first
              /\ \A i \in 1 .. 3 : done.store[X - 3 + i] = IF i < first THEN 92 ELSE x[i]

Words == {0, 1, 255, 256, 65535}

(* ST and L, and A and S, undo each other for every selector; S leaves the *)
(* order of the register and the field.                                    *)
RegistersAreRight ==
    \A r \in DOMAIN Selectors \ {"psr"} : \A q \in Selectors[r] : \A u \in Words, v \in Words :
        LET m == SetSelected(Holding(<<7, 0, 0>>, <<v \div 256, v % 256>>), q, u, X)
            loaded == LoadRegister([StoreRegister(m, q, X) EXCEPT !.reg = [k \in Registers |-> 0],
                                        !.pact = [k \in DOMAIN @ |-> 0]], q, X)
            taken == AddToRegister(m, q, Y, TRUE)
        IN  /\ loaded.reg = m.reg
            /\ loaded.pact = m.pact
            /\ r # "dir" => AddToRegister(taken, q, Y, FALSE).reg = m.reg
            /\ taken.psr \cap Order = {Compared(GetSelected(m, q), v)}

(* A condition and its opposite are never both true; a test that failed is *)
(* seen by the branch after any number of further tests, and by one only.  *)
BranchesAreRight ==
    /\ \A p \in SUBSET {"equal", "decimal", "false", "binary"}, q \in 0 .. 63 :
          LET m == [Holding(<<0>>, <<0>>) EXCEPT !.psr = LoadPsr(p)]
          IN  ConditionTrue(m, q) # ConditionTrue(m, q + 128)
    /\ \A v \in {0, 1, 2, 3}, first \in 1 .. 2, second \in 1 .. 2 :
          LET m == Holding(<<v>>, <<0>>)
              tested == TestBits(TestBits(m, first, TRUE, X), second, TRUE, X)
          IN  /\ ConditionTrue(tested, \h90) <=> ~{first, second} \subseteq Bits(v)
              /\ ~ConditionTrue(AfterTest(tested, \h90), \h90)

TwoOperands == {"MVC", "CLC", "ALC", "SLC", "AZ", "SZ", "ZAZ", "ED"}
OneOperand == {"ST", "L", "A", "S", "SRC"}

(* An instruction cut off by a protected byte leaves the conditions, the   *)
(* registers and everything outside its first field as they were - but for *)
(* the prefix forms of L, which have loaded their registers by then.       *)
FaultsAreClean ==
    \A name \in TwoOperands \cup OneOperand, hole \in {X - 2, X - 1, X, Y - 1, Y}, q \in {1, \h11, \hA1} :
        LET m == Holding(<<\hF1, 32, \hF2>>, <<\hF3, \hF4>>)
            cut == [m EXCEPT !.store = [k \in DOMAIN @ \ {hole} |-> @[k]]]
            Clean(done) ==
                done.end = "aborted" =>
                    /\ done.psr = m.psr
                    /\ done.reg = m.reg \/ (name = "L" /\ ThreeByteForm(q))
                    /\ \A k \in DOMAIN cut.store \ (X - 2 .. X) : done.store[k] = m.store[k]
        IN  Clean(Operation(cut, [mnemonic |-> name, op |-> 0,
                                  q |-> IF name \in TwoOperands THEN q % 16 ELSE q], X, Y, 0))

(* A program in storage: it adds the byte at 61 to the one at 62 as often  *)
(* as the byte at 60 says, and calls the control processor.                *)
MultiplyProgram ==
    << \h3D, 0, 0, 60,            \* CLI 60,0
       \hF2, \h81, 13,            \* JC  equal, on to the call
       \h0E, 0, 0, 62, 0, 61,     \* ALC 62,61
       \h3F, 1, 0, 60,            \* SLI 60,1
       \hF1, 0, 20,               \* JC  always, back to the start
       \hF4, 0, 5 >>              \* SVC

ProgramsRun ==
    \A x \in {0, 1, 2, 3}, y \in {0, 5, 100} :
        LET m == Machine(EndingAt(MultiplyProgram, Len(MultiplyProgram) - 1) @@ (60 :> x @@ 61 :> y) @@ Blank)
            Called(done) ==
                /\ done.end = "called"
                /\ done.reg.iar = Len(MultiplyProgram)
                /\ done.store[62] = (x * y) % 256
        IN  Called(FoldLeft(LAMBDA k, n : IF k.end = "none" THEN Step(k) ELSE k, m, Offsets(20)))

InstructionsHold ==
    /\ BinaryIsRight
    /\ ShiftsAreRight
    /\ DecimalIsRight
    /\ CharactersAreRight
    /\ RegistersAreRight
    /\ BranchesAreRight
    /\ FaultsAreClean
    /\ ProgramsRun
=============================================================================
