----------------------------- MODULE BasicAssist -----------------------------
(***************************************************************************)
(* The interpreter of compiled BASIC programs (BasicAssist.cpp), reached   *)
(* by XFER 02,00.  A guest is a record of its control block, cb, and of    *)
(* store, the cells a program can address, each under the address of its   *)
(* first byte: opcodes, statement headers, transfer records, 2-byte        *)
(* fields, numbers and strings.  The interpreter adds its own registers    *)
(* (ip, sp, control, operand) and exit, how it leaves: to the guest        *)
(* routine in a vector of the control block or at an address, to an XR2    *)
(* value, or not at all.  Storage that cannot be reached is left out.      *)
(***************************************************************************)
EXTENDS BasicNumber, TLC

(* 255 in the program: the longest string.                                 *)
CONSTANT LongestString

ASSUME StringAssumption == LongestString \in Nat \ {0}

Running == <<"running", 0>>

(* The guest routines, by where their address stands in the control block; *)
(* those of the arrays stand in the task block.                            *)
Routine ==
    [transfer |-> 67, return |-> 69, stack |-> 71, empty |-> 73, full |-> 75, unwound |-> 81,
     gate |-> 85, overflow |-> 87, underflow |-> 89, divide |-> 91, string |-> 93,
     statement |-> 97, range |-> 1083, undefined |-> 1095]

Leave(m, routine) == [m EXCEPT !.exit = <<"routine", Routine[routine]>>]

LeaveTo(m, kind, n) == [m EXCEPT !.exit = <<kind, n>>]

StackError(m) == Leave(m, "stack")

-----------------------------------------------------------------------------
(* Cells and the stack.                                                    *)

Half(n) == [size |-> 2, half |-> n]

NumberCell(x) == [size |-> NumberSize, number |-> x]

Flag(b) == [size |-> 1, on |-> b]

Text(s) == [size |-> Len(s) + 1, text |-> s]

Length(n) == [size |-> 1, length |-> n]

Capacity(n) == [size |-> 1, capacity |-> n]

Store(m, a, c) == [m EXCEPT !.store = (a :> c) @@ @]

CanPush(m, n) == m.sp + n <= m.cb.stackLimit + 1

HasTop(m, n) == m.sp >= m.cb.stackBase + n

Pop(m, n) == [m EXCEPT !.sp = @ - n]

Push(m, c) ==
    IF CanPush(m, c.size) THEN [Store(m, m.sp, c) EXCEPT !.sp = @ + c.size] ELSE StackError(m)

Top(m, n) == m.store[m.sp - n]

NumberAt(m, a) == m.store[a].number

(* The field that follows the opcode.                                      *)
Inline(m) == m.store[m.ip].half

Skip(m, n) == [m EXCEPT !.ip = @ + n]

-----------------------------------------------------------------------------
(* Transfers.  A record names a statement by its key until the first       *)
(* transfer through it, and by its address afterwards.                     *)

Record(key) == [size |-> 4, cached |-> FALSE, guest |-> FALSE, to |-> key]

RECURSIVE Statement(_, _, _)
Statement(m, node, key) ==
    CASE node < 256 -> 0
      [] node >= 256 /\ m.store[node].key = key -> node
      [] OTHER -> Statement(m, m.store[node].link, key)

ComputedTransfer(m, record, displaced) ==
    LET r == m.store[record]
        displacement == IF displaced THEN m.store[record + 4].half ELSE 0
        node == IF r.guest THEN 0 ELSE Statement(m, m.cb.root, r.to)
    IN  CASE r.cached -> [m EXCEPT !.ip = r.to + displacement]
          [] ~r.cached /\ node = 0 ->
               [Leave(m, IF displaced THEN "return" ELSE "transfer") EXCEPT !.ip = record]
          [] OTHER -> [m EXCEPT !.store[record] = [r EXCEPT !.cached = TRUE, !.to = node],
                                !.ip = node + displacement]

(* GOSUB: the field after the record says where in its statement to return.*)
PushControlAndDispatch(m) ==
    LET frame == (m.control :> [size |-> 4, pushed |-> TRUE, descriptor |-> m.ip])
                    @@ (m.control + 4 :> m.store[m.ip + 4]) @@ (m.control + 6 :> Half(m.sp))
    IN  IF m.control > m.cb.controlLimit THEN Leave(m, "full")
        ELSE ComputedTransfer(Skip([m EXCEPT !.store = frame @@ @, !.control = @ + 8], 6),
                              m.ip + 6, FALSE)

(* RETURN: what the guest itself pushed is a transfer record.              *)
UnwindControl(m) ==
    LET at == m.control - 8
        popped == [m EXCEPT !.control = at]
        frame == m.store[at]
        descriptor == IF frame.pushed THEN frame.descriptor ELSE at
        continuation == m.store[at + 4].half
    IN  CASE m.control <= m.cb.controlBase -> Leave(m, "empty")
          [] m.control > m.cb.controlBase /\ continuation = 0 -> Leave(popped, "unwound")
          [] OTHER -> ComputedTransfer(popped, descriptor, TRUE)

ForLoopControl(m) ==
    LET descriptor == m.store[m.ip + 2].half
        flags == m.store[descriptor]
        order == CompareNumbers(NumberAt(m, Inline(m)), NumberAt(m, descriptor + 1))
        up == flags.ascending \/ ~NumberAt(m, descriptor + 1 + NumberSize).negative
        on == order = 0 \/ (order < 0 /\ up) \/ (order > 0 /\ ~up)
    IN  ComputedTransfer(Skip(Store(m, descriptor, [flags EXCEPT !.on = on]), 4),
                         m.ip + IF on THEN 4 ELSE 8, FALSE)

ForLoopGate(m) ==
    IF m.store[Inline(m)].on THEN ComputedTransfer(m, m.ip + 2, FALSE)
    ELSE Skip(Leave(m, "gate"), -1)

Conditional(m) ==
    LET popped == Pop(m, 1)
    IN  IF ~HasTop(m, 1) THEN StackError(m)
        ELSE ComputedTransfer(popped, m.ip + IF Top(m, 1).on THEN 0 ELSE 4, FALSE)

Control(m, low) ==
    CASE low = 0 -> ComputedTransfer(m, m.ip, FALSE)
      [] low = 1 -> PushControlAndDispatch(m)
      [] low = 5 -> Conditional(m)
      [] low = 6 -> ForLoopControl(m)
      [] low = 7 -> ForLoopGate(m)
      [] low = 8 -> UnwindControl(m)
      [] low \in {12, 14} -> LeaveTo(Skip(m, 2), "address", Inline(m))
      [] low = 13 -> LeaveTo(Skip(m, 2), "xr2", Inline(m))
      [] low = 15 -> [m EXCEPT !.ip = Inline(m)]
      [] OTHER -> LeaveTo(m, "invalid", 48 + low)

(* The header of a statement, which the node of the lookup chain is.       *)
Header(m) ==
    LET next == [Skip(m, 5) EXCEPT !.operand = m.ip + 5]
    IN  IF m.cb.watched THEN Leave(next, "statement") ELSE next

-----------------------------------------------------------------------------
(* Numbers.                                                                *)

(* What an error leaves behind depends on its mode: 2 keeps the operand, 1 *)
(* goes on with the substitute.                                            *)
Substitute(m, left, value, condition, mode) ==
    LET done == IF mode = 2 THEN m ELSE Store(m, left, NumberCell(value))
    IN  IF mode = 1 THEN done ELSE Leave(done, condition)

Answer(m, left, result) ==
    CASE result.condition = "none" -> Store(m, left, NumberCell(result.number))
      [] result.condition = "divide" -> Substitute(m, left, Largest, "divide", m.cb.mode["divide"])
      [] OTHER -> Substitute(m, left, result.number, result.condition, m.cb.mode[result.condition])

Computed(low, x, y) ==
    CASE low = 4 -> Add(x, y) [] low = 5 -> Subtract(x, y) [] low = 6 -> Times(x, y) [] low = 7 -> Divide(x, y)

Arithmetic(m, low, at) ==
    LET left == m.sp - NumberSize
    IN  IF HasTop(m, NumberSize) THEN Answer(m, left, Computed(low, NumberAt(m, left), NumberAt(m, at)))
        ELSE StackError(m)

Holds(low, order) ==
    CASE low = 8 -> order < 0 [] low = 9 -> order <= 0 [] low = 10 -> order > 0
      [] low = 11 -> order >= 0 [] low = 12 -> order # 0 [] low = 13 -> order = 0

(* The answer takes the place of the left operand.                         *)
Comparison(m, low, at) ==
    LET left == m.sp - NumberSize
        answer == Flag(Holds(low, CompareNumbers(NumberAt(m, left), NumberAt(m, at))))
    IN  IF HasTop(m, NumberSize) THEN [Store(m, left, answer) EXCEPT !.sp = left + 1]
        ELSE StackError(m)

(* An operation with the number at an address.                             *)
Numeric(m, low, at) ==
    CASE low = 0 -> Push(m, Half(at))
      [] low = 1 -> Push(m, NumberCell(NumberAt(m, at)))
      [] low = 2 -> IF HasTop(m, 2) THEN Store(Pop(m, 2), Top(m, 2).half, NumberCell(NumberAt(m, at)))
                    ELSE StackError(m)
      [] low = 3 -> IF HasTop(m, NumberSize) THEN Pop(Store(m, at, Top(m, NumberSize)), NumberSize)
                    ELSE StackError(m)
      [] low \in 4 .. 7 -> Arithmetic(m, low, at)
      [] low \in 8 .. 13 -> Comparison(m, low, at)
      [] low = 14 -> Push(m, NumberCell(Negated(NumberAt(m, at))))
      [] low = 15 -> Push(m, Half(RoundedInteger(NumberAt(m, at)).number % 65536))

Popped(m, low) ==
    LET popped == [Pop(m, NumberSize) EXCEPT !.operand = m.sp - NumberSize]
    IN  IF HasTop(m, NumberSize) THEN Numeric(popped, low, popped.sp) ELSE StackError(m)

Direct(m, low) == Numeric([Skip(m, 2) EXCEPT !.operand = Inline(m)], low, Inline(m))

(* The operand and the top of the stack.                                   *)
Operand(m, low) ==
    LET top == m.sp - NumberSize
        x == NumberAt(m, top)
        deep == HasTop(m, NumberSize)
    IN  CASE low = 0 -> Push(m, Half(m.operand))
          [] low = 1 /\ deep -> Store(m, top, NumberCell([x EXCEPT !.negative = FALSE]))
          [] low = 2 /\ deep -> Store(m, top, NumberCell(IntegerPart(x)))
          [] low = 3 /\ deep -> Store(Pop(m, NumberSize), m.operand, NumberCell(x))
          [] low = 4 /\ deep -> Push(m, NumberCell(x))
          [] low = 5 /\ deep -> Store(Skip(m, 2), Inline(m), NumberCell(x))
          [] low \in 1 .. 4 /\ ~deep -> StackError(m)
          [] low = 5 /\ ~deep -> StackError(Skip(m, 2))
          [] OTHER -> LeaveTo(m, "invalid", 80 + low)

Boolean(m, low) ==
    LET one == m.sp - 1
        two == m.sp - 2
    IN  CASE low = 6 /\ HasTop(m, 1) -> Store(m, one, Flag(~m.store[one].on))
          [] low = 4 /\ HasTop(m, 2) -> Pop(Store(m, two, Flag(m.store[two].on /\ m.store[one].on)), 1)
          [] low = 5 /\ HasTop(m, 2) -> Pop(Store(m, two, Flag(m.store[two].on \/ m.store[one].on)), 1)
          [] low \in 4 .. 6 /\ ~HasTop(m, IF low = 6 THEN 1 ELSE 2) -> StackError(m)
          [] OTHER -> LeaveTo(m, "invalid", 112 + low)

-----------------------------------------------------------------------------
(* Arrays.  A descriptor holds where the array begins, the bytes of a row  *)
(* and the number of rows.                                                 *)

Index(m) == RoundedInteger(Top(m, NumberSize).number)

(* What a subscript on top of the stack has against it, if anything.       *)
Subscript(m) ==
    CASE ~HasTop(m, NumberSize) -> "stack"
      [] HasTop(m, NumberSize) /\ (Index(m).condition # "none" \/ Index(m).number < m.cb.lowest) -> "range"
      [] OTHER -> "none"

(* A machine, and the address of an element if it was not refused.         *)
Refuse(m, routine) == [m |-> Leave(m, routine), at |-> 0]

(* The second subscript, on top of the stack now, counts rows.             *)
Row(m, a) ==
    LET popped == Pop(m, NumberSize)
        row == Index(m).number - m.cb.lowest
    IN  CASE a.rows = 0 -> Refuse(popped, "undefined")
          [] a.rows > 0 /\ (row >= a.rows \/ row * a.stride > 65535) -> Refuse(popped, "range")
          [] OTHER -> [m |-> popped, at |-> (a.first + row * a.stride) % 65536]

SecondSubscript(m, a, objection) ==
    CASE objection = "stack" -> Refuse(m, "stack")
      [] objection = "range" -> Refuse(Pop(m, NumberSize), "range")
      [] OTHER -> Row(m, a)

FirstSubscript(m, a, column, two, objection) ==
    LET popped == Pop(m, NumberSize)
    IN  CASE objection = "stack" -> Refuse(m, "stack")
          [] objection = "range" \/ (objection = "none" /\ column >= a.stride) -> Refuse(popped, "range")
          [] OTHER -> IF two THEN SecondSubscript(popped, a, Subscript(popped))
                      ELSE IF a.rows = 0 THEN Refuse(popped, "undefined")
                      ELSE [m |-> popped, at |-> a.first % 65536]

Element(m, width, two) ==
    LET descriptor == Inline(m)
        column == width * Index(m).number
        array == [first |-> m.store[descriptor].half + column,
                  stride |-> m.store[descriptor + 2].half, rows |-> m.store[descriptor + 4].half]
    IN  FirstSubscript(Skip(m, 2), array, column, two, Subscript(m))

IndexedNumeric(m, low, two) ==
    LET Use(e) ==
            IF e.m.exit # Running THEN e.m ELSE Numeric([e.m EXCEPT !.operand = e.at], low, e.at)
    IN  Use(Element(m, NumberSize, two))

-----------------------------------------------------------------------------
(* Strings.  On the stack, a string is followed by its length once more.   *)

Expand(m, a, s) == Store(Store(m, a, Text(s)), a + Len(s) + 1, Length(Len(s)))

(* The size of the expanded string on top of the stack, 0 if there is none.*)
Expanded(m) ==
    LET n == Top(m, 1).length + 2
    IN  IF HasTop(m, 1) /\ HasTop(m, n) THEN n ELSE 0

(* What a string of this capacity takes, and whether that is an error.     *)
Limited(s, capacity) == SubSeq(s, 1, Min({Len(s), capacity}))

Fits(m, s, capacity) == Len(s) <= capacity \/ m.cb.truncate

Padded(m, s, n) == [i \in 1 .. n |-> IF i <= Len(s) THEN s[i] ELSE m.cb.pad]

CompareTexts(m, s, t) ==
    LET n == Max({Len(s), Len(t)})
        differ == {i \in 1 .. n : Padded(m, s, n)[i] # Padded(m, t, n)[i]}
        i == Min(differ)
    IN  IF differ = {} THEN 0 ELSE IF Padded(m, s, n)[i] < Padded(m, t, n)[i] THEN -1 ELSE 1

AssignText(m, s, capacity, at) ==
    IF Fits(m, s, capacity) THEN Store(m, at, Text(Limited(s, capacity))) ELSE Leave(m, "string")

(* An operation with the string at an address, of the given capacity.      *)
StringOperation(m, low, at, capacity) ==
    LET right == m.store[at].text
        size == Expanded(m)
        left == m.store[m.sp - size].text
        appended == Limited(right, LongestString - Len(left))
        d == Top(m, 3)
    IN  CASE low = 0 -> Push(m, [size |-> 3, capacity |-> capacity, at |-> at])
          [] low = 1 -> IF CanPush(m, Len(right) + 2)
                        THEN [Expand(m, m.sp, right) EXCEPT !.sp = @ + Len(right) + 2] ELSE StackError(m)
          [] low = 2 -> IF HasTop(m, 3) THEN AssignText(Pop(m, 3), right, d.capacity, d.at) ELSE StackError(m)
          [] low = 7 -> Push(m, NumberCell(FromInteger(Len(right)).number))
          [] low \in {3, 6} \cup 8 .. 13 /\ size = 0 -> StackError(m)
          [] low = 3 /\ size > 0 -> AssignText(Pop(m, size), left, capacity, at)
          [] low = 6 /\ size > 0 ->
               CASE ~Fits(m, left \o right, LongestString) -> Leave(m, "string")
                 [] Fits(m, left \o right, LongestString) /\ ~CanPush(m, Len(appended)) -> StackError(m)
                 [] OTHER -> [Expand(m, m.sp - size, left \o appended) EXCEPT !.sp = @ + Len(appended)]
          [] low \in 8 .. 13 /\ size > 0 ->
               [Store(m, m.sp - size, Flag(Holds(low, CompareTexts(m, left, right)))) EXCEPT !.sp = @ - size + 1]
          [] OTHER -> LeaveTo(m, "invalid", low)

ExpandedString(m, low) ==
    LET size == Expanded(m)
    IN  IF size = 0 THEN StackError(m) ELSE StringOperation(Pop(m, size), low, m.sp - size, LongestString)

DirectString(m, low) ==
    StringOperation(Skip(m, 2), low, Inline(m) + 1, m.store[Inline(m)].capacity)

IndexedString(m, low, two) ==
    LET capacity == m.store[Inline(m) + 8].capacity
        Use(e) ==
            IF e.m.exit # Running THEN e.m ELSE StringOperation(e.m, low, e.at, capacity)
    IN  Use(Element(m, capacity + 1, two))

-----------------------------------------------------------------------------
(* One opcode, a burst of them, and a program.                             *)

Execute(m, class, low) ==
    CASE class \in {0, 1} -> Header(m)
      [] class = 2 -> LeaveTo(m, "routine", 35 + 2 * low)
      [] class = 3 -> Control(m, low)
      [] class = 5 -> Operand(m, low)
      [] class = 7 -> Boolean(m, low)
      [] class = 8 -> Popped(m, low)
      [] class = 9 -> Direct(m, low)
      [] class \in {10, 11} -> IndexedNumeric(m, low, class = 11)
      [] class = 12 -> ExpandedString(m, low)
      [] class = 13 -> DirectString(m, low)
      [] class \in {14, 15} -> IndexedString(m, low, class = 15)
      [] OTHER -> LeaveTo(m, "invalid", 16 * class + low)

StepOpcode(m) ==
    LET op == m.store[m.ip].op IN Execute(Skip(m, 1), op \div 16, op % 16)

Enter(g) ==
    [store |-> g.store, cb |-> g.cb, ip |-> g.cb.ip, sp |-> g.cb.sp, control |-> g.cb.control,
     operand |-> 0, exit |-> Running]

(* A bug to tell from the code: the control pointer is not published.      *)
Commit_NoControl(m) ==
    [store |-> m.store, cb |-> [m.cb EXCEPT !.ip = m.ip, !.sp = m.sp], exit |-> m.exit]

(* What the guest sees of the interpreter between two calls.               *)
Commit(m) ==
    [store |-> m.store, cb |-> [m.cb EXCEPT !.ip = m.ip, !.sp = m.sp, !.control = m.control],
     exit |-> m.exit]

(* A call executes at most so many opcodes (100000 in the program).  The   *)
(* guest repeats a call that ends without an exit.                         *)
Burst(g, opcodes) ==
    Commit(FoldLeft(LAMBDA m, i : IF m.exit = Running THEN StepOpcode(m) ELSE m,
                    Enter(g), [i \in 1 .. opcodes |-> i]))

RECURSIVE Run(_, _)
Run(g, opcodes) ==
    IF g.exit = Running THEN Run(Burst(g, opcodes), opcodes) ELSE g

-----------------------------------------------------------------------------
(* What the interpreter promises, of small programs: statements at 512,    *)
(* 1024 and 1536 with keys 1, 2 and 3, variables from 4096, the stack at   *)
(* 8192 and the control records at 12288.                                  *)

Op(n) == [size |-> 1, op |-> n]

Node(key, link) == [size |-> 6, op |-> 0, key |-> key, link |-> link]

Place(a, cells) ==
    FoldLeft(LAMBDA s, c : [at |-> s.at + c.size, store |-> (s.at :> c) @@ s.store],
             [at |-> a, store |-> <<>>], cells).store

Lines(one, two, three) ==
    Place(512, <<Node(1, 1024)>> \o one) @@ Place(1024, <<Node(2, 1536)>> \o two)
        @@ Place(1536, <<Node(3, 0)>> \o three)

Guest(store) ==
    [store |-> store, exit |-> Running,
     cb |-> [ip |-> 512, stackBase |-> 8192, sp |-> 8192, stackLimit |-> 8192 + 3 * NumberSize - 1,
             controlBase |-> 12288, control |-> 12288, controlLimit |-> 12288 + 8, root |-> 512,
             watched |-> FALSE, mode |-> [c \in {"overflow", "underflow", "divide"} |-> 0],
             lowest |-> 1, truncate |-> FALSE, pad |-> 2]]

Value(v) == NumberCell(FromInteger(v).number)

I == 4096
S == 4128
For == 4160
Step1 == For + 1 + NumberSize

(* A FOR statement, its body and NEXT, and what follows.                   *)
Loop(a, b, s) ==
    Lines(<<Op(\h36), Half(I), Half(For), Record(2), Record(3)>>,
          <<Op(\h91), Half(S), Op(\h94), Half(I), Op(\h93), Half(S),
            Op(\h91), Half(I), Op(\h94), Half(Step1), Op(\h93), Half(I), Op(\h30), Record(1)>>,
          <<Op(\h20)>>)
        @@ (I :> Value(a)) @@ (S :> Value(0))
        @@ Place(For, <<[size |-> 1, ascending |-> FALSE, on |-> FALSE], Value(b), Value(s)>>)

(* A loop adds what it ought to, in bursts of any length: a transfer goes  *)
(* where it went before its record was replaced by an address.             *)
LoopsAreRight ==
    \A a \in 0 .. 2, b \in 0 .. 3, s \in {1, 2, -1}, opcodes \in {1, 2, 3, 5, 100} :
        LET visited == {a + k * s : k \in 0 .. 3} \cap IF s > 0 THEN 0 .. b ELSE b .. 2
            Finished(end) ==
                /\ end.exit = <<"routine", 35>>
                /\ end.store[S] = Value(SumSet(visited))
                /\ end.cb.sp = end.cb.stackBase /\ end.cb.control = end.cb.controlBase
        IN  Finished(Run(Guest(Loop(a, b, s)), opcodes))

(* The statements add 3 after 2 after 1, each where its GOSUB left off.    *)
Adds(a) == <<Op(\h91), Half(S), Op(\h94), Half(a), Op(\h93), Half(S)>>

Calls(key, back) == <<Op(\h31), Record(key), Half(back), Record(key + 1)>>

Nested ==
    Lines(Calls(1, 17) \o <<Op(\h91), Half(S), Op(\h96), Half(I + 16), Op(\h93), Half(S), Op(\h21)>>,
          Calls(2, 17) \o Adds(I) \o <<Op(\h38)>>,
          Adds(I + 16) \o <<Op(\h38)>>)
        @@ (I :> Value(1)) @@ (I + 16 :> Value(2)) @@ (S :> Value(0))

(* Nested GOSUBs return to where they were made, in the opposite order;    *)
(* one too many is left to the guest.                                      *)
SubroutinesAreRight ==
    \A opcodes \in {1, 2, 3, 100}, records \in 0 .. 2 :
        LET Returned(end) ==
                IF records = 2
                THEN /\ end.exit = <<"routine", 37>> /\ end.store[S] = Value(6)
                     /\ end.cb.control = end.cb.controlBase
                ELSE /\ end.exit = <<"routine", Routine.full>> /\ end.store[S] = Value(0)
                     /\ end.cb.control = 12288 + 8 * records
        IN  Returned(Run([Guest(Nested) EXCEPT !.cb.controlLimit = 12288 + 8 * (records - 1)], opcodes))

(* X relation Y decides where a statement goes.                            *)
ConditionsAreRight ==
    \A x, y \in {-1, 0, 1, 12}, low \in 8 .. 13, opcodes \in {1, 100}, negated \in BOOLEAN :
        LET Decided(end) ==
                /\ end.exit = <<"routine", IF Holds(low, x - y) # negated THEN 35 ELSE 37>>
                /\ end.cb.sp = end.cb.stackBase
        IN  Decided(Run(Guest(Lines(<<Op(\h91), Half(I), Op(\h90 + low), Half(S)>>
                                        \o (IF negated THEN <<Op(\h76)>> ELSE <<>>)
                                        \o <<Op(\h35), Record(2), Record(3)>>,
                                    <<Op(\h20)>>, <<Op(\h21)>>)
                                @@ (I :> Value(x)) @@ (S :> Value(y))), opcodes))

Array == Place(I, <<Half(16384), Half(4 * NumberSize), Half(2)>>)

Subscripts(x, y) == Place(8192, <<Value(y), Value(x)>>)

At2(x, y) ==
    Element([Enter(Guest(Array @@ (600 :> Half(I)) @@ Subscripts(x, y)))
               EXCEPT !.ip = 600, !.sp = 8192 + 2 * NumberSize], NumberSize, TRUE)

(* Elements that may be addressed lie inside the array and apart, and no   *)
(* subscript outside it is accepted.                                       *)
ElementsAreApart ==
    \A x, u \in -1 .. 4, y, v \in -1 .. 3 :
        LET Apart(e, f) ==
                /\ e.m.exit = Running <=> x \in 1 .. 3 /\ y \in 1 .. 2
                /\ (e.m.exit = Running /\ f.m.exit = Running) =>
                       /\ e.at \in 16384 .. 16384 + 7 * NumberSize
                       /\ <<x, y>> # <<u, v>> => Distance(e.at, f.at) >= NumberSize
        IN  Apart(At2(x, y), At2(u, v))

Texts == UNION {[1 .. n -> 1 .. 2] : n \in 0 .. LongestString}

(* Z$ = X$ + Y$, and X$ against Y$.                                        *)
Concatenated(s, t, truncate) ==
    LET g == Guest(Lines(<<Op(\hD1), Half(I), Op(\hD6), Half(S), Op(\hD0), Half(For), Op(\h20)>>, <<>>, <<>>)
                     @@ Place(I, <<Capacity(LongestString), Text(s)>>)
                     @@ Place(S, <<Capacity(LongestString), Text(t)>>)
                     @@ Place(For, <<Capacity(1), Text(<<2>>)>>))
    IN  [g EXCEPT !.cb.truncate = truncate, !.cb.stackLimit = 8192 + 2 * LongestString + 6]

StringsAreRight ==
    \A s, t \in Texts, truncate \in BOOLEAN :
        LET all == s \o t
            size == Min({Len(all), LongestString})
            m == [Enter(Concatenated(s, t, truncate)) EXCEPT !.ip = 600, !.sp = 8192]
            loaded == StringOperation(m, 1, I + 1, LongestString)
            Joined(end) ==
                IF Len(all) > LongestString /\ ~truncate
                THEN end.exit = <<"routine", Routine.string>> /\ end.store[8192].text = s
                ELSE /\ end.exit = <<"routine", 35>> /\ end.store[8192].text = SubSeq(all, 1, size)
                     /\ end.cb.sp = 8192 + size + 5
            Stored(end) ==
                IF Len(s) <= 1 \/ truncate
                THEN end.exit = Running /\ end.store[For + 1].text = SubSeq(s, 1, Min({Len(s), 1}))
                ELSE end.exit = <<"routine", Routine.string>> /\ end.store[For + 1].text = <<2>>
            Less(x, y) ==
                \E i \in 1 .. LongestString :
                    x[i] < y[i] /\ \A j \in 1 .. i - 1 : x[j] = y[j]
        IN  /\ Joined(Run(Concatenated(s, t, truncate), 100))
            /\ Stored(StringOperation(loaded, 3, For + 1, 1))
            /\ StringOperation(loaded, 8, S + 1, LongestString).store[8192].on
                  <=> Less(Padded(m, s, LongestString), Padded(m, t, LongestString))

(* No opcodes in any order take the stack out of its bounds.               *)
StackStaysInside ==
    \A ops \in [1 .. 3 -> {\h50, \h51, \h52, \h54, \h84, \h88, \h81, \h8E, \h91, \h93, \h94, \h98}],
       depth \in 0 .. 3, last \in 8191 + 3 * NumberSize - 1 .. 8191 + 3 * NumberSize :
        LET numbers == [i \in 1 .. 3 |-> Value(i)]
            m == [Enter(Guest(Place(8192, numbers) @@ (I :> Value(5)) @@ [a \in 512 .. 560 |-> Half(I)]))
                    EXCEPT !.sp = 8192 + depth * NumberSize, !.cb.stackLimit = last]
            Executed(x, op) == IF x.exit = Running /\ (x.sp - 8192) % NumberSize = 0
                               THEN Execute([x EXCEPT !.ip = 512], op \div 16, op % 16) ELSE x
            end == FoldLeft(Executed, m, ops)
        IN  m.sp <= last + 1 => end.sp \in 8192 .. last + 1

BasicHolds ==
    /\ NumbersAreRight
    /\ LoopsAreRight
    /\ SubroutinesAreRight
    /\ ConditionsAreRight
    /\ ElementsAreApart
    /\ StringsAreRight
    /\ StackStaysInside
=============================================================================
