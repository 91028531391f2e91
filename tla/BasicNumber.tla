----------------------------- MODULE BasicNumber -----------------------------
(***************************************************************************)
(* The decimal floating-point numbers of the BASIC assist                  *)
(* (BasicNumber.cpp).  A number is its sign, its exponent (base 100, with  *)
(* an excess of 64) and its mantissa, Pairs base-100 digits read as one    *)
(* whole number: the value is mantissa * 100^(exponent - 64 - Pairs), and  *)
(* the first pair of a number other than zero is not 0.  The operations    *)
(* compute exactly and then keep SignificantDigits digits: 6 or 14 in the  *)
(* program, fewer where TLC has to multiply them.                          *)
(***************************************************************************)
EXTENDS Integers, SequencesExt, FiniteSetsExt

CONSTANT SignificantDigits

ASSUME DigitsAssumption == SignificantDigits \in Nat \ {0} /\ SignificantDigits % 2 = 0

Pairs == (SignificantDigits \div 2) + 1

(* The bytes of an encoded number.                                         *)
NumberSize == Pairs + 1

Zero == [negative |-> FALSE, exponent |-> 0, mantissa |-> 0]

(* What takes the place of a result that is too large, of either sign.     *)
Largest == [negative |-> FALSE, exponent |-> 127, mantissa |-> (100 ^ Pairs) - 1]

Result(x, condition) == [number |-> x, condition |-> condition]

DecimalDigits(n) == CHOOSE k \in 1 .. 10 : 10 ^ (k - 1) <= n /\ (k = 10 \/ n < 10 ^ k)

(* The t with 10^t <= n/d < 10^(t+1).                                      *)
DecimalOrder(n, d) ==
    LET t == DecimalDigits(n) - DecimalDigits(d)
        less == IF t >= 0 THEN n < d * (10 ^ t) ELSE n * (10 ^ (-t)) < d
    IN  IF less THEN t - 1 ELSE t

(* n/d * 10^k as a whole number; a half goes up in magnitude.              *)
Rounded(n, d) == (n \div d) + IF 2 * (n % d) >= d THEN 1 ELSE 0

Coefficient(n, d, k) == IF k >= 0 THEN Rounded(n * (10 ^ k), d) ELSE Rounded(n, d * (10 ^ (-k)))

(* The number of SignificantDigits digits c, the first of them worth       *)
(* 10^place: its exponent decides whether there is one.                    *)
Packed(c, place, q, negative) ==
    CASE q + 64 < 0 -> Result(Zero, "underflow")
      [] q + 64 > 127 -> Result(Largest, "overflow")
      [] OTHER -> Result([negative |-> negative, exponent |-> q + 64,
                          mantissa |-> c * (10 ^ (place + 3 - 2 * q))], "none")

Carried(c, place, negative) ==
    IF c = 10 ^ SignificantDigits
    THEN Packed(c \div 10, place + 1, ((place + 1) \div 2) + 1, negative)
    ELSE Packed(c, place, (place \div 2) + 1, negative)

(* n/d * 100^power, rounded.                                               *)
Quantize(n, d, power, negative) ==
    LET first == DecimalOrder(n, d)
    IN  IF n = 0 THEN Result(Zero, "none")
        ELSE Carried(Coefficient(n, d, SignificantDigits - 1 - first), first + 2 * power, negative)

FromInteger(v) == Quantize(IF v < 0 THEN -v ELSE v, 1, 0, v < 0)

Negated(x) == [x EXCEPT !.negative = x # Zero /\ ~@]

(* The mantissas of x and y beside a common exponent.                      *)
CommonExponent(x, y) == Min({z.exponent : z \in {x, y} \ {Zero}} \cup {127})

Signed(x, exponent) ==
    LET n == IF x = Zero THEN 0 ELSE x.mantissa * (100 ^ (x.exponent - exponent))
    IN  IF x.negative THEN -n ELSE n

Add(x, y) ==
    LET e == CommonExponent(x, y)
        sum == Signed(x, e) + Signed(y, e)
    IN  Quantize(IF sum < 0 THEN -sum ELSE sum, 1, e - 64 - Pairs, sum < 0)

Subtract(x, y) == Add(x, Negated(y))

Times(x, y) ==
    Quantize(x.mantissa * y.mantissa, 1, x.exponent + y.exponent - 2 * (64 + Pairs),
             x.negative # y.negative)

Divide(x, y) ==
    IF y = Zero THEN Result(Zero, "divide")
    ELSE Quantize(x.mantissa, y.mantissa, x.exponent - y.exponent, x.negative # y.negative)

(* Of two numbers with the same sign, the exponents decide first.          *)
CompareNumbers(x, y) ==
    LET smaller == x.exponent < y.exponent \/ (x.exponent = y.exponent /\ x.mantissa < y.mantissa)
    IN  CASE x = y -> 0
          [] x # y /\ x.negative # y.negative -> IF x.negative THEN -1 ELSE 1
          [] OTHER -> IF smaller # x.negative THEN -1 ELSE 1

(* How much of the mantissa counts one.                                    *)
One(x) == 100 ^ (Pairs - (x.exponent - 64))

(* A half goes away from zero; what has more than two pairs is refused.    *)
RoundedInteger(x) ==
    LET n == CASE x.exponent < 64 -> 0
               [] x.exponent > 66 -> 16384
               [] OTHER -> (2 * x.mantissa + One(x)) \div (2 * One(x))
    IN  Result(IF x.negative THEN -n ELSE n, IF x.exponent > 66 THEN "range" ELSE "none")

(* Opcode 52 keeps the pairs before the point.                             *)
IntegerPart(x) ==
    CASE x.exponent <= 64 -> Zero
      [] x.exponent >= 64 + Pairs -> x
      [] OTHER -> [x EXCEPT !.mantissa = @ - (@ % One(x))]

-----------------------------------------------------------------------------
(* What the numbers promise, around 1 and at the ends of the exponents.    *)

Samples ==
    {Zero} \cup {Quantize(n, d, 0, s).number :
                    n \in {1, 5, 15, 49, 50, 95, 99}, d \in {1, 2, 10}, s \in BOOLEAN}

Extremes ==
    {[negative |-> s, exponent |-> e, mantissa |-> c * (10 ^ k)] :
        s \in BOOLEAN, e \in {0, 1, 126, 127}, c \in {10, 55, 99}, k \in 1 .. 2}

Canonical(x) ==
    x = Zero \/ (x.exponent \in 0 .. 127 /\ x.mantissa \in 100 ^ (Pairs - 1) .. Largest.mantissa)

Distance(a, b) == IF a < b THEN b - a ELSE a - b

(* r is n/d * 100^(e - 64 - Pairs), but for the digits beyond the last.    *)
Nearest(r, n, d, e) ==
    LET kept == r.mantissa * (100 ^ (r.exponent - e)) * d
        place == d * (10 ^ (DecimalOrder(n, d) - SignificantDigits + 1))
    IN  IF n = 0 THEN r = Zero
        ELSE /\ Canonical(r)
             /\ 2 * Distance(kept, n) <= place
             /\ 2 * Distance(kept, n) = place => kept > n

NumbersAreRight ==
    /\ \A x, y \in Samples :
        LET e == CommonExponent(x, y) - 1
            sum == Signed(x, e) + Signed(y, e)
        IN  /\ Nearest(Add(x, y).number, Distance(sum, 0), 1, e)
            /\ Nearest(Times(x, y).number, x.mantissa * y.mantissa, 1,
                       x.exponent + y.exponent - 64 - Pairs)
            /\ y # Zero => Nearest(Divide(x, y).number, x.mantissa * (100 ^ Pairs), y.mantissa,
                                   x.exponent - y.exponent + 64)
            /\ CompareNumbers(x, y) = -CompareNumbers(y, x)
            /\ LET rest == Subtract(x, y).number
               IN  CompareNumbers(rest, Zero) = CompareNumbers(x, y)
    /\ \A x \in Samples \cup Extremes :
        LET ten == FromInteger(10).number
            up == Times(x, ten)
            down == Divide(x, ten)
        IN  /\ Canonical(up.number) /\ Canonical(down.number) /\ Canonical(IntegerPart(x))
            /\ up.condition = "none" => Divide(up.number, ten) = Result(x, "none")
            /\ up.condition = "overflow" => x.exponent = 127
            /\ down.condition = "underflow" => x.exponent = 0
    /\ \A x \in Samples :
        LET half == Divide(FromInteger(1).number, FromInteger(2).number).number
            Without(part) == [Subtract(x, part).number EXCEPT !.negative = FALSE]
            n == RoundedInteger(x)
        IN  /\ CompareNumbers(Without(FromInteger(n.number).number), half) <= 0
            /\ CompareNumbers(Without(IntegerPart(x)), FromInteger(1).number) < 0
            /\ IntegerPart(IntegerPart(x)) = IntegerPart(x)
=============================================================================
