---------------------------------- MODULE IntOps ----------------------------------
(***************************************************************************)
(* Integer arithmetic of the runtime and of the emitted code, at a machine  *)
(* word of W bits (64 in the program).  A stack slot is a tagged word: an   *)
(* Int v is the word 2v+1, so that an Int has W-1 bits; false is 0 and true *)
(* is 2.  Registers of the emitted code hold plain W-bit integers.          *)
(***************************************************************************)
EXTENDS Integers, FiniteSets, FiniteSetsExt, Bitwise

CONSTANT W \* bits of a word, more than two

IntMin == -(2^(W - 1))
I63Min == -(2^(W - 2))
I63Max == 2^(W - 2) - 1

Signed(x) == ((x - IntMin) % 2^W) + IntMin
Unsigned(x) == x % 2^W
FitsInt(x) == I63Min <= x /\ x <= I63Max

TagInt(v) == (2 * v + 1) % 2^W
TagBool(b) == (2 * b) % 2^W
Payload(w) == Signed(w) \div 2
IsInt(w) == w % 2 = 1
Truth(p) == IF p THEN 1 ELSE 0

(***************************************************************************)
(* What wrapping_add .. !x are in Rust and add .. xor in LLVM.              *)
(***************************************************************************)
BitOf(i, v) == (Unsigned(v) \div 2^i) % 2 = 1
Ones(v, bits) == Cardinality({i \in bits : BitOf(i, v)})

Binary(op, a, b) ==
    CASE op = "i.+"  -> Signed(a + b)
      [] op = "i.-"  -> Signed(a - b)
      [] op = "i.*"  -> Signed(a * b)
      [] op = "band" -> Signed(Unsigned(a) & Unsigned(b))
      [] op = "bor"  -> Signed(Unsigned(a) | Unsigned(b))
      [] op = "bxor" -> Signed(Unsigned(a) ^^ Unsigned(b))

Compare(op, a, b) ==
    Truth(CASE op = "i.="  -> a = b
            [] op = "i.<>" -> a # b
            [] op = "i.<"  -> a < b
            [] op = "i.>"  -> a > b
            [] op = "i.<=" -> a <= b
            [] op = "i.>=" -> a >= b)

(***************************************************************************)
(* Division rounds toward zero; the quotient of IntMin by -1 wraps.         *)
(***************************************************************************)
Abs(x) == IF x < 0 THEN -x ELSE x
Trunc(a, b) ==
    IF (a < 0) = (b < 0) THEN Abs(a) \div Abs(b) ELSE -(Abs(a) \div Abs(b))
Remainder(a, b) == a - b * Trunc(a, b)

Divide(op, a, b) ==
    IF b = 0 THEN <<0, 0>>
    ELSE <<IF op = "i./" THEN Signed(Trunc(a, b)) ELSE Remainder(a, b), 1>>

(***************************************************************************)
(* checked_pow of the machine word: it fails on what W bits do not hold,    *)
(* not on what an Int does not hold.                                        *)
(***************************************************************************)
Power(base, exp) == IF exp = 0 THEN 1 ELSE base^exp

Pow(base, exp) ==
    IF exp >= 0 /\ Signed(Power(base, exp)) = Power(base, exp)
    THEN <<Power(base, exp), 1>>
    ELSE <<0, 0>>

(***************************************************************************)
(* Shifts.  The runtime looks at the count first; the emitted code shifts   *)
(* by a safe count and selects.  Both drop a result an Int does not hold.   *)
(***************************************************************************)
ShiftLeft(v, c) == Signed(v * 2^c)
ShiftRight(v, c) == Signed(Unsigned(v) \div 2^c)
RawShift(op, v, c) == IF op = "shl" THEN ShiftLeft(v, c) ELSE ShiftRight(v, c)

RunShift(op, v, c) ==
    IF c \notin 0 .. W - 1 THEN 0
    ELSE IF FitsInt(RawShift(op, v, c)) THEN RawShift(op, v, c) ELSE 0

ClampWide(x) == x

Clamp(x) == IF FitsInt(x) THEN x ELSE 0

EmitShift(op, v, c) ==
    LET invalid == c < 0 \/ c >= W
        safe == IF invalid THEN 0 ELSE c
        shifted == RawShift(op, v, safe)
    IN  Clamp(IF invalid THEN 0 ELSE shifted)

(***************************************************************************)
(* Bit counts relative to the W-1 bits of an Int.                           *)
(***************************************************************************)
LeadingZeros(v) ==
    LET set == {i \in 0 .. W - 1 : BitOf(i, v)}
    IN  IF set = {} THEN W ELSE W - 1 - Max(set)
TrailingZeros(v) ==
    LET set == {i \in 0 .. W - 1 : BitOf(i, v)}
    IN  IF set = {} THEN W ELSE Min(set)

RunCount(op, v) ==
    CASE op = "popcount" -> Ones(v, 0 .. W - 2)
      [] op = "clz" -> Max({LeadingZeros(v) - 1, 0})
      [] op = "ctz" -> IF v = 0 THEN W - 1 ELSE TrailingZeros(v)

EmitCount(op, v) ==
    CASE op = "popcount" -> Ones(v, 0 .. W - 2)
      [] op = "clz" -> IF LeadingZeros(v) = 0 THEN 0 ELSE LeadingZeros(v) - 1
      [] op = "ctz" -> IF v = 0 THEN W - 1 ELSE TrailingZeros(v)

(***************************************************************************)
(* emit_safe_div: a zero divisor and IntMin / -1 branch around the sdiv,    *)
(* a zero divisor only around the srem, whose result for IntMin and -1 is   *)
(* undefined.                                                               *)
(***************************************************************************)
EmitDivUnchecked(op, a, b) ==
    <<IF b = 0 THEN a
      ELSE IF op = "i./" THEN Signed(Trunc(a, b)) ELSE Remainder(a, b), 1>>

EmitDiv(op, a, b) ==
    IF b = 0 THEN <<0, 0>>
    ELSE IF op = "i./" /\ a = IntMin /\ b = -1 THEN <<IntMin, 1>>
    ELSE <<IF op = "i./" THEN Trunc(a, b) ELSE Remainder(a, b), 1>>

UndefinedDiv(op, a, b) == op = "i.%" /\ a = IntMin /\ b = -1

====
