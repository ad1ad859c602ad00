------------------------------- MODULE Words -------------------------------
(***************************************************************************)
(* Values as raw words of Bits bits.  An i64 is the word; its arithmetic   *)
(* wraps around.  A boolean is 0 or 1.  An f64 has a sign bit and a        *)
(* magnitude of which the largest is NaN and the next infinity; both tiers *)
(* leave its arithmetic to the same instructions of the processor, so that *)
(* any rounding does, but the bits (NaN, the two zeros) must be there.     *)
(***************************************************************************)
EXTENDS Integers

CONSTANT Bits   \* 64

ASSUME WordAssumption == Bits \in Nat /\ Bits >= 3

Half == 2 ^ (Bits - 1)
Words == -Half .. Half - 1

Wrap(n) == ((n + Half) % (2 * Half)) - Half

Absolute(n) == IF n < 0 THEN -n ELSE n

\* C++ division truncates; these two operands have no quotient.
Indivisible(a, b) == b = 0 \/ (a = -Half /\ b = -1)

Quotient(a, b) ==
  LET q == Absolute(a) \div Absolute(b) IN IF (a < 0) = (b < 0) THEN q ELSE -q

Remainder(a, b) == a - b * Quotient(a, b)

I64(operator, a, b) ==
  CASE operator = "add" -> Wrap(a + b)
    [] operator = "sub" -> Wrap(a - b)
    [] operator = "mul" -> Wrap(a * b)
    [] operator = "div" -> Quotient(a, b)
    [] operator = "rem" -> Remainder(a, b)

Related(operator, a, b) ==
  CASE operator = "equal"        -> a = b
    [] operator = "notEqual"     -> a # b
    [] operator = "less"         -> a < b
    [] operator = "lessEqual"    -> a <= b
    [] operator = "greater"      -> a > b
    [] operator = "greaterEqual" -> a >= b

-----------------------------------------------------------------------------
(* f64: bit patterns as words.                                             *)

FlipSign(w) == IF w < 0 THEN w + Half ELSE w - Half
Magnitude(w) == IF w < 0 THEN w + Half ELSE w
NaN == Half - 1
IsNaN(w) == Magnitude(w) = NaN
Real(w) == IF w < 0 THEN -Magnitude(w) ELSE w

Rounded(n) ==
  LET m == IF Absolute(n) < Half - 2 THEN Absolute(n) ELSE Half - 2
  IN IF n < 0 THEN m - Half ELSE m

F64(operator, a, b) ==
  IF IsNaN(a) \/ IsNaN(b) THEN NaN
  ELSE CASE operator = "add" -> Rounded(Real(a) + Real(b))
         [] operator = "sub" -> Rounded(Real(a) - Real(b))
         [] operator = "mul" -> Rounded(Real(a) * Real(b))
         [] operator = "div" -> IF Real(b) = 0 THEN NaN ELSE Rounded(Quotient(Real(a), Real(b)))

F64Related(operator, a, b) ==
  IF IsNaN(a) \/ IsNaN(b) THEN operator = "notEqual" ELSE Related(operator, Real(a), Real(b))

-----------------------------------------------------------------------------
(* What the operations of the bytecode and of the IR compute.              *)

Truth(b) == IF b THEN 1 ELSE 0

Negated(type, a) == IF type = "i64" THEN Wrap(-a) ELSE FlipSign(a)

Calculated(type, operator, a, b) ==
  IF type = "i64" THEN I64(operator, a, b) ELSE F64(operator, a, b)

Compared(type, operator, a, b) ==
  Truth(IF type = "f64" THEN F64Related(operator, a, b) ELSE Related(operator, a, b))
=============================================================================
