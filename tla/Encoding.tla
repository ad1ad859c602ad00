------------------------------ MODULE Encoding ------------------------------
(***************************************************************************)
(* The bytes of the instructions of x64::Emitter.  An instruction is a     *)
(* record: the method, its register operands in the order of the method's  *)
(* parameters, a number and a condition.  Registers are their codes; the   *)
(* number of 64 bits is in two signed halves, the other ones fit the low.  *)
(***************************************************************************)
EXTENDS Integers, Sequences

Register == 0 .. 15
XmmRegister == 0 .. 1   \* the enumeration has no others: code >= 8 cannot occur
rax == 0
rdx == 2

ConditionCode ==
  [below |-> 2, aboveEqual |-> 3, equal |-> 4, notEqual |-> 5, belowEqual |-> 6, above |-> 7,
   parity |-> 10, notParity |-> 11, less |-> 12, greaterEqual |-> 13, lessEqual |-> 14,
   greater |-> 15]

None == "none"

Op(op, a, b, n, condition) ==
  [op |-> op, a |-> a, b |-> b, n |-> n, high |-> 0, condition |-> condition]

MoveImmediate64(a, low, high) == [Op("moveImmediate64", a, 0, low, None) EXCEPT !.high = high]

-----------------------------------------------------------------------------
(* Fields.                                                                 *)

Low(r) == r % 8
High(r) == r \div 8

\* Seeded fault: the extension bits of reg and r/m are exchanged.
RexWSwapped(reg, rm) == \h48 + 4 * High(rm) + High(reg)

RexW(reg, rm) == \h48 + 4 * High(reg) + High(rm)
ModRm(reg, rm) == \hC0 + 8 * Low(reg) + Low(rm)
ModRmDisplaced(reg, rm) == \h80 + 8 * Low(reg) + Low(rm)

\* Seeded fault: the bytes are not masked.
UInt32Unmasked(v) == <<v, v \div 256, v \div 65536, v \div 16777216>>

\* Little-endian; \div and % are those of a two's complement shift and mask.
UInt32(v) ==
  <<v % 256, (v \div 256) % 256, (v \div 65536) % 256, (v \div 16777216) % 256>>
UInt64(low, high) == UInt32(low) \o UInt32(high)

-----------------------------------------------------------------------------
(* The forms.                                                              *)

\* op r/m64, r64.
RegisterForm ==
  [move |-> \h89, add |-> \h01, subtract |-> \h29, bitwiseXor |-> \h31,
   compare |-> \h39, test |-> \h85]

EncodeRegisters(i) == <<RexW(i.b, i.a), RegisterForm[i.op], ModRm(i.b, i.a)>>

EncodeImmediate(i) == <<RexW(rax, i.a), \hB8 + Low(i.a)>> \o UInt64(i.n, i.high)

EncodeMultiply(i) == <<RexW(i.a, i.b), \h0F, \hAF, ModRm(i.a, i.b)>>

\* An opcode that is extended by the reg field.
UnaryForm == [negate |-> <<\hF7, 3>>, call |-> <<\hFF, 2>>, signedDivide |-> <<\hF7, 7>>]

EncodeUnary(i) == <<RexW(rax, i.a), UnaryForm[i.op][1], ModRm(UnaryForm[i.op][2], i.a)>>

SetPrefix(r) == IF r >= 8 THEN <<\h41>> ELSE IF r >= 4 THEN <<\h40>> ELSE <<>>

EncodeSet(i) == SetPrefix(i.a) \o <<\h0F, \h90 + ConditionCode[i.condition], \hC0 + Low(i.a)>>

StackForm == [push |-> \h50, pop |-> \h58]

EncodeStack(i) == (IF i.a >= 8 THEN <<\h41>> ELSE <<>>) \o <<StackForm[i.op] + Low(i.a)>>

AdjustForm == [subtractStackPointer |-> \hEC, addStackPointer |-> \hC4]

EncodeAdjust(i) == <<\h48, \h81, AdjustForm[i.op]>> \o UInt32(i.n)

\* The r/m code of rsp and r12 announces a SIB byte: no index, that base.
Sib(base) == IF Low(base) = 4 THEN <<\h24>> ELSE <<>>

MemoryForm == [load |-> \h8B, loadEffectiveAddress |-> \h8D, store |-> \h89]

\* a is the register and b the base; the method store names them the other way.
EncodeMemory(i) ==
  <<RexW(i.a, i.b), MemoryForm[i.op], ModRmDisplaced(i.a, i.b)>> \o Sib(i.b) \o UInt32(i.n)

EncodeToXmm(i) == <<\h66, RexW(rax, i.b), \h0F, \h6E, ModRm(i.a, i.b)>>
EncodeFromXmm(i) == <<\h66, RexW(rax, i.a), \h0F, \h7E, ModRm(i.b, i.a)>>

DoubleForm ==
  [addDouble |-> <<\hF2, \h58>>, subtractDouble |-> <<\hF2, \h5C>>,
   multiplyDouble |-> <<\hF2, \h59>>, divideDouble |-> <<\hF2, \h5E>>,
   compareDouble |-> <<\h66, \h2E>>]

EncodeDouble(i) == <<DoubleForm[i.op][1], \h0F, DoubleForm[i.op][2], ModRm(i.a, i.b)>>

\* The displacement of a jump is written when the code is finalized.
JumpOpcode(condition) ==
  IF condition = None THEN <<\hE9>> ELSE <<\h0F, \h80 + ConditionCode[condition]>>

Encode(i) ==
  CASE i.op \in DOMAIN RegisterForm -> EncodeRegisters(i)
    [] i.op = "moveImmediate64"     -> EncodeImmediate(i)
    [] i.op = "multiply"            -> EncodeMultiply(i)
    [] i.op \in DOMAIN UnaryForm    -> EncodeUnary(i)
    [] i.op = "set"                 -> EncodeSet(i)
    [] i.op \in DOMAIN StackForm    -> EncodeStack(i)
    [] i.op \in DOMAIN AdjustForm   -> EncodeAdjust(i)
    [] i.op \in DOMAIN MemoryForm   -> EncodeMemory(i)
    [] i.op = "moveToXmm"           -> EncodeToXmm(i)
    [] i.op = "moveFromXmm"         -> EncodeFromXmm(i)
    [] i.op \in DOMAIN DoubleForm   -> EncodeDouble(i)
    [] i.op = "signExtendRaxIntoRdx" -> <<\h48, \h99>>
    [] i.op = "returnFromFunction"  -> <<\hC3>>

\* What a method asks beginInstruction for: the most its instruction can take.
Size ==
  [move |-> 3, add |-> 3, subtract |-> 3, bitwiseXor |-> 3, compare |-> 3, test |-> 3,
   moveImmediate64 |-> 10, multiply |-> 4, negate |-> 3, call |-> 3, signedDivide |-> 3, set |-> 4,
   push |-> 2, pop |-> 2, subtractStackPointer |-> 7, addStackPointer |-> 7,
   load |-> 8, loadEffectiveAddress |-> 8, store |-> 8, moveToXmm |-> 5, moveFromXmm |-> 5,
   addDouble |-> 4, subtractDouble |-> 4, multiplyDouble |-> 4, divideDouble |-> 4,
   compareDouble |-> 4, signExtendRaxIntoRdx |-> 2, returnFromFunction |-> 1]

Ops == DOMAIN Size

\* Seeded fault: the SIB byte of a memory operand is not reserved.
ReservedWithoutSib(i) == IF i.op \in DOMAIN MemoryForm THEN 7 ELSE Size[i.op]

Reserved(i) == Size[i.op]

\* What the parameters of a method can be.
Encodable(i) ==
  /\ i.op \in Ops /\ i.a \in Register /\ i.b \in Register /\ i.n \in Int /\ i.high \in Int
  /\ i.op = "set" => i.condition \in DOMAIN ConditionCode

JumpSize(condition) == IF condition = None THEN 5 ELSE 6
=============================================================================
