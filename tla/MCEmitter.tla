----------------------------- MODULE MCEmitter -----------------------------
(***************************************************************************)
(* Instructions of three and eight bytes, one that is refused, both jumps  *)
(* and two labels, in a code of a few bytes; and, each alone, every        *)
(* instruction the emitter can be asked for.                               *)
(***************************************************************************)
EXTENDS EmitterHistory

Samples ==
  {Op("signedDivide", rdx, 0, 0, None), Op("signedDivide", 8, 0, 0, None),
   Op("load", 3, 12, 8, None)}
SampleConditions == {None, "equal"}

Displacements == {0, 8, -8, 127, -128, 4096, 2147483647, -2147483647 - 1}
Halves == {0, 1, -1, 305419896, 2147483647, -2147483647 - 1}

WithRegisters(ops) == {Op(o, a, b, 0, None) : o \in ops, a \in Register, b \in Register}
WithRegister(ops) == {Op(o, a, 0, 0, None) : o \in ops, a \in Register}

AllInstructions ==
  UNION {WithRegisters(DOMAIN RegisterForm \cup {"multiply"}),
         WithRegister(DOMAIN StackForm \cup {"negate", "call"}),
         {Op("signedDivide", a, 0, 0, None) : a \in Register \ {rax, rdx}},
         {MoveImmediate64(a, low, high) : a \in Register, low \in Halves, high \in Halves},
         {Op("set", a, 0, 0, c) : a \in Register, c \in DOMAIN ConditionCode},
         {Op(o, 0, 0, n, None) : o \in DOMAIN AdjustForm, n \in {8, 40, 2147483647}},
         {Op(o, a, b, n, None) : o \in DOMAIN MemoryForm, a \in Register, b \in Register,
                                 n \in Displacements},
         {Op("moveToXmm", a, b, 0, None) : a \in XmmRegister, b \in Register},
         {Op("moveFromXmm", a, b, 0, None) : a \in Register, b \in XmmRegister},
         {Op(o, a, b, 0, None) : o \in DOMAIN DoubleForm, a \in XmmRegister, b \in XmmRegister},
         {Op(o, 0, 0, 0, None) : o \in {"signExtendRaxIntoRdx", "returnFromFunction"}}}
=============================================================================
