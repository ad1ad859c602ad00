--------------------------- MODULE Emitter_proofs ---------------------------
(***************************************************************************)
(* Proofs about Emitter, for every limit of the code size up to what an    *)
(* int32 holds, every number of labels and every set of instructions as its *)
(* methods can be called for them: no instruction is longer than what its  *)
(* method reserves; finalize never reads, writes or computes outside of its *)
(* vectors and its range; the processor reads the bytes of every instruction *)
(* as that instruction; and the code that is handed out is read as the     *)
(* program that was asked for, with every jump at its label.               *)
(***************************************************************************)
EXTENDS EmitterHistory, FiniteSetTheorems, SequenceTheorems, WellFoundedInduction, TLAPS

-----------------------------------------------------------------------------
(* Induction over the natural numbers, stated about sets: a property of    *)
(* numbers is the set of the numbers that have it.                         *)

\* The order by which the induction goes.
LessThan == {s \in Nat \X Nat : s[1] < s[2]}

LEMMA LessThanWellFounded == IsWellFoundedOn(LessThan, Nat)
BY NatLessThanWellFounded DEF OpToRel, LessThan

\* A set of natural numbers has a least element.
LEMMA LeastNatural ==
  ASSUME NEW T, T \subseteq Nat, T # {}
  PROVE  \E x \in T : \A y \in T : x <= y
<1>1. PICK x \in T : \A y \in T : <<y, x>> \notin LessThan
  BY LessThanWellFounded, WFMin
<1>2. ASSUME NEW y \in T, y < x PROVE FALSE
  <2>1. <<y, x>> \in LessThan
    BY <1>2 DEF LessThan
  <2> QED BY <1>1, <2>1
<1> QED BY <1>1, <1>2

\* A set that has the first number of an interval, and with each number the
\* next one up to the last, has all of them.
LEMMA IntervalInduction ==
  ASSUME NEW m \in Nat, NEW n \in Nat, NEW S,
         m \in S,
         \A k \in m .. n - 1 : k \in S => k + 1 \in S
  PROVE  m .. n \subseteq S
<1> DEFINE T == (m .. n) \ S
<1> SUFFICES ASSUME T # {} PROVE FALSE
  OBVIOUS
<1>1. PICK x \in T : \A y \in T : x <= y
  <2>1. T \subseteq Nat
    OBVIOUS
  <2> QED BY <2>1, LeastNatural
<1>2. x \in m + 1 .. n /\ x - 1 \in m .. n - 1
  OBVIOUS
<1>3. x - 1 \in S
  BY <1>1, <1>2
<1> QED BY <1>2, <1>3

\* A walk up to n: the value at a number below it is made of the one at a number
\* further on.
Walks(f, n, base, next, Step) ==
  \A k \in Nat : f[k] = IF k >= n THEN base[k] ELSE Step[k][f[next[k]]]

LEMMA Walk ==
  ASSUME NEW n \in Nat, NEW S, NEW base \in [Nat -> S], NEW next \in [Nat -> Nat],
         NEW Step, Step \in [Nat -> [S -> S]], \A k \in 0 .. n - 1 : next[k] > k
  PROVE  \E f \in [Nat -> S] : Walks(f, n, base, next, Step)
<1> DEFINE P(f, m) == \A k \in Nat : k >= n - m =>
                        f[k] = IF k >= n THEN base[k] ELSE Step[k][f[next[k]]]
           T == {m \in 0 .. n : \E f \in [Nat -> S] : P(f, m)}
<1>1. 0 \in T
  <2>1. P(base, 0)
    OBVIOUS
  <2> HIDE DEF P
  <2> QED BY <2>1
<1>2. ASSUME NEW m \in 0 .. n - 1, m \in T PROVE m + 1 \in T
  <2>1. PICK f \in [Nat -> S] : P(f, m)
    BY <1>2
  <2> DEFINE at == n - (m + 1)
             value == Step[at][f[next[at]]]
             g == [k \in Nat |-> IF k = at THEN value ELSE f[k]]
  <2>2. at \in 0 .. n - 1 /\ value \in S
    OBVIOUS
  <2>3. g \in [Nat -> S]
    <3> HIDE DEF value
    <3> QED BY <2>2
  <2>4. ASSUME NEW k \in Nat, k >= at
        PROVE  g[k] = IF k >= n THEN base[k] ELSE Step[k][g[next[k]]]
    <3>1. k < n => next[k] > k /\ next[k] \in Nat
      OBVIOUS
    <3>2. k < n => g[next[k]] = f[next[k]]
      BY <2>2, <2>4, <3>1
    <3>3. CASE k = at
      BY <2>2, <3>2, <3>3
    <3>4. CASE k # at
      <4>1. k >= n - m
        BY <2>2, <2>4, <3>4
      <4>2. g[k] = f[k]
        BY <3>4
      <4> QED BY <2>1, <3>2, <4>1, <4>2
    <3> QED BY <3>3, <3>4
  <2>5. P(g, m + 1)
    <3> HIDE DEF g
    <3> QED BY <2>4
  <2> HIDE DEF g, P
  <2> QED BY <2>3, <2>5
<1>3. 0 .. n \subseteq T
  <2> HIDE DEF T
  <2> QED BY <1>1, <1>2, IntervalInduction
<1>4. n \in T
  <2> HIDE DEF T
  <2> QED BY <1>3
<1>5. PICK f \in [Nat -> S] : P(f, n)
  <2> HIDE DEF P
  <2> QED BY <1>4
<1>6. \A k \in Nat : k >= n - n
  OBVIOUS
<1> QED BY <1>5, <1>6 DEF Walks

-----------------------------------------------------------------------------

\* A byte of code.
Byte8 == 0 .. 255

\* The REX prefix and the ModRM byte of any two registers are bytes.
LEMMA RegisterFields ==
  \A r, s \in Register :
    /\ Low(r) \in 0 .. 7 /\ High(r) \in 0 .. 1
    /\ RexW(r, s) \in Byte8 /\ ModRm(r, s) \in Byte8 /\ ModRmDisplaced(r, s) \in Byte8
  BY DEF Register, Low, High, RexW, ModRm, ModRmDisplaced, Byte8

\* A 32-bit number, whatever its sign, is written as four bytes.
LEMMA Immediate32 == \A v \in Int : UInt32(v) \in Seq(Byte8) /\ Len(UInt32(v)) = 4
  BY DEF UInt32, Byte8

\* The tables of opcodes hold bytes, which leave room for what is added to them.
LEMMA Tables ==
  /\ \A o \in DOMAIN RegisterForm : RegisterForm[o] \in Byte8
  /\ \A o \in DOMAIN UnaryForm : UnaryForm[o][1] \in Byte8 /\ UnaryForm[o][2] \in Register
  /\ \A o \in DOMAIN StackForm : StackForm[o] \in 0 .. 248
  /\ \A o \in DOMAIN AdjustForm : AdjustForm[o] \in Byte8
  /\ \A o \in DOMAIN MemoryForm : MemoryForm[o] \in Byte8
  /\ \A o \in DOMAIN DoubleForm : DoubleForm[o][1] \in Byte8 /\ DoubleForm[o][2] \in Byte8
  /\ \A c \in DOMAIN ConditionCode : ConditionCode[c] \in 2 .. 15
  BY DEF RegisterForm, UnaryForm, StackForm, AdjustForm, MemoryForm, DoubleForm, ConditionCode,
         Byte8, Register

\* The methods of each form, by name.
LEMMA Domains ==
  /\ DOMAIN RegisterForm = {"move", "add", "subtract", "bitwiseXor", "compare", "test"}
  /\ DOMAIN UnaryForm = {"negate", "call", "signedDivide"}
  /\ DOMAIN StackForm = {"push", "pop"}
  /\ DOMAIN AdjustForm = {"subtractStackPointer", "addStackPointer"}
  /\ DOMAIN MemoryForm = {"load", "loadEffectiveAddress", "store"}
  /\ DOMAIN DoubleForm = {"addDouble", "subtractDouble", "multiplyDouble", "divideDouble", "compareDouble"}
  BY DEF RegisterForm, UnaryForm, StackForm, AdjustForm, MemoryForm, DoubleForm

\* Every method belongs to one of the forms.
LEMMA Kinds ==
  Ops = DOMAIN RegisterForm \cup DOMAIN UnaryForm \cup DOMAIN StackForm \cup DOMAIN AdjustForm
          \cup DOMAIN MemoryForm \cup DOMAIN DoubleForm
          \cup {"moveImmediate64", "multiply", "set", "moveToXmm", "moveFromXmm",
                "signExtendRaxIntoRdx", "returnFromFunction"}
  BY Domains DEF Ops, Size

\* What the methods of each form reserve.
LEMMA Sizes ==
  /\ \A o \in Ops : Size[o] \in Nat
  /\ \A o \in DOMAIN RegisterForm \cup DOMAIN UnaryForm : Size[o] = 3
  /\ \A o \in DOMAIN StackForm : Size[o] = 2
  /\ \A o \in DOMAIN AdjustForm : Size[o] = 7
  /\ \A o \in DOMAIN MemoryForm : Size[o] = 8
  /\ \A o \in DOMAIN DoubleForm \cup {"multiply", "set"} : Size[o] = 4
  /\ Size["moveImmediate64"] = 10 /\ Size["moveToXmm"] = 5 /\ Size["moveFromXmm"] = 5
  /\ Size["signExtendRaxIntoRdx"] = 2 /\ Size["returnFromFunction"] = 1
  BY Domains DEF Ops, Size

\* Two runs of bytes in a row are a run of bytes.
LEMMA Joined ==
  \A s, t \in Seq(Byte8) : s \o t \in Seq(Byte8) /\ Len(s \o t) = Len(s) + Len(t)
  OBVIOUS

\* Up to three bytes are a run of bytes.
LEMMA Few ==
  /\ <<>> \in Seq(Byte8) /\ Len(<<>>) = 0
  /\ \A a \in Byte8 : <<a>> \in Seq(Byte8) /\ Len(<<a>>) = 1
  /\ \A a, b \in Byte8 : <<a, b>> \in Seq(Byte8) /\ Len(<<a, b>>) = 2
  /\ \A a, b, c \in Byte8 : <<a, b, c>> \in Seq(Byte8) /\ Len(<<a, b, c>>) = 3
  OBVIOUS

\* The single bytes that are written as such.
LEMMA Codes == rax \in Register /\ \h41 \in Byte8 /\ \h40 \in Byte8 /\ \h24 \in Byte8
  BY DEF rax, Register, Byte8

\* Every method appends bytes, at least one and no more than it reserved.
THEOREM EncodedFits ==
  ASSUME NEW i, Encodable(i)
  PROVE  Encode(i) \in Seq(Byte8) /\ Len(Encode(i)) \in 1 .. Reserved(i)
<1> DEFINE Fits(s, n) == s \in Seq(Byte8) /\ Len(s) \in 1 .. n
<1> USE DEF Encodable
<1>1. CASE i.op \in DOMAIN RegisterForm
  <2>1. Encode(i) = EncodeRegisters(i)
    BY <1>1, Domains DEF Encode
  <2>2. Fits(EncodeRegisters(i), 3)
    BY <1>1, RegisterFields, Tables DEF EncodeRegisters
  <2> QED BY <1>1, <2>1, <2>2, Sizes DEF Reserved
<1>2. CASE i.op \in DOMAIN UnaryForm
  <2>1. Encode(i) = EncodeUnary(i)
    BY <1>2, Domains DEF Encode
  <2>2. Fits(EncodeUnary(i), 3)
    BY <1>2, RegisterFields, Tables DEF EncodeUnary, rax, Register
  <2> QED BY <1>2, <2>1, <2>2, Sizes DEF Reserved
<1>3. CASE i.op \in DOMAIN StackForm
  <2>1. Encode(i) = EncodeStack(i)
    BY <1>3, Domains DEF Encode
  <2>2. /\ <<StackForm[i.op] + Low(i.a)>> \in Seq(Byte8)
        /\ Len(<<StackForm[i.op] + Low(i.a)>>) = 1
    BY <1>3, RegisterFields, Tables DEF Byte8
  <2>3. /\ (IF i.a >= 8 THEN <<\h41>> ELSE <<>>) \in Seq(Byte8)
        /\ Len(IF i.a >= 8 THEN <<\h41>> ELSE <<>>) \in 0 .. 1
    <3>1. CASE i.a >= 8
      BY <3>1, Few, Codes
    <3>2. CASE ~(i.a >= 8)
      BY <3>2, Few
    <3> QED BY <3>1, <3>2
  <2>4. Fits(EncodeStack(i), 2)
    BY <2>2, <2>3, Joined DEF EncodeStack
  <2> QED BY <1>3, <2>1, <2>4, Sizes DEF Reserved
<1>4. CASE i.op \in DOMAIN AdjustForm
  <2>1. Encode(i) = EncodeAdjust(i)
    BY <1>4, Domains DEF Encode
  <2> DEFINE head == <<\h48, \h81, AdjustForm[i.op]>>
  <2>2. head \in Seq(Byte8) /\ Len(head) = 3
    BY <1>4, Tables DEF Byte8
  <2>3. EncodeAdjust(i) = head \o UInt32(i.n)
    BY DEF EncodeAdjust
  <2> HIDE DEF head
  <2>4. Fits(head \o UInt32(i.n), 7)
    <3>1. UInt32(i.n) \in Seq(Byte8) /\ Len(UInt32(i.n)) = 4
      BY Immediate32
    <3>2. /\ head \o UInt32(i.n) \in Seq(Byte8)
          /\ Len(head \o UInt32(i.n)) = Len(head) + Len(UInt32(i.n))
      BY <2>2, <3>1, Joined
    <3> QED BY <2>2, <3>1, <3>2
  <2> QED BY <1>4, <2>1, <2>3, <2>4, Sizes DEF Reserved
<1>5. CASE i.op \in DOMAIN MemoryForm
  <2>1. Encode(i) = EncodeMemory(i)
    BY <1>5, Domains DEF Encode
  <2> DEFINE head == <<RexW(i.a, i.b), MemoryForm[i.op], ModRmDisplaced(i.a, i.b)>>
  <2>2. head \in Seq(Byte8) /\ Len(head) = 3
    BY <1>5, RegisterFields, Tables
  <2>3. Sib(i.b) \in Seq(Byte8) /\ (Len(Sib(i.b)) = 0 \/ Len(Sib(i.b)) = 1)
    <3>1. CASE Low(i.b) = 4
      BY <3>1, Few, Codes DEF Sib
    <3>2. CASE Low(i.b) # 4
      BY <3>2, Few DEF Sib
    <3> QED BY <3>1, <3>2
  <2>4. EncodeMemory(i) = (head \o Sib(i.b)) \o UInt32(i.n)
    BY DEF EncodeMemory
  <2> HIDE DEF head
  <2>5. head \o Sib(i.b) \in Seq(Byte8) /\ Len(head \o Sib(i.b)) \in 3 .. 4
    <3>1. /\ head \o Sib(i.b) \in Seq(Byte8)
          /\ Len(head \o Sib(i.b)) = Len(head) + Len(Sib(i.b))
      BY <2>2, <2>3, Joined
    <3>2. Len(head \o Sib(i.b)) = 3 \/ Len(head \o Sib(i.b)) = 4
      <4>1. CASE Len(Sib(i.b)) = 0
        BY ONLY <4>1, <2>2, <3>1
      <4>2. CASE Len(Sib(i.b)) = 1
        BY ONLY <4>2, <2>2, <3>1
      <4> QED BY <2>3, <4>1, <4>2
    <3> QED BY ONLY <3>1, <3>2
  <2>6. Fits((head \o Sib(i.b)) \o UInt32(i.n), 8)
    <3>1. UInt32(i.n) \in Seq(Byte8) /\ Len(UInt32(i.n)) = 4
      BY Immediate32
    <3>2. /\ (head \o Sib(i.b)) \o UInt32(i.n) \in Seq(Byte8)
          /\ Len((head \o Sib(i.b)) \o UInt32(i.n)) = Len(head \o Sib(i.b)) + Len(UInt32(i.n))
      BY <2>5, <3>1, Joined
    <3> QED BY <2>5, <3>1, <3>2
  <2> QED BY <1>5, <2>1, <2>4, <2>6, Sizes DEF Reserved
<1>6. CASE i.op \in DOMAIN DoubleForm
  <2>1. Encode(i) = EncodeDouble(i)
    BY <1>6, Domains DEF Encode
  <2>2. Fits(EncodeDouble(i), 4)
    BY <1>6, RegisterFields, Tables DEF EncodeDouble, Byte8
  <2> QED BY <1>6, <2>1, <2>2, Sizes DEF Reserved
<1>7. CASE i.op = "moveImmediate64"
  <2>1. Encode(i) = EncodeImmediate(i)
    BY <1>7, Domains DEF Encode
  <2> DEFINE head == <<RexW(rax, i.a), \hB8 + Low(i.a)>>
  <2>2. RexW(rax, i.a) \in Byte8 /\ \hB8 + Low(i.a) \in Byte8
    BY RegisterFields, Codes DEF Byte8
  <2>3. head \in Seq(Byte8) /\ Len(head) = 2
    BY <2>2, Few
  <2>4. UInt64(i.n, i.high) \in Seq(Byte8) /\ Len(UInt64(i.n, i.high)) = 8
    <3>1. /\ UInt32(i.n) \in Seq(Byte8) /\ Len(UInt32(i.n)) = 4
          /\ UInt32(i.high) \in Seq(Byte8) /\ Len(UInt32(i.high)) = 4
      BY Immediate32
    <3>2. /\ UInt32(i.n) \o UInt32(i.high) \in Seq(Byte8)
          /\ Len(UInt32(i.n) \o UInt32(i.high)) = Len(UInt32(i.n)) + Len(UInt32(i.high))
      BY <3>1, Joined
    <3> QED BY <3>1, <3>2 DEF UInt64
  <2>5. EncodeImmediate(i) = head \o UInt64(i.n, i.high)
    BY DEF EncodeImmediate
  <2> HIDE DEF head
  <2>6. Fits(head \o UInt64(i.n, i.high), 10)
    <3>1. /\ head \o UInt64(i.n, i.high) \in Seq(Byte8)
          /\ Len(head \o UInt64(i.n, i.high)) = Len(head) + Len(UInt64(i.n, i.high))
      BY <2>3, <2>4, Joined
    <3> QED BY <2>3, <2>4, <3>1
  <2> QED BY <1>7, <2>1, <2>5, <2>6, Sizes DEF Reserved
<1>8. CASE i.op = "multiply"
  <2>1. Encode(i) = EncodeMultiply(i)
    BY <1>8, Domains DEF Encode
  <2>2. Fits(EncodeMultiply(i), 4)
    BY RegisterFields DEF EncodeMultiply, Byte8
  <2> QED BY <1>8, <2>1, <2>2, Sizes DEF Reserved
<1>9. CASE i.op = "set"
  <2>1. Encode(i) = EncodeSet(i)
    BY <1>9, Domains DEF Encode
  <2> DEFINE tail == <<\h0F, \h90 + ConditionCode[i.condition], \hC0 + Low(i.a)>>
  <2>2. tail \in Seq(Byte8) /\ Len(tail) = 3
    BY <1>9, RegisterFields, Tables DEF Byte8
  <2>3. SetPrefix(i.a) \in Seq(Byte8) /\ (Len(SetPrefix(i.a)) = 0 \/ Len(SetPrefix(i.a)) = 1)
    <3>1. CASE i.a >= 8
      BY <3>1, Few, Codes DEF SetPrefix
    <3>2. CASE ~(i.a >= 8) /\ i.a >= 4
      BY <3>2, Few, Codes DEF SetPrefix
    <3>3. CASE ~(i.a >= 8) /\ ~(i.a >= 4)
      BY <3>3, Few DEF SetPrefix
    <3> QED BY <3>1, <3>2, <3>3
  <2>4. EncodeSet(i) = SetPrefix(i.a) \o tail
    BY DEF EncodeSet
  <2> HIDE DEF tail
  <2>5. Fits(SetPrefix(i.a) \o tail, 4)
    <3>1. /\ SetPrefix(i.a) \o tail \in Seq(Byte8)
          /\ Len(SetPrefix(i.a) \o tail) = Len(SetPrefix(i.a)) + Len(tail)
      BY <2>2, <2>3, Joined
    <3>2. Len(SetPrefix(i.a) \o tail) = 3 \/ Len(SetPrefix(i.a) \o tail) = 4
      <4>1. CASE Len(SetPrefix(i.a)) = 0
        BY ONLY <4>1, <2>2, <3>1
      <4>2. CASE Len(SetPrefix(i.a)) = 1
        BY ONLY <4>2, <2>2, <3>1
      <4> QED BY <2>3, <4>1, <4>2
    <3> QED BY ONLY <3>1, <3>2
  <2> QED BY <1>9, <2>1, <2>4, <2>5, Sizes DEF Reserved
<1>10. CASE i.op = "moveToXmm"
  <2>1. Encode(i) = EncodeToXmm(i)
    BY <1>10, Domains DEF Encode
  <2>2. RexW(rax, i.b) \in Byte8 /\ ModRm(i.a, i.b) \in Byte8
    BY RegisterFields, Codes
  <2>3. Fits(EncodeToXmm(i), 5)
    BY <2>2 DEF EncodeToXmm, Byte8
  <2> QED BY <1>10, <2>1, <2>3, Sizes DEF Reserved
<1>11. CASE i.op = "moveFromXmm"
  <2>1. Encode(i) = EncodeFromXmm(i)
    BY <1>11, Domains DEF Encode
  <2>2. RexW(rax, i.a) \in Byte8 /\ ModRm(i.b, i.a) \in Byte8
    BY RegisterFields, Codes
  <2>3. Fits(EncodeFromXmm(i), 5)
    BY <2>2 DEF EncodeFromXmm, Byte8
  <2> QED BY <1>11, <2>1, <2>3, Sizes DEF Reserved
<1>12. CASE i.op = "signExtendRaxIntoRdx"
  <2>1. Encode(i) = <<\h48, \h99>>
    BY <1>12, Domains DEF Encode
  <2> QED BY <1>12, <2>1, Sizes DEF Reserved, Byte8
<1>13. CASE i.op = "returnFromFunction"
  <2>1. Encode(i) = <<\hC3>>
    BY <1>13, Domains DEF Encode
  <2> QED BY <1>13, <2>1, Sizes DEF Reserved, Byte8
<1> QED
  BY <1>1, <1>2, <1>3, <1>4, <1>5, <1>6, <1>7, <1>8, <1>9, <1>10, <1>11, <1>12, <1>13, Kinds

-----------------------------------------------------------------------------

\* A jump reserves its opcode and the four bytes of its displacement.
LEMMA JumpOpcodeFits ==
  ASSUME NEW condition \in Conditions
  PROVE  /\ JumpOpcode(condition) \in Seq(Byte8)
         /\ JumpSize(condition) = Len(JumpOpcode(condition)) + 4
         /\ Len(JumpOpcode(condition)) \in 1 .. 2
<1>1. CASE condition = None
  <2>1. JumpOpcode(condition) = <<\hE9>>
    BY <1>1 DEF JumpOpcode
  <2>2. \hE9 \in Byte8
    BY DEF Byte8
  <2>3. JumpOpcode(condition) \in Seq(Byte8) /\ Len(JumpOpcode(condition)) = 1
    BY <2>1, <2>2, Few
  <2> QED BY <1>1, <2>3 DEF JumpSize
<1>2. CASE condition # None
  <2>1. condition \in DOMAIN ConditionCode
    BY <1>2, EmitterAssumption
  <2>2. \h0F \in Byte8 /\ \h80 + ConditionCode[condition] \in Byte8
    BY <2>1, Tables DEF Byte8
  <2>3. JumpOpcode(condition) = <<\h0F, \h80 + ConditionCode[condition]>>
    BY <1>2 DEF JumpOpcode
  <2>4. JumpOpcode(condition) \in Seq(Byte8) /\ Len(JumpOpcode(condition)) = 2
    BY <2>2, <2>3, Few
  <2> QED BY <1>2, <2>4 DEF JumpSize
<1> QED BY <1>1, <1>2

\* A place in a run of bytes holds a byte.
LEMMA EmittedByte == ASSUME NEW s \in Seq(Byte8), NEW k \in DOMAIN s PROVE s[k] \in Byte8
  OBVIOUS

\* The part of the state that finalize relies on is inductive as it stands.
IInv == TypeOK /\ CodeFits /\ FixupsInside

\* The fields of a fixup are numbers.
LEMMA FixupFields ==
  ASSUME TypeOK, NEW k \in DOMAIN fixups
  PROVE  fixups[k].label \in Nat /\ fixups[k].offset \in Nat
<1>1. fixups \in Seq([label : Nat, offset : Nat])
  BY DEF TypeOK
<1>2. fixups[k] \in [label : Nat, offset : Nat]
  <2>1. k \in 1 .. Len(fixups)
    BY <1>1
  <2> QED BY <1>1, <2>1, ElementOfSeq
<1> QED BY <1>2

\* A new emitter satisfies the invariant.
LEMMA InitIInv == Init => IInv
<1> SUFFICES ASSUME Init PROVE IInv
  OBVIOUS
<1>1. /\ bytes \in Seq(0 .. 255) /\ labels \in Seq(Int)
      /\ fixups \in Seq([label : Nat, offset : Nat]) /\ result \in Seq(Seq(0 .. 255))
      /\ Len(bytes) = 0 /\ Len(labels) = 0 /\ Len(fixups) = 0 /\ Len(result) = 0
  BY DEF Init, NoCode
<1>2. TypeOK
  <2>1. error \in EmitErrors /\ finalized \in BOOLEAN
    BY DEF Init, EmitErrors
  <2> QED BY <1>1, <2>1 DEF TypeOK
<1>3. DOMAIN labels = {} /\ DOMAIN fixups = {}
  BY <1>1
<1> QED BY <1>1, <1>2, <1>3, EmitterAssumption DEF IInv, CodeFits, FixupsInside

\* A refused call, which only sets the error, keeps the invariant.
LEMMA RefuseKeeps ==
  ASSUME IInv, NEW e \in EmitErrors, error' = e,
         UNCHANGED <<bytes, labels, fixups, finalized, result>>
  PROVE  IInv'
  BY DEF IInv, TypeOK, CodeFits, FixupsInside

\* A call that beginInstruction refuses keeps the invariant.
LEMMA RefuseToBeginKeeps ==
  ASSUME IInv, NEW size, RefuseToBegin(size)
  PROVE  IInv'
<1>1. BeginError(size) \in EmitErrors
  BY DEF IInv, TypeOK, BeginError, Fail, EmitErrors
<1> QED BY <1>1, RefuseKeeps DEF RefuseToBegin

\* A call that its method refuses keeps the invariant.
LEMMA RefuseWithKeeps ==
  ASSUME IInv, NEW e \in EmitErrors, RefuseWith(e)
  PROVE  IInv'
<1>1. Fail(e) \in EmitErrors
  BY DEF IInv, TypeOK, Fail
<1> QED BY <1>1, RefuseKeeps DEF RefuseWith

\* Appending bytes that fit keeps the code within its limit and labels inside.
LEMMA AppendKeeps ==
  ASSUME IInv, ~finalized, NEW s \in Seq(Byte8), Len(bytes) + Len(s) <= MaxCodeSize,
         bytes' = bytes \o s, UNCHANGED <<labels, finalized>>
  PROVE  /\ bytes' \in Seq(0 .. 255) /\ Len(bytes') = Len(bytes) + Len(s)
         /\ CodeFits'
<1>1. bytes \in Seq(Byte8)
  BY DEF IInv, TypeOK, Byte8
<1>2. bytes' \in Seq(Byte8) /\ Len(bytes') = Len(bytes) + Len(s)
  BY <1>1, Joined
<1>3. Len(bytes) \in Nat /\ Len(s) \in Nat
  BY <1>1
<1>4. CodeFits'
  <2>1. Len(bytes') <= MaxCodeSize
    BY <1>2
  <2>2. ASSUME NEW l \in DOMAIN labels PROVE labels[l] \in {Unbound} \cup 0 .. Len(bytes')
    BY <1>2, <1>3 DEF IInv, CodeFits, Unbound
  <2> QED BY <2>1, <2>2 DEF CodeFits
<1> QED BY <1>2, <1>4 DEF Byte8

\* createLabel keeps the invariant.
LEMMA CreateLabelKeeps == ASSUME IInv, CreateLabel PROVE IInv'
<1>1. CASE /\ error = "none" /\ ~finalized /\ Len(labels) < MaxLabels
           /\ labels' = Append(labels, Unbound)
           /\ UNCHANGED <<bytes, fixups, error, finalized, result>>
  <2>1. labels \in Seq(Int) /\ Unbound \in Int
    BY DEF IInv, TypeOK, Unbound
  <2>2. /\ labels' \in Seq(Int) /\ Len(labels') = Len(labels) + 1
        /\ \A l \in DOMAIN labels : l \in DOMAIN labels' /\ labels'[l] = labels[l]
        /\ \A l \in DOMAIN labels' : l \in DOMAIN labels \/ labels'[l] = Unbound
    BY <1>1, <2>1
  <2>3. TypeOK'
    BY <1>1, <2>2 DEF IInv, TypeOK
  <2>4. CodeFits'
    BY <1>1, <2>2 DEF IInv, CodeFits
  <2>5. FixupsInside'
    BY <1>1, <2>2 DEF IInv, FixupsInside
  <2> QED BY <2>3, <2>4, <2>5 DEF IInv
<1>2. CASE /\ error' = IF finalized THEN Fail("finalized") ELSE Fail("codeTooLarge")
           /\ UNCHANGED <<bytes, labels, fixups, finalized, result>>
  <2>1. error' \in EmitErrors
    BY <1>2 DEF IInv, TypeOK, Fail, EmitErrors
  <2> QED BY <1>2, <2>1, RefuseKeeps
<1> QED BY <1>1, <1>2 DEF CreateLabel

\* bind keeps the invariant.
LEMMA BindKeeps == ASSUME IInv, NEW label \in HeldLabels, Bind(label) PROVE IInv'
<1>1. CASE RefuseToBegin(0)
  BY <1>1, RefuseToBeginKeeps
<1>2. CASE RefuseWith("invalidLabel") \/ RefuseWith("duplicateLabel")
  BY <1>2, RefuseWithKeeps DEF EmitErrors
<1>3. CASE /\ Begins(0) /\ Valid(label) /\ labels[label.id] = Unbound
           /\ labels' = [labels EXCEPT ![label.id] = Len(bytes)]
           /\ UNCHANGED <<bytes, fixups, error, finalized, result>>
  <2>1. label.id \in DOMAIN labels /\ labels \in Seq(Int) /\ Len(bytes) \in Nat
    BY <1>3 DEF Valid, IInv, TypeOK
  <2>2. /\ labels' \in Seq(Int) /\ DOMAIN labels' = DOMAIN labels
        /\ \A l \in DOMAIN labels : labels'[l] = labels[l] \/ labels'[l] = Len(bytes)
    BY <1>3, <2>1
  <2>3. TypeOK'
    BY <1>3, <2>2 DEF IInv, TypeOK
  <2>4. CodeFits'
    BY <1>3, <2>1, <2>2 DEF IInv, CodeFits
  <2>5. FixupsInside'
    BY <1>3, <2>2 DEF IInv, FixupsInside
  <2> QED BY <2>3, <2>4, <2>5 DEF IInv
<1> QED BY <1>1, <1>2, <1>3 DEF Bind

\* A method that appends an instruction keeps the invariant.
LEMMA EmitKeeps == ASSUME IInv, NEW i \in Instructions, Emit(i) PROVE IInv'
<1>1. CASE RefuseToBegin(Reserved(i))
  BY <1>1, RefuseToBeginKeeps
<1>2. CASE RefuseWith("invalidDivisionOperand")
  BY <1>2, RefuseWithKeeps DEF EmitErrors
<1>3. CASE /\ Begins(Reserved(i)) /\ bytes' = bytes \o Encode(i)
           /\ UNCHANGED <<labels, fixups, error, finalized, result>>
  <2>1. Encode(i) \in Seq(Byte8) /\ Len(Encode(i)) \in 1 .. Reserved(i)
    BY EncodedFits, EmitterAssumption
  <2>2. Reserved(i) \in Nat /\ Len(bytes) \in Nat /\ MaxCodeSize \in Nat
    BY EmitterAssumption, Sizes DEF IInv, TypeOK, Reserved, Encodable
  <2>3. ~finalized /\ Len(bytes) <= MaxCodeSize - Reserved(i)
    BY <1>3 DEF Begins, CanAppend
  <2>4. Len(bytes) + Len(Encode(i)) <= MaxCodeSize
    BY <2>1, <2>2, <2>3
  <2>5. /\ bytes' \in Seq(0 .. 255) /\ Len(bytes') = Len(bytes) + Len(Encode(i))
        /\ CodeFits'
    BY <1>3, <2>1, <2>3, <2>4, AppendKeeps
  <2>6. TypeOK'
    BY <1>3, <2>5 DEF IInv, TypeOK
  <2>7. FixupsInside'
    <3>1. Len(bytes') >= Len(bytes) /\ Len(bytes') \in Nat
      BY <2>1, <2>2, <2>5
    <3>2. ASSUME NEW k \in DOMAIN fixups
          PROVE  fixups[k].label \in DOMAIN labels /\ fixups[k].offset + 4 <= Len(bytes')
      <4>1. fixups[k].offset \in Nat
        BY FixupFields DEF IInv
      <4>2. fixups[k].label \in DOMAIN labels /\ fixups[k].offset + 4 <= Len(bytes)
        BY <2>3 DEF IInv, FixupsInside
      <4> QED BY ONLY <2>2, <3>1, <4>1, <4>2
    <3> QED BY <1>3, <2>3, <3>2 DEF IInv, FixupsInside
  <2> QED BY <2>5, <2>6, <2>7 DEF IInv
<1> QED BY <1>1, <1>2, <1>3 DEF Emit

\* A jump keeps the invariant: its displacement follows those of all fixups before it.
LEMMA JumpKeeps ==
  ASSUME IInv, NEW label \in HeldLabels, NEW condition \in Conditions, Jump(condition, label)
  PROVE  IInv'
<1> DEFINE code == JumpOpcode(condition) \o UInt32(0)
           new == [label |-> label.id, offset |-> DisplacementOffset(condition)]
<1>1. CASE RefuseToBegin(JumpSize(condition))
  BY <1>1, RefuseToBeginKeeps
<1>2. CASE RefuseWith("invalidLabel")
  BY <1>2, RefuseWithKeeps DEF EmitErrors
<1>3. CASE /\ Begins(JumpSize(condition)) /\ Valid(label)
           /\ bytes' = bytes \o JumpOpcode(condition) \o UInt32(0)
           /\ fixups' = Append(fixups, new)
           /\ UNCHANGED <<labels, error, finalized, result>>
  <2>1. /\ JumpOpcode(condition) \in Seq(Byte8) /\ UInt32(0) \in Seq(Byte8)
        /\ Len(UInt32(0)) = 4 /\ Len(JumpOpcode(condition)) \in Nat
        /\ JumpSize(condition) = Len(JumpOpcode(condition)) + 4
    BY JumpOpcodeFits, Immediate32
  <2>2. code \in Seq(Byte8) /\ Len(code) = Len(JumpOpcode(condition)) + 4
    BY <2>1, Joined
  <2>3. bytes \in Seq(Byte8) /\ Len(bytes) \in Nat /\ MaxCodeSize \in Nat
    BY EmitterAssumption DEF IInv, TypeOK, Byte8
  <2>4. bytes' = bytes \o code
    <3>1. (bytes \o JumpOpcode(condition)) \o UInt32(0) = bytes \o (JumpOpcode(condition) \o UInt32(0))
      BY ONLY <2>1, <2>3, ConcatAssociative
    <3> QED BY <1>3, <3>1
  <2>5. ~finalized /\ Len(bytes) <= MaxCodeSize - JumpSize(condition)
    BY <1>3 DEF Begins, CanAppend
  <2>6. Len(bytes) + Len(code) <= MaxCodeSize
    BY <2>1, <2>2, <2>3, <2>5
  <2> HIDE DEF code
  <2>7. bytes' \in Seq(0 .. 255) /\ Len(bytes') = Len(bytes) + Len(code) /\ CodeFits'
    BY <1>3, <2>2, <2>4, <2>5, <2>6, AppendKeeps
  <2>8. /\ new \in [label : Nat, offset : Nat] /\ new.label \in DOMAIN labels
        /\ new.offset >= Len(bytes) /\ new.offset + 4 = Len(bytes')
    BY <1>3, <2>1, <2>2, <2>3, <2>7 DEF Valid, DisplacementOffset, IInv, TypeOK
  <2> HIDE DEF new
  <2>9. fixups \in Seq([label : Nat, offset : Nat])
    BY DEF IInv, TypeOK
  <2>10. /\ fixups' \in Seq([label : Nat, offset : Nat])
         /\ Len(fixups') = Len(fixups) + 1
         /\ fixups'[Len(fixups) + 1] = new
         /\ \A k \in DOMAIN fixups : fixups'[k] = fixups[k]
    BY <1>3, <2>8, <2>9
  <2>11. TypeOK'
    BY <1>3, <2>7, <2>10 DEF IInv, TypeOK
  <2>12. FixupsInside'
    <3>1. ASSUME NEW k \in DOMAIN fixups
          PROVE  /\ fixups[k].label \in DOMAIN labels /\ fixups[k].offset \in Nat
                 /\ fixups[k].offset + 4 <= Len(bytes)
      BY <2>5, FixupFields DEF IInv, FixupsInside
    <3>2. ASSUME NEW k \in DOMAIN fixups'
          PROVE  /\ fixups'[k].label \in DOMAIN labels'
                 /\ fixups'[k].offset + 4 <= Len(bytes')
      <4>1. CASE k \in DOMAIN fixups
        <5>1. fixups'[k] = fixups[k] /\ labels' = labels
          BY <1>3, <2>10, <4>1
        <5>2. Len(bytes') = Len(bytes) + Len(code) /\ Len(code) \in Nat
          BY <2>2, <2>7
        <5> QED BY ONLY <2>3, <3>1, <4>1, <5>1, <5>2
      <4>2. CASE k = Len(fixups) + 1
        BY <1>3, <2>3, <2>7, <2>8, <2>10, <4>2
      <4> QED BY <2>9, <2>10, <4>1, <4>2
    <3>3. ASSUME NEW j \in DOMAIN fixups', NEW k \in DOMAIN fixups', j < k
          PROVE  fixups'[j].offset + 4 <= fixups'[k].offset
      <4>1. j \in DOMAIN fixups
        BY <2>9, <2>10, <3>3
      <4>2. CASE k \in DOMAIN fixups
        BY <2>5, <2>10, <3>3, <4>1, <4>2 DEF IInv, FixupsInside
      <4>3. CASE k = Len(fixups) + 1
        BY <2>3, <2>8, <2>10, <3>1, <4>1, <4>3
      <4> QED BY <2>9, <2>10, <4>2, <4>3
    <3> QED BY <3>2, <3>3 DEF FixupsInside
  <2> QED BY <2>7, <2>11, <2>12 DEF IInv
<1> QED BY <1>1, <1>2, <1>3 DEF Jump

\* The code with its displacements written consists of bytes.
LEMMA PatchedIsCode == ASSUME IInv, ~finalized PROVE Patched \in Seq(0 .. 255)
<1>1. bytes \in Seq(Byte8) /\ labels \in Seq(Int)
  BY DEF IInv, TypeOK, Byte8
<1>2. ASSUME NEW k \in DOMAIN bytes PROVE Patched[k] \in Byte8
  <2>1. CASE FieldOf(k) = {}
    BY <1>1, <1>2, <2>1 DEF Patched
  <2>2. CASE FieldOf(k) # {}
    <3> DEFINE f == CHOOSE f \in FieldOf(k) : TRUE
    <3>1. f \in FieldOf(k)
      BY <2>2
    <3>2. PICK n \in DOMAIN fixups : f = fixups[n]
      BY <3>1 DEF FieldOf
    <3>3. f.offset \in Nat /\ f.label \in DOMAIN labels
      BY <3>2, FixupFields DEF IInv, FixupsInside
    <3>4. k - f.offset \in 1 .. 4
      <4>1. k \in f.offset + 1 .. f.offset + 4
        BY <3>1 DEF FieldOf
      <4> HIDE DEF f
      <4> QED BY ONLY <3>3, <4>1
    <3>5. Displacement(f) \in Int
      BY <1>1, <3>3 DEF Displacement
    <3>6. Patched[k] = UInt32(Displacement(f))[k - f.offset]
      BY <1>2, <2>2 DEF Patched
    <3> HIDE DEF f
    <3>7. /\ UInt32(Displacement(f)) \in Seq(Byte8)
          /\ k - f.offset \in DOMAIN UInt32(Displacement(f))
      BY <3>4, <3>5, Immediate32
    <3> QED BY <3>6, <3>7, EmittedByte
  <2> QED BY <2>1, <2>2
<1>3. Patched \in [1 .. Len(bytes) -> Byte8]
  BY <1>1, <1>2 DEF Patched
<1>4. Len(bytes) \in Nat
  BY <1>1
<1>5. Patched \in Seq(Byte8)
  BY ONLY <1>3, <1>4
<1> QED BY <1>5 DEF Byte8

\* finalize keeps the invariant.
LEMMA FinalizeKeeps == ASSUME IInv, Finalize PROVE IInv'
<1>1. ~finalized /\ finalized' = TRUE /\ error' = FinalError /\ UNCHANGED <<labels, fixups>>
  BY DEF Finalize
<1>2. FinalError \in EmitErrors
  BY DEF IInv, TypeOK, FinalError, EmitErrors
<1>3. /\ bytes' \in Seq(0 .. 255) /\ Len(bytes') <= MaxCodeSize
      /\ result' \in Seq(Seq(0 .. 255)) /\ Len(result') <= 1
  <2>1. CASE FinalError = "none"
    <3>1. result' = <<Patched>> /\ bytes' = <<>>
      BY <2>1 DEF Finalize
    <3>2. Patched \in Seq(0 .. 255)
      BY <1>1, PatchedIsCode
    <3> HIDE DEF Patched
    <3>3. <<Patched>> \in Seq(Seq(0 .. 255)) /\ Len(<<Patched>>) = 1
      BY <3>2
    <3> QED BY <3>1, <3>3, EmitterAssumption
  <2>2. CASE FinalError # "none"
    BY <2>2 DEF Finalize, NoCode, IInv, TypeOK, CodeFits
  <2> QED BY <2>1, <2>2
<1>4. TypeOK'
  BY <1>1, <1>2, <1>3 DEF IInv, TypeOK
<1> QED BY <1>1, <1>3, <1>4 DEF IInv, CodeFits, FixupsInside

\* Every call keeps the invariant.
LEMMA StepIInv == IInv /\ [Next]_vars => IInv'
<1> SUFFICES ASSUME IInv, [Next]_vars PROVE IInv'
  OBVIOUS
<1>1. CASE CreateLabel
  BY <1>1, CreateLabelKeeps
<1>2. CASE \E label \in HeldLabels : Bind(label)
  BY <1>2, BindKeeps
<1>3. CASE \E i \in Instructions : Emit(i)
  BY <1>3, EmitKeeps
<1>4. CASE \E label \in HeldLabels, condition \in Conditions : Jump(condition, label)
  BY <1>4, JumpKeeps
<1>5. CASE Finalize
  BY <1>5, FinalizeKeeps
<1>6. CASE UNCHANGED vars
  BY <1>6 DEF vars, IInv, TypeOK, CodeFits, FixupsInside
<1> QED BY <1>1, <1>2, <1>3, <1>4, <1>5, <1>6 DEF Next, FinalizeAgain

\* A displacement leads from inside the code to inside the code, so it fits a rel32.
LEMMA DisplacementsAreInRange == IInv => DisplacementsFit
<1> SUFFICES ASSUME IInv, ~finalized, AllBound, NEW k \in DOMAIN fixups
             PROVE  Rel32(Displacement(fixups[k]))
  BY DEF DisplacementsFit, AllRel32
<1> DEFINE f == fixups[k]
<1>1. f.label \in DOMAIN labels /\ f.offset \in Nat /\ f.offset + 4 <= Len(bytes)
  BY FixupFields DEF IInv, FixupsInside
<1>2. labels[f.label] \in 0 .. Len(bytes)
  BY <1>1 DEF IInv, CodeFits, AllBound
<1>3. Len(bytes) \in Nat /\ MaxCodeSize \in Nat /\ Len(bytes) <= MaxCodeSize
  BY EmitterAssumption DEF IInv, TypeOK, CodeFits
<1> HIDE DEF f
<1>4. Displacement(f) \in -(MaxCodeSize + 1) .. MaxCodeSize
  BY <1>1, <1>2, <1>3 DEF Displacement
<1> QED BY <1>4 DEF Rel32, f

\* The bytes of the emitter are bytes, its labels and fixups numbers, its errors
\* those of the enumeration, and it hands out at most one code.
THEOREM EmitterTypeCorrect == Spec => []TypeOK
<1>1. Spec => []IInv
  BY InitIInv, StepIInv, PTL DEF Spec
<1>2. IInv => TypeOK
  BY DEF IInv
<1> QED BY <1>1, <1>2, PTL

\* Emitter::finalize indexes labels_ and bytes_ without looking; the calls before
\* it have seen to it that this and the range of a displacement cannot go wrong.
THEOREM FinalizeNeverSurprises == Spec => []FinalizeIsSafe
<1>1. Spec => []IInv
  BY InitIInv, StepIInv, PTL DEF Spec
<1>2. IInv => FinalizeIsSafe
  BY DisplacementsAreInRange DEF IInv, FinalizeIsSafe
<1> QED BY <1>1, <1>2, PTL

-----------------------------------------------------------------------------
(* What the processor reads: numbers and registers, from the bytes up.     *)

\* The bits of the REX prefix of two registers.
LEMMA RexFields ==
  ASSUME NEW r \in Register, NEW m \in Register
  PROVE  /\ RexW(r, m) \in \h48 .. \h4D /\ Wide(RexW(r, m))
         /\ RegBit(RexW(r, m)) = 8 * High(r) /\ BaseBit(RexW(r, m)) = 8 * High(m)
         /\ IndexBit(RexW(r, m)) = 0
  BY DEF Register, High, RexW, Wide, RegBit, BaseBit, IndexBit

\* The fields of the ModRM byte of two registers.
LEMMA ModRmFields ==
  ASSUME NEW r \in Register, NEW m \in Register
  PROVE  /\ Mode(ModRm(r, m)) = 3 /\ (ModRm(r, m) \div 8) % 8 = Low(r) /\ ModRm(r, m) % 8 = Low(m)
         /\ Mode(ModRmDisplaced(r, m)) = 2 /\ (ModRmDisplaced(r, m) \div 8) % 8 = Low(r)
         /\ ModRmDisplaced(r, m) % 8 = Low(m)
  BY DEF Register, Low, ModRm, ModRmDisplaced, Mode

\* A register is put together from the bits in its two bytes.
LEMMA Parts == ASSUME NEW r \in Register PROVE Low(r) + 8 * High(r) = r /\ Low(r) \in 0 .. 7 /\ High(r) \in 0 .. 1
  BY DEF Register, Low, High

\* A number and its lowest byte.
LEMMA Digits ==
  ASSUME NEW v \in Int
  PROVE  /\ v = (256 * (v \div 256)) + (v % 256) /\ v % 256 \in Byte8 /\ v \div 256 \in Int
         /\ v \div 65536 = (v \div 256) \div 256
         /\ v \div 16777216 = (v \div 65536) \div 256
  BY SMT DEF Byte8

\* The number that a highest byte stands for.
Signed(b) == IF b >= 128 THEN b - 256 ELSE b

\* The lowest byte of a small number tells its sign.
LEMMA SignedByte ==
  ASSUME NEW q \in -128 .. 127
  PROVE  Signed(q % 256) = q
<1>1. CASE q >= 0
  BY <1>1 DEF Signed
<1>2. CASE q < 0
  <2>1. q % 256 = q + 256
    BY <1>2
  <2> QED BY <1>2, <2>1 DEF Signed
<1> QED BY <1>1, <1>2

\* The highest byte of an int32.
LEMMA TopByte ==
  ASSUME NEW v \in Int32Numbers
  PROVE  v \in Int /\ v \div 16777216 \in -128 .. 127
<1>1. LargestInt32 \in Int
  BY SMT DEF LargestInt32
<1>2. v \in Int /\ v >= -LargestInt32 - 1 /\ v <= LargestInt32
  BY SMT, <1>1 DEF Int32Numbers
<1>3. v >= -2147483647 - 1 /\ v <= 2147483647
  BY SMT, <1>2 DEF LargestInt32
<1>4. v \div 256 \in Int /\ v \div 256 >= -8388608 /\ v \div 256 <= 8388607
  BY ONLY SMT, <1>2, <1>3
<1>5. /\ (v \div 256) \div 256 \in Int
      /\ (v \div 256) \div 256 >= -32768 /\ (v \div 256) \div 256 <= 32767
  BY ONLY SMT, <1>4
<1>6. ((v \div 256) \div 256) \div 256 \in -128 .. 127
  BY ONLY SMT, <1>5
<1> QED BY SMT, <1>2, <1>6, Digits

\* The digits of a number, highest last, and their sum.
LEMMA Horner ==
  ASSUME NEW a \in Int, NEW b \in Int, NEW c \in Int, NEW z \in Int
  PROVE  a + (256 * b) + (65536 * c) + (16777216 * z) = a + 256 * (b + 256 * (c + 256 * z))
  BY SMT

\* The bytes of s stand in the code from byte k on.
Holds(code, k, s) ==
  \A j \in 1 .. Len(s) : k + j - 1 \in DOMAIN code /\ code[k + j - 1] = s[j]

\* Four bytes that hold a number are read as that number.
LEMMA HoldsInt32 ==
  ASSUME NEW code, NEW k \in Int, NEW v \in Int32Numbers, Holds(code, k, UInt32(v))
  PROVE  Int32(code, k) = v
<1> DEFINE q1 == v \div 256
           q2 == v \div 65536
           q3 == v \div 16777216
<1>1. v \in Int /\ q3 \in -128 .. 127
  BY TopByte
<1>2. Len(UInt32(v)) = 4 /\ UInt32(v)[1] = v % 256 /\ UInt32(v)[2] = q1 % 256 /\ UInt32(v)[3] = q2 % 256
      /\ UInt32(v)[4] = q3 % 256
  BY SMT DEF UInt32
<1>3. /\ Byte(code, k) = v % 256 /\ Byte(code, k + 1) = q1 % 256
      /\ Byte(code, k + 2) = q2 % 256 /\ Byte(code, k + 3) = q3 % 256
  <2> HIDE DEF q1, q2, q3
  <2>1. ASSUME NEW j \in 1 .. 4 PROVE Byte(code, k + j - 1) = UInt32(v)[j]
    BY <1>2 DEF Holds, Byte
  <2>2. k + 1 - 1 = k /\ k + 2 - 1 = k + 1 /\ k + 3 - 1 = k + 2 /\ k + 4 - 1 = k + 3
    OBVIOUS
  <2> QED BY <1>2, <2>1, <2>2
<1>4. /\ v = (256 * q1) + (v % 256) /\ q1 \in Int /\ v % 256 \in Int
      /\ q1 = (256 * q2) + (q1 % 256) /\ q2 \in Int /\ q1 % 256 \in Int
      /\ q2 = (256 * q3) + (q2 % 256) /\ q3 \in Int /\ q2 % 256 \in Int
  <2>1. ASSUME NEW w \in Int
        PROVE  w = (256 * (w \div 256)) + (w % 256) /\ w % 256 \in Int /\ w \div 256 \in Int
    BY SMT, Digits DEF Byte8
  <2>2. q2 = q1 \div 256 /\ q3 = q2 \div 256
    BY SMT, <1>1, Digits
  <2>3. q1 \in Int
    BY <1>1, <2>1
  <2>4. q2 \in Int
    BY <2>3, <2>1, <2>2
  <2> QED BY <1>1, <2>1, <2>2, <2>3, <2>4
<1> HIDE DEF q1, q2, q3
<1>5. Signed(q3 % 256) = q3
  BY <1>1, SignedByte
<1>6. Int32(code, k) = (v % 256) + (256 * (q1 % 256)) + (65536 * (q2 % 256)) + (16777216 * Signed(q3 % 256))
  BY SMT, <1>3 DEF Int32, Signed
<1>7. v = (v % 256) + 256 * ((q1 % 256) + 256 * ((q2 % 256) + 256 * q3))
  BY ONLY SMT, <1>4
<1>8. (v % 256) + (256 * (q1 % 256)) + (65536 * (q2 % 256)) + (16777216 * q3)
        = (v % 256) + 256 * ((q1 % 256) + 256 * ((q2 % 256) + 256 * q3))
  BY ONLY SMT, <1>4, Horner
<1> QED BY ONLY SMT, <1>5, <1>6, <1>7, <1>8

-----------------------------------------------------------------------------
(* What the processor reads: the way to the opcode, and the tables of opcodes. *)

\* Where a decoder goes from the bytes before an opcode.
LEMMA DecodeWide ==
  ASSUME NEW code, NEW k \in Int, Byte(code, k) \in \h48 .. \h4D
  PROVE  Decode(code, k) = ReadOpcode(code, 0, Byte(code, k), k + 1)
  BY DEF Decode, ReadRex

\* From the first byte on, with a prefix.
LEMMA DecodePrefixed ==
  ASSUME NEW code, NEW k \in Int, Byte(code, k) \in {\h66, \hF2}
  PROVE  /\ Byte(code, k + 1) \in \h48 .. \h4D =>
              Decode(code, k) = ReadOpcode(code, Byte(code, k), Byte(code, k + 1), k + 2)
         /\ Byte(code, k + 1) = \h0F =>
              Decode(code, k) = ReadOpcode(code, Byte(code, k), 0, k + 1)
  BY DEF Decode, ReadRex

\* From the first byte on, without a prefix.
LEMMA DecodeNarrow ==
  ASSUME NEW code, NEW k \in Int
  PROVE  /\ Byte(code, k) \in {\h40, \h41} =>
              Decode(code, k) = ReadOpcode(code, 0, Byte(code, k), k + 1)
         /\ Byte(code, k) \in {\h0F} \cup \h50 .. \h5F \cup {\hC3, \hE9} =>
              Decode(code, k) = ReadOpcode(code, 0, 0, k)
  BY DEF Decode, ReadRex

\* And from the opcode.
LEMMA OpcodeLong ==
  ASSUME NEW code, NEW prefix, NEW rex, NEW k \in Int, Byte(code, k) = \h0F
  PROVE  ReadOpcode(code, prefix, rex, k) = ReadLong(code, prefix, rex, Byte(code, k + 1), k + 2)
  BY DEF ReadOpcode

\* An opcode of one byte.
LEMMA OpcodeShort ==
  ASSUME NEW code, NEW prefix, NEW rex, NEW k \in Int, Byte(code, k) # \h0F
  PROVE  ReadOpcode(code, prefix, rex, k) = ReadShort(code, rex, Byte(code, k), k + 1)
  BY DEF ReadOpcode

\* An opcode of one byte under REX.W.
LEMMA ShortWide ==
  ASSUME NEW code, NEW rex, NEW k \in Int, NEW opcode \in Byte8, Wide(rex),
         opcode \notin \h50 .. \h5F, opcode \notin {\hC3, \hE9}
  PROVE  ReadShort(code, rex, opcode, k) = ReadWide(code, rex, opcode, k)
<1>1. opcode \notin \h50 .. \h57 /\ opcode \notin \h58 .. \h5F /\ opcode # \hC3 /\ opcode # \hE9
  BY DEF Byte8
<1> QED BY <1>1 DEF ReadShort

\* The tables of the processor have every method that uses them.
LEMMA ToRmNames ==
  ASSUME NEW o \in DOMAIN RegisterForm
  PROVE  /\ InTable(ToRm, RegisterForm[o]) /\ OpNamed(ToRm, RegisterForm[o]) = o
         /\ RegisterForm[o] \in {\h89, \h01, \h29, \h31, \h39, \h85}
  BY DEF RegisterForm, ToRm, InTable, OpNamed

\* The names in the table of opcodes with memory.
LEMMA MemoryNames ==
  ASSUME NEW o \in DOMAIN MemoryForm
  PROVE  /\ InTable(WithMemory, MemoryForm[o]) /\ OpNamed(WithMemory, MemoryForm[o]) = o
         /\ MemoryForm[o] \in {\h8B, \h8D, \h89}
  BY DEF MemoryForm, WithMemory, InTable, OpNamed

\* The names in the table of scalar doubles.
LEMMA DoubleNames ==
  ASSUME NEW o \in DOMAIN DoubleForm, o # "compareDouble"
  PROVE  /\ InTable(ScalarDouble, DoubleForm[o][2]) /\ OpNamed(ScalarDouble, DoubleForm[o][2]) = o
         /\ DoubleForm[o][1] = \hF2 /\ DoubleForm[o][2] \in {\h58, \h5C, \h59, \h5E}
  BY DEF DoubleForm, ScalarDouble, InTable, OpNamed

\* The number of a condition names it.
LEMMA ConditionNames ==
  ASSUME NEW c \in DOMAIN ConditionCode
  PROVE  ConditionNamed(ConditionCode[c]) = c /\ ConditionCode[c] \in 2 .. 15 /\ c # None
  BY DEF ConditionCode, ConditionNamed, None

\* The opcodes in each table.
LEMMA TableOpcodes ==
  ASSUME NEW opcode
  PROVE  /\ InTable(ToRm, opcode) => opcode \in {\h89, \h01, \h29, \h31, \h39, \h85}
         /\ InTable(WithMemory, opcode) => opcode \in {\h8B, \h8D, \h89}
         /\ InTable(ScalarDouble, opcode) => opcode \in {\h58, \h59, \h5C, \h5E}
  BY DEF ToRm, WithMemory, ScalarDouble, InTable

\* The arms of the opcodes of one byte with REX.W.
LEMMA WideArms ==
  ASSUME NEW code, NEW rex, NEW opcode \in Byte8, NEW k \in Int
  PROVE  LET modRm == Byte(code, k)
             register == (opcode % 8) + BaseBit(rex)
         IN /\ opcode \in \hB8 .. \hBF =>
                 ReadWide(code, rex, opcode, k)
                   = Read(MoveImmediate64(register, Int32(code, k), Int32(code, k + 4)), k + 8)
            /\ opcode = \h99 =>
                 ReadWide(code, rex, opcode, k) = Read(Op("signExtendRaxIntoRdx", 0, 0, 0, None), k)
            /\ opcode = \h81 /\ modRm \in {\hEC, \hC4} =>
                 ReadWide(code, rex, opcode, k)
                   = Read(Op(IF modRm = \hEC THEN "subtractStackPointer" ELSE "addStackPointer",
                             0, 0, Int32(code, k + 1), None), k + 5)
            /\ opcode \in {\hF7, \hFF} /\ Mode(modRm) = 3 =>
                 ReadWide(code, rex, opcode, k) = Read(Grouped(opcode, rex, modRm), k + 1)
            /\ InTable(WithMemory, opcode) /\ Mode(modRm) = 2 =>
                 ReadWide(code, rex, opcode, k) = Memory(WithMemory, code, rex, opcode, k)
            /\ InTable(ToRm, opcode) /\ Mode(modRm) = 3 =>
                 ReadWide(code, rex, opcode, k)
                   = Read(Op(OpNamed(ToRm, opcode), RmOf(rex, modRm), RegOf(rex, modRm), 0, None), k + 1)
<1> DEFINE modRm == Byte(code, k)
<1>1. /\ opcode \in \hB8 .. \hBF => /\ opcode # \h99 /\ opcode # \h81 /\ opcode \notin {\hF7, \hFF}
                                    /\ ~InTable(WithMemory, opcode) /\ ~InTable(ToRm, opcode)
      /\ opcode = \h99 => /\ opcode \notin \hB8 .. \hBF /\ opcode # \h81 /\ opcode \notin {\hF7, \hFF}
                          /\ ~InTable(WithMemory, opcode) /\ ~InTable(ToRm, opcode)
      /\ opcode = \h81 => /\ opcode \notin \hB8 .. \hBF /\ opcode # \h99 /\ opcode \notin {\hF7, \hFF}
                          /\ ~InTable(WithMemory, opcode) /\ ~InTable(ToRm, opcode)
      /\ opcode \in {\hF7, \hFF} => /\ opcode \notin \hB8 .. \hBF /\ opcode # \h99 /\ opcode # \h81
                          /\ ~InTable(WithMemory, opcode) /\ ~InTable(ToRm, opcode)
      /\ InTable(WithMemory, opcode) \/ InTable(ToRm, opcode) =>
              /\ opcode \notin \hB8 .. \hBF /\ opcode # \h99 /\ opcode # \h81 /\ opcode \notin {\hF7, \hFF}
  BY TableOpcodes DEF Byte8
<1>2. Mode(modRm) = 3 => Mode(modRm) # 2
  OBVIOUS
<1>3. CASE opcode \in \hB8 .. \hBF
  BY <1>1, <1>3 DEF ReadWide
<1>4. CASE opcode = \h99
  BY <1>1, <1>4 DEF ReadWide
<1>5. CASE opcode = \h81 /\ modRm \in {\hEC, \hC4}
  BY <1>1, <1>5 DEF ReadWide
<1>6. CASE opcode \in {\hF7, \hFF} /\ Mode(modRm) = 3
  BY <1>1, <1>6 DEF ReadWide
<1>7. CASE InTable(WithMemory, opcode) /\ Mode(modRm) = 2
  BY <1>1, <1>2, <1>7 DEF ReadWide
<1>8. CASE InTable(ToRm, opcode) /\ Mode(modRm) = 3
  BY <1>1, <1>2, <1>8 DEF ReadWide
<1> QED BY <1>3, <1>4, <1>5, <1>6, <1>7, <1>8

\* The arms of the opcodes of two bytes.
LEMMA LongArms ==
  ASSUME NEW code, NEW prefix, NEW rex, NEW opcode \in Byte8, NEW k \in Int
  PROVE  LET modRm == Byte(code, k)
             reg == RegOf(rex, modRm)
             rm == RmOf(rex, modRm)
         IN /\ opcode \in \h80 .. \h8F =>
                 ReadLong(code, prefix, rex, opcode, k)
                   = Read(Op("jump", 0, 0, Int32(code, k), ConditionNamed(opcode - \h80)), k + 4)
            /\ opcode \in \h90 .. \h9F /\ Mode(modRm) = 3 =>
                 ReadLong(code, prefix, rex, opcode, k)
                   = Read(Op("set", ByteRegister(rex, rm), 0, 0, ConditionNamed(opcode - \h90)), k + 1)
            /\ opcode = \hAF /\ Wide(rex) /\ Mode(modRm) = 3 =>
                 ReadLong(code, prefix, rex, opcode, k) = Read(Op("multiply", reg, rm, 0, None), k + 1)
            /\ prefix = \h66 /\ opcode = \h6E /\ Wide(rex) /\ Mode(modRm) = 3 =>
                 ReadLong(code, prefix, rex, opcode, k) = Read(Op("moveToXmm", reg, rm, 0, None), k + 1)
            /\ prefix = \h66 /\ opcode = \h7E /\ Wide(rex) /\ Mode(modRm) = 3 =>
                 ReadLong(code, prefix, rex, opcode, k) = Read(Op("moveFromXmm", rm, reg, 0, None), k + 1)
            /\ prefix = \h66 /\ opcode = \h2E /\ Mode(modRm) = 3 =>
                 ReadLong(code, prefix, rex, opcode, k) = Read(Op("compareDouble", reg, rm, 0, None), k + 1)
            /\ prefix = \hF2 /\ InTable(ScalarDouble, opcode) /\ Mode(modRm) = 3 =>
                 ReadLong(code, prefix, rex, opcode, k)
                   = Read(Op(OpNamed(ScalarDouble, opcode), reg, rm, 0, None), k + 1)
<1> DEFINE modRm == Byte(code, k)
           jump == opcode \in \h80 .. \h8F
           set == opcode \in \h90 .. \h9F
           double == InTable(ScalarDouble, opcode)
<1>1. /\ jump => ~set /\ opcode # \hAF /\ opcode # \h6E /\ opcode # \h7E /\ opcode # \h2E /\ ~double
      /\ set => ~jump /\ opcode # \hAF /\ opcode # \h6E /\ opcode # \h7E /\ opcode # \h2E /\ ~double
      /\ opcode \in {\hAF, \h6E, \h7E, \h2E} => ~jump /\ ~set /\ ~double
      /\ double => ~jump /\ ~set /\ opcode \notin {\hAF, \h6E, \h7E, \h2E}
  BY TableOpcodes DEF Byte8
<1>2. CASE jump
  BY <1>1, <1>2 DEF ReadLong
<1>3. CASE set /\ Mode(modRm) = 3
  BY <1>1, <1>3 DEF ReadLong
<1>4. CASE opcode = \hAF /\ Wide(rex) /\ Mode(modRm) = 3
  BY <1>1, <1>4 DEF ReadLong
<1>5. CASE prefix = \h66 /\ opcode = \h6E /\ Wide(rex) /\ Mode(modRm) = 3
  BY <1>1, <1>5 DEF ReadLong
<1>6. CASE prefix = \h66 /\ opcode = \h7E /\ Wide(rex) /\ Mode(modRm) = 3
  BY <1>1, <1>6 DEF ReadLong
<1>7. CASE prefix = \h66 /\ opcode = \h2E /\ Mode(modRm) = 3
  BY <1>1, <1>7 DEF ReadLong
<1>8. CASE prefix = \hF2 /\ double /\ Mode(modRm) = 3
  BY <1>1, <1>8 DEF ReadLong
<1> QED BY <1>2, <1>3, <1>4, <1>5, <1>6, <1>7, <1>8

\* Bytes that hold two runs in a row hold each of them.
LEMMA HoldsConcat ==
  ASSUME NEW code, NEW k \in Int, NEW s \in Seq(Byte8), NEW t \in Seq(Byte8), Holds(code, k, s \o t)
  PROVE  Holds(code, k, s) /\ Holds(code, k + Len(s), t)
<1>1. /\ Len(s \o t) = Len(s) + Len(t) /\ Len(s) \in Nat /\ Len(t) \in Nat
      /\ \A j \in 1 .. Len(s) : (s \o t)[j] = s[j]
      /\ \A j \in 1 .. Len(t) : (s \o t)[Len(s) + j] = t[j]
  OBVIOUS
<1>2. Holds(code, k, s)
  <2>1. \A j \in 1 .. Len(s) : j \in 1 .. Len(s \o t)
    BY <1>1
  <2> QED BY <1>1, <2>1 DEF Holds
<1>3. Holds(code, k + Len(s), t)
  <2> SUFFICES ASSUME NEW j \in 1 .. Len(t)
               PROVE  k + Len(s) + j - 1 \in DOMAIN code /\ code[k + Len(s) + j - 1] = t[j]
    BY DEF Holds
  <2>1. Len(s) + j \in 1 .. Len(s \o t) /\ k + (Len(s) + j) - 1 = k + Len(s) + j - 1
    BY <1>1
  <2> QED BY <1>1, <2>1 DEF Holds
<1> QED BY <1>2, <1>3

\* The bytes of a run.
LEMMA HoldsByte ==
  ASSUME NEW code, NEW k \in Int, NEW s, NEW j \in 1 .. Len(s), Holds(code, k, s)
  PROVE  Byte(code, k + j - 1) = s[j]
  BY DEF Holds, Byte

\* The bytes of a run of up to five.
LEMMA HoldsFew ==
  ASSUME NEW code, NEW k \in Int
  PROVE  /\ \A a : Holds(code, k, <<a>>) => Byte(code, k) = a
         /\ \A a, b : Holds(code, k, <<a, b>>) => Byte(code, k) = a /\ Byte(code, k + 1) = b
         /\ \A a, b, c : Holds(code, k, <<a, b, c>>) =>
              Byte(code, k) = a /\ Byte(code, k + 1) = b /\ Byte(code, k + 2) = c
         /\ \A a, b, c, d : Holds(code, k, <<a, b, c, d>>) =>
              Byte(code, k) = a /\ Byte(code, k + 1) = b /\ Byte(code, k + 2) = c /\ Byte(code, k + 3) = d
         /\ \A a, b, c, d, e : Holds(code, k, <<a, b, c, d, e>>) =>
              Byte(code, k) = a /\ Byte(code, k + 1) = b /\ Byte(code, k + 2) = c /\ Byte(code, k + 3) = d
                /\ Byte(code, k + 4) = e
<1>1. k + 1 - 1 = k /\ k + 2 - 1 = k + 1 /\ k + 3 - 1 = k + 2 /\ k + 4 - 1 = k + 3 /\ k + 5 - 1 = k + 4
  OBVIOUS
<1>2. ASSUME NEW s, NEW n \in Nat, Len(s) = n, Holds(code, k, s)
      PROVE  \A j \in 1 .. n : Byte(code, k + j - 1) = s[j]
  BY <1>2, HoldsByte
<1>3. \A a : Holds(code, k, <<a>>) => Byte(code, k) = a
  <2> TAKE a
  <2> HAVE Holds(code, k, <<a>>)
  <2>1. \A j \in 1 .. 1 : Byte(code, k + j - 1) = <<a>>[j]
    BY <1>2
  <2> QED BY <1>1, <2>1
<1>4. \A a, b : Holds(code, k, <<a, b>>) => Byte(code, k) = a /\ Byte(code, k + 1) = b
  <2> TAKE a, b
  <2> HAVE Holds(code, k, <<a, b>>)
  <2>1. \A j \in 1 .. 2 : Byte(code, k + j - 1) = <<a, b>>[j]
    BY <1>2
  <2> QED BY <1>1, <2>1
<1>5. \A a, b, c : Holds(code, k, <<a, b, c>>) =>
        Byte(code, k) = a /\ Byte(code, k + 1) = b /\ Byte(code, k + 2) = c
  <2> TAKE a, b, c
  <2> HAVE Holds(code, k, <<a, b, c>>)
  <2>1. \A j \in 1 .. 3 : Byte(code, k + j - 1) = <<a, b, c>>[j]
    BY <1>2
  <2> QED BY <1>1, <2>1
<1>6. \A a, b, c, d : Holds(code, k, <<a, b, c, d>>) =>
        Byte(code, k) = a /\ Byte(code, k + 1) = b /\ Byte(code, k + 2) = c /\ Byte(code, k + 3) = d
  <2> TAKE a, b, c, d
  <2> HAVE Holds(code, k, <<a, b, c, d>>)
  <2>1. \A j \in 1 .. 4 : Byte(code, k + j - 1) = <<a, b, c, d>>[j]
    BY <1>2
  <2> QED BY <1>1, <2>1
<1>7. \A a, b, c, d, e : Holds(code, k, <<a, b, c, d, e>>) =>
        Byte(code, k) = a /\ Byte(code, k + 1) = b /\ Byte(code, k + 2) = c /\ Byte(code, k + 3) = d
          /\ Byte(code, k + 4) = e
  <2> TAKE a, b, c, d, e
  <2> HAVE Holds(code, k, <<a, b, c, d, e>>)
  <2>1. \A j \in 1 .. 5 : Byte(code, k + j - 1) = <<a, b, c, d, e>>[j]
    BY <1>2
  <2> QED BY <1>1, <2>1
<1> QED BY <1>3, <1>4, <1>5, <1>6, <1>7

-----------------------------------------------------------------------------
(* Every method by itself: its bytes are read as its instruction.          *)

\* An instruction but a move of 64 bits is what Op makes of its fields.
LEMMA WrittenFields ==
  ASSUME NEW i, Written(i)
  PROVE  /\ i.op \in Ops /\ i.a \in Register /\ i.b \in Register
         /\ i.n \in Int32Numbers /\ i.high \in Int32Numbers
         /\ i.condition \in DOMAIN ConditionCode \cup {None}
         /\ i.op # "moveImmediate64" => i = Op(i.op, i.a, i.b, i.n, i.condition)
         /\ i.op = "moveImmediate64" => i = MoveImmediate64(i.a, i.n, i.high)
<1>1. i \in [op : Ops, a : Register, b : Register, n : Int32Numbers, high : Int32Numbers,
             condition : DOMAIN ConditionCode \cup {None}]
  BY DEF Written
<1>2. i = [op |-> i.op, a |-> i.a, b |-> i.b, n |-> i.n, high |-> i.high, condition |-> i.condition]
  BY <1>1
<1>3. CASE i.op # "moveImmediate64"
  <2>1. i.high = 0
    BY <1>3 DEF Written
  <2> QED BY <1>1, <1>2, <1>3, <2>1 DEF Op
<1>4. CASE i.op = "moveImmediate64"
  <2>1. i.b = 0 /\ i.condition = None
    BY <1>4, Domains DEF Written
  <2>2. MoveImmediate64(i.a, i.n, i.high)
          = [op |-> "moveImmediate64", a |-> i.a, b |-> 0, n |-> i.n, high |-> i.high, condition |-> None]
    BY DEF MoveImmediate64, Op
  <2> QED BY <1>1, <1>2, <1>4, <2>1, <2>2
<1> QED BY <1>1, <1>3, <1>4

\* The registers of an instruction with a REX prefix and a ModRM byte.
LEMMA RegistersRead ==
  ASSUME NEW r \in Register, NEW m \in Register
  PROVE  /\ RegOf(RexW(r, m), ModRm(r, m)) = r /\ RmOf(RexW(r, m), ModRm(r, m)) = m
         /\ RegOf(RexW(r, m), ModRmDisplaced(r, m)) = r
         /\ RmOf(RexW(r, m), ModRmDisplaced(r, m)) = m
         /\ Mode(ModRm(r, m)) = 3 /\ Mode(ModRmDisplaced(r, m)) = 2
         /\ RexW(r, m) \in \h48 .. \h4D /\ Wide(RexW(r, m))
<1>1. Low(r) + 8 * High(r) = r /\ Low(m) + 8 * High(m) = m
  BY Parts
<1>2. Low(r) \in Int /\ High(r) \in Int /\ Low(m) \in Int /\ High(m) \in Int
  BY Parts
<1> QED BY <1>1, <1>2, RexFields, ModRmFields DEF RegOf, RmOf

\* From a byte to the arm of its opcode.
LEMMA ToWide ==
  ASSUME NEW code, NEW k \in Int, NEW rex \in \h48 .. \h4D, NEW opcode \in Byte8,
         Byte(code, k) = rex, Wide(rex), Byte(code, k + 1) = opcode,
         opcode # \h0F, opcode \notin \h50 .. \h5F, opcode \notin {\hC3, \hE9}
  PROVE  Decode(code, k) = ReadWide(code, rex, opcode, k + 2)
<1>1. Decode(code, k) = ReadOpcode(code, 0, rex, k + 1)
  BY DecodeWide
<1>2. ReadOpcode(code, 0, rex, k + 1) = ReadShort(code, rex, opcode, k + 2)
  <2>1. k + 1 \in Int /\ (k + 1) + 1 = k + 2
    OBVIOUS
  <2> QED BY <2>1, OpcodeShort
<1>3. ReadShort(code, rex, opcode, k + 2) = ReadWide(code, rex, opcode, k + 2)
  <2>1. k + 2 \in Int
    OBVIOUS
  <2> QED BY <2>1, ShortWide
<1> QED BY <1>1, <1>2, <1>3

\* The way to an opcode of two bytes.
LEMMA ToLong ==
  ASSUME NEW code, NEW k \in Int
  PROVE  /\ Byte(code, k) = \h0F =>
              Decode(code, k) = ReadLong(code, 0, 0, Byte(code, k + 1), k + 2)
         /\ Byte(code, k) \in {\h40, \h41} \cup \h48 .. \h4D /\ Byte(code, k + 1) = \h0F =>
              Decode(code, k) = ReadLong(code, 0, Byte(code, k), Byte(code, k + 2), k + 3)
         /\ Byte(code, k) \in {\h66, \hF2} /\ Byte(code, k + 1) = \h0F =>
              Decode(code, k) = ReadLong(code, Byte(code, k), 0, Byte(code, k + 2), k + 3)
         /\ /\ Byte(code, k) \in {\h66, \hF2} /\ Byte(code, k + 1) \in \h48 .. \h4D
            /\ Byte(code, k + 2) = \h0F
            => Decode(code, k)
                 = ReadLong(code, Byte(code, k), Byte(code, k + 1), Byte(code, k + 3), k + 4)
<1>1. /\ k + 1 \in Int /\ k + 2 \in Int /\ (k + 1) + 1 = k + 2 /\ (k + 1) + 2 = k + 3
      /\ (k + 2) + 1 = k + 3 /\ (k + 2) + 2 = k + 4
  OBVIOUS
<1>2. ASSUME Byte(code, k) = \h0F
      PROVE  Decode(code, k) = ReadLong(code, 0, 0, Byte(code, k + 1), k + 2)
  BY <1>2, DecodeNarrow, OpcodeLong
<1>3. ASSUME Byte(code, k) \in {\h40, \h41} \cup \h48 .. \h4D, Byte(code, k + 1) = \h0F
      PROVE  Decode(code, k) = ReadLong(code, 0, Byte(code, k), Byte(code, k + 2), k + 3)
  <2>1. Decode(code, k) = ReadOpcode(code, 0, Byte(code, k), k + 1)
    BY <1>3, DecodeNarrow, DecodeWide
  <2> QED BY <1>1, <1>3, <2>1, OpcodeLong
<1>4. ASSUME Byte(code, k) \in {\h66, \hF2}, Byte(code, k + 1) = \h0F
      PROVE  Decode(code, k) = ReadLong(code, Byte(code, k), 0, Byte(code, k + 2), k + 3)
  <2>1. Decode(code, k) = ReadOpcode(code, Byte(code, k), 0, k + 1)
    BY <1>4, DecodePrefixed
  <2> QED BY <1>1, <1>4, <2>1, OpcodeLong
<1>5. ASSUME Byte(code, k) \in {\h66, \hF2}, Byte(code, k + 1) \in \h48 .. \h4D,
             Byte(code, k + 2) = \h0F
      PROVE  Decode(code, k)
               = ReadLong(code, Byte(code, k), Byte(code, k + 1), Byte(code, k + 3), k + 4)
  <2>1. Decode(code, k) = ReadOpcode(code, Byte(code, k), Byte(code, k + 1), k + 2)
    BY <1>5, DecodePrefixed
  <2> QED BY <1>1, <1>5, <2>1, OpcodeLong
<1> QED BY <1>2, <1>3, <1>4, <1>5

\* Every form of an instruction is read as that instruction.
LEMMA ReadRegisters ==
  ASSUME NEW code, NEW k \in Int, NEW i, Written(i), i.op \in DOMAIN RegisterForm,
         Holds(code, k, EncodeRegisters(i))
  PROVE  Decode(code, k) = Read(i, k + 3)
<1> DEFINE rex == RexW(i.b, i.a)
           modRm == ModRm(i.b, i.a)
           opcode == RegisterForm[i.op]
<1>1. i.a \in Register /\ i.b \in Register
  BY WrittenFields
<1>2. Byte(code, k) = rex /\ Byte(code, k + 1) = opcode /\ Byte(code, k + 2) = modRm
  BY HoldsFew DEF EncodeRegisters
<1>3. /\ rex \in \h48 .. \h4D /\ Wide(rex) /\ Mode(modRm) = 3
      /\ RegOf(rex, modRm) = i.b /\ RmOf(rex, modRm) = i.a
  BY <1>1, RegistersRead
<1>4. /\ InTable(ToRm, opcode) /\ OpNamed(ToRm, opcode) = i.op
      /\ opcode \in {\h89, \h01, \h29, \h31, \h39, \h85}
  BY ToRmNames
<1>5. i = Op(i.op, i.a, i.b, 0, None)
  <2>1. i.n = 0 /\ i.condition = None /\ i.op # "moveImmediate64"
    BY Domains DEF Written
  <2> QED BY <2>1, WrittenFields
<1> HIDE DEF rex, modRm, opcode
<1>6. opcode \in Byte8 /\ opcode # \h0F /\ opcode \notin \h50 .. \h5F /\ opcode \notin {\hC3, \hE9}
  BY <1>4 DEF Byte8
<1>7. Decode(code, k) = ReadWide(code, rex, opcode, k + 2)
  BY <1>2, <1>3, <1>6, ToWide
<1>8. ReadWide(code, rex, opcode, k + 2) = Read(Op(i.op, i.a, i.b, 0, None), k + 3)
  <2>1. k + 2 \in Int /\ (k + 2) + 1 = k + 3
    OBVIOUS
  <2> QED BY <1>2, <1>3, <1>4, <1>6, <2>1, WideArms
<1> QED BY <1>5, <1>7, <1>8

\* An unused field of a method's instruction.
LEMMA Shape ==
  ASSUME NEW i, Written(i), i.op # "moveImmediate64", i.op # "set"
  PROVE  /\ i = Op(i.op, i.a, i.b, i.n, None)
         /\ i.op \notin DOMAIN MemoryForm \cup DOMAIN AdjustForm => i = Op(i.op, i.a, i.b, 0, None)
<1>1. i.condition = None
  BY DEF Written
<1>2. i.op \notin DOMAIN MemoryForm \cup DOMAIN AdjustForm => i.n = 0
  BY DEF Written
<1> QED BY <1>1, <1>2, WrittenFields

\* The bytes of multiply.
LEMMA ReadMultiply ==
  ASSUME NEW code, NEW k \in Int, NEW i, Written(i), i.op = "multiply",
         Holds(code, k, EncodeMultiply(i))
  PROVE  Decode(code, k) = Read(i, k + 4)
<1> DEFINE rex == RexW(i.a, i.b)
           modRm == ModRm(i.a, i.b)
<1>1. i.a \in Register /\ i.b \in Register
  BY WrittenFields
<1>2. /\ Byte(code, k) = rex /\ Byte(code, k + 1) = \h0F /\ Byte(code, k + 2) = \hAF
      /\ Byte(code, k + 3) = modRm
  BY HoldsFew DEF EncodeMultiply
<1>3. /\ rex \in \h48 .. \h4D /\ Wide(rex) /\ Mode(modRm) = 3
      /\ RegOf(rex, modRm) = i.a /\ RmOf(rex, modRm) = i.b
  BY <1>1, RegistersRead
<1>4. i = Op("multiply", i.a, i.b, 0, None)
  BY Shape, Domains
<1> HIDE DEF rex, modRm
<1>5. Decode(code, k) = ReadLong(code, 0, rex, \hAF, k + 3)
  BY <1>2, <1>3, ToLong
<1>6. ReadLong(code, 0, rex, \hAF, k + 3) = Read(Op("multiply", i.a, i.b, 0, None), k + 4)
  <2>1. k + 3 \in Int /\ (k + 3) + 1 = k + 4 /\ \hAF \in Byte8
    BY DEF Byte8
  <2> QED BY <1>2, <1>3, <2>1, LongArms
<1> QED BY <1>4, <1>5, <1>6

\* The bytes of moveToXmm.
LEMMA ReadToXmm ==
  ASSUME NEW code, NEW k \in Int, NEW i, Written(i), i.op = "moveToXmm",
         Holds(code, k, EncodeToXmm(i))
  PROVE  Decode(code, k) = Read(i, k + 5)
<1> DEFINE rex == RexW(rax, i.b)
           modRm == ModRm(i.a, i.b)
<1>1. i.a \in XmmRegister /\ i.a \in Register /\ i.b \in Register
  BY WrittenFields DEF Written
<1>2. /\ Byte(code, k) = \h66 /\ Byte(code, k + 1) = rex /\ Byte(code, k + 2) = \h0F
      /\ Byte(code, k + 3) = \h6E /\ Byte(code, k + 4) = modRm
  BY HoldsFew DEF EncodeToXmm
<1>3. rex = RexW(i.a, i.b)
  <2>1. High(i.a) = 0 /\ High(rax) = 0
    BY <1>1 DEF XmmRegister, High, rax
  <2> QED BY <2>1 DEF RexW
<1>4. /\ rex \in \h48 .. \h4D /\ Wide(rex) /\ Mode(modRm) = 3
      /\ RegOf(rex, modRm) = i.a /\ RmOf(rex, modRm) = i.b
  BY <1>1, <1>3, RegistersRead
<1>5. i = Op("moveToXmm", i.a, i.b, 0, None)
  BY Shape, Domains
<1> HIDE DEF rex, modRm
<1>6. Decode(code, k) = ReadLong(code, \h66, rex, \h6E, k + 4)
  BY <1>2, <1>4, ToLong
<1>7. ReadLong(code, \h66, rex, \h6E, k + 4) = Read(Op("moveToXmm", i.a, i.b, 0, None), k + 5)
  <2>1. k + 4 \in Int /\ (k + 4) + 1 = k + 5 /\ \h6E \in Byte8
    BY DEF Byte8
  <2> QED BY <1>2, <1>4, <2>1, LongArms
<1> QED BY <1>5, <1>6, <1>7

\* The bytes of moveFromXmm.
LEMMA ReadFromXmm ==
  ASSUME NEW code, NEW k \in Int, NEW i, Written(i), i.op = "moveFromXmm",
         Holds(code, k, EncodeFromXmm(i))
  PROVE  Decode(code, k) = Read(i, k + 5)
<1> DEFINE rex == RexW(rax, i.a)
           modRm == ModRm(i.b, i.a)
<1>1. i.b \in XmmRegister /\ i.b \in Register /\ i.a \in Register
  BY WrittenFields DEF Written
<1>2. /\ Byte(code, k) = \h66 /\ Byte(code, k + 1) = rex /\ Byte(code, k + 2) = \h0F
      /\ Byte(code, k + 3) = \h7E /\ Byte(code, k + 4) = modRm
  BY HoldsFew DEF EncodeFromXmm
<1>3. rex = RexW(i.b, i.a)
  <2>1. High(i.b) = 0 /\ High(rax) = 0
    BY <1>1 DEF XmmRegister, High, rax
  <2> QED BY <2>1 DEF RexW
<1>4. /\ rex \in \h48 .. \h4D /\ Wide(rex) /\ Mode(modRm) = 3
      /\ RegOf(rex, modRm) = i.b /\ RmOf(rex, modRm) = i.a
  BY <1>1, <1>3, RegistersRead
<1>5. i = Op("moveFromXmm", i.a, i.b, 0, None)
  BY Shape, Domains
<1> HIDE DEF rex, modRm
<1>6. Decode(code, k) = ReadLong(code, \h66, rex, \h7E, k + 4)
  BY <1>2, <1>4, ToLong
<1>7. ReadLong(code, \h66, rex, \h7E, k + 4) = Read(Op("moveFromXmm", i.a, i.b, 0, None), k + 5)
  <2>1. k + 4 \in Int /\ (k + 4) + 1 = k + 5 /\ \h7E \in Byte8
    BY DEF Byte8
  <2> QED BY <1>2, <1>4, <2>1, LongArms
<1> QED BY <1>5, <1>6, <1>7

\* The bytes of the methods on two xmm registers.
LEMMA ReadDouble ==
  ASSUME NEW code, NEW k \in Int, NEW i, Written(i), i.op \in DOMAIN DoubleForm,
         Holds(code, k, EncodeDouble(i))
  PROVE  Decode(code, k) = Read(i, k + 4)
<1> DEFINE modRm == ModRm(i.a, i.b)
<1>1. i.a \in XmmRegister /\ i.b \in XmmRegister /\ i.a \in Register /\ i.b \in Register
  BY WrittenFields DEF Written
<1>2. /\ Byte(code, k) = DoubleForm[i.op][1] /\ Byte(code, k + 1) = \h0F
      /\ Byte(code, k + 2) = DoubleForm[i.op][2] /\ Byte(code, k + 3) = modRm
  BY HoldsFew DEF EncodeDouble
<1>3. Mode(modRm) = 3 /\ RegOf(0, modRm) = i.a /\ RmOf(0, modRm) = i.b
  <2>1. High(i.a) = 0 /\ High(i.b) = 0 /\ RegBit(0) = 0 /\ BaseBit(0) = 0
    BY <1>1 DEF XmmRegister, High, RegBit, BaseBit
  <2>2. /\ Low(i.a) + 8 * High(i.a) = i.a /\ Low(i.b) + 8 * High(i.b) = i.b
        /\ Low(i.a) \in Int /\ Low(i.b) \in Int
    BY <1>1, Parts
  <2> QED BY <1>1, <2>1, <2>2, ModRmFields DEF RegOf, RmOf
<1>4. i = Op(i.op, i.a, i.b, 0, None)
  BY Shape, Domains
<1> HIDE DEF modRm
<1>5. k + 3 \in Int /\ (k + 3) + 1 = k + 4
  OBVIOUS
<1>6. CASE i.op = "compareDouble"
  <2>1. DoubleForm[i.op][1] = \h66 /\ DoubleForm[i.op][2] = \h2E /\ \h2E \in Byte8
    BY <1>6 DEF DoubleForm, Byte8
  <2>2. Decode(code, k) = ReadLong(code, \h66, 0, \h2E, k + 3)
    BY <1>2, <2>1, ToLong
  <2>3. ReadLong(code, \h66, 0, \h2E, k + 3) = Read(Op("compareDouble", i.a, i.b, 0, None), k + 4)
    BY <1>2, <1>3, <1>5, <2>1, LongArms
  <2> QED BY <1>4, <1>6, <2>2, <2>3
<1>7. CASE i.op # "compareDouble"
  <2> DEFINE opcode == DoubleForm[i.op][2]
  <2>1. /\ InTable(ScalarDouble, opcode) /\ OpNamed(ScalarDouble, opcode) = i.op
        /\ DoubleForm[i.op][1] = \hF2 /\ opcode \in Byte8
    BY <1>7, DoubleNames DEF Byte8
  <2> HIDE DEF opcode
  <2>2. Decode(code, k) = ReadLong(code, \hF2, 0, opcode, k + 3)
    BY <1>2, <2>1, ToLong DEF opcode
  <2>3. ReadLong(code, \hF2, 0, opcode, k + 3) = Read(Op(i.op, i.a, i.b, 0, None), k + 4)
    BY <1>2, <1>3, <1>5, <2>1, LongArms
  <2> QED BY <1>4, <2>2, <2>3
<1> QED BY <1>6, <1>7

\* The bytes of the methods that extend the opcode by the reg field.
LEMMA ReadUnary ==
  ASSUME NEW code, NEW k \in Int, NEW i, Written(i), i.op \in DOMAIN UnaryForm,
         Holds(code, k, EncodeUnary(i))
  PROVE  Decode(code, k) = Read(i, k + 3)
<1> DEFINE rex == RexW(rax, i.a)
           opcode == UnaryForm[i.op][1]
           digit == UnaryForm[i.op][2]
           modRm == ModRm(digit, i.a)
<1>1. i.a \in Register /\ rax \in Register
  BY WrittenFields, Codes
<1>2. /\ digit \in Register /\ Low(digit) = digit /\ opcode \in {\hF7, \hFF}
      /\ i.op = "negate" => opcode = \hF7 /\ digit = 3
      /\ i.op = "signedDivide" => opcode = \hF7 /\ digit = 7
      /\ i.op = "call" => opcode = \hFF /\ digit = 2
  BY DEF UnaryForm, Register, Low
<1>3. Byte(code, k) = rex /\ Byte(code, k + 1) = opcode /\ Byte(code, k + 2) = modRm
  BY HoldsFew DEF EncodeUnary
<1>4. i = Op(i.op, i.a, 0, 0, None)
  <2>1. i.b = 0
    BY Domains DEF Written
  <2> QED BY <2>1, Shape, Domains
<1>5. rex \in \h48 .. \h4D /\ Wide(rex) /\ BaseBit(rex) = 8 * High(i.a)
  BY <1>1, RexFields
<1>6. Mode(modRm) = 3 /\ (modRm \div 8) % 8 = digit /\ modRm % 8 = Low(i.a)
  BY <1>1, <1>2, ModRmFields
<1> HIDE DEF rex, opcode, digit, modRm
<1>7. RmOf(rex, modRm) = i.a
  BY <1>1, <1>5, <1>6, Parts DEF RmOf
<1>8. Grouped(opcode, rex, modRm) = Op(i.op, i.a, 0, 0, None)
  <2>1. CASE i.op = "negate"
    BY <1>2, <1>6, <1>7, <2>1 DEF Grouped
  <2>2. CASE i.op = "signedDivide"
    BY <1>2, <1>6, <1>7, <2>2 DEF Grouped
  <2>3. CASE i.op = "call"
    BY <1>2, <1>6, <1>7, <2>3 DEF Grouped
  <2> QED BY <2>1, <2>2, <2>3, Domains
<1>9. opcode \in Byte8 /\ opcode # \h0F /\ opcode \notin \h50 .. \h5F /\ opcode \notin {\hC3, \hE9}
  BY <1>2 DEF Byte8
<1>10. Decode(code, k) = ReadWide(code, rex, opcode, k + 2)
  BY <1>3, <1>5, <1>9, ToWide
<1>11. ReadWide(code, rex, opcode, k + 2) = Read(Grouped(opcode, rex, modRm), k + 3)
  <2>1. k + 2 \in Int /\ (k + 2) + 1 = k + 3
    OBVIOUS
  <2> QED BY <1>2, <1>3, <1>6, <1>9, <2>1, WideArms
<1> QED BY <1>4, <1>8, <1>10, <1>11

\* The bytes of the methods that move the stack pointer.
LEMMA ReadAdjust ==
  ASSUME NEW code, NEW k \in Int, NEW i, Written(i), i.op \in DOMAIN AdjustForm,
         Holds(code, k, EncodeAdjust(i))
  PROVE  Decode(code, k) = Read(i, k + 7)
<1> DEFINE modRm == AdjustForm[i.op]
           head == <<\h48, \h81, modRm>>
<1>1. i.n \in Int32Numbers /\ i.n \in Int
  BY WrittenFields, TopByte
<1>2. /\ modRm \in {\hEC, \hC4} /\ modRm \in Byte8
      /\ i.op = IF modRm = \hEC THEN "subtractStackPointer" ELSE "addStackPointer"
  BY DEF AdjustForm, Byte8
<1>3. Holds(code, k, head) /\ Holds(code, k + 3, UInt32(i.n))
  <2>1. head \in Seq(Byte8) /\ Len(head) = 3
    <3> HIDE DEF modRm
    <3> QED BY <1>2 DEF Byte8
  <2>2. UInt32(i.n) \in Seq(Byte8)
    BY <1>1, Immediate32
  <2>3. Holds(code, k, head \o UInt32(i.n))
    BY DEF EncodeAdjust
  <2> HIDE DEF head
  <2> QED BY <2>1, <2>2, <2>3, HoldsConcat
<1>4. Byte(code, k) = \h48 /\ Byte(code, k + 1) = \h81 /\ Byte(code, k + 2) = modRm
  BY <1>3, HoldsFew
<1>5. Int32(code, k + 3) = i.n
  <2>1. k + 3 \in Int
    OBVIOUS
  <2> QED BY <1>1, <1>3, <2>1, HoldsInt32
<1>6. i = Op(i.op, 0, 0, i.n, None)
  <2>1. i.a = 0 /\ i.b = 0
    BY Domains DEF Written
  <2> QED BY <2>1, Shape, Domains
<1>7. \h48 \in \h48 .. \h4D /\ Wide(\h48) /\ \h81 \in Byte8
  BY DEF Wide, Byte8
<1> HIDE DEF modRm, head
<1>8. Decode(code, k) = ReadWide(code, \h48, \h81, k + 2)
  BY <1>4, <1>7, ToWide
<1>9. ReadWide(code, \h48, \h81, k + 2) = Read(Op(i.op, 0, 0, i.n, None), k + 7)
  <2>1. k + 2 \in Int /\ (k + 2) + 1 = k + 3 /\ (k + 2) + 5 = k + 7
    OBVIOUS
  <2> QED BY <1>2, <1>4, <1>5, <1>7, <2>1, WideArms
<1> QED BY <1>6, <1>8, <1>9

\* The bytes of moveImmediate64.
LEMMA ReadImmediate ==
  ASSUME NEW code, NEW k \in Int, NEW i, Written(i), i.op = "moveImmediate64",
         Holds(code, k, EncodeImmediate(i))
  PROVE  Decode(code, k) = Read(i, k + 10)
<1> DEFINE rex == RexW(rax, i.a)
           opcode == \hB8 + Low(i.a)
           head == <<rex, opcode>>
<1>1. /\ i.n \in Int32Numbers /\ i.n \in Int /\ i.high \in Int32Numbers /\ i.high \in Int
      /\ i.a \in Register /\ rax \in Register
  BY WrittenFields, TopByte, Codes
<1>2. rex \in \h48 .. \h4D /\ Wide(rex) /\ BaseBit(rex) = 8 * High(i.a)
  BY <1>1, RexFields
<1>3. opcode \in \hB8 .. \hBF /\ opcode % 8 = Low(i.a)
  BY <1>1, Parts
<1>4. /\ UInt32(i.n) \in Seq(Byte8) /\ UInt32(i.high) \in Seq(Byte8)
      /\ Len(UInt32(i.n)) = 4
  BY <1>1, Immediate32
<1>5. Holds(code, k, head) /\ Holds(code, k + 2, UInt32(i.n)) /\ Holds(code, k + 6, UInt32(i.high))
  <2> HIDE DEF rex, opcode
  <2>1. head \in Seq(Byte8) /\ Len(head) = 2
    BY <1>2, <1>3 DEF Byte8
  <2>2. Holds(code, k, head \o (UInt32(i.n) \o UInt32(i.high)))
    BY DEF EncodeImmediate, UInt64, rex, opcode
  <2>3. UInt32(i.n) \o UInt32(i.high) \in Seq(Byte8)
    BY <1>4, Joined
  <2> HIDE DEF head
  <2>4. Holds(code, k, head) /\ Holds(code, k + 2, UInt32(i.n) \o UInt32(i.high))
    BY <2>1, <2>2, <2>3, HoldsConcat
  <2>5. k + 2 \in Int /\ (k + 2) + 4 = k + 6
    OBVIOUS
  <2>6. Holds(code, k + 2, UInt32(i.n)) /\ Holds(code, (k + 2) + 4, UInt32(i.high))
    BY <1>4, <2>4, <2>5, HoldsConcat
  <2> QED BY <2>4, <2>5, <2>6
<1>6. Byte(code, k) = rex /\ Byte(code, k + 1) = opcode
  BY <1>5, HoldsFew
<1>7. Int32(code, k + 2) = i.n /\ Int32(code, k + 6) = i.high
  <2>1. k + 2 \in Int /\ k + 6 \in Int
    OBVIOUS
  <2> QED BY <1>1, <1>5, <2>1, HoldsInt32
<1>8. i = MoveImmediate64(i.a, i.n, i.high)
  BY WrittenFields
<1> HIDE DEF rex, opcode, head
<1>9. opcode \in Byte8 /\ opcode # \h0F /\ opcode \notin \h50 .. \h5F /\ opcode \notin {\hC3, \hE9}
  BY <1>3 DEF Byte8
<1>10. Decode(code, k) = ReadWide(code, rex, opcode, k + 2)
  BY <1>2, <1>6, <1>9, ToWide
<1>11. (opcode % 8) + BaseBit(rex) = i.a
  BY <1>1, <1>2, <1>3, Parts
<1>12. ReadWide(code, rex, opcode, k + 2) = Read(MoveImmediate64(i.a, i.n, i.high), k + 10)
  <2>1. k + 2 \in Int /\ (k + 2) + 4 = k + 6 /\ (k + 2) + 8 = k + 10
    OBVIOUS
  <2> QED BY <1>3, <1>7, <1>9, <1>11, <2>1, WideArms
<1> QED BY <1>8, <1>10, <1>12

\* The bytes of the methods with an operand in memory, with and without a SIB byte.
LEMMA ReadMemory ==
  ASSUME NEW code, NEW k \in Int, NEW i, Written(i), i.op \in DOMAIN MemoryForm,
         Holds(code, k, EncodeMemory(i))
  PROVE  Decode(code, k) = Read(i, k + Len(Sib(i.b)) + 7)
<1> DEFINE rex == RexW(i.a, i.b)
           opcode == MemoryForm[i.op]
           modRm == ModRmDisplaced(i.a, i.b)
           head == <<rex, opcode, modRm>>
           sib == Sib(i.b)
<1>1. i.a \in Register /\ i.b \in Register /\ i.n \in Int32Numbers /\ i.n \in Int
  BY WrittenFields, TopByte
<1>2. /\ rex \in \h48 .. \h4D /\ Wide(rex) /\ Mode(modRm) = 2 /\ IndexBit(rex) = 0
      /\ RegOf(rex, modRm) = i.a /\ RmOf(rex, modRm) = i.b /\ BaseBit(rex) = 8 * High(i.b)
      /\ modRm % 8 = Low(i.b)
  BY <1>1, RegistersRead, RexFields, ModRmFields
<1>3. /\ InTable(WithMemory, opcode) /\ OpNamed(WithMemory, opcode) = i.op
      /\ opcode \in {\h8B, \h8D, \h89}
  BY MemoryNames
<1>4. sib \in Seq(Byte8) /\ ((sib = <<\h24>> /\ Len(sib) = 1) \/ Len(sib) = 0)
      /\ (Low(i.b) = 4 <=> Len(sib) = 1)
  BY Few, Codes DEF Sib
<1>5. /\ Holds(code, k, head) /\ Holds(code, k + 3, sib)
      /\ Holds(code, k + 3 + Len(sib), UInt32(i.n))
  <2>1. head \in Seq(Byte8) /\ Len(head) = 3
    <3>1. rex \in Byte8 /\ opcode \in Byte8 /\ modRm \in Byte8
      BY <1>1, <1>3, RegisterFields DEF Byte8
    <3> HIDE DEF rex, opcode, modRm
    <3> QED BY <3>1
  <2>2. UInt32(i.n) \in Seq(Byte8)
    BY <1>1, Immediate32
  <2>3. Holds(code, k, (head \o sib) \o UInt32(i.n))
    BY DEF EncodeMemory
  <2> HIDE DEF head, sib
  <2>4. head \o sib \in Seq(Byte8) /\ Len(head \o sib) = 3 + Len(sib)
    BY <1>4, <2>1, Joined
  <2>5. Holds(code, k, head \o sib) /\ Holds(code, k + (3 + Len(sib)), UInt32(i.n))
    BY <2>2, <2>3, <2>4, HoldsConcat
  <2>6. Holds(code, k, head) /\ Holds(code, k + 3, sib)
    BY <1>4, <2>1, <2>5, HoldsConcat
  <2>7. k + (3 + Len(sib)) = k + 3 + Len(sib)
    BY <1>4
  <2> QED BY <2>5, <2>6, <2>7
<1>6. Byte(code, k) = rex /\ Byte(code, k + 1) = opcode /\ Byte(code, k + 2) = modRm
  BY <1>5, HoldsFew
<1>7. i = Op(i.op, i.a, i.b, i.n, None)
  BY Shape, Domains
<1> HIDE DEF rex, opcode, modRm, head, sib
<1>8. /\ opcode \in Byte8 /\ opcode # \h0F /\ opcode \notin \h50 .. \h5F
      /\ opcode \notin {\hC3, \hE9}
  BY <1>3 DEF Byte8
<1>9. Decode(code, k) = ReadWide(code, rex, opcode, k + 2)
  BY <1>2, <1>6, <1>8, ToWide
<1>10. /\ k + 2 \in Int /\ k + 3 \in Int /\ k + 4 \in Int /\ (k + 2) + 1 = k + 3 /\ (k + 2) + 2 = k + 4
       /\ (k + 2) + 5 = k + 7 /\ (k + 2) + 6 = k + 8
  OBVIOUS
<1>11. ReadWide(code, rex, opcode, k + 2) = Memory(WithMemory, code, rex, opcode, k + 2)
  BY <1>2, <1>3, <1>6, <1>8, <1>10, WideArms
<1>12. CASE Len(sib) = 0
  <2>1. Int32(code, k + 3) = i.n
    <3>1. Holds(code, k + 3, UInt32(i.n))
      BY <1>5, <1>10, <1>12
    <3> QED BY <1>1, <1>10, <3>1, HoldsInt32
  <2>2. modRm % 8 # 4
    BY <1>2, <1>4, <1>12
  <2>3. Memory(WithMemory, code, rex, opcode, k + 2) = Read(Op(i.op, i.a, i.b, i.n, None), k + 7)
    BY <1>2, <1>3, <1>6, <1>10, <2>1, <2>2 DEF Memory
  <2>4. k + Len(sib) + 7 = k + 7
    BY <1>12
  <2> QED BY <1>7, <1>9, <1>11, <2>3, <2>4 DEF sib
<1>13. CASE Len(sib) = 1
  <2>1. sib = <<\h24>> /\ Low(i.b) = 4
    BY <1>4, <1>13
  <2>2. Byte(code, k + 3) = \h24
    BY <1>5, <1>10, <2>1, HoldsFew
  <2>3. Int32(code, k + 4) = i.n
    <3>1. Holds(code, k + 4, UInt32(i.n))
      <4>1. k + 3 + 1 = k + 4
        OBVIOUS
      <4> QED BY <1>5, <1>13, <4>1
    <3> QED BY <1>1, <1>10, <3>1, HoldsInt32
  <2>4. RmOf(rex, \h24) = i.b
    <3>1. \h24 % 8 = 4
      OBVIOUS
    <3> QED BY <1>1, <1>2, <2>1, <3>1, Parts DEF RmOf
  <2>5. ((\h24 \div 8) % 8) + IndexBit(rex) = 4 /\ modRm % 8 = 4
    BY <1>2, <2>1
  <2>6. Memory(WithMemory, code, rex, opcode, k + 2) = Read(Op(i.op, i.a, i.b, i.n, None), k + 8)
    BY <1>2, <1>3, <1>6, <1>10, <2>2, <2>3, <2>4, <2>5 DEF Memory
  <2>7. k + Len(sib) + 7 = k + 8
    BY <1>13
  <2> QED BY <1>7, <1>9, <1>11, <2>6, <2>7 DEF sib
<1> QED BY <1>4, <1>12, <1>13

\* The arms of the opcodes of one byte without REX.W.
LEMMA ShortArms ==
  ASSUME NEW code, NEW rex, NEW opcode \in Byte8, NEW k \in Int
  PROVE  LET register == (opcode % 8) + BaseBit(rex)
         IN /\ opcode \in \h50 .. \h57 =>
                 ReadShort(code, rex, opcode, k) = Read(Op("push", register, 0, 0, None), k)
            /\ opcode \in \h58 .. \h5F =>
                 ReadShort(code, rex, opcode, k) = Read(Op("pop", register, 0, 0, None), k)
            /\ opcode = \hC3 =>
                 ReadShort(code, rex, opcode, k) = Read(Op("returnFromFunction", 0, 0, 0, None), k)
            /\ opcode = \hE9 =>
                 ReadShort(code, rex, opcode, k)
                   = Read(Op("jump", 0, 0, Int32(code, k), None), k + 4)
<1>1. /\ opcode \in \h50 .. \h57 => opcode \notin \h58 .. \h5F /\ opcode # \hC3 /\ opcode # \hE9
      /\ opcode \in \h58 .. \h5F => opcode \notin \h50 .. \h57 /\ opcode # \hC3 /\ opcode # \hE9
      /\ opcode = \hC3 => opcode \notin \h50 .. \h57 /\ opcode \notin \h58 .. \h5F /\ opcode # \hE9
      /\ opcode = \hE9 => opcode \notin \h50 .. \h57 /\ opcode \notin \h58 .. \h5F /\ opcode # \hC3
  BY DEF Byte8
<1>2. CASE opcode \in \h50 .. \h57
  BY <1>1, <1>2 DEF ReadShort
<1>3. CASE opcode \in \h58 .. \h5F
  BY <1>1, <1>3 DEF ReadShort
<1>4. CASE opcode = \hC3
  BY <1>1, <1>4 DEF ReadShort
<1>5. CASE opcode = \hE9
  BY <1>1, <1>5 DEF ReadShort
<1> QED BY <1>2, <1>3, <1>4, <1>5

\* From a byte to a short opcode, with and without the prefix of an extended register.
LEMMA ToShort ==
  ASSUME NEW code, NEW k \in Int
  PROVE  /\ Byte(code, k) \in \h50 .. \h5F \cup {\hC3, \hE9} =>
              Decode(code, k) = ReadShort(code, 0, Byte(code, k), k + 1)
         /\ Byte(code, k) = \h41 /\ Byte(code, k + 1) \in \h50 .. \h5F =>
              Decode(code, k) = ReadShort(code, \h41, Byte(code, k + 1), k + 2)
<1>1. k + 1 \in Int /\ (k + 1) + 1 = k + 2
  OBVIOUS
<1>2. ASSUME Byte(code, k) \in \h50 .. \h5F \cup {\hC3, \hE9}
      PROVE  Decode(code, k) = ReadShort(code, 0, Byte(code, k), k + 1)
  <2>1. Byte(code, k) # \h0F
    BY <1>2
  <2> QED BY <1>2, <2>1, DecodeNarrow, OpcodeShort
<1>3. ASSUME Byte(code, k) = \h41, Byte(code, k + 1) \in \h50 .. \h5F
      PROVE  Decode(code, k) = ReadShort(code, \h41, Byte(code, k + 1), k + 2)
  <2>1. Byte(code, k + 1) # \h0F
    BY <1>3
  <2> QED BY <1>1, <1>3, <2>1, DecodeNarrow, OpcodeShort
<1> QED BY <1>2, <1>3

\* The bytes of push and pop, with and without a REX prefix.
LEMMA ReadStack ==
  ASSUME NEW code, NEW k \in Int, NEW i, Written(i), i.op \in DOMAIN StackForm,
         Holds(code, k, EncodeStack(i))
  PROVE  Decode(code, k) = Read(i, k + Len(EncodeStack(i)))
<1> DEFINE opcode == StackForm[i.op] + Low(i.a)
<1>1. i.a \in Register /\ i.b = 0
  BY WrittenFields, Domains DEF Written
<1>2. /\ opcode \in \h50 .. \h5F /\ opcode % 8 = Low(i.a) /\ opcode \in Byte8
      /\ i.op = "push" => opcode \in \h50 .. \h57
      /\ i.op = "pop" => opcode \in \h58 .. \h5F
  <2>1. CASE i.op = "push"
    BY <1>1, <2>1, Parts DEF StackForm, Byte8
  <2>2. CASE i.op = "pop"
    BY <1>1, <2>2, Parts DEF StackForm, Byte8
  <2> QED BY <2>1, <2>2, Domains
<1>3. i = Op(i.op, i.a, 0, 0, None)
  BY <1>1, Shape, Domains
<1>4. /\ i.a >= 8 => /\ Len(EncodeStack(i)) = 2 /\ Byte(code, k) = \h41
                     /\ Byte(code, k + 1) = opcode
      /\ ~(i.a >= 8) => Len(EncodeStack(i)) = 1 /\ Byte(code, k) = opcode
  <2> HIDE DEF opcode
  <2>1. /\ <<opcode>> \in Seq(Byte8) /\ Len(<<opcode>>) = 1 /\ <<\h41>> \in Seq(Byte8)
        /\ Len(<<\h41>>) = 1
    BY <1>2, Few, Codes
  <2>2. CASE i.a >= 8
    <3>1. EncodeStack(i) = <<\h41>> \o <<opcode>>
      BY <2>2 DEF EncodeStack, opcode
    <3>2. Len(EncodeStack(i)) = 2
      BY <2>1, <3>1, Joined
    <3>3. Holds(code, k, <<\h41>>) /\ Holds(code, k + 1, <<opcode>>)
      <4>1. Holds(code, k, <<\h41>> \o <<opcode>>)
        BY <3>1
      <4> QED BY <2>1, <4>1, HoldsConcat
    <3>4. k + 1 \in Int
      OBVIOUS
    <3> QED BY <2>2, <3>2, <3>3, <3>4, HoldsFew
  <2>3. CASE ~(i.a >= 8)
    <3>1. EncodeStack(i) = <<opcode>>
      <4>1. EncodeStack(i) = <<>> \o <<opcode>>
        BY <2>3 DEF EncodeStack, opcode
      <4>2. \A s \in Seq(Byte8) : <<>> \o s = s
        OBVIOUS
      <4> QED BY <2>1, <4>1, <4>2
    <3> QED BY <2>1, <2>3, <3>1, HoldsFew
  <2> QED BY <2>2, <2>3
<1> HIDE DEF opcode
<1>5. CASE i.a >= 8
  <2>1. Len(EncodeStack(i)) = 2
    BY <1>4, <1>5
  <2>2. Byte(code, k) = \h41 /\ Byte(code, k + 1) = opcode
    BY <1>4, <1>5
  <2>3. Decode(code, k) = ReadShort(code, \h41, opcode, k + 2)
    BY <1>2, <2>2, ToShort
  <2>4. (opcode % 8) + BaseBit(\h41) = i.a
    <3>1. BaseBit(\h41) = 8 /\ High(i.a) = 1
      BY <1>1, <1>5 DEF BaseBit, High, Register
    <3> QED BY <1>1, <1>2, <3>1, Parts
  <2>5. k + 2 \in Int
    OBVIOUS
  <2>6. ReadShort(code, \h41, opcode, k + 2) = Read(Op(i.op, i.a, 0, 0, None), k + 2)
    BY <1>2, <2>4, <2>5, ShortArms, Domains
  <2> QED BY <1>3, <2>1, <2>3, <2>6
<1>6. CASE ~(i.a >= 8)
  <2>1. Len(EncodeStack(i)) = 1
    BY <1>4, <1>6
  <2>2. Byte(code, k) = opcode
    BY <1>4, <1>6
  <2>3. Decode(code, k) = ReadShort(code, 0, opcode, k + 1)
    BY <1>2, <2>2, ToShort
  <2>4. (opcode % 8) + BaseBit(0) = i.a
    <3>1. BaseBit(0) = 0 /\ High(i.a) = 0
      BY <1>1, <1>6 DEF BaseBit, High, Register
    <3> QED BY <1>1, <1>2, <3>1, Parts
  <2>5. k + 1 \in Int
    OBVIOUS
  <2>6. ReadShort(code, 0, opcode, k + 1) = Read(Op(i.op, i.a, 0, 0, None), k + 1)
    BY <1>2, <2>4, <2>5, ShortArms, Domains
  <2> QED BY <1>3, <2>1, <2>3, <2>6
<1> QED BY <1>5, <1>6

\* The bytes of set, with and without a REX prefix.
LEMMA ReadSet ==
  ASSUME NEW code, NEW k \in Int, NEW i, Written(i), i.op = "set", Holds(code, k, EncodeSet(i))
  PROVE  Decode(code, k) = Read(i, k + Len(EncodeSet(i)))
<1> DEFINE opcode == \h90 + ConditionCode[i.condition]
           modRm == \hC0 + Low(i.a)
           tail == <<\h0F, opcode, modRm>>
<1>1. i.a \in Register /\ i.b = 0 /\ i.n = 0 /\ i.condition \in DOMAIN ConditionCode
  BY WrittenFields, Domains DEF Written
<1>2. /\ opcode \in \h90 .. \h9F /\ opcode \in Byte8 /\ modRm \in Byte8 /\ Mode(modRm) = 3
      /\ modRm % 8 = Low(i.a) /\ ConditionNamed(opcode - \h90) = i.condition
  <2>1. ConditionCode[i.condition] \in 2 .. 15 /\ ConditionNamed(ConditionCode[i.condition]) = i.condition
    BY <1>1, ConditionNames
  <2>2. opcode - \h90 = ConditionCode[i.condition]
    BY <2>1
  <2>3. Low(i.a) \in 0 .. 7
    BY <1>1, Parts
  <2> QED BY <2>1, <2>2, <2>3 DEF Byte8, Mode
<1>3. i = Op("set", i.a, 0, 0, i.condition)
  BY <1>1, WrittenFields
<1>4. tail \in Seq(Byte8) /\ Len(tail) = 3
  <2> HIDE DEF opcode, modRm
  <2> QED BY <1>2 DEF Byte8
<1>5. EncodeSet(i) = SetPrefix(i.a) \o tail
  BY DEF EncodeSet
<1> HIDE DEF opcode, modRm
<1>6. CASE i.a >= 4
  <2> DEFINE rex == IF i.a >= 8 THEN \h41 ELSE \h40
  <2>1. SetPrefix(i.a) = <<rex>> /\ rex \in {\h40, \h41} /\ rex \in Byte8
    BY <1>1, <1>6 DEF SetPrefix, Register, Byte8
  <2>2. RmOf(rex, modRm) = i.a
    <3>1. BaseBit(rex) = 8 * High(i.a)
      BY <1>1, <1>6 DEF BaseBit, High, Register
    <3> QED BY <1>1, <1>2, <3>1, Parts DEF RmOf
  <2> HIDE DEF rex, tail
  <2>3. <<rex>> \in Seq(Byte8) /\ Len(<<rex>>) = 1
    BY <2>1, Few
  <2>4. Len(EncodeSet(i)) = 4
    <3>1. Len(<<rex>> \o tail) = 1 + 3
      BY <1>4, <2>3, Joined
    <3> QED BY <1>5, <2>1, <3>1
  <2>5. Holds(code, k, <<rex>>) /\ Holds(code, k + 1, tail)
    <3>1. Holds(code, k, <<rex>> \o tail)
      BY <1>5, <2>1
    <3> QED BY <1>4, <2>3, <3>1, HoldsConcat
  <2>6. /\ k + 1 \in Int /\ (k + 1) + 1 = k + 2 /\ (k + 1) + 2 = k + 3 /\ k + 3 \in Int
        /\ (k + 3) + 1 = k + 4
    OBVIOUS
  <2>7. /\ Byte(code, k) = rex /\ Byte(code, k + 1) = \h0F /\ Byte(code, k + 2) = opcode
        /\ Byte(code, k + 3) = modRm
    <3>1. Byte(code, k) = rex
      BY <2>5, HoldsFew
    <3>2. Holds(code, k + 1, <<\h0F, opcode, modRm>>)
      BY <2>5 DEF tail
    <3> QED BY <2>6, <3>1, <3>2, HoldsFew
  <2>8. Decode(code, k) = ReadLong(code, 0, rex, opcode, k + 3)
    BY <2>1, <2>7, ToLong
  <2>9. ReadLong(code, 0, rex, opcode, k + 3) = Read(Op("set", i.a, 0, 0, i.condition), k + 4)
    <3>1. ByteRegister(rex, RmOf(rex, modRm)) = i.a
      BY <2>1, <2>2 DEF ByteRegister
    <3> QED BY <1>2, <2>6, <2>7, <3>1, LongArms
  <2> QED BY <1>3, <2>4, <2>8, <2>9
<1>7. CASE ~(i.a >= 4)
  <2>1. SetPrefix(i.a) = <<>>
    BY <1>1, <1>7 DEF SetPrefix, Register
  <2> HIDE DEF tail
  <2>2. EncodeSet(i) = tail
    <3>1. \A s \in Seq(Byte8) : <<>> \o s = s
      OBVIOUS
    <3> QED BY <1>4, <1>5, <2>1, <3>1
  <2>3. /\ Byte(code, k) = \h0F /\ Byte(code, k + 1) = opcode /\ Byte(code, k + 2) = modRm
    BY <2>2, HoldsFew DEF tail
  <2>4. RmOf(0, modRm) = i.a /\ ByteRegister(0, i.a) = i.a
    <3>1. BaseBit(0) = 0 /\ High(i.a) = 0
      BY <1>1, <1>7 DEF BaseBit, High, Register
    <3>2. RmOf(0, modRm) = i.a
      BY <1>1, <1>2, <3>1, Parts DEF RmOf
    <3> QED BY <1>7, <3>2 DEF ByteRegister
  <2>5. Decode(code, k) = ReadLong(code, 0, 0, opcode, k + 2)
    BY <2>3, ToLong
  <2>6. ReadLong(code, 0, 0, opcode, k + 2) = Read(Op("set", i.a, 0, 0, i.condition), k + 3)
    <3>1. k + 2 \in Int /\ (k + 2) + 1 = k + 3
      OBVIOUS
    <3> QED BY <1>2, <2>3, <2>4, <3>1, LongArms
  <2> QED BY <1>3, <1>4, <2>2, <2>5, <2>6
<1> QED BY <1>6, <1>7

\* The bytes of the methods without parameters.
LEMMA ReadFixed ==
  ASSUME NEW code, NEW k \in Int, NEW i, Written(i)
  PROVE  /\ i.op = "signExtendRaxIntoRdx" /\ Holds(code, k, <<\h48, \h99>>) =>
              Decode(code, k) = Read(i, k + 2)
         /\ i.op = "returnFromFunction" /\ Holds(code, k, <<\hC3>>) =>
              Decode(code, k) = Read(i, k + 1)
<1>1. k + 1 \in Int /\ k + 2 \in Int
  OBVIOUS
<1>2. ASSUME i.op = "signExtendRaxIntoRdx", Holds(code, k, <<\h48, \h99>>)
      PROVE  Decode(code, k) = Read(i, k + 2)
  <2>1. i = Op("signExtendRaxIntoRdx", 0, 0, 0, None)
    <3>1. i.a = 0 /\ i.b = 0
      BY <1>2, Domains DEF Written
    <3> QED BY <1>2, <3>1, Shape, Domains
  <2>2. Byte(code, k) = \h48 /\ Byte(code, k + 1) = \h99
    BY <1>2, HoldsFew
  <2>3. /\ \h48 \in \h48 .. \h4D /\ Wide(\h48) /\ \h99 \in Byte8 /\ \h99 # \h0F
        /\ \h99 \notin \h50 .. \h5F /\ \h99 \notin {\hC3, \hE9}
    BY DEF Wide, Byte8
  <2>4. Decode(code, k) = ReadWide(code, \h48, \h99, k + 2)
    BY <2>2, <2>3, ToWide
  <2> QED BY <1>1, <2>1, <2>3, <2>4, WideArms
<1>3. ASSUME i.op = "returnFromFunction", Holds(code, k, <<\hC3>>)
      PROVE  Decode(code, k) = Read(i, k + 1)
  <2>1. i = Op("returnFromFunction", 0, 0, 0, None)
    <3>1. i.a = 0 /\ i.b = 0
      BY <1>3, Domains DEF Written
    <3> QED BY <1>3, <3>1, Shape, Domains
  <2>2. Byte(code, k) = \hC3 /\ \hC3 \in Byte8
    BY <1>3, HoldsFew DEF Byte8
  <2>3. Decode(code, k) = ReadShort(code, 0, \hC3, k + 1)
    BY <2>2, ToShort
  <2> QED BY <1>1, <2>1, <2>2, <2>3, ShortArms
<1> QED BY <1>2, <1>3

\* A jump whose field holds a displacement is read as the jump by that much.
LEMMA ReadJump ==
  ASSUME NEW code, NEW k \in Int, NEW c \in DOMAIN ConditionCode \cup {None},
         NEW d \in Int32Numbers, Holds(code, k, JumpOpcode(c)),
         Holds(code, k + Len(JumpOpcode(c)), UInt32(d))
  PROVE  Decode(code, k) = Read(Op("jump", 0, 0, d, c), k + Len(JumpOpcode(c)) + 4)
<1>1. CASE c = None
  <2>1. JumpOpcode(c) = <<\hE9>> /\ Len(<<\hE9>>) = 1
    BY <1>1 DEF JumpOpcode
  <2>2. k + 1 \in Int
    OBVIOUS
  <2>3. Byte(code, k) = \hE9 /\ Int32(code, k + 1) = d /\ \hE9 \in Byte8
    BY <2>1, <2>2, HoldsFew, HoldsInt32 DEF Byte8
  <2>4. Decode(code, k) = ReadShort(code, 0, \hE9, k + 1)
    BY <2>3, ToShort
  <2>5. ReadShort(code, 0, \hE9, k + 1) = Read(Op("jump", 0, 0, d, None), (k + 1) + 4)
    BY <2>2, <2>3, ShortArms
  <2> QED BY <1>1, <2>1, <2>4, <2>5
<1>2. CASE c # None
  <2> DEFINE opcode == \h80 + ConditionCode[c]
  <2>1. JumpOpcode(c) = <<\h0F, opcode>> /\ Len(<<\h0F, opcode>>) = 2
    BY <1>2 DEF JumpOpcode
  <2>2. opcode \in \h80 .. \h8F /\ opcode \in Byte8 /\ ConditionNamed(opcode - \h80) = c
    <3>1. ConditionCode[c] \in 2 .. 15 /\ ConditionNamed(ConditionCode[c]) = c
      BY <1>2, ConditionNames
    <3>2. opcode - \h80 = ConditionCode[c]
      BY <3>1
    <3>3. opcode \in \h80 .. \h8F
      <4>1. \A n \in 2 .. 15 : \h80 + n \in \h80 .. \h8F
        OBVIOUS
      <4> QED BY <3>1, <4>1
    <3> HIDE DEF opcode
    <3> QED BY <3>1, <3>2, <3>3 DEF Byte8
  <2> HIDE DEF opcode
  <2>3. k + 2 \in Int
    OBVIOUS
  <2>4. Byte(code, k) = \h0F /\ Byte(code, k + 1) = opcode /\ Int32(code, k + 2) = d
    BY <2>1, <2>3, HoldsFew, HoldsInt32
  <2>5. Decode(code, k) = ReadLong(code, 0, 0, opcode, k + 2)
    BY <2>4, ToLong
  <2>6. ReadLong(code, 0, 0, opcode, k + 2) = Read(Op("jump", 0, 0, d, c), (k + 2) + 4)
    BY <2>2, <2>3, <2>4, LongArms
  <2>7. (k + 2) + 4 = k + Len(JumpOpcode(c)) + 4
    BY <2>1
  <2> QED BY <2>5, <2>6, <2>7
<1> QED BY <1>1, <1>2

\* Whatever precedes and follows them, the processor reads the bytes of an
\* instruction as that instruction, and goes on at the byte after them.
LEMMA InstructionRead ==
  ASSUME NEW code, NEW k \in Int, NEW i, Written(i), Holds(code, k, Encode(i))
  PROVE  Decode(code, k) = Read(i, k + Len(Encode(i)))
<1>0. i.op \in Ops
  BY WrittenFields
<1>1. CASE i.op \in DOMAIN RegisterForm
  <2>1. Encode(i) = EncodeRegisters(i)
    BY <1>1, Domains DEF Encode
  <2>2. Len(EncodeRegisters(i)) = 3
    BY DEF EncodeRegisters
  <2> QED BY <1>1, <2>1, <2>2, ReadRegisters
<1>2. CASE i.op \in DOMAIN UnaryForm
  <2>1. Encode(i) = EncodeUnary(i)
    BY <1>2, Domains DEF Encode
  <2>2. Len(EncodeUnary(i)) = 3
    BY DEF EncodeUnary
  <2> QED BY <1>2, <2>1, <2>2, ReadUnary
<1>3. CASE i.op \in DOMAIN StackForm
  <2>1. Encode(i) = EncodeStack(i)
    BY <1>3, Domains DEF Encode
  <2> QED BY <1>3, <2>1, ReadStack
<1>4. CASE i.op \in DOMAIN AdjustForm
  <2>1. Encode(i) = EncodeAdjust(i)
    BY <1>4, Domains DEF Encode
  <2>2. Len(EncodeAdjust(i)) = 7
    <3>1. AdjustForm[i.op] \in Byte8
      BY <1>4, Tables
    <3>2. <<\h48, \h81, AdjustForm[i.op]>> \in Seq(Byte8) /\ Len(<<\h48, \h81, AdjustForm[i.op]>>) = 3
      BY <3>1 DEF Byte8
    <3>3. UInt32(i.n) \in Seq(Byte8) /\ Len(UInt32(i.n)) = 4
      BY WrittenFields, TopByte, Immediate32
    <3>4. \A s, t \in Seq(Byte8) : Len(s \o t) = Len(s) + Len(t)
      BY Joined
    <3>5. Len(<<\h48, \h81, AdjustForm[i.op]>> \o UInt32(i.n)) = 3 + 4
      BY ONLY <3>2, <3>3, <3>4
    <3> QED BY <3>5 DEF EncodeAdjust
  <2> QED BY <1>4, <2>1, <2>2, ReadAdjust
<1>5. CASE i.op \in DOMAIN MemoryForm
  <2>1. Encode(i) = EncodeMemory(i)
    BY <1>5, Domains DEF Encode
  <2> DEFINE head == <<RexW(i.a, i.b), MemoryForm[i.op], ModRmDisplaced(i.a, i.b)>>
  <2>2. head \in Seq(Byte8) /\ Len(head) = 3
    BY <1>5, WrittenFields, RegisterFields, Tables
  <2>3. Sib(i.b) \in Seq(Byte8) /\ Len(Sib(i.b)) \in Nat
    BY Few, Codes DEF Sib
  <2>4. UInt32(i.n) \in Seq(Byte8) /\ Len(UInt32(i.n)) = 4
    BY WrittenFields, TopByte, Immediate32
  <2>5. EncodeMemory(i) = (head \o Sib(i.b)) \o UInt32(i.n)
    BY DEF EncodeMemory
  <2> HIDE DEF head
  <2>6. head \o Sib(i.b) \in Seq(Byte8) /\ Len(head \o Sib(i.b)) = 3 + Len(Sib(i.b))
    BY <2>2, <2>3, Joined
  <2>7. Len(EncodeMemory(i)) = (3 + Len(Sib(i.b))) + 4
    BY <2>4, <2>5, <2>6, Joined
  <2>8. k + Len(EncodeMemory(i)) = k + Len(Sib(i.b)) + 7
    BY <2>3, <2>7
  <2> QED BY <1>5, <2>1, <2>8, ReadMemory
<1>6. CASE i.op \in DOMAIN DoubleForm
  <2>1. Encode(i) = EncodeDouble(i)
    BY <1>6, Domains DEF Encode
  <2>2. Len(EncodeDouble(i)) = 4
    BY DEF EncodeDouble
  <2> QED BY <1>6, <2>1, <2>2, ReadDouble
<1>7. CASE i.op = "moveImmediate64"
  <2>1. Encode(i) = EncodeImmediate(i)
    BY <1>7, Domains DEF Encode
  <2> DEFINE head == <<RexW(rax, i.a), \hB8 + Low(i.a)>>
  <2>2. head \in Seq(Byte8) /\ Len(head) = 2
    <3>1. RexW(rax, i.a) \in Byte8 /\ \hB8 + Low(i.a) \in Byte8
      BY WrittenFields, RegisterFields, Codes DEF Byte8
    <3> QED BY <3>1, Few
  <2>3. /\ UInt32(i.n) \in Seq(Byte8) /\ Len(UInt32(i.n)) = 4
        /\ UInt32(i.high) \in Seq(Byte8) /\ Len(UInt32(i.high)) = 4
    BY WrittenFields, TopByte, Immediate32
  <2>4. EncodeImmediate(i) = head \o (UInt32(i.n) \o UInt32(i.high))
    BY DEF EncodeImmediate, UInt64
  <2> HIDE DEF head
  <2>5. /\ UInt32(i.n) \o UInt32(i.high) \in Seq(Byte8)
        /\ Len(UInt32(i.n) \o UInt32(i.high)) = 4 + 4
    BY <2>3, Joined
  <2>6. Len(EncodeImmediate(i)) = 2 + (4 + 4)
    BY <2>2, <2>4, <2>5, Joined
  <2> QED BY <1>7, <2>1, <2>6, ReadImmediate
<1>8. CASE i.op = "multiply"
  <2>1. Encode(i) = EncodeMultiply(i)
    BY <1>8, Domains DEF Encode
  <2>2. Len(EncodeMultiply(i)) = 4
    BY DEF EncodeMultiply
  <2> QED BY <1>8, <2>1, <2>2, ReadMultiply
<1>9. CASE i.op = "set"
  <2>1. Encode(i) = EncodeSet(i)
    BY <1>9, Domains DEF Encode
  <2> QED BY <1>9, <2>1, ReadSet
<1>10. CASE i.op = "moveToXmm"
  <2>1. Encode(i) = EncodeToXmm(i)
    BY <1>10, Domains DEF Encode
  <2>2. Len(EncodeToXmm(i)) = 5
    BY DEF EncodeToXmm
  <2> QED BY <1>10, <2>1, <2>2, ReadToXmm
<1>11. CASE i.op = "moveFromXmm"
  <2>1. Encode(i) = EncodeFromXmm(i)
    BY <1>11, Domains DEF Encode
  <2>2. Len(EncodeFromXmm(i)) = 5
    BY DEF EncodeFromXmm
  <2> QED BY <1>11, <2>1, <2>2, ReadFromXmm
<1>12. CASE i.op = "signExtendRaxIntoRdx"
  <2>1. Encode(i) = <<\h48, \h99>> /\ Len(<<\h48, \h99>>) = 2
    BY <1>12, Domains DEF Encode
  <2> QED BY <1>12, <2>1, ReadFixed
<1>13. CASE i.op = "returnFromFunction"
  <2>1. Encode(i) = <<\hC3>> /\ Len(<<\hC3>>) = 1
    BY <1>13, Domains DEF Encode
  <2> QED BY <1>13, <2>1, ReadFixed
<1> QED
  BY <1>0, <1>1, <1>2, <1>3, <1>4, <1>5, <1>6, <1>7, <1>8, <1>9, <1>10, <1>11, <1>12, <1>13, Kinds

\* What a method can be called for has parameters of its types.
LEMMA WrittenEncodable == ASSUME NEW i, Written(i) PROVE Encodable(i)
<1>1. /\ i.op \in Ops /\ i.a \in Register /\ i.b \in Register
      /\ i.n \in Int32Numbers /\ i.high \in Int32Numbers
      /\ i.condition \in DOMAIN ConditionCode \cup {None}
  BY WrittenFields
<1>2. i.n \in Int /\ i.high \in Int
  BY <1>1, TopByte
<1>3. i.op = "set" => i.condition \in DOMAIN ConditionCode
  BY <1>1 DEF Written
<1> QED BY <1>1, <1>2, <1>3 DEF Encodable

\* A run of bytes holds itself.
LEMMA HoldsItself == ASSUME NEW s \in Seq(Byte8) PROVE Holds(s, 1, s)
<1>1. ASSUME NEW j \in 1 .. Len(s) PROVE 1 + j - 1 = j /\ j \in DOMAIN s
  OBVIOUS
<1> QED BY <1>1 DEF Holds

\* The processor reads the bytes that Emitter writes for an instruction as that
\* instruction, for every register and every number.
THEOREM EveryInstructionIsReadAsWritten == HistorySpec => []ReadAsWritten
<1>1. ReadAsWritten
  <2> SUFFICES ASSUME NEW i \in Vocabulary
               PROVE  /\ \A k \in DOMAIN Encode(i) : Encode(i)[k] \in 0 .. 255
                      /\ Len(Encode(i)) <= Reserved(i)
                      /\ Decode(Encode(i), 1) = Read(i, Len(Encode(i)) + 1)
    BY DEF ReadAsWritten
  <2>1. Written(i) /\ Encodable(i)
    BY HistoryAssumption, WrittenEncodable
  <2>2. Encode(i) \in Seq(Byte8) /\ Len(Encode(i)) \in 1 .. Reserved(i)
    BY <2>1, EncodedFits
  <2>3. Decode(Encode(i), 1) = Read(i, 1 + Len(Encode(i)))
    BY <2>1, <2>2, HoldsItself, InstructionRead
  <2>4. \A k \in DOMAIN Encode(i) : Encode(i)[k] \in 0 .. 255
    BY <2>2, EmittedByte DEF Byte8
  <2>5. Reserved(i) \in Nat
    BY <2>1, Sizes DEF Encodable, Reserved
  <2> QED BY <2>2, <2>3, <2>4, <2>5
<1> QED BY <1>1, PTL

-----------------------------------------------------------------------------
(* A whole code is read from its first byte to its last.                   *)

\* One step of the reader: what it adds to the reading of the rest.
Here(code, k) == Placed(k, Decode(code, k))
Stops(code, k) ==
  Here(code, k).instruction.op = "unreadable" \/ Here(code, k).next \notin k + 1 .. Len(code) + 1
Stopped(code, k) == [Here(code, k) EXCEPT !.instruction.op = "unreadable"]

\* What the reader gives from every byte on.
Reading(from, code) ==
  \A k \in 1 .. Len(code) + 1 :
    from[k] = IF k > Len(code) THEN <<>>
              ELSE IF Stops(code, k) THEN <<Stopped(code, k)>>
              ELSE <<Here(code, k)>> \o from[Here(code, k).next]

\* The reader is defined: it only goes forward.
LEMMA ReaderDefined ==
  ASSUME NEW code, Len(code) \in Nat
  PROVE  \E from : Disassembled(code) = from[1] /\ Reading(from, code)
<1> DEFINE P == {Here(code, k) : k \in Nat} \cup {Stopped(code, k) : k \in Nat}
           S == Seq(P)
           n == Len(code) + 1
           base == [k \in Nat |-> <<>>]
           goesOn(k) == k \in 1 .. Len(code) /\ ~Stops(code, k)
           next == [k \in Nat |-> IF goesOn(k) THEN Here(code, k).next ELSE k + 1]
           Step == [k \in Nat |-> [s \in S |-> IF Stops(code, k) THEN <<Stopped(code, k)>>
                                               ELSE <<Here(code, k)>> \o s]]
           Body(from, k) == IF k > Len(code) THEN <<>>
                            ELSE IF Stops(code, k) THEN <<Stopped(code, k)>>
                            ELSE <<Here(code, k)>> \o from[Here(code, k).next]
<1>1. n \in Nat /\ base \in [Nat -> S]
  BY EmptySeq
<1>2. next \in [Nat -> Nat] /\ \A k \in 0 .. n - 1 : next[k] > k
  <2>1. ASSUME NEW k \in Nat, goesOn(k) PROVE Here(code, k).next \in Nat /\ Here(code, k).next > k
    BY <2>1 DEF Stops
  <2> QED BY <2>1
<1>3. Step \in [Nat -> [S -> S]]
  <2>1. ASSUME NEW k \in Nat, NEW s \in S
        PROVE  <<Stopped(code, k)>> \in S /\ <<Here(code, k)>> \o s \in S
    <3>1. Stopped(code, k) \in P /\ Here(code, k) \in P
      OBVIOUS
    <3> HIDE DEF P
    <3> QED BY <3>1
  <2> HIDE DEF S
  <2> QED BY <2>1
<1>4. PICK f \in [Nat -> S] : Walks(f, n, base, next, Step)
  <2> HIDE DEF n, S, base, next, Step
  <2>1. \E f \in [Nat -> S] : Walks(f, n, base, next, Step)
    <3>1. <<>> \in S
      BY EmptySeq DEF S
    <3> QED BY <1>1, <1>2, <1>3, Walk
  <2> QED BY <2>1
<1> DEFINE g == [k \in 1 .. Len(code) + 1 |-> f[k]]
<1>5. ASSUME NEW k \in 1 .. Len(code) + 1 PROVE g[k] = Body(g, k)
  <2>1. k \in Nat /\ f[k] = IF k >= n THEN base[k] ELSE Step[k][f[next[k]]]
    <3> HIDE DEF n, S, base, next, Step, g
    <3> QED BY <1>4 DEF Walks
  <2>2. g[k] = f[k] /\ next[k] \in Nat /\ f[next[k]] \in S
    <3>1. next[k] \in Nat
      <4> HIDE DEF next
      <4> QED BY <1>2, <2>1
    <3>2. f[next[k]] \in S
      <4> HIDE DEF next, S
      <4> QED BY <1>4, <3>1
    <3>3. g[k] = f[k]
      OBVIOUS
    <3> QED BY <3>1, <3>2, <3>3
  <2>3. CASE k > Len(code)
    <3>1. k >= n /\ base[k] = <<>>
      BY <2>1, <2>3
    <3> HIDE DEF n, S, base, next, Step, g
    <3> QED BY <2>1, <2>2, <2>3, <3>1
  <2>4. CASE k <= Len(code)
    <3>1. f[k] = Step[k][f[next[k]]]
      <4>1. ~(k >= n)
        BY <2>4
      <4> HIDE DEF n, S, base, next, Step, g
      <4> QED BY <2>1, <4>1
    <3>2. Step[k][f[next[k]]]
            = IF Stops(code, k) THEN <<Stopped(code, k)>> ELSE <<Here(code, k)>> \o f[next[k]]
      <4> HIDE DEF S, next
      <4> QED BY <2>1, <2>2
    <3>3. ~Stops(code, k) => /\ next[k] = Here(code, k).next
                             /\ Here(code, k).next \in 1 .. Len(code) + 1
      BY <2>1, <2>4 DEF Stops
    <3>4. ~Stops(code, k) => g[Here(code, k).next] = f[next[k]]
      <4> HIDE DEF next
      <4> QED BY <3>3
    <3> HIDE DEF n, S, base, next, Step, g
    <3> QED BY <2>2, <2>4, <3>1, <3>2, <3>4
  <2> QED BY <2>3, <2>4
<1>6. g = [k \in 1 .. Len(code) + 1 |-> Body(g, k)]
  <2> HIDE DEF Body
  <2> QED BY <1>5
<1> DEFINE from == CHOOSE from : from = [k \in 1 .. Len(code) + 1 |-> Body(from, k)]
<1>7. from = [k \in 1 .. Len(code) + 1 |-> Body(from, k)]
  <2> HIDE DEF Body, g
  <2> QED BY <1>6
<1>8. Disassembled(code) = from[1]
  BY DEF Disassembled, Here, Stops, Stopped
<1>9. Reading(from, code)
  <2> HIDE DEF from
  <2> QED BY <1>7 DEF Reading
<1> QED BY <1>8, <1>9

\* A code of n instructions that begin at the bytes s, one after the other.
Chained(code, n, s) ==
  /\ Len(code) \in Nat /\ n \in Nat /\ s \in [1 .. n + 1 -> Nat \ {0}]
  /\ s[1] = 1 /\ s[n + 1] = Len(code) + 1
  /\ \A j \in 1 .. n : /\ s[j + 1] \in s[j] + 1 .. Len(code) + 1
                       /\ Decode(code, s[j]).next = s[j + 1]
                       /\ Decode(code, s[j]).instruction.op # "unreadable"

\* A code whose instructions follow one another, from its first byte to its last,
\* is read as exactly these.
LEMMA DisassembledAs ==
  ASSUME NEW code, NEW n, NEW s, Chained(code, n, s)
  PROVE  Disassembled(code) = [j \in 1 .. n |-> Here(code, s[j])]
<1> SUFFICES ASSUME Len(code) \in Nat, n \in Nat, s \in [1 .. n + 1 -> Nat \ {0}],
                    s[1] = 1, s[n + 1] = Len(code) + 1,
                    \A j \in 1 .. n : /\ s[j + 1] \in s[j] + 1 .. Len(code) + 1
                                      /\ Decode(code, s[j]).next = s[j + 1]
                                      /\ Decode(code, s[j]).instruction.op # "unreadable"
             PROVE  Disassembled(code) = [j \in 1 .. n |-> Here(code, s[j])]
  BY DEF Chained
<1>1. PICK from : Disassembled(code) = from[1] /\ Reading(from, code)
  BY ReaderDefined
<1> DEFINE H == {Here(code, k) : k \in Nat}
           P(f, m) == /\ f \in Seq(H) /\ Len(f) = m
                      /\ \A j \in 1 .. m : f[j] = Here(code, s[n - m + j])
           T == {m \in 0 .. n : P(from[s[n + 1 - m]], m)}
<1>2. ASSUME NEW j \in 1 .. n
      PROVE  /\ s[j] \in 1 .. Len(code) /\ ~Stops(code, s[j]) /\ Here(code, s[j]).next = s[j + 1]
             /\ from[s[j]] = <<Here(code, s[j])>> \o from[s[j + 1]]
  <2>1. s[j] \in Nat \ {0} /\ s[j + 1] \in s[j] + 1 .. Len(code) + 1
    OBVIOUS
  <2>2. s[j] \in 1 .. Len(code)
    BY <2>1
  <2>3. /\ Here(code, s[j]).next = s[j + 1]
        /\ Here(code, s[j]).instruction.op # "unreadable"
    BY DEF Here, Placed
  <2>4. ~Stops(code, s[j])
    BY <2>1, <2>3 DEF Stops
  <2>5. s[j] \in 1 .. Len(code) + 1 /\ ~(s[j] > Len(code))
    BY <2>2
  <2>6. from[s[j]] = <<Here(code, s[j])>> \o from[Here(code, s[j]).next]
    <3>1. Reading(from, code)
      BY <1>1
    <3>2. \A k \in 1 .. Len(code) + 1 :
            ~(k > Len(code)) /\ ~Stops(code, k) =>
              from[k] = <<Here(code, k)>> \o from[Here(code, k).next]
      BY ONLY <3>1 DEF Reading
    <3> QED BY ONLY <2>4, <2>5, <3>2
  <2> QED BY ONLY <2>2, <2>3, <2>4, <2>6
<1>3. 0 \in T
  <2>1. n + 1 - 0 = n + 1
    OBVIOUS
  <2>2. from[s[n + 1]] = <<>>
    <3>1. Len(code) + 1 \in 1 .. Len(code) + 1 /\ Len(code) + 1 > Len(code)
      OBVIOUS
    <3> QED BY ONLY <1>1, <3>1, s[n + 1] = Len(code) + 1 DEF Reading
  <2>3. <<>> \in Seq(H) /\ Len(<<>>) = 0
    BY EmptySeq
  <2>4. P(<<>>, 0)
    BY <2>3
  <2> HIDE DEF P
  <2> QED BY <2>1, <2>2, <2>4
<1>4. ASSUME NEW m \in 0 .. n - 1, m \in T PROVE m + 1 \in T
  <2> DEFINE j == n - m
             rest == from[s[j + 1]]
  <2>1. j \in 1 .. n /\ j + 1 = n + 1 - m /\ n + 1 - (m + 1) = j /\ n - (m + 1) = j - 1
    OBVIOUS
  <2>2. P(rest, m)
    <3> HIDE DEF P, j
    <3> QED BY <1>4, <2>1
  <2>3. from[s[j]] = <<Here(code, s[j])>> \o rest
    <3> HIDE DEF j
    <3> QED BY <1>2, <2>1
  <2>4. Here(code, s[j]) \in H
    <3>1. s[j] \in Nat
      BY <2>1
    <3> QED BY <3>1
  <2>5. P(from[s[j]], m + 1)
    <3> DEFINE h == Here(code, s[j])
               whole == <<h>> \o rest
    <3>1. rest \in Seq(H) /\ Len(rest) = m
      BY <2>2
    <3>2. /\ whole \in Seq(H) /\ Len(whole) = m + 1 /\ whole[1] = h
          /\ \A x \in 1 .. m : whole[x + 1] = rest[x]
      <4> HIDE DEF H, rest, h
      <4> QED BY <2>4, <3>1 DEF h
    <3>3. ASSUME NEW x \in 1 .. m + 1 PROVE whole[x] = Here(code, s[(j - 1) + x])
      <4>1. CASE x = 1
        <5>1. (j - 1) + x = j
          BY <2>1, <4>1
        <5> HIDE DEF j, whole
        <5> QED BY <3>2, <4>1, <5>1 DEF h
      <4>2. CASE x # 1
        <5>1. x - 1 \in 1 .. m /\ (x - 1) + 1 = x /\ j + (x - 1) = (j - 1) + x
          BY <2>1, <4>2
        <5>2. rest[x - 1] = Here(code, s[j + (x - 1)])
          <6> HIDE DEF rest
          <6> QED BY <2>2, <5>1
        <5>3. whole[x] = rest[x - 1]
          <6> HIDE DEF whole, rest
          <6> QED BY <3>2, <5>1
        <5> HIDE DEF j, whole, rest
        <5> QED BY <5>1, <5>2, <5>3
      <4> QED BY <4>1, <4>2
    <3>4. \A x \in 1 .. m + 1 : whole[x] = Here(code, s[n - (m + 1) + x])
      <4> HIDE DEF j, whole
      <4> QED BY <2>1, <3>3
    <3>5. P(whole, m + 1)
      <4> HIDE DEF whole
      <4> QED BY <3>2, <3>4
    <3> HIDE DEF P, whole, j, rest
    <3> QED BY <2>3, <3>5 DEF whole
  <2>6. m + 1 \in 0 .. n
    OBVIOUS
  <2> HIDE DEF P, j
  <2> QED BY <2>1, <2>5, <2>6
<1>5. n \in T
  <2>1. 0 .. n \subseteq T
    <3> HIDE DEF T
    <3> QED BY <1>3, <1>4, IntervalInduction
  <2> HIDE DEF T
  <2> QED BY <2>1
<1>6. P(from[1], n)
  <2>1. n + 1 - n = 1
    OBVIOUS
  <2> HIDE DEF P
  <2> QED BY <1>5, <2>1
<1>7. \A j \in 1 .. n : from[1][j] = Here(code, s[j])
  <2>1. \A j \in 1 .. n : n - n + j = j
    OBVIOUS
  <2> QED BY <1>6, <2>1
<1>8. from[1] \in Seq(H) /\ Len(from[1]) = n
  BY <1>6
<1> HIDE DEF H, P
<1>9. from[1] = [j \in 1 .. n |-> from[1][j]]
  BY <1>8
<1> QED BY <1>1, <1>7, <1>9

-----------------------------------------------------------------------------
(* The layout of the code while calls are accepted, and why it is kept.    *)

\* The bytes that an accepted call appends, and what finalize has to do for it.
Text(i) == IF i.op = "jump" THEN JumpOpcode(i.condition) \o UInt32(0) ELSE Encode(i)

\* The jumps a client can ask for, and the accepted calls with the bytes before each.
JumpInstructions == {JumpTo(c, l) : c \in Conditions, l \in Nat}
Calls == [instruction : Instructions \cup JumpInstructions, at : Nat]

\* The bytes before the end of a call, and before the kth call or the end of all.
End(call) == call.at + Len(Text(call.instruction))
Start(k) == IF k \in DOMAIN asked THEN asked[k].at ELSE Len(bytes)

\* The displacement field of a jump, its fixup, and the calls that are jumps.
FieldOffset(call) == call.at + Len(JumpOpcode(call.instruction.condition))
FixupFor(call) == [label |-> call.instruction.n, offset |-> FieldOffset(call)]
Jumps == {k \in DOMAIN asked : asked[k].instruction.op = "jump"}

\* The texts of the calls follow one another from the first byte to the last.
Adjacent == Start(1) = 0 /\ \A k \in DOMAIN asked : Start(k + 1) = End(asked[k])

\* No text reaches into a later one or beyond the code.
InOrder ==
  \A k \in DOMAIN asked :
    /\ End(asked[k]) <= Len(bytes)
    /\ \A j \in 1 .. k - 1 : End(asked[j]) <= asked[k].at

\* Every text is still as it was appended.
TextsHeld == \A k \in DOMAIN asked : Holds(bytes, asked[k].at + 1, Text(asked[k].instruction))

\* Every jump has its fixup, and every fixup its jump.
JumpsFixed ==
  /\ \A k \in Jumps : /\ asked[k].instruction.n \in DOMAIN labels
                      /\ \E n \in DOMAIN fixups : fixups[n] = FixupFor(asked[k])
  /\ \A n \in DOMAIN fixups : \E k \in Jumps : fixups[n] = FixupFor(asked[k])

\* A bound label stands where an instruction begins, or at the end.
LabelsAtStarts ==
  \A l \in DOMAIN labels :
    labels[l] = Unbound \/ \E k \in 1 .. Len(asked) + 1 : labels[l] = Start(k)

Laid == Adjacent /\ InOrder /\ TextsHeld /\ JumpsFixed /\ LabelsAtStarts

\* The history agrees with the emitter as long as calls are accepted.
HInv == IInv /\ asked \in Seq(Calls) /\ (~finalized => Laid)

\* What the methods can be asked for is not a jump, and has a text.
LEMMA Texts ==
  ASSUME NEW i \in Instructions \cup JumpInstructions
  PROVE  /\ Text(i) \in Seq(Byte8) /\ Len(Text(i)) \in Nat \ {0}
         /\ i \in Instructions =>
              i.op # "jump" /\ Text(i) = Encode(i) /\ Written(i) /\ Len(Text(i)) <= Reserved(i)
         /\ i \in JumpInstructions =>
              /\ i.op = "jump" /\ i.condition \in Conditions /\ i = JumpTo(i.condition, i.n) /\ i.n \in Nat
              /\ Text(i) = JumpOpcode(i.condition) \o UInt32(0)
              /\ Len(Text(i)) = Len(JumpOpcode(i.condition)) + 4
              /\ JumpOpcode(i.condition) \in Seq(Byte8) /\ Len(JumpOpcode(i.condition)) \in 1 .. 2
<1>1. CASE i \in Instructions
  <2>1. Written(i) /\ Encodable(i)
    BY <1>1, HistoryAssumption, WrittenEncodable
  <2>2. i.op # "jump" /\ i.op \in Ops
    BY <2>1, Kinds, Domains DEF Encodable
  <2>3. Text(i) = Encode(i)
    BY <2>2 DEF Text
  <2>4. Encode(i) \in Seq(Byte8) /\ Len(Encode(i)) \in 1 .. Reserved(i) /\ Reserved(i) \in Nat
    BY <2>1, <2>2, EncodedFits, Sizes DEF Reserved
  <2>5. i \notin JumpInstructions
    BY <2>2 DEF JumpInstructions, JumpTo, Op
  <2> QED BY <1>1, <2>1, <2>2, <2>3, <2>4, <2>5
<1>2. CASE i \in JumpInstructions
  <2>1. PICK c \in Conditions, l \in Nat : i = JumpTo(c, l)
    BY <1>2 DEF JumpInstructions
  <2>2. i.op = "jump" /\ i.condition = c /\ i.n = l
    BY <2>1 DEF JumpTo, Op
  <2>3. JumpOpcode(c) \in Seq(Byte8) /\ Len(JumpOpcode(c)) \in 1 .. 2
    BY JumpOpcodeFits
  <2>4. UInt32(0) \in Seq(Byte8) /\ Len(UInt32(0)) = 4
    BY Immediate32
  <2>5. Text(i) = JumpOpcode(c) \o UInt32(0)
    BY <2>2 DEF Text
  <2>6. Text(i) \in Seq(Byte8) /\ Len(Text(i)) = Len(JumpOpcode(c)) + 4
    BY <2>3, <2>4, <2>5, Joined
  <2>7. i \notin Instructions
    <3>1. ASSUME i \in Instructions PROVE FALSE
      <4>1. Encodable(i)
        BY <3>1, HistoryAssumption, WrittenEncodable
      <4>2. i.op # "jump"
        BY <4>1, Kinds, Domains DEF Encodable
      <4> QED BY <2>2, <4>2
    <3> QED BY <3>1
  <2> QED BY <2>1, <2>2, <2>3, <2>5, <2>6, <2>7
<1> QED BY <1>1, <1>2

\* The calls of the history.
LEMMA AskedCall ==
  ASSUME asked \in Seq(Calls), NEW k \in DOMAIN asked
  PROVE  /\ asked[k].instruction \in Instructions \cup JumpInstructions /\ asked[k].at \in Nat
         /\ Len(Text(asked[k].instruction)) \in Nat \ {0} /\ End(asked[k]) \in Nat
         /\ asked[k].at < End(asked[k])
<1>1. asked[k] \in Calls
  <2>1. k \in 1 .. Len(asked)
    OBVIOUS
  <2> QED BY <2>1, ElementOfSeq
<1>2. asked[k].instruction \in Instructions \cup JumpInstructions /\ asked[k].at \in Nat
  BY <1>1 DEF Calls
<1>3. Len(Text(asked[k].instruction)) \in Nat \ {0}
  BY <1>2, Texts
<1> QED BY <1>2, <1>3 DEF End

\* A step of the history is a step of the emitter.
LEMMA HistoryStep == [HistoryNext]_historyVars => [Next]_vars
  BY DEF HistoryNext, historyVars, Next, vars

\* A call that changes none of bytes, fixups and history leaves the layout alone,
\* provided its labels stand where instructions begin.
LEMMA LayoutKept ==
  ASSUME Laid, UNCHANGED <<bytes, fixups, asked>>, DOMAIN labels \subseteq DOMAIN labels',
         \A l \in DOMAIN labels' :
           labels'[l] = Unbound \/ \E k \in 1 .. Len(asked) + 1 : labels'[l] = Start(k)
  PROVE  Laid'
<1>1. Adjacent' /\ InOrder' /\ TextsHeld'
  BY DEF Laid, Adjacent, InOrder, TextsHeld, Start
<1>2. JumpsFixed'
  BY DEF Laid, JumpsFixed, Jumps
<1>3. LabelsAtStarts'
  BY DEF LabelsAtStarts, Start
<1> QED BY <1>1, <1>2, <1>3 DEF Laid

\* Bytes that are appended leave those before them where they are.
LEMMA HoldsBefore ==
  ASSUME NEW code \in Seq(Byte8), NEW more \in Seq(Byte8), NEW k \in Nat \ {0}, NEW s,
         Len(s) \in Nat, Holds(code, k, s)
  PROVE  Holds(code \o more, k, s)
<1> SUFFICES ASSUME NEW j \in 1 .. Len(s)
             PROVE  k + j - 1 \in DOMAIN (code \o more) /\ (code \o more)[k + j - 1] = s[j]
  BY DEF Holds
<1>1. k + j - 1 \in DOMAIN code /\ code[k + j - 1] = s[j]
  BY DEF Holds
<1> QED BY <1>1

\* Bytes that are appended stand after those before.
LEMMA HoldsAfter ==
  ASSUME NEW code \in Seq(Byte8), NEW more \in Seq(Byte8)
  PROVE  Holds(code \o more, Len(code) + 1, more)
<1> SUFFICES ASSUME NEW j \in 1 .. Len(more)
             PROVE  /\ Len(code) + 1 + j - 1 \in DOMAIN (code \o more)
                    /\ (code \o more)[Len(code) + 1 + j - 1] = more[j]
  BY DEF Holds
<1>1. Len(code) + 1 + j - 1 = Len(code) + j
  OBVIOUS
<1> QED BY <1>1

\* A call that appends its text: all but fixups and labels.
LEMMA TextAppended ==
  ASSUME HInv, ~finalized, NEW i \in Instructions \cup JumpInstructions,
         bytes' = bytes \o Text(i),
         asked' = Append(asked, [instruction |-> i, at |-> Len(bytes)])
  PROVE  /\ asked' \in Seq(Calls) /\ Len(asked') = Len(asked) + 1
         /\ asked'[Len(asked) + 1] = [instruction |-> i, at |-> Len(bytes)]
         /\ \A k \in DOMAIN asked : k \in DOMAIN asked' /\ asked'[k] = asked[k]
         /\ \A k \in 1 .. Len(asked) + 1 : Start(k)' = Start(k)
         /\ Adjacent' /\ InOrder' /\ TextsHeld'
<1> DEFINE call == [instruction |-> i, at |-> Len(bytes)]
<1>0. PICK N : N = Len(asked)
  OBVIOUS
<1>1. bytes \in Seq(Byte8) /\ asked \in Seq(Calls) /\ Laid
  BY DEF HInv, IInv, TypeOK, Byte8
<1>2. /\ Text(i) \in Seq(Byte8) /\ Len(Text(i)) \in Nat \ {0}
      /\ bytes' \in Seq(Byte8) /\ Len(bytes') = Len(bytes) + Len(Text(i)) /\ Len(bytes) \in Nat
  BY <1>1, Texts, Joined
<1>3. call \in Calls /\ End(call) = Len(bytes') /\ call.at = Len(bytes) /\ call.instruction = i
  BY <1>2 DEF Calls, End
<1> HIDE DEF call
<1>4. /\ asked' \in Seq(Calls) /\ Len(asked') = N + 1 /\ N \in Nat
      /\ asked'[N + 1] = call
      /\ \A k \in DOMAIN asked : k \in DOMAIN asked' /\ asked'[k] = asked[k]
      /\ DOMAIN asked = 1 .. N /\ DOMAIN asked' = 1 .. N + 1
  <2>1. asked' = Append(asked, call)
    BY DEF call
  <2> QED BY ONLY <1>0, <1>1, <1>3, <2>1
<1>5. \A k \in 1 .. N + 1 : Start(k)' = Start(k)
  <2>1. ASSUME NEW k \in 1 .. N PROVE Start(k)' = Start(k)
    BY <1>4 DEF Start
  <2>2. Start(N + 1)' = call.at /\ Start(N + 1) = Len(bytes)
    BY <1>4 DEF Start
  <2> QED BY <1>3, <1>4, <2>1, <2>2
<1>6. Start(N + 2)' = Len(bytes')
  BY <1>4 DEF Start
<1>7. Adjacent'
  <2>1. Start(1)' = 0
    BY <1>1, <1>4, <1>5 DEF Laid, Adjacent
  <2>2. ASSUME NEW k \in 1 .. N PROVE Start(k + 1)' = End(asked'[k])
    <3>1. PICK next : next = k + 1
      OBVIOUS
    <3>2. next \in 1 .. N + 1 /\ k \in DOMAIN asked
      BY <1>4, <3>1
    <3>3. Start(next) = End(asked[k]) /\ asked'[k] = asked[k]
      BY <1>1, <1>4, <3>1, <3>2 DEF Laid, Adjacent
    <3> QED BY <1>5, <3>1, <3>2, <3>3
  <2>3. Start((N + 1) + 1)' = End(asked'[N + 1])
    <3>1. (N + 1) + 1 = N + 2
      BY <1>4
    <3> QED BY <1>3, <1>4, <1>6, <3>1
  <2>4. \A k \in DOMAIN asked' : Start(k + 1)' = End(asked'[k])
    BY <1>4, <2>2, <2>3
  <2> QED BY <2>1, <2>4 DEF Adjacent, End
<1>8. \A k \in 1 .. N : End(asked[k]) <= Len(bytes) /\ End(asked[k]) \in Nat
  BY <1>1, <1>4, AskedCall DEF Laid, InOrder
<1>9. InOrder'
  <2>1. ASSUME NEW k \in DOMAIN asked'
        PROVE  /\ End(asked'[k]) <= Len(bytes')
               /\ \A j \in 1 .. k - 1 : End(asked'[j]) <= asked'[k].at
    <3>1. CASE k \in 1 .. N
      <4>1. asked'[k] = asked[k] /\ End(asked[k]) <= Len(bytes')
        BY <1>2, <1>4, <1>8, <3>1
      <4>2. ASSUME NEW j \in 1 .. k - 1 PROVE End(asked'[j]) <= asked'[k].at
        <5>1. j \in 1 .. N /\ asked'[j] = asked[j]
          BY <1>4, <3>1
        <5> QED BY <1>1, <1>4, <3>1, <4>1, <5>1 DEF Laid, InOrder
      <4> QED BY <4>1, <4>2
    <3>2. CASE k = N + 1
      <4>1. asked'[k] = call
        BY <1>4, <3>2
      <4>2. ASSUME NEW j \in 1 .. k - 1 PROVE End(asked'[j]) <= asked'[k].at
        <5>1. j \in 1 .. N /\ asked'[j] = asked[j]
          BY <1>4, <3>2
        <5> QED BY <1>3, <1>8, <4>1, <5>1
      <4> QED BY <1>2, <1>3, <4>1, <4>2
    <3> QED BY <1>4, <3>1, <3>2
  <2> QED BY <2>1 DEF InOrder, End
<1>10. TextsHeld'
  <2>1. ASSUME NEW k \in DOMAIN asked'
        PROVE  Holds(bytes', asked'[k].at + 1, Text(asked'[k].instruction))
    <3>1. CASE k \in 1 .. N
      <4>1. asked'[k] = asked[k] /\ k \in DOMAIN asked
        BY <1>4, <3>1
      <4>2. asked[k].at + 1 \in Nat \ {0} /\ Len(Text(asked[k].instruction)) \in Nat
        BY <1>1, <4>1, AskedCall
      <4>3. Holds(bytes, asked[k].at + 1, Text(asked[k].instruction))
        BY <1>1, <4>1 DEF Laid, TextsHeld
      <4> QED BY <1>1, <1>2, <4>1, <4>2, <4>3, HoldsBefore
    <3>2. CASE k = N + 1
      BY <1>1, <1>2, <1>3, <1>4, <3>2, HoldsAfter
    <3> QED BY <1>4, <3>1, <3>2
  <2> QED BY <2>1 DEF TextsHeld
<1> QED BY <1>0, <1>4, <1>5, <1>7, <1>9, <1>10 DEF call

\* Appending bytes changes the code.
LEMMA Longer ==
  ASSUME NEW s \in Seq(Byte8), NEW t \in Seq(Byte8), Len(t) # 0
  PROVE  s \o t # s
<1>1. Len(s \o t) = Len(s) + Len(t) /\ Len(s) \in Nat /\ Len(t) \in Nat
  OBVIOUS
<1> QED BY <1>1

\* What an accepted call that appends a text does to the history.
LEMMA Remembered ==
  ASSUME HInv, NEW i \in Instructions \cup JumpInstructions, Remember(i)
  PROVE  /\ bytes' = bytes => asked' = asked
         /\ bytes' = bytes \o Text(i) =>
              bytes' # bytes /\ asked' = Append(asked, [instruction |-> i, at |-> Len(bytes)])
<1>1. bytes \in Seq(Byte8) /\ Text(i) \in Seq(Byte8) /\ Len(Text(i)) # 0
  BY Texts DEF HInv, IInv, TypeOK, Byte8
<1>2. bytes \o Text(i) # bytes
  BY <1>1, Longer
<1> QED BY <1>2 DEF Remember

\* Labels stay where instructions begin when a text is appended.
LEMMA LabelsFollow ==
  ASSUME HInv, ~finalized, labels' = labels, Len(asked') = Len(asked) + 1,
         \A k \in 1 .. Len(asked) + 1 : Start(k)' = Start(k)
  PROVE  LabelsAtStarts'
<1>1. PICK N : N = Len(asked)
  OBVIOUS
<1>2. N \in Nat /\ Len(asked') = N + 1
  BY <1>1 DEF HInv
<1>3. ASSUME NEW l \in DOMAIN labels, labels[l] # Unbound
      PROVE  \E k \in 1 .. Len(asked') + 1 : labels'[l] = Start(k)'
  <2>1. PICK k \in 1 .. N + 1 : labels[l] = Start(k)
    BY <1>1, <1>3 DEF HInv, Laid, LabelsAtStarts
  <2>2. k \in 1 .. Len(asked') + 1 /\ Start(k)' = Start(k)
    BY <1>1, <1>2
  <2> QED BY <2>1, <2>2
<1> QED BY <1>3 DEF LabelsAtStarts

\* A method that is not a jump keeps the layout.
LEMMA EmitLays ==
  ASSUME HInv, ~finalized, NEW i \in Instructions, Remember(i),
         bytes' = bytes \o Encode(i), UNCHANGED <<labels, fixups>>
  PROVE  asked' \in Seq(Calls) /\ Laid'
<1>1. i \in Instructions \cup JumpInstructions /\ Text(i) = Encode(i) /\ i.op # "jump"
  BY Texts
<1>2. asked' = Append(asked, [instruction |-> i, at |-> Len(bytes)])
  BY <1>1, Remembered
<1>3. /\ asked' \in Seq(Calls) /\ Len(asked') = Len(asked) + 1
      /\ asked'[Len(asked) + 1] = [instruction |-> i, at |-> Len(bytes)]
      /\ \A k \in DOMAIN asked : k \in DOMAIN asked' /\ asked'[k] = asked[k]
      /\ \A k \in 1 .. Len(asked) + 1 : Start(k)' = Start(k)
      /\ Adjacent' /\ InOrder' /\ TextsHeld'
  BY <1>1, <1>2, TextAppended
<1>4. LabelsAtStarts'
  BY <1>3, LabelsFollow
<1>5. Jumps' = Jumps
  <2>1. ASSUME NEW k \in DOMAIN asked', asked'[k].instruction.op = "jump" PROVE k \in DOMAIN asked
    <3>1. k \in DOMAIN asked \/ k = Len(asked) + 1
      BY <1>3 DEF HInv
    <3>2. asked'[Len(asked) + 1].instruction.op # "jump"
      BY <1>1, <1>3
    <3> QED BY <2>1, <3>1, <3>2
  <2> QED BY <1>3, <2>1 DEF Jumps
<1>6. JumpsFixed'
  <2>1. \A k \in Jumps : asked'[k] = asked[k]
    BY <1>3 DEF Jumps
  <2>2. JumpsFixed /\ labels' = labels /\ fixups' = fixups
    BY DEF HInv, Laid
  <2>3. ASSUME NEW k \in Jumps'
        PROVE  /\ asked'[k].instruction.n \in DOMAIN labels'
               /\ \E n \in DOMAIN fixups' : fixups'[n] = FixupFor(asked'[k])
    BY <1>5, <2>1, <2>2 DEF JumpsFixed
  <2>4. ASSUME NEW n \in DOMAIN fixups'
        PROVE  \E k \in Jumps' : fixups'[n] = FixupFor(asked'[k])
    <3>1. PICK k \in Jumps : fixups[n] = FixupFor(asked[k])
      BY <2>2 DEF JumpsFixed
    <3> QED BY <1>5, <2>1, <2>2, <3>1
  <2> QED BY <2>3, <2>4 DEF JumpsFixed, FixupFor, FieldOffset
<1> QED BY <1>3, <1>4, <1>6 DEF Laid

\* So does a jump, which brings its fixup.
LEMMA JumpLays ==
  ASSUME HInv, ~finalized, NEW c \in Conditions, NEW l \in DOMAIN labels, Remember(JumpTo(c, l)),
         bytes' = bytes \o JumpOpcode(c) \o UInt32(0),
         fixups' = Append(fixups, [label |-> l, offset |-> DisplacementOffset(c)]),
         UNCHANGED labels
  PROVE  asked' \in Seq(Calls) /\ Laid'
<1> DEFINE i == JumpTo(c, l)
           fixup == [label |-> l, offset |-> DisplacementOffset(c)]
<1>0. l \in Nat /\ labels \in Seq(Int) /\ fixups \in Seq([label : Nat, offset : Nat]) /\ bytes \in Seq(Byte8)
      /\ asked \in Seq(Calls)
  BY DEF HInv, IInv, TypeOK, Byte8
<1>1. i \in JumpInstructions /\ i.op = "jump" /\ i.condition = c /\ i.n = l
  BY <1>0 DEF JumpInstructions, JumpTo, Op
<1>2. bytes' = bytes \o Text(i)
  <2>1. JumpOpcode(c) \in Seq(Byte8) /\ UInt32(0) \in Seq(Byte8)
    BY JumpOpcodeFits, Immediate32
  <2>2. Text(i) = JumpOpcode(c) \o UInt32(0)
    BY <1>1 DEF Text
  <2>3. (bytes \o JumpOpcode(c)) \o UInt32(0) = bytes \o (JumpOpcode(c) \o UInt32(0))
    <3>1. bytes \in Seq(Byte8)
      BY <1>0
    <3> QED BY ONLY <2>1, <3>1, ConcatAssociative
  <2> QED BY <2>2, <2>3
<1> HIDE DEF i
<1>3. asked' = Append(asked, [instruction |-> i, at |-> Len(bytes)])
  BY <1>1, <1>2, Remembered DEF i
<1>4. /\ asked' \in Seq(Calls) /\ Len(asked') = Len(asked) + 1
      /\ asked'[Len(asked) + 1] = [instruction |-> i, at |-> Len(bytes)]
      /\ \A k \in DOMAIN asked : k \in DOMAIN asked' /\ asked'[k] = asked[k]
      /\ \A k \in 1 .. Len(asked) + 1 : Start(k)' = Start(k)
      /\ Adjacent' /\ InOrder' /\ TextsHeld'
  BY <1>1, <1>2, <1>3, TextAppended
<1>5. LabelsAtStarts'
  BY <1>4, LabelsFollow
<1>6. PICK N, M : N = Len(asked) /\ M = Len(fixups)
  OBVIOUS
<1>7. /\ N \in Nat /\ M \in Nat /\ DOMAIN asked = 1 .. N /\ DOMAIN asked' = 1 .. N + 1
      /\ DOMAIN fixups = 1 .. M
  BY <1>0, <1>4, <1>6
<1>8. /\ DOMAIN fixups' = 1 .. M + 1 /\ fixups'[M + 1] = fixup
      /\ \A n \in 1 .. M : fixups'[n] = fixups[n]
  <2>1. fixup \in [label : Nat, offset : Nat]
    <3>1. DisplacementOffset(c) \in Nat
      BY <1>0, JumpOpcodeFits DEF DisplacementOffset
    <3> QED BY <1>0, <3>1
  <2> HIDE DEF fixup
  <2>2. fixups' = Append(fixups, fixup)
    BY DEF fixup
  <2> QED BY ONLY <1>0, <1>6, <2>1, <2>2
<1>9. FixupFor(asked'[N + 1]) = fixup /\ asked'[N + 1].instruction = i
  <2>1. asked'[N + 1] = [instruction |-> i, at |-> Len(bytes)]
    BY <1>4, <1>6
  <2>2. asked'[N + 1].instruction = i /\ asked'[N + 1].at = Len(bytes)
    BY <2>1
  <2> QED BY <1>1, <2>2 DEF FixupFor, FieldOffset, DisplacementOffset
<1> HIDE DEF fixup
<1>10. Jumps' = Jumps \cup {N + 1} /\ Jumps \subseteq 1 .. N
  <2>1. \A k \in 1 .. N : k \in Jumps' <=> k \in Jumps
    <3>1. \A k \in 1 .. N : asked'[k] = asked[k] /\ k \in DOMAIN asked /\ k \in DOMAIN asked'
      BY <1>4, <1>7
    <3> QED BY <3>1 DEF Jumps
  <2>2. N + 1 \in Jumps'
    BY <1>1, <1>7, <1>9 DEF Jumps
  <2>3. Jumps \subseteq 1 .. N /\ Jumps' \subseteq 1 .. N + 1
    BY <1>7 DEF Jumps
  <2>4. \A k \in 1 .. N + 1 : k \in 1 .. N \/ k = N + 1
    BY <1>7
  <2> QED BY ONLY <2>1, <2>2, <2>3, <2>4
<1>11. JumpsFixed'
  <2>1. ASSUME NEW k \in Jumps'
        PROVE  /\ asked'[k].instruction.n \in DOMAIN labels'
               /\ \E n \in DOMAIN fixups' : fixups'[n] = FixupFor(asked'[k])
    <3>1. CASE k \in Jumps
      <4>1. asked'[k] = asked[k]
        BY <1>4, <1>7, <1>10, <3>1
      <4>2. /\ asked[k].instruction.n \in DOMAIN labels
            /\ \E n \in DOMAIN fixups : fixups[n] = FixupFor(asked[k])
        BY <3>1 DEF HInv, Laid, JumpsFixed
      <4>3. PICK n \in 1 .. M : fixups[n] = FixupFor(asked[k])
        BY <1>7, <4>2
      <4> QED BY <1>7, <1>8, <4>1, <4>2, <4>3
    <3>2. CASE k = N + 1
      BY <1>1, <1>7, <1>8, <1>9, <3>2
    <3> QED BY <1>10, <3>1, <3>2
  <2>2. ASSUME NEW n \in DOMAIN fixups'
        PROVE  \E k \in Jumps' : fixups'[n] = FixupFor(asked'[k])
    <3>1. CASE n \in 1 .. M
      <4>1. PICK k \in Jumps : fixups[n] = FixupFor(asked[k])
        BY <1>7, <3>1 DEF HInv, Laid, JumpsFixed
      <4>2. asked'[k] = asked[k] /\ k \in Jumps'
        BY <1>4, <1>7, <1>10
      <4> QED BY <1>8, <3>1, <4>1, <4>2
    <3>2. CASE n = M + 1
      BY <1>8, <1>9, <1>10, <3>2
    <3> QED BY <1>7, <1>8, <3>1, <3>2
  <2> QED BY <2>1, <2>2 DEF JumpsFixed, FixupFor, FieldOffset
<1> QED BY <1>4, <1>5, <1>11 DEF Laid

\* Nothing was asked for yet.
LEMMA InitHInv == HistoryInit => HInv
<1> SUFFICES ASSUME HistoryInit PROVE HInv
  OBVIOUS
<1>1. IInv
  BY InitIInv DEF HistoryInit
<1>2. asked = <<>> /\ bytes = <<>> /\ fixups = <<>> /\ labels = <<>>
  BY DEF HistoryInit, Init
<1>3. /\ asked \in Seq(Calls) /\ DOMAIN asked = {} /\ Len(bytes) = 0 /\ DOMAIN fixups = {}
      /\ DOMAIN labels = {}
  BY <1>2
<1>4. Laid
  BY <1>3 DEF Laid, Adjacent, InOrder, TextsHeld, JumpsFixed, Jumps, LabelsAtStarts, Start
<1> QED BY <1>1, <1>3, <1>4 DEF HInv

\* Nothing but the error, the result and the reading changes.
LEMMA NothingLaid ==
  ASSUME HInv, IInv', UNCHANGED <<bytes, labels, fixups, finalized, asked>>
  PROVE  HInv'
<1>1. Laid => Laid'
  <2> SUFFICES ASSUME Laid PROVE Laid'
    OBVIOUS
  <2>1. \A l \in DOMAIN labels' :
          labels'[l] = Unbound \/ \E k \in 1 .. Len(asked) + 1 : labels'[l] = Start(k)
    BY DEF Laid, LabelsAtStarts
  <2> QED BY <2>1, LayoutKept
<1> QED BY <1>1 DEF HInv

\* A label that is created is unbound, and one that is bound stands at the end of
\* the code, where the next instruction begins.
LEMMA LabelsLay ==
  ASSUME HInv, IInv', ~finalized, UNCHANGED <<bytes, fixups, asked, finalized>>,
         \/ labels' = Append(labels, Unbound)
         \/ \E l \in DOMAIN labels : labels' = [labels EXCEPT ![l] = Len(bytes)]
  PROVE  HInv'
<1>1. labels \in Seq(Int) /\ Laid /\ asked \in Seq(Calls) /\ Len(asked) \in Nat
  BY DEF HInv, IInv, TypeOK
<1>2. ASSUME NEW l \in DOMAIN labels
      PROVE  labels[l] = Unbound \/ \E k \in 1 .. Len(asked) + 1 : labels[l] = Start(k)
  BY <1>1 DEF Laid, LabelsAtStarts
<1>3. Len(asked) + 1 \in 1 .. Len(asked) + 1 /\ Start(Len(asked) + 1) = Len(bytes)
  BY <1>1 DEF Start
<1>4. /\ DOMAIN labels \subseteq DOMAIN labels'
      /\ \A l \in DOMAIN labels' :
           labels'[l] = Unbound \/ \E k \in 1 .. Len(asked) + 1 : labels'[l] = Start(k)
  <2>1. CASE labels' = Append(labels, Unbound)
    <3>1. /\ DOMAIN labels \subseteq DOMAIN labels'
          /\ \A l \in DOMAIN labels' :
               (l \in DOMAIN labels /\ labels'[l] = labels[l]) \/ labels'[l] = Unbound
      BY <1>1, <2>1 DEF Unbound
    <3> QED BY <1>2, <3>1
  <2>2. ASSUME NEW l \in DOMAIN labels, labels' = [labels EXCEPT ![l] = Len(bytes)]
        PROVE  /\ DOMAIN labels \subseteq DOMAIN labels'
               /\ \A m \in DOMAIN labels' :
                    labels'[m] = Unbound \/ \E k \in 1 .. Len(asked) + 1 : labels'[m] = Start(k)
    <3>1. DOMAIN labels' = DOMAIN labels
      BY <2>2
    <3>2. ASSUME NEW m \in DOMAIN labels
          PROVE  labels'[m] = Unbound \/ \E k \in 1 .. Len(asked) + 1 : labels'[m] = Start(k)
      <4>1. CASE m = l
        BY <1>3, <2>2, <4>1
      <4>2. CASE m # l
        BY <1>2, <2>2, <4>2
      <4> QED BY <4>1, <4>2
    <3> QED BY <3>1, <3>2
  <2> QED BY <2>1, <2>2
<1>5. Laid'
  BY <1>1, <1>4, LayoutKept
<1> QED BY <1>1, <1>5 DEF HInv

\* Every call keeps the history in step with the emitter.
LEMMA StepHInv == HInv /\ [HistoryNext]_historyVars => HInv'
<1> SUFFICES ASSUME HInv, [HistoryNext]_historyVars PROVE HInv'
  OBVIOUS
<1>0. IInv'
  BY HistoryStep, StepIInv DEF HInv
<1>1. CASE CreateLabel /\ UNCHANGED <<asked, read>>
  <2>1. CASE /\ error = "none" /\ ~finalized /\ labels' = Append(labels, Unbound)
             /\ UNCHANGED <<bytes, fixups, error, finalized, result>>
    BY <1>0, <1>1, <2>1, LabelsLay
  <2>2. CASE UNCHANGED <<bytes, labels, fixups, finalized, result>>
    BY <1>0, <1>1, <2>2, NothingLaid
  <2> QED BY <1>1, <2>1, <2>2 DEF CreateLabel
<1>2. ASSUME NEW label \in HeldLabels, Bind(label), UNCHANGED <<asked, read>> PROVE HInv'
  <2>1. CASE /\ Begins(0) /\ Valid(label) /\ labels[label.id] = Unbound
             /\ labels' = [labels EXCEPT ![label.id] = Len(bytes)]
             /\ UNCHANGED <<bytes, fixups, error, finalized, result>>
    <3>1. ~finalized /\ label.id \in DOMAIN labels
      BY <2>1 DEF Begins, Valid
    <3> QED BY <1>0, <1>2, <2>1, <3>1, LabelsLay
  <2>2. CASE UNCHANGED <<bytes, labels, fixups, finalized, result>>
    BY <1>0, <1>2, <2>2, NothingLaid
  <2> QED BY <1>2, <2>1, <2>2 DEF Bind, RefuseToBegin, RefuseWith
<1>3. ASSUME NEW i \in Instructions, Emit(i), Remember(i), UNCHANGED read PROVE HInv'
  <2>1. CASE /\ Begins(Reserved(i)) /\ bytes' = bytes \o Encode(i)
             /\ UNCHANGED <<labels, fixups, error, finalized, result>>
    <3>1. ~finalized
      BY <2>1 DEF Begins
    <3>2. asked' \in Seq(Calls) /\ Laid'
      BY <1>3, <2>1, <3>1, EmitLays
    <3> QED BY <1>0, <3>2 DEF HInv
  <2>2. CASE UNCHANGED <<bytes, labels, fixups, finalized, result>>
    <3>1. asked' = asked
      BY <1>3, <2>2 DEF Remember
    <3> QED BY <1>0, <2>2, <3>1, NothingLaid
  <2> QED BY <1>3, <2>1, <2>2 DEF Emit, RefuseToBegin, RefuseWith
<1>4. ASSUME NEW label \in HeldLabels, NEW c \in Conditions, Jump(c, label),
             Remember(JumpTo(c, label.id)), UNCHANGED read
      PROVE  HInv'
  <2>1. CASE /\ Begins(JumpSize(c)) /\ Valid(label)
             /\ bytes' = bytes \o JumpOpcode(c) \o UInt32(0)
             /\ fixups' = Append(fixups, [label |-> label.id, offset |-> DisplacementOffset(c)])
             /\ UNCHANGED <<labels, error, finalized, result>>
    <3>1. ~finalized /\ label.id \in DOMAIN labels
      BY <2>1 DEF Begins, Valid
    <3>2. asked' \in Seq(Calls) /\ Laid'
      BY <1>4, <2>1, <3>1, JumpLays
    <3> QED BY <1>0, <3>2 DEF HInv
  <2>2. CASE UNCHANGED <<bytes, labels, fixups, finalized, result>>
    <3>1. asked' = asked
      BY <1>4, <2>2 DEF Remember
    <3> QED BY <1>0, <2>2, <3>1, NothingLaid
  <2> QED BY <1>4, <2>1, <2>2 DEF Jump, RefuseToBegin, RefuseWith
<1>5. CASE Finalize /\ Reread /\ UNCHANGED asked
  <2>1. finalized' = TRUE
    BY <1>5 DEF Finalize
  <2> QED BY <1>0, <1>5, <2>1 DEF HInv
<1>6. CASE UNCHANGED <<vars, asked>>
  BY <1>0, <1>6, NothingLaid DEF vars
<1>7. CASE FinalizeAgain /\ UNCHANGED <<asked, read>>
  BY <1>6, <1>7 DEF FinalizeAgain
<1>8. CASE UNCHANGED historyVars
  BY <1>6, <1>8 DEF historyVars, vars
<1> QED BY <1>1, <1>2, <1>3, <1>4, <1>5, <1>7, <1>8 DEF HistoryNext

-----------------------------------------------------------------------------
(* finalize: every displacement is written into its field and nowhere else. *)

\* The parts of a jump: its opcode, and the field after it.
LEMMA JumpParts ==
  ASSUME HInv, NEW k \in Jumps
  PROVE  LET c == asked[k].instruction.condition
         IN /\ k \in DOMAIN asked /\ c \in Conditions /\ JumpOpcode(c) \in Seq(Byte8)
            /\ asked[k].instruction = JumpTo(c, asked[k].instruction.n)
            /\ asked[k].instruction.n \in Nat /\ asked[k].at \in Nat
            /\ Text(asked[k].instruction) = JumpOpcode(c) \o UInt32(0)
            /\ Len(JumpOpcode(c)) \in 1 .. 2
            /\ FieldOffset(asked[k]) = asked[k].at + Len(JumpOpcode(c))
            /\ End(asked[k]) = FieldOffset(asked[k]) + 4
<1>1. k \in DOMAIN asked /\ asked[k].instruction.op = "jump"
  BY DEF Jumps
<1>2. asked[k].instruction \in Instructions \cup JumpInstructions /\ asked[k].at \in Nat
  BY <1>1, AskedCall DEF HInv
<1>3. asked[k].instruction \in JumpInstructions
  BY <1>1, <1>2, Texts
<1> DEFINE i == asked[k].instruction
<1>4. /\ i.condition \in Conditions /\ i = JumpTo(i.condition, i.n) /\ i.n \in Nat
      /\ Text(i) = JumpOpcode(i.condition) \o UInt32(0)
      /\ Len(Text(i)) = Len(JumpOpcode(i.condition)) + 4
      /\ JumpOpcode(i.condition) \in Seq(Byte8) /\ Len(JumpOpcode(i.condition)) \in 1 .. 2
  BY <1>3, Texts
<1>5. /\ FieldOffset(asked[k]) = asked[k].at + Len(JumpOpcode(i.condition))
      /\ End(asked[k]) = asked[k].at + Len(Text(i))
  BY DEF FieldOffset, End
<1>6. End(asked[k]) = FieldOffset(asked[k]) + 4
  <2> HIDE DEF i
  <2> QED BY <1>2, <1>4, <1>5
<1> QED BY <1>1, <1>2, <1>4, <1>5, <1>6

\* The only field that touches the text of a call is that of its own jump.
LEMMA FieldsOfCall ==
  ASSUME HInv, ~finalized, NEW k \in DOMAIN asked, NEW x \in asked[k].at + 1 .. End(asked[k])
  PROVE  FieldOf(x) = IF k \in Jumps /\ x > FieldOffset(asked[k]) THEN {FixupFor(asked[k])} ELSE {}
<1>0. /\ Laid /\ asked \in Seq(Calls)
      /\ \A j \in DOMAIN asked : asked[j].at \in Nat /\ End(asked[j]) \in Nat
  BY AskedCall DEF HInv
<1>1. ASSUME NEW f \in FieldOf(x) PROVE k \in Jumps /\ x > FieldOffset(asked[k]) /\ f = FixupFor(asked[k])
  <2>1. PICK n \in DOMAIN fixups : f = fixups[n] /\ x \in f.offset + 1 .. f.offset + 4
    BY DEF FieldOf
  <2>2. PICK j \in Jumps : f = FixupFor(asked[j])
    BY <1>0, <2>1 DEF Laid, JumpsFixed
  <2>3. f.offset = FieldOffset(asked[j])
    BY <2>2 DEF FixupFor
  <2>4. /\ j \in DOMAIN asked /\ asked[j].at \in Nat /\ FieldOffset(asked[j]) \in Nat
        /\ asked[j].at < FieldOffset(asked[j]) /\ End(asked[j]) = FieldOffset(asked[j]) + 4
    <3> DEFINE size == Len(JumpOpcode(asked[j].instruction.condition))
    <3>1. /\ j \in DOMAIN asked /\ asked[j].at \in Nat /\ size \in 1 .. 2
          /\ FieldOffset(asked[j]) = asked[j].at + size
          /\ End(asked[j]) = FieldOffset(asked[j]) + 4
      BY JumpParts
    <3> HIDE DEF size
    <3> QED BY <3>1
  <2>5. x > FieldOffset(asked[j]) /\ x <= End(asked[j]) /\ x > asked[j].at
    BY <2>1, <2>3, <2>4
  <2>6. j \in Nat /\ k \in Nat /\ DOMAIN asked = 1 .. Len(asked)
    BY <1>0, <2>4
  <2>7. ~(j < k)
    <3>1. ASSUME j < k PROVE End(asked[j]) <= asked[k].at
      <4>1. j \in 1 .. k - 1
        BY <2>4, <2>6, <3>1
      <4> QED BY <1>0, <4>1 DEF Laid, InOrder
    <3> QED BY <1>0, <2>5, <3>1, <2>4
  <2>8. ~(k < j)
    <3>1. ASSUME k < j PROVE End(asked[k]) <= asked[j].at
      <4>1. k \in 1 .. j - 1
        BY <2>4, <2>6, <3>1
      <4> QED BY <1>0, <2>4, <4>1 DEF Laid, InOrder
    <3> QED BY <1>0, <2>5, <3>1, <2>4
  <2>9. j = k
    BY <2>6, <2>7, <2>8
  <2> QED BY <2>2, <2>5, <2>9
<1>2. ASSUME k \in Jumps, x > FieldOffset(asked[k]) PROVE FixupFor(asked[k]) \in FieldOf(x)
  <2>1. PICK n \in DOMAIN fixups : fixups[n] = FixupFor(asked[k])
    BY <1>0, <1>2 DEF Laid, JumpsFixed
  <2>2. FixupFor(asked[k]).offset = FieldOffset(asked[k])
    BY DEF FixupFor
  <2>3. End(asked[k]) = FieldOffset(asked[k]) + 4 /\ FieldOffset(asked[k]) \in Nat
    BY <1>2, JumpParts
  <2>4. x \in FieldOffset(asked[k]) + 1 .. FieldOffset(asked[k]) + 4
    BY <1>0, <1>2, <2>3
  <2> QED BY <2>1, <2>2, <2>4 DEF FieldOf
<1> QED BY <1>1, <1>2

\* The displacement of a jump fits its field.
LEMMA JumpDisplacement ==
  ASSUME HInv, ~finalized, AllBound, NEW k \in Jumps
  PROVE  Displacement(FixupFor(asked[k])) \in Int32Numbers
<1>1. PICK n \in DOMAIN fixups : fixups[n] = FixupFor(asked[k])
  BY DEF HInv, Laid, JumpsFixed
<1>2. Rel32(Displacement(FixupFor(asked[k])))
  <2>1. FixupFor(asked[k]).label \in DOMAIN labels /\ FixupFor(asked[k]).offset \in Nat
        /\ FixupFor(asked[k]).offset + 4 <= Len(bytes)
    BY <1>1, FixupFields DEF HInv, IInv, FixupsInside
  <2>2. labels[FixupFor(asked[k]).label] \in 0 .. Len(bytes)
    BY <2>1 DEF HInv, IInv, CodeFits, AllBound
  <2>3. Len(bytes) \in Nat /\ Len(bytes) <= MaxCodeSize /\ MaxCodeSize \in Nat
    BY EmitterAssumption DEF HInv, IInv, TypeOK, CodeFits
  <2> QED BY <2>1, <2>2, <2>3 DEF Rel32, Displacement
<1>3. MaxCodeSize <= LargestInt32 /\ MaxCodeSize \in Nat
  BY HistoryAssumption, EmitterAssumption
<1>4. LargestInt32 \in Int
  BY SMT DEF LargestInt32
<1>5. \A d \in -(MaxCodeSize + 1) .. MaxCodeSize : d \in -LargestInt32 - 1 .. LargestInt32
  BY SMT, <1>3, <1>4
<1> QED BY <1>2, <1>5 DEF Rel32, Int32Numbers

\* In the code that is handed out, the text of a call stands where it was
\* appended, with the displacement of a jump written into its field.
LEMMA PatchedHolds ==
  ASSUME HInv, ~finalized, NEW k \in DOMAIN asked
  PROVE  /\ k \notin Jumps => Holds(Patched, asked[k].at + 1, Text(asked[k].instruction))
         /\ k \in Jumps =>
              LET c == asked[k].instruction.condition
              IN /\ Holds(Patched, asked[k].at + 1, JumpOpcode(c))
                 /\ Holds(Patched, asked[k].at + 1 + Len(JumpOpcode(c)),
                          UInt32(Displacement(FixupFor(asked[k]))))
<1> DEFINE text == Text(asked[k].instruction)
           at == asked[k].at
<1>1. /\ at \in Nat /\ Len(text) \in Nat /\ End(asked[k]) = at + Len(text)
      /\ DOMAIN Patched = DOMAIN bytes
  BY AskedCall DEF HInv, End, Patched
<1>2. Holds(bytes, at + 1, text)
  BY DEF HInv, Laid, TextsHeld
<1> HIDE DEF text, at
<1>3. ASSUME NEW j \in 1 .. Len(text)
      PROVE  /\ at + j \in at + 1 .. End(asked[k]) /\ at + 1 + j - 1 = at + j
             /\ at + j \in DOMAIN Patched /\ bytes[at + j] = text[j]
  <2>1. at + 1 + j - 1 = at + j
    BY <1>1
  <2> QED BY <1>1, <1>2, <2>1 DEF Holds
<1>4. ASSUME NEW j \in 1 .. Len(text), k \notin Jumps \/ ~(at + j > FieldOffset(asked[k]))
      PROVE  Patched[at + j] = text[j]
  <2>1. FieldOf(at + j) = {}
    BY <1>3, <1>4, FieldsOfCall DEF at
  <2> QED BY <1>1, <1>3, <2>1 DEF Patched
<1>5. k \notin Jumps => Holds(Patched, at + 1, text)
  BY <1>3, <1>4 DEF Holds
<1>6. ASSUME k \in Jumps
      PROVE  LET c == asked[k].instruction.condition
             IN /\ Holds(Patched, at + 1, JumpOpcode(c))
                /\ Holds(Patched, at + 1 + Len(JumpOpcode(c)), UInt32(Displacement(FixupFor(asked[k]))))
  <2> DEFINE opcode == JumpOpcode(asked[k].instruction.condition)
             field == FixupFor(asked[k])
             d == Displacement(field)
  <2>1. /\ opcode \in Seq(Byte8) /\ text = opcode \o UInt32(0) /\ Len(opcode) \in Nat
        /\ FieldOffset(asked[k]) = at + Len(opcode)
    <3>1. /\ opcode \in Seq(Byte8) /\ Text(asked[k].instruction) = opcode \o UInt32(0)
          /\ Len(opcode) \in 1 .. 2 /\ FieldOffset(asked[k]) = asked[k].at + Len(opcode)
      BY <1>6, JumpParts
    <3> HIDE DEF opcode
    <3> QED BY <3>1 DEF text, at
  <2>2. UInt32(0) \in Seq(Byte8) /\ Len(UInt32(0)) = 4 /\ Len(UInt32(d)) = 4
    BY Immediate32 DEF UInt32
  <2> HIDE DEF opcode, d, field
  <2>3. Len(text) = Len(opcode) + 4 /\ \A j \in 1 .. Len(opcode) : text[j] = opcode[j]
    <3>1. \A s, t \in Seq(Byte8) :
            Len(s \o t) = Len(s) + Len(t) /\ \A j \in 1 .. Len(s) : (s \o t)[j] = s[j]
      OBVIOUS
    <3> QED BY ONLY <2>1, <2>2, <3>1
  <2>4. Holds(Patched, at + 1, opcode)
    <3>1. ASSUME NEW j \in 1 .. Len(opcode)
          PROVE  at + 1 + j - 1 \in DOMAIN Patched /\ Patched[at + 1 + j - 1] = opcode[j]
      <4>1. j \in 1 .. Len(text) /\ ~(at + j > FieldOffset(asked[k]))
        BY <1>1, <2>1, <2>3
      <4> QED BY <1>3, <1>4, <2>3, <4>1
    <3> QED BY <3>1 DEF Holds
  <2>5. ASSUME NEW j \in 1 .. Len(UInt32(d))
        PROVE  /\ at + 1 + Len(opcode) + j - 1 \in DOMAIN Patched
               /\ Patched[at + 1 + Len(opcode) + j - 1] = UInt32(d)[j]
    <3> DEFINE x == at + (Len(opcode) + j)
    <3>1. /\ Len(opcode) + j \in 1 .. Len(text) /\ x > FieldOffset(asked[k])
          /\ at + 1 + Len(opcode) + j - 1 = x
          /\ x - FieldOffset(asked[k]) = j
      BY <1>1, <2>1, <2>2, <2>3
    <3> HIDE DEF x
    <3>2. x \in at + 1 .. End(asked[k]) /\ x \in DOMAIN Patched
      BY <1>3, <3>1 DEF x
    <3>3. FieldOf(x) = {field}
      BY <1>6, <3>1, <3>2, FieldsOfCall DEF at, field
    <3>4. field.offset = FieldOffset(asked[k])
      BY DEF field, FixupFor
    <3>5. Patched[x] = UInt32(Displacement(CHOOSE f \in {field} : TRUE))
                         [x - (CHOOSE f \in {field} : TRUE).offset]
      <4>1. FieldOf(x) # {} /\ x \in DOMAIN bytes
        BY <1>1, <3>2, <3>3
      <4>2. Patched[x] = LET f == CHOOSE f \in FieldOf(x) : TRUE
                         IN UInt32(Displacement(f))[x - f.offset]
        BY <4>1 DEF Patched
      <4> QED BY <3>3, <4>2
    <3>6. (CHOOSE f \in {field} : TRUE) = field
      OBVIOUS
    <3>7. Patched[x] = UInt32(d)[x - field.offset]
      BY <3>5, <3>6 DEF d
    <3> QED BY <3>1, <3>2, <3>4, <3>7
  <2>6. Holds(Patched, at + 1 + Len(opcode), UInt32(d))
    BY <2>5 DEF Holds
  <2> QED BY <2>4, <2>6 DEF opcode, d, field
<1> QED BY <1>5, <1>6 DEF text, at

\* Instructions begin one after the other.
LEMMA StartsRise ==
  ASSUME HInv, ~finalized, NEW n, n = Len(asked)
  PROVE  /\ n \in Nat /\ DOMAIN asked = 1 .. n /\ Len(bytes) \in Nat
         /\ Start(1) = 0 /\ Start(n + 1) = Len(bytes)
         /\ \A k \in 1 .. n + 1 : Start(k) \in Nat /\ Start(k) <= Len(bytes)
         /\ \A k \in 1 .. n : Start(k) = asked[k].at /\ Start(k + 1) = End(asked[k])
         /\ \A j, k \in 1 .. n + 1 : j < k => Start(j) < Start(k)
<1>1. /\ Laid /\ asked \in Seq(Calls) /\ n \in Nat /\ DOMAIN asked = 1 .. n /\ Len(bytes) \in Nat
  BY DEF HInv, IInv, TypeOK
<1>2. ASSUME NEW k \in 1 .. n
      PROVE  /\ Start(k) = asked[k].at /\ Start(k + 1) = End(asked[k])
             /\ Start(k) \in Nat /\ End(asked[k]) \in Nat /\ Start(k) < End(asked[k])
             /\ End(asked[k]) <= Len(bytes)
  BY <1>1, AskedCall DEF Laid, Adjacent, InOrder, Start
<1>3. Start(n + 1) = Len(bytes)
  BY <1>1 DEF Start
<1>4. \A k \in 1 .. n + 1 : Start(k) \in Nat /\ Start(k) <= Len(bytes)
  <2>1. ASSUME NEW k \in 1 .. n PROVE Start(k) \in Nat /\ Start(k) <= Len(bytes)
    BY <1>1, <1>2
  <2>2. \A k \in 1 .. n + 1 : k \in 1 .. n \/ k = n + 1
    BY <1>1
  <2> QED BY <1>1, <1>3, <2>1, <2>2
<1>5. ASSUME NEW j \in 1 .. n + 1, NEW k \in 1 .. n + 1, j < k PROVE Start(j) < Start(k)
  <2>1. j \in 1 .. n
    BY <1>1, <1>5
  <2>2. CASE k \in 1 .. n
    <3>1. j \in 1 .. k - 1
      BY <1>1, <1>5
    <3>2. End(asked[j]) <= asked[k].at
      BY <1>1, <2>2, <3>1 DEF Laid, InOrder
    <3> QED BY <1>2, <2>1, <2>2, <3>2
  <2>3. CASE k = n + 1
    BY <1>1, <1>2, <1>3, <2>1, <2>3
  <2> QED BY <1>1, <2>2, <2>3
<1> QED BY <1>1, <1>2, <1>3, <1>4, <1>5 DEF Laid, Adjacent

\* The offset at which an instruction begins tells which it is.
LEMMA IndexOfStart ==
  ASSUME HInv, ~finalized, NEW k \in 1 .. Len(asked) + 1
  PROVE  IndexAt(Start(k)) = k /\ LabelIndex(Start(k)) = k
<1>0. PICK n : n = Len(asked)
  OBVIOUS
<1>1. {j \in DOMAIN asked : asked[j].at < Start(k)} = 1 .. k - 1
  <2>1. n \in Nat /\ DOMAIN asked = 1 .. n /\ k \in 1 .. n + 1
    BY <1>0, StartsRise
  <2>2. ASSUME NEW j \in 1 .. n PROVE asked[j].at < Start(k) <=> j < k
    <3>0. j \in 1 .. n + 1
      BY <2>1
    <3>1. asked[j].at = Start(j) /\ Start(j) \in Nat /\ Start(k) \in Nat /\ j \in 1 .. n + 1
      BY <1>0, <2>1, <3>0, StartsRise
    <3>2. /\ j < k => Start(j) < Start(k)
          /\ k < j => Start(k) < Start(j)
      BY <1>0, <2>1, <3>1, StartsRise
    <3> QED BY <2>1, <3>1, <3>2
  <2>3. \A j : j \in 1 .. k - 1 <=> j \in 1 .. n /\ j < k
    BY <2>1
  <2> QED BY <2>1, <2>2, <2>3
<1>2. k \in Nat /\ k >= 1
  BY <1>0, StartsRise
<1>3. Cardinality(1 .. k - 1) = k - 1
  <2>1. 1 \in Int /\ k - 1 \in Int
    BY <1>2
  <2>2. Cardinality(1 .. k - 1) = IF 1 > k - 1 THEN 0 ELSE (k - 1) - 1 + 1
    BY ONLY <2>1, FS_Interval
  <2> QED BY <1>2, <2>2
<1>4. IndexAt(Start(k)) = 1 + (k - 1)
  BY <1>1, <1>3 DEF IndexAt
<1>5. Start(k) # Unbound
  BY <1>0, StartsRise DEF Unbound
<1> QED BY <1>2, <1>4, <1>5 DEF LabelIndex

\* What the processor reads at a call's first byte.
ReadOf(k) ==
  IF k \in Jumps
  THEN JumpTo(asked[k].instruction.condition, Displacement(FixupFor(asked[k])))
  ELSE asked[k].instruction

\* A call is read as what it asked for, a jump by its displacement.
LEMMA CallRead ==
  ASSUME HInv, ~finalized, AllBound, NEW k \in DOMAIN asked
  PROVE  /\ Decode(Patched, Start(k) + 1) = Read(ReadOf(k), Start(k + 1) + 1)
         /\ ReadOf(k).op # "unreadable"
<1>1. /\ Start(k) = asked[k].at /\ Start(k + 1) = End(asked[k]) /\ asked[k].at + 1 \in Int
      /\ asked[k].at \in Nat
  <2>1. asked[k].at \in Nat
    BY AskedCall DEF HInv
  <2>2. Start(k) = asked[k].at /\ Start(k + 1) = End(asked[k])
    BY DEF HInv, Laid, Adjacent, Start
  <2> QED BY <2>1, <2>2
<1>2. CASE k \in Jumps
  <2> DEFINE c == asked[k].instruction.condition
             d == Displacement(FixupFor(asked[k]))
  <2>1. /\ Holds(Patched, asked[k].at + 1, JumpOpcode(c))
        /\ Holds(Patched, asked[k].at + 1 + Len(JumpOpcode(c)), UInt32(d))
    BY <1>2, PatchedHolds
  <2>2. c \in DOMAIN ConditionCode \cup {None} /\ Len(JumpOpcode(c)) \in Nat
    <3>1. c \in Conditions /\ Len(JumpOpcode(c)) \in 1 .. 2
      BY <1>2, JumpParts
    <3> HIDE DEF c
    <3> QED BY <3>1, EmitterAssumption
  <2>3. d \in Int32Numbers
    BY <1>2, JumpDisplacement
  <2>4. Start(k + 1) + 1 = asked[k].at + 1 + Len(JumpOpcode(c)) + 4
    <3>1. End(asked[k]) = FieldOffset(asked[k]) + 4 /\ FieldOffset(asked[k]) = asked[k].at + Len(JumpOpcode(c))
      BY <1>2, JumpParts
    <3> HIDE DEF c
    <3> QED BY <1>1, <2>2, <3>1
  <2>5. ReadOf(k) = Op("jump", 0, 0, d, c) /\ ReadOf(k).op = "jump"
    BY <1>2 DEF ReadOf, JumpTo, Op
  <2> HIDE DEF c, d
  <2>6. Decode(Patched, asked[k].at + 1)
          = Read(Op("jump", 0, 0, d, c), asked[k].at + 1 + Len(JumpOpcode(c)) + 4)
    BY <1>1, <2>1, <2>2, <2>3, ReadJump
  <2> QED BY <1>1, <2>4, <2>5, <2>6
<1>3. CASE k \notin Jumps
  <2> DEFINE i == asked[k].instruction
  <2>1. i \in Instructions
    BY <1>3, AskedCall, Texts DEF HInv, Jumps
  <2>2. Text(i) = Encode(i) /\ Written(i) /\ Len(Encode(i)) \in Nat
    BY <2>1, Texts
  <2>3. Holds(Patched, asked[k].at + 1, Encode(i))
    BY <1>3, <2>2, PatchedHolds
  <2>4. Start(k + 1) = asked[k].at + Len(Encode(i))
    BY <1>1, <2>2 DEF End
  <2>5. ReadOf(k) = i
    BY <1>3 DEF ReadOf
  <2>6. i.op # "unreadable"
    <3>1. i.op \in Ops
      BY <2>2, WrittenFields
    <3> HIDE DEF i
    <3> QED BY <3>1, Kinds, Domains
  <2> HIDE DEF i
  <2>7. Decode(Patched, asked[k].at + 1) = Read(i, asked[k].at + 1 + Len(Encode(i)))
    BY <1>1, <2>2, <2>3, InstructionRead
  <2>8. Start(k + 1) + 1 = asked[k].at + 1 + Len(Encode(i))
    BY <1>1, <2>2, <2>4
  <2> QED BY <1>1, <2>5, <2>6, <2>7, <2>8
<1> QED BY <1>2, <1>3

\* The code that is handed out is read call by call.
LEMMA PatchedRead ==
  ASSUME HInv, ~finalized, AllBound, NEW n, n = Len(asked)
  PROVE  /\ Disassembled(Patched)
              = [k \in 1 .. n |-> [instruction |-> ReadOf(k), at |-> Start(k) + 1,
                                   next |-> Start(k + 1) + 1]]
         /\ Len(Patched) = Len(bytes)
<1> DEFINE s == [j \in 1 .. n + 1 |-> Start(j) + 1]
<1>1. Len(Patched) = Len(bytes) /\ Len(Patched) \in Nat
  <2>1. Patched \in Seq(0 .. 255) /\ DOMAIN Patched = DOMAIN bytes /\ bytes \in Seq(0 .. 255)
    BY PatchedIsCode DEF HInv, IInv, TypeOK, Patched
  <2>2. \A p, q \in Seq(0 .. 255) : DOMAIN p = DOMAIN q => Len(p) = Len(q) /\ Len(p) \in Nat
    <3>1. ASSUME NEW p \in Seq(0 .. 255), NEW q \in Seq(0 .. 255), DOMAIN p = DOMAIN q
          PROVE  Len(p) = Len(q)
      <4>1. 1 .. Len(p) = 1 .. Len(q) /\ Len(p) \in Nat /\ Len(q) \in Nat
        BY <3>1
      <4> QED BY <4>1
    <3> QED BY <3>1
  <2> QED BY ONLY <2>1, <2>2
<1>2. n \in Nat /\ DOMAIN asked = 1 .. n
  BY StartsRise
<1>3. s \in [1 .. n + 1 -> Nat \ {0}] /\ s[1] = 1 /\ s[n + 1] = Len(Patched) + 1
  <2>1. ASSUME NEW k \in 1 .. n + 1 PROVE Start(k) + 1 \in Nat \ {0}
    BY StartsRise
  <2>2. 1 \in 1 .. n + 1 /\ n + 1 \in 1 .. n + 1
    BY <1>2
  <2>3. Start(1) = 0 /\ Start(n + 1) = Len(bytes)
    BY StartsRise
  <2> QED BY <1>1, <2>1, <2>2, <2>3
<1>4. ASSUME NEW j \in 1 .. n
      PROVE  /\ s[j] = Start(j) + 1 /\ s[j + 1] = Start(j + 1) + 1
             /\ s[j + 1] \in s[j] + 1 .. Len(Patched) + 1
             /\ Decode(Patched, s[j]) = Read(ReadOf(j), s[j + 1])
             /\ ReadOf(j).op # "unreadable"
  <2>1. j \in 1 .. n + 1 /\ j + 1 \in 1 .. n + 1 /\ j < j + 1
    BY <1>2
  <2>2. /\ Start(j) \in Nat /\ Start(j + 1) \in Nat /\ Start(j) < Start(j + 1)
        /\ Start(j + 1) <= Len(bytes) /\ Len(bytes) \in Nat
    BY <2>1, StartsRise
  <2>3. s[j] = Start(j) + 1 /\ s[j + 1] = Start(j + 1) + 1
    BY <2>1
  <2>4. Decode(Patched, Start(j) + 1) = Read(ReadOf(j), Start(j + 1) + 1) /\ ReadOf(j).op # "unreadable"
    BY <1>2, CallRead
  <2> HIDE DEF s
  <2> QED BY <1>1, <2>2, <2>3, <2>4
<1> HIDE DEF s
<1>5. Disassembled(Patched) = [j \in 1 .. n |-> Here(Patched, s[j])]
  <2>1. \A j \in 1 .. n : /\ s[j + 1] \in s[j] + 1 .. Len(Patched) + 1
                          /\ Decode(Patched, s[j]).next = s[j + 1]
                          /\ Decode(Patched, s[j]).instruction.op # "unreadable"
    <3> SUFFICES ASSUME NEW j \in 1 .. n
                 PROVE  /\ s[j + 1] \in s[j] + 1 .. Len(Patched) + 1
                        /\ Decode(Patched, s[j]).next = s[j + 1]
                        /\ Decode(Patched, s[j]).instruction.op # "unreadable"
      OBVIOUS
    <3>1. \A i, b : Read(i, b).instruction = i /\ Read(i, b).next = b
      BY DEF Read
    <3> QED BY <1>4, <3>1
  <2>2. Chained(Patched, n, s)
    BY ONLY <1>1, <1>2, <1>3, <2>1 DEF Chained
  <2> QED BY <2>2, DisassembledAs
<1>6. ASSUME NEW j \in 1 .. n
      PROVE  Here(Patched, s[j])
               = [instruction |-> ReadOf(j), at |-> Start(j) + 1, next |-> Start(j + 1) + 1]
  <2>1. \A i, a, b : Placed(a, Read(i, b)) = [instruction |-> i, at |-> a, next |-> b]
    BY DEF Placed, Read
  <2>2. Here(Patched, s[j]) = Placed(Start(j) + 1, Read(ReadOf(j), Start(j + 1) + 1))
    BY <1>4 DEF Here
  <2> QED BY <2>1, <2>2
<1> QED BY <1>1, <1>5, <1>6

\* The program as it was asked for, with labels resolved to instructions.
ResolvedCall(k) ==
  IF k \in Jumps
  THEN JumpTo(asked[k].instruction.condition, LabelIndex(labels[asked[k].instruction.n]))
  ELSE asked[k].instruction

\* What Assembly makes of the calls.
LEMMA ResolvedIs ==
  ASSUME HInv, ~finalized
  PROVE  A!Resolved = [k \in DOMAIN asked |-> ResolvedCall(k)]
<1> DEFINE program == [k \in DOMAIN asked |-> asked[k].instruction]
           indices == [l \in DOMAIN labels |-> LabelIndex(labels[l])]
<1>1. DOMAIN program = DOMAIN asked
  OBVIOUS
<1>2. A!Resolved = [k \in DOMAIN program |-> IF program[k].op = "jump"
                                            THEN [program[k] EXCEPT !.n = indices[@]]
                                            ELSE program[k]]
  BY DEF A!Resolved
<1>3. ASSUME NEW k \in DOMAIN asked
      PROVE  (IF program[k].op = "jump" THEN [program[k] EXCEPT !.n = indices[@]] ELSE program[k])
                = ResolvedCall(k)
  <2>1. program[k] = asked[k].instruction
    OBVIOUS
  <2>2. program[k].op = "jump" <=> k \in Jumps
    BY DEF Jumps
  <2>3. CASE k \in Jumps
    <3> DEFINE c == asked[k].instruction.condition
               l == asked[k].instruction.n
    <3>1. asked[k].instruction = JumpTo(c, l)
      BY <2>3, JumpParts
    <3>2. l \in DOMAIN labels
      BY <2>3 DEF HInv, Laid, JumpsFixed
    <3>3. indices[l] = LabelIndex(labels[l])
      BY <3>2
    <3>4. ResolvedCall(k) = JumpTo(c, LabelIndex(labels[l]))
      BY <2>3 DEF ResolvedCall
    <3> HIDE DEF c, l, indices, program
    <3>5. [JumpTo(c, l) EXCEPT !.n = indices[@]] = JumpTo(c, indices[l])
      BY DEF JumpTo, Op
    <3> QED BY <2>1, <2>2, <2>3, <3>1, <3>3, <3>4, <3>5
  <2>4. CASE k \notin Jumps
    BY <2>1, <2>2, <2>4 DEF ResolvedCall
  <2> QED BY <2>3, <2>4
<1> HIDE DEF program, indices
<1> QED BY <1>1, <1>2, <1>3

\* Where the processor finds an instruction: by the byte at which it begins.
Found(starts, byte) ==
  IF \E k \in DOMAIN starts : starts[k] = byte
  THEN CHOOSE k \in DOMAIN starts : starts[k] = byte
  ELSE -1

\* An instruction is found at the byte where it begins.
LEMMA FoundStart ==
  ASSUME HInv, ~finalized, NEW n, n = Len(asked), NEW starts,
         starts = [k \in 1 .. n + 1 |-> Start(k) + 1], NEW m \in 1 .. n + 1
  PROVE  Found(starts, Start(m) + 1) = m
<1>1. DOMAIN starts = 1 .. n + 1 /\ starts[m] = Start(m) + 1
  OBVIOUS
<1>2. ASSUME NEW k \in 1 .. n + 1, starts[k] = Start(m) + 1 PROVE k = m
  <2>1. Start(k) + 1 = Start(m) + 1
    BY <1>2
  <2>2. Start(k) \in Nat /\ Start(m) \in Nat /\ n \in Nat
    BY StartsRise
  <2>3. Start(k) = Start(m)
    BY <2>1, <2>2
  <2>4. (k < m => Start(k) < Start(m)) /\ (m < k => Start(m) < Start(k))
    BY StartsRise
  <2> QED BY <2>2, <2>3, <2>4
<1> QED BY <1>1, <1>2 DEF Found

\* A jump leads to the instruction its label was bound to.
LEMMA JumpLeads ==
  ASSUME HInv, ~finalized, AllBound, NEW n, n = Len(asked), NEW starts,
         starts = [k \in 1 .. n + 1 |-> Start(k) + 1], NEW k \in Jumps
  PROVE  Found(starts, (Start(k + 1) + 1) + Displacement(FixupFor(asked[k])))
           = LabelIndex(labels[asked[k].instruction.n])
<1> DEFINE l == asked[k].instruction.n
<1>1. l \in DOMAIN labels
  BY DEF HInv, Laid, JumpsFixed
<1>2. PICK m \in 1 .. n + 1 : labels[l] = Start(m)
  BY <1>1 DEF HInv, Laid, LabelsAtStarts, AllBound
<1>3. LabelIndex(labels[l]) = m
  BY <1>2, IndexOfStart
<1>4. Displacement(FixupFor(asked[k])) = labels[l] - (FieldOffset(asked[k]) + 4)
  BY DEF Displacement, FixupFor
<1>5. Start(k + 1) = FieldOffset(asked[k]) + 4 /\ FieldOffset(asked[k]) \in Nat
  <2>1. k \in DOMAIN asked /\ End(asked[k]) = FieldOffset(asked[k]) + 4
    BY JumpParts
  <2>2. FieldOffset(asked[k]) \in Nat
    <3> DEFINE size == Len(JumpOpcode(asked[k].instruction.condition))
    <3>1. size \in 1 .. 2 /\ asked[k].at \in Nat /\ FieldOffset(asked[k]) = asked[k].at + size
      BY JumpParts
    <3> HIDE DEF size
    <3> QED BY <3>1
  <2>3. Start(k + 1) = End(asked[k])
    BY <2>1 DEF HInv, Laid, Adjacent
  <2> QED BY <2>1, <2>2, <2>3
<1>6. Start(m) \in Nat
  BY <1>2, StartsRise
<1> HIDE DEF l
<1>7. (Start(k + 1) + 1) + Displacement(FixupFor(asked[k])) = Start(m) + 1
  BY <1>2, <1>4, <1>5, <1>6
<1>8. Found(starts, Start(m) + 1) = m
  BY <1>2, FoundStart
<1> QED BY <1>3, <1>7, <1>8 DEF l

\* What is handed out is the program that was asked for.
LEMMA PatchedUnderstood ==
  ASSUME HInv, ~finalized, AllBound
  PROVE  Understood(Patched) = A!Resolved
<1>0. PICK n : n = Len(asked)
  OBVIOUS
<1> DEFINE placed == [k \in 1 .. n |-> [instruction |-> ReadOf(k), at |-> Start(k) + 1,
                                       next |-> Start(k + 1) + 1]]
           ats == [k \in 1 .. n |-> Start(k) + 1]
           starts == [k \in 1 .. n + 1 |-> Start(k) + 1]
<1>1. n \in Nat /\ DOMAIN asked = 1 .. n
  BY <1>0, StartsRise
<1>2. Disassembled(Patched) = placed /\ Len(Patched) = Len(bytes)
  BY <1>0, PatchedRead
<1>3. DOMAIN placed = 1 .. n /\ [k \in DOMAIN placed |-> placed[k].at] = ats
  OBVIOUS
<1>4. ats \o <<Len(Patched) + 1>> = starts
  <2>1. \A k \in 1 .. n + 1 : Start(k) + 1 \in Nat
    BY <1>0, StartsRise
  <2>2. Len(Patched) + 1 = Start(n + 1) + 1
    BY <1>0, <1>2, StartsRise
  <2>3. ats \in Seq(Nat) /\ Len(ats) = n /\ \A k \in 1 .. n : ats[k] = Start(k) + 1
    <3>1. ats \in [1 .. n -> Nat]
      BY <1>1, <2>1
    <3> QED BY <1>1, <3>1
  <2> HIDE DEF ats
  <2>4. ASSUME NEW x \in Nat
        PROVE  ats \o <<x>> = [k \in 1 .. n + 1 |-> IF k = n + 1 THEN x ELSE Start(k) + 1]
    <3>1. <<x>> \in Seq(Nat) /\ Len(<<x>>) = 1 /\ <<x>>[1] = x
      OBVIOUS
    <3>2. /\ ats \o <<x>> \in Seq(Nat) /\ Len(ats \o <<x>>) = n + 1
          /\ \A k \in 1 .. n + 1 : (ats \o <<x>>)[k] = IF k <= n THEN ats[k] ELSE <<x>>[k - n]
      BY <1>1, <2>3, <3>1
    <3>3. ats \o <<x>> = [k \in 1 .. n + 1 |-> IF k <= n THEN ats[k] ELSE <<x>>[k - n]]
      <4>1. \A s \in Seq(Nat) : s = [k \in 1 .. Len(s) |-> s[k]]
        OBVIOUS
      <4>2. ats \o <<x>> = [k \in 1 .. n + 1 |-> (ats \o <<x>>)[k]]
        BY <3>2, <4>1
      <4> QED BY <3>2, <4>2
    <3>4. \A k \in 1 .. n + 1 : (IF k <= n THEN ats[k] ELSE <<x>>[k - n])
                                  = IF k = n + 1 THEN x ELSE Start(k) + 1
      <4>1. ASSUME NEW k \in 1 .. n + 1
            PROVE  (IF k <= n THEN ats[k] ELSE <<x>>[k - n]) = IF k = n + 1 THEN x ELSE Start(k) + 1
        <5>1. CASE k <= n
          BY <1>1, <2>3, <5>1
        <5>2. CASE ~(k <= n)
          <6>1. k = n + 1 /\ k - n = 1
            BY <1>1, <5>2
          <6> QED BY <3>1, <5>2, <6>1
        <5> QED BY <5>1, <5>2
      <4> QED BY <4>1
    <3> QED BY <3>3, <3>4
  <2>5. Len(Patched) + 1 \in Nat
    BY <1>1, <2>1, <2>2
  <2> QED BY <2>2, <2>4, <2>5
<1> DEFINE entry(k) == IF placed[k].instruction.op # "jump" THEN placed[k].instruction
                       ELSE [placed[k].instruction EXCEPT !.n = Found(starts, placed[k].next + @)]
<1>5. Understood(Patched) = [k \in 1 .. n |-> entry(k)]
  <2> DEFINE code == Patched
  <2>1. Understood(code) =
          [k \in DOMAIN Disassembled(code) |->
             IF Disassembled(code)[k].instruction.op # "jump" THEN Disassembled(code)[k].instruction
             ELSE [Disassembled(code)[k].instruction EXCEPT
                     !.n = Found([j \in DOMAIN Disassembled(code) |-> Disassembled(code)[j].at]
                                   \o <<Len(code) + 1>>, Disassembled(code)[k].next + @)]]
    <3> HIDE DEF code
    <3> QED BY DEF Understood, Found
  <2> HIDE DEF placed, ats, starts
  <2> QED BY <1>2, <1>3, <1>4, <2>1
<1>6. ASSUME NEW k \in 1 .. n PROVE entry(k) = ResolvedCall(k)
  <2>1. placed[k].instruction = ReadOf(k) /\ placed[k].next = Start(k + 1) + 1
    OBVIOUS
  <2> HIDE DEF placed, starts
  <2>2. CASE k \in Jumps
    <3> DEFINE c == asked[k].instruction.condition
               d == Displacement(FixupFor(asked[k]))
               there == Start(k + 1) + 1
    <3>1. ReadOf(k) = JumpTo(c, d)
      BY <2>2 DEF ReadOf
    <3>2. Found(starts, there + d) = LabelIndex(labels[asked[k].instruction.n])
      <4>1. starts = [j \in 1 .. n + 1 |-> Start(j) + 1]
        BY DEF starts
      <4> QED BY <1>0, <2>2, <4>1, JumpLeads
    <3>3. placed[k].instruction = JumpTo(c, d) /\ placed[k].next = there
      BY <2>1, <3>1
    <3> HIDE DEF c, d, there
    <3>4. entry(k) = JumpTo(c, Found(starts, there + d))
      BY <3>3 DEF JumpTo, Op
    <3> QED BY <2>2, <3>2, <3>4 DEF ResolvedCall, c
  <2>3. CASE k \notin Jumps
    <3>1. asked[k].instruction.op # "jump"
      BY <1>1, <2>3 DEF Jumps
    <3> QED BY <2>1, <2>3, <3>1 DEF ReadOf, ResolvedCall
  <2> QED BY <2>2, <2>3
<1> HIDE DEF entry
<1> QED BY <1>1, <1>5, <1>6, ResolvedIs

-----------------------------------------------------------------------------
(* The refinement.                                                         *)

\* The program and the labels that Assembly is given.
Program == [k \in DOMAIN asked |-> asked[k].instruction]
Indices == [l \in DOMAIN labels |-> LabelIndex(labels[l])]

\* A history starts as an empty program.
LEMMA InitMaps == HistoryInit => A!Init
<1> SUFFICES ASSUME HistoryInit PROVE A!Init
  OBVIOUS
<1>1. asked = <<>> /\ labels = <<>> /\ error = "none" /\ finalized = FALSE /\ read = NoCode
  BY DEF HistoryInit, Init
<1>2. DOMAIN asked = {} /\ DOMAIN labels = {}
  BY <1>1
<1>3. Program = <<>> /\ Indices = <<>>
  BY <1>2 DEF Program, Indices
<1> QED BY <1>1, <1>3 DEF A!Init, A!NoCode, NoCode, Program, Indices

\* What changes neither calls nor labels changes neither program nor labels.
LEMMA SameProgram ==
  ASSUME UNCHANGED <<asked, labels>>
  PROVE  Program' = Program /\ Indices' = Indices
<1>1. \A l \in DOMAIN labels : LabelIndex(labels[l])' = LabelIndex(labels[l])
  BY DEF LabelIndex, IndexAt
<1> QED BY <1>1 DEF Program, Indices

\* A call that is refused.
LEMMA Refusals ==
  ASSUME UNCHANGED <<asked, labels, finalized, read>>,
         \/ error' = error
         \/ /\ error = "none" /\ error' \in EmitErrors \ {"none"}
            /\ finalized <=> error' = "finalized"
  PROVE  [A!Next]_(A!vars)
<1>1. Program' = Program /\ Indices' = Indices
  BY SameProgram
<1>2. CASE error' = error
  BY <1>1, <1>2 DEF A!vars, Program, Indices
<1>3. CASE /\ error = "none" /\ error' \in EmitErrors \ {"none"}
           /\ finalized <=> error' = "finalized"
  <2>1. error' \in A!Errors
    BY <1>3 DEF A!Errors, EmitErrors
  <2>2. A!Refuse(error')
    BY <1>1, <1>3 DEF A!Refuse, Program, Indices
  <2> QED BY <2>1, <2>2 DEF A!Next
<1> QED BY <1>2, <1>3

\* The two ways in which the methods refuse.
LEMMA Refused ==
  ASSUME HInv, UNCHANGED <<asked, read>>
  PROVE  /\ \A size : RefuseToBegin(size) => [A!Next]_(A!vars)
         /\ \A e \in EmitErrors \ {"none", "finalized"} :
              ~finalized /\ RefuseWith(e) => [A!Next]_(A!vars)
<1>0. finalized \in BOOLEAN
  BY DEF HInv, IInv, TypeOK
<1>1. ASSUME NEW size, RefuseToBegin(size) PROVE [A!Next]_(A!vars)
  <2>1. UNCHANGED <<asked, labels, finalized, read>> /\ error' = BeginError(size)
    BY <1>1 DEF RefuseToBegin
  <2>2. \/ error' = error
        \/ /\ error = "none" /\ error' \in EmitErrors \ {"none"}
           /\ finalized <=> error' = "finalized"
    BY <2>1 DEF BeginError, Fail, EmitErrors
  <2> QED BY <2>1, <2>2, Refusals
<1>2. ASSUME NEW e \in EmitErrors \ {"none", "finalized"}, ~finalized, RefuseWith(e)
      PROVE  [A!Next]_(A!vars)
  <2>1. UNCHANGED <<asked, labels, finalized, read>> /\ error' = Fail(e)
    BY <1>2 DEF RefuseWith
  <2>2. \/ error' = error
        \/ /\ error = "none" /\ error' \in EmitErrors \ {"none"}
           /\ finalized <=> error' = "finalized"
    BY <1>2, <2>1 DEF Fail
  <2> QED BY <2>1, <2>2, Refusals
<1> QED BY <1>1, <1>2

\* An accepted call is one more instruction; no label moves.
LEMMA Accepted ==
  ASSUME HInv, NEW i \in Instructions \cup JumpInstructions, error = "none", ~finalized,
         bytes' = bytes \o Text(i), Remember(i), UNCHANGED <<labels, error, finalized, read>>
  PROVE  A!Add(i)
<1> DEFINE call == [instruction |-> i, at |-> Len(bytes)]
<1>0. PICK n : n = Len(asked)
  OBVIOUS
<1>1. asked' = Append(asked, call)
  BY Remembered
<1>2. /\ asked \in Seq(Calls) /\ n \in Nat /\ DOMAIN asked = 1 .. n
      /\ DOMAIN asked' = 1 .. n + 1 /\ asked'[n + 1] = call
      /\ \A k \in 1 .. n : asked'[k] = asked[k] /\ asked[k].at \in Nat
  <2>1. asked \in Seq(Calls) /\ \A k \in DOMAIN asked : asked[k].at \in Nat
    BY AskedCall DEF HInv
  <2>2. call \in Calls
    <3>1. Len(bytes) \in Nat
      BY DEF HInv, IInv, TypeOK
    <3> QED BY <3>1 DEF Calls
  <2> HIDE DEF call
  <2> QED BY <1>0, <1>1, <2>1, <2>2
<1>3. call.instruction = i /\ call.at = Len(bytes)
  OBVIOUS
<1> HIDE DEF call
<1>4. Program' = Append(Program, i)
  <2> DEFINE P == {asked[k].instruction : k \in DOMAIN asked} \cup {i}
  <2>1. Program \in Seq(P) /\ Len(Program) = n /\ i \in P
    <3>1. Program \in [1 .. n -> P]
      BY <1>2 DEF Program
    <3> HIDE DEF P
    <3>2. i \in P
      BY DEF P
    <3> QED BY <1>2, <3>1, <3>2
  <2> HIDE DEF P
  <2>2. Append(Program, i) = [k \in 1 .. n + 1 |-> IF k = n + 1 THEN i ELSE Program[k]]
    <3>1. /\ Append(Program, i) \in Seq(P) /\ Len(Append(Program, i)) = n + 1
          /\ \A k \in 1 .. n + 1 : Append(Program, i)[k] = IF k = n + 1 THEN i ELSE Program[k]
      BY <1>2, <2>1
    <3>2. \A s \in Seq(P) : s = [k \in 1 .. Len(s) |-> s[k]]
      OBVIOUS
    <3>3. Append(Program, i) = [k \in 1 .. n + 1 |-> Append(Program, i)[k]]
      BY <3>1, <3>2
    <3> QED BY <3>1, <3>3
  <2>3. Program' = [k \in 1 .. n + 1 |-> asked'[k].instruction]
    BY <1>2 DEF Program
  <2>4. \A k \in 1 .. n + 1 : asked'[k].instruction = IF k = n + 1 THEN i ELSE Program[k]
    <3>1. \A k \in 1 .. n : Program[k] = asked[k].instruction
      BY <1>2 DEF Program
    <3>2. \A k \in 1 .. n + 1 : k \in 1 .. n \/ k = n + 1
      BY <1>2
    <3> QED BY <1>2, <1>3, <3>1, <3>2
  <2> QED BY <2>2, <2>3, <2>4
<1>5. ASSUME NEW l \in DOMAIN labels PROVE LabelIndex(labels[l])' = LabelIndex(labels[l])
  <2>1. labels'[l] = labels[l] /\ labels[l] \in {Unbound} \cup 0 .. Len(bytes) /\ Len(bytes) \in Nat
    BY DEF HInv, IInv, TypeOK, CodeFits
  <2>2. CASE labels[l] # Unbound
    <3>1. {k \in 1 .. n + 1 : asked'[k].at < labels[l]} = {k \in 1 .. n : asked[k].at < labels[l]}
      <4>1. ~(asked'[n + 1].at < labels[l])
        BY <1>2, <1>3, <2>1, <2>2
      <4>2. \A k \in 1 .. n + 1 : k \in 1 .. n \/ k = n + 1
        BY <1>2
      <4>3. \A k \in 1 .. n : k \in 1 .. n + 1
        BY <1>2
      <4> QED BY <1>2, <4>1, <4>2, <4>3
    <3>2. IndexAt(labels[l])' = IndexAt(labels[l])
      BY <1>2, <2>1, <3>1 DEF IndexAt
    <3> QED BY <2>1, <3>2 DEF LabelIndex
  <2>3. CASE labels[l] = Unbound
    BY <2>1, <2>3 DEF LabelIndex
  <2> QED BY <2>2, <2>3
<1>6. Indices' = Indices
  BY <1>5 DEF Indices
<1> QED BY <1>4, <1>6 DEF A!Add, A!Open, Program, Indices

\* A label that is created stands nowhere.
LEMMA Created ==
  ASSUME HInv, error = "none", ~finalized, labels' = Append(labels, Unbound),
         UNCHANGED <<asked, error, finalized, read>>
  PROVE  A!CreateLabel
<1>0. PICK n : n = Len(labels)
  OBVIOUS
<1>1. /\ labels \in Seq(Int) /\ n \in Nat /\ DOMAIN labels = 1 .. n
      /\ DOMAIN labels' = 1 .. n + 1 /\ labels'[n + 1] = Unbound
      /\ \A l \in 1 .. n : labels'[l] = labels[l]
  <2>1. labels \in Seq(Int) /\ Unbound \in Int
    BY DEF HInv, IInv, TypeOK, Unbound
  <2> HIDE DEF Unbound
  <2> QED BY <1>0, <2>1
<1>3. \A l \in 1 .. n : LabelIndex(labels[l])' = LabelIndex(labels[l])
  BY <1>1 DEF LabelIndex, IndexAt
<1>4. LabelIndex(labels[n + 1])' = 0
  <2>1. labels'[n + 1] = Unbound
    BY <1>1
  <2> QED BY <1>0, <2>1 DEF LabelIndex
<1>5. Indices' = Append(Indices, 0)
  <2> DEFINE P == {LabelIndex(labels[l]) : l \in DOMAIN labels} \cup {0}
  <2>1. Indices \in Seq(P) /\ Len(Indices) = n
    <3>1. Indices \in [1 .. n -> P]
      BY <1>1 DEF Indices
    <3> HIDE DEF P
    <3> QED BY <1>1, <3>1
  <2>2. 0 \in P
    OBVIOUS
  <2> HIDE DEF P
  <2>3. Append(Indices, 0) = [l \in 1 .. n + 1 |-> IF l = n + 1 THEN 0 ELSE Indices[l]]
    <3>1. /\ Append(Indices, 0) \in Seq(P) /\ Len(Append(Indices, 0)) = n + 1
          /\ \A l \in 1 .. n + 1 : Append(Indices, 0)[l] = IF l = n + 1 THEN 0 ELSE Indices[l]
      BY <1>1, <2>1, <2>2
    <3>2. \A s \in Seq(P) : s = [k \in 1 .. Len(s) |-> s[k]]
      OBVIOUS
    <3>3. Append(Indices, 0) = [k \in 1 .. n + 1 |-> Append(Indices, 0)[k]]
      BY <3>1, <3>2
    <3> QED BY <3>1, <3>3
  <2>4. Indices' = [l \in 1 .. n + 1 |-> LabelIndex(labels[l])']
    BY <1>1 DEF Indices
  <2>5. \A l \in 1 .. n : Indices[l] = LabelIndex(labels[l])
    BY <1>1 DEF Indices
  <2>6. \A l \in 1 .. n + 1 : l \in 1 .. n \/ l = n + 1
    BY <1>1
  <2> QED BY <1>3, <1>4, <2>3, <2>4, <2>5, <2>6
<1>6. Program' = Program
  BY DEF Program
<1> QED BY <1>5, <1>6 DEF A!CreateLabel, A!Open, A!Unbound, Program, Indices

\* A label that is bound stands before the next instruction.
LEMMA Bound ==
  ASSUME HInv, error = "none", ~finalized, NEW l \in DOMAIN labels, labels[l] = Unbound,
         labels' = [labels EXCEPT ![l] = Len(bytes)], UNCHANGED <<asked, error, finalized, read>>
  PROVE  A!Bind(l)
<1>0. PICK n : n = Len(asked)
  OBVIOUS
<1>1. LabelIndex(Len(bytes)) = n + 1
  <2>1. n + 1 \in 1 .. n + 1 /\ Start(n + 1) = Len(bytes)
    BY <1>0, StartsRise
  <2> QED BY <1>0, <2>1, IndexOfStart
<1>2. DOMAIN labels' = DOMAIN labels
  OBVIOUS
<1>3. \A x : IndexAt(x)' = IndexAt(x)
  BY DEF IndexAt
<1>4. ASSUME NEW m \in DOMAIN labels
      PROVE  LabelIndex(labels[m])' = IF m = l THEN n + 1 ELSE LabelIndex(labels[m])
  <2>1. CASE m = l
    <3>1. labels'[m] = Len(bytes)
      BY <2>1
    <3>2. LabelIndex(labels[m])' = LabelIndex(Len(bytes))
      BY <3>1 DEF LabelIndex, IndexAt
    <3> QED BY <1>1, <2>1, <3>2
  <2>2. CASE m # l
    <3>1. labels'[m] = labels[m]
      BY <2>2
    <3> QED BY <2>2, <3>1 DEF LabelIndex, IndexAt
  <2> QED BY <2>1, <2>2
<1>5. Indices' = [Indices EXCEPT ![l] = n + 1]
  <2>1. Indices' = [m \in DOMAIN labels |-> LabelIndex(labels[m])']
    BY <1>2 DEF Indices
  <2> QED BY <1>4, <2>1 DEF Indices
<1>6. Program' = Program
  BY DEF Program
<1>7. Len(Program) = n
  <2>1. n \in Nat /\ DOMAIN Program = 1 .. n
    BY <1>0, StartsRise DEF Program
  <2> QED BY <2>1
<1>8. Indices[l] = 0
  BY DEF Indices, LabelIndex
<1> QED BY <1>5, <1>6, <1>7, <1>8 DEF A!Bind, A!Open, A!Unbound, Program, Indices

\* finalize hands out the program, or says why not.
LEMMA Finished ==
  ASSUME HInv, Finalize, Reread, UNCHANGED asked
  PROVE  A!Finish
<1>1. /\ ~finalized /\ finalized' = TRUE /\ error' = FinalError /\ UNCHANGED <<labels, fixups>>
  BY DEF Finalize
<1>2. Program' = Program /\ Indices' = Indices
  BY <1>1, SameProgram
<1>3. (\A l \in DOMAIN Indices : Indices[l] # 0) <=> AllBound
  <2>1. ASSUME NEW l \in DOMAIN labels PROVE LabelIndex(labels[l]) # 0 <=> labels[l] # Unbound
    <3>1. CASE labels[l] = Unbound
      BY <3>1 DEF LabelIndex
    <3>2. CASE labels[l] # Unbound
      <4>1. PICK k \in 1 .. Len(asked) + 1 : labels[l] = Start(k)
        BY <1>1, <3>2 DEF HInv, Laid, LabelsAtStarts
      <4>2. LabelIndex(labels[l]) = k /\ k # 0
        BY <1>1, <4>1, IndexOfStart
      <4> QED BY <3>2, <4>2
    <3> QED BY <3>1, <3>2
  <2> QED BY <2>1 DEF AllBound, Indices
<1>4. FinalError = IF error # "none" THEN error ELSE IF ~AllBound THEN "unboundLabel" ELSE "none"
  <2>1. DisplacementsFit
    BY DisplacementsAreInRange DEF HInv
  <2> QED BY <1>1, <2>1 DEF FinalError, DisplacementsFit
<1>5. read' = IF error = "none" /\ AllBound THEN <<A!Resolved>> ELSE NoCode
  <2>1. CASE error = "none" /\ AllBound
    <3>1. result' = <<Patched>>
      BY <1>4, <2>1 DEF Finalize
    <3>2. result' # NoCode /\ result'[1] = Patched
      <4>1. Len(<<Patched>>) = 1 /\ Len(<<>>) = 0
        OBVIOUS
      <4> QED BY <3>1, <4>1 DEF NoCode
    <3>3. read' = <<Understood(Patched)>>
      <4>1. read' = IF result' = NoCode THEN NoCode ELSE <<Understood(result'[1])>>
        BY DEF Reread
      <4> QED BY <3>2, <4>1
    <3> QED BY <1>1, <2>1, <3>3, PatchedUnderstood
  <2>2. CASE ~(error = "none" /\ AllBound)
    <3>1. FinalError # "none"
      BY <1>4, <2>2
    <3>2. result' = NoCode
      BY <3>1 DEF Finalize
    <3> QED BY <2>2, <3>2 DEF Reread
  <2> QED BY <2>1, <2>2
<1>6. error' = IF error = "none" /\ ~AllBound THEN "unboundLabel" ELSE error
  BY <1>1, <1>4
<1> QED BY <1>1, <1>2, <1>3, <1>5, <1>6 DEF A!Finish, A!NoCode, A!Unbound, NoCode, Program, Indices

\* Every step of the emitter is a step of Assembly or changes nothing in it.
LEMMA StepMaps == HInv /\ [HistoryNext]_historyVars => [A!Next]_(A!vars)
<1> SUFFICES ASSUME HInv, [HistoryNext]_historyVars PROVE [A!Next]_(A!vars)
  OBVIOUS
<1>0. finalized \in BOOLEAN /\ labels \in Seq(Int)
  BY DEF HInv, IInv, TypeOK
<1>1. CASE CreateLabel /\ UNCHANGED <<asked, read>>
  <2>1. CASE /\ error = "none" /\ ~finalized /\ labels' = Append(labels, Unbound)
             /\ UNCHANGED <<bytes, fixups, error, finalized, result>>
    BY <1>1, <2>1, Created DEF A!Next
  <2>2. CASE /\ error # "none" \/ finalized \/ Len(labels) >= MaxLabels
             /\ error' = IF finalized THEN Fail("finalized") ELSE Fail("codeTooLarge")
             /\ UNCHANGED <<bytes, labels, fixups, finalized, result>>
    <3>1. \/ error' = error
          \/ /\ error = "none" /\ error' \in EmitErrors \ {"none"}
             /\ finalized <=> error' = "finalized"
      BY <1>0, <2>2 DEF Fail, EmitErrors
    <3> QED BY <1>1, <2>2, <3>1, Refusals
  <2> QED BY <1>1, <2>1, <2>2 DEF CreateLabel
<1>2. ASSUME NEW label \in HeldLabels, Bind(label), UNCHANGED <<asked, read>>
      PROVE  [A!Next]_(A!vars)
  <2>1. CASE RefuseToBegin(0)
    BY <1>2, <2>1, Refused
  <2>2. ASSUME Begins(0), RefuseWith("invalidLabel") \/ RefuseWith("duplicateLabel")
        PROVE  [A!Next]_(A!vars)
    <3>1. ~finalized
      BY <2>2 DEF Begins
    <3> QED BY <1>2, <2>2, <3>1, Refused DEF EmitErrors
  <2>3. CASE /\ Begins(0) /\ Valid(label) /\ labels[label.id] = Unbound
             /\ labels' = [labels EXCEPT ![label.id] = Len(bytes)]
             /\ UNCHANGED <<bytes, fixups, error, finalized, result>>
    <3>1. error = "none" /\ ~finalized /\ label.id \in DOMAIN labels
      BY <2>3 DEF Begins, Valid
    <3>2. A!Bind(label.id)
      BY <1>2, <2>3, <3>1, Bound
    <3>3. label.id \in DOMAIN Indices
      BY <3>1 DEF Indices
    <3> QED BY <3>2, <3>3 DEF A!Next, Indices
  <2> QED BY <1>2, <2>1, <2>2, <2>3 DEF Bind
<1>3. ASSUME NEW i \in Instructions, Emit(i), Remember(i), UNCHANGED read PROVE [A!Next]_(A!vars)
  <2>1. CASE RefuseToBegin(Reserved(i))
    <3>1. UNCHANGED asked
      BY <1>3, <2>1 DEF RefuseToBegin, Remember
    <3> QED BY <1>3, <2>1, <3>1, Refused
  <2>2. CASE Begins(Reserved(i)) /\ RefuseWith("invalidDivisionOperand")
    <3>1. UNCHANGED asked /\ ~finalized
      BY <1>3, <2>2 DEF RefuseWith, Remember, Begins
    <3> QED BY <1>3, <2>2, <3>1, Refused DEF EmitErrors
  <2>3. CASE /\ Begins(Reserved(i)) /\ bytes' = bytes \o Encode(i)
             /\ UNCHANGED <<labels, fixups, error, finalized, result>>
    <3>1. error = "none" /\ ~finalized
      BY <2>3 DEF Begins
    <3>2. i \in Instructions \cup JumpInstructions /\ Text(i) = Encode(i)
      BY Texts
    <3>3. A!Add(i)
      BY <1>3, <2>3, <3>1, <3>2, Accepted
    <3> QED BY <3>3 DEF A!Next
  <2> QED BY <1>3, <2>1, <2>2, <2>3 DEF Emit
<1>4. ASSUME NEW label \in HeldLabels, NEW condition \in Conditions, Jump(condition, label),
             Remember(JumpTo(condition, label.id)), UNCHANGED read
      PROVE  [A!Next]_(A!vars)
  <2>1. CASE RefuseToBegin(JumpSize(condition))
    <3>1. UNCHANGED asked
      BY <1>4, <2>1 DEF RefuseToBegin, Remember
    <3> QED BY <1>4, <2>1, <3>1, Refused
  <2>2. CASE Begins(JumpSize(condition)) /\ RefuseWith("invalidLabel")
    <3>1. UNCHANGED asked /\ ~finalized
      BY <1>4, <2>2 DEF RefuseWith, Remember, Begins
    <3> QED BY <1>4, <2>2, <3>1, Refused DEF EmitErrors
  <2>3. CASE /\ Begins(JumpSize(condition)) /\ Valid(label)
             /\ bytes' = bytes \o JumpOpcode(condition) \o UInt32(0)
             /\ UNCHANGED <<labels, error, finalized, result>>
    <3> DEFINE i == JumpTo(condition, label.id)
    <3>1. error = "none" /\ ~finalized /\ label.id \in DOMAIN labels
      BY <2>3 DEF Begins, Valid
    <3>2. i \in Instructions \cup JumpInstructions
      <4>1. label.id \in Nat
        BY <1>0, <3>1
      <4> QED BY <4>1 DEF JumpInstructions
    <3>3. bytes' = bytes \o Text(i)
      <4>1. Text(i) = JumpOpcode(condition) \o UInt32(0)
        BY DEF Text, JumpTo, Op
      <4>2. JumpOpcode(condition) \in Seq(Byte8) /\ UInt32(0) \in Seq(Byte8)
        BY JumpOpcodeFits, Immediate32
      <4>3. bytes \in Seq(Byte8)
        BY DEF HInv, IInv, TypeOK, Byte8
      <4>4. (bytes \o JumpOpcode(condition)) \o UInt32(0) = bytes \o (JumpOpcode(condition) \o UInt32(0))
        BY ONLY <4>2, <4>3, ConcatAssociative
      <4> QED BY <2>3, <4>1, <4>4
    <3> HIDE DEF i
    <3>4. Remember(i)
      BY <1>4 DEF i
    <3>5. A!Add(i)
      BY <1>4, <2>3, <3>1, <3>2, <3>3, <3>4, Accepted
    <3>6. i = A!JumpTo(condition, label.id) /\ label.id \in DOMAIN Indices
      BY <3>1 DEF i, JumpTo, Op, A!JumpTo, Indices
    <3>7. \E c \in Conditions, l \in DOMAIN Indices : A!Add(A!JumpTo(c, l))
      BY <3>5, <3>6
    <3> QED BY <3>7 DEF A!Next, Indices
  <2> QED BY <1>4, <2>1, <2>2, <2>3 DEF Jump
<1>5. CASE Finalize /\ Reread /\ UNCHANGED asked
  BY <1>5, Finished DEF A!Next
<1>6. CASE FinalizeAgain /\ UNCHANGED <<asked, read>>
  <2>1. UNCHANGED <<asked, labels, finalized, read>> /\ error' = error
    BY <1>6 DEF FinalizeAgain, vars
  <2> QED BY <2>1, Refusals
<1>7. CASE UNCHANGED historyVars
  <2>1. UNCHANGED <<asked, labels, finalized, read>> /\ error' = error
    BY <1>7 DEF historyVars
  <2> QED BY <2>1, Refusals
<1> QED BY <1>1, <1>2, <1>3, <1>4, <1>5, <1>6, <1>7 DEF HistoryNext

\* Emitter implements Assembly: whatever is asked for and in whatever order, the
\* code that finalize hands out is read by the processor as the program that was
\* asked for, with every jump at the instruction its label was bound to; after a
\* refused call there is no code, and only the first error is kept.
THEOREM Refinement == HistorySpec => RefinesAssembly
<1>1. HistorySpec => []HInv
  BY InitHInv, StepHInv, PTL DEF HistorySpec
<1> QED BY InitMaps, StepMaps, <1>1, PTL DEF HistorySpec, RefinesAssembly, A!Spec
=============================================================================
