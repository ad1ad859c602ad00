--------------------------- MODULE EmitterHistory ---------------------------
(***************************************************************************)
(* The emitter with a history of the calls it accepted, and how it         *)
(* implements Assembly: the code it hands out is read by the processor as  *)
(* the program that was asked for.                                         *)
(***************************************************************************)
EXTENDS Emitter, FiniteSets

CONSTANT Vocabulary   \* instructions whose bytes are read one by one

LargestInt32 == 2147483647

\* The numbers that fit a displacement or half an immediate.
Int32Numbers == -LargestInt32 - 1 .. LargestInt32

\* An instruction as a method is called for it: a parameter that the method does
\* not have is 0 or None, and the stack pointer moves by what an int32 can hold.
Written(i) ==
  /\ i \in [op : Ops, a : Register, b : Register, n : Int32Numbers, high : Int32Numbers,
            condition : DOMAIN ConditionCode \cup {None}]
  /\ i.op \notin DOMAIN RegisterForm \cup DOMAIN MemoryForm \cup DOMAIN DoubleForm
                  \cup {"multiply", "moveToXmm", "moveFromXmm"} => i.b = 0
  /\ i.op \in DOMAIN AdjustForm \cup {"signExtendRaxIntoRdx", "returnFromFunction"} => i.a = 0
  /\ i.op \notin DOMAIN MemoryForm \cup DOMAIN AdjustForm \cup {"moveImmediate64"} => i.n = 0
  /\ i.op \in DOMAIN AdjustForm => i.n >= 0
  /\ i.op # "moveImmediate64" => i.high = 0
  /\ i.op = "set" <=> i.condition # None
  /\ i.op \in DOMAIN DoubleForm \cup {"moveToXmm"} => i.a \in XmmRegister
  /\ i.op \in DOMAIN DoubleForm \cup {"moveFromXmm"} => i.b \in XmmRegister

\* maximumCodeSize() is the largest int32.
ASSUME HistoryAssumption ==
  /\ \A i \in Instructions \cup Vocabulary : Written(i)
  /\ MaxCodeSize <= LargestInt32

-----------------------------------------------------------------------------
(* How an x64 processor reads the bytes that Encoding writes, from the     *)
(* format of its instructions: prefixes, REX, opcode, ModRM, SIB,          *)
(* displacement and immediate.  This knows nothing of the emitter but the  *)
(* names it gives to instructions and the numbers of conditions.           *)

Byte(code, k) == IF k \in DOMAIN code THEN code[k] ELSE -1

Int32(code, k) ==
  LET top == Byte(code, k + 3)
  IN Byte(code, k) + 256 * Byte(code, k + 1) + 65536 * Byte(code, k + 2)
       + 16777216 * (IF top >= 128 THEN top - 256 ELSE top)

Read(instruction, next) == [instruction |-> instruction, next |-> next]
Unreadable(k) == Read(Op("unreadable", 0, 0, 0, None), k)

\* Without a REX prefix the codes 4 .. 7 of a byte register are ah, ch, dh, bh.
ByteRegister(rex, code) == IF rex = 0 /\ code >= 4 THEN code + 100 ELSE code

ConditionNamed(code) == CHOOSE c \in DOMAIN ConditionCode : ConditionCode[c] = code

OpNamed(table, opcode) == CHOOSE o \in DOMAIN table : table[o] = opcode
InTable(table, opcode) == \E o \in DOMAIN table : table[o] = opcode

\* The bits of the REX prefix: W, R, X, B.
Wide(rex) == (rex \div 8) % 2 = 1
RegBit(rex) == 8 * ((rex \div 4) % 2)
IndexBit(rex) == 8 * ((rex \div 2) % 2)
BaseBit(rex) == 8 * (rex % 2)

Mode(byte) == byte \div 64
RegOf(rex, byte) == ((byte \div 8) % 8) + RegBit(rex)
RmOf(rex, byte) == (byte % 8) + BaseBit(rex)

-----------------------------------------------------------------------------
(* Operands in memory: base plus 32-bit displacement.                      *)

Memory(table, code, rex, opcode, k) ==
  LET modRm == Byte(code, k)
      sib == Byte(code, k + 1)
      name == OpNamed(table, opcode)
  IN IF modRm % 8 # 4
     THEN Read(Op(name, RegOf(rex, modRm), RmOf(rex, modRm), Int32(code, k + 1), None), k + 5)
     ELSE IF ((sib \div 8) % 8) + IndexBit(rex) = 4   \* no index
     THEN Read(Op(name, RegOf(rex, modRm), RmOf(rex, sib), Int32(code, k + 2), None), k + 6)
     ELSE Unreadable(k)

\* The processor's own tables: the operand written by the opcode.
ToRm == [move |-> \h89, add |-> \h01, subtract |-> \h29, bitwiseXor |-> \h31,
         compare |-> \h39, test |-> \h85]
WithMemory == [load |-> \h8B, loadEffectiveAddress |-> \h8D, store |-> \h89]
ScalarDouble == [addDouble |-> \h58, multiplyDouble |-> \h59, subtractDouble |-> \h5C,
                 divideDouble |-> \h5E]

-----------------------------------------------------------------------------
(* Opcodes of one byte, and of two bytes from 0F on.                       *)

Grouped(opcode, rex, modRm) ==
  LET digit == (modRm \div 8) % 8
      name == CASE opcode = \hF7 /\ digit = 3 -> "negate"
                [] opcode = \hF7 /\ digit = 7 -> "signedDivide"
                [] opcode = \hFF /\ digit = 2 -> "call"
                [] OTHER -> "unreadable"
  IN Op(name, RmOf(rex, modRm), 0, 0, None)

ReadWide(code, rex, opcode, k) ==
  LET modRm == Byte(code, k)
      register == (opcode % 8) + BaseBit(rex)
  IN CASE opcode \in \hB8 .. \hBF ->
            Read(MoveImmediate64(register, Int32(code, k), Int32(code, k + 4)), k + 8)
       [] opcode = \h99 -> Read(Op("signExtendRaxIntoRdx", 0, 0, 0, None), k)
       [] opcode = \h81 /\ modRm \in {\hEC, \hC4} ->
            Read(Op(IF modRm = \hEC THEN "subtractStackPointer" ELSE "addStackPointer",
                    0, 0, Int32(code, k + 1), None), k + 5)
       [] opcode \in {\hF7, \hFF} /\ Mode(modRm) = 3 ->
            Read(Grouped(opcode, rex, modRm), k + 1)
       [] InTable(WithMemory, opcode) /\ Mode(modRm) = 2 -> Memory(WithMemory, code, rex, opcode, k)
       [] InTable(ToRm, opcode) /\ Mode(modRm) = 3 ->
            Read(Op(OpNamed(ToRm, opcode), RmOf(rex, modRm), RegOf(rex, modRm), 0, None), k + 1)
       [] OTHER -> Unreadable(k)

ReadShort(code, rex, opcode, k) ==
  LET register == (opcode % 8) + BaseBit(rex)
  IN CASE opcode \in \h50 .. \h57 -> Read(Op("push", register, 0, 0, None), k)
       [] opcode \in \h58 .. \h5F -> Read(Op("pop", register, 0, 0, None), k)
       [] opcode = \hC3 -> Read(Op("returnFromFunction", 0, 0, 0, None), k)
       [] opcode = \hE9 -> Read(Op("jump", 0, 0, Int32(code, k), None), k + 4)
       [] OTHER -> IF Wide(rex) THEN ReadWide(code, rex, opcode, k) ELSE Unreadable(k)

ReadLong(code, prefix, rex, opcode, k) ==
  LET modRm == Byte(code, k)
      reg == RegOf(rex, modRm)
      rm == RmOf(rex, modRm)
  IN CASE opcode \in \h80 .. \h8F ->
            Read(Op("jump", 0, 0, Int32(code, k), ConditionNamed(opcode - \h80)), k + 4)
       [] opcode \in \h90 .. \h9F /\ Mode(modRm) = 3 ->
            Read(Op("set", ByteRegister(rex, rm), 0, 0, ConditionNamed(opcode - \h90)), k + 1)
       [] opcode = \hAF /\ Wide(rex) /\ Mode(modRm) = 3 ->
            Read(Op("multiply", reg, rm, 0, None), k + 1)
       [] prefix = \h66 /\ opcode = \h6E /\ Wide(rex) /\ Mode(modRm) = 3 ->
            Read(Op("moveToXmm", reg, rm, 0, None), k + 1)
       [] prefix = \h66 /\ opcode = \h7E /\ Wide(rex) /\ Mode(modRm) = 3 ->
            Read(Op("moveFromXmm", rm, reg, 0, None), k + 1)
       [] prefix = \h66 /\ opcode = \h2E /\ Mode(modRm) = 3 ->
            Read(Op("compareDouble", reg, rm, 0, None), k + 1)
       [] prefix = \hF2 /\ InTable(ScalarDouble, opcode) /\ Mode(modRm) = 3 ->
            Read(Op(OpNamed(ScalarDouble, opcode), reg, rm, 0, None), k + 1)
       [] OTHER -> Unreadable(k)

ReadOpcode(code, prefix, rex, k) ==
  IF Byte(code, k) = \h0F THEN ReadLong(code, prefix, rex, Byte(code, k + 1), k + 2)
  ELSE ReadShort(code, rex, Byte(code, k), k + 1)

ReadRex(code, prefix, k) ==
  IF Byte(code, k) \in \h40 .. \h4F THEN ReadOpcode(code, prefix, Byte(code, k), k + 1)
  ELSE ReadOpcode(code, prefix, 0, k)

\* The instruction that begins at byte k, and the byte after it.
Decode(code, k) ==
  IF Byte(code, k) \in {\h66, \hF2} THEN ReadRex(code, Byte(code, k), k + 1)
  ELSE ReadRex(code, 0, k)

-----------------------------------------------------------------------------
(* A whole code, from its first byte: instructions with the bytes at which *)
(* they begin and end.                                                     *)

Placed(at, r) == [instruction |-> r.instruction, at |-> at, next |-> r.next]

Disassembled(code) ==
  LET from[k \in 1 .. Len(code) + 1] ==
        IF k > Len(code) THEN <<>>
        ELSE LET p == Placed(k, Decode(code, k))
             IN IF p.instruction.op = "unreadable" \/ p.next \notin k + 1 .. Len(code) + 1
                THEN <<[p EXCEPT !.instruction.op = "unreadable"]>>
                ELSE <<p>> \o from[p.next]
  IN from[1]

-----------------------------------------------------------------------------
(* The history.                                                            *)

VARIABLES
  asked,   \* the accepted instructions, with the bytes before each
  read     \* the code that was handed out, as the processor reads it

historyVars == <<bytes, labels, fixups, error, finalized, result, asked, read>>

JumpTo(condition, label) == Op("jump", 0, 0, label, condition)

\* The code, with the displacement of a jump replaced by the instruction it
\* leads to; -1 stands for a place inside an instruction or outside the code.
Understood(code) ==
  LET placed == Disassembled(code)
      starts == [k \in DOMAIN placed |-> placed[k].at] \o <<Len(code) + 1>>
      Target(byte) == IF \E k \in DOMAIN starts : starts[k] = byte
                      THEN CHOOSE k \in DOMAIN starts : starts[k] = byte
                      ELSE -1
  IN [k \in DOMAIN placed |->
        IF placed[k].instruction.op # "jump" THEN placed[k].instruction
        ELSE [placed[k].instruction EXCEPT !.n = Target(placed[k].next + @)]]

\* An accepted call appends bytes.
Remember(i) ==
  asked' = IF bytes' = bytes THEN asked
           ELSE Append(asked, [instruction |-> i, at |-> Len(bytes)])

Reread == read' = IF result' = NoCode THEN NoCode ELSE <<Understood(result'[1])>>

HistoryInit == Init /\ asked = <<>> /\ read = NoCode

HistoryNext ==
  \/ (CreateLabel \/ FinalizeAgain) /\ UNCHANGED <<asked, read>>
  \/ \E label \in HeldLabels : Bind(label) /\ UNCHANGED <<asked, read>>
  \/ \E i \in Instructions : Emit(i) /\ Remember(i) /\ UNCHANGED read
  \/ \E label \in HeldLabels, condition \in Conditions :
       Jump(condition, label) /\ Remember(JumpTo(condition, label.id)) /\ UNCHANGED read
  \/ Finalize /\ Reread /\ UNCHANGED asked

HistorySpec == HistoryInit /\ [][HistoryNext]_historyVars

-----------------------------------------------------------------------------
(* The refinement mapping.                                                 *)

\* The instruction that begins at or after an offset: they are appended in order.
IndexAt(offset) == 1 + Cardinality({k \in DOMAIN asked : asked[k].at < offset})

LabelIndex(offset) == IF offset = Unbound THEN 0 ELSE IndexAt(offset)

A == INSTANCE Assembly WITH
       program  <- [k \in DOMAIN asked |-> asked[k].instruction],
       labels   <- [l \in DOMAIN labels |-> LabelIndex(labels[l])],
       finished <- finalized,
       code     <- read

\* The emitter implements Assembly: whatever the order of calls, what it hands
\* out is the program asked for with every jump at its label's instruction;
\* after a refused call there is no code, and only the first error is kept.
RefinesAssembly == A!Spec

-----------------------------------------------------------------------------
(* Every instruction by itself.                                            *)

Fresh == bytes = <<>> /\ labels = <<>> /\ error = "none" /\ ~finalized

\* The bytes of every instruction, with every register and with numbers at their
\* limits, are bytes, no more than its method reserves, and the processor reads
\* them as that instruction and as nothing more: extension bits, the SIB byte of
\* rsp and r12 and the REX prefix of byte registers included.
ReadAsWritten ==
  Fresh =>
    \A i \in Vocabulary :
      LET text == Encode(i)
      IN /\ \A k \in DOMAIN text : text[k] \in 0 .. 255
         /\ Len(text) <= Reserved(i)
         /\ Decode(text, 1) = Read(i, Len(text) + 1)
=============================================================================
