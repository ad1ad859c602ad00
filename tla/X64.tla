-------------------------------- MODULE X64 --------------------------------
(***************************************************************************)
(* The processor and the Windows x64 calling convention, as far as the     *)
(* code of BaselineCompiler and its callers rely on them.  A register      *)
(* holds a word, a pointer to a slot of an area, or something unknown.     *)
(***************************************************************************)
EXTENDS BaselineCompiler

Value(area, n) == [area |-> area, n |-> n]
Word(n) == Value("word", n)
Unknown == Value("unknown", 0)
IsWord(v) == v.area = "word"

Volatile == {"rax", "rcx", "rdx", "r8", "r9", "xmm0", "xmm1"}
CalleeSaved == {"rbx", "r12", "r13", "r14"}
Registers == Volatile \cup CalleeSaved

\* What the caller keeps in the registers it wants back.
CallerValue == [rbx |-> Value("caller", 1), r12 |-> Value("caller", 2),
                r13 |-> Value("caller", 3), r14 |-> Value("caller", 4)]

ReturnAddress == Value("return", 0)

\* invokeNativeWordFrame: the frame is passed in rcx; spills and call arguments
\* are zero, as are the locals beyond the parameters.
Enter(localCount, requirements, arguments) ==
  [pc |-> 1,
   regs |-> [r \in Registers |-> IF r \in CalleeSaved THEN CallerValue[r]
                                 ELSE IF r = "rcx" THEN Value("frame", 1) ELSE Unknown],
   flags |-> [zero |-> FALSE, less |-> FALSE, carry |-> FALSE, parity |-> FALSE],
   stack |-> <<ReturnAddress>>,
   memory |-> [locals |-> [k \in 1 .. localCount |->
                             IF k <= Len(arguments) THEN arguments[k] ELSE 0],
               spills |-> [k \in 1 .. requirements.spillCount |-> 0],
               callArguments |-> [k \in 1 .. requirements.callArgumentCapacity |-> 0]],
   errorCode |-> 0]

-----------------------------------------------------------------------------
(* Flags.                                                                  *)

Unsigned(n) == n % (2 * Half)

IntegerFlags(a, b) ==
  [zero |-> a = b, less |-> a < b, carry |-> Unsigned(a) < Unsigned(b), parity |-> FALSE]

\* Unordered: zero, carry and parity; overflow and sign are always cleared.
DoubleFlags(a, b) ==
  LET unordered == IsNaN(a) \/ IsNaN(b)
  IN [zero |-> unordered \/ Real(a) = Real(b), less |-> FALSE,
      carry |-> unordered \/ Real(a) < Real(b), parity |-> unordered]

Condition(name, f) ==
  CASE name = "equal"        -> f.zero
    [] name = "notEqual"     -> ~f.zero
    [] name = "less"         -> f.less
    [] name = "lessEqual"    -> f.less \/ f.zero
    [] name = "greater"      -> ~f.less /\ ~f.zero
    [] name = "greaterEqual" -> ~f.less
    [] name = "below"        -> f.carry
    [] name = "belowEqual"   -> f.carry \/ f.zero
    [] name = "above"        -> ~f.carry /\ ~f.zero
    [] name = "aboveEqual"   -> ~f.carry
    [] name = "notParity"    -> ~f.parity

-----------------------------------------------------------------------------
(* One instruction, other than a call and the return.                      *)

\* The exclusive or is only used with the sign bit.
AluResult(i, a, b) ==
  CASE i.name = "negate" -> Wrap(-a)
    [] i.name = "xor"    -> FlipSign(a)
    [] i.to = "xmm0"     -> F64(i.name, a, b)
    [] OTHER             -> I64(i.name, a, b)

Slot(m, base, n) == m.regs[base].n + n - 1

\* What no correct code does: an access outside an area, an operation on a
\* pointer or on an unknown value, a trapping division, a pop of the return
\* address or below.
Faults(m, i) ==
  CASE i.op = "load" ->
         \/ m.regs[i.from].area \notin DOMAIN m.memory
         \/ Slot(m, i.from, i.n) \notin DOMAIN m.memory[m.regs[i.from].area]
    [] i.op = "store" ->
         IF i.to = "rsp" THEN i.n >= Len(m.stack)
         ELSE \/ m.regs[i.to].area \notin DOMAIN m.memory
              \/ Slot(m, i.to, i.n) \notin DOMAIN m.memory[m.regs[i.to].area]
              \/ ~IsWord(m.regs[i.from])
    [] i.op \in {"alu", "compare", "compareDouble", "test"} ->
         ~IsWord(m.regs[i.to]) \/ ~IsWord(m.regs[i.from])
    [] i.op = "divide" ->
         \/ ~IsWord(m.regs.rax) \/ ~IsWord(m.regs.r8)
         \/ Indivisible(m.regs.rax.n, m.regs.r8.n)
    [] i.op \in {"set", "storeField"} ->
         ~IsWord(m.regs[IF i.op = "set" THEN i.to ELSE i.from])
    [] i.op \in {"loadField"} -> m.regs.r12 # Value("frame", 1)
    [] i.op = "pop" -> Len(m.stack) <= 1
    [] i.op = "shrink" -> Len(m.stack) <= i.n
    [] i.op = "ret" -> m.stack # <<ReturnAddress>>
    [] OTHER -> FALSE

Executed(m, i) ==
  LET a == m.regs[i.to].n
      b == m.regs[i.from].n
  IN CASE i.op = "push" -> [m EXCEPT !.stack = Append(@, m.regs[i.from])]
       [] i.op = "pop" -> [m EXCEPT !.regs[i.to] = Last(m.stack), !.stack = Front(@)]
       [] i.op = "grow" -> [m EXCEPT !.stack = @ \o [k \in 1 .. i.n |-> Unknown]]
       [] i.op = "shrink" -> [m EXCEPT !.stack = Drop(@, i.n)]
       [] i.op = "move" -> [m EXCEPT !.regs[i.to] = m.regs[i.from]]
       [] i.op = "immediate" -> [m EXCEPT !.regs[i.to] = Word(i.n)]
       [] i.op = "function" -> [m EXCEPT !.regs[i.to] = Value(i.name, 0)]
       [] i.op = "loadField" -> [m EXCEPT !.regs[i.to] = Value(i.name, 1)]
       [] i.op = "storeField" -> [m EXCEPT !.errorCode = b]
       [] i.op = "load" ->
            [m EXCEPT !.regs[i.to] = Word(m.memory[m.regs[i.from].area][Slot(m, i.from, i.n)])]
       [] i.op = "store" ->
            IF i.to = "rsp"
            THEN [m EXCEPT !.stack[Len(m.stack) - i.n + 1] = m.regs[i.from]]
            ELSE [m EXCEPT !.memory[m.regs[i.to].area][Slot(m, i.to, i.n)] = b]
       [] i.op = "address" ->
            [m EXCEPT !.regs[i.to] = Value(m.regs[i.from].area, Slot(m, i.from, i.n))]
       [] i.op = "alu" ->
            [m EXCEPT !.regs[i.to] = Word(AluResult(i, a, b)),
                      !.flags = IntegerFlags(AluResult(i, a, b), 0)]
       [] i.op = "compare" -> [m EXCEPT !.flags = IntegerFlags(a, b)]
       [] i.op = "test" -> [m EXCEPT !.flags = IntegerFlags(a, 0)]
       [] i.op = "compareDouble" -> [m EXCEPT !.flags = DoubleFlags(a, b)]
       [] i.op = "divide" -> [m EXCEPT !.regs["rax"] = Word(Quotient(a, b)),
                                       !.regs["rdx"] = Word(Remainder(a, b))]
       [] i.op = "set" ->   \* the low byte only
            [m EXCEPT !.regs[i.to] = Word(a - (a % 2) + Truth(Condition(i.name, m.flags)))]
       [] OTHER -> m   \* labels and jumps

LabelAt(code, label) == CHOOSE k \in DOMAIN code : code[k].op = "label" /\ code[k].n = label

Advance(m, code, i) ==
  IF i.op = "jump" \/ (i.op = "jumpIf" /\ Condition(i.name, m.flags))
  THEN LabelAt(code, i.n)
  ELSE m.pc + 1

\* A callee returns word v in rax; it may have used the volatile registers and
\* its four slots on the stack of the caller.
Returned(m, v) ==
  [m EXCEPT !.pc = @ + 1,
            !.regs = [r \in Registers |-> IF r = "rax" THEN v
                                          ELSE IF r \in Volatile THEN Unknown ELSE @[r]],
            !.stack = [k \in DOMAIN @ |-> IF k > Len(@) - 4 THEN Unknown ELSE @[k]]]
=============================================================================
