-------------------------- MODULE BaselineCompiler --------------------------
(***************************************************************************)
(* BaselineCompiler::compile: from verified IR to x64 instructions.  Every *)
(* value lives in its spill slot; an operation loads its operands into     *)
(* rax and r8 and stores the result.  rbx points to the locals, r12 to the *)
(* NativeFrame, r13 to the spills and r14 to the outgoing call arguments.  *)
(* Slots are eight bytes and numbered from 1, on the stack from its top.   *)
(* Labels are numbers: a block has its own.                                *)
(***************************************************************************)
EXTENDS Ir

X(op, to, from, n, name) == [op |-> op, to |-> to, from |-> from, n |-> n, name |-> name]

Push(r) == X("push", "none", r, 0, "none")
PopInto(r) == X("pop", r, "none", 0, "none")
Grow(slots) == X("grow", "none", "none", slots, "none")
Shrink(slots) == X("shrink", "none", "none", slots, "none")
Move(to, from) == X("move", to, from, 0, "none")
Immediate(to, word) == X("immediate", to, "none", word, "none")
LoadField(to, field) == X("loadField", to, "r12", 0, field)
StoreField(field, from) == X("storeField", "r12", from, 0, field)
LoadSlot(to, base, slot) == X("load", to, base, slot, "none")
StoreSlot(base, slot, from) == X("store", base, from, slot, "none")
SlotAddress(to, base, slot) == X("address", to, base, slot, "none")
Alu(operator, to, from) == X("alu", to, from, 0, operator)
Function(to, callee) == X("function", to, "none", 0, callee)
Test(r) == X("test", r, r, 0, "none")
Compare(left, right) == X("compare", left, right, 0, "none")
CompareDouble(left, right) == X("compareDouble", left, right, 0, "none")
Divide == X("divide", "rax", "r8", 0, "none")
SetIf(condition, to) == X("set", to, "none", 0, condition)
Bind(label) == X("label", "none", "none", label, "none")
Jump(label) == X("jump", "none", "none", label, "none")
JumpIf(condition, label) == X("jumpIf", "none", "none", label, condition)
CallThrough(r) == X("call", "none", r, 0, "bridge")
CallHost(callee) == X("call", "none", "rax", 0, callee)
Ret == X("ret", "none", "none", 0, "none")

Spilled(to, v) == LoadSlot(to, "r13", v)
Spill(v, from) == StoreSlot("r13", v, from)

-----------------------------------------------------------------------------
(* Labels and the requirements of the frame.                               *)

DivisionFailure(fn) == Len(fn.blocks) + 1
CallFailure(fn) == Len(fn.blocks) + 2
OwnLabel(fn, v, k) == Len(fn.blocks) + 1 + 2 * v + k   \* k \in {0, 1}

Calls(fn) == {i \in ToSet(Instructions(fn)) : i.op = "call"}

MaximumCallArguments(fn) == Max({0} \cup {Len(i.uses) : i \in Calls(fn)})

FrameRequirements(fn) ==
  [spillCount |-> Len(fn.valueTypes), callArgumentCapacity |-> MaximumCallArguments(fn)]

\* Parameters are stored to the locals of the frame by the caller, so that the
\* preheader has no code; it must therefore do nothing else.
IsCanonicalPreheader(fn) ==
  LET n == Params(fn)
      code == fn.blocks[1].instructions
  IN /\ fn.blocks[1].terminator = Branch(2)
     /\ Len(code) = 2 * n
     /\ \A k \in 1 .. n :
          /\ code[k] = Parameter(k, fn.parameterTypes[k], k)
          /\ code[n + k] = StoreLocal(k, fn.parameterTypes[k], k)

CONSTANT MaxSlots   \* maximumNativeFrameSlots (65536)

Supported(p, fn) ==
  /\ Len(fn.blocks) >= 2
  /\ ToSet(fn.parameterTypes) \cup ToSet(fn.localTypes) \cup ToSet(fn.valueTypes) \subseteq Types
  /\ IsCanonicalPreheader(fn)
  /\ Len(fn.valueTypes) <= MaxSlots /\ MaximumCallArguments(fn) <= MaxSlots
  /\ \A i \in Calls(fn) : p[i.callee].kind = "host" => MatchesBuiltin(p[i.callee])

-----------------------------------------------------------------------------
(* The code of one instruction.                                            *)

\* Seeded fault: the least i64 may be divided by -1.
EmitDivisionZeroOnly(fn, i) ==
  LET safe == OwnLabel(fn, i.result, 0)
  IN <<Spilled("rax", i.uses[1]), Spilled("r8", i.uses[2]),
       Test("r8"), JumpIf("equal", DivisionFailure(fn)),
       Bind(safe), Divide,
       Spill(i.result, IF i.operator = "div" THEN "rax" ELSE "rdx")>>

EmitDivision(fn, i) ==
  LET safe == OwnLabel(fn, i.result, 0)
  IN <<Spilled("rax", i.uses[1]), Spilled("r8", i.uses[2]),
       Test("r8"), JumpIf("equal", DivisionFailure(fn)),
       Immediate("r9", -Half), Compare("rax", "r9"), JumpIf("notEqual", safe),
       Immediate("r9", -1), Compare("r8", "r9"), JumpIf("equal", DivisionFailure(fn)),
       Bind(safe), Divide,
       Spill(i.result, IF i.operator = "div" THEN "rax" ELSE "rdx")>>

EmitArithmetic(fn, i) ==
  IF i.type = "f64"
  THEN <<Spilled("rax", i.uses[1]), Move("xmm0", "rax"),
         Spilled("rax", i.uses[2]), Move("xmm1", "rax"),
         Alu(i.operator, "xmm0", "xmm1"), Move("rax", "xmm0"), Spill(i.result, "rax")>>
  ELSE IF i.operator \in {"div", "rem"} THEN EmitDivision(fn, i)
  ELSE <<Spilled("rax", i.uses[1]), Spilled("r8", i.uses[2]),
         Alu(i.operator, "rax", "r8"), Spill(i.result, "rax")>>

EmitNegation(i) ==
  IF i.type = "i64"
  THEN <<Spilled("rax", i.uses[1]), Alu("negate", "rax", "rax"), Spill(i.result, "rax")>>
  ELSE <<Spilled("rax", i.uses[1]), Immediate("r8", -Half),
         Alu("xor", "rax", "r8"), Spill(i.result, "rax")>>

\* Seeded fault: the conditions of signed integers are used for doubles.
FloatingConditionSigned(operator) == operator

\* ucomisd sets the flags of an unsigned comparison.
FloatingCondition(operator) ==
  CASE operator = "less"         -> "below"
    [] operator = "lessEqual"    -> "belowEqual"
    [] operator = "greater"      -> "above"
    [] operator = "greaterEqual" -> "aboveEqual"
    [] OTHER                     -> operator

\* Seeded fault: an unordered result is taken for an ordered one.
EmitFloatingComparisonOrdered(fn, i) ==
  <<Spilled("rax", i.uses[1]), Move("xmm0", "rax"),
    Spilled("rax", i.uses[2]), Move("xmm1", "rax"), CompareDouble("xmm0", "xmm1"),
    Immediate("rax", 0), SetIf(FloatingCondition(i.operator), "rax"), Spill(i.result, "rax")>>

\* An unordered comparison is false, but for the inequality.
EmitFloatingComparison(fn, i) ==
  LET ordered == OwnLabel(fn, i.result, 0)
      done == OwnLabel(fn, i.result, 1)
  IN <<Spilled("rax", i.uses[1]), Move("xmm0", "rax"),
       Spilled("rax", i.uses[2]), Move("xmm1", "rax"), CompareDouble("xmm0", "xmm1"),
       Immediate("rax", Truth(i.operator = "notEqual")),
       JumpIf("notParity", ordered), Jump(done),
       Bind(ordered), Immediate("rax", 0), SetIf(FloatingCondition(i.operator), "rax"),
       Bind(done), Spill(i.result, "rax")>>

EmitComparison(fn, i) ==
  IF i.type = "f64" THEN EmitFloatingComparison(fn, i)
  ELSE <<Spilled("rax", i.uses[1]), Spilled("r8", i.uses[2]), Compare("rax", "r8"),
         Immediate("rax", 0), SetIf(i.operator, "rax"), Spill(i.result, "rax")>>

\* Host functions are called directly: in rcx or xmm0, with a result in rax.
EmitHostCall(p, i) ==
  CASE p[i.callee].parameterTypes = <<"i64">> ->
         <<Spilled("rcx", i.uses[1]), CallHost(i.callee)>>
    [] p[i.callee].parameterTypes = <<"f64">> ->
         <<Spilled("rax", i.uses[1]), Move("xmm0", "rax"), CallHost(i.callee)>>
    [] OTHER -> <<CallHost(i.callee), Spill(i.result, "rax")>>

\* Seeded fault: the status of the bridge is not looked at.
CheckedStatusIgnored(fn) == <<>>

CheckedStatus(fn) == <<Test("rax"), JumpIf("notEqual", CallFailure(fn))>>

\* bridge(frame, callee, arguments, count, result): the fifth argument lies on
\* the stack above the four slots that belong to the callee.
EmitUserCall(fn, i) ==
  FlattenSeq([k \in DOMAIN i.uses |-> <<Spilled("rax", i.uses[k]), StoreSlot("r14", k, "rax")>>])
    \o <<Move("rcx", "r12"), Function("rdx", i.callee),
         Move("r8", "r14"), Immediate("r9", Len(i.uses)),
         IF i.result = NoValue THEN Immediate("rax", 0) ELSE SlotAddress("rax", "r13", i.result),
         StoreSlot("rsp", 5, "rax"), LoadField("rax", "callBridge"), CallThrough("rax")>>
    \o CheckedStatus(fn)

EmitInstruction(p, fn, i) ==
  CASE i.op = "constant"   -> <<Immediate("rax", i.word), Spill(i.result, "rax")>>
    [] i.op = "load"       -> <<LoadSlot("rax", "rbx", i.local), Spill(i.result, "rax")>>
    [] i.op = "store"      -> <<Spilled("rax", i.uses[1]), StoreSlot("rbx", i.local, "rax")>>
    [] i.op = "negate"     -> EmitNegation(i)
    [] i.op = "arithmetic" -> EmitArithmetic(fn, i)
    [] i.op = "compare"    -> EmitComparison(fn, i)
    [] i.op = "call"       -> IF p[i.callee].kind = "host" THEN EmitHostCall(p, i)
                              ELSE EmitUserCall(fn, i)

-----------------------------------------------------------------------------
(* The code of a function.                                                 *)

\* Seeded fault: one slot less, so that calls are made on a misaligned stack.
CallAreaShort == 4

\* 40 bytes: the four slots of the callee, and one for the fifth argument.
CallArea == 5

Prologue ==
  <<Push("rbx"), Push("r12"), Push("r13"), Push("r14"), Grow(CallArea), Move("r12", "rcx"),
    LoadField("rbx", "locals"), LoadField("r13", "spills"), LoadField("r14", "callArguments")>>

\* Seeded fault: two callee-saved registers are restored in the wrong order.
EpilogueSwapped ==
  <<Shrink(CallArea), PopInto("r13"), PopInto("r14"), PopInto("r12"), PopInto("rbx"), Ret>>

Epilogue ==
  <<Shrink(CallArea), PopInto("r14"), PopInto("r13"), PopInto("r12"), PopInto("rbx"), Ret>>

EmitTerminator(t) ==
  CASE t.kind = "branch" -> <<Jump(t.trueTarget)>>
    [] t.kind = "branchIfFalse" ->
         <<Spilled("rax", t.value), Test("rax"),
           JumpIf("equal", t.falseTarget), Jump(t.trueTarget)>>
    [] t.kind = "returnValue" -> <<Spilled("rax", t.value)>> \o Epilogue
    [] t.kind = "returnVoid"  -> <<Immediate("rax", 0)>> \o Epilogue

EmitBlock(p, fn, b) ==
  IF b = 1 THEN <<Bind(1), Jump(2)>>
  ELSE LET block == fn.blocks[b]
       IN <<Bind(b)>>
            \o FlattenSeq([n \in DOMAIN block.instructions |->
                             EmitInstruction(p, fn, block.instructions[n])])
            \o EmitTerminator(block.terminator)

InvalidI64Division == 1   \* NativeFrameError

Compile(p, fn) ==
  Prologue
    \o FlattenSeq([b \in DOMAIN fn.blocks |-> EmitBlock(p, fn, b)])
    \o <<Bind(DivisionFailure(fn)), Immediate("rax", InvalidI64Division),
         StoreField("errorCode", "rax"), Immediate("rax", 0)>> \o Epilogue
    \o <<Bind(CallFailure(fn)), Immediate("rax", 0)>> \o Epilogue
=============================================================================
