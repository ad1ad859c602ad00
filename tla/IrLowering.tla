----------------------------- MODULE IrLowering -----------------------------
(***************************************************************************)
(* Lowerer::lower: the reachable bytecode of a verified user function is   *)
(* cut into blocks, and in each block the operand stack is executed        *)
(* symbolically.  Nothing may be on it where blocks meet.                  *)
(* Instructions carry, beside their op and arg, the word of a constant and *)
(* the operator of an arithmetic instruction or a comparison.              *)
(***************************************************************************)
EXTENDS Ir

SourceTargets(f, pc) == ToSet(Successors(f, pc))

ReachablePcs(f) ==
  LET within[n \in 0 .. Len(f.code)] ==
        IF n = 0 THEN {1}
        ELSE LET before == within[n - 1]
             IN before \cup UNION {SourceTargets(f, pc) : pc \in before}
  IN within[Len(f.code)]

EndsBlock(i) == i.op \in {"jump", "jumpIfFalse"} \/ Returns(i)

\* Seeded fault: the instruction after a conditional jump starts no block.
LeadersAtTargetsOnly(f) ==
  LET reachable == ReachablePcs(f)
  IN {1} \cup {f.code[pc].arg : pc \in {q \in reachable : f.code[q].op \in {"jump", "jumpIfFalse"}}}
         \cup {pc \in reachable : pc > 1 /\ f.code[pc - 1].op = "jump"}

Leaders(f) ==
  LET reachable == ReachablePcs(f)
  IN {1} \cup {f.code[pc].arg : pc \in {q \in reachable : f.code[q].op \in {"jump", "jumpIfFalse"}}}
         \cup {pc \in reachable : pc - 1 \in reachable /\ EndsBlock(f.code[pc - 1])}

\* Block 1 is the preheader, so that a jump to the first instruction does not
\* store the parameters again.
BlockAt(f, pc) == 1 + Cardinality({leader \in Leaders(f) : leader <= pc})

-----------------------------------------------------------------------------
(* s: what has been lowered of one block.                                  *)

\* Seeded fault: the operands of a binary operation are taken in the order in
\* which they are popped.
OperandsPopped(s, n) == Reverse(SubSeq(s.stack, Len(s.stack) - n + 1, Len(s.stack)))

OperandsOf(s, n) == SubSeq(s.stack, Len(s.stack) - n + 1, Len(s.stack))

Emit(s, instruction, n) ==
  [s EXCEPT !.instructions = Append(@, instruction), !.stack = Drop(@, n)]

\* An instruction with a result makes the next value and pushes it.
Produce(s, type, instruction, n) ==
  [s EXCEPT !.instructions = Append(@, instruction),
            !.valueTypes = Append(@, type),
            !.stack = Append(Drop(@, n), Len(s.valueTypes) + 1)]

LowerCall(p, s, callee) ==
  LET target == p[callee]
      n == Params(target)
      arguments == OperandsOf(s, n)
      v == Len(s.valueTypes) + 1
  IN IF [k \in 1 .. n |-> s.valueTypes[arguments[k]]] # target.parameterTypes
     THEN [s EXCEPT !.failure = "internalInvariant"]
     ELSE IF target.returnType = "void"
     THEN Emit(s, CallTo(NoValue, "void", callee, arguments), n)
     ELSE Produce(s, target.returnType, CallTo(v, target.returnType, callee, arguments), n)

\* A jump with operands left on the stack is outside the native subset.
Close(s, terminator, n) ==
  IF Len(s.stack) # n THEN [s EXCEPT !.failure = "unsupported"]
  ELSE [s EXCEPT !.terminator = terminator, !.stack = <<>>]

CloseReturning(s, terminator, n) ==
  IF Len(s.stack) # n THEN [s EXCEPT !.failure = "internalInvariant"]
  ELSE [s EXCEPT !.terminator = terminator, !.stack = <<>>]

LowerInstruction(p, f, s, pc) ==
  LET i == f.code[pc]
      v == Len(s.valueTypes) + 1
      top == Last(s.stack)
      operands == OperandsOf(s, 2)
  IN IF s.failure # "none" THEN s
     ELSE IF s.terminator.kind # "invalid" \/ Len(s.stack) < Arity(p, f, i)
     THEN [s EXCEPT !.failure = "internalInvariant"]
     ELSE CASE i.op = "constant" -> Produce(s, i.arg, Constant(v, i.arg, i.word), 0)
            [] i.op = "load" ->
                 LET type == f.localTypes[i.arg] IN Produce(s, type, LoadLocal(v, type, i.arg), 0)
            [] i.op = "store" -> Emit(s, StoreLocal(i.arg, f.localTypes[i.arg], top), 1)
            [] i.op = "pop" -> [s EXCEPT !.stack = Front(@)]
            [] i.op = "unary" -> Produce(s, i.arg, Negate(v, i.arg, top), 1)
            [] i.op = "binary" ->
                 Produce(s, i.arg,
                         Binary("arithmetic", v, i.arg, i.operator, operands[1], operands[2]), 2)
            [] i.op = "compare" ->
                 Produce(s, "boolean",
                         Binary("compare", v, i.arg, i.operator, operands[1], operands[2]), 2)
            [] i.op = "call" -> LowerCall(p, s, i.arg)
            [] i.op = "jump" -> Close(s, Branch(BlockAt(f, i.arg)), 0)
            [] i.op = "jumpIfFalse" ->
                 IF s.valueTypes[top] # "boolean" \/ s.id > Cardinality(Leaders(f))
                 THEN [s EXCEPT !.failure = "internalInvariant"]
                 ELSE Close(s, BranchIfFalse(top, BlockAt(f, i.arg), s.id + 1), 1)
            [] i.op = "returnValue" ->
                 CloseReturning(s, Terminator("returnValue", top, NoBlock, NoBlock), 1)
            [] i.op = "returnVoid" ->
                 CloseReturning(s, Terminator("returnVoid", NoValue, NoBlock, NoBlock), 0)
            [] OTHER -> [s EXCEPT !.failure = "unsupported"]

Preheader(f) ==
  LET n == Params(f)
  IN Block(1,
           [k \in 1 .. n |-> Parameter(k, f.parameterTypes[k], k)]
             \o [k \in 1 .. n |-> StoreLocal(k, f.parameterTypes[k], k)],
           Branch(2))

\* One more block, that starts at leader; fn is the function so far.
LowerBlock(p, f, fn, leader) ==
  LET id == BlockAt(f, leader)
      pcs == InOrder({pc \in ReachablePcs(f) : BlockAt(f, pc) = id}, Len(f.code))
      start == [id |-> id, instructions |-> <<>>, stack |-> <<>>, valueTypes |-> fn.valueTypes,
                terminator |-> Terminator("invalid", NoValue, NoBlock, NoBlock), failure |-> "none"]
      body == FoldLeft(LAMBDA s, pc : LowerInstruction(p, f, s, pc), start, pcs)
      s == IF body.failure # "none" \/ body.terminator.kind # "invalid" THEN body
           ELSE IF pcs = <<>> \/ id > Cardinality(Leaders(f))
           THEN [body EXCEPT !.failure = "internalInvariant"]
           ELSE Close(body, Branch(id + 1), 0)
  IN IF fn.failure # "none" THEN fn
     ELSE [fn EXCEPT !.blocks = Append(@, Block(id, s.instructions, s.terminator)),
                     !.valueTypes = s.valueTypes,
                     !.failure = s.failure]

Unverified(f) ==
  [parameterTypes |-> f.parameterTypes, returnType |-> f.returnType, localTypes |-> f.localTypes,
   valueTypes |-> f.parameterTypes, blocks |-> <<Preheader(f)>>, failure |-> "none"]

Lower(p, f) ==
  FoldLeft(LAMBDA fn, leader : LowerBlock(p, f, fn, leader),
           Unverified(f),
           InOrder(Leaders(f), Len(f.code)))
=============================================================================
