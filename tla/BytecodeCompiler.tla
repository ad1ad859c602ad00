-------------------------- MODULE BytecodeCompiler --------------------------
(***************************************************************************)
(* bytecode::Compiler: the typed AST to bytecode.  fc is the               *)
(* FunctionCompiler: the code so far, the slot of each symbol in the order *)
(* of first use, and the types of the slots.                               *)
(***************************************************************************)
EXTENDS SemanticAnalysis

Instruction(op, arg, operator, word) ==
  [op |-> op, arg |-> arg, operator |-> operator, word |-> word]

Generate(fc, op, arg) == [fc EXCEPT !.code = Append(@, Instruction(op, arg, "none", 0))]

Here(fc) == Len(fc.code) + 1
Patch(fc, pc, target) == [fc EXCEPT !.code[pc].arg = target]

WithSlot(fc, symbol, type) ==
  IF symbol \in DOMAIN fc.slots THEN fc
  ELSE [fc EXCEPT !.slots = symbol :> Cardinality(DOMAIN @) + 1 @@ @,
                  !.types = Append(@, type)]

GenerateSlot(fc, op, symbol, type) ==
  LET known == WithSlot(fc, symbol, type) IN Generate(known, op, known.slots[symbol])

BinaryOpcode(operation, type) ==
  Instruction(IF operation \in Relations THEN "compare" ELSE "binary",
              IF operation = "rem" THEN "i64" ELSE type, operation, 0)

RECURSIVE GenerateExpression(_, _)

\* Seeded fault: the right operand is evaluated first.
GenerateBinaryReversed(fc, e) ==
  LET operands == GenerateExpression(GenerateExpression(fc, e.right), e.left)
  IN [operands EXCEPT !.code = Append(@, BinaryOpcode(e.operation, e.left.type))]

GenerateBinary(fc, e) ==
  LET operands == GenerateExpression(GenerateExpression(fc, e.left), e.right)
  IN [operands EXCEPT !.code = Append(@, BinaryOpcode(e.operation, e.left.type))]

GenerateUnary(fc, e) ==
  LET operand == GenerateExpression(fc, e.operand)
  IN IF e.operation = "minus" THEN Generate(operand, "unary", e.type) ELSE operand

GenerateExpression(fc, e) ==
  CASE e.node = "load" -> GenerateSlot(fc, "load", e.symbol, "void")
    [] e.node = "constant" ->
         [fc EXCEPT !.code = Append(@, Instruction("constant", e.type, "none", e.word))]
    [] e.node = "paren" -> GenerateExpression(fc, e.inner)
    [] e.node = "unary" -> GenerateUnary(fc, e)
    [] e.node = "binary" -> GenerateBinary(fc, e)
    [] e.node = "call" -> Generate(FoldLeft(GenerateExpression, fc, e.arguments), "call", e.callee)

-----------------------------------------------------------------------------
RECURSIVE GenerateStatement(_, _)

GenerateBlock(fc, block) == FoldLeft(GenerateStatement, fc, block.statements)

GenerateIf(fc, s) ==
  LET condition == GenerateExpression(fc, s.condition)
      then == GenerateBlock(Generate(condition, "jumpIfFalse", 0), s.then)
      jumped == Generate(then, "jump", 0)
      else == Patch(jumped, Here(condition), Here(jumped))
      whole == IF s.else = Absent THEN else ELSE GenerateStatement(else, s.else)
  IN Patch(whole, Here(then), Here(whole))

\* Seeded fault: the loop goes back past its condition.
GenerateWhileOnce(fc, s) ==
  LET condition == GenerateExpression(fc, s.condition)
      body == GenerateBlock(Generate(condition, "jumpIfFalse", 0), s.body)
      whole == Generate(body, "jump", Here(condition) + 1)
  IN Patch(whole, Here(condition), Here(whole))

GenerateWhile(fc, s) ==
  LET condition == GenerateExpression(fc, s.condition)
      body == GenerateBlock(Generate(condition, "jumpIfFalse", 0), s.body)
      whole == Generate(body, "jump", Here(fc))
  IN Patch(whole, Here(condition), Here(whole))

GenerateReturn(fc, s) ==
  IF s.value = Absent THEN Generate(fc, "returnVoid", 0)
  ELSE Generate(GenerateExpression(fc, s.value), "returnValue", 0)

GenerateStatement(fc, s) ==
  CASE s.node = "store"  -> GenerateSlot(GenerateExpression(fc, s.value), "store", s.symbol, s.type)
    [] s.node = "return" -> GenerateReturn(fc, s)
    [] s.node = "if"     -> GenerateIf(fc, s)
    [] s.node = "while"  -> GenerateWhile(fc, s)
    [] s.node = "block"  -> GenerateBlock(fc, s)
    [] s.node = "expression" ->
         LET value == GenerateExpression(fc, s.value)
         IN IF s.value.type = "void" THEN value ELSE Generate(value, "pop", 0)

-----------------------------------------------------------------------------
\* The last instruction gives every jump a target.
CompileFunction(f, declaration) ==
  LET Parameter(fc, symbol) == WithSlot(fc, symbol.id, symbol.type)
      entry == FoldLeft(Parameter, [code |-> <<>>, slots |-> <<>>, types |-> <<>>],
                        declaration.parameters)
      body == GenerateBlock(entry, declaration.body)
  IN Generate(body, IF f.returnType = "void" THEN "returnVoid" ELSE "returnValue", 0)

\* A host function has no code.
CompileProgram(typed) ==
  [name \in DOMAIN typed.functions |->
     LET f == typed.functions[name]
         Declares(declaration) == declaration.name = name
         fc == IF f.kind = "host" THEN [code |-> <<>>, slots |-> <<>>, types |-> <<>>]
               ELSE CompileFunction(f, SelectSeq(typed.declarations, Declares)[1])
     IN [kind |-> f.kind, parameterTypes |-> f.parameterTypes, returnType |-> f.returnType,
         localCount |-> Cardinality(DOMAIN fc.slots), localTypes |-> fc.types,
         code |-> fc.code]]
=============================================================================
