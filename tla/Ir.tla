--------------------------------- MODULE Ir ---------------------------------
(***************************************************************************)
(* The intermediate representation and its verifier.  An instruction has   *)
(* one kind of operation, the type of its operands, an operator, a result  *)
(* and the values it uses; callI64, callValue and callVoid are one kind.   *)
(* Values, locals and blocks are numbered from 1; the first block is the   *)
(* preheader.  Fields that an instruction does not use have a fixed value, *)
(* so that the checks of canonical encodings have nothing to find.         *)
(***************************************************************************)
EXTENDS Bytecode, Words, SequencesExt

NoValue == 0
NoBlock == 0

IrInstruction(op, type, result, uses) ==
  [op |-> op, type |-> type, operator |-> "none", result |-> result, uses |-> uses,
   local |-> 0, word |-> 0, callee |-> "none"]

Parameter(v, type, local) == [IrInstruction("parameter", type, v, <<>>) EXCEPT !.local = local]
Constant(v, type, word) == [IrInstruction("constant", type, v, <<>>) EXCEPT !.word = word]
LoadLocal(v, type, local) == [IrInstruction("load", type, v, <<>>) EXCEPT !.local = local]
StoreLocal(local, type, v) ==
  [IrInstruction("store", type, NoValue, <<v>>) EXCEPT !.local = local]
Negate(v, type, input) == IrInstruction("negate", type, v, <<input>>)
Binary(op, v, type, operator, left, right) ==
  [IrInstruction(op, type, v, <<left, right>>) EXCEPT !.operator = operator]
CallTo(v, type, callee, arguments) ==
  [IrInstruction("call", type, v, arguments) EXCEPT !.callee = callee]

Terminator(kind, value, falseTarget, trueTarget) ==
  [kind |-> kind, value |-> value, falseTarget |-> falseTarget, trueTarget |-> trueTarget]

Branch(target) == Terminator("branch", NoValue, NoBlock, target)
BranchIfFalse(condition, falseTarget, trueTarget) ==
  Terminator("branchIfFalse", condition, falseTarget, trueTarget)

Block(id, instructions, terminator) ==
  [id |-> id, instructions |-> instructions, terminator |-> terminator]

\* The members of S, a set of numbers up to n, in order.
InOrder(S, n) ==
  LET upTo[k \in 0 .. n] ==
        IF k = 0 THEN <<>>
        ELSE IF k \in S THEN Append(upTo[k - 1], k) ELSE upTo[k - 1]
  IN upTo[n]

\* All instructions in layout order, and the values they define.
Instructions(fn) == FlattenSeq([b \in DOMAIN fn.blocks |-> fn.blocks[b].instructions])

Definitions(fn) ==
  LET code == Instructions(fn)
      defining == InOrder({k \in DOMAIN code : code[k].result # NoValue}, Len(code))
  IN [k \in DOMAIN defining |-> code[defining[k]].result]

Targets(t) ==
  CASE t.kind = "branch"        -> {t.trueTarget}
    [] t.kind = "branchIfFalse" -> {t.falseTarget, t.trueTarget}
    [] OTHER                    -> {}

\* The blocks entered on the paths from the preheader that pass only blocks of
\* the set open before.
Entered(blocks, open) ==
  LET within[n \in 0 .. Len(blocks)] ==
        IF n = 0 THEN {1}
        ELSE LET before == within[n - 1]
             IN before \cup UNION {Targets(blocks[b].terminator) : b \in before \cap open}
  IN within[Len(blocks)]

ReachableBlocks(blocks) == Entered(blocks, DOMAIN blocks)

-----------------------------------------------------------------------------
(* Verifier::verify: the layout, then the blocks in four phases.           *)

LayoutIsValid(fn) ==
  /\ fn.blocks # <<>>
  /\ fn.returnType \in ReturnTypes
  /\ ToSet(fn.parameterTypes) \cup ToSet(fn.localTypes) \cup ToSet(fn.valueTypes) \subseteq Types
  /\ IsPrefix(fn.parameterTypes, fn.localTypes)
  /\ \A b \in DOMAIN fn.blocks : fn.blocks[b].id = b

\* The parameters are defined in order at the start of the preheader, and
\* nowhere else.
ParametersAreCanonical(fn) ==
  /\ Params(fn) <= Len(fn.blocks[1].instructions)
  /\ \A b \in DOMAIN fn.blocks : \A n \in DOMAIN fn.blocks[b].instructions :
       LET i == fn.blocks[b].instructions[n]
       IN /\ i.op = "parameter" <=> b = 1 /\ n <= Params(fn)
          /\ i.op = "parameter" => i.local = n

ResultType(p, fn, i) ==
  CASE i.op = "parameter" -> fn.parameterTypes[i.local]
    [] i.op = "load"      -> fn.localTypes[i.local]
    [] i.op = "compare"   -> "boolean"
    [] i.op = "store"     -> "void"
    [] i.op = "call"      -> p[i.callee].returnType
    [] OTHER              -> i.type

OperandTypes(p, fn, i) ==
  CASE i.op = "store"                     -> <<fn.localTypes[i.local]>>
    [] i.op = "negate"                    -> <<i.type>>
    [] i.op \in {"arithmetic", "compare"} -> <<i.type, i.type>>
    [] i.op = "call"                      -> p[i.callee].parameterTypes
    [] OTHER                              -> <<>>

CallsAreKnown(p, fn) ==
  \A i \in ToSet(Instructions(fn)) : i.op = "call" => i.callee \in DOMAIN p

Operations ==
  {"parameter", "constant", "load", "store", "negate", "arithmetic", "compare", "call"}

\* What is known of the fields of an instruction: a local exists, and a boolean is 0 or 1.
IsCanonical(fn, i) ==
  /\ i.op \in Operations
  /\ i.op \in {"load", "store"} => i.local \in DOMAIN fn.localTypes
  /\ i.op = "constant" /\ i.type = "boolean" => i.word \in {0, 1}

InstructionsAreCanonical(fn) == \A i \in ToSet(Instructions(fn)) : IsCanonical(fn, i)

\* Every value is defined once, in layout order and without gaps, with its type.
DefinitionsAreDense(p, fn) ==
  /\ Definitions(fn) = [v \in 1 .. Len(fn.valueTypes) |-> v]
  /\ \A i \in ToSet(Instructions(fn)) :
       IF i.result = NoValue
       THEN ResultType(p, fn, i) = "void"
       ELSE fn.valueTypes[i.result] = ResultType(p, fn, i)

TerminatorsAreValid(fn) ==
  \A b \in DOMAIN fn.blocks :
    LET t == fn.blocks[b].terminator
    IN CASE t.kind \in {"branch", "branchIfFalse"} -> Targets(t) \subseteq DOMAIN fn.blocks
         [] t.kind = "returnValue" -> fn.returnType # "void"
         [] t.kind = "returnVoid"  -> fn.returnType = "void"
         [] OTHER                  -> FALSE

GraphIsCompact(fn) ==
  /\ \A b \in DOMAIN fn.blocks : 1 \notin Targets(fn.blocks[b].terminator)
  /\ ReachableBlocks(fn.blocks) = DOMAIN fn.blocks

\* Values do not live across blocks: what does must be stored in a local.
UsesAreLocal(p, fn) ==
  \A b \in DOMAIN fn.blocks :
    LET code == fn.blocks[b].instructions
        t == fn.blocks[b].terminator
        Defined(v, type, n) ==
          \E m \in 1 .. n - 1 : code[m].result = v /\ v # NoValue /\ fn.valueTypes[v] = type
    IN /\ \A n \in DOMAIN code :
            LET types == OperandTypes(p, fn, code[n])
            IN /\ Len(code[n].uses) = Len(types)
               /\ \A k \in DOMAIN types : Defined(code[n].uses[k], types[k], n)
       /\ t.kind = "branchIfFalse" => Defined(t.value, "boolean", Len(code) + 1)
       /\ t.kind = "returnValue" => Defined(t.value, fn.returnType, Len(code) + 1)

\* The must-analysis, by its complement: no path brings a local to a load of it
\* without a store.
LoadsAreInitialized(fn) ==
  \A local \in DOMAIN fn.localTypes :
    LET Stored(b, n) ==
          \E m \in 1 .. n - 1 :
            LET i == fn.blocks[b].instructions[m] IN i.op = "store" /\ i.local = local
        size(b) == Len(fn.blocks[b].instructions)
        unset == Entered(fn.blocks, {b \in DOMAIN fn.blocks : ~Stored(b, size(b) + 1)})
    IN \A b \in unset : \A n \in 1 .. size(b) :
         LET i == fn.blocks[b].instructions[n]
         IN i.op = "load" /\ i.local = local => Stored(b, n)

Verified(p, fn) ==
  /\ LayoutIsValid(fn)
  /\ CallsAreKnown(p, fn)
  /\ ParametersAreCanonical(fn)
  /\ InstructionsAreCanonical(fn)
  /\ DefinitionsAreDense(p, fn)
  /\ TerminatorsAreValid(fn)
  /\ GraphIsCompact(fn)
  /\ UsesAreLocal(p, fn)
  /\ LoadsAreInitialized(fn)
=============================================================================
