--------------------------------- MODULE Ssa ---------------------------------
(***************************************************************************)
(* The SSA form and the checks of ssa::Verifier that look at one place at  *)
(* a time.  An instruction has an operation, a type, a result and the      *)
(* values it uses; "canonical" says that the fields its operation does not *)
(* use have their defaults.  Blocks and values are numbered from 1, the    *)
(* parameters of a block stand at position 0 and its instructions at 1, 2, *)
(* and so on.  A check yields the set of what it reports.                  *)
(***************************************************************************)
EXTENDS Integers, FiniteSets, SequencesExt

CONSTANT MaxId   \* the greatest number that a block, a value or a parameter can have

ASSUME MaxIdAssumption == MaxId \in Nat

NoValue == 0
NoBlock == 0
NoFunction == "noFunction"

ValueTypes == {"i64", "f64", "boolean"}
SsaTypes == ValueTypes \cup {"void"}

CallOps == {"callI64", "callValue", "callVoid"}
Opcodes == CallOps \cup {"parameter", "constant", "negate", "arithmetic", "compare", "invalid"}

Ins(op, type, result, uses) ==
  [op |-> op, type |-> type, result |-> result, uses |-> uses, index |-> 0,
   callee |-> NoFunction, calleeKind |-> "user", canonical |-> TRUE]
ParameterIns(result, type, index) == [Ins("parameter", type, result, <<>>) EXCEPT !.index = index]
CallIns(op, type, result, callee, kind, arguments) ==
  [Ins(op, type, result, arguments) EXCEPT !.callee = callee, !.calleeKind = kind]

EdgeTo(target, arguments) == [target |-> target, arguments |-> arguments]
NoEdge == EdgeTo(NoBlock, <<>>)

Ending(kind, condition, value, falseEdge, trueEdge) ==
  [kind |-> kind, condition |-> condition, value |-> value,
   falseEdge |-> falseEdge, trueEdge |-> trueEdge]
Branch(edge) == Ending("branch", NoValue, NoValue, NoEdge, edge)
BranchIfFalse(condition, falseEdge, trueEdge) ==
  Ending("branchIfFalse", condition, NoValue, falseEdge, trueEdge)
ReturnValue(value) == Ending("returnValue", NoValue, value, NoEdge, NoEdge)
NoEnding == Ending("invalid", NoValue, NoValue, NoEdge, NoEdge)
ReturnVoid == Ending("returnVoid", NoValue, NoValue, NoEdge, NoEdge)

Report(condition, what) == IF condition THEN {what} ELSE {}

Blocks(fn) == DOMAIN fn.blocks
ValidValue(fn, v) == v \in DOMAIN fn.valueTypes
ValidBlock(fn, b) == b \in Blocks(fn)

-----------------------------------------------------------------------------
(* The tables and the signature.                                           *)

ValidSignature(signature) ==
  signature.returnType \in SsaTypes /\ ToSet(signature.parameterTypes) \subseteq ValueTypes

SelfTarget(fn, target) ==
  target.kind = "user" /\ target.returnType = fn.returnType
  /\ target.parameterTypes = fn.parameterTypes

TargetReports(fn, targets) ==
  UNION {Report(targets[k].id = NoFunction, "noFunction target")
         \cup Report(targets[k].kind \notin {"user", "host"}, "kind of target")
         \cup Report(~ValidSignature(targets[k]), "signature of target")
         \cup Report(targets[k].id = fn.id /\ ~SelfTarget(fn, targets[k]), "self target")
         \cup Report(\E j \in 1 .. k - 1 : targets[j].id = targets[k].id, "duplicate target")
         : k \in DOMAIN targets}

SignatureReports(fn) ==
  Report(fn.id = NoFunction, "function id")
  \cup Report(~ValidSignature(fn) \/ fn.blocks = <<>>, "signature or no entry")
  \cup Report(\E count \in {Len(fn.blocks), Len(fn.valueTypes), Len(fn.parameterTypes)} :
                count > MaxId, "range")
  \cup Report(~(ToSet(fn.valueTypes) \subseteq ValueTypes), "value type")

LayoutReports(fn) ==
  Report(\E b \in Blocks(fn) : fn.blocks[b].id # b, "block ids")
  \cup Report(fn.blocks[1].parameters # <<>>, "entry parameters")

-----------------------------------------------------------------------------
(* Definitions.                                                            *)

\* parameterCount when instruction k of block b is looked at.
ParametersBefore(fn, b, k) ==
  Cardinality(UNION {{<<c, j>> : j \in {n \in DOMAIN fn.blocks[c].instructions :
                                         /\ fn.blocks[c].instructions[n].op = "parameter"
                                         /\ (c < b \/ n < k)}} : c \in 1 .. b})

ParameterCount(fn) == ParametersBefore(fn, Len(fn.blocks), Len(Last(fn.blocks).instructions) + 1)

\* The type an instruction gives its result, whatever the table says.
DefinedType(fn, b, k) ==
  LET i == fn.blocks[b].instructions[k]
      number == ParametersBefore(fn, b, k) + 1
  IN CASE i.op = "parameter" -> IF number \in DOMAIN fn.parameterTypes
                                THEN fn.parameterTypes[number] ELSE "i64"
       [] i.op = "compare"   -> "boolean"
       [] i.op = "callI64"   -> "i64"
       [] i.op = "callValue" -> fn.valueTypes[i.result]
       [] OTHER              -> i.type

Defines(fn, i) ==
  /\ i.op \notin {"callVoid", "invalid"}
  /\ i.op = "callValue" => ValidValue(fn, i.result)

Site(value, type, block, position) ==
  [value |-> value, type |-> type, block |-> block, position |-> position]

\* The places that define a value, parameter n of a block and its instruction k,
\* and the order in which they are looked at.
ParameterPlaces(fn, b) == {<<b, 0, n>> : n \in DOMAIN fn.blocks[b].parameters}
CodePlaces(fn, b) ==
  LET code == fn.blocks[b].instructions
  IN {<<b, k, 0>> : k \in {j \in DOMAIN code : Defines(fn, code[j])}}
Places(fn) == UNION {ParameterPlaces(fn, b) \cup CodePlaces(fn, b) : b \in Blocks(fn)}

Earlier(p, q) ==
  \/ p[1] < q[1]
  \/ p[1] = q[1] /\ (p[2] < q[2] \/ (p[2] = q[2] /\ p[3] < q[3]))

SiteAt(fn, p) ==
  LET block == fn.blocks[p[1]]
  IN IF p[2] = 0 THEN Site(block.parameters[p[3]].value, block.parameters[p[3]].type, p[1], 0)
     ELSE Site(block.instructions[p[2]].result, DefinedType(fn, p[1], p[2]), p[1], p[2])

Sites(fn) == {SiteAt(fn, p) : p \in Places(fn)}

NoSite == Site(NoValue, "void", NoBlock, 0)

\* The first definition of every value stays.
DefinitionsIn(fn) ==
  [v \in DOMAIN fn.valueTypes |->
     LET own == {p \in Places(fn) : SiteAt(fn, p).value = v}
     IN IF own = {} THEN NoSite
        ELSE SiteAt(fn, CHOOSE p \in own : \A q \in own : ~Earlier(q, p))]

SiteReports(fn) ==
  UNION {LET s == SiteAt(fn, p)
         IN IF ~ValidValue(fn, s.value) THEN {"invalid value defined"}
            ELSE IF \E q \in Places(fn) : Earlier(q, p) /\ SiteAt(fn, q).value = s.value
            THEN {"value defined twice"}
            ELSE Report(fn.valueTypes[s.value] # s.type, "type of definition")
         : p \in Places(fn)}

\* The parameters stand in order at the start of the entry and nowhere else.
CanonicalParameter(fn, b, k) ==
  LET code == fn.blocks[b].instructions
      number == ParametersBefore(fn, b, k) + 1
  IN /\ b = 1 /\ \A j \in 1 .. k - 1 : code[j].op = "parameter"
     /\ number <= Len(fn.parameterTypes) /\ code[k].index = number
     /\ code[k].canonical

InstructionReports(fn, b, k) ==
  LET i == fn.blocks[b].instructions[k]
  IN CASE i.op = "parameter" -> Report(~CanonicalParameter(fn, b, k), "parameter")
       [] i.op \in CallOps ->
            Report(\/ ~i.canonical \/ i.callee = NoFunction
                   \/ i.calleeKind \notin {"user", "host"}
                   \/ i.op = "callVoid" /\ i.result # NoValue, "call")
            \cup Report(i.op = "callValue" /\ ~ValidValue(fn, i.result), "result of call")
       [] i.op = "invalid" -> {"opcode"}
       [] OTHER -> Report(~i.canonical, "operands")

ValidTerminator(fn, t) ==
  CASE t.kind = "branch" ->
         /\ t.condition = NoValue /\ t.value = NoValue /\ t.falseEdge = NoEdge
         /\ ValidBlock(fn, t.trueEdge.target)
    [] t.kind = "branchIfFalse" ->
         /\ t.condition # NoValue /\ t.value = NoValue
         /\ ValidBlock(fn, t.falseEdge.target) /\ ValidBlock(fn, t.trueEdge.target)
    [] t.kind = "returnValue" ->
         /\ fn.returnType # "void" /\ t.condition = NoValue /\ t.value # NoValue
         /\ t.trueEdge = NoEdge /\ t.falseEdge = NoEdge
    [] t.kind = "returnVoid" ->
         /\ fn.returnType = "void" /\ t.condition = NoValue /\ t.value = NoValue
         /\ t.trueEdge = NoEdge /\ t.falseEdge = NoEdge
    [] OTHER -> FALSE

BodyReports(fn) ==
  UNION {(UNION {InstructionReports(fn, b, k) : k \in DOMAIN fn.blocks[b].instructions})
         \cup Report(~(\A p \in ToSet(fn.blocks[b].parameters) : p.type \in ValueTypes),
                     "block parameter")
         \cup Report(~ValidTerminator(fn, fn.blocks[b].terminator), "terminator")
         : b \in Blocks(fn)}

DefinitionReports(fn) ==
  SiteReports(fn) \cup BodyReports(fn)
  \cup Report(ParameterCount(fn) # Len(fn.parameterTypes), "missing parameter")
  \cup Report(\E v \in DOMAIN fn.valueTypes : DefinitionsIn(fn)[v] = NoSite,
              "undefined value")

-----------------------------------------------------------------------------
(* Edges.                                                                  *)

Edges(t) ==
  CASE t.kind = "branch"        -> <<t.trueEdge>>
    [] t.kind = "branchIfFalse" -> <<t.falseEdge, t.trueEdge>>
    [] OTHER                    -> <<>>

SuccessorsOf(fn, b) ==
  LET edges == Edges(fn.blocks[b].terminator) IN [k \in DOMAIN edges |-> edges[k].target]

Predecessors(fn, b) == {a \in Blocks(fn) : b \in ToSet(SuccessorsOf(fn, a))}

-----------------------------------------------------------------------------
(* Uses.  A use asks for a value of a type at a position of a block.       *)

Use(value, type, block, position) == Site(value, type, block, position)

OperandUses(b, k, i) == {Use(i.uses[n], i.type, b, k) : n \in DOMAIN i.uses}

\* The first entry with that identifier.
TargetOf(targets, id) ==
  targets[CHOOSE k \in DOMAIN targets :
            targets[k].id = id /\ \A j \in 1 .. k - 1 : targets[j].id # id]

CallUses(targets, b, k, i) ==
  IF \A n \in DOMAIN targets : targets[n].id # i.callee THEN {}
  ELSE LET types == TargetOf(targets, i.callee).parameterTypes
       IN {Use(i.uses[n], types[n], b, k) :
             n \in 1 .. IF Len(types) < Len(i.uses) THEN Len(types) ELSE Len(i.uses)}

InstructionUses(fn, targets, b, k) ==
  LET i == fn.blocks[b].instructions[k]
  IN CASE i.op \in CallOps -> CallUses(targets, b, k, i)
       [] i.op \in {"negate", "arithmetic", "compare"} -> OperandUses(b, k, i)
       [] OTHER -> {}

\* The arguments of an edge are read at the end of the block that it leaves.
EdgeUses(fn, b, edge) ==
  LET parameters == fn.blocks[edge.target].parameters
      count == IF Len(parameters) < Len(edge.arguments) THEN Len(parameters)
               ELSE Len(edge.arguments)
  IN {Use(edge.arguments[n], parameters[n].type, b, Len(fn.blocks[b].instructions) + 1) :
        n \in 1 .. count}

TerminatorUses(fn, b) ==
  LET t == fn.blocks[b].terminator
      here == Len(fn.blocks[b].instructions) + 1
      own == CASE t.kind = "branchIfFalse" -> {Use(t.condition, "boolean", b, here)}
               [] t.kind = "returnValue"   -> {Use(t.value, fn.returnType, b, here)}
               [] OTHER                    -> {}
  IN own \cup UNION {EdgeUses(fn, b, e) : e \in ToSet(Edges(t))}

UsesIn(fn, targets, b) ==
  (UNION {InstructionUses(fn, targets, b, k) : k \in DOMAIN fn.blocks[b].instructions})
    \cup TerminatorUses(fn, b)

CallReports(fn, targets, i) ==
  IF \A n \in DOMAIN targets : targets[n].id # i.callee THEN {"absent target"}
  ELSE LET target == TargetOf(targets, i.callee)
           types == ToSet(target.parameterTypes)
       IN Report(target.kind # i.calleeKind, "kind of call")
          \cup Report(Len(i.uses) # Len(target.parameterTypes), "argument count")
          \cup (IF i.op = "callVoid" THEN Report(target.returnType # "void", "void call")
                ELSE Report(target.returnType = "void", "call of void")
                     \cup Report(fn.valueTypes[i.result] # target.returnType, "type of call")
                     \cup Report(i.op = "callI64" /\ target.returnType # "i64", "callI64 result")
                     \cup Report(i.op = "callI64" /\ ~(types \subseteq {"i64"}), "callI64 types"))

EdgeReports(fn, edge) ==
  Report(Len(edge.arguments) # Len(fn.blocks[edge.target].parameters), "edge arguments")

ArityReports(fn, targets) ==
  UNION {(UNION {CallReports(fn, targets, i) :
                   i \in {j \in ToSet(fn.blocks[b].instructions) : j.op \in CallOps}})
         \cup (UNION {EdgeReports(fn, e) : e \in ToSet(Edges(fn.blocks[b].terminator))})
         : b \in Blocks(fn)}
=============================================================================
