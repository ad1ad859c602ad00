------------------------------- MODULE MCSsa -------------------------------
(***************************************************************************)
(* Functions for SsaMachine: every graph of a few blocks with a definition *)
(* and a use in every place, and one correct function with a loop, calls   *)
(* and block parameters, wrong in every single place.                      *)
(***************************************************************************)
EXTENDS SsaMachine

BlockOf(id, parameters, instructions, terminator) ==
  [id |-> id, parameters |-> parameters, instructions |-> instructions, terminator |-> terminator]

FunctionOf(returnType, parameterTypes, valueTypes, blocks) ==
  [id |-> "f", returnType |-> returnType, parameterTypes |-> parameterTypes,
   valueTypes |-> valueTypes, blocks |-> blocks]

With(fn, targets) == [fn |-> fn, targets |-> targets]

-----------------------------------------------------------------------------
(* Every graph: value 1 is a condition, value 2 is defined in one block and *)
(* read in one, which may be the same.                                     *)

To(b) == EdgeTo(b, <<>>)

\* Both orders of the targets of a condition are one graph; both may be the last block.
Endings(size) ==
  {ReturnVoid} \cup {Branch(To(b)) : b \in 2 .. size}
    \cup {BranchIfFalse(1, To(e[1]), To(e[2])) :
            e \in {<<size, size>>} \cup {p \in (2 .. size) \X (2 .. size) : p[1] < p[2]}}

\* Every block but the entry has a predecessor; it may still be unreachable.
Graphs(size) ==
  {g \in [1 .. size -> Endings(size)] :
     \A b \in 2 .. size : \E a \in 1 .. size : \E e \in ToSet(Edges(g[a])) : e.target = b}

Defining == Ins("constant", "i64", 2, <<>>)
Reading == Ins("negate", "i64", 3, <<2>>)
Condition == Ins("constant", "boolean", 1, <<>>)

Placed(b, defined, read, early) ==
  (IF b = 1 THEN <<Condition>> ELSE <<>>)
    \o (IF b = read /\ early THEN <<Reading>> ELSE <<>>)
    \o (IF b = defined THEN <<Defining>> ELSE <<>>)
    \o (IF b = read /\ ~early THEN <<Reading>> ELSE <<>>)

GraphFunction(g, defined, read, early) ==
  With(FunctionOf("void", <<>>, <<"boolean", "i64", "i64">>,
                  [b \in DOMAIN g |-> BlockOf(b, <<>>, Placed(b, defined, read, early), g[b])]),
       <<>>)

\* Small graphs with every definition and use, larger ones with a definition
\* in the second block and a use in the last.
GraphFunctions ==
  {GraphFunction(g, d, r, FALSE) : g \in Graphs(3), d, r \in 1 .. 3}
  \cup {GraphFunction(g, d, d, TRUE) : g \in Graphs(3), d \in 1 .. 3}
  \cup {GraphFunction(g, 2, 4, FALSE) : g \in Graphs(4)}

-----------------------------------------------------------------------------
(* A loop: values 1 (a parameter), 2 .. 4 of the loop, 5 and 6 after it.   *)

Parameter1 == [value |-> 2, type |-> "i64"]

Loop ==
  FunctionOf("i64", <<"i64">>, <<"i64", "i64", "i64", "boolean", "i64", "i64">>,
    <<BlockOf(1, <<>>, <<ParameterIns(1, "i64", 1)>>, Branch(EdgeTo(2, <<1>>))),
      BlockOf(2, <<Parameter1>>,
              <<Ins("arithmetic", "i64", 3, <<2, 1>>), Ins("compare", "i64", 4, <<3, 2>>)>>,
              BranchIfFalse(4, EdgeTo(3, <<>>), EdgeTo(2, <<3>>))),
      BlockOf(3, <<>>,
              <<CallIns("callI64", "i64", 5, "f", "user", <<3>>),
                CallIns("callValue", "i64", 6, "clock", "host", <<>>),
                CallIns("callVoid", "void", NoValue, "print", "host", <<6>>)>>,
              ReturnValue(5))>>)

TargetEntry(id, kind, parameterTypes, returnType) ==
  [id |-> id, kind |-> kind, parameterTypes |-> parameterTypes, returnType |-> returnType]

Table ==
  <<TargetEntry("f", "user", <<"i64">>, "i64"), TargetEntry("clock", "host", <<>>, "i64"),
    TargetEntry("print", "host", <<"i64">>, "void")>>

LoopPlaces == {<<1, 1>>, <<2, 1>>, <<2, 2>>, <<3, 1>>, <<3, 2>>, <<3, 3>>}
Values == 0 .. 7

Changed1(b, k, i) == [Loop EXCEPT !.blocks[b].instructions[k] = i]

InstructionVariants(i) ==
  {[i EXCEPT !.op = o] : o \in Opcodes}
  \cup {[i EXCEPT !.type = t] : t \in ValueTypes}
  \cup {[i EXCEPT !.result = v] : v \in Values}
  \cup {[i EXCEPT !.uses[n] = v] : n \in DOMAIN i.uses, v \in Values}
  \cup {[i EXCEPT !.uses = Append(@, 1)], [i EXCEPT !.canonical = FALSE],
        [i EXCEPT !.index = @ + 1], [i EXCEPT !.calleeKind = "host"]}
  \cup {[i EXCEPT !.callee = c] : c \in {NoFunction, "f", "clock", "print", "absent"}}

\* A variant the code can hold: the constructors give operands to operations.
Wellformed(i) ==
  /\ i.op \in {"parameter", "constant"} => i.uses = <<>>
  /\ i.op = "negate" => Len(i.uses) = 1
  /\ i.op \in {"arithmetic", "compare"} => Len(i.uses) = 2
  /\ i.op \notin CallOps => i.callee = NoFunction /\ i.calleeKind = "user"
  /\ i.op \in {"constant", "negate", "arithmetic", "compare"} => i.type \in ValueTypes
  /\ i.op \in {"negate", "arithmetic"} => i.type # "boolean"

InstructionFunctions ==
  UNION {{Changed1(p[1], p[2], i) :
            i \in {j \in InstructionVariants(Loop.blocks[p[1]].instructions[p[2]]) : Wellformed(j)}}
         : p \in LoopPlaces}

TerminatorFunctions ==
  {[Loop EXCEPT !.blocks[b].terminator = t] :
     b \in 1 .. 3,
     t \in {ReturnVoid, Branch(EdgeTo(2, <<>>)), Branch(EdgeTo(2, <<1, 1>>)), Branch(EdgeTo(4, <<>>)),
            Branch(EdgeTo(1, <<>>)), Branch(EdgeTo(3, <<>>)), NoEnding}
       \cup {Branch(EdgeTo(2, <<v>>)) : v \in Values}
       \cup {ReturnValue(v) : v \in Values}
       \cup {BranchIfFalse(v, EdgeTo(3, <<>>), EdgeTo(2, <<3>>)) : v \in Values}
       \cup {BranchIfFalse(4, EdgeTo(3, <<>>), EdgeTo(2, <<v>>)) : v \in Values}}

LayoutFunctions ==
  {[Loop EXCEPT !.id = NoFunction], [Loop EXCEPT !.blocks = <<>>],
   [Loop EXCEPT !.blocks[2].id = 3], [Loop EXCEPT !.blocks[1].parameters = <<Parameter1>>],
   [Loop EXCEPT !.blocks[2].parameters = <<Parameter1, Parameter1>>],
   [Loop EXCEPT !.blocks[2].parameters[1].type = "f64"],
   [Loop EXCEPT !.valueTypes[2] = "void"], [Loop EXCEPT !.valueTypes[6] = "f64"],
   [Loop EXCEPT !.valueTypes = Append(@, "i64")],
   [Loop EXCEPT !.valueTypes = @ \o <<"i64", "i64">>],
   [Loop EXCEPT !.parameterTypes = <<>>], [Loop EXCEPT !.parameterTypes = <<"i64", "i64">>],
   [Loop EXCEPT !.parameterTypes = <<"f64">>], [Loop EXCEPT !.returnType = "void"],
   [Loop EXCEPT !.blocks[1].instructions = Append(@, ParameterIns(3, "i64", 2))]}

Tables ==
  {<<>>, SubSeq(Table, 1, 2), Append(Table, Table[1]),
   [Table EXCEPT ![1].returnType = "f64"], [Table EXCEPT ![1].parameterTypes = <<>>],
   [Table EXCEPT ![1].kind = "host"], [Table EXCEPT ![2].returnType = "void"],
   [Table EXCEPT ![2].returnType = "f64"], [Table EXCEPT ![3].parameterTypes = <<"f64">>],
   [Table EXCEPT ![3].returnType = "i64"], [Table EXCEPT ![2].id = NoFunction],
   [Table EXCEPT ![3].parameterTypes = <<"void">>]}

LoopFunctions ==
  {With(fn, Table) : fn \in {Loop} \cup InstructionFunctions \cup TerminatorFunctions
                              \cup LayoutFunctions}
  \cup {With(Loop, table) : table \in Tables}

MCFunctions == GraphFunctions \cup LoopFunctions
=============================================================================
