------------------------- MODULE SemanticAnalysis -------------------------
(***************************************************************************)
(* SemanticAnalyzer::analyze: names, types and return paths of a parsed    *)
(* program.  A node of the AST is a record; what the analyzer makes of it  *)
(* is the typed node or the code of its one diagnostic, the first.  Names  *)
(* stand for themselves, and the name of a function for its id: ids are    *)
(* given out in order and duplicate names are refused.                     *)
(***************************************************************************)
EXTENDS Words, SequencesExt

CONSTANT Hosts   \* the registry of host functions

Relations == {"equal", "notEqual", "less", "lessEqual", "greater", "greaterEqual"}
Numeric == {"i64", "f64"}
Absent == [node |-> "absent"]

Failed(code) == [node |-> "failed", type |-> "none", code |-> code]
IsFailed(x) == x.node = "failed"
Then(x, Continue(_)) == IF IsFailed(x) THEN x ELSE Continue(x)
Literal(type, word) == [node |-> "constant", type |-> type, word |-> word]

-----------------------------------------------------------------------------
(* Scopes: a stack of maps from names to symbols.                          *)

Scoping(scopes, name) == {k \in DOMAIN scopes : name \in DOMAIN scopes[k]}

\* Seeded fault: the outermost declaration is found first.
LookupOutermost(scopes, name) == scopes[Min(Scoping(scopes, name))][name]

Lookup(scopes, name) == scopes[Max(Scoping(scopes, name))][name]

\* Seeded fault: ids are numbered by scope, so that two scopes share them.
DeclareByDepth(env, name, type) ==
  [env EXCEPT !.scopes[Len(env.scopes)] =
     name :> [id |-> Cardinality(DOMAIN @) + 1, type |-> type] @@ @]

Declare(env, name, type) ==
  [env EXCEPT !.scopes[Len(env.scopes)] = name :> [id |-> env.next, type |-> type] @@ @,
              !.next = @ + 1]

-----------------------------------------------------------------------------
(* Expressions.  env.functions and env.scopes are what they are read in.   *)

RECURSIVE AnalyzeExpression(_, _)

CheckBinaryOperator(operation, left, right) ==
  LET operands == CASE operation \in {"equal", "notEqual"} -> Numeric \cup {"boolean"}
                    [] operation = "rem"                   -> {"i64"}
                    [] OTHER                               -> Numeric
  IN IF left # right \/ left \notin operands THEN "none"
     ELSE IF operation \in Relations THEN "boolean" ELSE left

ParseIntegerLiteral(magnitude) ==
  IF magnitude < Half THEN Literal("i64", magnitude) ELSE Failed("E3011")

IsMinimumI64(e) ==
  e.operation = "minus" /\ e.operand.node = "integer" /\ e.operand.magnitude = Half

AnalyzeUnary(env, e) ==
  IF IsMinimumI64(e) THEN Literal("i64", -Half)
  ELSE Then(AnalyzeExpression(env, e.operand), LAMBDA operand :
         IF operand.type \notin Numeric THEN Failed("E3008")
         ELSE [node |-> "unary", type |-> operand.type, operation |-> e.operation,
               operand |-> operand])

TypedBinary(operation, type, left, right) ==
  IF type = "none" THEN Failed("E3008")
  ELSE [node |-> "binary", type |-> type, operation |-> operation, left |-> left, right |-> right]

AnalyzeBinary(env, e) ==
  Then(AnalyzeExpression(env, e.left), LAMBDA left :
    Then(AnalyzeExpression(env, e.right), LAMBDA right :
      TypedBinary(e.operation, CheckBinaryOperator(e.operation, left.type, right.type),
                  left, right)))

\* The first argument that fails or does not fit decides.
TypedCall(name, signature, given) ==
  LET bad == {k \in DOMAIN given : given[k].type # signature.parameterTypes[k]}
  IN IF Len(given) # Len(signature.parameterTypes) THEN Failed("E3010")
     ELSE IF bad = {} THEN [node |-> "call", type |-> signature.returnType,
                            callee |-> name, arguments |-> given]
     ELSE Then(given[Min(bad)], LAMBDA misfit : Failed("E3010"))

AnalyzeCall(env, e) ==
  IF e.callee.node # "name" THEN Failed("E3009")
  ELSE IF e.callee.name \notin DOMAIN env.functions THEN Failed("E3010")
  ELSE TypedCall(e.callee.name, env.functions[e.callee.name],
                 [k \in DOMAIN e.arguments |-> AnalyzeExpression(env, e.arguments[k])])

TypedName(symbol) == [node |-> "load", type |-> symbol.type, symbol |-> symbol.id]

AnalyzeExpression(env, e) ==
  CASE e.node = "name" ->
         IF Scoping(env.scopes, e.name) = {} THEN Failed("E3004")
         ELSE TypedName(Lookup(env.scopes, e.name))
    [] e.node = "integer" -> ParseIntegerLiteral(e.magnitude)
    [] e.node = "float" -> IF e.word \in Words THEN Literal("f64", e.word) ELSE Failed("E3011")
    [] e.node = "bool" -> Literal("boolean", e.word)
    [] e.node = "paren" ->
         Then(AnalyzeExpression(env, e.inner), LAMBDA inner :
           [node |-> "paren", type |-> inner.type, inner |-> inner])
    [] e.node = "unary" -> AnalyzeUnary(env, e)
    [] e.node = "binary" -> AnalyzeBinary(env, e)
    [] e.node = "call" -> AnalyzeCall(env, e)

-----------------------------------------------------------------------------
(* Statements: the typed statement, and the scopes it leaves behind.       *)

RECURSIVE AnalyzeStatement(_, _)

In(env, typed) == [env |-> env, typed |-> typed]
ThenIn(done, Continue(_)) == IF IsFailed(done.typed) THEN done ELSE Continue(done)

AnalyzeContents(env, statements) ==
  LET Analyzed(block, s) ==
        ThenIn(block, LAMBDA before : ThenIn(AnalyzeStatement(before.env, s), LAMBDA next :
          In(next.env, [before.typed EXCEPT !.statements = Append(@, next.typed)])))
  IN FoldLeft(Analyzed, In(env, [node |-> "block", statements |-> <<>>]), statements)

\* A nested block has a scope of its own; the ids go on.
Leave(contents, scopes) == [contents EXCEPT !.env.scopes = scopes]

AnalyzeNested(env, statements) ==
  Leave(AnalyzeContents([env EXCEPT !.scopes = Append(@, <<>>)], statements), env.scopes)

Store(symbol, value) ==
  [node |-> "store", symbol |-> symbol.id, type |-> symbol.type, value |-> value]

Declaring(env, name, value) == In(env, Store(Lookup(env.scopes, name), value))

\* The initializer does not see the name that is declared.
AnalyzeLet(env, s) ==
  LET Initialized(value) ==
        IF value.type # s.type THEN In(env, Failed("E3005"))
        ELSE IF s.name \in DOMAIN Last(env.scopes) THEN In(env, Failed("E3003"))
        ELSE Declaring(Declare(env, s.name, s.type), s.name, value)
  IN IF s.type = "void" THEN In(env, Failed("E3002"))
     ELSE ThenIn(In(env, AnalyzeExpression(env, s.value)), LAMBDA next : Initialized(next.typed))

AnalyzeAssignment(env, s) ==
  IF Scoping(env.scopes, s.name) = {} THEN Failed("E3004")
  ELSE Then(AnalyzeExpression(env, s.value), LAMBDA value :
         IF value.type # Lookup(env.scopes, s.name).type THEN Failed("E3005")
         ELSE Store(Lookup(env.scopes, s.name), value))

AnalyzeReturn(env, s) ==
  IF s.value = Absent THEN IF env.returnType = "void" THEN s ELSE Failed("E3006")
  ELSE Then(AnalyzeExpression(env, s.value), LAMBDA value :
         IF env.returnType = "void" \/ value.type # env.returnType THEN Failed("E3006")
         ELSE [s EXCEPT !.value = value])

AnalyzeCondition(env, e) ==
  Then(AnalyzeExpression(env, e), LAMBDA condition :
    IF condition.type # "boolean" THEN Failed("E3007") ELSE condition)

AnalyzeElse(env, else) == IF else = Absent THEN In(env, Absent) ELSE AnalyzeStatement(env, else)

AnalyzeIf(env, s) ==
  ThenIn(In(env, AnalyzeCondition(env, s.condition)), LAMBDA condition :
    ThenIn(AnalyzeNested(env, s.then), LAMBDA then :
      ThenIn(AnalyzeElse(then.env, s.else), LAMBDA else :
        In(else.env, [s EXCEPT !.condition = condition.typed, !.then = then.typed,
                               !.else = else.typed]))))

AnalyzeWhile(env, s) ==
  ThenIn(In(env, AnalyzeCondition(env, s.condition)), LAMBDA condition :
    ThenIn(AnalyzeNested(env, s.body), LAMBDA body :
      In(body.env, [s EXCEPT !.condition = condition.typed, !.body = body.typed])))

AnalyzeStatement(env, s) ==
  CASE s.node = "let"    -> AnalyzeLet(env, s)
    [] s.node = "assign" -> In(env, AnalyzeAssignment(env, s))
    [] s.node = "return" -> In(env, AnalyzeReturn(env, s))
    [] s.node = "if"     -> AnalyzeIf(env, s)
    [] s.node = "while"  -> AnalyzeWhile(env, s)
    [] s.node = "block"  -> AnalyzeNested(env, s.statements)
    [] s.node = "expression" ->
         In(env, Then(AnalyzeExpression(env, s.value), LAMBDA value : [s EXCEPT !.value = value]))

-----------------------------------------------------------------------------
(* Return paths: a loop is never taken for one that returns.               *)

RECURSIVE AlwaysReturns(_)

\* Seeded fault: one branch that returns is enough.
AlwaysReturnsSomewhere(s) ==
  CASE s.node = "return" -> TRUE
    [] s.node = "if"     -> AlwaysReturns(s.then) \/ AlwaysReturns(s.else)
    [] s.node = "block"  -> \E k \in DOMAIN s.statements : AlwaysReturns(s.statements[k])
    [] OTHER             -> FALSE

AlwaysReturns(s) ==
  CASE s.node = "return" -> TRUE
    [] s.node = "if"     -> s.else # Absent /\ AlwaysReturns(s.then) /\ AlwaysReturns(s.else)
    [] s.node = "block"  -> \E k \in DOMAIN s.statements : AlwaysReturns(s.statements[k])
    [] OTHER             -> FALSE

-----------------------------------------------------------------------------
(* Functions.  All of them are known before the first body is analyzed.    *)

Register(known, f) ==
  IF IsFailed(known) THEN known
  ELSE IF \E k \in DOMAIN f.parameters : f.parameters[k].type = "void" THEN Failed("E3002")
  ELSE IF f.name \in DOMAIN known.functions THEN Failed("E3001")
  ELSE [known EXCEPT !.functions =
          f.name :> [kind |-> f.kind, returnType |-> f.returnType,
                     parameterTypes |-> [k \in DOMAIN f.parameters |-> f.parameters[k].type]]
          @@ @]

\* Parameters and body share one scope.
DeclareParameters(env, parameters) ==
  LET Declared(before, parameter) == Declare(before, parameter.name, parameter.type)
  IN FoldLeft(Declared, env, parameters)

AnalyzeBody(env, f) ==
  IF Cardinality(DOMAIN env.scopes[1]) < Len(f.parameters) THEN In(env, Failed("E3003"))
  ELSE ThenIn(AnalyzeContents(env, f.body), LAMBDA body :
         IF f.returnType # "void" /\ ~AlwaysReturns(body.typed) THEN In(env, Failed("E3012"))
         ELSE In(body.env,
                 [node |-> "function", name |-> f.name, body |-> body.typed,
                  parameters |-> [k \in DOMAIN f.parameters |->
                                    Lookup(env.scopes, f.parameters[k].name)]]))

AnalyzeFunction(functions, next, f) ==
  AnalyzeBody(DeclareParameters([functions |-> functions, scopes |-> << <<>> >>, next |-> next,
                                 returnType |-> f.returnType], f.parameters), f)

AddDeclaration(done, analyzed) ==
  Then(analyzed.typed, LAMBDA declaration :
    [done EXCEPT !.declarations = Append(@, declaration), !.next = analyzed.env.next])

\* A source is the sequence of its functions.
Analyze(source) ==
  LET Empty == [node |-> "program", functions |-> <<>>, declarations |-> <<>>, next |-> 0]
      Analyzed(done, f) ==
        Then(done, LAMBDA before :
          AddDeclaration(before, AnalyzeFunction(before.functions, before.next, f)))
  IN FoldLeft(Analyzed, FoldLeft(Register, Empty, Hosts \o source), source)
=============================================================================
