-------------------------- MODULE SourceSemantics --------------------------
(***************************************************************************)
(* What a source means, with no types but those of the values it computes *)
(* and no ids but its names: the reference that compiled code is compared  *)
(* with.  A run is given the arguments and the answers of the callees; it  *)
(* ends with a value, an error or, when the source makes no sense, stuck.  *)
(***************************************************************************)
EXTENDS SemanticAnalysis

Going == <<"going", 0>>
Stuck == <<"stuck", 0>>
Of(type, word) == [type |-> type, word |-> word]

\* A run: its scopes, the value of the last expression, the calls made.
End(run, how) == [run EXCEPT !.ended = how]
Yield(run, type, word) == [run EXCEPT !.value = Of(type, word)]

Go(run, Continue(_)) == IF run.ended = Going THEN Continue(run) ELSE run

RECURSIVE Evaluate(_, _)

Negation(operation, run) ==
  IF operation = "plus" THEN run
  ELSE Yield(run, run.value.type, Negated(run.value.type, run.value.word))

Operation(run, operation, a, b) ==
  CASE a.type # b.type -> End(run, Stuck)
    [] a.type = b.type /\ operation \in Relations ->
         Yield(run, "boolean", Compared(a.type, operation, a.word, b.word))
    [] a.type = b.type /\ operation \notin Relations ->
         IF a.type = "i64" /\ operation \in {"div", "rem"} /\ Indivisible(a.word, b.word)
         THEN End(run, <<"R5004", 0>>)
         ELSE Yield(run, a.type, Calculated(a.type, operation, a.word, b.word))

\* The arguments from left to right, then the call and its answer.
Given(run, expressions) ==
  LET Appended(given, after) == [run |-> after, words |-> Append(given, after.value.word)]
      Taken(done, e) == Appended(done.words, Evaluate(done.run, e))
  IN FoldLeft(Taken, [run |-> run, words |-> <<>>], expressions)

TakeAnswer(run, answer) ==
  IF answer.error # "none" THEN End(run, <<answer.error, 0>>)
  ELSE Yield(run, answer.type, answer.word)

Invocation(name, given) ==
  LET Record(run) == [run EXCEPT !.made = Append(@, [callee |-> name, arguments |-> given.words])]
      Answered(run) == IF Len(run.made) > Len(run.answers) THEN End(run, Stuck)
                       ELSE TakeAnswer(run, run.answers[Len(run.made)])
  IN Go(given.run, LAMBDA run : Answered(Record(run)))

Evaluate(run, e) ==
  IF run.ended # Going THEN run
  ELSE CASE e.node = "name" ->
              IF Scoping(run.scopes, e.name) = {} THEN End(run, Stuck)
              ELSE [run EXCEPT !.value = run.scopes[Max(Scoping(run.scopes, e.name))][e.name]]
         [] e.node = "integer" -> Yield(run, "i64", e.magnitude)
         [] e.node = "float"   -> Yield(run, "f64", e.word)
         [] e.node = "bool"    -> Yield(run, "boolean", e.word)
         [] e.node = "paren"   -> Evaluate(run, e.inner)
         [] e.node = "unary"   ->
              Go(Evaluate(run, e.operand), LAMBDA after : Negation(e.operation, after))
         [] e.node = "binary"  ->
              Go(Evaluate(run, e.left), LAMBDA left :
                Go(Evaluate(left, e.right), LAMBDA right :
                  Operation(right, e.operation, left.value, right.value)))
         [] e.node = "call"    -> Invocation(e.callee.name, Given(run, e.arguments))

-----------------------------------------------------------------------------
RECURSIVE Execute(_, _)

Holds(run) == run.value = Of("boolean", 1)

\* A name is bound in the innermost scope, or where it is found.
BindName(run, scope, name) == [run EXCEPT !.scopes[scope] = name :> run.value @@ @]

Scoped(run, statements) ==
  LET Left(inner) == [inner EXCEPT !.scopes = Front(@)]
  IN Left(FoldLeft(Execute, [run EXCEPT !.scopes = Append(@, <<>>)], statements))

Execute(run, s) ==
  IF run.ended # Going THEN run
  ELSE CASE s.node = "expression" -> Evaluate(run, s.value)
         [] s.node = "block" -> Scoped(run, s.statements)
         [] s.node = "let" -> BindName(Evaluate(run, s.value), Len(run.scopes), s.name)
         [] s.node = "assign" ->
              BindName(Evaluate(run, s.value), Max(Scoping(run.scopes, s.name)), s.name)
         [] s.node = "return" ->
              IF s.value = Absent THEN End(run, <<"void", 0>>)
              ELSE Go(Evaluate(run, s.value), LAMBDA result :
                     End(result, <<"value", result.value.word>>))
         [] s.node = "if" ->
              Go(Evaluate(run, s.condition), LAMBDA after :
                IF Holds(after) THEN Scoped(after, s.then)
                ELSE IF s.else = Absent THEN after ELSE Execute(after, s.else))
         [] s.node = "while" ->
              Go(Evaluate(run, s.condition), LAMBDA after :
                IF Holds(after) THEN Execute(Scoped(after, s.body), s) ELSE after)

\* How function f of a source ends, and what it called.
Ended(f, run) ==
  [made |-> run.made,
   ended |-> CASE run.ended # Going -> run.ended
               [] run.ended = Going /\ f.returnType = "void" -> <<"void", 0>>
               [] run.ended = Going /\ f.returnType # "void" -> Stuck]

Meaning(f, given, answers) ==
  LET Parameter(scope, k) ==
        f.parameters[k].name :> Of(f.parameters[k].type, given[k]) @@ scope
      Start(scope) == [scopes |-> <<scope>>, value |-> Of("void", 0), made |-> <<>>,
                       answers |-> answers, ended |-> Going]
  IN Ended(f, FoldLeft(Execute,
                       Start(FoldLeft(Parameter, <<>>, [k \in DOMAIN given |-> k])), f.body))
=============================================================================
