------------------------------- MODULE Parser -------------------------------
(***************************************************************************)
(* ParserState: recursive descent over the tokens, one function of the     *)
(* program in a step.  A parser function takes a cursor - the place of the *)
(* next token and the first diagnostic - and yields the cursor it leaves,  *)
(* with the node that it made or Absent.  A span is a pair of token        *)
(* numbers, and a name or a literal is the token it was written with.      *)
(***************************************************************************)
EXTENDS Integers, SequencesExt

-----------------------------------------------------------------------------
(* Reference: the language of Ember programs as a grammar, and a reader of *)
(* it.  After some tokens the reader is in a set of stacks, what each of   *)
(* them has still to read; a prefix can be continued to a program exactly  *)
(* when a stack is left, since every symbol derives something.             *)

TypeTokens == {"keywordI64", "keywordF64", "keywordBool", "keywordVoid"}
LiteralTokens == {"integerLiteral", "float64Literal", "keywordTrue", "keywordFalse"}
EqualityTokens == {"equalEqual", "bangEqual"}
ComparisonTokens == {"less", "lessEqual", "greater", "greaterEqual"}
TermTokens == {"plus", "minus"}
FactorTokens == {"star", "slash", "percent"}

\* The tokens no program has.
OtherTokens == {"float32Literal", "keywordF32", "keywordExtern"}

TokenKinds ==
  TypeTokens \cup LiteralTokens \cup EqualityTokens \cup ComparisonTokens \cup TermTokens
    \cup FactorTokens \cup OtherTokens
    \cup {"endOfFile", "identifier", "keywordFn", "keywordLet", "keywordReturn", "keywordIf",
          "keywordElse", "keywordWhile", "equal", "leftParen", "rightParen", "leftBrace",
          "rightBrace", "comma", "colon", "semicolon", "arrow"}

Tokens(kinds) == {<<k>> : k \in kinds}
Chain(operand, operators, rest) == {<<>>} \cup {<<o, operand, rest>> : o \in operators}

Rules ==
  [Program    |-> {<<"Function", "Program">>, <<"endOfFile">>},
   Function   |-> {<<"keywordFn", "identifier", "leftParen", "Parameters", "rightParen", "arrow",
                     "Type", "Block">>},
   Parameters |-> {<<>>, <<"Parameter", "MoreParameters">>},
   MoreParameters |-> {<<>>, <<"comma", "Parameter", "MoreParameters">>},
   Parameter  |-> {<<"identifier", "colon", "Type">>},
   Type       |-> Tokens(TypeTokens),
   Block      |-> {<<"leftBrace", "Statements", "rightBrace">>},
   Statements |-> {<<>>, <<"Statement", "Statements">>},
   Statement  |-> {<<"keywordLet", "identifier", "colon", "Type", "equal", "Expression", "semicolon">>,
                   <<"identifier", "equal", "Expression", "semicolon">>,
                   <<"keywordReturn", "semicolon">>, <<"keywordReturn", "Expression", "semicolon">>,
                   <<"keywordWhile", "Expression", "Block">>,
                   <<"If">>, <<"Block">>, <<"Expression", "semicolon">>},
   If         |-> {<<"keywordIf", "Expression", "Block", "Else">>},
   Else       |-> {<<>>, <<"keywordElse", "If">>, <<"keywordElse", "Block">>},
   Expression |-> {<<"Comparison", "MoreEquality">>},
   MoreEquality   |-> Chain("Comparison", EqualityTokens, "MoreEquality"),
   Comparison |-> {<<"Term", "MoreComparison">>},
   MoreComparison |-> Chain("Term", ComparisonTokens, "MoreComparison"),
   Term       |-> {<<"Factor", "MoreTerm">>},
   MoreTerm   |-> Chain("Factor", TermTokens, "MoreTerm"),
   Factor     |-> {<<"Unary", "MoreFactor">>},
   MoreFactor |-> Chain("Unary", FactorTokens, "MoreFactor"),
   Unary      |-> {<<"plus", "Unary">>, <<"minus", "Unary">>, <<"Primary", "Calls">>},
   Calls      |-> {<<>>, <<"leftParen", "Arguments", "rightParen", "Calls">>},
   Arguments  |-> {<<>>, <<"Expression", "MoreArguments">>},
   MoreArguments |-> {<<>>, <<"comma", "Expression", "MoreArguments">>},
   Primary    |-> {<<"identifier">>, <<"leftParen", "Expression", "rightParen">>}
                    \cup Tokens(LiteralTokens)]

\* The stacks with a token on top that a stack can become.
RECURSIVE Expanded(_)
Expanded(stack) ==
  IF stack = <<>> THEN {}
  ELSE IF Head(stack) \in TokenKinds THEN {stack}
  ELSE UNION {Expanded(rule \o Tail(stack)) : rule \in Rules[Head(stack)]}

Ready(stacks) == UNION {Expanded(s) : s \in stacks}
Acceptable(stacks) == {Head(s) : s \in Ready(stacks)}
After(stacks, token) == {Tail(s) : s \in {r \in Ready(stacks) : Head(r) = token}}

\* The number of tokens before the first that no program has at its place, and
\* what could have stood there.
RECURSIVE ReadFrom(_, _, _)
ReadFrom(tokens, at, stacks) ==
  IF at > Len(tokens) \/ After(stacks, tokens[at]) = {}
  THEN [at |-> at, acceptable |-> Acceptable(stacks)]
  ELSE ReadFrom(tokens, at + 1, After(stacks, tokens[at]))

Reading(tokens) == ReadFrom(tokens, 1, {<<"Program">>})

-----------------------------------------------------------------------------
(* The parser.                                                             *)

CONSTANT Inputs   \* token sequences

VARIABLES
  tokens,     \* kinds of tokens
  cursor,     \* where the program has been parsed to
  functions,  \* the declarations so far
  phase,      \* "parsing", "accepted" or "refused"
  reading     \* how far the grammar goes along with the tokens

vars == <<tokens, cursor, functions, phase, reading>>

Absent == [node |-> "absent"]
NoError == [code |-> "none", at |-> 0]

TypeName(kind) ==
  CASE kind = "keywordI64" -> "i64" [] kind = "keywordF64" -> "f64"
    [] kind = "keywordBool" -> "boolean" [] kind = "keywordVoid" -> "void"

\* Seeded fault: two relations are taken for one.
OperationLoose(kind) == IF kind = "lessEqual" THEN "less" ELSE kind

\* BinaryOperator and UnaryOperator have the names of the tokens.
Operation(kind) == kind

-----------------------------------------------------------------------------
(* The cursor.                                                             *)

JoinSpans(first, last) == <<first[1], last[2]>>

Current(c) == tokens[c.at]
At(c, kind) == Current(c) = kind
Peek(c, kind) == c.at + 1 <= Len(tokens) /\ tokens[c.at + 1] = kind

Give(c, node) == [c EXCEPT !.node = node]
Null(c) == c.node = Absent

Advance(c) ==
  LET token == [node |-> "token", kind |-> Current(c), span |-> <<c.at, c.at>>]
  IN Give(IF At(c, "endOfFile") THEN c ELSE [c EXCEPT !.at = @ + 1], token)

\* Seeded fault: the last diagnostic is kept.
FailLast(c, code) == [c EXCEPT !.error = [code |-> code, at |-> c.at], !.node = Absent]

\* Only the first diagnostic is kept.
Fail(c, code) ==
  [c EXCEPT !.error = IF @ = NoError THEN [code |-> code, at |-> c.at] ELSE @, !.node = Absent]

Consume(c, kind) == IF At(c, kind) THEN Advance(c) ELSE Fail(c, "E2002")

\* What was made decides whether the parser goes on.
Then(made, Next(_)) == IF Null(made) THEN made ELSE Next(made)

\* The second is tried even if the first came to nothing.
IfBoth(first, second, Next(_, _)) ==
  IF Null(first) \/ Null(second) THEN Give(second, Absent) ELSE Next(first, second)

Both(first, Second(_), Next(_, _)) == IfBoth(first, Second(first), Next)

\* The parser functions that are called from within others: see the end of the
\* statements.
RECURSIVE Parse(_, _)

\* A list of nodes is held like a node.
Items(list) == [node |-> "list", items |-> list]

-----------------------------------------------------------------------------
(* Expressions.                                                            *)

BinaryLevels == <<EqualityTokens, ComparisonTokens, TermTokens, FactorTokens>>

Binary(operator, left, right) ==
  [node |-> "binary", operation |-> Operation(operator.kind), operatorSpan |-> operator.span,
   left |-> left, right |-> right, span |-> JoinSpans(left.span, right.span)]

\* Seeded fault: the operand on the right takes operators of its own level.
OperandLevelLoose(level) == level

OperandLevel(level) == level + 1

\* parseEquality, parseComparison, parseTerm and parseFactor.
RECURSIVE ParseBinary(_, _), MoreOperands(_, _)
ParseBinary(level, c) ==
  IF level > Len(BinaryLevels) THEN Parse("unary", c)
  ELSE MoreOperands(level, ParseBinary(level + 1, c))

MoreOperands(level, left) ==
  IF Null(left) \/ Current(left) \notin BinaryLevels[level] THEN left
  ELSE Then(Advance(left), LAMBDA operator :
         Then(ParseBinary(OperandLevel(level), operator), LAMBDA right :
           MoreOperands(level, Give(right, Binary(operator.node, left.node, right.node)))))

ParseParenthesized(open) ==
  Both(Parse("expression", open), LAMBDA inner : Consume(inner, "rightParen"),
    LAMBDA inner, close :
      Give(close, [node |-> "paren", inner |-> inner.node,
                   span |-> JoinSpans(open.node.span, close.node.span)]))

ParsePrimary(c) ==
  CASE At(c, "identifier") -> Give(Advance(c), [node |-> "name", span |-> <<c.at, c.at>>])
    [] Current(c) \in LiteralTokens ->
         Give(Advance(c), [node |-> "literal", kind |-> Current(c), span |-> <<c.at, c.at>>])
    [] At(c, "leftParen") -> ParseParenthesized(Advance(c))
    [] OTHER -> Fail(c, "E2001")

\* The arguments after a parenthesis, up to the closing one.
RECURSIVE MoreArguments(_, _)
MoreArguments(c, list) ==
  Then(Parse("expression", c), LAMBDA argument :
    IF At(argument, "comma") THEN MoreArguments(Advance(argument), Append(list, argument.node))
    ELSE Give(argument, Items(Append(list, argument.node))))

ParseArguments(c) ==
  IF At(c, "rightParen") THEN Give(c, Items(<<>>)) ELSE MoreArguments(c, <<>>)

RECURSIVE MoreCalls(_)
MoreCalls(callee) ==
  IF Null(callee) \/ ~At(callee, "leftParen") THEN callee
  ELSE Then(ParseArguments(Advance(callee)), LAMBDA list :
         Then(Consume(list, "rightParen"), LAMBDA close :
           MoreCalls(Give(close,
             [node |-> "call", callee |-> callee.node, arguments |-> list.node.items,
              span |-> JoinSpans(callee.node.span, close.node.span)]))))

ParseSigned(operator) ==
  Then(Parse("unary", operator), LAMBDA operand :
    Give(operand, [node |-> "unary", operation |-> Operation(operator.node.kind),
                   operand |-> operand.node,
                   span |-> JoinSpans(operator.node.span, operand.node.span)]))

ParseUnary(c) ==
  IF Current(c) \in TermTokens THEN ParseSigned(Advance(c)) ELSE MoreCalls(ParsePrimary(c))

-----------------------------------------------------------------------------
(* Statements.  Each takes the cursor behind its keyword, which it holds.  *)

ParseType(c) ==
  IF Current(c) \notin TypeTokens THEN Fail(c, "E2001")
  ELSE Give(Advance(c), [node |-> "type", type |-> TypeName(Current(c)), span |-> <<c.at, c.at>>])

Statement(keyword, last, fields) ==
  Give(last, fields @@ [span |-> JoinSpans(keyword.node.span, last.node.span)])

ValueAndSemicolon(c, Next(_, _)) ==
  Both(Parse("expression", c), LAMBDA value : Consume(value, "semicolon"), Next)

ParseLet(keyword) ==
  Then(Consume(keyword, "identifier"), LAMBDA name :
    Then(Consume(name, "colon"), LAMBDA colon :
      Then(ParseType(colon), LAMBDA type :
        Then(Consume(type, "equal"), LAMBDA equal :
          ValueAndSemicolon(equal, LAMBDA value, semicolon :
            Statement(keyword, semicolon,
              [node |-> "let", name |-> name.node.span, type |-> type.node,
               value |-> value.node]))))))

ParseAssignment(target) ==
  ValueAndSemicolon(Advance(target), LAMBDA value, semicolon :
    Statement(target, semicolon,
      [node |-> "assign", name |-> target.node.span, value |-> value.node]))

ParseReturn(keyword) ==
  IF At(keyword, "semicolon")
  THEN Statement(keyword, Advance(keyword), [node |-> "return", value |-> Absent])
  ELSE Then(Parse("expression", keyword), LAMBDA value :
         Then(Consume(value, "semicolon"), LAMBDA semicolon :
           Statement(keyword, semicolon, [node |-> "return", value |-> value.node])))

ConditionAndBlock(c, Next(_, _)) ==
  Both(Parse("expression", c), LAMBDA condition : Parse("block", condition), Next)

\* Seeded fault: the span of an if ends with its first block.
IfSpanShort(keyword, then, last) == JoinSpans(keyword.node.span, then.node.span)

IfSpan(keyword, then, last) == JoinSpans(keyword.node.span, last.node.span)

If(keyword, condition, then, last, else) ==
  Give(last, [node |-> "if", condition |-> condition.node, then |-> then.node, else |-> else,
              span |-> IfSpan(keyword, then, last)])

ParseElse(c) == IF At(c, "keywordIf") THEN Parse("if", Advance(c)) ELSE Parse("block", c)

ParseIf(keyword) ==
  ConditionAndBlock(keyword, LAMBDA condition, then :
    IF At(then, "keywordElse")
    THEN Then(ParseElse(Advance(then)), LAMBDA last :
           If(keyword, condition, then, last, last.node))
    ELSE If(keyword, condition, then, then, Absent))

ParseWhile(keyword) ==
  ConditionAndBlock(keyword, LAMBDA condition, body :
    Statement(keyword, body,
      [node |-> "while", condition |-> condition.node, body |-> body.node]))

ParseExpressionStatement(c) ==
  Then(Parse("expression", c), LAMBDA value :
    Then(Consume(value, "semicolon"), LAMBDA semicolon :
      Statement(value, semicolon, [node |-> "expression", value |-> value.node])))

ParseStatement(c) ==
  CASE At(c, "keywordLet")    -> ParseLet(Advance(c))
    [] At(c, "keywordReturn") -> ParseReturn(Advance(c))
    [] At(c, "keywordIf")     -> Parse("if", Advance(c))
    [] At(c, "keywordWhile")  -> ParseWhile(Advance(c))
    [] At(c, "leftBrace")     -> Parse("block", c)
    [] At(c, "identifier") /\ Peek(c, "equal") -> ParseAssignment(Advance(c))
    [] OTHER -> ParseExpressionStatement(c)

\* Seeded fault: the end of the program is left to the statements.
UnclosedNever(c) == FALSE

Unclosed(c) == At(c, "endOfFile")

RECURSIVE MoreStatements(_, _)
MoreStatements(c, list) ==
  IF At(c, "rightBrace") THEN Give(c, Items(list))
  ELSE IF Unclosed(c) THEN Fail(c, "E2002")
  ELSE Then(ParseStatement(c), LAMBDA statement :
         MoreStatements(statement, Append(list, statement.node)))

CloseBlock(open, list, close) ==
  Statement(open, close, [node |-> "block", statements |-> list.node.items])

ParseBlock(c) ==
  Then(Consume(c, "leftBrace"), LAMBDA open :
    Then(MoreStatements(open, <<>>), LAMBDA list : CloseBlock(open, list, Advance(list))))

Parse(what, c) ==
  CASE what = "expression" -> ParseBinary(1, c)
    [] what = "unary"      -> ParseUnary(c)
    [] what = "if"         -> ParseIf(c)
    [] what = "block"      -> ParseBlock(c)

-----------------------------------------------------------------------------
(* Functions and the program.                                              *)

ParseParameter(c) ==
  Then(Consume(c, "identifier"), LAMBDA name :
    Then(Consume(name, "colon"), LAMBDA colon :
      Then(ParseType(colon), LAMBDA type :
        Statement(name, type,
          [node |-> "parameter", name |-> name.node.span, type |-> type.node]))))

RECURSIVE MoreParameters(_, _)
MoreParameters(c, list) ==
  Then(ParseParameter(c), LAMBDA parameter :
    IF At(parameter, "comma") THEN MoreParameters(Advance(parameter), Append(list, parameter.node))
    ELSE Give(parameter, Items(Append(list, parameter.node))))

ParseParameters(c) ==
  IF At(c, "rightParen") THEN Give(c, Items(<<>>)) ELSE MoreParameters(c, <<>>)

ParseFunction(c) ==
  Both(Consume(c, "keywordFn"), LAMBDA keyword : Consume(keyword, "identifier"),
    LAMBDA keyword, name :
      Then(Consume(name, "leftParen"), LAMBDA open :
        Then(ParseParameters(open), LAMBDA list :
          Then(Consume(list, "rightParen"), LAMBDA close :
            Then(Consume(close, "arrow"), LAMBDA arrow :
              Both(ParseType(arrow), LAMBDA type : Parse("block", type),
                LAMBDA type, body :
                  Statement(keyword, body,
                    [node |-> "function", name |-> name.node.span,
                     parameters |-> list.node.items, returnType |-> type.node,
                     body |-> body.node])))))))

Init ==
  /\ tokens \in Inputs
  /\ cursor = [at |-> 1, error |-> NoError, node |-> Absent]
  /\ functions = <<>> /\ phase = "parsing"
  /\ reading = [at |-> 0, acceptable |-> {}]

Ended == tokens # <<>> /\ Last(tokens) = "endOfFile"

RefuseWithoutEnd ==
  /\ phase = "parsing" /\ ~Ended
  /\ cursor' = [cursor EXCEPT !.error = [code |-> "E2002", at |-> Len(tokens) + 1]]
  /\ phase' = "refused"
  /\ reading' = Reading(tokens)
  /\ UNCHANGED <<tokens, functions>>

ParseNextFunction ==
  /\ phase = "parsing" /\ Ended /\ ~At(cursor, "endOfFile")
  /\ \E parsed \in {ParseFunction(cursor)} :
        /\ cursor' = Give(parsed, Absent)
        /\ IF Null(parsed)
           THEN phase' = "refused" /\ functions' = <<>>
           ELSE functions' = Append(functions, parsed.node) /\ UNCHANGED phase
        /\ reading' = IF Null(parsed) THEN Reading(tokens) ELSE reading
  /\ UNCHANGED tokens

EndProgram ==
  /\ phase = "parsing" /\ Ended /\ At(cursor, "endOfFile")
  /\ phase' = "accepted"
  /\ reading' = Reading(tokens)
  /\ UNCHANGED <<tokens, cursor, functions>>

Next == RefuseWithoutEnd \/ ParseNextFunction \/ EndProgram

Spec == Init /\ [][Next]_vars

-----------------------------------------------------------------------------
(* Properties.                                                             *)

RECURSIVE Written(_), Nodes(_)

Separated(list) ==
  FlattenSeq([k \in DOMAIN list |-> (IF k = 1 THEN <<>> ELSE <<"comma">>) \o Written(list[k])])

\* The tokens that a node stands for.
Written(n) ==
  CASE n.node = "name"    -> <<"identifier">>
    [] n.node = "literal" -> <<n.kind>>
    [] n.node = "paren"   -> <<"leftParen">> \o Written(n.inner) \o <<"rightParen">>
    [] n.node = "unary"   -> <<n.operation>> \o Written(n.operand)
    [] n.node = "binary"  -> Written(n.left) \o <<n.operation>> \o Written(n.right)
    [] n.node = "call"    ->
         Written(n.callee) \o <<"leftParen">> \o Separated(n.arguments) \o <<"rightParen">>
    [] n.node = "type"    -> <<CHOOSE k \in TypeTokens : TypeName(k) = n.type>>
    [] n.node = "let"     -> <<"keywordLet", "identifier", "colon">> \o Written(n.type)
                               \o <<"equal">> \o Written(n.value) \o <<"semicolon">>
    [] n.node = "assign"  -> <<"identifier", "equal">> \o Written(n.value) \o <<"semicolon">>
    [] n.node = "return"  -> <<"keywordReturn">>
                               \o (IF n.value = Absent THEN <<>> ELSE Written(n.value))
                               \o <<"semicolon">>
    [] n.node = "if"      -> <<"keywordIf">> \o Written(n.condition) \o Written(n.then)
                               \o (IF n.else = Absent THEN <<>>
                                   ELSE <<"keywordElse">> \o Written(n.else))
    [] n.node = "while"   -> <<"keywordWhile">> \o Written(n.condition) \o Written(n.body)
    [] n.node = "expression" -> Written(n.value) \o <<"semicolon">>
    [] n.node = "block"   -> <<"leftBrace">>
                               \o FlattenSeq([k \in DOMAIN n.statements |-> Written(n.statements[k])])
                               \o <<"rightBrace">>
    [] n.node = "parameter" -> <<"identifier", "colon">> \o Written(n.type)
    [] n.node = "function"  -> <<"keywordFn", "identifier", "leftParen">> \o Separated(n.parameters)
                                 \o <<"rightParen", "arrow">> \o Written(n.returnType)
                                 \o Written(n.body)

Parts(n) ==
  CASE n.node = "paren"    -> {n.inner}
    [] n.node = "unary"    -> {n.operand}
    [] n.node = "binary"   -> {n.left, n.right}
    [] n.node = "call"     -> {n.callee} \cup ToSet(n.arguments)
    [] n.node = "let"      -> {n.type, n.value}
    [] n.node \in {"assign", "return", "expression"} -> {n.value} \ {Absent}
    [] n.node = "if"       -> {n.condition, n.then, n.else} \ {Absent}
    [] n.node = "while"    -> {n.condition, n.body}
    [] n.node = "block"    -> ToSet(n.statements)
    [] n.node = "function" -> {n.returnType, n.body} \cup ToSet(n.parameters)
    [] n.node = "parameter" -> {n.type}
    [] OTHER -> {}

Nodes(n) == {n} \cup UNION {Nodes(part) : part \in Parts(n)}

\* The parser accepts the programs of the grammar, and its diagnostic stands at
\* the first token at which the program could not go on, whatever comes after it.
RefusesAtFirstBadToken ==
  /\ phase = "accepted" => reading.at = Len(tokens) + 1
  /\ phase = "refused" /\ Ended => cursor.error.at = reading.at

\* E2001 is for a type or an expression that is missing, E2002 for one token, and
\* for the end of the program where a statement or a brace could stand.
CodeNamesWhatIsMissing ==
  phase = "refused" /\ Ended =>
    (cursor.error.code = "E2001" <=>
       /\ reading.acceptable \cap {"integerLiteral", "keywordI64"} # {}
       /\ ~("rightBrace" \in reading.acceptable /\ tokens[reading.at] = "endOfFile"))

\* The span of every node holds the tokens that it stands for and no others, and
\* the span of an operator the token behind the operand on its left.
SpansReadBack ==
  \A f \in ToSet(functions) : \A n \in Nodes(f) :
    /\ Written(n) = SubSeq(tokens, n.span[1], n.span[2])
    /\ n.node = "binary" => n.operatorSpan = <<n.left.span[2] + 1, n.right.span[1] - 1>>

LevelOf(n) ==
  CASE n.node = "binary" -> CHOOSE k \in DOMAIN BinaryLevels : n.operation \in BinaryLevels[k]
    [] n.node = "unary"  -> Len(BinaryLevels) + 1
    [] OTHER             -> Len(BinaryLevels) + 2

\* Operators bind by level and from the left: an operand never holds, outside of
\* parentheses, an operator that should have been applied after its own.
OperandsBind ==
  \A f \in ToSet(functions) : \A n \in Nodes(f) :
    /\ n.node = "binary" => LevelOf(n.left) >= LevelOf(n) /\ LevelOf(n.right) > LevelOf(n)
    /\ n.node = "unary" => LevelOf(n.operand) >= LevelOf(n)
    /\ n.node = "call" => LevelOf(n.callee) > Len(BinaryLevels) + 1

\* A refused program has the one diagnostic that the grammar calls for.
DiagnosticExact == RefusesAtFirstBadToken /\ CodeNamesWhatIsMissing

\* What was parsed so far can be read back: the declarations stand one after the
\* other up to the place the parser has come to, and in each of them every span
\* and every operand is what the tokens say.
TreeReadsBack ==
  /\ phase # "refused" =>
       \A k \in 1 .. Len(functions) + 1 :
         (IF k > Len(functions) THEN cursor.at ELSE functions[k].span[1])
           = (IF k = 1 THEN 1 ELSE functions[k - 1].span[2] + 1)
  /\ SpansReadBack
  /\ OperandsBind
=============================================================================
