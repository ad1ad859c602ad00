------------------------------ MODULE MCParser ------------------------------
(***************************************************************************)
(* Token sequences for the parser: short bodies of one function over the   *)
(* tokens of expressions and over those of statements, and programs with   *)
(* every construction, right, cut off anywhere, and with one token lost,   *)
(* changed or added anywhere.                                              *)
(***************************************************************************)
EXTENDS Parser

Upto(n, kinds) == UNION {[1 .. m -> kinds] : m \in 0 .. n}

Head1 == <<"keywordFn", "identifier", "leftParen", "rightParen", "arrow", "keywordVoid", "leftBrace">>
Body(code) == Head1 \o code \o <<"rightBrace", "endOfFile">>

ExpressionTokens == {"identifier", "leftParen", "rightParen", "minus", "star", "less", "equalEqual", "comma"}
StatementTokens ==
  {"identifier", "equal", "semicolon", "leftBrace", "rightBrace", "keywordIf", "keywordElse",
   "keywordReturn", "keywordWhile"}

\* identifier o identifier o identifier, with and without signs and parentheses.
Operators == {"equalEqual", "bangEqual", "less", "greaterEqual", "plus", "minus", "star", "percent"}
Operations ==
  {<<"identifier", o[1], "identifier", o[2], "minus", "identifier", o[3], "identifier">> :
     o \in Operators \X Operators \X Operators}

Expressions == Upto(4, ExpressionTokens) \cup Operations
Shorts ==
  {Body(e \o <<"semicolon">>) : e \in Expressions} \cup {Body(s) : s \in Upto(4, StatementTokens)}

Program1 ==
  Head1 \o <<"keywordLet", "identifier", "colon", "keywordF64", "equal", "minus", "integerLiteral",
             "semicolon">>
    \o <<"keywordIf", "identifier", "lessEqual", "identifier", "leftBrace", "keywordReturn", "semicolon",
         "rightBrace", "keywordElse", "keywordIf", "keywordTrue", "leftBrace", "rightBrace",
         "keywordElse", "leftBrace", "rightBrace">>
    \o <<"rightBrace", "endOfFile">>

Program2 ==
  <<"keywordFn", "identifier", "leftParen", "identifier", "colon", "keywordI64", "comma", "identifier",
    "colon", "keywordBool", "rightParen", "arrow", "keywordF64", "leftBrace">>
    \o <<"keywordWhile", "leftParen", "identifier", "bangEqual", "keywordFalse", "rightParen",
         "leftBrace", "identifier", "equal", "identifier", "leftParen", "float64Literal", "comma",
         "identifier", "rightParen", "leftParen", "rightParen", "semicolon", "rightBrace">>
    \o <<"keywordReturn", "identifier", "slash", "plus", "identifier", "semicolon", "rightBrace">>
    \o Head1 \o <<"rightBrace", "endOfFile">>

Edits(p) ==
  {p} \cup {SubSeq(p, 1, n) : n \in 0 .. Len(p)}
    \cup {Append(SubSeq(p, 1, n), "endOfFile") : n \in 0 .. Len(p) - 1}
    \cup {RemoveAt(p, n) : n \in 1 .. Len(p)}
    \cup {[p EXCEPT ![n] = k] : n \in 1 .. Len(p) - 1, k \in TokenKinds \ {"endOfFile"}}
    \cup {InsertAt(p, n, k) : n \in 1 .. Len(p), k \in TokenKinds \ {"endOfFile"}}

MCInputs == Shorts \cup Edits(Program1) \cup Edits(Program2)
=============================================================================
