------------------------------- MODULE Lexer -------------------------------
(***************************************************************************)
(* Lexer::lex: the Scanner goes over a constructed text, one turn of its   *)
(* loop in a step, and makes tokens until the end or the first diagnostic. *)
(* Names and numbers are tested as wholes, once all that could belong to   *)
(* them has been read.                                                     *)
(***************************************************************************)
EXTENDS SourceText

VARIABLES
  offset,       \* what has been scanned
  tokens,       \* kinds and spans
  diagnostics   \* of the lexer, one at most

lexerVars == <<sourceVars, offset, tokens, diagnostics>>

Whitespace == {32, 9, CR, LF}
Digits == 48 .. 57
Letters == (65 .. 90) \cup (97 .. 122)
Underscore == 95
Point == 46
LetterF == 102
IdentifierStart == Letters \cup {Underscore}
IdentifierContinue == IdentifierStart \cup Digits
NumericCandidate == IdentifierContinue \cup {Point}

\* What is spelled in one way, in ASCII: single bytes, pairs, and words.
Singles ==
  [plus |-> <<43>>, minus |-> <<45>>, star |-> <<42>>, slash |-> <<47>>, percent |-> <<37>>,
   equal |-> <<61>>, less |-> <<60>>, greater |-> <<62>>, leftParen |-> <<40>>,
   rightParen |-> <<41>>, leftBrace |-> <<123>>, rightBrace |-> <<125>>, comma |-> <<44>>,
   colon |-> <<58>>, semicolon |-> <<59>>]

Pairs ==
  [arrow |-> <<45, 62>>, equalEqual |-> <<61, 61>>, bangEqual |-> <<33, 61>>,
   lessEqual |-> <<60, 61>>, greaterEqual |-> <<62, 61>>]

CommentStart == <<47, 47>>

\* fn let return if else while true false i64 f64 f32 bool void extern.
Keywords ==
  [keywordFn |-> <<102, 110>>, keywordLet |-> <<108, 101, 116>>,
   keywordReturn |-> <<114, 101, 116, 117, 114, 110>>, keywordIf |-> <<105, 102>>,
   keywordElse |-> <<101, 108, 115, 101>>, keywordWhile |-> <<119, 104, 105, 108, 101>>,
   keywordTrue |-> <<116, 114, 117, 101>>, keywordFalse |-> <<102, 97, 108, 115, 101>>,
   keywordI64 |-> <<105, 54, 52>>, keywordF64 |-> <<102, 54, 52>>, keywordF32 |-> <<102, 51, 50>>,
   keywordBool |-> <<98, 111, 111, 108>>, keywordVoid |-> <<118, 111, 105, 100>>,
   keywordExtern |-> <<101, 120, 116, 101, 114, 110>>]

Spellings(table) == {table[kind] : kind \in DOMAIN table}
KindOf(table, text) == CHOOSE kind \in DOMAIN table : table[kind] = text

SingleBytes == {text[1] : text \in Spellings(Singles)}

-----------------------------------------------------------------------------
(* Words and numbers.                                                      *)

\* The end of the run of such bytes that begins here.
RunEnd(begin, bytes) ==
  CHOOSE end \in begin .. Size :
    /\ \A k \in begin .. end - 1 : Byte(k) \in bytes
    /\ ~Has(end, bytes)

ClassifyIdentifier(text) ==
  IF text \in Spellings(Keywords) THEN KindOf(Keywords, text) ELSE "identifier"

AllDigits(text) == text # <<>> /\ \A k \in DOMAIN text : text[k] \in Digits

ValidInteger(text) == AllDigits(text) /\ (text[1] = 48 => Len(text) = 1)

ClassifyNumber(text) ==
  LET points == {k \in DOMAIN text : text[k] = Point}
      point == CHOOSE k \in points : TRUE
      isFloat32 == text[Len(text)] = LetterF
      fractionEnd == IF isFloat32 THEN Len(text) - 1 ELSE Len(text)
      isFloat == /\ point < fractionEnd
                 /\ ValidInteger(SubSeq(text, 1, point - 1))
                 /\ AllDigits(SubSeq(text, point + 1, fractionEnd))
  IN CASE points = {}              -> IF ValidInteger(text) THEN "integerLiteral" ELSE "none"
       [] Cardinality(points) = 1  -> IF ~isFloat THEN "none"
                                      ELSE IF isFloat32 THEN "float32Literal" ELSE "float64Literal"
       [] Cardinality(points) > 1  -> "none"

\* Seeded fault: what follows the zero may be anything.
LeadingZeroLoose(text) == Len(text) > 1 /\ text[1] = 48

LeadingZero(text) == Len(text) > 1 /\ text[1] = 48 /\ text[2] \in Digits

-----------------------------------------------------------------------------
(* The scanner.                                                            *)

Token(kind, begin, end) == [kind |-> kind, span |-> Span(begin, end)]

Emit(kind, end) ==
  /\ tokens' = Append(tokens, Token(kind, offset, end))
  /\ offset' = end
  /\ UNCHANGED <<sourceVars, diagnostics>>

Refuse(code, end) ==
  /\ diagnostics' = <<Diagnostic(code, offset, end)>>
  /\ stage' = "refused"
  /\ UNCHANGED <<contents, index, lineStarts, utf8Error, offset, tokens>>

SkipTo(end) == offset' = end /\ UNCHANGED <<sourceVars, tokens, diagnostics>>

LexerInit == SourceInit /\ offset = 0 /\ tokens = <<>> /\ diagnostics = <<>>

ConstructSource == Construct /\ UNCHANGED <<offset, tokens, diagnostics>>

\* A text that is not valid is not scanned.
BeginScan ==
  /\ stage = "constructed"
  /\ IF ValidateEncoding = NoDiagnostic THEN stage' = "scanning" /\ UNCHANGED diagnostics
     ELSE stage' = "invalid" /\ diagnostics' = <<ValidateEncoding>>
  /\ UNCHANGED <<contents, index, lineStarts, utf8Error, offset, tokens>>

Scanning == stage = "scanning" /\ offset < Size

SkipWhitespace == Scanning /\ Byte(offset) \in Whitespace /\ SkipTo(offset + 1)

PairAt(from, pairs) == \E p \in pairs : Has(from, {p[1]}) /\ Has(from + 1, {p[2]})
AtPair(pairs) == PairAt(offset, pairs)

\* Seeded fault: only a line feed ends a comment.
CommentBytesLoose == (0 .. 255) \ {LF}

CommentBytes == (0 .. 255) \ {CR, LF}

SkipComment ==
  /\ Scanning /\ AtPair({CommentStart})
  /\ SkipTo(RunEnd(offset + 2, CommentBytes))

ScanPair ==
  /\ Scanning /\ AtPair(Spellings(Pairs))
  /\ Emit(KindOf(Pairs, Slice(Span(offset, offset + 2))), offset + 2)

ScanSingle ==
  /\ Scanning /\ Byte(offset) \in SingleBytes
  /\ ~AtPair({CommentStart} \cup Spellings(Pairs))
  /\ Emit(KindOf(Singles, Slice(Span(offset, offset + 1))), offset + 1)

ScanIdentifier ==
  /\ Scanning /\ Byte(offset) \in IdentifierStart
  /\ LET end == RunEnd(offset, IdentifierContinue)
     IN Emit(ClassifyIdentifier(Slice(Span(offset, end))), end)

ScanNumber ==
  /\ Scanning /\ Byte(offset) \in Digits
  /\ LET end == RunEnd(offset, NumericCandidate)
         literal == Slice(Span(offset, end))
     IN IF LeadingZero(literal) THEN Refuse("E1005", end)
        ELSE IF ClassifyNumber(literal) = "none" THEN Refuse("E1004", end)
        ELSE Emit(ClassifyNumber(literal), end)

\* Seeded fault: a diagnostic covers one byte.
RefusedEndShort == offset + 1

\* A character that is not ASCII is reported as a whole.
RefusedEnd == offset + Utf8Length(Byte(offset))

RefuseCharacter ==
  /\ Scanning
  /\ Byte(offset) \notin Whitespace \cup SingleBytes \cup IdentifierStart \cup Digits
  /\ ~AtPair(Spellings(Pairs))
  /\ Refuse("E1003", RefusedEnd)

EndScan ==
  /\ stage = "scanning" /\ offset = Size
  /\ tokens' = Append(tokens, Token("endOfFile", offset, offset))
  /\ stage' = "lexed"
  /\ UNCHANGED <<contents, index, lineStarts, utf8Error, offset, diagnostics>>

LexerNext ==
  \/ ConstructSource \/ BeginScan
  \/ SkipWhitespace \/ SkipComment \/ ScanPair \/ ScanSingle \/ ScanIdentifier \/ ScanNumber
  \/ RefuseCharacter \/ EndScan

LexerSpec == LexerInit /\ [][LexerNext]_lexerVars

-----------------------------------------------------------------------------
(* What a token may be, and what stands between two.                       *)

Word(piece) ==
  /\ piece # <<>> /\ piece[1] \in IdentifierStart
  /\ \A k \in DOMAIN piece : piece[k] \in IdentifierContinue

Figures(piece) == piece # <<>> /\ \A k \in DOMAIN piece : piece[k] \in Digits
Whole(piece) == Figures(piece) /\ (Len(piece) = 1 \/ piece[1] # 48)
Fractional(piece) ==
  \E k \in DOMAIN piece :
    piece[k] = Point /\ Whole(SubSeq(piece, 1, k - 1)) /\ Figures(SubSeq(piece, k + 1, Len(piece)))

Lexeme(kind, piece) ==
  CASE kind = "integerLiteral" -> Whole(piece)
    [] kind = "float64Literal" -> Fractional(piece)
    [] kind = "float32Literal" ->
         piece[Len(piece)] = LetterF /\ Fractional(SubSeq(piece, 1, Len(piece) - 1))
    [] kind = "identifier"     -> Word(piece) /\ piece \notin Spellings(Keywords)
    [] kind = "endOfFile"      -> piece = <<>>
    [] OTHER -> \/ kind \in DOMAIN Keywords /\ piece = Keywords[kind]
                \/ kind \in DOMAIN Pairs /\ piece = Pairs[kind]
                \/ kind \in DOMAIN Singles /\ piece = Singles[kind]

\* One more byte would not belong to the token.
Longest(t) ==
  LET longer == SubSeq(contents, t.span.begin + 1, t.span.end + 1)
  IN t.span.end < Size =>
       CASE Word(Slice(t.span)) -> ~Word(longer)
         [] Byte(t.span.begin) \in Digits -> Byte(t.span.end) \notin NumericCandidate
         [] OTHER -> longer \notin Spellings(Pairs) \cup {CommentStart}

\* A comment that began between two offsets has come to an offset.
CommentFrom(from, at) ==
  \E j \in from .. at - 2 :
    /\ PairAt(j, {CommentStart})
    /\ \A k \in j .. at - 1 : Byte(k) \notin {CR, LF}

Blank(from, to) ==
  \A i \in from .. to - 1 :
    \/ Byte(i) \in Whitespace
    \/ CommentFrom(from, i + 1)
    \/ i + 1 < to /\ PairAt(i, {CommentStart})

-----------------------------------------------------------------------------
(* Properties.                                                             *)

\* The text is its tokens and blanks between them: every token is spelled as its
\* kind, is as long as it can be and is not in a comment, and nothing else was
\* passed over.
TokensReadBack ==
  /\ \A k \in DOMAIN tokens :
       LET from == IF k = 1 THEN 0 ELSE tokens[k - 1].span.end
       IN /\ Lexeme(tokens[k].kind, Slice(tokens[k].span)) /\ Longest(tokens[k])
          /\ Blank(from, tokens[k].span.begin)
          /\ tokens[k].kind # "endOfFile" => ~CommentFrom(from, tokens[k].span.begin)
          /\ tokens[k].kind = "endOfFile" <=> stage = "lexed" /\ k = Len(tokens)
  /\ Blank(IF tokens = <<>> THEN 0 ELSE tokens[Len(tokens)].span.end, offset)

\* What is refused is no token: a character that begins none, or a number with all
\* that was written to it, which is named for its zeros when it begins with them.
LexerRefusesForReason ==
  stage = "refused" =>
    LET d == diagnostics[1]
        piece == Slice(d.span)
        begin == d.span.begin
    IN IF d.code = "E1003"
       THEN /\ IsCharacter(piece)
            /\ Byte(begin) \notin Whitespace \cup IdentifierStart \cup Digits \cup SingleBytes
            /\ ~PairAt(begin, Spellings(Pairs))
       ELSE /\ Byte(begin) \in Digits /\ ~Has(d.span.end, NumericCandidate)
            /\ \A kind \in {"integerLiteral", "float64Literal", "float32Literal"} :
                 ~Lexeme(kind, piece)
            /\ d.code = "E1005" <=> piece[1] = 48 /\ Len(piece) > 1 /\ piece[2] \in Digits

\* What a token or a diagnostic of the scanner points at can be cut out of the
\* text: the analyzer takes the same stand-in for all names that cannot.
SpansCanBeSliced ==
  /\ \A k \in DOMAIN tokens : CanSlice(tokens[k].span)
  /\ stage = "refused" => CanSlice(diagnostics[1].span)

\* Every text has one scanning: its tokens to the one end of the file, or the one
\* piece of it that is no token.
ScanningExact == TokensReadBack /\ LexerRefusesForReason
=============================================================================
