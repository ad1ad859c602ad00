----------------------------- MODULE SourceText -----------------------------
(***************************************************************************)
(* support::SourceText: the constructor, one turn of its loops in a step,  *)
(* and what is asked of a text afterwards.  Offsets count from 0, as in    *)
(* the source; the byte at an offset stands one place further in contents. *)
(***************************************************************************)
EXTENDS Integers, FiniteSets, Sequences

CONSTANT Texts   \* the contents of sources

ASSUME TextsAssumption == Texts \subseteq Seq(0 .. 255)

VARIABLES
  contents,    \* bytes
  stage,       \* "lines", "utf8" or "constructed", and what the lexer makes of it
  index,       \* of the loop
  lineStarts,  \* offsets
  utf8Error    \* what is reported of the first sequence that is not UTF-8

sourceVars == <<contents, stage, index, lineStarts, utf8Error>>

LF == 10
CR == 13

Size == Len(contents)
Byte(offset) == contents[offset + 1]
Has(offset, bytes) == offset < Size /\ Byte(offset) \in bytes

Span(begin, end) == [begin |-> begin, end |-> end]
NoSpan == Span(0, 0)

-----------------------------------------------------------------------------
(* The constructor.                                                        *)

\* Where a line ends whose terminator stands here: CR LF is one terminator.
LineEnd(offset) ==
  IF Byte(offset) = CR /\ Has(offset + 1, {LF}) THEN offset + 2 ELSE offset + 1

CollectLineStart ==
  /\ stage = "lines" /\ index < Size
  /\ index' = LineEnd(index)
  /\ lineStarts' = IF Byte(index) \in {CR, LF} THEN Append(lineStarts, LineEnd(index))
                   ELSE lineStarts
  /\ UNCHANGED <<contents, stage, utf8Error>>

EndLines ==
  /\ stage = "lines" /\ index = Size
  /\ stage' = "utf8" /\ index' = 0
  /\ UNCHANGED <<contents, lineStarts, utf8Error>>

\* The length of the sequence that a byte begins, 0 if it begins none.
SequenceLength(first) ==
  CASE first \in 0 .. 127    -> 1
    [] first \in 194 .. 223  -> 2
    [] first \in 224 .. 239  -> 3
    [] first \in 240 .. 244  -> 4
    [] OTHER                 -> 0

\* Seeded fault: surrogates are let through.
SecondBytesLoose(first) ==
  CASE first = 224 -> 160 .. 191
    [] first = 240 -> 144 .. 191
    [] first = 244 -> 128 .. 143
    [] OTHER       -> 128 .. 191

\* No overlong forms, no surrogates, nothing beyond the last code point.
SecondBytes(first) ==
  CASE first = 224 -> 160 .. 191
    [] first = 237 -> 128 .. 159
    [] first = 240 -> 144 .. 191
    [] first = 244 -> 128 .. 143
    [] OTHER       -> 128 .. 191

Continuations == 128 .. 191

\* The bytes of the sequence that are wrong, by their place in it.
WrongBytes(offset, length) ==
  {k \in 1 .. length - 1 :
     Byte(offset + k) \notin IF k = 1 THEN SecondBytes(Byte(offset)) ELSE Continuations}

ValidateCharacter ==
  /\ stage = "utf8" /\ index < Size
  /\ LET length == SequenceLength(Byte(index))
         wrong == WrongBytes(index, length)
         Report(end) ==
           utf8Error' = Span(index, end) /\ stage' = "constructed" /\ UNCHANGED index
     IN \/ length = 0 /\ Report(index + 1)
        \/ length # 0 /\ Size - index < length /\ Report(Size)
        \/ /\ length # 0 /\ Size - index >= length
           /\ \/ \E k \in wrong : (\A j \in wrong : k <= j) /\ Report(index + k + 1)
              \/ wrong = {} /\ index' = index + length /\ UNCHANGED <<stage, utf8Error>>
  /\ UNCHANGED <<contents, lineStarts>>

EndValidation ==
  /\ stage = "utf8" /\ index = Size
  /\ stage' = "constructed"
  /\ UNCHANGED <<contents, index, lineStarts, utf8Error>>

SourceInit ==
  /\ contents \in Texts
  /\ stage = "lines" /\ index = 0 /\ lineStarts = <<0>> /\ utf8Error = NoSpan

Construct == CollectLineStart \/ EndLines \/ ValidateCharacter \/ EndValidation

SourceSpec == SourceInit /\ [][Construct]_sourceVars

-----------------------------------------------------------------------------
(* What is asked of a text.                                                *)

ValidUtf8 == utf8Error = NoSpan

HasBom == Size >= 3 /\ SubSeq(contents, 1, 3) = <<239, 187, 191>>

Diagnostic(code, begin, end) == [code |-> code, span |-> Span(begin, end)]
NoDiagnostic == Diagnostic("none", 0, 0)

ValidateEncoding ==
  IF HasBom THEN Diagnostic("E1001", 0, 3)
  ELSE IF ~ValidUtf8 THEN Diagnostic("E1002", utf8Error.begin, utf8Error.end)
  ELSE NoDiagnostic

Utf8Length(first) ==
  IF first <= 127 THEN 1 ELSE IF first <= 223 THEN 2 ELSE IF first <= 239 THEN 3 ELSE 4

\* Seeded fault: the line that begins at an offset does not have it.
LineOfLate(offset) == Cardinality({k \in DOMAIN lineStarts : k = 1 \/ lineStarts[k] < offset})

\* The number of the line an offset is in: the last that starts there or before.
LineOf(offset) == Cardinality({k \in DOMAIN lineStarts : lineStarts[k] <= offset})

\* Seeded fault: a carriage return is a character of its own.
UnitLengthLoose(offset) == Utf8Length(Byte(offset))

\* What an offset may not stand in the middle of: a character or CR LF.
UnitLength(offset) ==
  IF Byte(offset) \in {CR, LF} THEN LineEnd(offset) - offset ELSE Utf8Length(Byte(offset))

IsSourceBoundary(offset) ==
  LET reaches[from \in Nat] ==
        IF from >= offset THEN from = offset ELSE reaches[from + UnitLength(from)]
  IN /\ offset <= Size
     /\ ValidUtf8 \/ offset <= utf8Error.begin
     /\ reaches[lineStarts[LineOf(offset)]]

CanSlice(span) ==
  /\ ValidUtf8 /\ span.begin <= span.end
  /\ IsSourceBoundary(span.begin) /\ IsSourceBoundary(span.end)

Slice(span) == SubSeq(contents, span.begin + 1, span.end)

\* Asked of what is no place of the source.
NoLocation == [line |-> 0, column |-> 0]

LocationAt(offset) ==
  LET column[from \in Nat] ==
        IF from >= offset THEN 1 ELSE 1 + column[from + Utf8Length(Byte(from))]
  IN IF ~IsSourceBoundary(offset) THEN NoLocation
     ELSE [line |-> LineOf(offset), column |-> column[lineStarts[LineOf(offset)]]]

-----------------------------------------------------------------------------
(* Unicode, by code points: a character is the shortest form of a code     *)
(* point that is not a surrogate.                                          *)

\* Six more bits to a number.
Continued(high, byte) == high * 64 + (byte - 128)

CodePoint(bytes) ==
  CASE Len(bytes) = 1 -> bytes[1]
    [] Len(bytes) = 2 -> Continued(bytes[1] - 192, bytes[2])
    [] Len(bytes) = 3 -> Continued(Continued(bytes[1] - 224, bytes[2]), bytes[3])
    [] Len(bytes) = 4 ->
         Continued(Continued(Continued(bytes[1] - 240, bytes[2]), bytes[3]), bytes[4])

\* By the length of a form: its first bytes, and the first code point that it is for.
FirstBytes(length) ==
  CASE length = 1 -> 0 .. 127
    [] length = 2 -> 192 .. 223
    [] length = 3 -> 224 .. 239
    [] length = 4 -> 240 .. 247

LeastPoint(length) ==
  CASE length = 1 -> 0
    [] length = 2 -> 128
    [] length = 3 -> 2048
    [] length = 4 -> 65536

GreatestPoint == 1114111
Surrogates == 55296 .. 57343

IsCharacter(bytes) ==
  /\ Len(bytes) \in 1 .. 4
  /\ bytes[1] \in FirstBytes(Len(bytes))
  /\ \A k \in 2 .. Len(bytes) : bytes[k] \in 128 .. 191
  /\ CodePoint(bytes) >= LeastPoint(Len(bytes)) /\ CodePoint(bytes) <= GreatestPoint
  /\ CodePoint(bytes) \notin Surrogates

\* The offsets that whole characters lead to.
CharacterEnds ==
  LET upto[n \in 0 .. Size] ==
        IF n = 0 THEN {0}
        ELSE upto[n - 1] \cup
               {e \in {n} : \E b \in upto[n - 1] :
                  e - b <= 4 /\ IsCharacter(SubSeq(contents, b + 1, e))}
  IN upto[Size]

InCrLf(offset) == offset \in 1 .. Size - 1 /\ Byte(offset - 1) = CR /\ Byte(offset) = LF

LineEnds ==
  {e \in 1 .. Size : (Byte(e - 1) = LF \/ Byte(e - 1) = CR) /\ ~InCrLf(e)}

-----------------------------------------------------------------------------
(* Properties.                                                             *)

\* A text is refused exactly when it is not UTF-8, and the report begins where
\* the last whole character ends.
EncodingExact ==
  stage = "constructed" =>
    /\ ValidUtf8 <=> Size \in CharacterEnds
    /\ ~ValidUtf8 =>
         /\ utf8Error.begin \in CharacterEnds
         /\ \A e \in CharacterEnds : e <= utf8Error.begin
         /\ utf8Error.begin < utf8Error.end

\* Boundaries are the places between characters, CR LF being one: no span that
\* can be cut out of a text holds a part of a character.
BoundariesExact ==
  stage = "constructed" =>
    \A offset \in 0 .. Size + 1 :
      IsSourceBoundary(offset) <=> offset \in CharacterEnds /\ ~InCrLf(offset)

\* The line of a location is the number of lines that ended before it, its column
\* the number of characters of that line before it; an offset in a character or in
\* CR LF has none.
LocationsExact ==
  stage = "constructed" =>
    \A offset \in 0 .. Size + 1 :
      LET ended == {e \in LineEnds : e <= offset}
          start == IF ended = {} THEN 0 ELSE CHOOSE e \in ended : \A d \in ended : d <= e
      IN LocationAt(offset) =
           IF offset \in CharacterEnds /\ ~InCrLf(offset)
           THEN [line |-> Cardinality(ended) + 1,
                 column |-> Cardinality({e \in CharacterEnds : start < e /\ e <= offset}) + 1]
           ELSE NoLocation

\* A text is what its bytes say: whether it is UTF-8, which offsets are places of
\* the source, and on which line and column each of them stands.
SourceTextExact == EncodingExact /\ BoundariesExact /\ LocationsExact
=============================================================================
