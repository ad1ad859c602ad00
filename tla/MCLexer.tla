------------------------------ MODULE MCLexer ------------------------------
(***************************************************************************)
(* Texts of the bytes at which a decision about UTF-8 is made, and of line *)
(* ends among characters of one, two and four bytes; short texts of all    *)
(* that the scanner tells apart, and longer ones of what it reads as a     *)
(* whole: numbers, operators, names, comments.                             *)
(***************************************************************************)
EXTENDS Lexer

Upto(n, parts) == UNION {[1 .. m -> parts] : m \in 0 .. n}

-----------------------------------------------------------------------------
(* Encodings and lines.                                                    *)

EdgeBytes ==
  {65, 127, 128, 143, 144, 159, 160, 191, 192, 193, 194, 223, 224, 225, 236, 237, 238, 239, 240,
   241, 243, 244, 245, 255}

FourBytes ==
  {240, 241, 243, 244} \X {128, 143, 144, 191} \X {127, 128, 191, 192} \X {65, 128, 191, 255}

Joined(parts) == IF parts = <<>> THEN <<>> ELSE parts[1] \o (IF Len(parts) = 1 THEN <<>> ELSE
                 parts[2] \o (IF Len(parts) = 2 THEN <<>> ELSE parts[3] \o
                 (IF Len(parts) = 3 THEN <<>> ELSE parts[4])))

Bom == <<239, 187, 191>>
Parts == {<<65>>, <<CR>>, <<LF>>, <<195, 169>>, <<240, 159, 148, 165>>, <<128>>}

EncodingTexts ==
  Upto(2, EdgeBytes) \cup {<<b, c, d>> : b \in 224 .. 244, c, d \in EdgeBytes}
    \cup FourBytes \cup {Joined(p) : p \in Upto(4, Parts)}
    \cup {Bom, Bom \o <<65>>, Bom \o <<128>>, <<239, 187>>}

-----------------------------------------------------------------------------
(* Tokens.                                                                 *)

Short == {9, 10, 13, 32, 33, 35, 40, 45, 46, 47, 48, 49, 61, 62, 95, 102, 125, 195, 233}
NumberBytes == {48, 55, 46, 95, 102, 43}
OperatorBytes == {33, 61, 60, 62, 45, 47}
NameBytes == {102, 110, 105, 54, 52, 95}
CommentBytesUsed == {47, 13, 10, 102, 32}

Letter == <<195, 169>>
Sign == <<226, 130, 172>>

KeywordTexts == Spellings(Keywords)
Around == {<<32>>, <<95>>, <<49>>, <<46>>, <<33>>, <<59>>, Letter, Sign}

TokenTexts ==
  Upto(3, Short) \cup Upto(4, NumberBytes) \cup Upto(4, OperatorBytes) \cup Upto(4, NameBytes)
    \cup Upto(5, CommentBytesUsed)
    \cup {k \o a : k \in KeywordTexts, a \in Around} \cup {a \o k : k \in KeywordTexts, a \in Around}
    \cup {<<47, 47>> \o a \o <<13, 10>> \o b : a, b \in Around}
    \cup {<<48, 46, 49, 102, 102>>, <<49, 46, 50, 102, 43>>, <<49, 46, 50, 46, 51>>}

MCTexts == EncodingTexts \cup TokenTexts
=============================================================================
