---------------------------- MODULE Lexer_proofs ----------------------------
(***************************************************************************)
(* Proofs about SourceText and Lexer: the constructor's scan of the bytes  *)
(* finds the characters of the definition by code points and the lines,    *)
(* and every step of the scanner keeps that what has been scanned is       *)
(* tokens that are right and blanks between them.  The recursive functions *)
(* of both modules are unfolded with the lemmas of Induction.              *)
(***************************************************************************)
EXTENDS Lexer, FiniteSetTheorems, SequenceTheorems, WellFoundedInduction, TLAPS

-----------------------------------------------------------------------------
(* Induction over the natural numbers, stated about sets: a property of    *)
(* numbers is the set of the numbers that have it.                         *)

\* The order by which the induction goes.
LessThan == {s \in Nat \X Nat : s[1] < s[2]}

LEMMA LessThanWellFounded == IsWellFoundedOn(LessThan, Nat)
BY NatLessThanWellFounded DEF OpToRel, LessThan

\* A set of natural numbers has a least element.
LEMMA LeastNatural ==
  ASSUME NEW T, T \subseteq Nat, T # {}
  PROVE  \E x \in T : \A y \in T : x <= y
<1>1. PICK x \in T : \A y \in T : <<y, x>> \notin LessThan
  BY LessThanWellFounded, WFMin
<1>2. ASSUME NEW y \in T, y < x PROVE FALSE
  <2>1. <<y, x>> \in LessThan
    BY <1>2 DEF LessThan
  <2> QED BY <1>1, <2>1
<1> QED BY <1>1, <1>2

\* A set that has the first number of an interval, and with each number the
\* next one up to the last, has all of them.
LEMMA IntervalInduction ==
  ASSUME NEW m \in Nat, NEW n \in Nat, NEW S,
         m \in S,
         \A k \in m .. n - 1 : k \in S => k + 1 \in S
  PROVE  m .. n \subseteq S
<1> DEFINE T == (m .. n) \ S
<1> SUFFICES ASSUME T # {} PROVE FALSE
  OBVIOUS
<1>1. PICK x \in T : \A y \in T : x <= y
  <2>1. T \subseteq Nat
    OBVIOUS
  <2> QED BY <2>1, LeastNatural
<1>2. x \in m + 1 .. n /\ x - 1 \in m .. n - 1
  OBVIOUS
<1>3. x - 1 \in S
  BY <1>1, <1>2
<1> QED BY <1>2, <1>3

\* The values that a step makes of a first one, in a sequence of n: the step may
\* depend on the number of the value.
Iterates(f, n, first, Step) ==
  \A k \in 1 .. n : f[k] = IF k = 1 THEN first ELSE Step[k][f[k - 1]]

LEMMA Iteration ==
  ASSUME NEW n \in Nat, NEW S, NEW first \in S, NEW Step, Step \in [2 .. n -> [S -> S]]
  PROVE  \E f \in [1 .. n -> S] : Iterates(f, n, first, Step)
<1> DEFINE P(f, m) == \A k \in 1 .. m : f[k] = IF k = 1 THEN first ELSE Step[k][f[k - 1]]
           T == {m \in 0 .. n : \E f \in [1 .. m -> S] : P(f, m)}
<1>1. 0 \in T
  <2>1. [k \in 1 .. 0 |-> first] \in [1 .. 0 -> S] /\ P([k \in 1 .. 0 |-> first], 0)
    OBVIOUS
  <2> HIDE DEF P
  <2> QED BY <2>1
<1>2. ASSUME NEW m \in 0 .. n - 1, m \in T PROVE m + 1 \in T
  <2>1. PICK f \in [1 .. m -> S] : P(f, m)
    BY <1>2
  <2> DEFINE next == IF m = 0 THEN first ELSE Step[m + 1][f[m]]
             g == [k \in 1 .. m + 1 |-> IF k = m + 1 THEN next ELSE f[k]]
  <2>2. next \in S
    OBVIOUS
  <2>3. g \in [1 .. m + 1 -> S]
    BY <2>2
  <2>4. ASSUME NEW k \in 1 .. m + 1
        PROVE  g[k] = IF k = 1 THEN first ELSE Step[k][g[k - 1]]
    <3>1. CASE k = m + 1
      BY <3>1
    <3>2. CASE k \in 1 .. m
      BY <2>1, <3>2
    <3> QED BY <3>1, <3>2
  <2>5. P(g, m + 1)
    BY <2>4
  <2> HIDE DEF g, P
  <2> QED BY <2>3, <2>5
<1>3. 0 .. n \subseteq T
  <2> HIDE DEF T
  <2> QED BY <1>1, <1>2, IntervalInduction
<1> QED BY <1>3 DEF Iterates

\* A walk up to n: the value at a number below it is made of the one at a number
\* further on.
Walks(f, n, base, next, Step) ==
  \A k \in Nat : f[k] = IF k >= n THEN base[k] ELSE Step[k][f[next[k]]]

LEMMA Walk ==
  ASSUME NEW n \in Nat, NEW S, NEW base \in [Nat -> S], NEW next \in [Nat -> Nat],
         NEW Step, Step \in [Nat -> [S -> S]], \A k \in 0 .. n - 1 : next[k] > k
  PROVE  \E f \in [Nat -> S] : Walks(f, n, base, next, Step)
<1> DEFINE P(f, m) == \A k \in Nat : k >= n - m =>
                        f[k] = IF k >= n THEN base[k] ELSE Step[k][f[next[k]]]
           T == {m \in 0 .. n : \E f \in [Nat -> S] : P(f, m)}
<1>1. 0 \in T
  <2>1. P(base, 0)
    OBVIOUS
  <2> HIDE DEF P
  <2> QED BY <2>1
<1>2. ASSUME NEW m \in 0 .. n - 1, m \in T PROVE m + 1 \in T
  <2>1. PICK f \in [Nat -> S] : P(f, m)
    BY <1>2
  <2> DEFINE at == n - (m + 1)
             value == Step[at][f[next[at]]]
             g == [k \in Nat |-> IF k = at THEN value ELSE f[k]]
  <2>2. at \in 0 .. n - 1 /\ value \in S
    OBVIOUS
  <2>3. g \in [Nat -> S]
    <3> HIDE DEF value
    <3> QED BY <2>2
  <2>4. ASSUME NEW k \in Nat, k >= at
        PROVE  g[k] = IF k >= n THEN base[k] ELSE Step[k][g[next[k]]]
    <3>1. k < n => next[k] > k /\ next[k] \in Nat
      OBVIOUS
    <3>2. k < n => g[next[k]] = f[next[k]]
      BY <2>2, <2>4, <3>1
    <3>3. CASE k = at
      BY <2>2, <3>2, <3>3
    <3>4. CASE k # at
      <4>1. k >= n - m
        BY <2>2, <2>4, <3>4
      <4>2. g[k] = f[k]
        BY <3>4
      <4> QED BY <2>1, <3>2, <4>1, <4>2
    <3> QED BY <3>3, <3>4
  <2>5. P(g, m + 1)
    <3> HIDE DEF g
    <3> QED BY <2>4
  <2> HIDE DEF g, P
  <2> QED BY <2>3, <2>5
<1>3. 0 .. n \subseteq T
  <2> HIDE DEF T
  <2> QED BY <1>1, <1>2, IntervalInduction
<1>4. n \in T
  <2> HIDE DEF T
  <2> QED BY <1>3
<1>5. PICK f \in [Nat -> S] : P(f, n)
  <2> HIDE DEF P
  <2> QED BY <1>4
<1>6. \A k \in Nat : k >= n - n
  OBVIOUS
<1> QED BY <1>5, <1>6 DEF Walks

\* A set of natural numbers that goes no further than one of them has a greatest element.
LEMMA GreatestNatural ==
  ASSUME NEW n \in Nat, NEW T, T \subseteq 0 .. n, T # {}
  PROVE  \E x \in T : \A y \in T : y <= x
<1> DEFINE D == {d \in 0 .. n : n - d \in T}
<1>1. D # {}
  <2>1. PICK t \in T : TRUE
    OBVIOUS
  <2>2. t \in 0 .. n
    OBVIOUS
  <2>3. n - t \in 0 .. n /\ n - (n - t) = t
    BY <2>2
  <2> QED BY <2>1, <2>3
<1>2. PICK d \in D : \A c \in D : d <= c
  <2>1. D \subseteq Nat
    OBVIOUS
  <2> HIDE DEF D
  <2> QED BY <1>1, <2>1, LeastNatural
<1>3. ASSUME NEW y \in T PROVE y <= n - d
  <2>1. y \in 0 .. n /\ n - y \in 0 .. n /\ n - (n - y) = y
    OBVIOUS
  <2>2. n - y \in D
    BY <2>1
  <2> HIDE DEF D
  <2>3. d \in Int /\ d <= n - y
    BY <1>2, <2>2 DEF D
  <2> QED BY <2>1, <2>3
<1> QED BY <1>3

-----------------------------------------------------------------------------
-----------------------------------------------------------------------------
(* Characters: the forms of the definition are those that are accepted.    *)

Bytes == 0 .. 255

LEMMA SequenceLengthFacts ==
  ASSUME NEW first \in Bytes
  PROVE  /\ SequenceLength(first) \in 0 .. 4
         /\ SequenceLength(first) = 1 <=> first \in 0 .. 127
         /\ SequenceLength(first) = 2 <=> first \in 194 .. 223
         /\ SequenceLength(first) = 3 <=> first \in 224 .. 239
         /\ SequenceLength(first) = 4 <=> first \in 240 .. 244
         /\ SequenceLength(first) # 0 => Utf8Length(first) = SequenceLength(first)
BY SMTT(30) DEF SequenceLength, Utf8Length, Bytes

\* What is a continuation begins nothing, and is no line end.
LEMMA ContinuationFacts ==
  ASSUME NEW first \in Bytes, NEW b \in Bytes, b \in SecondBytes(first) \/ b \in Continuations
  PROVE  SequenceLength(b) = 0 /\ b \notin 0 .. 127 /\ b \in 128 .. 191
BY SMTT(30) DEF SequenceLength, SecondBytes, Continuations, Bytes

LEMMA FormFacts ==
  /\ FirstBytes(1) = 0 .. 127 /\ LeastPoint(1) = 0
  /\ FirstBytes(2) = 192 .. 223 /\ LeastPoint(2) = 128
  /\ FirstBytes(3) = 224 .. 239 /\ LeastPoint(3) = 2048
  /\ FirstBytes(4) = 240 .. 247 /\ LeastPoint(4) = 65536
BY DEF FirstBytes, LeastPoint

LEMMA OneBytePoints ==
  ASSUME NEW a \in Bytes,
         NEW point, point = a
  PROVE  (a \in 0 .. 127
          /\ point >= 0 /\ point <= GreatestPoint /\ point \notin Surrogates)
         <=> a \in 0 .. 127
BY SMTT(60) DEF GreatestPoint, Surrogates, Continued, Bytes

LEMMA OneByte ==
  ASSUME NEW bytes, Len(bytes) = 1,
         bytes[1] \in Bytes
  PROVE  IsCharacter(bytes) <=>
           SequenceLength(bytes[1]) = 1
<1> DEFINE point == bytes[1]
<1>1. CodePoint(bytes) = point
  BY SMT DEF CodePoint
<1>2. IsCharacter(bytes) <=>
        /\ bytes[1] \in 0 .. 127
        /\ point >= 0 /\ point <= GreatestPoint /\ point \notin Surrogates
  <2> HIDE DEF point
  <2> QED BY <1>1, FormFacts, SMT DEF IsCharacter
<1>3. SequenceLength(bytes[1]) = 1 <=> bytes[1] \in 0 .. 127
  BY SequenceLengthFacts
<1> QED BY <1>2, <1>3, OneBytePoints

LEMMA TwoBytesPoints ==
  ASSUME NEW a \in Bytes, NEW b \in Bytes,
         NEW point, point = Continued(a - 192, b)
  PROVE  (a \in 192 .. 223 /\ b \in 128 .. 191
          /\ point >= 128 /\ point <= GreatestPoint /\ point \notin Surrogates)
         <=> a \in 194 .. 223 /\ b \in (128 .. 191)
BY SMTT(60) DEF GreatestPoint, Surrogates, Continued, Bytes

LEMMA TwoBytes ==
  ASSUME NEW bytes, Len(bytes) = 2,
         bytes[1] \in Bytes, bytes[2] \in Bytes
  PROVE  IsCharacter(bytes) <=>
           SequenceLength(bytes[1]) = 2 /\ bytes[2] \in SecondBytes(bytes[1])
<1> DEFINE point == Continued(bytes[1] - 192, bytes[2])
<1>1. CodePoint(bytes) = point
  BY SMT DEF CodePoint
<1>2. IsCharacter(bytes) <=>
        /\ bytes[1] \in 192 .. 223 /\ bytes[2] \in 128 .. 191
        /\ point >= 128 /\ point <= GreatestPoint /\ point \notin Surrogates
  <2> HIDE DEF point
  <2> QED BY <1>1, FormFacts, SMT DEF IsCharacter
<1>3. SequenceLength(bytes[1]) = 2 <=> bytes[1] \in 194 .. 223
  BY SequenceLengthFacts
<1>4. bytes[1] \in 194 .. 223 => SecondBytes(bytes[1]) = 128 .. 191
  BY SMT DEF SecondBytes
<1>5. IsCharacter(bytes) <=> bytes[1] \in 194 .. 223 /\ bytes[2] \in (128 .. 191)
  <2> HIDE DEF point
  <2>1. point = Continued(bytes[1] - 192, bytes[2])
    BY DEF point
  <2> QED BY <1>2, <2>1, TwoBytesPoints
<1> QED BY <1>3, <1>4, <1>5, SMT DEF Continuations

LEMMA ThreeBytesPoints ==
  ASSUME NEW a \in Bytes, NEW b \in Bytes, NEW c \in Bytes,
         NEW point, point = Continued(Continued(a - 224, b), c)
  PROVE  (a \in 224 .. 239 /\ b \in 128 .. 191 /\ c \in 128 .. 191
          /\ point >= 2048 /\ point <= GreatestPoint /\ point \notin Surrogates)
         <=> a \in 224 .. 239 /\ b \in (IF a = 224 THEN 160 .. 191
             ELSE IF a = 237 THEN 128 .. 159 ELSE 128 .. 191) /\ c \in 128 .. 191
BY SMTT(60) DEF GreatestPoint, Surrogates, Continued, Bytes

LEMMA ThreeBytes ==
  ASSUME NEW bytes, Len(bytes) = 3,
         bytes[1] \in Bytes, bytes[2] \in Bytes, bytes[3] \in Bytes
  PROVE  IsCharacter(bytes) <=>
           /\ SequenceLength(bytes[1]) = 3 /\ bytes[2] \in SecondBytes(bytes[1])
           /\ bytes[3] \in Continuations
<1> DEFINE point == Continued(Continued(bytes[1] - 224, bytes[2]), bytes[3])
<1>1. CodePoint(bytes) = point
  BY SMT DEF CodePoint
<1>2. IsCharacter(bytes) <=>
        /\ bytes[1] \in 224 .. 239 /\ bytes[2] \in 128 .. 191 /\ bytes[3] \in 128 .. 191
        /\ point >= 2048 /\ point <= GreatestPoint /\ point \notin Surrogates
  <2> HIDE DEF point
  <2> QED BY <1>1, FormFacts, SMT DEF IsCharacter
<1>3. SequenceLength(bytes[1]) = 3 <=> bytes[1] \in 224 .. 239
  BY SequenceLengthFacts
<1>4. bytes[1] \in 224 .. 239 => SecondBytes(bytes[1]) = IF bytes[1] = 224 THEN 160 .. 191
             ELSE IF bytes[1] = 237 THEN 128 .. 159 ELSE 128 .. 191
  BY SMT DEF SecondBytes
<1>5. IsCharacter(bytes) <=> bytes[1] \in 224 .. 239 /\ bytes[2] \in (IF bytes[1] = 224 THEN 160 .. 191
             ELSE IF bytes[1] = 237 THEN 128 .. 159 ELSE 128 .. 191) /\ bytes[3] \in 128 .. 191
  <2> HIDE DEF point
  <2>1. point = Continued(Continued(bytes[1] - 224, bytes[2]), bytes[3])
    BY DEF point
  <2> QED BY <1>2, <2>1, ThreeBytesPoints
<1> QED BY <1>3, <1>4, <1>5, SMT DEF Continuations

LEMMA FourBytesPoints ==
  ASSUME NEW a \in Bytes, NEW b \in Bytes, NEW c \in Bytes, NEW d \in Bytes,
         NEW point, point = Continued(Continued(Continued(a - 240, b), c), d)
  PROVE  (a \in 240 .. 247 /\ b \in 128 .. 191 /\ c \in 128 .. 191 /\ d \in 128 .. 191
          /\ point >= 65536 /\ point <= GreatestPoint /\ point \notin Surrogates)
         <=> a \in 240 .. 244 /\ b \in (IF a = 240 THEN 144 .. 191
             ELSE IF a = 244 THEN 128 .. 143 ELSE 128 .. 191) /\ c \in 128 .. 191 /\ d \in 128 .. 191
BY SMTT(60) DEF GreatestPoint, Surrogates, Continued, Bytes

LEMMA FourBytes ==
  ASSUME NEW bytes, Len(bytes) = 4,
         bytes[1] \in Bytes, bytes[2] \in Bytes, bytes[3] \in Bytes, bytes[4] \in Bytes
  PROVE  IsCharacter(bytes) <=>
           /\ SequenceLength(bytes[1]) = 4 /\ bytes[2] \in SecondBytes(bytes[1])
           /\ bytes[3] \in Continuations
           /\ bytes[4] \in Continuations
<1> DEFINE point == Continued(Continued(Continued(bytes[1] - 240, bytes[2]), bytes[3]), bytes[4])
<1>1. CodePoint(bytes) = point
  BY SMT DEF CodePoint
<1>2. IsCharacter(bytes) <=>
        /\ bytes[1] \in 240 .. 247 /\ bytes[2] \in 128 .. 191
        /\ bytes[3] \in 128 .. 191 /\ bytes[4] \in 128 .. 191
        /\ point >= 65536 /\ point <= GreatestPoint /\ point \notin Surrogates
  <2> HIDE DEF point
  <2> QED BY <1>1, FormFacts, SMT DEF IsCharacter
<1>3. SequenceLength(bytes[1]) = 4 <=> bytes[1] \in 240 .. 244
  BY SequenceLengthFacts
<1>4. bytes[1] \in 240 .. 244 => SecondBytes(bytes[1]) = IF bytes[1] = 240 THEN 144 .. 191
             ELSE IF bytes[1] = 244 THEN 128 .. 143 ELSE 128 .. 191
  BY SMT DEF SecondBytes
<1>5. IsCharacter(bytes) <=>
        /\ bytes[1] \in 240 .. 244
        /\ bytes[2] \in (IF bytes[1] = 240 THEN 144 .. 191
                        ELSE IF bytes[1] = 244 THEN 128 .. 143 ELSE 128 .. 191)
        /\ bytes[3] \in 128 .. 191 /\ bytes[4] \in 128 .. 191
  <2> HIDE DEF point
  <2>1. point = Continued(Continued(Continued(bytes[1] - 240, bytes[2]), bytes[3]), bytes[4])
    BY DEF point
  <2> QED BY <1>2, <2>1, FourBytesPoints
<1> QED BY <1>3, <1>4, <1>5, SMT DEF Continuations

\* The scanner of encodings goes on from an offset.
ValidAt(b) ==
  LET length == SequenceLength(Byte(b))
  IN length # 0 /\ b + length <= Size /\ WrongBytes(b, length) = {}

\* The bytes between two offsets are one character.
IsCharacterFrom(b, e) == e - b <= 4 /\ IsCharacter(SubSeq(contents, b + 1, e))

IsText == contents \in Seq(Bytes)

LEMMA ByteFacts ==
  ASSUME IsText
  PROVE  Size \in Nat /\ \A b \in 0 .. Size - 1 : Byte(b) \in Bytes
BY ElementOfSeq, LenProperties DEF IsText, Size, Byte

LEMMA CharacterAt ==
  ASSUME IsText, NEW b \in Nat, NEW e \in Nat, b < e, e <= Size
  PROVE  IsCharacterFrom(b, e) <=> ValidAt(b) /\ e = b + SequenceLength(Byte(b))
<1> DEFINE s == SubSeq(contents, b + 1, e)
           first == Byte(b)
<1>0. Size \in Nat /\ \A k \in 0 .. Size - 1 : Byte(k) \in Bytes
  BY ByteFacts
<1>1. Len(s) = e - b /\ \A k \in 1 .. e - b : s[k] = Byte(b + k - 1)
  BY <1>0, SubSeqProperties DEF IsText, Size, Byte
<1>2. SequenceLength(first) \in 0 .. 4
  BY <1>0, SequenceLengthFacts
<1>3. \A k \in Nat : b + k < e => Byte(b + k) \in Bytes
  BY <1>0
<1>w. \A n \in Nat : WrongBytes(b, n) = {} <=>
         \A k \in 1 .. n - 1 : Byte(b + k) \in IF k = 1 THEN SecondBytes(Byte(b)) ELSE Continuations
  BY DEF WrongBytes
<1>4. CASE e - b = 1
  <2>1. s[1] = first /\ first \in Bytes
    BY <1>0, <1>1, <1>4
  <2>2. WrongBytes(b, 1) = {}
    BY <1>w
  <2>3. IsCharacter(s) <=> SequenceLength(first) = 1
    BY <1>1, <1>4, <2>1, OneByte
  <2> QED BY <1>0, <1>2, <1>4, <2>2, <2>3 DEF IsCharacterFrom, ValidAt
<1>5. CASE e - b = 2
  <2>1. s[1] = first /\ s[2] = Byte(b + 1) /\ first \in Bytes /\ Byte(b + 1) \in Bytes
    BY <1>0, <1>1, <1>5
  <2>2. WrongBytes(b, 2) = {} <=> Byte(b + 1) \in SecondBytes(first)
    BY <1>w
  <2>3. IsCharacter(s) <=> SequenceLength(first) = 2 /\ Byte(b + 1) \in SecondBytes(first)
    BY <1>1, <1>5, <2>1, TwoBytes
  <2> QED BY <1>0, <1>2, <1>5, <2>2, <2>3 DEF IsCharacterFrom, ValidAt
<1>6. CASE e - b = 3
  <2>1. /\ s[1] = first /\ s[2] = Byte(b + 1) /\ s[3] = Byte(b + 2)
        /\ first \in Bytes /\ Byte(b + 1) \in Bytes /\ Byte(b + 2) \in Bytes
    BY <1>0, <1>1, <1>6
  <2>2. WrongBytes(b, 3) = {} <=>
          Byte(b + 1) \in SecondBytes(first) /\ Byte(b + 2) \in Continuations
    <3>1. \A k \in 1 .. 3 - 1 : k = 1 \/ k = 2
      OBVIOUS
    <3>2. 1 \in 1 .. 3 - 1 /\ 2 \in 1 .. 3 - 1 /\ 2 # 1
      OBVIOUS
    <3> QED BY <1>w, <3>1, <3>2
  <2>3. IsCharacter(s) <=> /\ SequenceLength(first) = 3 /\ Byte(b + 1) \in SecondBytes(first)
                           /\ Byte(b + 2) \in Continuations
    BY <1>1, <1>6, <2>1, ThreeBytes
  <2> QED BY <1>0, <1>2, <1>6, <2>2, <2>3 DEF IsCharacterFrom, ValidAt
<1>7. CASE e - b = 4
  <2>1. /\ s[1] = first /\ s[2] = Byte(b + 1) /\ s[3] = Byte(b + 2) /\ s[4] = Byte(b + 3)
        /\ first \in Bytes /\ Byte(b + 1) \in Bytes /\ Byte(b + 2) \in Bytes /\ Byte(b + 3) \in Bytes
    BY <1>0, <1>1, <1>7
  <2>2. WrongBytes(b, 4) = {} <=>
          /\ Byte(b + 1) \in SecondBytes(first) /\ Byte(b + 2) \in Continuations
          /\ Byte(b + 3) \in Continuations
    <3>1. \A k \in 1 .. 4 - 1 : k = 1 \/ k = 2 \/ k = 3
      OBVIOUS
    <3>2. 1 \in 1 .. 4 - 1 /\ 2 \in 1 .. 4 - 1 /\ 3 \in 1 .. 4 - 1 /\ 2 # 1 /\ 3 # 1
      OBVIOUS
    <3> QED BY <1>w, <3>1, <3>2
  <2>3. IsCharacter(s) <=> /\ SequenceLength(first) = 4 /\ Byte(b + 1) \in SecondBytes(first)
                           /\ Byte(b + 2) \in Continuations /\ Byte(b + 3) \in Continuations
    BY <1>1, <1>7, <2>1, FourBytes
  <2> QED BY <1>0, <1>2, <1>7, <2>2, <2>3 DEF IsCharacterFrom, ValidAt
<1>8. CASE e - b > 4
  BY <1>2, <1>8 DEF IsCharacterFrom
<1> QED BY <1>4, <1>5, <1>6, <1>7, <1>8

\* Inside a character there are continuations only.
LEMMA InsideCharacter ==
  ASSUME IsText, NEW b \in Nat, b < Size, ValidAt(b),
         NEW x \in b + 1 .. b + SequenceLength(Byte(b)) - 1
  PROVE  x < Size /\ ~ValidAt(x) /\ Byte(x) \in 128 .. 191
<1>1. Size \in Nat /\ \A k \in 0 .. Size - 1 : Byte(k) \in Bytes
  BY ByteFacts
<1>2. SequenceLength(Byte(b)) \in 0 .. 4
  BY <1>1, SequenceLengthFacts
<1>3. x < Size /\ Byte(x) \in Bytes /\ Byte(b) \in Bytes
  BY <1>1, <1>2 DEF ValidAt
<1>4. x - b \in 1 .. SequenceLength(Byte(b)) - 1 /\ b + (x - b) = x
  BY <1>2
<1>5. Byte(x) \in SecondBytes(Byte(b)) \/ Byte(x) \in Continuations
  BY <1>4 DEF ValidAt, WrongBytes
<1> QED BY <1>3, <1>5, ContinuationFacts DEF ValidAt

-----------------------------------------------------------------------------
(* The ends of whole characters.                                           *)

After(b) == b + SequenceLength(Byte(b))

LEMMA EndsRecursion ==
  ASSUME Size \in Nat
  PROVE  \E u :
           /\ CharacterEnds = u[Size]
           /\ u[0] = {0}
           /\ \A n \in 1 .. Size :
                u[n] = u[n - 1] \cup {e \in {n} : \E b \in u[n - 1] : IsCharacterFrom(b, e)}
<1> DEFINE V == SUBSET (0 .. Size)
           Further(k, S) == S \cup {e \in {k - 1} : \E b \in S : IsCharacterFrom(b, e)}
           Step == [k \in 2 .. Size + 1 |-> [S \in V |-> Further(k, S)]]
<1>1. {0} \in V
  OBVIOUS
<1>2. Step \in [2 .. Size + 1 -> [V -> V]]
  <2>1. ASSUME NEW k \in 2 .. Size + 1, NEW S \in V PROVE Further(k, S) \in V
    <3>1. k - 1 \in 0 .. Size
      OBVIOUS
    <3> QED BY <3>1
  <2> HIDE DEF V, Further
  <2> QED BY <2>1
<1>3. PICK f \in [1 .. Size + 1 -> V] : Iterates(f, Size + 1, {0}, Step)
  <2>1. Size + 1 \in Nat
    OBVIOUS
  <2> HIDE DEF Step, V
  <2> QED BY <2>1, <1>1, <1>2, Iteration
<1> DEFINE u == [n \in 0 .. Size |-> f[n + 1]]
<1>4. u \in [0 .. Size -> V]
  <2>1. \A n \in 0 .. Size : n + 1 \in 1 .. Size + 1
    OBVIOUS
  <2> HIDE DEF V
  <2> QED BY <2>1
<1>5. u[0] = {0}
  <2>1. 0 \in 0 .. Size /\ 0 + 1 = 1 /\ 1 \in 1 .. Size + 1
    OBVIOUS
  <2>2. f[1] = {0}
    <3> HIDE DEF Step, V
    <3> QED BY <1>3, <2>1 DEF Iterates
  <2> QED BY <2>1, <2>2
<1>6. ASSUME NEW n \in 1 .. Size PROVE u[n] = Further(n + 1, u[n - 1])
  <2>1. n + 1 \in 2 .. Size + 1 /\ n + 1 \in 1 .. Size + 1 /\ n + 1 # 1 /\ (n + 1) - 1 = n
    OBVIOUS
  <2>2. f[n + 1] = Step[n + 1][f[n]]
    <3> HIDE DEF Step
    <3> QED BY <1>3, <2>1 DEF Iterates
  <2>3. f[n] \in V
    <3> HIDE DEF V
    <3> QED BY <2>1
  <2>4. f[n + 1] = Further(n + 1, f[n])
    <3> HIDE DEF Further, V
    <3> QED BY <2>1, <2>2, <2>3
  <2>5. u[n] = f[n + 1] /\ u[n - 1] = f[n]
    <3>1. n \in 0 .. Size /\ n - 1 \in 0 .. Size /\ (n - 1) + 1 = n
      OBVIOUS
    <3> QED BY <3>1
  <2> HIDE DEF Further, u
  <2> QED BY <2>4, <2>5
<1>7. ASSUME NEW n \in 1 .. Size
      PROVE  u[n] = u[n - 1] \cup {e \in {n} : \E b \in u[n - 1] : IsCharacterFrom(b, e)}
  <2>1. (n + 1) - 1 = n
    OBVIOUS
  <2> HIDE DEF u
  <2> QED BY <1>6, <2>1
<1>8. u = [n \in 0 .. Size |->
             IF n = 0 THEN {0}
             ELSE u[n - 1] \cup {e \in {n} : \E b \in u[n - 1] :
                                   e - b <= 4 /\ IsCharacter(SubSeq(contents, b + 1, e))}]
  <2>1. \A n \in 0 .. Size : n # 0 => n \in 1 .. Size
    OBVIOUS
  <2>2. DOMAIN u = 0 .. Size /\ u = [n \in DOMAIN u |-> u[n]]
    OBVIOUS
  <2> HIDE DEF u
  <2> QED BY <1>5, <1>7, <2>1, <2>2 DEF IsCharacterFrom
<1> DEFINE upto[n \in 0 .. Size] ==
             IF n = 0 THEN {0}
             ELSE upto[n - 1] \cup
                    {e \in {n} : \E b \in upto[n - 1] :
                       e - b <= 4 /\ IsCharacter(SubSeq(contents, b + 1, e))}
<1>9. upto = [n \in 0 .. Size |->
                IF n = 0 THEN {0}
                ELSE upto[n - 1] \cup {e \in {n} : \E b \in upto[n - 1] :
                                         e - b <= 4 /\ IsCharacter(SubSeq(contents, b + 1, e))}]
  <2>1. \E g : g = [n \in 0 .. Size |->
                IF n = 0 THEN {0}
                ELSE g[n - 1] \cup {e \in {n} : \E b \in g[n - 1] :
                                         e - b <= 4 /\ IsCharacter(SubSeq(contents, b + 1, e))}]
    <3> HIDE DEF u
    <3> QED BY <1>8
  <2> QED BY <2>1
<1>10. CharacterEnds = upto[Size]
  BY DEF CharacterEnds
<1>11. upto[0] = {0}
  <2>1. 0 \in 0 .. Size
    OBVIOUS
  <2> HIDE DEF upto
  <2> QED BY <1>9, <2>1
<1>12. ASSUME NEW n \in 1 .. Size
       PROVE  upto[n] = upto[n - 1] \cup {e \in {n} : \E b \in upto[n - 1] : IsCharacterFrom(b, e)}
  <2>1. n \in 0 .. Size /\ n # 0
    OBVIOUS
  <2> HIDE DEF upto
  <2> QED BY <1>9, <2>1 DEF IsCharacterFrom
<1> HIDE DEF upto, u, V, Step
<1> QED BY <1>10, <1>11, <1>12, Zenon

\* The ends, without the order in which they are found.
LEMMA EndsFacts ==
  ASSUME IsText
  PROVE  /\ CharacterEnds \subseteq 0 .. Size /\ 0 \in CharacterEnds
         /\ \A e \in 1 .. Size :
              e \in CharacterEnds <=>
                \E b \in CharacterEnds : b < e /\ ValidAt(b) /\ e = After(b)
<1>0. Size \in Nat
  BY ByteFacts
<1>1. PICK u : /\ CharacterEnds = u[Size]
               /\ u[0] = {0}
               /\ \A n \in 1 .. Size :
                    u[n] = u[n - 1] \cup {e \in {n} : \E b \in u[n - 1] : IsCharacterFrom(b, e)}
  BY <1>0, EndsRecursion
<1> DEFINE Grows(n) == /\ u[n] \subseteq 0 .. n /\ 0 \in u[n]
                       /\ \A e \in 1 .. n : e \in u[n] <=> \E b \in u[n] : b < e /\ IsCharacterFrom(b, e)
           T == {n \in 0 .. Size : Grows(n)}
<1>2. 0 \in T
  BY <1>0, <1>1
<1>3. ASSUME NEW n \in 0 .. Size - 1, n \in T PROVE n + 1 \in T
  <2>0. n + 1 \in 1 .. Size /\ n + 1 \in 0 .. Size /\ (n + 1) - 1 = n /\ n \in Nat
    BY <1>0
  <2>1. u[n + 1] = u[n] \cup {e \in {n + 1} : \E b \in u[n] : IsCharacterFrom(b, e)}
    BY <1>1, <2>0
  <2>2. Grows(n)
    BY <1>3
  <2>3. u[n + 1] \subseteq 0 .. n + 1 /\ 0 \in u[n + 1]
    BY <2>0, <2>1, <2>2
  <2>4. \A b \in 0 .. n : b \in u[n + 1] <=> b \in u[n]
    BY <2>0, <2>1
  <2>5. n + 1 \in u[n + 1] <=> \E b \in u[n] : IsCharacterFrom(b, n + 1)
    <3>1. n + 1 \notin u[n]
      BY <2>0, <2>2
    <3> QED BY <2>1, <3>1
  <2>6. ASSUME NEW e \in 1 .. n + 1
        PROVE  e \in u[n + 1] <=> \E b \in u[n + 1] : b < e /\ IsCharacterFrom(b, e)
    <3>1. \A b \in u[n + 1] : b < e => b \in 0 .. n
      BY <2>0, <2>3
    <3>2. CASE e = n + 1
      <4>1. \A b \in u[n] : b < e /\ b \in 0 .. n
        BY <2>0, <2>2, <3>2
      <4> QED BY <2>4, <2>5, <3>1, <3>2, <4>1
    <3>3. CASE e \in 1 .. n
      <4>1. e \in 0 .. n
        BY <3>3
      <4>2. \A b \in u[n] : b \in 0 .. n
        BY <2>2
      <4> QED BY <2>2, <2>4, <3>1, <3>3, <4>1, <4>2
    <3> QED BY <2>0, <3>2, <3>3
  <2>7. Grows(n + 1)
    BY <2>3, <2>6
  <2> QED BY <2>0, <2>7
<1>4. Grows(Size)
  <2>1. 0 .. Size \subseteq T
    <3> HIDE DEF T
    <3> QED BY <1>0, <1>2, <1>3, IntervalInduction
  <2>2. Size \in T
    <3> HIDE DEF T
    <3> QED BY <1>0, <2>1
  <2> QED BY <2>2
<1>5. ASSUME NEW e \in 1 .. Size, NEW b \in CharacterEnds, b < e
      PROVE  IsCharacterFrom(b, e) <=> ValidAt(b) /\ e = After(b)
  <2>1. b \in Nat /\ e \in Nat /\ e <= Size
    BY <1>0, <1>1, <1>4, <1>5
  <2> QED BY <1>5, <2>1, CharacterAt DEF After
<1> QED BY <1>1, <1>4, <1>5

LEMMA ValidFacts ==
  ASSUME IsText, NEW b \in Nat, b < Size, ValidAt(b)
  PROVE  /\ After(b) \in Nat /\ b < After(b) /\ After(b) <= Size /\ After(b) - b \in 1 .. 4
         /\ Utf8Length(Byte(b)) = After(b) - b
<1>1. Byte(b) \in Bytes /\ Size \in Nat
  BY ByteFacts
<1>2. SequenceLength(Byte(b)) \in 0 .. 4
  BY <1>1, SequenceLengthFacts
<1>3. SequenceLength(Byte(b)) # 0 /\ b + SequenceLength(Byte(b)) <= Size
  BY DEF ValidAt
<1>4. Utf8Length(Byte(b)) = SequenceLength(Byte(b))
  BY <1>1, <1>3, SequenceLengthFacts
<1> DEFINE length == SequenceLength(Byte(b))
<1>5. length \in 1 .. 4 /\ After(b) = b + length /\ b + length <= Size
  BY <1>2, <1>3 DEF After
<1> HIDE DEF length
<1>6. (b + length) - b = length
  BY <1>5
<1> QED BY <1>1, <1>4, <1>5, <1>6 DEF length

\* What follows a whole character is where it ends.
LEMMA AfterIsEnd ==
  ASSUME IsText, NEW b \in CharacterEnds, b < Size, ValidAt(b)
  PROVE  After(b) \in CharacterEnds
<1>1. b \in Nat /\ Size \in Nat
  BY EndsFacts, ByteFacts
<1>2. After(b) \in 1 .. Size /\ b < After(b)
  BY <1>1, ValidFacts
<1> QED BY <1>2, EndsFacts

\* Nothing ends inside a character.
LEMMA NoEndInside ==
  ASSUME IsText, NEW b \in CharacterEnds, b < Size, ValidAt(b),
         NEW x \in CharacterEnds, b < x
  PROVE  After(b) <= x
<1> SUFFICES ASSUME x < After(b) PROVE FALSE
  <2>1. x \in Nat /\ b \in Nat
    BY EndsFacts
  <2>2. After(b) \in Nat
    BY <2>1, ValidFacts
  <2> QED BY <2>1, <2>2
<1>1. x \in 1 .. Size /\ b \in Nat /\ Size \in Nat
  BY EndsFacts, ByteFacts
<1>2. PICK a \in CharacterEnds : a < x /\ ValidAt(a) /\ x = After(a)
  BY <1>1, EndsFacts
<1>3. a \in Nat /\ a < Size
  BY <1>1, <1>2, EndsFacts
<1>4. CASE a = b
  BY <1>1, <1>2, <1>4, ValidFacts
<1>5. CASE b < a
  <2>1. a \in b + 1 .. b + SequenceLength(Byte(b)) - 1
    <3>1. SequenceLength(Byte(b)) \in Int
      BY <1>1, ByteFacts, SequenceLengthFacts
    <3> QED BY <1>1, <1>2, <1>3, <1>5, <3>1 DEF After
  <2> QED BY <1>1, <1>2, <2>1, InsideCharacter
<1>6. CASE a < b
  <2>1. b \in a + 1 .. a + SequenceLength(Byte(a)) - 1
    <3>1. SequenceLength(Byte(a)) \in Int
      BY <1>3, ByteFacts, SequenceLengthFacts
    <3> QED BY <1>1, <1>2, <1>3, <1>6, <3>1 DEF After
  <2> QED BY <1>2, <1>3, <2>1, InsideCharacter
<1> QED BY <1>1, <1>3, <1>4, <1>5, <1>6

\* After what is no character nothing ends.
LEMMA NoEndBeyond ==
  ASSUME IsText, NEW b \in CharacterEnds, ~ValidAt(b),
         NEW e \in CharacterEnds
  PROVE  e <= b
<1>0. CharacterEnds \subseteq 0 .. Size /\ Size \in Nat /\ b \in Nat /\ e \in Nat
  BY EndsFacts, ByteFacts
<1> DEFINE Later == {x \in CharacterEnds : b < x}
<1> SUFFICES ASSUME Later # {} PROVE FALSE
  BY <1>0
<1>1. PICK x \in Later : \A y \in Later : x <= y
  <2>1. Later \subseteq Nat
    <3>1. \A y \in CharacterEnds : y \in Nat
      BY <1>0
    <3> QED BY <3>1
  <2> HIDE DEF Later
  <2> QED BY <2>1, LeastNatural
<1>2. x \in 1 .. Size /\ x \in CharacterEnds /\ b < x
  BY <1>0
<1>3. PICK a \in CharacterEnds : a < x /\ ValidAt(a) /\ x = After(a)
  BY <1>2, EndsFacts
<1>4. a \in Nat /\ a < Size
  BY <1>0, <1>2, <1>3
<1>5. a <= b
  BY <1>0, <1>1, <1>2, <1>3, <1>4
<1>6. a < b
  BY <1>0, <1>3, <1>4, <1>5
<1>7. After(a) <= b
  BY <1>3, <1>4, <1>6, NoEndInside
<1> QED BY <1>0, <1>2, <1>3, <1>7

\* A byte of ASCII before an end is a character.
LEMMA AsciiStandsAlone ==
  ASSUME IsText, NEW v \in CharacterEnds, NEW x \in Nat, x < v,
         Byte(x) \in 0 .. 127
  PROVE  x \in CharacterEnds /\ x + 1 \in CharacterEnds /\ ValidAt(x) /\ After(x) = x + 1
<1>0. CharacterEnds \subseteq 0 .. Size /\ Size \in Nat /\ 0 \in CharacterEnds
  BY EndsFacts, ByteFacts
<1>1. PICK b \in CharacterEnds : b <= x /\ \A y \in CharacterEnds : y <= x => y <= b
  <2> DEFINE Earlier == {y \in CharacterEnds : y <= x}
  <2>1. Earlier \subseteq 0 .. x /\ 0 \in Earlier
    <3>1. \A y \in CharacterEnds : y \in Nat
      BY <1>0
    <3>2. \A y \in CharacterEnds : y <= x => y \in 0 .. x
      BY <3>1
    <3>3. Earlier \subseteq 0 .. x
      BY <3>2
    <3>4. 0 <= x /\ 0 \in CharacterEnds
      BY <1>0
    <3> QED BY <3>3, <3>4
  <2>2. \E b \in Earlier : \A y \in Earlier : y <= b
    <3> HIDE DEF Earlier
    <3> QED BY <2>1, GreatestNatural
  <2> QED BY <2>2
<1>2. b \in CharacterEnds /\ b <= x /\ b \in Nat /\ b < Size
  <2>1. v \in 0 .. Size /\ b \in 0 .. Size
    BY <1>0
  <2> QED BY <1>0, <1>1, <2>1
<1>3. ValidAt(b)
  BY <1>0, <1>2, NoEndBeyond
<1>4. After(b) \in CharacterEnds /\ After(b) \in Nat /\ b < After(b)
  BY <1>2, <1>3, AfterIsEnd, ValidFacts
<1>5. x < After(b)
  BY <1>1, <1>2, <1>4
<1>6. x = b
  <2> SUFFICES ASSUME b < x PROVE FALSE
    BY <1>2
  <2>1. SequenceLength(Byte(b)) \in Int
    BY <1>2, ByteFacts, SequenceLengthFacts
  <2>2. x \in b + 1 .. b + SequenceLength(Byte(b)) - 1
    BY <1>2, <1>5, <2>1 DEF After
  <2>3. Byte(x) \in 128 .. 191
    BY <1>2, <1>3, <2>2, InsideCharacter
  <2> QED BY <2>3
<1>7. SequenceLength(Byte(x)) = 1
  <2>1. Byte(x) \in Bytes
    BY <1>2, <1>6, ByteFacts
  <2> QED BY <2>1, SequenceLengthFacts
<1> QED BY <1>2, <1>3, <1>4, <1>6, <1>7 DEF After

-----------------------------------------------------------------------------
(* The construction of a text.                                             *)

LineVector == lineStarts \in Seq(Nat) /\ Len(lineStarts) >= 1 /\ lineStarts[1] = 0

LineStartsUpTo(n) ==
  /\ LineVector
  /\ \A j, k \in DOMAIN lineStarts : j < k => lineStarts[j] < lineStarts[k]
  /\ \A k \in DOMAIN lineStarts : k # 1 => lineStarts[k] \in LineEnds /\ lineStarts[k] <= n
  /\ \A e \in LineEnds : e <= n => \E k \in DOMAIN lineStarts : k # 1 /\ lineStarts[k] = e

\* What the constructor has found out about the encoding.
EncodingKnown ==
  \/ utf8Error = NoSpan /\ Size \in CharacterEnds
  \/ \E begin \in CharacterEnds, end \in Nat :
       utf8Error = Span(begin, end) /\ begin < Size /\ begin < end /\ ~ValidAt(begin)

TextInv ==
  /\ IsText
  /\ stage = "lines" =>
       /\ index \in 0 .. Size /\ ~InCrLf(index)
       /\ LineStartsUpTo(index) /\ utf8Error = NoSpan
  /\ stage = "utf8" =>
       index \in CharacterEnds /\ LineStartsUpTo(Size) /\ utf8Error = NoSpan
  /\ stage \notin {"lines", "utf8"} => LineStartsUpTo(Size) /\ EncodingKnown

LEMMA LineEndFacts ==
  ASSUME NEW b \in Nat
  PROVE  LineEnd(b) = IF Byte(b) = 13 /\ b + 1 < Size /\ Byte(b + 1) = 10 THEN b + 2 ELSE b + 1
BY DEF LineEnd, Has, CR, LF

LEMMA InCrLfFacts ==
  ASSUME Size \in Nat, NEW e
  PROVE  InCrLf(e) <=> e \in Nat /\ 1 <= e /\ e < Size /\ Byte(e - 1) = 13 /\ Byte(e) = 10
BY DEF InCrLf, CR, LF

LEMMA LineEndsFacts ==
  ASSUME Size \in Nat, NEW e
  PROVE  e \in LineEnds <=> e \in 1 .. Size /\ (Byte(e - 1) = 13 \/ Byte(e - 1) = 10) /\ ~InCrLf(e)
BY DEF LineEnds, CR, LF

\* One turn of the loop passes over one line end at most, and over all of it.
LEMMA LineEndStep ==
  ASSUME IsText, NEW b \in Nat, b < Size, ~InCrLf(b)
  PROVE  /\ LineEnd(b) \in 0 .. Size /\ b < LineEnd(b) /\ ~InCrLf(LineEnd(b))
         /\ \A e \in LineEnds : e <= LineEnd(b) => e <= b \/ e = LineEnd(b)
         /\ LineEnd(b) \in LineEnds <=> Byte(b) \in {13, 10}
<1>0. Size \in Nat
  BY ByteFacts
<1>1. CASE Byte(b) = 13 /\ b + 1 < Size /\ Byte(b + 1) = 10
  <2>1. LineEnd(b) = b + 2 /\ b + 2 \in 1 .. Size
    BY <1>0, <1>1, LineEndFacts
  <2>2. InCrLf(b + 1)
    BY <1>0, <1>1, InCrLfFacts
  <2>3. ~InCrLf(b + 2)
    <3>1. (b + 2) - 1 = b + 1
      OBVIOUS
    <3> QED BY <1>0, <1>1, <3>1, InCrLfFacts
  <2>4. b + 2 \in LineEnds
    <3>1. (b + 2) - 1 = b + 1
      OBVIOUS
    <3> QED BY <1>0, <1>1, <2>1, <2>3, <3>1, LineEndsFacts
  <2>5. ASSUME NEW e \in LineEnds, e <= b + 2 PROVE e <= b \/ e = b + 2
    <3>1. e \in 1 .. Size /\ e # b + 1
      BY <1>0, <2>2, LineEndsFacts
    <3> QED BY <2>5, <3>1
  <2> QED BY <1>0, <1>1, <2>1, <2>3, <2>4, <2>5
<1>2. CASE ~(Byte(b) = 13 /\ b + 1 < Size /\ Byte(b + 1) = 10)
  <2>1. LineEnd(b) = b + 1 /\ b + 1 \in 1 .. Size
    BY <1>0, <1>2, LineEndFacts
  <2>2. ~InCrLf(b + 1)
    BY <1>0, <1>2, InCrLfFacts
  <2>3. b + 1 \in LineEnds <=> Byte(b) \in {13, 10}
    <3>1. (b + 1) - 1 = b
      OBVIOUS
    <3> QED BY <1>0, <2>1, <2>2, <3>1, LineEndsFacts
  <2>4. ASSUME NEW e \in LineEnds, e <= b + 1 PROVE e <= b \/ e = b + 1
    <3>1. e \in 1 .. Size
      BY <1>0, LineEndsFacts
    <3> QED BY <2>4, <3>1
  <2> QED BY <1>0, <2>1, <2>2, <2>3, <2>4
<1> QED BY <1>1, <1>2

LEMMA Frame ==
  ASSUME UNCHANGED contents
  PROVE  /\ IsText' = IsText /\ Size' = Size
         /\ CharacterEnds' = CharacterEnds /\ LineEnds' = LineEnds
         /\ \A b : /\ Byte(b)' = Byte(b) /\ InCrLf(b)' = InCrLf(b) /\ ValidAt(b)' = ValidAt(b)
                   /\ LineEnd(b)' = LineEnd(b)
<1>1. Size' = Size /\ (\A b : Byte(b)' = Byte(b)) /\ IsText' = IsText
  BY DEF Size, Byte, IsText
<1>2. CharacterEnds' = CharacterEnds
  BY DEF CharacterEnds, Size
<1>3. \A b : InCrLf(b)' = InCrLf(b)
  BY <1>1 DEF InCrLf
<1>4. LineEnds' = LineEnds
  BY <1>1, <1>3 DEF LineEnds
<1>5. \A b : ValidAt(b)' = ValidAt(b)
  BY DEF ValidAt, WrongBytes, Size, Byte
<1>6. \A b : LineEnd(b)' = LineEnd(b)
  BY DEF LineEnd, Has, Size, Byte
<1> QED BY <1>1, <1>2, <1>3, <1>4, <1>5, <1>6

LEMMA LineVectorFacts ==
  ASSUME LineVector
  PROVE  /\ Len(lineStarts) \in Nat \ {0} /\ DOMAIN lineStarts = 1 .. Len(lineStarts)
         /\ lineStarts[1] = 0
         /\ \A k \in 1 .. Len(lineStarts) : lineStarts[k] \in Nat
BY LenProperties, ElementOfSeq DEF LineVector

LEMMA LineVectorAppend ==
  ASSUME LineVector, NEW end \in Nat, lineStarts' = Append(lineStarts, end)
  PROVE  /\ LineVector' /\ Len(lineStarts') = Len(lineStarts) + 1
         /\ DOMAIN lineStarts' = 1 .. Len(lineStarts) + 1
         /\ lineStarts'[Len(lineStarts) + 1] = end
         /\ \A k \in 1 .. Len(lineStarts) : lineStarts'[k] = lineStarts[k]
<1>1. /\ lineStarts' \in Seq(Nat) /\ Len(lineStarts') = Len(lineStarts) + 1
      /\ lineStarts'[Len(lineStarts) + 1] = end
      /\ \A k \in 1 .. Len(lineStarts) : lineStarts'[k] = lineStarts[k]
  BY AppendProperties DEF LineVector
<1>2. Len(lineStarts) \in Nat \ {0} /\ lineStarts[1] = 0
  BY LineVectorFacts
<1>3. DOMAIN lineStarts' = 1 .. Len(lineStarts) + 1
  BY <1>1, LenProperties
<1> QED BY <1>1, <1>2, <1>3 DEF LineVector

\* Nothing ends a line between two offsets.
LEMMA LinesKept ==
  ASSUME NEW b \in Nat, NEW end \in Nat, b <= end, LineStartsUpTo(b), UNCHANGED <<contents, lineStarts>>,
         \A e \in LineEnds : e <= end => e <= b
  PROVE  LineStartsUpTo(end)'
<1>1. LineEnds' = LineEnds
  BY Frame
<1>2. \A k \in DOMAIN lineStarts : lineStarts[k] \in Nat
  BY LineVectorFacts DEF LineStartsUpTo
<1>3. LineVector'
  BY DEF LineStartsUpTo, LineVector
<1>4. \A k \in DOMAIN lineStarts : k # 1 => lineStarts[k] <= end
  BY <1>2 DEF LineStartsUpTo
<1> QED BY <1>1, <1>3, <1>4 DEF LineStartsUpTo

Collects(b) ==
  lineStarts' = IF Byte(b) \in {CR, LF} THEN Append(lineStarts, LineEnd(b)) ELSE lineStarts

LEMMA LinesCollected ==
  ASSUME IsText, NEW b \in Nat, b < Size, ~InCrLf(b), LineStartsUpTo(b), UNCHANGED contents,
         Collects(b)
  PROVE  LineStartsUpTo(LineEnd(b))'
<1> DEFINE end == LineEnd(b)
           n == Len(lineStarts)
<1>0. Size \in Nat /\ LineEnds \subseteq 1 .. Size
  BY ByteFacts, LineEndsFacts
<1>1. end \in Nat /\ end \in 0 .. Size /\ b < end
  BY <1>0, LineEndStep
<1>2. \A e \in LineEnds : e <= end => e <= b \/ e = end
  BY LineEndStep
<1>3. end \in LineEnds <=> Byte(b) \in {CR, LF}
  BY LineEndStep DEF CR, LF
<1>v. n \in Nat \ {0} /\ DOMAIN lineStarts = 1 .. n /\ lineStarts[1] = 0
      /\ \A k \in 1 .. n : lineStarts[k] \in Nat
  BY LineVectorFacts DEF LineStartsUpTo
<1>4. n \in Nat \ {0} /\ DOMAIN lineStarts = 1 .. n /\ lineStarts[1] = 0
      /\ \A k \in 1 .. n : lineStarts[k] \in Nat /\ lineStarts[k] <= b
  BY <1>v DEF LineStartsUpTo
<1>5. LineEnds' = LineEnds /\ LineEnd(b)' = end
  BY Frame
<1>6. CASE Byte(b) \in {CR, LF}
  <2>1. lineStarts' = Append(lineStarts, end)
    BY <1>6 DEF Collects
  <2>2. /\ Len(lineStarts') = n + 1
        /\ DOMAIN lineStarts' = 1 .. n + 1
        /\ lineStarts'[n + 1] = end
        /\ \A k \in 1 .. n : lineStarts'[k] = lineStarts[k]
    BY <1>1, <2>1, LineVectorAppend DEF LineStartsUpTo
  <2>3. \A j, k \in 1 .. n + 1 : j < k => lineStarts'[j] < lineStarts'[k]
    <3> SUFFICES ASSUME NEW j \in 1 .. n + 1, NEW k \in 1 .. n + 1, j < k
                 PROVE  lineStarts'[j] < lineStarts'[k]
      OBVIOUS
    <3>1. j \in 1 .. n
      BY <1>4
    <3>2. CASE k = n + 1
      BY <1>1, <1>4, <2>2, <3>1, <3>2
    <3>3. CASE k \in 1 .. n
      <4>1. lineStarts[j] < lineStarts[k]
        BY <1>4, <3>1, <3>3 DEF LineStartsUpTo
      <4> QED BY <2>2, <3>1, <3>3, <4>1
    <3> QED BY <1>4, <3>2, <3>3
  <2>4. \A k \in 1 .. n + 1 : k # 1 => lineStarts'[k] \in LineEnds /\ lineStarts'[k] <= end
    <3> SUFFICES ASSUME NEW k \in 1 .. n + 1, k # 1
                 PROVE  lineStarts'[k] \in LineEnds /\ lineStarts'[k] <= end
      OBVIOUS
    <3>2. CASE k = n + 1
      BY <1>1, <1>3, <1>6, <2>2, <3>2
    <3>3. CASE k \in 1 .. n
      <4>1. lineStarts[k] \in LineEnds
        BY <1>4, <3>3 DEF LineStartsUpTo
      <4> QED BY <1>1, <1>4, <2>2, <3>3, <4>1
    <3> QED BY <1>4, <3>2, <3>3
  <2>5. ASSUME NEW e \in LineEnds, e <= end
        PROVE  \E k \in 1 .. n + 1 : k # 1 /\ lineStarts'[k] = e
    <3>1. CASE e = end
      BY <1>4, <2>2, <3>1
    <3>2. CASE e <= b
      <4>1. PICK k \in 1 .. n : k # 1 /\ lineStarts[k] = e
        BY <1>4, <3>2 DEF LineStartsUpTo
      <4> QED BY <1>4, <2>2, <4>1
    <3> QED BY <1>2, <2>5, <3>1, <3>2
  <2>6. LineVector'
    BY <1>1, <2>1, LineVectorAppend DEF LineStartsUpTo
  <2> QED BY <1>5, <2>2, <2>3, <2>4, <2>5, <2>6 DEF LineStartsUpTo
<1>7. CASE Byte(b) \notin {CR, LF}
  <2>1. lineStarts' = lineStarts
    BY <1>7 DEF Collects
  <2>2. \A e \in LineEnds : e <= end => e <= b
    BY <1>2, <1>3, <1>7
  <2>3. PICK stop \in Nat : stop = end
    BY <1>1
  <2>4. LineStartsUpTo(stop)'
    BY <1>1, <2>1, <2>2, <2>3, LinesKept
  <2>5. LineEnd(b)' = stop
    BY <1>5, <2>3
  <2> QED BY <2>4, <2>5 DEF LineStartsUpTo
<1> QED BY <1>6, <1>7

LEMMA ValidationStep ==
  ASSUME IsText, index \in Nat, index < Size, ValidateCharacter
  PROVE  \/ ValidAt(index) /\ index' = After(index) /\ UNCHANGED <<stage, utf8Error>>
         \/ /\ ~ValidAt(index) /\ stage' = "constructed"
            /\ \E end \in Nat : index < end /\ utf8Error' = Span(index, end)
<1> DEFINE length == SequenceLength(Byte(index))
           wrong == WrongBytes(index, length)
           Report(end) == utf8Error' = Span(index, end) /\ stage' = "constructed"
<1>1. Size \in Nat /\ length \in 0 .. 4
  BY ByteFacts, SequenceLengthFacts
<1>2. \/ length = 0 /\ Report(index + 1)
      \/ length # 0 /\ Size - index < length /\ Report(Size)
      \/ /\ length # 0 /\ Size - index >= length
         /\ \/ \E k \in wrong : Report(index + k + 1)
            \/ wrong = {} /\ index' = index + length /\ UNCHANGED <<stage, utf8Error>>
  BY DEF ValidateCharacter
<1>3. ValidAt(index) <=> length # 0 /\ index + length <= Size /\ wrong = {}
  BY DEF ValidAt
<1>4. After(index) = index + length
  BY DEF After
<1>5. wrong \subseteq Nat
  BY DEF WrongBytes
<1> HIDE DEF length, wrong
<1>6. CASE length = 0 /\ Report(index + 1)
  BY <1>3, <1>6
<1>7. CASE length # 0 /\ Size - index < length /\ Report(Size)
  <2>1. ~(index + length <= Size)
    BY <1>1, <1>7
  <2> QED BY <1>1, <1>3, <1>7, <2>1
<1>8. CASE length # 0 /\ Size - index >= length /\ \E k \in wrong : Report(index + k + 1)
  <2>1. PICK k \in wrong : Report(index + k + 1)
    BY <1>8
  <2>2. index + k + 1 \in Nat /\ index < index + k + 1
    BY <1>5
  <2> QED BY <1>3, <2>1, <2>2
<1>9. CASE /\ length # 0 /\ Size - index >= length
           /\ wrong = {} /\ index' = index + length /\ UNCHANGED <<stage, utf8Error>>
  <2>1. index + length <= Size
    BY <1>1, <1>9
  <2> QED BY <1>3, <1>4, <1>9, <2>1
<1> QED BY <1>2, <1>6, <1>7, <1>8, <1>9

\* What is not done with the text any more leaves what is known of it.
LEMMA TextKept ==
  ASSUME TextInv, UNCHANGED <<contents, index, lineStarts, utf8Error>>,
         stage' = stage \/ {stage, stage'} \cap {"lines", "utf8"} = {}
  PROVE  TextInv'
<1>1. /\ IsText' = IsText /\ Size' = Size
      /\ CharacterEnds' = CharacterEnds /\ LineEnds' = LineEnds
      /\ \A b : InCrLf(b)' = InCrLf(b) /\ ValidAt(b)' = ValidAt(b)
  BY Frame
<1>2. \A n : LineStartsUpTo(n)' = LineStartsUpTo(n)
  BY <1>1 DEF LineStartsUpTo, LineVector
<1>3. EncodingKnown' = EncodingKnown
  BY <1>1 DEF EncodingKnown
<1>4. InCrLf(index)' <=> InCrLf(index)
  BY <1>1 DEF InCrLf
<1>5. LineStartsUpTo(index)' <=> LineStartsUpTo(index)
  BY <1>1 DEF LineStartsUpTo, LineVector
<1>6. LineStartsUpTo(Size)' <=> LineStartsUpTo(Size)
  BY <1>1 DEF LineStartsUpTo, LineVector
<1> QED BY <1>1, <1>3, <1>4, <1>5, <1>6 DEF TextInv

LEMMA TextConstructed ==
  ASSUME TextInv, Construct
  PROVE  TextInv'
<1>0. IsText /\ Size \in Nat
  BY ByteFacts DEF TextInv
<1>c. UNCHANGED contents
  BY DEF Construct, CollectLineStart, EndLines, ValidateCharacter, EndValidation
<1>f. /\ IsText' /\ Size' = Size /\ CharacterEnds' = CharacterEnds
      /\ \A b : InCrLf(b)' = InCrLf(b) /\ ValidAt(b)' = ValidAt(b)
  BY <1>0, <1>c, Frame
<1>1. CASE CollectLineStart
  <2>1. PICK b \in Nat : b = index
    BY <1>0, <1>1 DEF CollectLineStart, TextInv
  <2>2. b < Size /\ ~InCrLf(b) /\ LineStartsUpTo(b) /\ Collects(b)
    BY <1>1, <2>1 DEF CollectLineStart, TextInv, Collects
  <2>3. PICK stop \in Nat : stop = LineEnd(b)
    BY <1>0, <2>2, LineEndStep
  <2>4. stop \in 0 .. Size /\ ~InCrLf(stop)
    BY <1>0, <2>2, <2>3, LineEndStep
  <2>5. LineEnd(b)' = stop
    BY <1>c, <2>3, Frame
  <2>6. LineStartsUpTo(LineEnd(b))'
    BY <1>0, <1>c, <2>2, LinesCollected
  <2>7. LineStartsUpTo(stop)'
    BY <2>5, <2>6 DEF LineStartsUpTo
  <2>8. index' = stop /\ stage' = "lines" /\ utf8Error' = NoSpan
    BY <1>1, <2>1, <2>3 DEF CollectLineStart, TextInv
  <2>9. ~InCrLf(index)'
    BY <1>f, <2>4, <2>8 DEF InCrLf
  <2>10. LineStartsUpTo(index)'
    BY <2>7, <2>8 DEF LineStartsUpTo
  <2> QED BY <1>f, <2>4, <2>8, <2>9, <2>10 DEF TextInv, NoSpan, Span
<1>2. CASE EndLines
  <2>1. LineStartsUpTo(Size)
    BY <1>2 DEF EndLines, TextInv
  <2>2. LineStartsUpTo(Size)'
    BY <1>2, <1>c, <2>1, Frame DEF EndLines, LineStartsUpTo, LineVector
  <2>3. index' = 0 /\ stage' = "utf8" /\ utf8Error' = NoSpan
    BY <1>2 DEF EndLines, TextInv
  <2>4. 0 \in CharacterEnds
    BY <1>0, EndsFacts
  <2> QED BY <1>f, <2>2, <2>3, <2>4 DEF TextInv, NoSpan, Span
<1>3. CASE ValidateCharacter
  <2>1. index \in CharacterEnds /\ index \in Nat /\ index < Size
    BY <1>0, <1>3, EndsFacts DEF ValidateCharacter, TextInv
  <2>2. LineStartsUpTo(Size)'
    BY <1>3, <1>c, Frame DEF ValidateCharacter, TextInv, LineStartsUpTo, LineVector
  <2>3. CASE ValidAt(index) /\ index' = After(index) /\ UNCHANGED <<stage, utf8Error>>
    <3>1. After(index) \in CharacterEnds
      BY <1>0, <2>1, <2>3, AfterIsEnd
    <3>2. index' \in CharacterEnds' /\ stage' = "utf8" /\ utf8Error' = NoSpan
      BY <1>3, <1>f, <2>3, <3>1 DEF ValidateCharacter, TextInv
    <3> QED BY <1>f, <2>2, <3>2 DEF TextInv, NoSpan, Span
  <2>4. CASE /\ ~ValidAt(index) /\ stage' = "constructed"
             /\ \E end \in Nat : index < end /\ utf8Error' = Span(index, end)
    <3>1. PICK end \in Nat : index < end /\ utf8Error' = Span(index, end)
      BY <2>4
    <3>2. PICK begin \in CharacterEnds : begin = index
      BY <2>1
    <3>3. begin \in CharacterEnds' /\ ~ValidAt(begin)' /\ begin < Size'
      BY <1>f, <2>1, <2>4, <3>2
    <3>4. EncodingKnown'
      BY <3>1, <3>2, <3>3 DEF EncodingKnown, Span
    <3> QED BY <1>f, <2>2, <2>4, <3>4 DEF TextInv
  <2> QED BY <1>0, <1>3, <2>1, <2>3, <2>4, ValidationStep
<1>4. CASE EndValidation
  <2>1. LineStartsUpTo(Size)'
    BY <1>4, <1>c, Frame DEF EndValidation, TextInv, LineStartsUpTo, LineVector
  <2>2. EncodingKnown'
    BY <1>4, <1>f DEF EndValidation, TextInv, EncodingKnown, NoSpan, Span
  <2>3. stage' = "constructed"
    BY <1>4 DEF EndValidation
  <2> QED BY <1>f, <2>1, <2>2, <2>3 DEF TextInv
<1> QED BY <1>1, <1>2, <1>3, <1>4 DEF Construct

LEMMA TextBegun ==
  ASSUME SourceInit
  PROVE  TextInv
<1>1. IsText
  BY TextsAssumption DEF SourceInit, IsText, Bytes
<1>2. Size \in Nat
  BY <1>1, ByteFacts
<1>3. LineVector
  BY DEF SourceInit, LineVector
<1>4. DOMAIN lineStarts = {1} /\ Len(lineStarts) = 1
  BY DEF SourceInit
<1>5. LineStartsUpTo(0)
  <2>1. \A e \in LineEnds : e \in Nat /\ 1 <= e
    BY <1>2, LineEndsFacts
  <2>2. \A e \in LineEnds : ~(e <= 0)
    BY <2>1
  <2> QED BY <1>3, <1>4, <2>2 DEF LineStartsUpTo
<1>6. ~InCrLf(0)
  BY <1>2, InCrLfFacts
<1> QED BY <1>1, <1>2, <1>5, <1>6 DEF SourceInit, TextInv

-----------------------------------------------------------------------------
(* The encoding.                                                           *)

Checked == stage \notin {"lines", "utf8"}

LEMMA EncodingFacts ==
  ASSUME TextInv, Checked
  PROVE  /\ IsText /\ Size \in Nat /\ LineStartsUpTo(Size)
         /\ ValidUtf8 <=> Size \in CharacterEnds
         /\ ~ValidUtf8 =>
              /\ utf8Error.begin \in CharacterEnds
              /\ \A e \in CharacterEnds : e <= utf8Error.begin
              /\ utf8Error.begin < utf8Error.end
<1>1. IsText /\ Size \in Nat /\ LineStartsUpTo(Size) /\ EncodingKnown
  BY ByteFacts DEF TextInv, Checked
<1>2. CASE utf8Error = NoSpan /\ Size \in CharacterEnds
  BY <1>1, <1>2 DEF ValidUtf8
<1>3. CASE \E begin \in CharacterEnds, end \in Nat :
             utf8Error = Span(begin, end) /\ begin < Size /\ begin < end /\ ~ValidAt(begin)
  <2>1. PICK begin \in CharacterEnds, end \in Nat :
          utf8Error = Span(begin, end) /\ begin < Size /\ begin < end /\ ~ValidAt(begin)
    BY <1>3
  <2>2. begin \in Nat
    BY <1>1, EndsFacts
  <2>3. utf8Error.begin = begin /\ utf8Error.end = end
    BY <2>1 DEF Span
  <2>4. utf8Error # NoSpan
    BY <2>1, <2>2, <2>3 DEF NoSpan, Span
  <2>5. \A e \in CharacterEnds : e <= begin
    BY <1>1, <2>1, NoEndBeyond
  <2>6. Size \notin CharacterEnds
    BY <1>1, <2>1, <2>2, <2>5
  <2> QED BY <1>1, <2>1, <2>3, <2>4, <2>5, <2>6 DEF ValidUtf8
<1> QED BY <1>1, <1>2, <1>3 DEF EncodingKnown

\* How far a text is made of characters.
LEMMA ValidPrefix ==
  ASSUME TextInv, Checked
  PROVE  \E v \in CharacterEnds :
           /\ \A e \in CharacterEnds : e <= v
           /\ \A o \in Nat : o <= v <=> o <= Size /\ (ValidUtf8 \/ o <= utf8Error.begin)
<1>1. IsText /\ Size \in Nat /\ CharacterEnds \subseteq 0 .. Size
  BY EncodingFacts, EndsFacts
<1>2. CASE ValidUtf8
  <2>1. Size \in CharacterEnds
    BY <1>2, EncodingFacts
  <2> QED BY <1>1, <1>2, <2>1
<1>3. CASE ~ValidUtf8
  <2>1. PICK v \in CharacterEnds : v = utf8Error.begin /\ \A e \in CharacterEnds : e <= v
    BY <1>3, EncodingFacts
  <2>2. v \in Nat /\ v <= Size
    BY <1>1
  <2>3. \A o \in Nat : o <= v => o <= Size
    BY <1>1, <2>2
  <2> QED BY <1>3, <2>1, <2>3
<1> QED BY <1>2, <1>3

-----------------------------------------------------------------------------
(* Boundaries.                                                             *)

LEMMA AsciiIsValid ==
  ASSUME IsText, NEW x \in Nat, x < Size, Byte(x) \in 0 .. 127
  PROVE  ValidAt(x) /\ After(x) = x + 1
<1>1. Byte(x) \in Bytes /\ Size \in Nat
  BY ByteFacts
<1>2. SequenceLength(Byte(x)) = 1
  BY <1>1, SequenceLengthFacts
<1>3. WrongBytes(x, 1) = {}
  BY DEF WrongBytes
<1> QED BY <1>1, <1>2, <1>3 DEF ValidAt, After

LEMMA UnitLengthFacts ==
  ASSUME IsText, NEW b \in Nat, b < Size
  PROVE  /\ UnitLength(b) \in 1 .. 4
         /\ UnitLength(b) = IF Byte(b) = 13 /\ b + 1 < Size /\ Byte(b + 1) = 10 THEN 2
                            ELSE IF Byte(b) \in {13, 10} THEN 1 ELSE Utf8Length(Byte(b))
<1>1. Byte(b) \in Bytes
  BY ByteFacts
<1>2. Utf8Length(Byte(b)) \in 1 .. 4
  BY <1>1 DEF Utf8Length
<1>3. LineEnd(b) - b = IF Byte(b) = 13 /\ b + 1 < Size /\ Byte(b + 1) = 10 THEN 2 ELSE 1
  <2>1. (b + 2) - b = 2 /\ (b + 1) - b = 1
    OBVIOUS
  <2> QED BY <2>1, LineEndFacts
<1>4. UnitLength(b) = IF Byte(b) \in {13, 10} THEN LineEnd(b) - b ELSE Utf8Length(Byte(b))
  BY DEF UnitLength, CR, LF
<1> QED BY <1>2, <1>3, <1>4

\* The places of a text that it can be cut at.
Boundaries == {e \in CharacterEnds : ~InCrLf(e)}

LEMMA UnitStep ==
  ASSUME IsText, NEW v \in CharacterEnds, NEW b \in Boundaries, b < v
  PROVE  /\ b + UnitLength(b) \in Boundaries
         /\ \A x \in Boundaries : b < x => b + UnitLength(b) <= x
<1>0. /\ Size \in Nat /\ CharacterEnds \subseteq 0 .. Size /\ b \in Nat /\ v \in Nat
      /\ b \in CharacterEnds /\ b < Size
  <2>1. Size \in Nat /\ CharacterEnds \subseteq 0 .. Size
    BY ByteFacts, EndsFacts
  <2>2. b \in CharacterEnds
    BY DEF Boundaries
  <2>3. b \in 0 .. Size /\ v \in 0 .. Size
    BY <2>1, <2>2
  <2> QED BY <2>1, <2>2, <2>3
<1>1. ValidAt(b)
  BY <1>0, NoEndBeyond
<1>2. After(b) \in CharacterEnds /\ \A x \in CharacterEnds : b < x => After(b) <= x
  BY <1>0, <1>1, AfterIsEnd, NoEndInside
<1>3. Byte(b) \in Bytes /\ After(b) \in Nat /\ b < After(b) /\ Utf8Length(Byte(b)) = After(b) - b
  BY <1>0, <1>1, ByteFacts, ValidFacts
<1>4. Byte(b) \in {13, 10} => After(b) = b + 1
  BY <1>0, AsciiIsValid
<1>5. CASE Byte(b) = 13 /\ b + 1 < Size /\ Byte(b + 1) = 10
  <2>1. b + UnitLength(b) = b + 2
    BY <1>0, <1>5, UnitLengthFacts
  <2>2. b + 1 \in CharacterEnds
    BY <1>2, <1>4, <1>5
  <2>3. ValidAt(b + 1) /\ After(b + 1) = b + 2
    BY <1>0, <1>5, AsciiIsValid
  <2>4. b + 2 \in CharacterEnds
    BY <1>5, <2>2, <2>3, AfterIsEnd
  <2>5. ~InCrLf(b + 2)
    <3>1. (b + 2) - 1 = b + 1
      BY <1>0
    <3> QED BY <1>0, <1>5, <3>1, InCrLfFacts
  <2>6. InCrLf(b + 1)
    <3>1. (b + 1) - 1 = b
      BY <1>0
    <3> QED BY <1>0, <1>5, <3>1, InCrLfFacts
  <2>7. ASSUME NEW x \in Boundaries, b < x PROVE b + 2 <= x
    <3>1. x \in CharacterEnds /\ x # b + 1 /\ x \in Nat
      BY <1>0, <2>6 DEF Boundaries
    <3>2. b + 1 <= x
      BY <1>2, <1>4, <1>5, <2>7, <3>1
    <3> QED BY <1>0, <3>1, <3>2
  <2> QED BY <2>1, <2>4, <2>5, <2>7 DEF Boundaries
<1>6. CASE ~(Byte(b) = 13 /\ b + 1 < Size /\ Byte(b + 1) = 10)
  <2>1. b + UnitLength(b) = After(b)
    <3>1. b + (After(b) - b) = After(b)
      BY <1>0, <1>3
    <3> QED BY <1>0, <1>3, <1>4, <1>6, <3>1, UnitLengthFacts
  <2>2. ~InCrLf(After(b))
    <3>1. CASE After(b) = b + 1
      <4>1. (b + 1) - 1 = b
        BY <1>0
      <4> QED BY <1>0, <1>6, <3>1, <4>1, InCrLfFacts
    <3>2. CASE b + 1 < After(b)
      <4>1. SequenceLength(Byte(b)) \in 0 .. 4 /\ After(b) = b + SequenceLength(Byte(b))
        BY <1>3, SequenceLengthFacts DEF After
      <4>2. After(b) - 1 \in b + 1 .. b + SequenceLength(Byte(b)) - 1
        BY <1>0, <1>3, <3>2, <4>1
      <4>3. Byte(After(b) - 1) \in 128 .. 191
        BY <1>0, <1>1, <4>2, InsideCharacter
      <4> QED BY <1>0, <4>3, InCrLfFacts
    <3> QED BY <1>0, <1>3, <3>1, <3>2
  <2> QED BY <1>2, <2>1, <2>2 DEF Boundaries
<1> QED BY <1>5, <1>6

LEMMA ReachesRecursion ==
  ASSUME IsText, NEW o \in Nat, o <= Size
  PROVE  \E r : /\ \A n \in Nat : r[n] = IF n >= o THEN n = o ELSE r[n + UnitLength(n)]
                /\ IsSourceBoundary(o) <=> /\ ValidUtf8 \/ o <= utf8Error.begin
                                           /\ r[lineStarts[LineOf(o)]]
<1> DEFINE base == [n \in Nat |-> n = o]
           next == [n \in Nat |-> IF n < o THEN n + UnitLength(n) ELSE n]
           Step == [n \in Nat |-> [t \in BOOLEAN |-> t]]
<1>0. Size \in Nat
  BY ByteFacts
<1>1. \A n \in 0 .. o - 1 : UnitLength(n) \in 1 .. 4
  <2> SUFFICES ASSUME NEW n \in 0 .. o - 1 PROVE UnitLength(n) \in 1 .. 4
    OBVIOUS
  <2>1. n \in Nat /\ n < Size
    BY <1>0
  <2> QED BY <2>1, UnitLengthFacts
<1>2. base \in [Nat -> BOOLEAN] /\ Step \in [Nat -> [BOOLEAN -> BOOLEAN]]
  OBVIOUS
<1>3. next \in [Nat -> Nat] /\ \A n \in 0 .. o - 1 : next[n] > n
  BY <1>1
<1>4. PICK f \in [Nat -> BOOLEAN] :
        \A n \in Nat : f[n] = IF n >= o THEN base[n] ELSE Step[n][f[next[n]]]
  <2> DEFINE Truth == BOOLEAN
  <2>1. base \in [Nat -> Truth] /\ Step \in [Nat -> [Truth -> Truth]]
    BY <1>2
  <2>2. \E f \in [Nat -> Truth] : Walks(f, o, base, next, Step)
    <3> HIDE DEF base, next, Step, Truth
    <3> QED BY <2>1, <1>3, Walk
  <2> HIDE DEF base, next, Step
  <2> QED BY <2>2 DEF Walks
<1>5. ASSUME NEW n \in Nat
      PROVE  f[n] = IF n >= o THEN n = o ELSE f[n + UnitLength(n)]
  <2>1. CASE n >= o
    BY <1>4, <2>1
  <2>2. CASE n < o
    <3>1. next[n] = n + UnitLength(n) /\ next[n] \in Nat
      BY <1>3, <2>2
    <3>2. f[next[n]] \in BOOLEAN
      BY <3>1
    <3>3. Step[n][f[next[n]]] = f[next[n]]
      BY <3>2
    <3>4. f[n] = Step[n][f[next[n]]]
      <4> HIDE DEF Step, next
      <4> QED BY <1>4, <2>2
    <3> QED BY <2>2, <3>1, <3>3, <3>4
  <2> QED BY <2>1, <2>2
<1>6. \E r : r = [from \in Nat |-> IF from >= o THEN from = o ELSE r[from + UnitLength(from)]]
  <2>1. f = [n \in Nat |-> f[n]]
    OBVIOUS
  <2>2. f = [n \in Nat |-> IF n >= o THEN n = o ELSE f[n + UnitLength(n)]]
    BY <1>5, <2>1
  <2> QED BY <2>2
<1> DEFINE reaches[from \in Nat] ==
             IF from >= o THEN from = o ELSE reaches[from + UnitLength(from)]
<1>7. reaches = [from \in Nat |-> IF from >= o THEN from = o ELSE reaches[from + UnitLength(from)]]
  BY <1>6
<1>8. IsSourceBoundary(o) <=> /\ ValidUtf8 \/ o <= utf8Error.begin
                              /\ reaches[lineStarts[LineOf(o)]]
  BY DEF IsSourceBoundary
<1> HIDE DEF reaches
<1>9. \A n \in Nat : reaches[n] = IF n >= o THEN n = o ELSE reaches[n + UnitLength(n)]
  BY <1>7
<1> QED BY <1>8, <1>9

\* From a boundary on, exactly the later ones are reached.
LEMMA WalkReaches ==
  ASSUME IsText, NEW v \in CharacterEnds, NEW o \in Nat, o <= v, NEW s \in Boundaries, s <= o,
         NEW r, \A n \in Nat : r[n] = IF n >= o THEN n = o ELSE r[n + UnitLength(n)]
  PROVE  r[s] <=> o \in Boundaries
<1>0. /\ Size \in Nat /\ Boundaries \subseteq 0 .. Size /\ v \in Nat
  BY ByteFacts, EndsFacts DEF Boundaries
<1> DEFINE Wrong == {x \in Boundaries : x <= o /\ ~(r[x] <=> o \in Boundaries)}
<1> SUFFICES ASSUME Wrong # {} PROVE FALSE
  OBVIOUS
<1>1. Wrong \subseteq 0 .. o
  <2>1. \A x \in Boundaries : x \in Nat
    BY <1>0
  <2>2. \A x \in Boundaries : x <= o => x \in 0 .. o
    BY <2>1
  <2> QED BY <2>2
<1>2. PICK x \in Wrong : \A y \in Wrong : y <= x
  <2> HIDE DEF Wrong
  <2> QED BY <1>1, GreatestNatural
<1>3. x \in Boundaries /\ x <= o /\ x \in Nat /\ ~(r[x] <=> o \in Boundaries)
  BY <1>0
<1>4. x < o
  <2> SUFFICES ASSUME x = o PROVE FALSE
    BY <1>3
  <2>1. r[x] = (x = o)
    BY <1>3
  <2> QED BY <1>3, <2>1
<1> DEFINE u == x + UnitLength(x)
<1>5. u \in Boundaries /\ \A y \in Boundaries : x < y => u <= y
  BY <1>0, <1>3, <1>4, UnitStep
<1>6. x < u /\ u \in Nat
  <2>1. UnitLength(x) \in 1 .. 4
    <3>1. x < Size
      BY <1>0, <1>3, <1>4, EndsFacts
    <3> QED BY <1>3, <3>1, UnitLengthFacts
  <2> QED BY <1>3, <2>1
<1>7. r[x] = r[u]
  BY <1>3, <1>4
<1>8. CASE u <= o
  <2>1. u \notin Wrong
    <3> HIDE DEF u, Wrong
    <3>1. Wrong \subseteq Nat
      BY <1>1
    <3> QED BY <1>2, <1>6, <3>1
  <2>2. r[u] <=> o \in Boundaries
    <3> HIDE DEF u
    <3> QED BY <1>5, <1>8, <2>1
  <2> HIDE DEF u
  <2> QED BY <1>3, <1>7, <2>2
<1>9. CASE o < u
  <2>1. o \notin Boundaries
    BY <1>4, <1>5, <1>6, <1>9
  <2>2. u # o /\ u >= o
    BY <1>6, <1>9
  <2>3. ~r[u]
    <3> HIDE DEF u
    <3>1. r[u] = (u = o)
      BY <1>6, <2>2
    <3> QED BY <2>2, <3>1
  <2> HIDE DEF u
  <2> QED BY <1>3, <1>7, <2>1, <2>3
<1> QED BY <1>6, <1>8, <1>9

\* The line of an offset: those that start there or before come first.
LEMMA LineOfFacts ==
  ASSUME Size \in Nat, LineStartsUpTo(Size), NEW o \in Nat
  PROVE  \E m \in 1 .. Len(lineStarts) :
           /\ LineOf(o) = m
           /\ \A k \in 1 .. Len(lineStarts) : lineStarts[k] <= o <=> k <= m
<1> DEFINE n == Len(lineStarts)
<1>1. n \in Nat \ {0} /\ DOMAIN lineStarts = 1 .. n /\ lineStarts[1] = 0
      /\ \A k \in 1 .. n : lineStarts[k] \in Nat
  BY LineVectorFacts DEF LineStartsUpTo
<1>2. \A j, k \in 1 .. n : j < k => lineStarts[j] < lineStarts[k]
  BY <1>1 DEF LineStartsUpTo
<1> HIDE DEF n
<1> DEFINE T == {k \in 1 .. n : lineStarts[k] <= o}
<1>3. PICK m \in T : \A k \in T : k <= m
  <2>1. 1 \in T /\ T \subseteq 0 .. n
    BY <1>1
  <2> HIDE DEF T
  <2> QED BY <1>1, <2>1, GreatestNatural
<1>4. m \in 1 .. n /\ lineStarts[m] <= o
  OBVIOUS
<1>5. ASSUME NEW k \in 1 .. n PROVE lineStarts[k] <= o <=> k <= m
  <2>1. lineStarts[k] <= o => k <= m
    BY <1>3
  <2>2. k < m => lineStarts[k] <= o
    BY <1>1, <1>2, <1>4
  <2> QED BY <1>4, <2>1, <2>2
<1>6. T = 1 .. m
  BY <1>1, <1>4, <1>5
<1>7. Cardinality(1 .. m) = m
  BY <1>1, <1>4, FS_Interval
<1>8. LineOf(o) = Cardinality(T)
  BY <1>1 DEF LineOf
<1> QED BY <1>4, <1>5, <1>6, <1>7, <1>8 DEF n

\* A line of what is made of characters starts at a boundary.
LEMMA LineStartIsBoundary ==
  ASSUME IsText, LineStartsUpTo(Size), NEW v \in CharacterEnds, NEW o \in Nat, o <= v
  PROVE  lineStarts[LineOf(o)] \in Boundaries /\ lineStarts[LineOf(o)] <= o
<1>0. Size \in Nat /\ CharacterEnds \subseteq 0 .. Size /\ 0 \in CharacterEnds
  BY ByteFacts, EndsFacts
<1>1. PICK m \in 1 .. Len(lineStarts) :
        /\ LineOf(o) = m
        /\ \A k \in 1 .. Len(lineStarts) : lineStarts[k] <= o <=> k <= m
  BY <1>0, LineOfFacts
<1>2. Len(lineStarts) \in Nat \ {0} /\ DOMAIN lineStarts = 1 .. Len(lineStarts)
      /\ lineStarts[1] = 0 /\ \A k \in 1 .. Len(lineStarts) : lineStarts[k] \in Nat
  BY LineVectorFacts DEF LineStartsUpTo
<1> DEFINE s == lineStarts[m]
<1>3. s <= o /\ s \in Nat
  BY <1>1, <1>2
<1>4. CASE m = 1
  <2>1. s = 0
    BY <1>2, <1>4
  <2>2. ~InCrLf(0)
    BY <1>0, InCrLfFacts
  <2> QED BY <1>0, <1>1, <1>3, <2>1, <2>2 DEF Boundaries
<1>5. CASE m # 1
  <2>1. s \in LineEnds
    BY <1>2, <1>5 DEF LineStartsUpTo
  <2>2. s \in 1 .. Size /\ Byte(s - 1) \in 0 .. 127 /\ ~InCrLf(s)
    <3> HIDE DEF s
    <3> QED BY <1>0, <2>1, LineEndsFacts
  <2>3. s - 1 \in Nat /\ s - 1 < v /\ (s - 1) + 1 = s
    <3>1. v \in Nat
      BY <1>0
    <3> HIDE DEF s
    <3> QED BY <1>3, <2>2, <3>1
  <2>4. s \in CharacterEnds
    <3> HIDE DEF s
    <3> QED BY <2>2, <2>3, AsciiStandsAlone
  <2> QED BY <1>1, <1>3, <2>2, <2>4 DEF Boundaries
<1> QED BY <1>4, <1>5

\* What can be cut at, asked of a text in any state but that of its construction.
LEMMA BoundaryIsExact ==
  ASSUME TextInv, Checked, NEW o \in Nat
  PROVE  IsSourceBoundary(o) <=> o \in Boundaries
<1>0. IsText /\ Size \in Nat /\ LineStartsUpTo(Size) /\ CharacterEnds \subseteq 0 .. Size
  BY EncodingFacts, EndsFacts
<1>1. PICK v \in CharacterEnds :
        /\ \A e \in CharacterEnds : e <= v
        /\ \A b \in Nat : b <= v <=> b <= Size /\ (ValidUtf8 \/ b <= utf8Error.begin)
  BY ValidPrefix
<1>2. CASE o <= v
  <2>1. o <= Size /\ (ValidUtf8 \/ o <= utf8Error.begin)
    BY <1>1, <1>2
  <2>2. PICK r : /\ \A n \in Nat : r[n] = IF n >= o THEN n = o ELSE r[n + UnitLength(n)]
                 /\ IsSourceBoundary(o) <=> /\ ValidUtf8 \/ o <= utf8Error.begin
                                            /\ r[lineStarts[LineOf(o)]]
    BY <1>0, <2>1, ReachesRecursion
  <2>3. lineStarts[LineOf(o)] \in Boundaries /\ lineStarts[LineOf(o)] <= o
    BY <1>0, <1>2, LineStartIsBoundary
  <2>4. r[lineStarts[LineOf(o)]] <=> o \in Boundaries
    BY <1>0, <1>2, <2>2, <2>3, WalkReaches
  <2> QED BY <2>1, <2>2, <2>4
<1>3. CASE ~(o <= v)
  <2>1. o \notin Boundaries
    BY <1>1, <1>3 DEF Boundaries
  <2>2. ~(o <= Size /\ (ValidUtf8 \/ o <= utf8Error.begin))
    BY <1>1, <1>3
  <2>3. ~IsSourceBoundary(o)
    BY <2>2 DEF IsSourceBoundary
  <2> QED BY <2>1, <2>3
<1> QED BY <1>2, <1>3

-----------------------------------------------------------------------------
(* Locations.                                                              *)

LEMMA ColumnRecursion ==
  ASSUME IsText, NEW o \in Nat, o <= Size, IsSourceBoundary(o)
  PROVE  \E c : /\ \A n \in Nat : c[n] = IF n >= o THEN 1 ELSE 1 + c[n + Utf8Length(Byte(n))]
                /\ LocationAt(o) = [line |-> LineOf(o), column |-> c[lineStarts[LineOf(o)]]]
<1> DEFINE base == [n \in Nat |-> 1]
           next == [n \in Nat |-> IF n < o THEN n + Utf8Length(Byte(n)) ELSE n]
           Step == [n \in Nat |-> [t \in Nat |-> 1 + t]]
<1>1. \A n : Utf8Length(Byte(n)) \in 1 .. 4
  BY DEF Utf8Length
<1>2. base \in [Nat -> Nat] /\ Step \in [Nat -> [Nat -> Nat]]
  OBVIOUS
<1>3. next \in [Nat -> Nat] /\ \A n \in 0 .. o - 1 : next[n] > n
  BY <1>1
<1>4. PICK f \in [Nat -> Nat] : Walks(f, o, base, next, Step)
  <2> HIDE DEF base, next, Step
  <2> QED BY <1>2, <1>3, Walk
<1>5. ASSUME NEW n \in Nat
      PROVE  f[n] = IF n >= o THEN 1 ELSE 1 + f[n + Utf8Length(Byte(n))]
  <2>0. f[n] = IF n >= o THEN base[n] ELSE Step[n][f[next[n]]]
    <3> HIDE DEF base, next, Step
    <3> QED BY <1>4 DEF Walks
  <2>1. CASE n >= o
    BY <2>0, <2>1
  <2>2. CASE n < o
    <3>1. next[n] = n + Utf8Length(Byte(n)) /\ next[n] \in Nat
      BY <1>3, <2>2
    <3>2. f[next[n]] \in Nat
      BY <3>1
    <3>3. Step[n][f[next[n]]] = 1 + f[next[n]]
      BY <3>2
    <3>4. f[n] = Step[n][f[next[n]]]
      <4> HIDE DEF Step, next
      <4> QED BY <2>0, <2>2
    <3> QED BY <2>2, <3>1, <3>3, <3>4
  <2> QED BY <2>1, <2>2
<1>6. \E c : c = [from \in Nat |-> IF from >= o THEN 1 ELSE 1 + c[from + Utf8Length(Byte(from))]]
  <2>1. f = [n \in Nat |-> f[n]]
    OBVIOUS
  <2>2. f = [n \in Nat |-> IF n >= o THEN 1 ELSE 1 + f[n + Utf8Length(Byte(n))]]
    BY <1>5, <2>1
  <2> QED BY <2>2
<1> DEFINE column[from \in Nat] ==
             IF from >= o THEN 1 ELSE 1 + column[from + Utf8Length(Byte(from))]
<1>7. column = [from \in Nat |-> IF from >= o THEN 1 ELSE 1 + column[from + Utf8Length(Byte(from))]]
  BY <1>6
<1>8. LocationAt(o) = [line |-> LineOf(o), column |-> column[lineStarts[LineOf(o)]]]
  BY DEF LocationAt
<1> HIDE DEF column
<1>9. \A n \in Nat : column[n] = IF n >= o THEN 1 ELSE 1 + column[n + Utf8Length(Byte(n))]
  BY <1>7
<1> QED BY <1>8, <1>9

EndsBetween(from, o) == {e \in CharacterEnds : from < e /\ e <= o}

\* A column counts the characters before it.
LEMMA ColumnCounts ==
  ASSUME IsText, NEW o \in CharacterEnds, NEW s \in CharacterEnds, s <= o,
         NEW c, \A n \in Nat : c[n] = IF n >= o THEN 1 ELSE 1 + c[n + Utf8Length(Byte(n))]
  PROVE  c[s] = Cardinality(EndsBetween(s, o)) + 1
<1>0. Size \in Nat /\ \A e \in CharacterEnds : e \in Nat /\ e <= Size
  BY ByteFacts, EndsFacts
<1>f. \A x \in CharacterEnds : /\ IsFiniteSet(EndsBetween(x, o))
                               /\ Cardinality(EndsBetween(x, o)) \in Nat
  <2> SUFFICES ASSUME NEW x \in CharacterEnds
               PROVE  IsFiniteSet(EndsBetween(x, o)) /\ Cardinality(EndsBetween(x, o)) \in Nat
    OBVIOUS
  <2>1. EndsBetween(x, o) \in SUBSET Nat /\ \A e \in EndsBetween(x, o) : e <= Size
    BY <1>0 DEF EndsBetween
  <2>2. IsFiniteSet(EndsBetween(x, o))
    BY <1>0, <2>1, FS_BoundedSetOfNaturals
  <2> QED BY <2>2, FS_CardinalityType
<1> DEFINE Wrong == {x \in CharacterEnds : x <= o /\ c[x] # Cardinality(EndsBetween(x, o)) + 1}
<1> SUFFICES ASSUME Wrong # {} PROVE FALSE
  OBVIOUS
<1>1. Wrong \subseteq 0 .. o
  <2>1. \A x \in CharacterEnds : x <= o => x \in 0 .. o
    BY <1>0
  <2> QED BY <2>1
<1>2. PICK x \in Wrong : \A y \in Wrong : y <= x
  <2>1. o \in Nat
    BY <1>0
  <2> HIDE DEF Wrong
  <2> QED BY <1>1, <2>1, GreatestNatural
<1>3. /\ x \in CharacterEnds /\ x <= o /\ x \in Nat /\ o \in Nat
      /\ c[x] # Cardinality(EndsBetween(x, o)) + 1
  BY <1>0
<1>4. x < o
  <2> SUFFICES ASSUME x = o PROVE FALSE
    BY <1>3
  <2>1. c[x] = 1
    BY <1>3
  <2>2. EndsBetween(x, o) = {}
    <3>1. \A e \in CharacterEnds : ~(x < e /\ e <= o)
      BY <1>0, <1>3
    <3> QED BY <3>1 DEF EndsBetween
  <2>3. Cardinality(EndsBetween(x, o)) = 0
    BY <2>2, FS_EmptySet
  <2> QED BY <1>3, <2>1, <2>3
<1>5. x < Size /\ ValidAt(x)
  BY <1>0, <1>3, <1>4, NoEndBeyond
<1> DEFINE u == After(x)
<1>6. /\ u \in CharacterEnds /\ u \in Nat /\ x < u
      /\ \A y \in CharacterEnds : x < y => u <= y
      /\ x + Utf8Length(Byte(x)) = u
  <2>1. Utf8Length(Byte(x)) = After(x) - x /\ After(x) \in Nat /\ x < After(x)
    BY <1>3, <1>5, ValidFacts
  <2>2. x + (After(x) - x) = After(x)
    BY <1>3, <2>1
  <2> QED BY <1>3, <1>5, <2>1, <2>2, AfterIsEnd, NoEndInside
<1> HIDE DEF u
<1>7. c[x] = 1 + c[u]
  BY <1>3, <1>4, <1>6
<1>8. u <= o
  BY <1>4, <1>6
<1>9. c[u] = Cardinality(EndsBetween(u, o)) + 1
  <2>1. u \notin Wrong
    <3> HIDE DEF Wrong
    <3>1. Wrong \subseteq Nat
      BY <1>1
    <3> QED BY <1>2, <1>6, <3>1
  <2> QED BY <1>6, <1>8, <2>1
<1>10. EndsBetween(x, o) = EndsBetween(u, o) \cup {u} /\ u \notin EndsBetween(u, o)
  <2>1. \A e \in CharacterEnds : (x < e /\ e <= o) <=> (u < e /\ e <= o) \/ e = u
    BY <1>0, <1>3, <1>6, <1>8
  <2>2. EndsBetween(x, o) = EndsBetween(u, o) \cup {u}
    BY <1>6, <1>8, <2>1 DEF EndsBetween
  <2> QED BY <1>6, <2>2 DEF EndsBetween
<1>11. Cardinality(EndsBetween(x, o)) = Cardinality(EndsBetween(u, o)) + 1
  <2>1. IsFiniteSet(EndsBetween(u, o))
    BY <1>6, <1>f
  <2>2. Cardinality(EndsBetween(u, o) \cup {u}) = Cardinality(EndsBetween(u, o)) + 1
    BY <1>10, <2>1, FS_AddElement
  <2> QED BY <1>10, <2>2
<1>12. Cardinality(EndsBetween(u, o)) \in Nat
  BY <1>6, <1>f
<1> QED BY <1>3, <1>7, <1>9, <1>11, <1>12

\* The lines that ended before an offset are those before its line.
LEMMA EndedLines ==
  ASSUME Size \in Nat, LineStartsUpTo(Size), NEW o \in Nat, o <= Size,
         NEW ended, ended = {e \in LineEnds : e <= o}
  PROVE  /\ LineOf(o) = Cardinality(ended) + 1
         /\ lineStarts[LineOf(o)] =
              IF ended = {} THEN 0 ELSE CHOOSE e \in ended : \A d \in ended : d <= e
<1>1. PICK m \in 1 .. Len(lineStarts) :
        /\ LineOf(o) = m
        /\ \A k \in 1 .. Len(lineStarts) : lineStarts[k] <= o <=> k <= m
  BY LineOfFacts
<1>2. Len(lineStarts) \in Nat \ {0} /\ DOMAIN lineStarts = 1 .. Len(lineStarts)
      /\ lineStarts[1] = 0 /\ \A k \in 1 .. Len(lineStarts) : lineStarts[k] \in Nat
  BY LineVectorFacts DEF LineStartsUpTo
<1>3. \A j, k \in 1 .. Len(lineStarts) : j < k => lineStarts[j] < lineStarts[k]
  BY <1>2 DEF LineStartsUpTo
<1>4. \A k \in 2 .. m : lineStarts[k] \in ended
  <2> SUFFICES ASSUME NEW k \in 2 .. m PROVE lineStarts[k] \in ended
    OBVIOUS
  <2>1. k \in 1 .. Len(lineStarts) /\ k # 1 /\ k <= m
    BY <1>2
  <2>2. lineStarts[k] \in LineEnds
    BY <1>2, <2>1 DEF LineStartsUpTo
  <2>3. lineStarts[k] <= o
    BY <1>1, <2>1
  <2> QED BY <2>2, <2>3
<1>5. \A e \in ended : \E k \in 2 .. m : lineStarts[k] = e
  <2> SUFFICES ASSUME NEW e \in ended PROVE \E k \in 2 .. m : lineStarts[k] = e
    OBVIOUS
  <2>1. e \in LineEnds /\ e <= o /\ e <= Size
    BY LineEndsFacts
  <2>2. PICK k \in 1 .. Len(lineStarts) : k # 1 /\ lineStarts[k] = e
    BY <1>2, <2>1 DEF LineStartsUpTo
  <2>3. k <= m
    BY <1>1, <2>1, <2>2
  <2>4. k \in 2 .. m
    BY <1>2, <2>2, <2>3
  <2> QED BY <2>2, <2>4
<1>6. Cardinality(ended) = m - 1
  <2> DEFINE f == [k \in 1 .. m - 1 |-> lineStarts[k + 1]]
  <2>1. \A k \in 1 .. m - 1 : k + 1 \in 2 .. m /\ k + 1 \in 1 .. Len(lineStarts)
    BY <1>2
  <2>2. f \in [1 .. m - 1 -> ended]
    BY <1>4, <2>1
  <2>3. ASSUME NEW j \in 1 .. m - 1, NEW k \in 1 .. m - 1, j # k PROVE f[j] # f[k]
    <3>1. f[j] = lineStarts[j + 1] /\ f[k] = lineStarts[k + 1]
      OBVIOUS
    <3>2. lineStarts[j + 1] \in Nat /\ lineStarts[k + 1] \in Nat
      BY <1>2, <2>1
    <3>3. CASE j < k
      <4>1. j + 1 < k + 1
        BY <3>3
      <4>2. lineStarts[j + 1] < lineStarts[k + 1]
        BY <1>3, <2>1, <4>1
      <4> QED BY <3>1, <3>2, <4>2
    <3>4. CASE k < j
      <4>1. k + 1 < j + 1
        BY <3>4
      <4>2. lineStarts[k + 1] < lineStarts[j + 1]
        BY <1>3, <2>1, <4>1
      <4> QED BY <3>1, <3>2, <4>2
    <3> QED BY <2>3, <3>3, <3>4
  <2>4. ASSUME NEW e \in ended PROVE \E k \in 1 .. m - 1 : f[k] = e
    <3>1. PICK k \in 2 .. m : lineStarts[k] = e
      BY <1>5
    <3>2. k - 1 \in 1 .. m - 1 /\ (k - 1) + 1 = k
      OBVIOUS
    <3> QED BY <3>1, <3>2
  <2>5. ExistsBijection(1 .. m - 1, ended)
    <3> HIDE DEF f
    <3>1. f \in Injection(1 .. m - 1, ended)
      BY <2>2, <2>3 DEF Injection, IsInjective
    <3>2. f \in Surjection(1 .. m - 1, ended)
      BY <2>2, <2>4 DEF Surjection
    <3> QED BY <3>1, <3>2 DEF ExistsBijection, Bijection
  <2>6. m - 1 \in Nat
    BY <1>2
  <2> QED BY <2>5, <2>6, FS_CountingElements
<1>7. CASE m = 1
  <2>1. ended = {}
    <3>1. \A k \in 2 .. m : FALSE
      BY <1>7
    <3> QED BY <1>5, <3>1
  <2> QED BY <1>1, <1>2, <1>6, <1>7, <2>1
<1>8. CASE m # 1
  <2>1. m \in 2 .. m
    BY <1>2, <1>8
  <2>2. lineStarts[m] \in ended
    BY <1>4, <2>1
  <2>3. \A d \in ended : d <= lineStarts[m]
    <3> SUFFICES ASSUME NEW d \in ended PROVE d <= lineStarts[m]
      OBVIOUS
    <3>1. PICK k \in 2 .. m : lineStarts[k] = d
      BY <1>5
    <3>2. k \in 1 .. Len(lineStarts)
      BY <1>2
    <3>3. CASE k = m
      BY <1>2, <3>1, <3>2, <3>3
    <3>4. CASE k < m
      BY <1>2, <1>3, <3>1, <3>2, <3>4
    <3> QED BY <3>3, <3>4
  <2>4. \A d \in ended : d \in Nat
    BY <1>2, <1>5
  <2>5. ASSUME NEW e \in ended, \A d \in ended : d <= e PROVE e = lineStarts[m]
    BY <2>2, <2>3, <2>4, <2>5
  <2>6. (CHOOSE e \in ended : \A d \in ended : d <= e) = lineStarts[m]
    BY <2>2, <2>3, <2>5
  <2> QED BY <1>1, <1>2, <1>6, <2>2, <2>6
<1> QED BY <1>7, <1>8

-----------------------------------------------------------------------------

LEMMA EncodingProved == TextInv => EncodingExact
BY EncodingFacts DEF EncodingExact, Checked

LEMMA BoundariesProved == TextInv => BoundariesExact
<1> SUFFICES ASSUME TextInv, stage = "constructed", NEW offset_0 \in 0 .. Size + 1
             PROVE  IsSourceBoundary(offset_0) <=> offset_0 \in CharacterEnds /\ ~InCrLf(offset_0)
  BY DEF BoundariesExact
<1>1. offset_0 \in Nat /\ Checked
  BY DEF Checked
<1> QED BY <1>1, BoundaryIsExact DEF Boundaries

LEMMA LocationsProved == TextInv => LocationsExact
<1> SUFFICES ASSUME TextInv, stage = "constructed", NEW o \in 0 .. Size + 1
             PROVE  LET ended == {e \in LineEnds : e <= o}
                        start == IF ended = {} THEN 0
                                 ELSE CHOOSE e \in ended : \A d \in ended : d <= e
                    IN LocationAt(o) =
                         IF o \in CharacterEnds /\ ~InCrLf(o)
                         THEN [line |-> Cardinality(ended) + 1,
                               column |-> Cardinality({e \in CharacterEnds : start < e /\ e <= o}) + 1]
                         ELSE NoLocation
  BY DEF LocationsExact
<1>0. IsSourceBoundary(o) <=> o \in CharacterEnds /\ ~InCrLf(o)
  BY BoundariesProved DEF BoundariesExact
<1> SUFFICES ASSUME o \in CharacterEnds, IsSourceBoundary(o)
             PROVE  LET ended == {e \in LineEnds : e <= o}
                        start == IF ended = {} THEN 0
                                 ELSE CHOOSE e \in ended : \A d \in ended : d <= e
                    IN LocationAt(o) =
                         [line |-> Cardinality(ended) + 1,
                          column |-> Cardinality({e \in CharacterEnds : start < e /\ e <= o}) + 1]
  <2>1. CASE IsSourceBoundary(o)
    BY <1>0, <2>1
  <2>2. CASE ~IsSourceBoundary(o)
    BY <1>0, <2>2 DEF LocationAt
  <2> QED BY <2>1, <2>2
<1> DEFINE ended == {e \in LineEnds : e <= o}
           start == IF ended = {} THEN 0 ELSE CHOOSE e \in ended : \A d \in ended : d <= e
<1> SUFFICES LocationAt(o) =
               [line |-> Cardinality(ended) + 1,
                column |-> Cardinality({e \in CharacterEnds : start < e /\ e <= o}) + 1]
  OBVIOUS
<1>1. IsText /\ Size \in Nat /\ LineStartsUpTo(Size)
  BY EncodingFacts DEF Checked
<1>2. o \in CharacterEnds /\ o \in Nat /\ o <= Size
  BY <1>1, EndsFacts
<1>3. LineOf(o) = Cardinality(ended) + 1 /\ lineStarts[LineOf(o)] = start
  <2>1. /\ LineOf(o) = Cardinality(ended) + 1
        /\ lineStarts[LineOf(o)] =
             IF ended = {} THEN 0 ELSE CHOOSE e \in ended : \A d \in ended : d <= e
    BY <1>1, <1>2, EndedLines
  <2> QED BY <2>1
<1> HIDE DEF ended, start
<1>4. start \in CharacterEnds /\ start <= o
  <2>1. lineStarts[LineOf(o)] \in Boundaries /\ lineStarts[LineOf(o)] <= o
    BY <1>1, <1>2, LineStartIsBoundary
  <2> QED BY <1>3, <2>1 DEF Boundaries
<1>5. PICK c : /\ \A n \in Nat : c[n] = IF n >= o THEN 1 ELSE 1 + c[n + Utf8Length(Byte(n))]
               /\ LocationAt(o) = [line |-> LineOf(o), column |-> c[lineStarts[LineOf(o)]]]
  BY <1>1, <1>2, ColumnRecursion
<1>6. c[start] = Cardinality(EndsBetween(start, o)) + 1
  BY <1>1, <1>2, <1>4, <1>5, ColumnCounts
<1> QED BY <1>3, <1>5, <1>6 DEF EndsBetween

-----------------------------------------------------------------------------
(* Pieces of a text.                                                       *)

LEMMA SliceFacts ==
  ASSUME IsText, NEW b \in Nat, NEW e \in Nat, b <= e, e <= Size
  PROVE  /\ Slice(Span(b, e)) \in Seq(Bytes) /\ Len(Slice(Span(b, e))) = e - b
         /\ DOMAIN Slice(Span(b, e)) = 1 .. e - b
         /\ \A k \in 1 .. e - b : Slice(Span(b, e))[k] = Byte(b + k - 1)
<1>1. Slice(Span(b, e)) = SubSeq(contents, b + 1, e)
  BY DEF Slice, Span
<1>2. Size \in Nat /\ Size = Len(contents) /\ contents \in Seq(Bytes)
  BY ByteFacts DEF Size, IsText
<1>3. \A k \in b + 1 .. e : contents[k] \in Bytes
  BY <1>2, ElementOfSeq
<1>4. SubSeq(contents, b + 1, e) \in Seq(Bytes)
  BY <1>2, <1>3, SubSeqProperties
<1>5. /\ Len(SubSeq(contents, b + 1, e)) = e - b
      /\ \A k \in 1 .. e - b : SubSeq(contents, b + 1, e)[k] = Byte(b + k - 1)
  BY <1>2, SubSeqProperties DEF Byte
<1>6. DOMAIN SubSeq(contents, b + 1, e) = 1 .. e - b
  BY <1>4, <1>5, LenProperties
<1> QED BY <1>1, <1>4, <1>5, <1>6

LEMMA LongerFacts ==
  ASSUME IsText, NEW b \in Nat, NEW e \in Nat, b <= e, e < Size
  PROVE  /\ SubSeq(contents, b + 1, e + 1) = Slice(Span(b, e + 1))
         /\ Len(Slice(Span(b, e + 1))) = e + 1 - b
         /\ DOMAIN Slice(Span(b, e + 1)) = 1 .. e + 1 - b
         /\ Slice(Span(b, e + 1))[e + 1 - b] = Byte(e)
         /\ Slice(Span(b, e + 1))[1] = Byte(b)
<1>1. SubSeq(contents, b + 1, e + 1) = Slice(Span(b, e + 1))
  BY DEF Slice, Span
<1>2. Size \in Nat /\ e + 1 \in Nat /\ b <= e + 1 /\ e + 1 <= Size
  BY ByteFacts
<1>3. /\ Len(Slice(Span(b, e + 1))) = e + 1 - b
      /\ DOMAIN Slice(Span(b, e + 1)) = 1 .. e + 1 - b
      /\ \A k \in 1 .. e + 1 - b : Slice(Span(b, e + 1))[k] = Byte(b + k - 1)
  BY <1>2, SliceFacts
<1>4. /\ e + 1 - b \in 1 .. e + 1 - b /\ b + (e + 1 - b) - 1 = e
      /\ 1 \in 1 .. e + 1 - b /\ b + 1 - 1 = b
  BY <1>2
<1> QED BY <1>1, <1>3, <1>4

LEMMA RunEndFacts ==
  ASSUME IsText, NEW b \in Nat, b <= Size, NEW bytes
  PROVE  /\ RunEnd(b, bytes) \in b .. Size
         /\ \A k \in b .. RunEnd(b, bytes) - 1 : Byte(k) \in bytes
         /\ RunEnd(b, bytes) < Size => Byte(RunEnd(b, bytes)) \notin bytes
<1>0. Size \in Nat
  BY ByteFacts
<1> DEFINE Ends(end) == /\ \A k \in b .. end - 1 : Byte(k) \in bytes
                        /\ ~Has(end, bytes)
           Stops == {e \in b .. Size : ~Has(e, bytes)}
<1>1. Size \in Stops
  BY <1>0 DEF Has
<1>2. PICK x \in Stops : \A y \in Stops : x <= y
  <2>1. Stops \subseteq Nat
    OBVIOUS
  <2> HIDE DEF Stops
  <2> QED BY <1>1, <2>1, LeastNatural
<1>3. x \in b .. Size /\ ~Has(x, bytes)
  OBVIOUS
<1>4. ASSUME NEW k \in b .. x - 1 PROVE Byte(k) \in bytes
  <2>1. k \in b .. Size /\ ~(x <= k)
    BY <1>0, <1>3
  <2>2. k \notin Stops
    BY <1>2, <2>1
  <2>3. Has(k, bytes)
    BY <2>1, <2>2
  <2> QED BY <2>3 DEF Has
<1>5. \E end \in b .. Size : Ends(end)
  BY <1>3, <1>4
<1>6. RunEnd(b, bytes) = CHOOSE end \in b .. Size : Ends(end)
  BY DEF RunEnd
<1>7. RunEnd(b, bytes) \in b .. Size /\ Ends(RunEnd(b, bytes))
  <2> HIDE DEF Ends
  <2> QED BY <1>5, <1>6
<1> QED BY <1>7 DEF Has

\* What ends after a byte of ASCII that is no carriage return can be cut there.
LEMMA AsciiEndIsBoundary ==
  ASSUME IsText, Size \in CharacterEnds, NEW e \in Nat, 0 < e, e <= Size,
         Byte(e - 1) \in 0 .. 127, Byte(e - 1) # 13
  PROVE  e \in Boundaries
<1>1. Size \in Nat /\ e - 1 \in Nat /\ e - 1 < Size /\ (e - 1) + 1 = e
  BY ByteFacts
<1>2. e \in CharacterEnds
  BY <1>1, AsciiStandsAlone
<1> QED BY <1>1, <1>2, InCrLfFacts DEF Boundaries

\* What is no line feed begins where a text can be cut.
LEMMA BeginIsBoundary ==
  ASSUME IsText, NEW b \in CharacterEnds, b < Size => Byte(b) # 10
  PROVE  b \in Boundaries
BY ByteFacts, InCrLfFacts DEF Boundaries

-----------------------------------------------------------------------------
(* The tables.                                                             *)

Kinds == DOMAIN Singles \cup DOMAIN Pairs \cup DOMAIN Keywords
           \cup {"identifier", "integerLiteral", "float64Literal", "float32Literal", "endOfFile"}

OtherKinds == {"identifier", "integerLiteral", "float64Literal", "float32Literal", "endOfFile"}

Marks == {33, 37, 40, 41, 42, 43, 44, 45, 47, 58, 59, 60, 61, 62, 123, 125}

LEMMA MarkFacts ==
  ASSUME NEW b \in Marks
  PROVE  b \in 0 .. 127 /\ b \notin Whitespace /\ b \notin IdentifierStart /\ b \notin Digits
BY DEF Marks, Whitespace, IdentifierStart, Letters, Underscore, Digits, CR, LF

LEMMA SinglesFacts ==
  ASSUME NEW kind \in DOMAIN Singles
  PROVE  /\ kind \notin OtherKinds
         /\ \E b \in Marks : Singles[kind] = <<b>>
BY DEF Singles, OtherKinds, Marks

LEMMA PairsFacts ==
  ASSUME NEW kind \in DOMAIN Pairs
  PROVE  /\ kind \notin OtherKinds
         /\ \E b \in Marks, c \in Marks : Pairs[kind] = <<b, c>>
<1>1. /\ kind \notin OtherKinds
      /\ \/ Pairs[kind] = <<45, 62>> \/ Pairs[kind] = <<61, 61>> \/ Pairs[kind] = <<33, 61>>
         \/ Pairs[kind] = <<60, 61>> \/ Pairs[kind] = <<62, 61>>
  BY DEF Pairs, OtherKinds
<1>2. {33, 45, 60, 61, 62} \subseteq Marks
  BY DEF Marks
<1> QED BY <1>1, <1>2

LEMMA KeywordsFacts ==
  ASSUME NEW kind \in DOMAIN Keywords
  PROVE  kind \notin OtherKinds
BY DEF Keywords, OtherKinds

LEMMA KindOfFacts ==
  ASSUME NEW table, NEW text \in Spellings(table)
  PROVE  KindOf(table, text) \in DOMAIN table /\ table[KindOf(table, text)] = text
BY DEF Spellings, KindOf

-----------------------------------------------------------------------------
(* Numbers: a literal is judged as it was meant to be written.             *)

IsPiece(text) == text \in Seq(Bytes)

LEMMA PieceFacts ==
  ASSUME NEW text, IsPiece(text)
  PROVE  /\ Len(text) \in Nat /\ DOMAIN text = 1 .. Len(text)
         /\ \A k \in 1 .. Len(text) : text[k] \in Bytes
         /\ text = <<>> <=> Len(text) = 0
BY LenProperties, ElementOfSeq, EmptySeq DEF IsPiece

LEMMA PartFacts ==
  ASSUME NEW text, IsPiece(text), NEW a \in Nat \ {0}, NEW b \in Nat, b <= Len(text), a <= b + 1
  PROVE  /\ IsPiece(SubSeq(text, a, b)) /\ Len(SubSeq(text, a, b)) = b - a + 1
         /\ \A k \in 1 .. b - a + 1 : SubSeq(text, a, b)[k] = text[a + k - 1]
<1>1. Len(text) \in Nat /\ \A k \in a .. b : text[k] \in Bytes
  BY PieceFacts
<1>2. SubSeq(text, a, b) \in Seq(Bytes)
  BY <1>1, SubSeqProperties DEF IsPiece
<1>3. /\ Len(SubSeq(text, a, b)) = b - a + 1
      /\ \A k \in 1 .. b - a + 1 : SubSeq(text, a, b)[k] = text[a + k - 1]
  BY <1>1, SubSeqProperties DEF IsPiece
<1> QED BY <1>2, <1>3 DEF IsPiece

FiguresIn(text, a, b) == a <= b /\ \A i \in a .. b : text[i] \in Digits
WholeIn(text, b) == FiguresIn(text, 1, b) /\ (b = 1 \/ text[1] # 48)
FractionIn(text, n) ==
  \E k \in 1 .. n : text[k] = Point /\ WholeIn(text, k - 1) /\ FiguresIn(text, k + 1, n)

LEMMA FiguresOfPart ==
  ASSUME NEW text, IsPiece(text), NEW a \in Nat \ {0}, NEW b \in Nat, b <= Len(text), a <= b + 1
  PROVE  /\ Figures(SubSeq(text, a, b)) <=> FiguresIn(text, a, b)
         /\ AllDigits(SubSeq(text, a, b)) <=> FiguresIn(text, a, b)
<1> DEFINE part == SubSeq(text, a, b)
           n == b - a + 1
<1>1. /\ IsPiece(part) /\ Len(part) = n /\ DOMAIN part = 1 .. n /\ n \in Nat
      /\ \A k \in 1 .. n : part[k] = text[a + k - 1]
      /\ part = <<>> <=> n = 0
  <2>1. /\ IsPiece(part) /\ Len(part) = n
        /\ \A k \in 1 .. n : part[k] = text[a + k - 1]
    BY PartFacts
  <2>2. DOMAIN part = 1 .. Len(part) /\ (part = <<>> <=> Len(part) = 0)
    <3> HIDE DEF part
    <3> QED BY <2>1, PieceFacts
  <2> QED BY <2>1, <2>2
<1>2. n # 0 <=> a <= b
  OBVIOUS
<1>3. (\A k \in 1 .. n : part[k] \in Digits) <=> \A i \in a .. b : text[i] \in Digits
  <2>1. ASSUME \A k \in 1 .. n : part[k] \in Digits, NEW i \in a .. b PROVE text[i] \in Digits
    <3>1. i - a + 1 \in 1 .. n /\ a + (i - a + 1) - 1 = i
      OBVIOUS
    <3> HIDE DEF part, n
    <3> QED BY <1>1, <2>1, <3>1
  <2>2. ASSUME \A i \in a .. b : text[i] \in Digits, NEW k \in 1 .. n PROVE part[k] \in Digits
    <3>1. a + k - 1 \in a .. b
      OBVIOUS
    <3> HIDE DEF part, n
    <3> QED BY <1>1, <2>2, <3>1
  <2> QED BY <2>1, <2>2
<1>4. Figures(part) <=> part # <<>> /\ \A k \in 1 .. n : part[k] \in Digits
  <2> HIDE DEF part, n
  <2> QED BY <1>1 DEF Figures
<1>5. AllDigits(part) <=> part # <<>> /\ \A k \in 1 .. n : part[k] \in Digits
  <2> HIDE DEF part, n
  <2> QED BY <1>1 DEF AllDigits
<1> HIDE DEF part, n
<1>6. (part # <<>> /\ \A k \in 1 .. n : part[k] \in Digits) <=> FiguresIn(text, a, b)
  BY <1>1, <1>2, <1>3 DEF FiguresIn
<1> QED BY <1>4, <1>5, <1>6 DEF part

LEMMA WholeOfPart ==
  ASSUME NEW text, IsPiece(text), NEW b \in Nat, b <= Len(text)
  PROVE  /\ Whole(SubSeq(text, 1, b)) <=> WholeIn(text, b)
         /\ ValidInteger(SubSeq(text, 1, b)) <=> WholeIn(text, b)
<1> DEFINE part == SubSeq(text, 1, b)
<1>1. /\ Figures(part) <=> FiguresIn(text, 1, b)
      /\ AllDigits(part) <=> FiguresIn(text, 1, b)
  BY FiguresOfPart
<1>2. Len(part) = b /\ (1 <= b => part[1] = text[1])
  <2>1. Len(part) = b - 1 + 1 /\ \A k \in 1 .. b - 1 + 1 : part[k] = text[1 + k - 1]
    BY PartFacts
  <2>2. 1 <= b => 1 \in 1 .. b - 1 + 1 /\ 1 + 1 - 1 = 1
    OBVIOUS
  <2> HIDE DEF part
  <2> QED BY <2>1, <2>2
<1>3. FiguresIn(text, 1, b) => 1 <= b
  BY DEF FiguresIn
<1> HIDE DEF part
<1>4. Whole(part) <=> WholeIn(text, b)
  BY <1>1, <1>2, <1>3 DEF Whole, WholeIn
<1>5. ValidInteger(part) <=> WholeIn(text, b)
  BY <1>1, <1>2, <1>3 DEF ValidInteger, WholeIn
<1> QED BY <1>4, <1>5 DEF part

LEMMA FractionOfPiece ==
  ASSUME NEW text, IsPiece(text)
  PROVE  Fractional(text) <=> FractionIn(text, Len(text))
<1>1. Len(text) \in Nat /\ DOMAIN text = 1 .. Len(text)
  BY PieceFacts
<1>2. ASSUME NEW k \in 1 .. Len(text)
      PROVE  /\ Whole(SubSeq(text, 1, k - 1)) <=> WholeIn(text, k - 1)
             /\ Figures(SubSeq(text, k + 1, Len(text))) <=> FiguresIn(text, k + 1, Len(text))
  <2>1. k - 1 \in Nat /\ k - 1 <= Len(text) /\ k + 1 \in Nat \ {0} /\ k + 1 <= Len(text) + 1
    BY <1>1
  <2> QED BY <1>1, <2>1, WholeOfPart, FiguresOfPart
<1> QED BY <1>1, <1>2 DEF Fractional, FractionIn

LEMMA FromOne ==
  ASSUME NEW n \in Nat
  PROVE  n - 1 + 1 = n /\ \A k \in 1 .. n : 1 + k - 1 = k
OBVIOUS

LEMMA FractionOfPart ==
  ASSUME NEW text, IsPiece(text), NEW n \in Nat, n <= Len(text)
  PROVE  Fractional(SubSeq(text, 1, n)) <=> FractionIn(text, n)
<1> DEFINE part == SubSeq(text, 1, n)
<1>1. IsPiece(part) /\ Len(part) = n /\ \A k \in 1 .. n : part[k] = text[k]
  <2>0. 1 \in Nat \ {0} /\ 1 <= n + 1
    OBVIOUS
  <2>1. IsPiece(part) /\ Len(part) = n - 1 + 1 /\ \A k \in 1 .. n - 1 + 1 : part[k] = text[1 + k - 1]
    BY <2>0, PartFacts
  <2>2. n - 1 + 1 = n /\ \A k \in 1 .. n : 1 + k - 1 = k
    BY FromOne
  <2> HIDE DEF part
  <2> QED BY <2>1, <2>2
<1>2. Fractional(part) <=> FractionIn(part, n)
  <2> HIDE DEF part
  <2> QED BY <1>1, FractionOfPiece
<1> HIDE DEF part
<1>3. ASSUME NEW k \in 1 .. n
      PROVE  /\ part[k] = Point <=> text[k] = Point
             /\ WholeIn(part, k - 1) <=> WholeIn(text, k - 1)
             /\ FiguresIn(part, k + 1, n) <=> FiguresIn(text, k + 1, n)
  <2>1. \A i \in 1 .. k - 1 : part[i] = text[i]
    BY <1>1
  <2>2. \A i \in k + 1 .. n : part[i] = text[i]
    BY <1>1
  <2>3. 1 <= k - 1 => 1 \in 1 .. k - 1
    OBVIOUS
  <2>4. FiguresIn(part, 1, k - 1) <=> FiguresIn(text, 1, k - 1)
    BY <2>1 DEF FiguresIn
  <2>5. FiguresIn(part, k + 1, n) <=> FiguresIn(text, k + 1, n)
    BY <2>2 DEF FiguresIn
  <2>6. FiguresIn(text, 1, k - 1) => part[1] = text[1]
    BY <2>1, <2>3 DEF FiguresIn
  <2> QED BY <1>1, <2>4, <2>5, <2>6 DEF WholeIn
<1> QED BY <1>2, <1>3 DEF FractionIn, part

LEMMA WholeOfPiece ==
  ASSUME NEW text, IsPiece(text)
  PROVE  /\ Whole(text) <=> WholeIn(text, Len(text))
         /\ ValidInteger(text) <=> WholeIn(text, Len(text))
<1>1. Len(text) \in Nat /\ DOMAIN text = 1 .. Len(text) /\ (text = <<>> <=> Len(text) = 0)
  BY PieceFacts
<1>2. Figures(text) <=> FiguresIn(text, 1, Len(text))
  BY <1>1 DEF Figures, FiguresIn
<1>3. AllDigits(text) <=> FiguresIn(text, 1, Len(text))
  BY <1>1 DEF AllDigits, FiguresIn
<1> QED BY <1>1, <1>2, <1>3 DEF Whole, ValidInteger, WholeIn

\* The forms of numbers, by the places of their bytes.
LEMMA NumberLexemes ==
  ASSUME NEW text, IsPiece(text), Len(text) # 0
  PROVE  /\ Lexeme("integerLiteral", text) <=> WholeIn(text, Len(text))
         /\ Lexeme("float64Literal", text) <=> FractionIn(text, Len(text))
         /\ Lexeme("float32Literal", text) <=>
              text[Len(text)] = LetterF /\ FractionIn(text, Len(text) - 1)
<1>1. Len(text) - 1 \in Nat /\ Len(text) - 1 <= Len(text)
  BY PieceFacts
<1>2. /\ Lexeme("integerLiteral", text) <=> Whole(text)
      /\ Lexeme("float64Literal", text) <=> Fractional(text)
      /\ Lexeme("float32Literal", text) <=>
           text[Len(text)] = LetterF /\ Fractional(SubSeq(text, 1, Len(text) - 1))
  BY DEF Lexeme
<1> QED BY <1>1, <1>2, WholeOfPiece, FractionOfPiece, FractionOfPart

\* A fraction has one point, and it is where the fraction begins.
LEMMA OnePoint ==
  ASSUME NEW text, NEW n \in Nat, NEW p \in 1 .. n, text[p] = Point
  PROVE  FractionIn(text, n) <=> WholeIn(text, p - 1) /\ FiguresIn(text, p + 1, n)
<1>1. Point \notin Digits
  BY DEF Point, Digits
<1>2. ASSUME NEW k \in 1 .. n, text[k] = Point, WholeIn(text, k - 1), FiguresIn(text, k + 1, n)
      PROVE  k = p
  <2>1. p \notin 1 .. k - 1
    BY <1>1, <1>2 DEF WholeIn, FiguresIn
  <2>2. p \notin k + 1 .. n
    BY <1>1, <1>2 DEF FiguresIn
  <2> QED BY <2>1, <2>2
<1> QED BY <1>2 DEF FractionIn

LEMMA NoPoint ==
  ASSUME NEW text, NEW n \in Nat, \A k \in 1 .. n : text[k] # Point
  PROVE  ~FractionIn(text, n)
BY DEF FractionIn

NumberKinds == {"integerLiteral", "float64Literal", "float32Literal"}

LEMMA ClassifyNumberFacts ==
  ASSUME NEW text, IsPiece(text), Len(text) # 0, text[1] \in Digits
  PROVE  \/ ClassifyNumber(text) \in NumberKinds /\ Lexeme(ClassifyNumber(text), text)
         \/ ClassifyNumber(text) = "none" /\ \A kind \in NumberKinds : ~Lexeme(kind, text)
<1> DEFINE n == Len(text)
           points == {k \in DOMAIN text : text[k] = Point}
           point == CHOOSE k \in points : TRUE
           isFloat32 == text[n] = LetterF
           end == IF isFloat32 THEN n - 1 ELSE n
           isFloat == /\ point < end
                      /\ ValidInteger(SubSeq(text, 1, point - 1))
                      /\ AllDigits(SubSeq(text, point + 1, end))
<1>1. n \in Nat \ {0} /\ DOMAIN text = 1 .. n
  BY PieceFacts
<1>2. /\ Lexeme("integerLiteral", text) <=> WholeIn(text, n)
      /\ Lexeme("float64Literal", text) <=> FractionIn(text, n)
      /\ Lexeme("float32Literal", text) <=> isFloat32 /\ FractionIn(text, n - 1)
  BY NumberLexemes
<1>3. ClassifyNumber(text) =
        CASE points = {}             -> IF ValidInteger(text) THEN "integerLiteral" ELSE "none"
          [] Cardinality(points) = 1 -> IF ~isFloat THEN "none"
                                        ELSE IF isFloat32 THEN "float32Literal" ELSE "float64Literal"
          [] Cardinality(points) > 1 -> "none"
  BY DEF ClassifyNumber
<1>4. IsFiniteSet(points) /\ Cardinality(points) \in Nat /\ (Cardinality(points) = 0 <=> points = {})
  <2>1. IsFiniteSet(1 .. n)
    BY <1>1, FS_Interval
  <2>2. points \in SUBSET (1 .. n)
    BY <1>1
  <2>3. IsFiniteSet(points)
    BY <2>1, <2>2, FS_Subset
  <2> QED BY <2>3, FS_CardinalityType, FS_EmptySet
<1>5. Point \notin Digits /\ LetterF \notin Digits /\ Point # LetterF
  BY DEF Point, LetterF, Digits
<1>6. \A k \in 1 .. n : k \in points <=> text[k] = Point
  BY <1>1
<1>7. n - 1 \in Nat /\ n \in 1 .. n
  BY <1>1
<1>8. CASE points = {}
  <2>1. \A k \in 1 .. n : text[k] # Point
    BY <1>6, <1>8
  <2>2. ~FractionIn(text, n)
    <3> HIDE DEF n
    <3> QED BY <1>1, <2>1, NoPoint
  <2>3. ~FractionIn(text, n - 1)
    <3>1. \A k \in 1 .. n - 1 : text[k] # Point
      <4>1. \A k \in 1 .. n - 1 : k \in 1 .. n
        BY <1>1
      <4> QED BY <2>1, <4>1
    <3> HIDE DEF n
    <3> QED BY <1>7, <3>1, NoPoint
  <2>4. ClassifyNumber(text) = IF ValidInteger(text) THEN "integerLiteral" ELSE "none"
    <3>1. Cardinality(points) = 0
      BY <1>4, <1>8
    <3> HIDE DEF points, isFloat, isFloat32
    <3> QED BY <1>3, <1>8, <3>1
  <2>5. ValidInteger(text) <=> WholeIn(text, n)
    BY WholeOfPiece
  <2> HIDE DEF n, points, isFloat32
  <2> QED BY <1>2, <2>2, <2>3, <2>4, <2>5 DEF NumberKinds
<1>9. CASE points # {}
  <2>1. point \in points /\ point \in 1 .. n /\ text[point] = Point
    <3>1. point \in points
      <4> HIDE DEF points
      <4> QED BY <1>9
    <3> QED BY <1>1, <3>1
  <2> HIDE DEF point
  <2>2. ~WholeIn(text, n)
    <3> HIDE DEF n
    <3> QED BY <1>5, <2>1 DEF WholeIn, FiguresIn
  <2>3. FractionIn(text, n) => ~isFloat32
    <3>1. FractionIn(text, n) => FiguresIn(text, point + 1, n)
      <4> HIDE DEF n
      <4> QED BY <1>1, <2>1, OnePoint
    <3>2. FiguresIn(text, point + 1, n) => text[n] \in Digits
      <4> HIDE DEF n
      <4> QED BY <1>1, <2>1 DEF FiguresIn
    <3> HIDE DEF n
    <3> QED BY <1>5, <3>1, <3>2
  <2>4. point # 1
    BY <1>5, <2>1
  <2>5. point - 1 \in Nat /\ point - 1 <= n /\ point + 1 \in Nat \ {0}
        /\ end \in Nat /\ end <= n
    BY <1>1, <2>1
  <2>6. isFloat <=> point < end /\ WholeIn(text, point - 1) /\ FiguresIn(text, point + 1, end)
    <3>1. ValidInteger(SubSeq(text, 1, point - 1)) <=> WholeIn(text, point - 1)
      BY <2>5, WholeOfPart
    <3>2. point < end => (AllDigits(SubSeq(text, point + 1, end)) <=> FiguresIn(text, point + 1, end))
      <4> SUFFICES ASSUME point < end
                   PROVE  AllDigits(SubSeq(text, point + 1, end)) <=> FiguresIn(text, point + 1, end)
        OBVIOUS
      <4>1. point + 1 <= end + 1
        BY <2>1, <2>5
      <4> HIDE DEF end
      <4> QED BY <2>5, <4>1, FiguresOfPart
    <3> HIDE DEF end
    <3> QED BY <3>1, <3>2
  <2>7. isFloat <=> FractionIn(text, end)
    <3>1. CASE point < end
      <4>1. point \in 1 .. end
        <5> HIDE DEF end
        <5> QED BY <2>1, <2>5, <3>1
      <4>2. FractionIn(text, end) <=> WholeIn(text, point - 1) /\ FiguresIn(text, point + 1, end)
        <5> HIDE DEF end, isFloat
        <5> QED BY <2>1, <2>5, <4>1, OnePoint
      <4> HIDE DEF end, isFloat
      <4> QED BY <2>6, <3>1, <4>2
    <3>2. CASE ~(point < end)
      <4>1. ASSUME FractionIn(text, end) PROVE FALSE
        <5>1. PICK k \in 1 .. end : text[k] = Point /\ WholeIn(text, k - 1) /\ FiguresIn(text, k + 1, end)
          BY <4>1 DEF FractionIn
        <5>2. k + 1 <= end
          BY <5>1 DEF FiguresIn
        <5>3. CASE end = n
          <6>1. point = n
            <7> HIDE DEF point, points, end, n
            <7> QED BY <1>1, <2>1, <3>2, <5>3
          <6>2. n \in k + 1 .. end
            <7> HIDE DEF end, n
            <7> QED BY <1>1, <5>2, <5>3
          <6>3. text[n] \in Digits
            <7> HIDE DEF end, n
            <7> QED BY <5>1, <6>2 DEF FiguresIn
          <6> HIDE DEF end, n
          <6> QED BY <1>5, <2>1, <6>1, <6>3
        <5>4. CASE end = n - 1 /\ isFloat32
          <6>1. point # n
            BY <1>5, <2>1, <5>4
          <6>2. point = end
            <7> HIDE DEF isFloat32
            <7> QED BY <1>1, <2>1, <3>2, <5>4, <6>1
          <6>3. end \in k + 1 .. end
            <7> HIDE DEF end
            <7> QED BY <2>5, <5>2
          <6>4. text[end] \in Digits
            <7> HIDE DEF end, n
            <7> QED BY <5>1, <6>3 DEF FiguresIn
          <6> HIDE DEF end, n
          <6> QED BY <1>5, <2>1, <6>2, <6>4
        <5> QED BY <5>3, <5>4
      <4> HIDE DEF end, isFloat
      <4> QED BY <2>6, <3>2, <4>1
    <3> HIDE DEF end, isFloat
    <3> QED BY <3>1, <3>2
  <2>8. CASE Cardinality(points) = 1
    <3>1. ClassifyNumber(text) = IF ~isFloat THEN "none"
                                 ELSE IF isFloat32 THEN "float32Literal" ELSE "float64Literal"
      <4> HIDE DEF points, isFloat, isFloat32
      <4> QED BY <1>3, <1>9, <2>8
    <3>2. CASE isFloat32
      <4>1. end = n - 1
        BY <3>2
      <4> HIDE DEF n, points, isFloat32, isFloat, end
      <4> QED BY <1>2, <2>2, <2>3, <2>7, <3>1, <3>2, <4>1 DEF NumberKinds
    <3>3. CASE ~isFloat32
      <4>1. end = n
        BY <3>3
      <4> HIDE DEF n, points, isFloat32, isFloat, end
      <4> QED BY <1>2, <2>2, <2>7, <3>1, <3>3, <4>1 DEF NumberKinds
    <3> QED BY <3>2, <3>3
  <2>9. CASE Cardinality(points) # 1
    <3>1. Cardinality(points) > 1
      <4> HIDE DEF points
      <4> QED BY <1>4, <1>9, <2>9
    <3>2. ClassifyNumber(text) = "none"
      <4> HIDE DEF points, isFloat, isFloat32
      <4> QED BY <1>3, <1>9, <2>9, <3>1
    <3>3. PICK q \in points : q # point
      <4>1. points # {point}
        <5> HIDE DEF points
        <5> QED BY <2>9, FS_Singleton
      <4> HIDE DEF points
      <4> QED BY <2>1, <4>1
    <3>4. q \in 1 .. n /\ text[q] = Point
      BY <1>1
    <3>5. \A m \in Nat : q \in 1 .. m /\ point \in 1 .. m => ~FractionIn(text, m)
      <4> SUFFICES ASSUME NEW m \in Nat, q \in 1 .. m, point \in 1 .. m, FractionIn(text, m)
                   PROVE  FALSE
        OBVIOUS
      <4>1. WholeIn(text, point - 1) /\ FiguresIn(text, point + 1, m)
        BY <2>1, OnePoint
      <4>2. CASE q < point
        <5>1. q \in 1 .. point - 1
          BY <4>2
        <5> HIDE DEF points
        <5> QED BY <1>5, <3>4, <4>1, <5>1 DEF WholeIn, FiguresIn
      <4>3. CASE point < q
        <5>1. q \in point + 1 .. m
          BY <4>3
        <5> HIDE DEF points
        <5> QED BY <1>5, <3>4, <4>1, <5>1 DEF FiguresIn
      <4> HIDE DEF points, n
      <4> QED BY <2>1, <3>3, <3>4, <4>2, <4>3
    <3>6. ~FractionIn(text, n)
      <4> HIDE DEF points, n
      <4> QED BY <1>1, <2>1, <3>4, <3>5
    <3>7. isFloat32 => ~FractionIn(text, n - 1)
      <4> SUFFICES ASSUME isFloat32 PROVE ~FractionIn(text, n - 1)
        OBVIOUS
      <4>1. q # n /\ point # n
        BY <1>5, <2>1, <3>4
      <4>2. q \in 1 .. n - 1 /\ point \in 1 .. n - 1
        <5> HIDE DEF points, n, isFloat32
        <5> QED BY <1>1, <2>1, <3>4, <4>1
      <4> HIDE DEF points, n, isFloat32
      <4> QED BY <1>7, <3>5, <4>2
    <3> HIDE DEF points, n, isFloat32
    <3> QED BY <1>2, <2>2, <3>2, <3>6, <3>7 DEF NumberKinds
  <2> QED BY <2>8, <2>9
<1> QED BY <1>8, <1>9

\* A zero and more is no number.
LEMMA LeadingZeroFacts ==
  ASSUME NEW text, IsPiece(text), LeadingZero(text)
  PROVE  \A kind \in NumberKinds : ~Lexeme(kind, text)
<1> DEFINE n == Len(text)
<1>1. n \in Nat /\ n > 1 /\ text[1] = 48 /\ text[2] \in Digits
  BY PieceFacts DEF LeadingZero
<1>2. /\ Lexeme("integerLiteral", text) <=> WholeIn(text, n)
      /\ Lexeme("float64Literal", text) <=> FractionIn(text, n)
      /\ Lexeme("float32Literal", text) <=> text[n] = LetterF /\ FractionIn(text, n - 1)
  <2>1. Len(text) # 0
    BY <1>1
  <2> QED BY <2>1, NumberLexemes
<1> HIDE DEF n
<1>3. ~WholeIn(text, n)
  BY <1>1 DEF WholeIn
<1>4. \A m \in Nat : ~FractionIn(text, m)
  <2> SUFFICES ASSUME NEW m \in Nat, NEW k \in 1 .. m, text[k] = Point, WholeIn(text, k - 1)
               PROVE  FALSE
    BY DEF FractionIn
  <2>1. k - 1 = 1
    BY <1>1 DEF WholeIn
  <2>2. k = 2
    BY <2>1
  <2> QED BY <1>1, <2>2 DEF Point, Digits
<1> QED BY <1>1, <1>2, <1>3, <1>4 DEF NumberKinds

-----------------------------------------------------------------------------
(* What the scanner knows.  Sets of what is right say it of a text alone.  *)

TokenSet == [kind : Kinds, span : [begin : Nat, end : Nat]]

Right(t, from) ==
  /\ t.span.begin \in Boundaries /\ t.span.end \in Boundaries
  /\ from <= t.span.begin /\ t.span.begin <= t.span.end
  /\ Lexeme(t.kind, Slice(t.span)) /\ Longest(t)
  /\ Blank(from, t.span.begin)
  /\ t.kind # "endOfFile" => ~CommentFrom(from, t.span.begin)

\* Tokens, and where what came before each ended.
Rights == {x \in TokenSet \X Nat : Right(x[1], x[2])}

\* Where the last token ended, and where the scanner may stand after it.
Opens ==
  {x \in Nat \X Nat :
     /\ x[1] <= x[2] /\ x[2] \in CharacterEnds
     /\ Blank(x[1], x[2])
     /\ x[2] < Size /\ Byte(x[2]) \notin {CR, LF} => ~CommentFrom(x[1], x[2])}

ForReason(d) ==
  LET piece == Slice(d.span)
      begin == d.span.begin
  IN IF d.code = "E1003"
     THEN /\ IsCharacter(piece)
          /\ Byte(begin) \notin Whitespace \cup IdentifierStart \cup Digits \cup SingleBytes
          /\ ~PairAt(begin, Spellings(Pairs))
     ELSE /\ Byte(begin) \in Digits /\ ~Has(d.span.end, NumericCandidate)
          /\ \A kind \in NumberKinds : ~Lexeme(kind, piece)
          /\ d.code = "E1005" <=> piece[1] = 48 /\ Len(piece) > 1 /\ piece[2] \in Digits

Refusals ==
  {d \in [code : {"E1003", "E1004", "E1005"}, span : [begin : Nat, end : Nat]] :
     /\ d.span.begin \in Boundaries /\ d.span.end \in Boundaries
     /\ d.span.begin <= d.span.end
     /\ ForReason(d)}

FromOf(s, k) == IF k = 1 THEN 0 ELSE s[k - 1].span.end
LastEnd(s) == IF s = <<>> THEN 0 ELSE s[Len(s)].span.end

\* A sequence of tokens, each of which is right after the one before it.
Chained(s, rights) ==
  s \in Seq(TokenSet) /\ \A k \in DOMAIN s : <<s[k], FromOf(s, k)>> \in rights

OnlyLastEnds ==
  \A k \in DOMAIN tokens : tokens[k].kind = "endOfFile" <=> stage = "lexed" /\ k = Len(tokens)

Scanned == stage \in {"scanning", "lexed", "refused"}

LexerInv ==
  /\ TextInv
  /\ Scanned => ValidUtf8
  /\ tokens # <<>> => Scanned
  /\ Chained(tokens, Rights) /\ OnlyLastEnds
  /\ <<LastEnd(tokens), offset>> \in Opens
  /\ stage = "refused" => diagnostics[1] \in Refusals

LEMMA Kept ==
  ASSUME UNCHANGED contents
  PROVE  /\ Rights' = Rights /\ Opens' = Opens /\ Refusals' = Refusals
         /\ Size' = Size /\ Boundaries' = Boundaries
<1>1. /\ Size' = Size /\ CharacterEnds' = CharacterEnds
      /\ \A b : Byte(b)' = Byte(b) /\ InCrLf(b)' = InCrLf(b)
  BY Frame
<1>2. Boundaries' = Boundaries
  BY <1>1 DEF Boundaries
<1>3. \A span : Slice(span)' = Slice(span)
  BY DEF Slice
<1>4. \A j, bytes : Has(j, bytes)' <=> Has(j, bytes)
  BY <1>1 DEF Has
<1>5. \A j, pairs : PairAt(j, pairs)' <=> PairAt(j, pairs)
  BY <1>4 DEF PairAt
<1>6. \A from, at : CommentFrom(from, at)' <=> CommentFrom(from, at)
  BY <1>1, <1>5 DEF CommentFrom
<1>7. \A from, at : Blank(from, at)' <=> Blank(from, at)
  BY <1>1, <1>5, <1>6 DEF Blank
<1>8. \A t : Longest(t)' <=> Longest(t)
  BY DEF Longest, Slice, Size, Byte
<1>9. \A t, from : Right(t, from)' <=> Right(t, from)
  BY <1>2, <1>3, <1>6, <1>7, <1>8 DEF Right
<1>10. \A d : ForReason(d)' <=> ForReason(d)
  BY <1>1, <1>3, <1>4, <1>5 DEF ForReason
<1>11. Rights' = Rights
  BY <1>9 DEF Rights
<1>12. Opens' = Opens
  BY <1>1, <1>6, <1>7 DEF Opens
<1>13. Refusals' = Refusals
  BY <1>2, <1>10 DEF Refusals
<1> QED BY <1>1, <1>2, <1>11, <1>12, <1>13

LEMMA ChainAppend ==
  ASSUME NEW s, NEW rights, Chained(s, rights), NEW t \in TokenSet,
         <<t, LastEnd(s)>> \in rights
  PROVE  /\ Chained(Append(s, t), rights) /\ Append(s, t) # <<>>
         /\ Len(s) \in Nat /\ Len(Append(s, t)) = Len(s) + 1
         /\ DOMAIN s = 1 .. Len(s) /\ DOMAIN Append(s, t) = 1 .. Len(s) + 1
         /\ \A k \in 1 .. Len(s) : Append(s, t)[k] = s[k]
         /\ Append(s, t)[Len(s) + 1] = t
         /\ LastEnd(Append(s, t)) = t.span.end
<1> DEFINE n == Len(s)
           u == Append(s, t)
<1>1. s \in Seq(TokenSet)
  BY DEF Chained
<1>2. n \in Nat /\ DOMAIN s = 1 .. n /\ (s = <<>> <=> n = 0)
  BY <1>1, LenProperties, EmptySeq
<1>3. /\ u \in Seq(TokenSet) /\ Len(u) = n + 1
      /\ \A k \in 1 .. n : u[k] = s[k]
      /\ u[n + 1] = t
  BY <1>1, AppendProperties
<1>4. DOMAIN u = 1 .. n + 1 /\ u # <<>>
  <2> HIDE DEF u
  <2> QED BY <1>2, <1>3, LenProperties, EmptySeq
<1>5. ASSUME NEW k \in 1 .. n + 1 PROVE <<u[k], FromOf(u, k)>> \in rights
  <2>1. CASE k <= n
    <3>1. k \in 1 .. n /\ u[k] = s[k] /\ (k # 1 => k - 1 \in 1 .. n)
      <4> HIDE DEF u, n
      <4> QED BY <1>2, <1>3, <2>1
    <3>2. FromOf(u, k) = FromOf(s, k)
      <4> HIDE DEF u, n
      <4> QED BY <1>3, <3>1 DEF FromOf
    <3>3. <<s[k], FromOf(s, k)>> \in rights
      BY <1>2, <3>1 DEF Chained
    <3> HIDE DEF u, n
    <3> QED BY <3>1, <3>2, <3>3
  <2>2. CASE ~(k <= n)
    <3>1. k = n + 1 /\ k - 1 = n /\ (k # 1 => n # 0 /\ n \in 1 .. n)
      <4> HIDE DEF u, n
      <4> QED BY <1>2, <2>2
    <3>2. FromOf(u, k) = LastEnd(s)
      <4>1. CASE n = 0
        <5> HIDE DEF u, n
        <5> QED BY <1>2, <3>1, <4>1 DEF FromOf, LastEnd
      <4>2. CASE n # 0
        <5>1. k # 1 /\ u[n] = s[n]
          <6> HIDE DEF u, n
          <6> QED BY <1>2, <1>3, <3>1, <4>2
        <5>2. LastEnd(s) = s[n].span.end
          BY <1>2, <4>2 DEF LastEnd
        <5> HIDE DEF u, n
        <5> QED BY <3>1, <5>1, <5>2 DEF FromOf
      <4> QED BY <4>1, <4>2
    <3> HIDE DEF u, n
    <3> QED BY <1>3, <3>1, <3>2
  <2> QED BY <2>1, <2>2
<1>6. Chained(u, rights)
  <2> HIDE DEF u, n
  <2> QED BY <1>3, <1>4, <1>5 DEF Chained
<1>7. LastEnd(u) = t.span.end
  <2>1. u # <<>> /\ u[Len(u)] = t
    <3> HIDE DEF u, n
    <3> QED BY <1>3, <1>4
  <2> HIDE DEF u, n
  <2> QED BY <2>1 DEF LastEnd
<1> QED BY <1>2, <1>3, <1>4, <1>6, <1>7

\* A scanner may stand where a token ended.
LEMMA OpenAfter ==
  ASSUME IsText, NEW end \in Boundaries
  PROVE  <<end, end>> \in Opens
<1>1. end \in Nat /\ end \in CharacterEnds
  BY ByteFacts, EndsFacts DEF Boundaries
<1>2. Blank(end, end)
  BY <1>1 DEF Blank
<1>3. ~CommentFrom(end, end)
  BY <1>1 DEF CommentFrom
<1> QED BY <1>1, <1>2, <1>3 DEF Opens

LEMMA OpenFacts ==
  ASSUME IsText, NEW from, NEW at, <<from, at>> \in Opens
  PROVE  /\ from \in Nat /\ at \in Nat /\ from <= at /\ at <= Size /\ at \in CharacterEnds
         /\ Blank(from, at)
         /\ at < Size /\ Byte(at) \notin {CR, LF} =>
              ~CommentFrom(from, at) /\ at \in Boundaries
<1>1. /\ from \in Nat /\ at \in Nat /\ from <= at /\ at \in CharacterEnds
      /\ Blank(from, at)
      /\ at < Size /\ Byte(at) \notin {CR, LF} => ~CommentFrom(from, at)
  BY DEF Opens
<1>2. at <= Size /\ Size \in Nat
  BY <1>1, ByteFacts, EndsFacts
<1>3. Byte(at) \notin {CR, LF} => at \in Boundaries
  BY <1>1, BeginIsBoundary DEF LF
<1> QED BY <1>1, <1>2, <1>3

-----------------------------------------------------------------------------
(* Blanks.                                                                 *)

LEMMA WhitespaceStep ==
  ASSUME IsText, Size \in CharacterEnds,
         NEW from, NEW at, <<from, at>> \in Opens, at < Size, Byte(at) \in Whitespace
  PROVE  <<from, at + 1>> \in Opens
<1>1. /\ from \in Nat /\ at \in Nat /\ from <= at /\ at \in CharacterEnds /\ Blank(from, at)
      /\ at + 1 \in Nat /\ from <= at + 1
      /\ Byte(at) \notin {CR, LF} => ~CommentFrom(from, at)
  BY OpenFacts
<1>2. at + 1 \in CharacterEnds
  BY <1>1, AsciiStandsAlone DEF Whitespace, CR, LF
<1>3. Blank(from, at + 1)
  <2>1. ASSUME NEW i \in from .. (at + 1) - 1
        PROVE  \/ Byte(i) \in Whitespace
               \/ CommentFrom(from, i + 1)
               \/ i + 1 < at + 1 /\ PairAt(i, {CommentStart})
    <3>1. CASE i = at
      BY <3>1
    <3>2. CASE i # at
      <4>1. i \in from .. at - 1 /\ (i + 1 < at => i + 1 < at + 1)
        BY <1>1, <3>2
      <4> QED BY <1>1, <4>1 DEF Blank
    <3> QED BY <3>1, <3>2
  <2> QED BY <2>1, Zenon DEF Blank
<1>4. ASSUME at + 1 < Size, CommentFrom(from, at + 1) PROVE FALSE
  <2>1. PICK j \in from .. (at + 1) - 2 :
          /\ PairAt(j, {CommentStart})
          /\ \A k \in j .. (at + 1) - 1 : Byte(k) \notin {CR, LF}
    BY <1>4 DEF CommentFrom
  <2>2. at \in j .. (at + 1) - 1 /\ j \in Nat /\ j <= at - 1
    BY <1>1, <2>1
  <2>3. Byte(j + 1) = 47
    BY <2>1 DEF PairAt, CommentStart, Has
  <2>4. j + 1 # at
    BY <2>3 DEF Whitespace, CR, LF
  <2>5. j \in from .. at - 2 /\ \A k \in j .. at - 1 : k \in j .. (at + 1) - 1
    BY <1>1, <2>2, <2>4
  <2>6. CommentFrom(from, at)
    BY <2>1, <2>5 DEF CommentFrom
  <2> QED BY <1>1, <2>1, <2>2, <2>6
<1> QED BY <1>1, <1>2, <1>3, <1>4 DEF Opens

LEMMA CommentStep ==
  ASSUME IsText, Size \in CharacterEnds,
         NEW from, NEW at, <<from, at>> \in Opens, PairAt(at, {CommentStart})
  PROVE  LET end == RunEnd(at + 2, CommentBytes)
         IN end \in Nat /\ <<from, end>> \in Opens
<1> DEFINE end == RunEnd(at + 2, CommentBytes)
<1>1. /\ from \in Nat /\ at \in Nat /\ from <= at /\ at \in CharacterEnds /\ Blank(from, at)
      /\ Size \in Nat
  BY OpenFacts, ByteFacts
<1>2. at + 1 < Size /\ Byte(at) = 47 /\ Byte(at + 1) = 47
  BY DEF PairAt, CommentStart, Has
<1>3. /\ end \in at + 2 .. Size
      /\ \A k \in at + 2 .. end - 1 : Byte(k) \in CommentBytes
      /\ end < Size => Byte(end) \notin CommentBytes
  <2>1. at + 2 \in Nat /\ at + 2 <= Size
    BY <1>1, <1>2
  <2> QED BY <2>1, RunEndFacts
<1> HIDE DEF end
<1>4. end \in Nat /\ from <= end
  BY <1>1, <1>3
<1>5. end < Size => Byte(end) \in {CR, LF}
  <2>1. end < Size => Byte(end) \in Bytes
    BY <1>1, <1>4, ByteFacts
  <2> QED BY <1>3, <2>1 DEF CommentBytes, Bytes
<1>6. end \in CharacterEnds
  <2>1. CASE end = Size
    BY <2>1
  <2>2. CASE end # Size
    <3>1. end < Size
      BY <1>1, <1>3, <2>2
    <3> QED BY <1>4, <1>5, <3>1, AsciiStandsAlone DEF CR, LF
  <2> QED BY <2>1, <2>2
<1>7. \A k \in at .. end - 1 : Byte(k) \notin {CR, LF}
  <2> SUFFICES ASSUME NEW k \in at .. end - 1 PROVE Byte(k) \notin {CR, LF}
    OBVIOUS
  <2>1. k = at \/ k = at + 1 \/ k \in at + 2 .. end - 1
    BY <1>1, <1>3
  <2> QED BY <1>2, <1>3, <2>1 DEF CommentBytes, CR, LF
<1>8. Blank(from, end)
  <2> SUFFICES ASSUME NEW i \in from .. end - 1
               PROVE  \/ Byte(i) \in Whitespace
                      \/ CommentFrom(from, i + 1)
                      \/ i + 1 < end /\ PairAt(i, {CommentStart})
    BY DEF Blank
  <2>1. CASE i < at
    <3>1. i \in from .. at - 1 /\ (i + 1 < at => i + 1 < end)
      BY <1>1, <1>3, <2>1
    <3> QED BY <1>1, <3>1 DEF Blank
  <2>2. CASE i = at
    <3>1. at + 1 < end
      BY <1>1, <1>3
    <3> QED BY <2>2, <3>1
  <2>3. CASE i > at
    <3>1. at \in from .. (i + 1) - 2 /\ \A k \in at .. (i + 1) - 1 : k \in at .. end - 1
      BY <1>1, <1>3, <2>3
    <3>2. CommentFrom(from, i + 1)
      BY <1>7, <3>1 DEF CommentFrom
    <3> QED BY <3>2
  <2> QED BY <1>1, <2>1, <2>2, <2>3
<1> QED BY <1>1, <1>4, <1>5, <1>6, <1>8 DEF Opens, end

-----------------------------------------------------------------------------
(* Tokens.                                                                 *)

\* What is left to show of a token that begins where the scanner stands.
LEMMA RightHere ==
  ASSUME IsText, NEW from, NEW at, <<from, at>> \in Opens,
         at < Size, Byte(at) \notin {CR, LF},
         NEW kind \in Kinds, NEW end \in Boundaries, at <= end,
         Lexeme(kind, Slice(Span(at, end))), Longest(Token(kind, at, end))
  PROVE  Token(kind, at, end) \in TokenSet /\ <<Token(kind, at, end), from>> \in Rights
<1> DEFINE t == Token(kind, at, end)
<1>1. /\ from \in Nat /\ at \in Nat /\ from <= at /\ Blank(from, at)
      /\ ~CommentFrom(from, at) /\ at \in Boundaries
  BY OpenFacts
<1>2. end \in Nat
  BY ByteFacts, EndsFacts DEF Boundaries
<1>3. /\ t.kind = kind /\ t.span = Span(at, end) /\ t.span.begin = at /\ t.span.end = end
      /\ t \in TokenSet
  BY <1>1, <1>2 DEF Token, Span, TokenSet
<1>4. Right(t, from)
  <2>1. Lexeme(t.kind, Slice(t.span)) /\ Longest(t)
    BY <1>3
  <2> HIDE DEF t
  <2> QED BY <1>1, <1>3, <2>1 DEF Right
<1> HIDE DEF t
<1> QED BY <1>1, <1>3, <1>4 DEF Rights, t

LEMMA EndOfFileRight ==
  ASSUME IsText, Size \in CharacterEnds, NEW from, <<from, Size>> \in Opens
  PROVE  /\ Token("endOfFile", Size, Size) \in TokenSet
         /\ <<Token("endOfFile", Size, Size), from>> \in Rights
         /\ Size \in Boundaries
<1> DEFINE t == Token("endOfFile", Size, Size)
<1>1. from \in Nat /\ Size \in Nat /\ from <= Size /\ Blank(from, Size)
  BY OpenFacts, ByteFacts
<1>2. Size \in Boundaries
  BY <1>1, InCrLfFacts DEF Boundaries
<1>3. /\ t.kind = "endOfFile" /\ t.span = Span(Size, Size)
      /\ t.span.begin = Size /\ t.span.end = Size /\ t \in TokenSet
  BY <1>1 DEF Token, Span, TokenSet, Kinds
<1>4. Slice(t.span) = <<>>
  <2>1. Slice(Span(Size, Size)) \in Seq(Bytes) /\ Len(Slice(Span(Size, Size))) = 0
    BY <1>1, SliceFacts
  <2>2. Slice(Span(Size, Size)) = <<>>
    BY <2>1, EmptySeq
  <2> QED BY <1>3, <2>2
<1> HIDE DEF t
<1>5. Lexeme(t.kind, Slice(t.span))
  BY <1>3, <1>4 DEF Lexeme
<1>6. Longest(t)
  BY <1>1, <1>3 DEF Longest
<1>7. Right(t, from)
  BY <1>1, <1>2, <1>3, <1>5, <1>6 DEF Right
<1> QED BY <1>1, <1>2, <1>3, <1>7 DEF Rights, t

\* What ends after a byte of a token can be cut there.
LEMMA TokenEnd ==
  ASSUME IsText, Size \in CharacterEnds, NEW at \in Nat, NEW end \in Nat, at < end, end <= Size,
         Byte(end - 1) \in NumericCandidate \cup Marks
  PROVE  end \in Boundaries
<1>1. Byte(end - 1) \in 0 .. 127 /\ Byte(end - 1) # 13
  BY DEF NumericCandidate, IdentifierContinue, IdentifierStart, Letters, Underscore, Digits,
         Point, Marks
<1>2. 0 < end
  OBVIOUS
<1> QED BY <1>1, <1>2, AsciiEndIsBoundary

\* Where a pair is spelled.
LEMMA PairAtFacts ==
  ASSUME IsText, NEW b \in Nat, NEW pairs,
         \A p \in pairs : \E x, y : p = <<x, y>>
  PROVE  PairAt(b, pairs) <=> b + 1 < Size /\ Slice(Span(b, b + 2)) \in pairs
<1>0. Size \in Nat
  BY ByteFacts
<1>1. ASSUME b + 1 < Size
      PROVE  /\ Len(Slice(Span(b, b + 2))) = 2
             /\ Slice(Span(b, b + 2)) = <<Byte(b), Byte(b + 1)>>
  <2> DEFINE piece == Slice(Span(b, b + 2))
  <2>1. b + 2 \in Nat /\ b <= b + 2 /\ b + 2 <= Size /\ (b + 2) - b = 2
    BY <1>0, <1>1
  <2>2. /\ piece \in Seq(Bytes) /\ Len(piece) = 2
        /\ DOMAIN piece = 1 .. 2 /\ \A k \in 1 .. 2 : piece[k] = Byte(b + k - 1)
    BY <2>1, SliceFacts
  <2>3. 1 \in 1 .. 2 /\ 2 \in 1 .. 2 /\ b + 1 - 1 = b /\ b + 2 - 1 = b + 1
    OBVIOUS
  <2>4. piece[1] = Byte(b) /\ piece[2] = Byte(b + 1)
    <3> HIDE DEF piece
    <3> QED BY <2>2, <2>3
  <2>5. piece = <<Byte(b), Byte(b + 1)>>
    <3> HIDE DEF piece
    <3> QED BY <2>2, <2>4
  <2> QED BY <2>2, <2>5
<1>2. ASSUME PairAt(b, pairs) PROVE b + 1 < Size /\ Slice(Span(b, b + 2)) \in pairs
  <2>1. PICK p \in pairs : b < Size /\ Byte(b) = p[1] /\ b + 1 < Size /\ Byte(b + 1) = p[2]
    BY <1>2 DEF PairAt, Has
  <2>2. p = <<p[1], p[2]>>
    <3>1. PICK x, y : p = <<x, y>>
      OBVIOUS
    <3> QED BY <3>1
  <2> QED BY <1>1, <2>1, <2>2
<1>3. ASSUME b + 1 < Size, Slice(Span(b, b + 2)) \in pairs PROVE PairAt(b, pairs)
  <2> DEFINE p == <<Byte(b), Byte(b + 1)>>
  <2>1. p \in pairs /\ p[1] = Byte(b) /\ p[2] = Byte(b + 1)
    BY <1>1, <1>3
  <2>2. b < Size
    BY <1>0, <1>3
  <2> HIDE DEF p
  <2> QED BY <1>3, <2>1, <2>2 DEF PairAt, Has
<1> QED BY <1>2, <1>3

LEMMA PairSpellings ==
  /\ \A p \in Spellings(Pairs) : \E x \in Marks, y \in Marks : p = <<x, y>>
  /\ \A p \in {CommentStart} \cup Spellings(Pairs) : \E x, y : p = <<x, y>>
  /\ \A p \in {CommentStart} \cup Spellings(Pairs) : Len(p) = 2
<1>1. ASSUME NEW p \in Spellings(Pairs) PROVE \E x \in Marks, y \in Marks : p = <<x, y>>
  BY PairsFacts DEF Spellings
<1>2. CommentStart = <<47, 47>>
  BY DEF CommentStart
<1> QED BY <1>1, <1>2

LEMMA PairRight ==
  ASSUME IsText, Size \in CharacterEnds,
         NEW from, NEW at, <<from, at>> \in Opens, PairAt(at, Spellings(Pairs))
  PROVE  LET kind == KindOf(Pairs, Slice(Span(at, at + 2)))
             t == Token(kind, at, at + 2)
         IN /\ kind # "endOfFile" /\ t \in TokenSet /\ <<t, from>> \in Rights
            /\ at + 2 \in Boundaries
<1> DEFINE piece == Slice(Span(at, at + 2))
           kind == KindOf(Pairs, piece)
<1>0. at \in Nat /\ at + 2 \in Nat /\ Size \in Nat
  BY OpenFacts, ByteFacts
<1>1. at + 1 < Size /\ piece \in Spellings(Pairs)
  <2>1. \A p \in Spellings(Pairs) : \E x, y : p = <<x, y>>
    BY PairSpellings
  <2> QED BY <1>0, <2>1, PairAtFacts
<1>2. kind \in DOMAIN Pairs /\ Pairs[kind] = piece
  BY <1>1, KindOfFacts
<1>3. kind \notin OtherKinds
  <2> HIDE DEF kind
  <2> QED BY <1>2, PairsFacts
<1>4. PICK x \in Marks, y \in Marks : piece = <<x, y>>
  BY <1>1, PairSpellings
<1>5. /\ Byte(at) = x /\ Byte(at + 1) = y
      /\ at < Size /\ at <= at + 2 /\ at + 2 <= Size /\ at < at + 2
  <2>1. at <= at + 2 /\ at + 2 <= Size /\ (at + 2) - at = 2 /\ at < at + 2 /\ at < Size
    BY <1>0, <1>1
  <2>2. \A k \in 1 .. 2 : piece[k] = Byte(at + k - 1)
    BY <1>0, <2>1, SliceFacts
  <2>3. 1 \in 1 .. 2 /\ 2 \in 1 .. 2 /\ at + 1 - 1 = at /\ at + 2 - 1 = at + 1
    BY <1>0
  <2>4. piece[1] = Byte(at) /\ piece[2] = Byte(at + 1)
    <3> HIDE DEF piece
    <3> QED BY <2>2, <2>3
  <2> HIDE DEF piece
  <2> QED BY <1>4, <2>1, <2>4
<1>6. at + 2 \in Boundaries
  <2>1. (at + 2) - 1 = at + 1
    BY <1>0
  <2> QED BY <1>0, <1>5, <2>1, TokenEnd
<1>7. Lexeme(kind, piece)
  <2> HIDE DEF kind, piece
  <2> QED BY <1>2, <1>3 DEF Lexeme, OtherKinds
<1>8. Longest(Token(kind, at, at + 2))
  <2>1. ~Word(piece)
    <3> HIDE DEF piece
    <3> QED BY <1>4, MarkFacts DEF Word
  <2>2. Byte(at) \notin Digits
    BY <1>5, MarkFacts
  <2>3. ASSUME at + 2 < Size
        PROVE  SubSeq(contents, at + 1, (at + 2) + 1) \notin Spellings(Pairs) \cup {CommentStart}
    <3>1. Len(SubSeq(contents, at + 1, (at + 2) + 1)) = (at + 2) + 1 - at
      BY <1>0, <1>5, <2>3, LongerFacts
    <3>2. (at + 2) + 1 - at # 2
      BY <1>0
    <3> QED BY <3>1, <3>2, PairSpellings
  <2> HIDE DEF kind
  <2> QED BY <2>1, <2>2, <2>3 DEF Longest, Token, Span
<1>9. kind \in Kinds /\ kind # "endOfFile"
  BY <1>2, <1>3 DEF Kinds, OtherKinds
<1>10. Byte(at) \notin {CR, LF}
  BY <1>5, MarkFacts DEF Whitespace
<1>11. /\ Token(kind, at, at + 2) \in TokenSet
       /\ <<Token(kind, at, at + 2), from>> \in Rights
  <2> HIDE DEF kind
  <2> QED BY <1>5, <1>6, <1>7, <1>8, <1>9, <1>10, RightHere
<1> QED BY <1>6, <1>9, <1>11

LEMMA SingleSpellings ==
  /\ \A text \in Spellings(Singles) : \E b \in Marks : text = <<b>>
  /\ \A b \in SingleBytes : b \in Marks /\ <<b>> \in Spellings(Singles)
<1>1. ASSUME NEW text \in Spellings(Singles) PROVE \E b \in Marks : text = <<b>>
  BY SinglesFacts DEF Spellings
<1>2. ASSUME NEW b \in SingleBytes PROVE b \in Marks /\ <<b>> \in Spellings(Singles)
  <2>1. PICK text \in Spellings(Singles) : b = text[1]
    BY DEF SingleBytes
  <2>2. PICK c \in Marks : text = <<c>>
    BY <1>1
  <2> QED BY <2>1, <2>2
<1> QED BY <1>1, <1>2

LEMMA SingleRight ==
  ASSUME IsText, Size \in CharacterEnds,
         NEW from, NEW at, <<from, at>> \in Opens, at < Size, Byte(at) \in SingleBytes,
         ~PairAt(at, {CommentStart} \cup Spellings(Pairs))
  PROVE  LET kind == KindOf(Singles, Slice(Span(at, at + 1)))
             t == Token(kind, at, at + 1)
         IN /\ kind # "endOfFile" /\ t \in TokenSet /\ <<t, from>> \in Rights
            /\ at + 1 \in Boundaries
<1> DEFINE piece == Slice(Span(at, at + 1))
           kind == KindOf(Singles, piece)
<1>0. /\ at \in Nat /\ at + 1 \in Nat /\ Size \in Nat /\ at <= at + 1 /\ at + 1 <= Size
      /\ at < at + 1 /\ (at + 1) - 1 = at
  BY OpenFacts, ByteFacts
<1>1. piece = <<Byte(at)>>
  <2>1. (at + 1) - at = 1 /\ at + 1 - 1 = at /\ 1 \in 1 .. 1
    BY <1>0
  <2>2. /\ piece \in Seq(Bytes) /\ Len(piece) = 1
        /\ DOMAIN piece = 1 .. 1 /\ \A k \in 1 .. 1 : piece[k] = Byte(at + k - 1)
    BY <1>0, <2>1, SliceFacts
  <2>3. piece[1] = Byte(at)
    <3> HIDE DEF piece
    <3> QED BY <2>1, <2>2
  <2> HIDE DEF piece
  <2> QED BY <2>2, <2>3
<1>2. Byte(at) \in Marks /\ piece \in Spellings(Singles)
  BY <1>1, SingleSpellings
<1>3. kind \in DOMAIN Singles /\ Singles[kind] = piece
  BY <1>2, KindOfFacts
<1>4. kind \notin OtherKinds
  <2> HIDE DEF kind
  <2> QED BY <1>3, SinglesFacts
<1>5. at + 1 \in Boundaries
  BY <1>0, <1>2, TokenEnd
<1>6. Lexeme(kind, piece)
  <2> HIDE DEF kind, piece
  <2> QED BY <1>3, <1>4 DEF Lexeme, OtherKinds
<1>7. Longest(Token(kind, at, at + 1))
  <2>1. ~Word(piece)
    <3> HIDE DEF piece
    <3> QED BY <1>1, <1>2, MarkFacts DEF Word
  <2>2. Byte(at) \notin Digits
    BY <1>2, MarkFacts
  <2>3. ASSUME at + 1 < Size
        PROVE  SubSeq(contents, at + 1, (at + 1) + 1) \notin Spellings(Pairs) \cup {CommentStart}
    <3>1. \A p \in {CommentStart} \cup Spellings(Pairs) : \E x, y : p = <<x, y>>
      BY PairSpellings
    <3>2. Slice(Span(at, at + 2)) \notin {CommentStart} \cup Spellings(Pairs)
      <4> DEFINE pairs == {CommentStart} \cup Spellings(Pairs)
      <4> HIDE DEF pairs
      <4> QED BY <1>0, <2>3, <3>1, PairAtFacts DEF pairs
    <3>3. SubSeq(contents, at + 1, (at + 1) + 1) = Slice(Span(at, (at + 1) + 1))
      BY <1>0, <2>3, LongerFacts
    <3>4. (at + 1) + 1 = at + 2
      BY <1>0
    <3> QED BY <3>2, <3>3, <3>4
  <2> HIDE DEF kind
  <2> QED BY <2>1, <2>2, <2>3 DEF Longest, Token, Span
<1>8. kind \in Kinds /\ kind # "endOfFile"
  BY <1>3, <1>4 DEF Kinds, OtherKinds
<1>9. Byte(at) \notin {CR, LF}
  BY <1>2, MarkFacts DEF Whitespace
<1>10. /\ Token(kind, at, at + 1) \in TokenSet
       /\ <<Token(kind, at, at + 1), from>> \in Rights
  <2> HIDE DEF kind
  <2> QED BY <1>0, <1>5, <1>6, <1>7, <1>8, <1>9, RightHere
<1> QED BY <1>5, <1>8, <1>10

\* What a run of bytes of names and numbers is, where it begins with one.
LEMMA RunFacts ==
  ASSUME IsText, Size \in CharacterEnds, NEW at \in Nat, at < Size,
         NEW bytes, bytes \subseteq NumericCandidate, Byte(at) \in bytes
  PROVE  LET end == RunEnd(at, bytes)
             piece == Slice(Span(at, end))
         IN /\ end \in Nat /\ at < end /\ end <= Size /\ end \in Boundaries
            /\ IsPiece(piece) /\ Len(piece) = end - at /\ Len(piece) # 0 /\ piece # <<>>
            /\ DOMAIN piece = 1 .. end - at
            /\ piece[1] = Byte(at)
            /\ \A k \in DOMAIN piece : piece[k] \in bytes
            /\ end < Size => Byte(end) \notin bytes
<1> DEFINE end == RunEnd(at, bytes)
           piece == Slice(Span(at, end))
<1>0. Size \in Nat /\ at <= Size
  BY ByteFacts
<1>1. /\ end \in at .. Size
      /\ \A k \in at .. end - 1 : Byte(k) \in bytes
      /\ end < Size => Byte(end) \notin bytes
  BY <1>0, RunEndFacts
<1>2. end # at
  BY <1>1
<1> HIDE DEF end
<1>3. end \in Nat /\ at < end /\ end <= Size /\ at <= end /\ end - 1 \in at .. end - 1
  BY <1>0, <1>1, <1>2
<1>4. end \in Boundaries
  <2>1. Byte(end - 1) \in NumericCandidate \cup Marks
    BY <1>1, <1>3
  <2> QED BY <1>3, <2>1, TokenEnd
<1>5. /\ IsPiece(piece) /\ Len(piece) = end - at
      /\ DOMAIN piece = 1 .. end - at
      /\ \A k \in 1 .. end - at : piece[k] = Byte(at + k - 1)
  BY <1>3, SliceFacts DEF IsPiece
<1>6. /\ end - at # 0 /\ 1 \in 1 .. end - at /\ at + 1 - 1 = at
      /\ \A k \in 1 .. end - at : at + k - 1 \in at .. end - 1
  BY <1>3
<1>7. piece[1] = Byte(at) /\ \A k \in 1 .. end - at : piece[k] \in bytes
  <2> HIDE DEF piece
  <2> QED BY <1>1, <1>5, <1>6
<1>8. Len(piece) # 0 /\ piece # <<>>
  <2> HIDE DEF piece
  <2> QED BY <1>5, <1>6, PieceFacts
<1> HIDE DEF piece
<1> QED BY <1>1, <1>3, <1>4, <1>5, <1>7, <1>8 DEF end, piece

LEMMA IdentifierRight ==
  ASSUME IsText, Size \in CharacterEnds,
         NEW from, NEW at, <<from, at>> \in Opens, at < Size, Byte(at) \in IdentifierStart
  PROVE  LET end == RunEnd(at, IdentifierContinue)
             kind == ClassifyIdentifier(Slice(Span(at, end)))
             t == Token(kind, at, end)
         IN /\ kind # "endOfFile" /\ t \in TokenSet /\ <<t, from>> \in Rights
            /\ end \in Boundaries
<1> DEFINE end == RunEnd(at, IdentifierContinue)
           piece == Slice(Span(at, end))
           kind == ClassifyIdentifier(piece)
<1>0. at \in Nat /\ Size \in Nat
  BY OpenFacts, ByteFacts
<1>1. /\ IdentifierContinue \subseteq NumericCandidate /\ IdentifierStart \subseteq IdentifierContinue
      /\ IdentifierStart \cap Digits = {} /\ CR \notin IdentifierStart /\ LF \notin IdentifierStart
  BY DEF NumericCandidate, IdentifierContinue, IdentifierStart, Letters, Underscore, Digits, CR, LF
<1>2. /\ end \in Nat /\ at < end /\ end <= Size /\ end \in Boundaries
      /\ piece # <<>> /\ piece[1] = Byte(at)
      /\ \A k \in DOMAIN piece : piece[k] \in IdentifierContinue
      /\ end < Size => Byte(end) \notin IdentifierContinue
  <2>1. Byte(at) \in IdentifierContinue
    BY <1>1
  <2> QED BY <1>0, <1>1, <2>1, RunFacts
<1> HIDE DEF end
<1>3. Word(piece)
  <2> HIDE DEF piece
  <2> QED BY <1>2 DEF Word
<1>4. kind \in Kinds /\ kind # "endOfFile" /\ Lexeme(kind, piece)
  <2>1. CASE piece \in Spellings(Keywords)
    <3>1. kind \in DOMAIN Keywords /\ Keywords[kind] = piece
      BY <2>1, KindOfFacts DEF ClassifyIdentifier
    <3>2. kind \notin OtherKinds
      <4> HIDE DEF kind
      <4> QED BY <3>1, KeywordsFacts
    <3> HIDE DEF kind, piece
    <3> QED BY <3>1, <3>2 DEF Kinds, Lexeme, OtherKinds
  <2>2. CASE piece \notin Spellings(Keywords)
    <3>1. kind = "identifier"
      BY <2>2 DEF ClassifyIdentifier
    <3> HIDE DEF kind, piece
    <3> QED BY <1>3, <2>2, <3>1 DEF Kinds, Lexeme
  <2> QED BY <2>1, <2>2
<1>5. Longest(Token(kind, at, end))
  <2>1. ASSUME end < Size PROVE ~Word(SubSeq(contents, at + 1, end + 1))
    <3> DEFINE longer == Slice(Span(at, end + 1))
    <3>1. /\ SubSeq(contents, at + 1, end + 1) = longer
          /\ DOMAIN longer = 1 .. end + 1 - at
          /\ longer[end + 1 - at] = Byte(end)
      BY <1>0, <1>2, <2>1, LongerFacts
    <3>2. end + 1 - at \in 1 .. end + 1 - at
      BY <1>0, <1>2
    <3>3. ~Word(longer)
      <4> HIDE DEF longer
      <4> QED BY <1>2, <2>1, <3>1, <3>2 DEF Word
    <3> QED BY <3>1, <3>3
  <2> DEFINE t == Token(kind, at, end)
  <2>2. t.span = Span(at, end) /\ t.span.begin = at /\ t.span.end = end
    BY DEF Token, Span
  <2>3. Word(Slice(t.span))
    BY <1>3, <2>2
  <2> HIDE DEF t, kind, piece
  <2>4. Longest(t)
    BY <1>1, <2>1, <2>2, <2>3 DEF Longest
  <2> QED BY <2>4 DEF t
<1>6. /\ Token(kind, at, end) \in TokenSet
      /\ <<Token(kind, at, end), from>> \in Rights
  <2>1. at <= end /\ Byte(at) \notin {CR, LF}
    BY <1>0, <1>1, <1>2
  <2> HIDE DEF kind
  <2> QED BY <1>2, <1>4, <1>5, <2>1, RightHere
<1> HIDE DEF kind, piece
<1> QED BY <1>2, <1>4, <1>6 DEF kind, piece, end

\* A number, or what was written for one.
LEMMA NumberRight ==
  ASSUME IsText, Size \in CharacterEnds,
         NEW from, NEW at, <<from, at>> \in Opens, at < Size, Byte(at) \in Digits
  PROVE  LET end == RunEnd(at, NumericCandidate)
             literal == Slice(Span(at, end))
             kind == ClassifyNumber(literal)
             t == Token(kind, at, end)
         IN /\ end \in Boundaries
            /\ kind # "none" => kind # "endOfFile" /\ t \in TokenSet /\ <<t, from>> \in Rights
            /\ LeadingZero(literal) => Diagnostic("E1005", at, end) \in Refusals
            /\ ~LeadingZero(literal) /\ kind = "none" => Diagnostic("E1004", at, end) \in Refusals
<1> DEFINE end == RunEnd(at, NumericCandidate)
           literal == Slice(Span(at, end))
           kind == ClassifyNumber(literal)
<1>0. at \in Nat /\ Size \in Nat
  BY OpenFacts, ByteFacts
<1>1. /\ Digits \subseteq NumericCandidate
      /\ IdentifierStart \cap Digits = {} /\ CR \notin Digits /\ LF \notin Digits
  BY DEF NumericCandidate, IdentifierContinue, IdentifierStart, Letters, Underscore, Digits, CR, LF
<1>2. /\ end \in Nat /\ at < end /\ end <= Size /\ end \in Boundaries
      /\ IsPiece(literal) /\ Len(literal) # 0 /\ literal[1] = Byte(at)
      /\ end < Size => Byte(end) \notin NumericCandidate
  <2>1. Byte(at) \in NumericCandidate
    BY <1>1
  <2> QED BY <1>0, <2>1, RunFacts
<1>3. at \in Boundaries /\ Byte(at) \notin {CR, LF} /\ at <= end
  BY <1>0, <1>1, <1>2, OpenFacts
<1> HIDE DEF end
<1>4. \/ kind \in NumberKinds /\ Lexeme(kind, literal)
      \/ kind = "none" /\ \A k \in NumberKinds : ~Lexeme(k, literal)
  <2> HIDE DEF literal
  <2> QED BY <1>2, ClassifyNumberFacts
<1>5. ASSUME kind # "none"
      PROVE  /\ kind # "endOfFile" /\ Token(kind, at, end) \in TokenSet
             /\ <<Token(kind, at, end), from>> \in Rights
  <2>1. kind \in Kinds /\ kind # "endOfFile" /\ Lexeme(kind, literal)
    <3> HIDE DEF kind, literal
    <3> QED BY <1>4, <1>5 DEF NumberKinds, Kinds
  <2>2. ~Word(literal)
    <3> HIDE DEF literal
    <3> QED BY <1>1, <1>2 DEF Word
  <2>3. Longest(Token(kind, at, end))
    <3> HIDE DEF kind
    <3> QED BY <1>2, <2>2 DEF Longest, Token, Span
  <2> HIDE DEF kind
  <2> QED BY <1>2, <1>3, <2>1, <2>3, RightHere
<1>6. ASSUME NEW code \in {"E1004", "E1005"},
             \A k \in NumberKinds : ~Lexeme(k, literal),
             code = "E1005" <=> LeadingZero(literal)
      PROVE  Diagnostic(code, at, end) \in Refusals
  <2> DEFINE d == Diagnostic(code, at, end)
  <2>1. /\ d.code = code /\ d.span = Span(at, end) /\ d.span.begin = at /\ d.span.end = end
        /\ d \in [code : {"E1003", "E1004", "E1005"}, span : [begin : Nat, end : Nat]]
    BY <1>0, <1>2 DEF Diagnostic, Span
  <2>2. ~Has(end, NumericCandidate)
    BY <1>2 DEF Has
  <2>3. code = "E1005" <=> literal[1] = 48 /\ Len(literal) > 1 /\ literal[2] \in Digits
    <3> HIDE DEF literal
    <3> QED BY <1>6 DEF LeadingZero
  <2>4. Slice(d.span) = literal
    BY <2>1
  <2> HIDE DEF d
  <2>5. ForReason(d)
    <3> HIDE DEF literal
    <3> QED BY <1>6, <2>1, <2>2, <2>3, <2>4 DEF ForReason
  <2>6. d \in Refusals
    BY <1>2, <1>3, <2>1, <2>5 DEF Refusals
  <2> QED BY <2>6 DEF d
<1>7. ASSUME LeadingZero(literal) PROVE Diagnostic("E1005", at, end) \in Refusals
  <2>1. \A k \in NumberKinds : ~Lexeme(k, literal)
    <3> HIDE DEF literal
    <3> QED BY <1>2, <1>7, LeadingZeroFacts
  <2> HIDE DEF literal
  <2> QED BY <1>6, <1>7, <2>1
<1>8. ASSUME ~LeadingZero(literal), kind = "none" PROVE Diagnostic("E1004", at, end) \in Refusals
  <2>1. \A k \in NumberKinds : ~Lexeme(k, literal)
    <3> HIDE DEF literal, kind
    <3> QED BY <1>4, <1>8 DEF NumberKinds
  <2> HIDE DEF literal
  <2> QED BY <1>6, <1>8, <2>1
<1> HIDE DEF kind, literal
<1> QED BY <1>2, <1>5, <1>7, <1>8 DEF kind, literal, end

\* A character that begins no token.
LEMMA CharacterRefused ==
  ASSUME IsText, Size \in CharacterEnds,
         NEW from, NEW at, <<from, at>> \in Opens, at < Size,
         Byte(at) \notin Whitespace \cup SingleBytes \cup IdentifierStart \cup Digits,
         ~PairAt(at, Spellings(Pairs))
  PROVE  Diagnostic("E1003", at, at + Utf8Length(Byte(at))) \in Refusals
<1>0. at \in Nat /\ Size \in Nat /\ at \in CharacterEnds /\ Byte(at) \notin {CR, LF}
  BY OpenFacts, ByteFacts DEF Whitespace
<1>1. at \in Boundaries
  BY <1>0, OpenFacts
<1>2. ValidAt(at)
  <2>1. ASSUME ~ValidAt(at) PROVE FALSE
    <3>1. Size <= at
      BY <1>0, <2>1, NoEndBeyond
    <3> QED BY <1>0, <3>1
  <2> QED BY <2>1
<1> DEFINE end == After(at)
<1>3. end \in Nat /\ at < end /\ end <= Size /\ at <= end /\ end = at + Utf8Length(Byte(at))
  <2>1. end \in Nat /\ at < end /\ end <= Size /\ Utf8Length(Byte(at)) = end - at
    BY <1>0, <1>2, ValidFacts
  <2> HIDE DEF end
  <2> QED BY <1>0, <2>1
<1>4. end = at + SequenceLength(Byte(at))
  BY DEF After
<1>5. end \in CharacterEnds
  BY <1>0, <1>2, AfterIsEnd
<1> HIDE DEF end
<1>6. Byte(end - 1) # 13
  <2>1. CASE end - 1 = at
    BY <1>0, <2>1 DEF CR
  <2>2. CASE end - 1 # at
    <3>1. end - 1 \in at + 1 .. at + SequenceLength(Byte(at)) - 1
      <4>1. Byte(at) \in Bytes
        BY <1>0, ByteFacts
      <4>2. PICK length \in Nat : length = SequenceLength(Byte(at))
        BY <4>1, SequenceLengthFacts
      <4>3. end - 1 \in at + 1 .. at + length - 1
        BY <1>0, <1>3, <1>4, <2>2, <4>2
      <4> QED BY <4>2, <4>3
    <3>2. Byte(end - 1) \in 128 .. 191
      BY <1>0, <1>2, <3>1, InsideCharacter
    <3> QED BY <3>2
  <2> QED BY <2>1, <2>2
<1>7. end \in Boundaries
  BY <1>0, <1>5, <1>6, InCrLfFacts DEF Boundaries
<1>8. IsCharacter(Slice(Span(at, end)))
  <2>1. IsCharacterFrom(at, end)
    BY <1>0, <1>2, <1>3, <1>4, CharacterAt
  <2> QED BY <2>1 DEF IsCharacterFrom, Slice, Span
<1> DEFINE d == Diagnostic("E1003", at, end)
<1>9. /\ d.code = "E1003" /\ d.span = Span(at, end) /\ d.span.begin = at /\ d.span.end = end
      /\ d \in [code : {"E1003", "E1004", "E1005"}, span : [begin : Nat, end : Nat]]
  BY <1>0, <1>3 DEF Diagnostic, Span
<1> HIDE DEF d
<1>10. ForReason(d)
  BY <1>8, <1>9 DEF ForReason
<1>11. d \in Refusals
  BY <1>1, <1>3, <1>7, <1>9, <1>10 DEF Refusals
<1> QED BY <1>3, <1>11 DEF d

-----------------------------------------------------------------------------
(* The steps of the scanner.                                               *)

LEMMA ScanningFacts ==
  ASSUME LexerInv, Scanned
  PROVE  /\ IsText /\ Size \in Nat /\ Size \in CharacterEnds
         /\ <<LastEnd(tokens), offset>> \in Opens
<1>1. TextInv /\ Checked /\ ValidUtf8 /\ <<LastEnd(tokens), offset>> \in Opens
  BY DEF LexerInv, Scanned, Checked
<1> QED BY <1>1, EncodingFacts

LEMMA Skipped ==
  ASSUME LexerInv, stage = "scanning", NEW end, SkipTo(end), <<LastEnd(tokens), end>> \in Opens
  PROVE  LexerInv'
<1>1. UNCHANGED <<contents, stage, index, lineStarts, utf8Error, tokens>> /\ offset' = end
  BY DEF SkipTo, sourceVars
<1>2. TextInv'
  BY <1>1, TextKept DEF LexerInv
<1>3. Rights' = Rights /\ Opens' = Opens
  BY <1>1, Kept
<1>4. ValidUtf8' /\ Scanned' /\ stage' = "scanning"
  BY <1>1 DEF LexerInv, Scanned, ValidUtf8, NoSpan, Span
<1>5. Chained(tokens, Rights)' /\ OnlyLastEnds'
  BY <1>1, <1>3 DEF LexerInv, OnlyLastEnds
<1>6. <<LastEnd(tokens), offset>>' \in Opens'
  BY <1>1, <1>3
<1> QED BY <1>2, <1>4, <1>5, <1>6 DEF LexerInv

LEMMA Emitted ==
  ASSUME LexerInv, stage = "scanning", NEW kind, NEW end, Emit(kind, end),
         kind # "endOfFile", Token(kind, offset, end) \in TokenSet,
         <<Token(kind, offset, end), LastEnd(tokens)>> \in Rights, end \in Boundaries
  PROVE  LexerInv'
<1>1. UNCHANGED <<contents, stage, index, lineStarts, utf8Error, diagnostics>>
  BY DEF Emit, sourceVars
<1>2. PICK t \in TokenSet : t = Token(kind, offset, end)
  OBVIOUS
<1>3. tokens' = Append(tokens, t) /\ offset' = end /\ t.kind = kind /\ t.span.end = end
  BY <1>2 DEF Emit, Token, Span
<1>4. TextInv'
  BY <1>1, TextKept DEF LexerInv
<1>5. Rights' = Rights /\ Opens' = Opens
  BY <1>1, Kept
<1>6. ValidUtf8' /\ Scanned' /\ stage' = "scanning"
  BY <1>1 DEF LexerInv, Scanned, ValidUtf8, NoSpan, Span
<1>7. /\ Chained(Append(tokens, t), Rights)
      /\ Len(tokens) \in Nat
      /\ DOMAIN tokens = 1 .. Len(tokens) /\ DOMAIN Append(tokens, t) = 1 .. Len(tokens) + 1
      /\ \A k \in 1 .. Len(tokens) : Append(tokens, t)[k] = tokens[k]
      /\ Append(tokens, t)[Len(tokens) + 1] = t
      /\ LastEnd(Append(tokens, t)) = t.span.end
  BY <1>2, ChainAppend DEF LexerInv
<1>8. Chained(tokens, Rights)'
  BY <1>3, <1>5, <1>7
<1>9. OnlyLastEnds'
  <2>1. \A k \in 1 .. Len(tokens) : tokens[k].kind # "endOfFile"
    BY <1>7 DEF LexerInv, OnlyLastEnds
  <2>2. ASSUME NEW k \in 1 .. Len(tokens) + 1 PROVE Append(tokens, t)[k].kind # "endOfFile"
    <3>1. k \in 1 .. Len(tokens) \/ k = Len(tokens) + 1
      BY <1>7
    <3> QED BY <1>3, <1>7, <2>1, <3>1
  <2> QED BY <1>3, <1>6, <1>7, <2>2 DEF OnlyLastEnds
<1>10. <<LastEnd(tokens), offset>>' \in Opens'
  <2>1. <<end, end>> \in Opens
    BY OpenAfter DEF LexerInv, TextInv
  <2> QED BY <1>3, <1>5, <1>7, <2>1
<1> QED BY <1>4, <1>6, <1>8, <1>9, <1>10 DEF LexerInv

LEMMA Refused ==
  ASSUME LexerInv, stage = "scanning", NEW code, NEW end, Refuse(code, end),
         Diagnostic(code, offset, end) \in Refusals
  PROVE  LexerInv'
<1>1. /\ UNCHANGED <<contents, index, lineStarts, utf8Error, offset, tokens>>
      /\ stage' = "refused"
  BY DEF Refuse
<1>2. PICK d \in Refusals : d = Diagnostic(code, offset, end)
  OBVIOUS
<1>3. diagnostics' = <<d>>
  BY <1>2 DEF Refuse
<1>4. TextInv'
  BY <1>1, TextKept DEF LexerInv
<1>5. Rights' = Rights /\ Opens' = Opens /\ Refusals' = Refusals
  BY <1>1, Kept
<1>6. ValidUtf8' /\ Scanned'
  BY <1>1 DEF LexerInv, Scanned, ValidUtf8, NoSpan, Span
<1>7. Chained(tokens, Rights)' /\ OnlyLastEnds'
  BY <1>1, <1>5 DEF LexerInv, OnlyLastEnds
<1>8. <<LastEnd(tokens), offset>>' \in Opens'
  BY <1>1, <1>5 DEF LexerInv
<1>9. diagnostics'[1] \in Refusals'
  BY <1>3, <1>5
<1> QED BY <1>4, <1>6, <1>7, <1>8, <1>9 DEF LexerInv

LEMMA Constructing ==
  ASSUME LexerInv, ConstructSource
  PROVE  LexerInv'
<1>1. Construct /\ UNCHANGED <<offset, tokens, diagnostics>>
  BY DEF ConstructSource
<1>2. /\ stage \in {"lines", "utf8"} /\ stage' \in {"lines", "utf8", "constructed"}
      /\ UNCHANGED contents
  BY <1>1 DEF Construct, CollectLineStart, EndLines, ValidateCharacter, EndValidation
<1>3. TextInv'
  BY <1>1, TextConstructed DEF LexerInv
<1>4. Rights' = Rights /\ Opens' = Opens
  BY <1>2, Kept
<1>5. ~Scanned /\ ~Scanned' /\ tokens = <<>> /\ tokens' = <<>> /\ stage' # "refused"
  BY <1>1, <1>2 DEF LexerInv, Scanned
<1>6. Chained(tokens, Rights)' /\ OnlyLastEnds'
  BY <1>1, <1>2, <1>4 DEF LexerInv, OnlyLastEnds
<1>7. <<LastEnd(tokens), offset>>' \in Opens'
  BY <1>1, <1>4 DEF LexerInv
<1> QED BY <1>3, <1>5, <1>6, <1>7 DEF LexerInv

LEMMA Beginning ==
  ASSUME LexerInv, BeginScan
  PROVE  LexerInv'
<1>1. /\ UNCHANGED <<contents, index, lineStarts, utf8Error, offset, tokens>>
      /\ stage = "constructed"
      /\ \/ stage' = "scanning" /\ ValidateEncoding = NoDiagnostic
         \/ stage' = "invalid"
  BY DEF BeginScan
<1>2. TextInv'
  BY <1>1, TextKept DEF LexerInv
<1>3. Rights' = Rights /\ Opens' = Opens
  BY <1>1, Kept
<1>4. ValidateEncoding = NoDiagnostic => ValidUtf8
  BY DEF ValidateEncoding, NoDiagnostic, Diagnostic
<1>5. Scanned' => ValidUtf8'
  BY <1>1, <1>4 DEF Scanned, ValidUtf8, NoSpan, Span
<1>6. tokens = <<>> /\ tokens' = <<>> /\ stage' # "refused"
  BY <1>1 DEF LexerInv, Scanned
<1>7. Chained(tokens, Rights)' /\ OnlyLastEnds'
  BY <1>1, <1>3 DEF LexerInv, OnlyLastEnds
<1>8. <<LastEnd(tokens), offset>>' \in Opens'
  BY <1>1, <1>3 DEF LexerInv
<1> QED BY <1>2, <1>5, <1>6, <1>7, <1>8 DEF LexerInv

LEMMA Ending ==
  ASSUME LexerInv, EndScan
  PROVE  LexerInv'
<1>1. /\ UNCHANGED <<contents, index, lineStarts, utf8Error, offset, diagnostics>>
      /\ stage = "scanning" /\ stage' = "lexed" /\ offset = Size
      /\ tokens' = Append(tokens, Token("endOfFile", Size, Size))
  BY DEF EndScan
<1>2. IsText /\ Size \in Nat /\ Size \in CharacterEnds /\ <<LastEnd(tokens), Size>> \in Opens
  BY <1>1, ScanningFacts DEF Scanned
<1>3. PICK t \in TokenSet :
        /\ t = Token("endOfFile", Size, Size)
        /\ <<t, LastEnd(tokens)>> \in Rights /\ Size \in Boundaries
  BY <1>2, EndOfFileRight
<1>4. tokens' = Append(tokens, t) /\ t.kind = "endOfFile" /\ t.span.end = Size
  BY <1>1, <1>3 DEF Token, Span
<1>5. TextInv'
  BY <1>1, TextKept DEF LexerInv
<1>6. Rights' = Rights /\ Opens' = Opens /\ Size' = Size
  BY <1>1, Kept
<1>7. ValidUtf8' /\ Scanned'
  BY <1>1 DEF LexerInv, Scanned, ValidUtf8, NoSpan, Span
<1>8. /\ Chained(Append(tokens, t), Rights)
      /\ Len(tokens) \in Nat /\ Len(Append(tokens, t)) = Len(tokens) + 1
      /\ DOMAIN tokens = 1 .. Len(tokens) /\ DOMAIN Append(tokens, t) = 1 .. Len(tokens) + 1
      /\ \A k \in 1 .. Len(tokens) : Append(tokens, t)[k] = tokens[k]
      /\ Append(tokens, t)[Len(tokens) + 1] = t
      /\ LastEnd(Append(tokens, t)) = t.span.end
  BY <1>3, ChainAppend DEF LexerInv
<1>9. Chained(tokens, Rights)'
  BY <1>4, <1>6, <1>8
<1>10. OnlyLastEnds'
  <2>1. \A k \in 1 .. Len(tokens) : tokens[k].kind # "endOfFile"
    BY <1>1, <1>8 DEF LexerInv, OnlyLastEnds
  <2>2. ASSUME NEW k \in 1 .. Len(tokens) + 1
        PROVE  Append(tokens, t)[k].kind = "endOfFile" <=> k = Len(tokens) + 1
    <3>1. (k \in 1 .. Len(tokens) /\ k # Len(tokens) + 1) \/ k = Len(tokens) + 1
      BY <1>8
    <3> QED BY <1>4, <1>8, <2>1, <3>1
  <2> QED BY <1>1, <1>4, <1>8, <2>2 DEF OnlyLastEnds
<1>11. <<LastEnd(tokens), offset>>' \in Opens'
  <2>1. <<Size, Size>> \in Opens
    BY <1>2, <1>3, OpenAfter
  <2>2. LastEnd(tokens)' = Size /\ offset' = Size
    BY <1>1, <1>4, <1>8
  <2> QED BY <1>6, <2>1, <2>2
<1> QED BY <1>1, <1>5, <1>7, <1>9, <1>10, <1>11 DEF LexerInv

LEMMA Scans ==
  ASSUME LexerInv, stage = "scanning",
         SkipWhitespace \/ SkipComment \/ ScanPair \/ ScanSingle \/ ScanIdentifier \/ ScanNumber
           \/ RefuseCharacter
  PROVE  LexerInv'
<1>1. IsText /\ Size \in Nat /\ Size \in CharacterEnds /\ <<LastEnd(tokens), offset>> \in Opens
  BY ScanningFacts DEF Scanned
<1>2. CASE SkipWhitespace
  <2>1. PICK end : end = offset + 1
    OBVIOUS
  <2>2. SkipTo(end) /\ <<LastEnd(tokens), end>> \in Opens
    BY <1>1, <1>2, <2>1, WhitespaceStep DEF SkipWhitespace, Scanning
  <2> QED BY <2>2, Skipped
<1>3. CASE SkipComment
  <2>1. PICK end : end = RunEnd(offset + 2, CommentBytes)
    OBVIOUS
  <2>2. SkipTo(end) /\ PairAt(offset, {CommentStart})
    BY <1>3, <2>1 DEF SkipComment, AtPair
  <2>3. <<LastEnd(tokens), end>> \in Opens
    BY <1>1, <2>1, <2>2, CommentStep
  <2> QED BY <2>2, <2>3, Skipped
<1>4. CASE ScanPair
  <2>1. PICK end, kind : /\ end = offset + 2
                         /\ kind = KindOf(Pairs, Slice(Span(offset, offset + 2)))
    OBVIOUS
  <2>2. Emit(kind, end) /\ PairAt(offset, Spellings(Pairs))
    BY <1>4, <2>1 DEF ScanPair, AtPair
  <2>3. /\ kind # "endOfFile" /\ Token(kind, offset, end) \in TokenSet
        /\ <<Token(kind, offset, end), LastEnd(tokens)>> \in Rights /\ end \in Boundaries
    BY <1>1, <2>1, <2>2, PairRight
  <2> QED BY <2>2, <2>3, Emitted
<1>5. CASE ScanSingle
  <2>1. PICK end, kind : /\ end = offset + 1
                         /\ kind = KindOf(Singles, Slice(Span(offset, offset + 1)))
    OBVIOUS
  <2>2. /\ Emit(kind, end) /\ offset < Size /\ Byte(offset) \in SingleBytes
        /\ ~PairAt(offset, {CommentStart} \cup Spellings(Pairs))
    BY <1>5, <2>1 DEF ScanSingle, AtPair, Scanning
  <2>3. /\ kind # "endOfFile" /\ Token(kind, offset, end) \in TokenSet
        /\ <<Token(kind, offset, end), LastEnd(tokens)>> \in Rights /\ end \in Boundaries
    BY <1>1, <2>1, <2>2, SingleRight
  <2> QED BY <2>2, <2>3, Emitted
<1>6. CASE ScanIdentifier
  <2>1. PICK end, kind : /\ end = RunEnd(offset, IdentifierContinue)
                         /\ kind = ClassifyIdentifier(Slice(Span(offset, end)))
    OBVIOUS
  <2>2. Emit(kind, end) /\ offset < Size /\ Byte(offset) \in IdentifierStart
    BY <1>6, <2>1 DEF ScanIdentifier, Scanning
  <2>3. /\ kind # "endOfFile" /\ Token(kind, offset, end) \in TokenSet
        /\ <<Token(kind, offset, end), LastEnd(tokens)>> \in Rights /\ end \in Boundaries
    BY <1>1, <2>1, <2>2, IdentifierRight
  <2> QED BY <2>2, <2>3, Emitted
<1>7. CASE ScanNumber
  <2>1. PICK end, literal, kind : /\ end = RunEnd(offset, NumericCandidate)
                                  /\ literal = Slice(Span(offset, end))
                                  /\ kind = ClassifyNumber(literal)
    OBVIOUS
  <2>2. offset < Size /\ Byte(offset) \in Digits
    BY <1>7 DEF ScanNumber, Scanning
  <2>3. \/ LeadingZero(literal) /\ Refuse("E1005", end)
        \/ ~LeadingZero(literal) /\ kind = "none" /\ Refuse("E1004", end)
        \/ ~LeadingZero(literal) /\ kind # "none" /\ Emit(kind, end)
    BY <1>7, <2>1 DEF ScanNumber
  <2>4. /\ end \in Boundaries
        /\ kind # "none" => /\ kind # "endOfFile" /\ Token(kind, offset, end) \in TokenSet
                            /\ <<Token(kind, offset, end), LastEnd(tokens)>> \in Rights
        /\ LeadingZero(literal) => Diagnostic("E1005", offset, end) \in Refusals
        /\ ~LeadingZero(literal) /\ kind = "none" => Diagnostic("E1004", offset, end) \in Refusals
    BY <1>1, <2>1, <2>2, NumberRight
  <2>5. CASE LeadingZero(literal) /\ Refuse("E1005", end)
    BY <2>4, <2>5, Refused
  <2>6. CASE ~LeadingZero(literal) /\ kind = "none" /\ Refuse("E1004", end)
    BY <2>4, <2>6, Refused
  <2>7. CASE ~LeadingZero(literal) /\ kind # "none" /\ Emit(kind, end)
    BY <2>4, <2>7, Emitted
  <2> QED BY <2>3, <2>5, <2>6, <2>7
<1>8. CASE RefuseCharacter
  <2>1. PICK end : end = offset + Utf8Length(Byte(offset))
    OBVIOUS
  <2>2. /\ Refuse("E1003", end) /\ offset < Size
        /\ Byte(offset) \notin Whitespace \cup SingleBytes \cup IdentifierStart \cup Digits
        /\ ~PairAt(offset, Spellings(Pairs))
    BY <1>8, <2>1 DEF RefuseCharacter, RefusedEnd, AtPair, Scanning
  <2>3. Diagnostic("E1003", offset, end) \in Refusals
    BY <1>1, <2>1, <2>2, CharacterRefused
  <2> QED BY <2>2, <2>3, Refused
<1> QED BY <1>2, <1>3, <1>4, <1>5, <1>6, <1>7, <1>8

LEMMA LexerBegun ==
  ASSUME LexerInit
  PROVE  LexerInv
<1>1. TextInv /\ stage = "lines" /\ offset = 0 /\ tokens = <<>>
  BY TextBegun DEF LexerInit, SourceInit
<1>2. IsText
  BY <1>1 DEF TextInv
<1>3. <<0, 0>> \in Opens
  <2>1. Size \in Nat /\ 0 \in CharacterEnds
    BY <1>2, ByteFacts, EndsFacts
  <2>2. 0 \in Boundaries
    BY <2>1, InCrLfFacts DEF Boundaries
  <2> QED BY <1>2, <2>2, OpenAfter
<1>4. Chained(tokens, Rights) /\ OnlyLastEnds /\ LastEnd(tokens) = 0
  <2>1. DOMAIN tokens = {} /\ tokens \in Seq(TokenSet)
    BY <1>1
  <2> QED BY <1>1, <2>1 DEF Chained, OnlyLastEnds, LastEnd
<1> QED BY <1>1, <1>3, <1>4 DEF LexerInv, Scanned

LEMMA LexerStep ==
  ASSUME LexerInv, [LexerNext]_lexerVars
  PROVE  LexerInv'
<1>1. CASE ConstructSource
  BY <1>1, Constructing
<1>2. CASE BeginScan
  BY <1>2, Beginning
<1>3. CASE EndScan
  BY <1>3, Ending
<1>4. CASE SkipWhitespace \/ SkipComment \/ ScanPair \/ ScanSingle \/ ScanIdentifier
             \/ ScanNumber \/ RefuseCharacter
  <2>1. stage = "scanning"
    BY <1>4 DEF SkipWhitespace, SkipComment, ScanPair, ScanSingle, ScanIdentifier, ScanNumber,
                RefuseCharacter, Scanning
  <2> QED BY <1>4, <2>1, Scans
<1>5. CASE UNCHANGED lexerVars
  <2>1. UNCHANGED <<contents, stage, index, lineStarts, utf8Error, offset, tokens, diagnostics>>
    BY <1>5 DEF lexerVars, sourceVars
  <2>2. TextInv'
    BY <2>1, TextKept DEF LexerInv
  <2>3. Rights' = Rights /\ Opens' = Opens /\ Refusals' = Refusals
    BY <2>1, Kept
  <2>4. Chained(tokens, Rights)' /\ OnlyLastEnds' /\ <<LastEnd(tokens), offset>>' \in Opens'
    BY <2>1, <2>3 DEF LexerInv, OnlyLastEnds
  <2>5. /\ Scanned' => ValidUtf8'
        /\ tokens' # <<>> => Scanned'
        /\ stage' = "refused" => diagnostics'[1] \in Refusals'
    BY <2>1, <2>3 DEF LexerInv, Scanned, ValidUtf8, NoSpan, Span
  <2> QED BY <2>2, <2>4, <2>5 DEF LexerInv
<1> QED BY <1>1, <1>2, <1>3, <1>4, <1>5 DEF LexerNext

LEMMA TokensProved ==
  ASSUME LexerInv
  PROVE  TokensReadBack
<1>1. Chained(tokens, Rights) /\ OnlyLastEnds /\ <<LastEnd(tokens), offset>> \in Opens
  BY DEF LexerInv
<1>2. ASSUME NEW k \in DOMAIN tokens
      PROVE  LET from == IF k = 1 THEN 0 ELSE tokens[k - 1].span.end
             IN /\ Lexeme(tokens[k].kind, Slice(tokens[k].span)) /\ Longest(tokens[k])
                /\ Blank(from, tokens[k].span.begin)
                /\ tokens[k].kind # "endOfFile" => ~CommentFrom(from, tokens[k].span.begin)
                /\ tokens[k].kind = "endOfFile" <=> stage = "lexed" /\ k = Len(tokens)
  <2>1. <<tokens[k], FromOf(tokens, k)>> \in Rights
    BY <1>1 DEF Chained
  <2>2. Right(tokens[k], FromOf(tokens, k))
    BY <2>1 DEF Rights
  <2>3. tokens[k].kind = "endOfFile" <=> stage = "lexed" /\ k = Len(tokens)
    BY <1>1 DEF OnlyLastEnds
  <2> QED BY <2>2, <2>3 DEF Right, FromOf
<1>3. Blank(LastEnd(tokens), offset)
  BY <1>1 DEF Opens
<1> QED BY <1>2, <1>3 DEF TokensReadBack, LastEnd

LEMMA RefusalProved ==
  ASSUME LexerInv
  PROVE  LexerRefusesForReason
<1>1. ASSUME stage = "refused" PROVE ForReason(diagnostics[1])
  BY <1>1 DEF LexerInv, Refusals
<1> QED BY <1>1 DEF LexerRefusesForReason, ForReason, NumberKinds

LEMMA SlicesProved ==
  ASSUME LexerInv
  PROVE  SpansCanBeSliced
<1>1. ASSUME Scanned, NEW span, span.begin \in Boundaries, span.end \in Boundaries,
             span.begin <= span.end
      PROVE  CanSlice(span)
  <2>1. TextInv /\ Checked /\ ValidUtf8 /\ IsText
    BY <1>1 DEF LexerInv, Scanned, Checked, TextInv
  <2>2. span.begin \in Nat /\ span.end \in Nat
    BY <1>1, <2>1, ByteFacts, EndsFacts DEF Boundaries
  <2>3. IsSourceBoundary(span.begin) /\ IsSourceBoundary(span.end)
    BY <1>1, <2>1, <2>2, BoundaryIsExact
  <2> QED BY <1>1, <2>1, <2>3 DEF CanSlice
<1>2. ASSUME NEW k \in DOMAIN tokens PROVE CanSlice(tokens[k].span)
  <2>1. <<tokens[k], FromOf(tokens, k)>> \in Rights
    BY DEF LexerInv, Chained
  <2>2. Right(tokens[k], FromOf(tokens, k))
    BY <2>1 DEF Rights
  <2>3. tokens # <<>>
    OBVIOUS
  <2>4. Scanned
    BY <2>3 DEF LexerInv
  <2> QED BY <1>1, <2>2, <2>4 DEF Right
<1>3. ASSUME stage = "refused" PROVE CanSlice(diagnostics[1].span)
  <2>1. diagnostics[1] \in Refusals /\ Scanned
    BY <1>3 DEF LexerInv, Scanned
  <2> QED BY <1>1, <2>1 DEF Refusals
<1> QED BY <1>2, <1>3 DEF SpansCanBeSliced

\* What the scanner knows of its text, its tokens and the place where it stands
\* (LexerInv) holds after every step of the constructor and of Scanner::scan.
THEOREM LexerInductive == LexerSpec => []LexerInv
BY LexerBegun, LexerStep, PTL DEF LexerSpec

\* For every text: it is refused exactly when it is not UTF-8, its boundaries are
\* the ends of characters that do not part CR LF, and lines and columns of locations
\* count what they say (SourceText, whatever the lexer makes of the text).
THEOREM TextIsWhatItSays == LexerSpec => []SourceTextExact
<1>1. LexerInv => SourceTextExact
  BY EncodingProved, BoundariesProved, LocationsProved DEF LexerInv, SourceTextExact
<1> QED BY <1>1, LexerInductive, PTL

\* For every text: the tokens read back - each is spelled as its kind, as long as it
\* can be and in no comment, and only blanks stand between two - and what the lexer
\* refuses is no token, for the reason it reports.
THEOREM ScanningIsExact == LexerSpec => []ScanningExact
<1>1. LexerInv => ScanningExact
  BY TokensProved, RefusalProved DEF ScanningExact
<1> QED BY <1>1, LexerInductive, PTL

\* For every text: the analyzer can cut every token, and a reader of the diagnostic
\* what was refused, out of the text with SourceText::slice.
THEOREM TokensCanBeSliced == LexerSpec => []SpansCanBeSliced
<1>1. LexerInv => SpansCanBeSliced
  BY SlicesProved
<1> QED BY <1>1, LexerInductive, PTL
=============================================================================
