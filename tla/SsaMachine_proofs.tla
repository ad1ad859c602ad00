-------------------------- MODULE SsaMachine_proofs --------------------------
(***************************************************************************)
(* The soundness of ssa::Verifier for every set of functions, and that its *)
(* dominators are those of the definition by paths.                        *)
(***************************************************************************)
EXTENDS SsaMachine, FiniteSetTheorems, SequenceTheorems, WellFoundedInduction, TLAPS

-----------------------------------------------------------------------------
(* Induction over the natural numbers, stated about sets: a property of    *)
(* numbers is the set of the numbers that have it.                         *)

\* The order by which the induction goes.
LessThan == {s \in Nat \X Nat : s[1] < s[2]}

LEMMA LessThanWellFounded == IsWellFoundedOn(LessThan, Nat)
BY NatLessThanWellFounded DEF OpToRel, LessThan

\* A set of natural numbers has a least element.
LEMMA LeastNatural ==
  ASSUME NEW T, T \subseteq Nat, T # {}
  PROVE  \E x \in T : \A y \in T : x <= y
<1>1. PICK x \in T : \A y \in T : <<y, x>> \notin LessThan
  BY LessThanWellFounded, WFMin
<1>2. ASSUME NEW y \in T, y < x PROVE FALSE
  <2>1. <<y, x>> \in LessThan
    BY <1>2 DEF LessThan
  <2> QED BY <1>1, <2>1
<1> QED BY <1>1, <1>2

\* A set that has the first number of an interval, and with each number the
\* next one up to the last, has all of them.
LEMMA IntervalInduction ==
  ASSUME NEW m \in Nat, NEW n \in Nat, NEW S,
         m \in S,
         \A k \in m .. n - 1 : k \in S => k + 1 \in S
  PROVE  m .. n \subseteq S
<1> DEFINE T == (m .. n) \ S
<1> SUFFICES ASSUME T # {} PROVE FALSE
  OBVIOUS
<1>1. PICK x \in T : \A y \in T : x <= y
  <2>1. T \subseteq Nat
    OBVIOUS
  <2> QED BY <2>1, LeastNatural
<1>2. x \in m + 1 .. n /\ x - 1 \in m .. n - 1
  OBVIOUS
<1>3. x - 1 \in S
  BY <1>1, <1>2
<1> QED BY <1>2, <1>3

\* The values that a step makes of a first one, in a sequence of n: the step may
\* depend on the number of the value.
Iterates(f, n, first, Step) ==
  \A k \in 1 .. n : f[k] = IF k = 1 THEN first ELSE Step[k][f[k - 1]]

LEMMA Iteration ==
  ASSUME NEW n \in Nat, NEW S, NEW first \in S, NEW Step, Step \in [2 .. n -> [S -> S]]
  PROVE  \E f \in [1 .. n -> S] : Iterates(f, n, first, Step)
<1> DEFINE P(f, m) == \A k \in 1 .. m : f[k] = IF k = 1 THEN first ELSE Step[k][f[k - 1]]
           T == {m \in 0 .. n : \E f \in [1 .. m -> S] : P(f, m)}
<1>1. 0 \in T
  <2>1. [k \in 1 .. 0 |-> first] \in [1 .. 0 -> S] /\ P([k \in 1 .. 0 |-> first], 0)
    OBVIOUS
  <2> HIDE DEF P
  <2> QED BY <2>1
<1>2. ASSUME NEW m \in 0 .. n - 1, m \in T PROVE m + 1 \in T
  <2>1. PICK f \in [1 .. m -> S] : P(f, m)
    BY <1>2
  <2> DEFINE next == IF m = 0 THEN first ELSE Step[m + 1][f[m]]
             g == [k \in 1 .. m + 1 |-> IF k = m + 1 THEN next ELSE f[k]]
  <2>2. next \in S
    OBVIOUS
  <2>3. g \in [1 .. m + 1 -> S]
    BY <2>2
  <2>4. ASSUME NEW k \in 1 .. m + 1
        PROVE  g[k] = IF k = 1 THEN first ELSE Step[k][g[k - 1]]
    <3>1. CASE k = m + 1
      BY <3>1
    <3>2. CASE k \in 1 .. m
      BY <2>1, <3>2
    <3> QED BY <3>1, <3>2
  <2>5. P(g, m + 1)
    BY <2>4
  <2> HIDE DEF g, P
  <2> QED BY <2>3, <2>5
<1>3. 0 .. n \subseteq T
  <2> HIDE DEF T
  <2> QED BY <1>1, <1>2, IntervalInduction
<1> QED BY <1>3 DEF Iterates

-----------------------------------------------------------------------------

-----------------------------------------------------------------------------
(* Functions whose tables and definitions nothing was reported of.         *)

Valid(fn) ==
  /\ Vectors(fn)
  /\ SignatureReports(fn) = {} /\ LayoutReports(fn) = {} /\ DefinitionReports(fn) = {}

LEMMA VectorFacts ==
  ASSUME NEW s, IsVector(s)
  PROVE  Len(s) \in Nat /\ DOMAIN s = 1 .. Len(s)
BY LenProperties DEF IsVector

LEMMA BlockFacts ==
  ASSUME NEW fn, Vectors(fn), SignatureReports(fn) = {}
  PROVE  /\ Len(fn.blocks) \in Nat \ {0}
         /\ Blocks(fn) = 1 .. Len(fn.blocks) /\ 1 \in Blocks(fn)
<1>1. fn.blocks # <<>>
  BY DEF SignatureReports, Report
<1>2. Len(fn.blocks) \in Nat /\ DOMAIN fn.blocks = 1 .. Len(fn.blocks)
  BY VectorFacts DEF Vectors
<1>3. Len(fn.blocks) # 0
  BY <1>1, EmptySeq DEF Vectors, IsVector
<1> QED BY <1>2, <1>3 DEF Blocks

LEMMA BodyFacts ==
  ASSUME NEW fn, DefinitionReports(fn) = {}, NEW b \in Blocks(fn)
  PROVE  /\ ValidTerminator(fn, fn.blocks[b].terminator)
         /\ \A k \in DOMAIN fn.blocks[b].instructions : InstructionReports(fn, b, k) = {}
<1> DEFINE Instructions(c) == UNION {InstructionReports(fn, c, k) : k \in DOMAIN fn.blocks[c].instructions}
           End(c) == Report(~ValidTerminator(fn, fn.blocks[c].terminator), "terminator")
           Parameters(c) == Report(~(\A p \in ToSet(fn.blocks[c].parameters) : p.type \in ValueTypes),
                                   "block parameter")
           Reports(c) == Instructions(c) \cup Parameters(c) \cup End(c)
<1>1. UNION {Reports(c) : c \in Blocks(fn)} = {}
  BY DEF DefinitionReports, BodyReports
<1>2. Reports(b) = {}
  <2> HIDE DEF Reports
  <2> QED BY <1>1
<1>3. Instructions(b) = {} /\ End(b) = {}
  <2> HIDE DEF Instructions, End, Parameters
  <2> QED BY <1>2
<1>4. ValidTerminator(fn, fn.blocks[b].terminator)
  BY <1>3 DEF Report
<1>5. ASSUME NEW k \in DOMAIN fn.blocks[b].instructions PROVE InstructionReports(fn, b, k) = {}
  BY <1>3
<1> QED BY <1>4, <1>5

\* Branches lead to blocks of the function.
LEMMA EdgesFacts ==
  ASSUME NEW fn, DefinitionReports(fn) = {}, NEW b \in Blocks(fn),
         NEW edge \in ToSet(Edges(fn.blocks[b].terminator))
  PROVE  edge.target \in Blocks(fn)
<1> DEFINE t == fn.blocks[b].terminator
<1>1. ValidTerminator(fn, t)
  BY BodyFacts
<1>2. CASE t.kind = "branch"
  BY <1>1, <1>2 DEF ValidTerminator, ValidBlock, Edges, ToSet
<1>3. CASE t.kind = "branchIfFalse"
  BY <1>1, <1>3 DEF ValidTerminator, ValidBlock, Edges, ToSet
<1>4. CASE t.kind \notin {"branch", "branchIfFalse"}
  BY <1>4 DEF Edges, ToSet
<1> QED BY <1>2, <1>3, <1>4

LEMMA SuccessorFacts ==
  ASSUME NEW fn, NEW b
  PROVE  ToSet(SuccessorsOf(fn, b)) = {e.target : e \in ToSet(Edges(fn.blocks[b].terminator))}
BY DEF SuccessorsOf, ToSet

LEMMA SuccessorsInside ==
  ASSUME NEW fn, DefinitionReports(fn) = {}, NEW b \in Blocks(fn)
  PROVE  ToSet(SuccessorsOf(fn, b)) \subseteq Blocks(fn)
BY SuccessorFacts, EdgesFacts
-----------------------------------------------------------------------------
(* The blocks on the paths that never enter a block: what StepsWithout has *)
(* reached after as many steps as there are blocks is closed.              *)

\* What one more step reaches.
Further(fn, d, S) == S \cup ((UNION {ToSet(SuccessorsOf(fn, b)) : b \in S}) \ {d})

LEMMA FurtherInside ==
  ASSUME NEW fn, DefinitionReports(fn) = {}, NEW d, NEW S \in SUBSET Blocks(fn)
  PROVE  Further(fn, d, S) \in SUBSET Blocks(fn) /\ S \subseteq Further(fn, d, S)
<1>1. \A b \in S : ToSet(SuccessorsOf(fn, b)) \subseteq Blocks(fn)
  BY SuccessorsInside
<1> QED BY <1>1 DEF Further

\* The recursive function is what its equation says.
LEMMA StepsUnfold ==
  ASSUME NEW fn, Vectors(fn), SignatureReports(fn) = {}, DefinitionReports(fn) = {}, NEW d
  PROVE  LET n == Len(fn.blocks)
             W == StepsWithout(fn, d)
         IN /\ W \in [1 .. n -> SUBSET Blocks(fn)]
            /\ W[1] = {1} \ {d}
            /\ \A k \in 2 .. n : W[k] = Further(fn, d, W[k - 1])
<1> DEFINE n == Len(fn.blocks)
           W == StepsWithout(fn, d)
           Equation(f) == f = [k \in Blocks(fn) |-> IF k = 1 THEN {1} \ {d}
                                                   ELSE Further(fn, d, f[k - 1])]
           Sets == SUBSET Blocks(fn)
           First == {1} \ {d}
           Step == [k \in 2 .. n |-> [S \in Sets |-> Further(fn, d, S)]]
<1>1. n \in Nat \ {0} /\ Blocks(fn) = 1 .. n
  BY BlockFacts
<1>2. First \in Sets
  BY <1>1
<1>3. Step \in [2 .. n -> [Sets -> Sets]]
  BY FurtherInside
<1>4. PICK f \in [1 .. n -> Sets] : Iterates(f, n, First, Step)
  <2>1. n \in Nat
    BY <1>1
  <2> HIDE DEF Step, n, Sets, First
  <2> QED BY <2>1, <1>2, <1>3, Iteration
<1>5. ASSUME NEW k \in 1 .. n
      PROVE  f[k] = IF k = 1 THEN {1} \ {d} ELSE Further(fn, d, f[k - 1])
  <2>1. CASE k = 1
    BY <1>1, <1>4, <2>1 DEF Iterates
  <2>2. CASE k # 1
    <3>1. k \in 2 .. n /\ k - 1 \in 1 .. n
      BY <1>1, <2>2
    <3>2. f[k - 1] \in Sets
      <4> HIDE DEF Sets
      <4> QED BY <1>4, <3>1
    <3>3. Step[k][f[k - 1]] = Further(fn, d, f[k - 1])
      BY <3>1, <3>2
    <3> HIDE DEF Step, n
    <3> QED BY <1>4, <2>2, <3>3 DEF Iterates
  <2> QED BY <2>1, <2>2
<1>6. Equation(f)
  <2> HIDE DEF n, Step
  <2> QED BY <1>1, <1>4, <1>5
<1>7. W = CHOOSE g : Equation(g)
  BY DEF StepsWithout, Further
<1>8. Equation(W)
  <2> HIDE DEF Equation, W
  <2> QED BY <1>6, <1>7
<1>9. /\ DOMAIN W = 1 .. n /\ W[1] = {1} \ {d}
      /\ \A k \in 2 .. n : W[k] = Further(fn, d, W[k - 1])
  <2> HIDE DEF W, n
  <2>1. W = [k \in 1 .. n |-> IF k = 1 THEN {1} \ {d} ELSE Further(fn, d, W[k - 1])]
    BY <1>1, <1>8
  <2>2. DOMAIN W = 1 .. n /\ \A k \in 1 .. n : W[k] = IF k = 1 THEN {1} \ {d} ELSE Further(fn, d, W[k - 1])
    BY <2>1
  <2>3. 1 \in 1 .. n /\ \A k \in 2 .. n : k \in 1 .. n /\ k # 1
    BY <1>1
  <2> QED BY <2>2, <2>3
<1>10. \A k \in 1 .. n : W[k] \in SUBSET Blocks(fn)
  <2> DEFINE T == {k \in 1 .. n : W[k] \in SUBSET Blocks(fn)}
  <2> HIDE DEF W, n
  <2>1. 1 \in T
    BY <1>1, <1>2, <1>9
  <2>2. ASSUME NEW k \in 1 .. n - 1, k \in T PROVE k + 1 \in T
    <3>1. k + 1 \in 2 .. n /\ W[k] \in SUBSET Blocks(fn)
      BY <1>1, <2>2
    <3>2. W[k + 1] = Further(fn, d, W[k])
      BY <1>1, <1>9, <3>1
    <3> QED BY <1>1, <3>1, <3>2, FurtherInside
  <2>3. 1 .. n \subseteq T
    <3> HIDE DEF T
    <3> QED BY <1>1, <2>1, <2>2, IntervalInduction
  <2> QED BY <2>3
<1>11. W \in [1 .. n -> SUBSET Blocks(fn)]
  <2>1. W = [k \in 1 .. n |-> W[k]]
    <3> HIDE DEF n
    <3> QED BY <1>1, <1>8
  <2> HIDE DEF W, n
  <2> QED BY <1>10, <2>1
<1> QED BY <1>9, <1>11

Closed(fn, d, S) == Further(fn, d, S) = S

LEMMA BlocksFinite ==
  ASSUME NEW fn, Vectors(fn), SignatureReports(fn) = {}
  PROVE  IsFiniteSet(Blocks(fn)) /\ Cardinality(Blocks(fn)) = Len(fn.blocks)
<1>1. Len(fn.blocks) \in Nat \ {0} /\ Blocks(fn) = 1 .. Len(fn.blocks)
  BY BlockFacts
<1> QED BY <1>1, FS_Interval

\* Every step adds a block until one adds nothing, and there are not more steps
\* than blocks.
LEMMA StepsClosed ==
  ASSUME NEW fn, Vectors(fn), SignatureReports(fn) = {}, DefinitionReports(fn) = {}, NEW d
  PROVE  Closed(fn, d, WithoutBlock(fn, d))
<1> DEFINE n == Len(fn.blocks)
           W == StepsWithout(fn, d)
           T == {k \in 1 .. n : Closed(fn, d, W[k]) \/ Cardinality(W[k]) >= k}
<1>1. n \in Nat \ {0} /\ Blocks(fn) = 1 .. n
  BY BlockFacts
<1>2. /\ W \in [1 .. n -> SUBSET Blocks(fn)] /\ W[1] = {1} \ {d}
      /\ \A k \in 2 .. n : W[k] = Further(fn, d, W[k - 1])
  BY StepsUnfold
<1>3. IsFiniteSet(Blocks(fn)) /\ Cardinality(Blocks(fn)) = n
  BY BlocksFinite
<1> HIDE DEF n, W
<1>4. ASSUME NEW k \in 1 .. n PROVE IsFiniteSet(W[k]) /\ Cardinality(W[k]) \in Nat
  <2>1. W[k] \subseteq Blocks(fn)
    BY <1>2
  <2> QED BY <1>3, <2>1, FS_Subset, FS_CardinalityType
<1>5. 1 \in T
  <2>1. CASE d = 1
    <3>1. W[1] = {}
      BY <1>2, <2>1
    <3>2. Closed(fn, d, W[1])
      BY <3>1 DEF Closed, Further
    <3> QED BY <1>1, <3>2
  <2>2. CASE d # 1
    <3>1. W[1] = {1}
      BY <1>2, <2>2
    <3>2. Cardinality(W[1]) = 1
      BY <3>1, FS_Singleton
    <3> QED BY <1>1, <3>2
  <2> QED BY <2>1, <2>2
<1>6. ASSUME NEW k \in 1 .. n - 1, k \in T PROVE k + 1 \in T
  <2>1. k \in 1 .. n /\ k + 1 \in 2 .. n /\ k + 1 \in 1 .. n
    BY <1>1
  <2>2. W[k + 1] = Further(fn, d, W[k])
    <3>1. W[k + 1] = Further(fn, d, W[(k + 1) - 1])
      BY <1>2, <2>1
    <3>2. (k + 1) - 1 = k
      BY <1>1
    <3> QED BY <3>1, <3>2
  <2>3. CASE W[k + 1] = W[k]
    <3>1. Closed(fn, d, W[k + 1])
      BY <2>2, <2>3 DEF Closed
    <3> QED BY <2>1, <3>1
  <2>4. CASE W[k + 1] # W[k]
    <3>1. ~Closed(fn, d, W[k])
      BY <2>2, <2>4 DEF Closed
    <3>2. Cardinality(W[k]) >= k
      BY <1>6, <3>1
    <3>3. W[k] \in SUBSET Blocks(fn)
      BY <1>2, <2>1
    <3>4. W[k] \subseteq W[k + 1]
      BY <2>2, <3>3, FurtherInside
    <3>5. Cardinality(W[k]) < Cardinality(W[k + 1])
      <4>1. IsFiniteSet(W[k + 1]) /\ Cardinality(W[k + 1]) \in Nat /\ Cardinality(W[k]) \in Nat
        BY <1>4, <2>1
      <4> QED BY <2>4, <3>4, <4>1, FS_Subset
    <3> QED BY <1>1, <1>4, <2>1, <3>2, <3>5
  <2> QED BY <2>3, <2>4
<1>7. n \in T
  <2>1. 1 .. n \subseteq T
    <3> HIDE DEF T
    <3> QED BY <1>1, <1>5, <1>6, IntervalInduction
  <2> QED BY <1>1, <2>1
<1>8. CASE Cardinality(W[n]) >= n
  <2>1. W[n] \in SUBSET Blocks(fn)
    BY <1>1, <1>2
  <2>2. W[n] = Blocks(fn)
    BY <1>1, <1>3, <1>4, <1>8, <2>1, FS_Subset
  <2>3. Further(fn, d, W[n]) = W[n]
    BY <2>1, <2>2, FurtherInside
  <2> QED BY <2>3 DEF Closed, WithoutBlock, W, n
<1>9. CASE Closed(fn, d, W[n])
  BY <1>9 DEF WithoutBlock, W, n
<1> QED BY <1>7, <1>8, <1>9

\* It holds the entry, unless that is the block to avoid.
LEMMA StepsStart ==
  ASSUME NEW fn, Vectors(fn), SignatureReports(fn) = {}, DefinitionReports(fn) = {}, NEW d, d # 1
  PROVE  1 \in WithoutBlock(fn, d)
<1> DEFINE n == Len(fn.blocks)
           W == StepsWithout(fn, d)
           T == {k \in 1 .. n : 1 \in W[k]}
<1>1. n \in Nat \ {0} /\ Blocks(fn) = 1 .. n
  BY BlockFacts
<1>2. /\ W \in [1 .. n -> SUBSET Blocks(fn)] /\ W[1] = {1} \ {d}
      /\ \A k \in 2 .. n : W[k] = Further(fn, d, W[k - 1])
  BY StepsUnfold
<1> HIDE DEF n, W
<1>3. 1 \in T
  BY <1>1, <1>2
<1>4. ASSUME NEW k \in 1 .. n - 1, k \in T PROVE k + 1 \in T
  <2>1. k + 1 \in 2 .. n /\ k + 1 \in 1 .. n /\ (k + 1) - 1 = k
    BY <1>1
  <2>2. W[k + 1] = Further(fn, d, W[k])
    BY <1>2, <2>1
  <2> QED BY <1>4, <2>1, <2>2 DEF Further
<1>5. 1 .. n \subseteq T
  <2> HIDE DEF T
  <2> QED BY <1>1, <1>3, <1>4, IntervalInduction
<1> QED BY <1>1, <1>5 DEF WithoutBlock, W, n

\* It is in every closed set that has the entry.
LEMMA StepsLeast ==
  ASSUME NEW fn, Vectors(fn), SignatureReports(fn) = {}, DefinitionReports(fn) = {}, NEW d,
         NEW S, {1} \ {d} \subseteq S, Closed(fn, d, S)
  PROVE  WithoutBlock(fn, d) \subseteq S
<1> DEFINE n == Len(fn.blocks)
           W == StepsWithout(fn, d)
           T == {k \in 1 .. n : W[k] \subseteq S}
<1>1. n \in Nat \ {0} /\ Blocks(fn) = 1 .. n
  BY BlockFacts
<1>2. /\ W \in [1 .. n -> SUBSET Blocks(fn)] /\ W[1] = {1} \ {d}
      /\ \A k \in 2 .. n : W[k] = Further(fn, d, W[k - 1])
  BY StepsUnfold
<1> HIDE DEF n, W
<1>3. 1 \in T
  BY <1>1, <1>2
<1>4. ASSUME NEW k \in 1 .. n - 1, k \in T PROVE k + 1 \in T
  <2>1. k + 1 \in 2 .. n /\ k + 1 \in 1 .. n /\ (k + 1) - 1 = k
    BY <1>1
  <2>2. W[k + 1] = Further(fn, d, W[k])
    BY <1>2, <2>1
  <2>3. W[k] \subseteq S
    BY <1>4
  <2>4. Further(fn, d, W[k]) \subseteq Further(fn, d, S)
    BY <2>3 DEF Further
  <2> QED BY <2>1, <2>2, <2>4 DEF Closed
<1>5. 1 .. n \subseteq T
  <2> HIDE DEF T
  <2> QED BY <1>1, <1>3, <1>4, IntervalInduction
<1> QED BY <1>1, <1>5 DEF WithoutBlock, W, n

\* A block that is left stays inside, unless the way leads to the block to avoid.
LEMMA StepsFollow ==
  ASSUME NEW fn, Vectors(fn), SignatureReports(fn) = {}, DefinitionReports(fn) = {}, NEW d,
         NEW a \in WithoutBlock(fn, d), NEW b \in ToSet(SuccessorsOf(fn, a)), b # d
  PROVE  b \in WithoutBlock(fn, d)
<1>1. b \in Further(fn, d, WithoutBlock(fn, d))
  BY DEF Further
<1> QED BY <1>1, StepsClosed DEF Closed

-----------------------------------------------------------------------------
(* Every value is defined in one place.                                    *)

LEMMA PlacesAreNumbers ==
  ASSUME NEW fn, Vectors(fn), NEW p \in Places(fn)
  PROVE  /\ p \in Nat \X Nat \X Nat /\ p[1] \in Blocks(fn)
         /\ \/ p \in ParameterPlaces(fn, p[1]) /\ p[2] = 0
            \/ p \in CodePlaces(fn, p[1]) /\ p[2] \in DOMAIN fn.blocks[p[1]].instructions
               /\ p[2] \in 1 .. Len(fn.blocks[p[1]].instructions)
<1>1. PICK b \in Blocks(fn) : p \in ParameterPlaces(fn, b) \cup CodePlaces(fn, b)
  BY DEF Places
<1>2. b \in Nat
  BY VectorFacts DEF Vectors, Blocks
<1>3. /\ DOMAIN fn.blocks[b].parameters \subseteq Nat
      /\ DOMAIN fn.blocks[b].instructions = 1 .. Len(fn.blocks[b].instructions)
      /\ Len(fn.blocks[b].instructions) \in Nat
  BY VectorFacts DEF Vectors, Blocks
<1>4. CASE p \in ParameterPlaces(fn, b)
  BY <1>2, <1>3, <1>4 DEF ParameterPlaces
<1>5. CASE p \in CodePlaces(fn, b)
  BY <1>2, <1>3, <1>5 DEF CodePlaces
<1> QED BY <1>1, <1>4, <1>5

LEMMA EarlierTotal ==
  ASSUME NEW p \in Nat \X Nat \X Nat, NEW q \in Nat \X Nat \X Nat
  PROVE  /\ p = q \/ Earlier(p, q) \/ Earlier(q, p)
         /\ ~Earlier(p, p)
BY DEF Earlier

LEMMA PlaceFacts ==
  ASSUME NEW fn, DefinitionReports(fn) = {}, NEW p \in Places(fn)
  PROVE  /\ SiteAt(fn, p).value \in DOMAIN fn.valueTypes
         /\ fn.valueTypes[SiteAt(fn, p).value] = SiteAt(fn, p).type
         /\ \A q \in Places(fn) : Earlier(q, p) => SiteAt(fn, q).value # SiteAt(fn, p).value
<1> DEFINE Reported(x) ==
             LET s == SiteAt(fn, x)
             IN IF ~ValidValue(fn, s.value) THEN {"invalid value defined"}
                ELSE IF \E q \in Places(fn) : Earlier(q, x) /\ SiteAt(fn, q).value = s.value
                THEN {"value defined twice"}
                ELSE Report(fn.valueTypes[s.value] # s.type, "type of definition")
<1>1. UNION {Reported(x) : x \in Places(fn)} = {}
  BY DEF DefinitionReports, SiteReports
<1>2. Reported(p) = {}
  <2> HIDE DEF Reported
  <2> QED BY <1>1
<1> QED BY <1>2 DEF Report, ValidValue

LEMMA PlacesUnique ==
  ASSUME NEW fn, Vectors(fn), DefinitionReports(fn) = {},
         NEW p \in Places(fn), NEW q \in Places(fn), SiteAt(fn, p).value = SiteAt(fn, q).value
  PROVE  p = q
BY PlacesAreNumbers, EarlierTotal, PlaceFacts

\* The definitions that the verifier keeps are the places.
LEMMA DefinitionsFacts ==
  ASSUME NEW fn, Vectors(fn), DefinitionReports(fn) = {}
  PROVE  /\ DOMAIN DefinitionsIn(fn) = DOMAIN fn.valueTypes
         /\ \A p \in Places(fn) : DefinitionsIn(fn)[SiteAt(fn, p).value] = SiteAt(fn, p)
         /\ \A v \in DOMAIN fn.valueTypes : \E p \in Places(fn) : SiteAt(fn, p).value = v
<1> DEFINE Own(v) == {p \in Places(fn) : SiteAt(fn, p).value = v}
<1>1. DOMAIN DefinitionsIn(fn) = DOMAIN fn.valueTypes
  BY DEF DefinitionsIn
<1>2. ASSUME NEW v \in DOMAIN fn.valueTypes
      PROVE  DefinitionsIn(fn)[v] = IF Own(v) = {} THEN NoSite
                ELSE SiteAt(fn, CHOOSE p \in Own(v) : \A q \in Own(v) : ~Earlier(q, p))
  BY DEF DefinitionsIn
<1>3. ASSUME NEW v \in DOMAIN fn.valueTypes PROVE Own(v) # {}
  <2>1. DefinitionsIn(fn)[v] # NoSite
    BY DEF DefinitionReports, Report
  <2> QED BY <1>2, <2>1
<1>4. ASSUME NEW p \in Places(fn) PROVE DefinitionsIn(fn)[SiteAt(fn, p).value] = SiteAt(fn, p)
  <2> DEFINE v == SiteAt(fn, p).value
  <2>1. v \in DOMAIN fn.valueTypes
    BY PlaceFacts
  <2>2. Own(v) = {p}
    BY PlacesUnique
  <2>3. ~Earlier(p, p)
    BY PlacesAreNumbers, EarlierTotal
  <2>4. (CHOOSE x \in Own(v) : \A q \in Own(v) : ~Earlier(q, x)) = p
    <3> HIDE DEF Own, v
    <3> QED BY <2>2, <2>3
  <2> HIDE DEF Own
  <2> QED BY <1>2, <2>1, <2>2, <2>4
<1> QED BY <1>1, <1>3, <1>4

\* On the whole: a value's definition is the one place that defines it.
LEMMA DefinitionPlace ==
  ASSUME NEW fn, Vectors(fn), DefinitionReports(fn) = {}, NEW v \in DOMAIN fn.valueTypes
  PROVE  \E p \in Places(fn) :
           /\ DefinitionsIn(fn)[v] = SiteAt(fn, p) /\ SiteAt(fn, p).value = v
           /\ fn.valueTypes[v] = SiteAt(fn, p).type
           /\ \A q \in Places(fn) : SiteAt(fn, q).value = v => q = p
<1>1. PICK p \in Places(fn) : SiteAt(fn, p).value = v
  BY DefinitionsFacts
<1>2. DefinitionsIn(fn)[v] = SiteAt(fn, p) /\ fn.valueTypes[v] = SiteAt(fn, p).type
  BY <1>1, DefinitionsFacts, PlaceFacts
<1> QED BY <1>1, <1>2, PlacesUnique

LEMMA SitePlace ==
  ASSUME NEW fn, NEW p
  PROVE  SiteAt(fn, p).block = p[1]
         /\ SiteAt(fn, p).position = IF p[2] = 0 THEN 0 ELSE p[2]
BY DEF SiteAt, Site

-----------------------------------------------------------------------------
(* The invariant of the verifier.                                          *)

PlaceFaults == {"order of use", "dominance of use"}

\* How far a verification has come: one that was refused for the place of a use
\* has come to the uses.
RefusedForPlaces == phase = "rejected" /\ reports # {} /\ reports \subseteq PlaceFaults
PastDominators == phase \in {"uses", "accepted"} \/ RefusedForPlaces
PastReach == phase = "dominators" \/ PastDominators
PastEntry == phase = "reach" \/ PastReach
PastDefinitions == phase = "entry" \/ PastEntry
PastLayout == phase = "definitions" \/ PastDefinitions
PastSignature == phase = "layout" \/ PastLayout

\* No dominator has been lost.
DominatorsKept ==
  /\ dominates \in [Blocks(Fn) -> SUBSET Blocks(Fn)] /\ dominates[1] = {1}
  /\ \A b, d \in Blocks(Fn) : DominatesByPaths(Fn, d, b) => d \in dominates[b]

\* A sweep that has changed nothing leaves solved blocks behind.
SweepSolves ==
  /\ sweep.block \in 2 .. Len(Fn.blocks) + 1 /\ sweep.changed \in BOOLEAN
  /\ ~sweep.changed => \A b \in 2 .. sweep.block - 1 : dominates[b] = Meet(b)

Solved == \A b \in 2 .. Len(Fn.blocks) : dominates[b] = Meet(b)

VerifierInv ==
  /\ function \in Functions /\ phase \in Phases \cup Verdicts
  /\ PastSignature => SignatureReports(Fn) = {}
  /\ PastLayout => LayoutReports(Fn) = {}
  /\ PastDefinitions => DefinitionReports(Fn) = {} /\ definitions = DefinitionsIn(Fn)
  /\ PastEntry => Predecessors(Fn, 1) = {}
  /\ PastReach => DominatorsKept
  /\ phase = "dominators" => SweepSolves
  /\ PastDominators => Solved
  /\ phase = "accepted" =>
       ArityReports(Fn, Targets) = {} /\ \A u \in AllUses : UseReports(u) = {}
  /\ RefusedForPlaces =>
       \E u \in AllUses : UseReports(u) # {} /\ UseReports(u) \subseteq PlaceFaults

\* The definitions that lie behind the place of execution.
Available(v) ==
  LET site == definitions[v]
  IN IF site.block = at.block THEN site.position < at.position
     ELSE site.block \in dominates[at.block]

MachineInv ==
  Started =>
    /\ phase = "accepted" /\ at \in [block : Blocks(Fn), position : Nat]
    /\ DOMAIN env = DOMAIN Fn.valueTypes
    /\ \A v \in DOMAIN Fn.valueTypes : Available(v) => env[v] = Fn.valueTypes[v]

SsaInv == VerifierInv /\ MachineInv

-----------------------------------------------------------------------------
(* Only the check of the uses reports their places.                        *)

LEMMA TableFaults ==
  ASSUME NEW fn, NEW targets
  PROVE  (TargetReports(fn, targets) \cup SignatureReports(fn)) \cap PlaceFaults = {}
<1> DEFINE Reported(k) ==
             Report(targets[k].id = NoFunction, "noFunction target")
             \cup Report(targets[k].kind \notin {"user", "host"}, "kind of target")
             \cup Report(~ValidSignature(targets[k]), "signature of target")
             \cup Report(targets[k].id = fn.id /\ ~SelfTarget(fn, targets[k]), "self target")
             \cup Report(\E j \in 1 .. k - 1 : targets[j].id = targets[k].id, "duplicate target")
<1>1. ASSUME NEW k PROVE Reported(k) \cap PlaceFaults = {}
  BY DEF Report, PlaceFaults
<1>2. TargetReports(fn, targets) = UNION {Reported(k) : k \in DOMAIN targets}
  BY DEF TargetReports
<1>3. SignatureReports(fn) \cap PlaceFaults = {}
  BY DEF SignatureReports, Report, PlaceFaults
<1> HIDE DEF Reported
<1> QED BY <1>1, <1>2, <1>3

LEMMA LayoutFaults ==
  ASSUME NEW fn
  PROVE  LayoutReports(fn) \cap PlaceFaults = {}
BY DEF LayoutReports, Report, PlaceFaults

LEMMA DefinitionFaults ==
  ASSUME NEW fn
  PROVE  DefinitionReports(fn) \cap PlaceFaults = {}
<1> DEFINE Defined(p) ==
             LET s == SiteAt(fn, p)
             IN IF ~ValidValue(fn, s.value) THEN {"invalid value defined"}
                ELSE IF \E q \in Places(fn) : Earlier(q, p) /\ SiteAt(fn, q).value = s.value
                THEN {"value defined twice"}
                ELSE Report(fn.valueTypes[s.value] # s.type, "type of definition")
           Reported(b) ==
             (UNION {InstructionReports(fn, b, k) : k \in DOMAIN fn.blocks[b].instructions})
             \cup Report(~(\A p \in ToSet(fn.blocks[b].parameters) : p.type \in ValueTypes),
                         "block parameter")
             \cup Report(~ValidTerminator(fn, fn.blocks[b].terminator), "terminator")
<1>1. SiteReports(fn) \cap PlaceFaults = {}
  <2>1. ASSUME NEW p PROVE Defined(p) \cap PlaceFaults = {}
    BY DEF Report, PlaceFaults
  <2>2. SiteReports(fn) = UNION {Defined(p) : p \in Places(fn)}
    BY DEF SiteReports
  <2> HIDE DEF Defined
  <2> QED BY <2>1, <2>2
<1>2. BodyReports(fn) \cap PlaceFaults = {}
  <2>1. ASSUME NEW b, NEW k PROVE InstructionReports(fn, b, k) \cap PlaceFaults = {}
    BY DEF InstructionReports, Report, PlaceFaults
  <2>2. ASSUME NEW b PROVE Reported(b) \cap PlaceFaults = {}
    <3>1. (UNION {InstructionReports(fn, b, k) : k \in DOMAIN fn.blocks[b].instructions})
          \cap PlaceFaults = {}
      BY <2>1
    <3>2. ASSUME NEW A PROVE /\ Report(A, "block parameter") \cap PlaceFaults = {}
                             /\ Report(A, "terminator") \cap PlaceFaults = {}
      BY DEF Report, PlaceFaults
    <3> QED BY <3>1, <3>2
  <2>3. BodyReports(fn) = UNION {Reported(b) : b \in Blocks(fn)}
    BY DEF BodyReports
  <2> HIDE DEF Reported
  <2> QED BY <2>2, <2>3
<1>3. ASSUME NEW A, NEW B
      PROVE  (Report(A, "missing parameter") \cup Report(B, "undefined value")) \cap PlaceFaults = {}
  BY DEF Report, PlaceFaults
<1> QED BY <1>1, <1>2, <1>3 DEF DefinitionReports

LEMMA ArityFaults ==
  ASSUME NEW fn, NEW targets
  PROVE  ArityReports(fn, targets) \cap PlaceFaults = {}
<1> DEFINE Reported(b) ==
             (UNION {CallReports(fn, targets, i) :
                       i \in {j \in ToSet(fn.blocks[b].instructions) : j.op \in CallOps}})
             \cup (UNION {EdgeReports(fn, e) : e \in ToSet(Edges(fn.blocks[b].terminator))})
<1>1. ASSUME NEW i PROVE CallReports(fn, targets, i) \cap PlaceFaults = {}
  BY DEF CallReports, Report, PlaceFaults
<1>2. ASSUME NEW e PROVE EdgeReports(fn, e) \cap PlaceFaults = {}
  BY DEF EdgeReports, Report, PlaceFaults
<1>3. ASSUME NEW b PROVE Reported(b) \cap PlaceFaults = {}
  BY <1>1, <1>2
<1>4. ArityReports(fn, targets) = UNION {Reported(b) : b \in Blocks(fn)}
  BY DEF ArityReports
<1> HIDE DEF Reported
<1> QED BY <1>3, <1>4

-----------------------------------------------------------------------------
(* Every action of the verifier keeps its invariant.                       *)

LEMMA FunctionFacts ==
  ASSUME VerifierInv
  PROVE  Vectors(Fn)
BY FunctionsAssumption DEF VerifierInv, Fn

LEMMA SignatureStep ==
  ASSUME VerifierInv, CheckSignature
  PROVE  VerifierInv'
<1> DEFINE R == TargetReports(Fn, Targets) \cup SignatureReports(Fn)
<1>1. phase = "signature" /\ function' = function
      /\ \/ R = {} /\ phase' = "layout"
         \/ R # {} /\ phase' = "rejected" /\ reports' = R
  BY DEF CheckSignature, Check
<1>2. Fn' = Fn
  BY <1>1 DEF Fn
<1>3. R \cap PlaceFaults = {}
  BY TableFaults
<1>4. ~RefusedForPlaces'
  <2> HIDE DEF R
  <2> QED BY <1>1, <1>3 DEF RefusedForPlaces
<1>5. phase' = "layout" => SignatureReports(Fn') = {}
  BY <1>1, <1>2
<1> HIDE DEF R
<1> QED BY <1>1, <1>4, <1>5
     DEF VerifierInv, Phases, Verdicts, PastSignature, PastLayout, PastDefinitions, PastEntry,
         PastReach, PastDominators

LEMMA LayoutStep ==
  ASSUME VerifierInv, CheckLayout
  PROVE  VerifierInv'
<1> DEFINE R == LayoutReports(Fn)
<1>1. phase = "layout" /\ function' = function
      /\ \/ R = {} /\ phase' = "definitions"
         \/ R # {} /\ phase' = "rejected" /\ reports' = R
  BY DEF CheckLayout, Check
<1>2. Fn' = Fn
  BY <1>1 DEF Fn
<1>3. ~RefusedForPlaces'
  <2>1. R \cap PlaceFaults = {}
    BY LayoutFaults
  <2> HIDE DEF R
  <2> QED BY <1>1, <2>1 DEF RefusedForPlaces
<1> QED BY <1>1, <1>2, <1>3
     DEF VerifierInv, Phases, Verdicts, PastSignature, PastLayout, PastDefinitions, PastEntry,
         PastReach, PastDominators

LEMMA DefinitionsStep ==
  ASSUME VerifierInv, CheckDefinitions
  PROVE  VerifierInv'
<1> DEFINE R == DefinitionReports(Fn)
<1>1. phase = "definitions" /\ function' = function /\ definitions' = DefinitionsIn(Fn)
      /\ \/ R = {} /\ phase' = "entry"
         \/ R # {} /\ phase' = "rejected" /\ reports' = R
  BY DEF CheckDefinitions, Check
<1>2. Fn' = Fn
  BY <1>1 DEF Fn
<1>3. ~RefusedForPlaces'
  <2>1. R \cap PlaceFaults = {}
    BY DefinitionFaults
  <2> HIDE DEF R
  <2> QED BY <1>1, <2>1 DEF RefusedForPlaces
<1> QED BY <1>1, <1>2, <1>3
     DEF VerifierInv, Phases, Verdicts, PastSignature, PastLayout, PastDefinitions, PastEntry,
         PastReach, PastDominators

LEMMA EntryStep ==
  ASSUME VerifierInv, CheckEntry
  PROVE  VerifierInv'
<1> DEFINE R == Report(Predecessors(Fn, 1) # {}, "predecessor of entry")
<1>1. phase = "entry" /\ function' = function /\ definitions' = definitions
      /\ \/ R = {} /\ phase' = "reach"
         \/ R # {} /\ phase' = "rejected" /\ reports' = R
  BY DEF CheckEntry, Check
<1>2. Fn' = Fn
  BY <1>1 DEF Fn
<1>3. ~RefusedForPlaces'
  <2>1. R \cap PlaceFaults = {}
    BY DEF Report, PlaceFaults
  <2> HIDE DEF R
  <2> QED BY <1>1, <2>1 DEF RefusedForPlaces
<1>4. phase' = "reach" => Predecessors(Fn', 1) = {}
  BY <1>1, <1>2 DEF Report
<1> HIDE DEF R
<1> QED BY <1>1, <1>2, <1>3, <1>4
     DEF VerifierInv, Phases, Verdicts, PastSignature, PastLayout, PastDefinitions, PastEntry,
         PastReach, PastDominators

LEMMA VisitStep ==
  ASSUME VerifierInv, VisitBlock
  PROVE  VerifierInv'
<1>1. phase = "reach" /\ phase' = "reach" /\ function' = function /\ definitions' = definitions
  BY DEF VisitBlock
<1>2. Fn' = Fn
  BY <1>1 DEF Fn
<1> QED BY <1>1, <1>2
     DEF VerifierInv, Phases, Verdicts, PastSignature, PastLayout, PastDefinitions, PastEntry,
         PastReach, PastDominators, RefusedForPlaces

\* By paths, only the entry dominates the entry, and what dominates a block and is
\* another dominates each of its predecessors.
LEMMA PathsFacts ==
  ASSUME NEW fn, Vectors(fn), SignatureReports(fn) = {}, DefinitionReports(fn) = {},
         NEW d, NEW b, DominatesByPaths(fn, d, b)
  PROVE  /\ b = 1 => d = 1
         /\ \A a \in Predecessors(fn, b) : d # b => DominatesByPaths(fn, d, a)
<1>1. ASSUME b = 1, d # 1 PROVE FALSE
  BY <1>1, StepsStart DEF DominatesByPaths
<1>2. ASSUME NEW a \in Predecessors(fn, b), d # b, a \in WithoutBlock(fn, d) PROVE FALSE
  BY <1>2, StepsFollow DEF DominatesByPaths, Predecessors
<1> QED BY <1>1, <1>2 DEF DominatesByPaths

LEMMA ReachableStep ==
  ASSUME VerifierInv, CheckReachable
  PROVE  VerifierInv'
<1> DEFINE R == Report(reachable # Blocks(Fn), "unreachable block")
<1>1. phase = "reach" /\ function' = function /\ definitions' = definitions
      /\ \/ R = {} /\ phase' = "dominators"
         \/ R # {} /\ phase' = "rejected" /\ reports' = R
  BY DEF CheckReachable, Check
<1>2. Fn' = Fn
  BY <1>1 DEF Fn
<1>3. ~RefusedForPlaces'
  <2>1. R \cap PlaceFaults = {}
    BY DEF Report, PlaceFaults
  <2> HIDE DEF R
  <2> QED BY <1>1, <2>1 DEF RefusedForPlaces
<1> HIDE DEF R
<1>4. SignatureReports(Fn) = {} /\ DefinitionReports(Fn) = {} /\ Vectors(Fn)
  BY <1>1, FunctionFacts
     DEF VerifierInv, PastSignature, PastLayout, PastDefinitions, PastEntry
<1>5. Len(Fn.blocks) \in Nat \ {0} /\ Blocks(Fn) = 1 .. Len(Fn.blocks) /\ 1 \in Blocks(Fn)
  BY <1>4, BlockFacts
<1>6. /\ dominates' = [b \in Blocks(Fn) |-> IF b = 1 THEN {1} ELSE Blocks(Fn)]
      /\ sweep' = StartSweep
  BY DEF CheckReachable
<1>7. DominatorsKept'
  <2>1. dominates' \in [Blocks(Fn) -> SUBSET Blocks(Fn)] /\ dominates'[1] = {1}
    BY <1>5, <1>6
  <2>2. ASSUME NEW b \in Blocks(Fn), NEW d \in Blocks(Fn), DominatesByPaths(Fn, d, b)
        PROVE  d \in dominates'[b]
    BY <1>4, <1>5, <1>6, <2>2, PathsFacts
  <2> QED BY <1>2, <2>1, <2>2 DEF DominatorsKept
<1>8. SweepSolves'
  BY <1>2, <1>5, <1>6 DEF SweepSolves, StartSweep
<1> QED BY <1>1, <1>2, <1>3, <1>7, <1>8
     DEF VerifierInv, Phases, Verdicts, PastSignature, PastLayout, PastDefinitions, PastEntry,
         PastReach, PastDominators

LEMMA SweepFacts ==
  ASSUME VerifierInv, phase = "dominators"
  PROVE  /\ SignatureReports(Fn) = {} /\ DefinitionReports(Fn) = {} /\ Vectors(Fn)
         /\ Len(Fn.blocks) \in Nat \ {0} /\ Blocks(Fn) = 1 .. Len(Fn.blocks) /\ 1 \in Blocks(Fn)
         /\ DominatorsKept /\ SweepSolves
<1>1. SignatureReports(Fn) = {} /\ DefinitionReports(Fn) = {} /\ Vectors(Fn)
  BY FunctionFacts
     DEF VerifierInv, PastSignature, PastLayout, PastDefinitions, PastEntry, PastReach
<1>2. DominatorsKept /\ SweepSolves
  BY DEF VerifierInv, PastReach
<1> QED BY <1>1, <1>2, BlockFacts

LEMMA SweepStep ==
  ASSUME VerifierInv, SweepBlock
  PROVE  VerifierInv'
<1> DEFINE c == sweep.block
<1>1. /\ phase = "dominators" /\ phase' = "dominators" /\ c \in Blocks(Fn)
      /\ function' = function /\ definitions' = definitions
      /\ dominates' = [dominates EXCEPT ![c] = Meet(c)]
      /\ sweep' = [block |-> c + 1, changed |-> sweep.changed \/ Changed(c)]
  BY DEF SweepBlock
<1>2. Fn' = Fn
  BY <1>1 DEF Fn
<1>3. /\ SignatureReports(Fn) = {} /\ DefinitionReports(Fn) = {} /\ Vectors(Fn)
      /\ Len(Fn.blocks) \in Nat \ {0} /\ Blocks(Fn) = 1 .. Len(Fn.blocks) /\ 1 \in Blocks(Fn)
      /\ DominatorsKept /\ SweepSolves
  BY <1>1, SweepFacts
<1>4. c \in 2 .. Len(Fn.blocks)
  BY <1>1, <1>3 DEF SweepSolves
<1> HIDE DEF c
<1>5. Meet(c) \in SUBSET Blocks(Fn)
  BY <1>1 DEF Meet
<1>6. DominatorsKept'
  <2>1. dominates' \in [Blocks(Fn) -> SUBSET Blocks(Fn)] /\ dominates'[1] = {1}
    BY <1>1, <1>3, <1>4, <1>5 DEF DominatorsKept
  <2>2. ASSUME NEW b \in Blocks(Fn), NEW d \in Blocks(Fn), DominatesByPaths(Fn, d, b)
        PROVE  d \in dominates'[b]
    <3>1. CASE b # c
      BY <1>1, <1>3, <2>2, <3>1 DEF DominatorsKept
    <3>2. CASE b = c
      <4>1. dominates'[b] = Meet(b)
        BY <1>1, <1>3, <3>2 DEF DominatorsKept
      <4>2. ASSUME NEW a \in Predecessors(Fn, b), d # b PROVE d \in dominates[a]
        <5>1. DominatesByPaths(Fn, d, a)
          BY <1>3, <2>2, <4>2, PathsFacts
        <5> QED BY <1>3, <5>1 DEF DominatorsKept, Predecessors
      <4> QED BY <4>1, <4>2 DEF Meet
    <3> QED BY <3>1, <3>2
  <2> QED BY <1>2, <2>1, <2>2 DEF DominatorsKept
<1>7. SweepSolves'
  <2>1. sweep'.block \in 2 .. Len(Fn.blocks) + 1 /\ sweep'.changed \in BOOLEAN
    BY <1>1, <1>3, <1>4 DEF SweepSolves, Changed
  <2>2. ASSUME ~sweep'.changed, NEW b \in 2 .. sweep'.block - 1
        PROVE  dominates'[b] = Meet(b)'
    <3>1. ~sweep.changed /\ Meet(c) = dominates[c]
      BY <1>1, <2>2 DEF Changed
    <3>2. dominates' = dominates
      BY <1>1, <1>3, <3>1 DEF DominatorsKept
    <3>3. Meet(b)' = Meet(b)
      BY <1>2, <3>2 DEF Meet
    <3>4. b \in 2 .. c
      BY <1>1, <1>4, <2>2
    <3>5. CASE b = c
      BY <3>1, <3>2, <3>3, <3>5
    <3>6. CASE b \in 2 .. c - 1
      BY <1>3, <3>1, <3>2, <3>3, <3>6 DEF SweepSolves, c
    <3> QED BY <1>4, <3>4, <3>5, <3>6
  <2> QED BY <1>2, <2>1, <2>2 DEF SweepSolves
<1> QED BY <1>1, <1>2, <1>6, <1>7
     DEF VerifierInv, Phases, Verdicts, PastSignature, PastLayout, PastDefinitions, PastEntry,
         PastReach, PastDominators, RefusedForPlaces

LEMMA EndSweepStep ==
  ASSUME VerifierInv, EndSweep
  PROVE  VerifierInv'
<1>1. /\ phase = "dominators" /\ sweep.block \notin Blocks(Fn)
      /\ function' = function /\ definitions' = definitions /\ dominates' = dominates
      /\ \/ sweep.changed /\ sweep' = StartSweep /\ phase' = "dominators"
         \/ ~sweep.changed /\ phase' = "uses"
  BY DEF EndSweep
<1>2. Fn' = Fn
  BY <1>1 DEF Fn
<1>3. /\ SignatureReports(Fn) = {} /\ DefinitionReports(Fn) = {} /\ Vectors(Fn)
      /\ Len(Fn.blocks) \in Nat \ {0} /\ Blocks(Fn) = 1 .. Len(Fn.blocks) /\ 1 \in Blocks(Fn)
      /\ DominatorsKept /\ SweepSolves
  BY <1>1, SweepFacts
<1>4. DominatorsKept'
  BY <1>1, <1>2, <1>3 DEF DominatorsKept
<1>5. CASE sweep.changed
  <2>1. SweepSolves'
    <3>1. sweep'.block = 2 /\ sweep'.changed = FALSE
      BY <1>1, <1>5 DEF StartSweep
    <3>2. 2 \in 2 .. Len(Fn.blocks) + 1 /\ \A b \in 2 .. 2 - 1 : FALSE
      BY <1>3
    <3> QED BY <1>2, <3>1, <3>2 DEF SweepSolves
  <2> QED BY <1>1, <1>2, <1>4, <1>5, <2>1
       DEF VerifierInv, Phases, Verdicts, PastSignature, PastLayout, PastDefinitions, PastEntry,
           PastReach, PastDominators, RefusedForPlaces
<1>6. CASE ~sweep.changed
  <2>1. sweep.block = Len(Fn.blocks) + 1
    BY <1>1, <1>3 DEF SweepSolves
  <2>2. Solved
    BY <1>3, <1>6, <2>1 DEF SweepSolves, Solved
  <2>3. Solved'
    BY <1>1, <1>2, <2>2 DEF Solved, Meet
  <2> QED BY <1>1, <1>2, <1>4, <1>6, <2>3
       DEF VerifierInv, Phases, Verdicts, PastSignature, PastLayout, PastDefinitions, PastEntry,
           PastReach, PastDominators, RefusedForPlaces
<1> QED BY <1>5, <1>6

LEMMA UsesStep ==
  ASSUME VerifierInv, CheckUses
  PROVE  VerifierInv'
<1> DEFINE R == ArityReports(Fn, Targets) \cup (UNION {UseReports(u) : u \in AllUses})
<1>1. phase = "uses" /\ function' = function /\ definitions' = definitions
      /\ dominates' = dominates
      /\ \/ R = {} /\ phase' = "accepted"
         \/ R # {} /\ phase' = "rejected" /\ reports' = R
  BY DEF CheckUses, Check
<1>2. Fn' = Fn /\ Targets' = Targets
  BY <1>1 DEF Fn, Targets
<1>3. DominatorsKept' /\ Solved'
  <2>1. DominatorsKept /\ Solved
    BY <1>1 DEF VerifierInv, PastDominators, PastReach
  <2> QED BY <1>1, <1>2, <2>1 DEF DominatorsKept, Solved, Meet
<1>4. AllUses' = AllUses /\ \A u : UseReports(u)' = UseReports(u)
  BY <1>1, <1>2 DEF AllUses, UseReports
<1>5. CASE R = {}
  <2>1. ArityReports(Fn, Targets) = {} /\ \A u \in AllUses : UseReports(u) = {}
    BY <1>5
  <2> HIDE DEF R
  <2>2. phase' = "accepted"
    BY <1>1, <1>5
  <2> QED BY <1>1, <1>2, <1>3, <1>4, <2>1, <2>2
       DEF VerifierInv, Phases, Verdicts, PastSignature, PastLayout, PastDefinitions, PastEntry,
           PastReach, PastDominators, RefusedForPlaces
<1>6. CASE R # {}
  <2>1. RefusedForPlaces' =>
          \E u \in AllUses : UseReports(u) # {} /\ UseReports(u) \subseteq PlaceFaults
    <3>1. ASSUME RefusedForPlaces'
          PROVE  \E u \in AllUses : UseReports(u) # {} /\ UseReports(u) \subseteq PlaceFaults
      <4>1. R \subseteq PlaceFaults
        <5> HIDE DEF R
        <5> QED BY <1>1, <1>6, <3>1 DEF RefusedForPlaces
      <4>2. ArityReports(Fn, Targets) = {}
        BY <4>1, ArityFaults
      <4> QED BY <1>6, <4>1, <4>2
    <3> QED BY <3>1
  <2> HIDE DEF R
  <2> QED BY <1>1, <1>2, <1>3, <1>4, <1>6, <2>1
       DEF VerifierInv, Phases, Verdicts, PastSignature, PastLayout, PastDefinitions, PastEntry,
           PastReach, PastDominators
<1> QED BY <1>5, <1>6

LEMMA VerifierStep ==
  ASSUME VerifierInv, VerifierNext
  PROVE  VerifierInv'
BY SignatureStep, LayoutStep, DefinitionsStep, EntryStep, VisitStep, ReachableStep, SweepStep,
   EndSweepStep, UsesStep
   DEF VerifierNext

LEMMA VerifierStart ==
  ASSUME Init
  PROVE  VerifierInv
BY DEF Init, VerifierInit, VerifierInv, Phases, PastSignature, PastLayout, PastDefinitions,
       PastEntry, PastReach, PastDominators, RefusedForPlaces

-----------------------------------------------------------------------------
(* The dominators are those of the definition by paths.                    *)

\* The sweeps end at a fixpoint of which the definition by paths is the greatest:
\* the blocks that a block is not held to dominate are closed, so that they have
\* every block that a path reaches without it.
LEMMA FixpointExact ==
  ASSUME VerifierInv, PastDominators, NEW b \in Blocks(Fn), NEW d \in Blocks(Fn)
  PROVE  d \in dominates[b] <=> DominatesByPaths(Fn, d, b)
<1> DEFINE S == {c \in Blocks(Fn) : d \notin dominates[c]}
<1>1. /\ SignatureReports(Fn) = {} /\ DefinitionReports(Fn) = {} /\ Vectors(Fn)
      /\ Predecessors(Fn, 1) = {} /\ DominatorsKept /\ Solved
  BY FunctionFacts
     DEF VerifierInv, PastSignature, PastLayout, PastDefinitions, PastEntry, PastReach
<1>2. Len(Fn.blocks) \in Nat \ {0} /\ Blocks(Fn) = 1 .. Len(Fn.blocks) /\ 1 \in Blocks(Fn)
  BY <1>1, BlockFacts
<1>3. {1} \ {d} \subseteq S
  BY <1>1, <1>2 DEF DominatorsKept
<1>4. ASSUME NEW a \in S, NEW c \in ToSet(SuccessorsOf(Fn, a)), c # d PROVE c \in S
  <2>1. c \in Blocks(Fn) /\ a \in Predecessors(Fn, c)
    BY <1>1, SuccessorsInside DEF Predecessors
  <2>2. c \in 2 .. Len(Fn.blocks)
    BY <1>1, <1>2, <2>1
  <2>3. d \notin Meet(c)
    BY <1>4, <2>1 DEF Meet
  <2> QED BY <1>1, <2>1, <2>2, <2>3 DEF Solved
<1>5. Closed(Fn, d, S)
  <2> HIDE DEF S
  <2> QED BY <1>4 DEF Closed, Further
<1>6. WithoutBlock(Fn, d) \subseteq S
  <2> HIDE DEF S
  <2> QED BY <1>1, <1>3, <1>5, StepsLeast
<1> QED BY <1>1, <1>6 DEF DominatorsKept, DominatesByPaths

LEMMA UseBlocks ==
  ASSUME NEW fn, NEW targets, NEW b, NEW u \in UsesIn(fn, targets, b)
  PROVE  u.block = b
<1>1. ASSUME NEW k, u \in InstructionUses(fn, targets, b, k) PROVE u.block = b
  <2> DEFINE i == fn.blocks[b].instructions[k]
  <2>1. u \in CallUses(targets, b, k, i) \/ u \in OperandUses(b, k, i)
    BY <1>1 DEF InstructionUses
  <2>2. CASE u \in CallUses(targets, b, k, i)
    <3>1. \E types : u \in {Use(i.uses[n], types[n], b, k) :
             n \in 1 .. IF Len(types) < Len(i.uses) THEN Len(types) ELSE Len(i.uses)}
      BY <2>2 DEF CallUses
    <3> QED BY <3>1 DEF Use, Site
  <2>3. CASE u \in OperandUses(b, k, i)
    BY <2>3 DEF OperandUses, Use, Site
  <2> QED BY <2>1, <2>2, <2>3
<1>2. ASSUME NEW e, u \in EdgeUses(fn, b, e) PROVE u.block = b
  BY <1>2 DEF EdgeUses, Use, Site
<1>3. ASSUME u \in TerminatorUses(fn, b) PROVE u.block = b
  <2> DEFINE t == fn.blocks[b].terminator
             here == Len(fn.blocks[b].instructions) + 1
             edges == ToSet(Edges(t))
             own == CASE t.kind = "branchIfFalse" -> {Use(t.condition, "boolean", b, here)}
                      [] t.kind = "returnValue"   -> {Use(t.value, fn.returnType, b, here)}
                      [] OTHER                    -> {}
  <2>1. TerminatorUses(fn, b) = own \cup (UNION {EdgeUses(fn, b, e) : e \in edges})
    BY DEF TerminatorUses
  <2>2. CASE u \in own
    BY <2>2 DEF Use, Site
  <2>3. CASE \E e \in edges : u \in EdgeUses(fn, b, e)
    BY <1>2, <2>3
  <2> HIDE DEF own, edges
  <2> QED BY <1>3, <2>1, <2>2, <2>3
<1>4. u \in TerminatorUses(fn, b)
      \/ \E k \in DOMAIN fn.blocks[b].instructions : u \in InstructionUses(fn, targets, b, k)
  BY DEF UsesIn
<1> QED BY <1>1, <1>3, <1>4

LEMMA RefusedExact ==
  ASSUME VerifierInv, RefusedForPlaces
  PROVE  \E u \in AllUses : ~DefinedOnEveryPath(u)
<1>1. DefinitionReports(Fn) = {} /\ definitions = DefinitionsIn(Fn) /\ Vectors(Fn)
  BY FunctionFacts
     DEF VerifierInv, PastDefinitions, PastEntry, PastReach, PastDominators
<1>2. PICK u \in AllUses : UseReports(u) # {} /\ UseReports(u) \subseteq PlaceFaults
  BY DEF VerifierInv
<1>3. u.block \in Blocks(Fn)
  BY UseBlocks DEF AllUses
<1>4. u.value \in DOMAIN Fn.valueTypes
  BY <1>2 DEF UseReports, PlaceFaults, ValidValue
<1>5. PICK p \in Places(Fn) :
        /\ definitions[u.value] = SiteAt(Fn, p) /\ SiteAt(Fn, p).value = u.value
        /\ \A q \in Places(Fn) : SiteAt(Fn, q).value = u.value => q = p
  BY <1>1, <1>4, DefinitionPlace
<1> DEFINE site == SiteAt(Fn, p)
<1>6. \/ site.block = u.block /\ ~(site.position < u.position)
      \/ site.block # u.block /\ site.block \notin dominates[u.block]
  BY <1>2, <1>4, <1>5 DEF UseReports, PlaceFaults, ValidValue, Report, Precedes
<1>7. site.block \in Blocks(Fn)
  BY <1>1, PlacesAreNumbers, SitePlace
<1>8. ASSUME DefinedOnEveryPath(u) PROVE FALSE
  <2>1. PICK s \in Sites(Fn) :
          /\ s.value = u.value
          /\ IF s.block = u.block THEN s.position < u.position
             ELSE DominatesByPaths(Fn, s.block, u.block)
    BY <1>8 DEF DefinedOnEveryPath
  <2>2. s = site
    BY <1>5, <2>1 DEF Sites
  <2> HIDE DEF site
  <2>3. PastDominators
    BY DEF PastDominators
  <2> QED BY <1>3, <1>6, <1>7, <2>1, <2>2, <2>3, FixpointExact
<1> QED BY <1>8

LEMMA DominanceFromInv ==
  ASSUME VerifierInv
  PROVE  DominanceExact
<1>1. DominatorsExact
  BY FixpointExact DEF DominatorsExact, PastDominators
<1>2. PlacesRefusedForReason
  BY RefusedExact DEF PlacesRefusedForReason, RefusedForPlaces, PlaceFaults
<1> QED BY <1>1, <1>2 DEF DominanceExact

-----------------------------------------------------------------------------
(* Parameters are counted.                                                 *)

LEMMA ImageFinite ==
  ASSUME NEW S, IsFiniteSet(S), NEW f
  PROVE  IsFiniteSet({f[x] : x \in S})
<1> DEFINE T == {f[x] : x \in S}
           g == [x \in S |-> f[x]]
<1>1. g \in Surjection(S, T)
  BY DEF Surjection
<1> HIDE DEF T, g
<1>2. IsFiniteSet(T)
  BY <1>1, FS_Surjection
<1> QED BY <1>2 DEF T

LEMMA ParametersAreCounted ==
  ASSUME NEW fn, Vectors(fn), NEW b \in Blocks(fn), NEW k
  PROVE  ParametersBefore(fn, b, k) \in Nat
<1> DEFINE Numbers(c) == {n \in DOMAIN fn.blocks[c].instructions :
                            /\ fn.blocks[c].instructions[n].op = "parameter"
                            /\ (c < b \/ n < k)}
           Of(c) == {<<c, j>> : j \in Numbers(c)}
           All == {Of(c) : c \in 1 .. b}
<1>1. b \in Nat /\ 1 .. b \subseteq Blocks(fn) /\ IsFiniteSet(1 .. b)
  <2>1. Len(fn.blocks) \in Nat /\ Blocks(fn) = 1 .. Len(fn.blocks)
    BY VectorFacts DEF Vectors, Blocks
  <2>2. b \in Nat /\ 1 .. b \subseteq Blocks(fn)
    BY <2>1
  <2>3. IsFiniteSet(1 .. b)
    BY <2>2, FS_Interval
  <2> QED BY <2>2, <2>3
<1>2. ASSUME NEW c \in 1 .. b PROVE IsFiniteSet(Of(c))
  <2>1. /\ DOMAIN fn.blocks[c].instructions = 1 .. Len(fn.blocks[c].instructions)
        /\ Len(fn.blocks[c].instructions) \in Nat
    BY <1>1, VectorFacts DEF Vectors, Blocks
  <2>2. IsFiniteSet(DOMAIN fn.blocks[c].instructions)
    BY <2>1, FS_Interval
  <2>3. IsFiniteSet(Numbers(c))
    BY <2>2, FS_Subset
  <2> DEFINE f == [j \in Numbers(c) |-> <<c, j>>]
  <2>4. IsFiniteSet({f[j] : j \in Numbers(c)})
    <3> HIDE DEF Numbers, f
    <3> QED BY <2>3, ImageFinite
  <2>5. Of(c) = {f[j] : j \in Numbers(c)}
    <3> HIDE DEF Numbers
    <3> QED OBVIOUS
  <2> QED BY <2>4, <2>5
<1>3. IsFiniteSet(All)
  <2> DEFINE f == [c \in 1 .. b |-> Of(c)]
  <2>1. IsFiniteSet({f[c] : c \in 1 .. b})
    <3> HIDE DEF Of, f
    <3> QED BY <1>1, ImageFinite
  <2>2. All = {f[c] : c \in 1 .. b}
    <3> HIDE DEF Of
    <3> QED OBVIOUS
  <2> QED BY <2>1, <2>2
<1>4. IsFiniteSet(UNION All)
  <2> HIDE DEF Of
  <2> QED BY <1>2, <1>3, FS_UNION
<1>5. ParametersBefore(fn, b, k) = Cardinality(UNION All)
  BY DEF ParametersBefore
<1> HIDE DEF All
<1> QED BY <1>4, <1>5, FS_CardinalityType

-----------------------------------------------------------------------------
(* What an accepted function computes.                                     *)

LEMMA AcceptedFacts ==
  ASSUME VerifierInv, phase = "accepted"
  PROVE  /\ Vectors(Fn) /\ SignatureReports(Fn) = {} /\ LayoutReports(Fn) = {}
         /\ DefinitionReports(Fn) = {} /\ definitions = DefinitionsIn(Fn)
         /\ Predecessors(Fn, 1) = {} /\ DominatorsKept /\ Solved
         /\ ArityReports(Fn, Targets) = {} /\ \A u \in AllUses : UseReports(u) = {}
         /\ Len(Fn.blocks) \in Nat \ {0} /\ Blocks(Fn) = 1 .. Len(Fn.blocks) /\ 1 \in Blocks(Fn)
<1>1. Vectors(Fn) /\ SignatureReports(Fn) = {}
  BY FunctionFacts
     DEF VerifierInv, PastSignature, PastLayout, PastDefinitions, PastEntry, PastReach,
         PastDominators
<1> QED BY <1>1, BlockFacts
         DEF VerifierInv, PastLayout, PastDefinitions, PastEntry, PastReach, PastDominators

LEMMA CallFacts ==
  ASSUME NEW fn, NEW targets, ArityReports(fn, targets) = {},
         NEW b \in Blocks(fn), NEW k \in DOMAIN fn.blocks[b].instructions
  PROVE  LET i == fn.blocks[b].instructions[k]
             returned == TargetOf(targets, i.callee).returnType
         IN /\ i.op = "callI64" => returned = "i64"
            /\ i.op = "callValue" => returned = fn.valueTypes[i.result]
<1> DEFINE Calls(c) == {j \in ToSet(fn.blocks[c].instructions) : j.op \in CallOps}
           OfCalls(c) == UNION {CallReports(fn, targets, i) : i \in Calls(c)}
           OfEdges(c) == UNION {EdgeReports(fn, e) : e \in ToSet(Edges(fn.blocks[c].terminator))}
           Reported(c) == OfCalls(c) \cup OfEdges(c)
           instruction == fn.blocks[b].instructions[k]
<1>1. UNION {Reported(c) : c \in Blocks(fn)} = {}
  BY DEF ArityReports
<1>2. Reported(b) = {}
  <2> HIDE DEF Reported
  <2> QED BY <1>1
<1>3. OfCalls(b) = {}
  <2> HIDE DEF OfCalls, OfEdges
  <2> QED BY <1>2
<1>4. ASSUME instruction.op \in CallOps PROVE CallReports(fn, targets, instruction) = {}
  <2>1. instruction \in Calls(b)
    BY <1>4 DEF ToSet
  <2> HIDE DEF Calls, instruction
  <2> QED BY <1>3, <2>1
<1>5. ASSUME instruction.op = "callI64"
      PROVE  TargetOf(targets, instruction.callee).returnType = "i64"
  BY <1>4, <1>5 DEF CallReports, CallOps, Report
<1>6. ASSUME instruction.op = "callValue"
      PROVE  TargetOf(targets, instruction.callee).returnType = fn.valueTypes[instruction.result]
  BY <1>4, <1>6 DEF CallReports, CallOps, Report
<1> QED BY <1>5, <1>6

LEMMA EdgeArguments ==
  ASSUME NEW fn, NEW targets, ArityReports(fn, targets) = {},
         NEW b \in Blocks(fn), NEW edge \in ToSet(Edges(fn.blocks[b].terminator))
  PROVE  Len(edge.arguments) = Len(fn.blocks[edge.target].parameters)
<1> DEFINE OfCalls(c) == UNION {CallReports(fn, targets, i) :
                                  i \in {j \in ToSet(fn.blocks[c].instructions) : j.op \in CallOps}}
           Ends(c) == ToSet(Edges(fn.blocks[c].terminator))
           OfEdges(c) == UNION {EdgeReports(fn, e) : e \in Ends(c)}
           Reported(c) == OfCalls(c) \cup OfEdges(c)
<1>1. UNION {Reported(c) : c \in Blocks(fn)} = {}
  BY DEF ArityReports
<1>2. Reported(b) = {}
  <2> HIDE DEF Reported
  <2> QED BY <1>1
<1>3. OfEdges(b) = {}
  <2> HIDE DEF OfCalls, OfEdges
  <2> QED BY <1>2
<1>4. EdgeReports(fn, edge) = {}
  <2>1. edge \in Ends(b)
    OBVIOUS
  <2> HIDE DEF Ends
  <2> QED BY <1>3, <2>1
<1> QED BY <1>4 DEF EdgeReports, Report

\* An instruction computes a value of the type that the table gives its result,
\* and is the one definition of that value.
LEMMA InstructionFacts ==
  ASSUME VerifierInv, phase = "accepted",
         NEW b \in Blocks(Fn), NEW k \in DOMAIN Fn.blocks[b].instructions,
         Fn.blocks[b].instructions[k].op # "callVoid"
  PROVE  LET i == Fn.blocks[b].instructions[k]
         IN /\ <<b, k, 0>> \in Places(Fn) /\ SiteAt(Fn, <<b, k, 0>>).value = i.result
            /\ SiteAt(Fn, <<b, k, 0>>).block = b /\ SiteAt(Fn, <<b, k, 0>>).position = k
            /\ Computed(i) = Fn.valueTypes[i.result]
<1> DEFINE i == Fn.blocks[b].instructions[k]
           p == <<b, k, 0>>
<1>1. /\ Vectors(Fn) /\ DefinitionReports(Fn) = {} /\ ArityReports(Fn, Targets) = {}
      /\ InstructionReports(Fn, b, k) = {}
  BY AcceptedFacts, BodyFacts
<1>2. /\ k \in Nat \ {0} /\ ParametersBefore(Fn, b, k) \in Nat
      /\ Len(Fn.parameterTypes) \in Nat /\ DOMAIN Fn.parameterTypes = 1 .. Len(Fn.parameterTypes)
  <2>1. /\ DOMAIN Fn.blocks[b].instructions = 1 .. Len(Fn.blocks[b].instructions)
        /\ Len(Fn.blocks[b].instructions) \in Nat
    BY <1>1, VectorFacts DEF Vectors, Blocks
  <2>2. Len(Fn.parameterTypes) \in Nat /\ DOMAIN Fn.parameterTypes = 1 .. Len(Fn.parameterTypes)
    BY <1>1, VectorFacts DEF Vectors
  <2> QED BY <1>1, <2>1, <2>2, ParametersAreCounted
<1>3. Defines(Fn, i)
  BY <1>1 DEF InstructionReports, Defines, CallOps, Report
<1>4. p \in Places(Fn)
  BY <1>3 DEF Places, CodePlaces
<1>5. /\ SiteAt(Fn, p).value = i.result /\ SiteAt(Fn, p).type = DefinedType(Fn, b, k)
      /\ SiteAt(Fn, p).block = b /\ SiteAt(Fn, p).position = k
  BY <1>2 DEF SiteAt, Site
<1>6. Fn.valueTypes[i.result] = DefinedType(Fn, b, k)
  BY <1>1, <1>4, <1>5, PlaceFacts
<1>7. Computed(i) = DefinedType(Fn, b, k)
  <2>1. CASE i.op = "parameter"
    <3>1. CanonicalParameter(Fn, b, k)
      BY <1>1, <2>1 DEF InstructionReports, Report, CallOps
    <3> QED BY <1>2, <2>1, <3>1 DEF CanonicalParameter, DefinedType, Computed, CallOps
  <2>2. CASE i.op = "compare"
    BY <2>2 DEF DefinedType, Computed, CallOps
  <2>3. CASE i.op = "callI64"
    BY <1>1, <2>3, CallFacts DEF DefinedType, Computed, CallOps
  <2>4. CASE i.op = "callValue"
    BY <1>1, <2>4, CallFacts DEF DefinedType, Computed, CallOps
  <2>5. CASE i.op \notin {"parameter", "compare", "callI64", "callValue"}
    BY <2>5 DEF DefinedType, Computed, CallOps
  <2> QED BY <2>1, <2>2, <2>3, <2>4, <2>5
<1> QED BY <1>4, <1>5, <1>6, <1>7

\* A value is defined by a parameter of a block or by an instruction.
LEMMA DefinitionCases ==
  ASSUME VerifierInv, phase = "accepted", NEW v \in DOMAIN Fn.valueTypes
  PROVE  LET site == definitions[v]
             block == Fn.blocks[site.block]
         IN /\ site.block \in Blocks(Fn)
            /\ \/ site.position = 0 /\ \E n \in DOMAIN block.parameters : block.parameters[n].value = v
               \/ /\ site.position \in 1 .. Len(block.instructions)
                  /\ block.instructions[site.position].result = v
                  /\ block.instructions[site.position].op # "callVoid"
<1>1. Vectors(Fn) /\ DefinitionReports(Fn) = {} /\ definitions = DefinitionsIn(Fn)
  BY AcceptedFacts
<1>2. PICK p \in Places(Fn) : definitions[v] = SiteAt(Fn, p) /\ SiteAt(Fn, p).value = v
  BY <1>1, DefinitionPlace
<1>3. /\ definitions[v].block = p[1] /\ p[1] \in Blocks(Fn)
      /\ definitions[v].position = IF p[2] = 0 THEN 0 ELSE p[2]
  BY <1>1, <1>2, PlacesAreNumbers, SitePlace
<1>4. CASE p \in ParameterPlaces(Fn, p[1]) /\ p[2] = 0
  <2>1. PICK n \in DOMAIN Fn.blocks[p[1]].parameters : p = <<p[1], 0, n>>
    BY <1>4 DEF ParameterPlaces
  <2>2. Fn.blocks[p[1]].parameters[n].value = v
    BY <1>2, <1>4, <2>1 DEF SiteAt, Site
  <2> QED BY <1>3, <1>4, <2>2
<1>5. CASE p \in CodePlaces(Fn, p[1]) /\ p[2] \in 1 .. Len(Fn.blocks[p[1]].instructions)
  <2>1. p[2] # 0 /\ Defines(Fn, Fn.blocks[p[1]].instructions[p[2]])
    BY <1>5 DEF CodePlaces
  <2>2. Fn.blocks[p[1]].instructions[p[2]].result = v
    BY <1>2, <2>1 DEF SiteAt, Site
  <2> QED BY <1>3, <1>5, <2>1, <2>2 DEF Defines
<1> QED BY <1>1, <1>4, <1>5, PlacesAreNumbers

LEMMA ParameterFacts ==
  ASSUME VerifierInv, phase = "accepted",
         NEW b \in Blocks(Fn), NEW n \in DOMAIN Fn.blocks[b].parameters
  PROVE  LET parameter == Fn.blocks[b].parameters[n]
         IN /\ parameter.value \in DOMAIN Fn.valueTypes
            /\ Fn.valueTypes[parameter.value] = parameter.type
            /\ definitions[parameter.value].block = b
            /\ definitions[parameter.value].position = 0
<1> DEFINE p == <<b, 0, n>>
<1>1. Vectors(Fn) /\ DefinitionReports(Fn) = {} /\ definitions = DefinitionsIn(Fn)
  BY AcceptedFacts
<1>2. p \in Places(Fn)
  BY DEF Places, ParameterPlaces
<1>3. /\ SiteAt(Fn, p).value = Fn.blocks[b].parameters[n].value
      /\ SiteAt(Fn, p).type = Fn.blocks[b].parameters[n].type
      /\ SiteAt(Fn, p).block = b /\ SiteAt(Fn, p).position = 0
  BY DEF SiteAt, Site
<1> HIDE DEF p
<1> QED BY <1>1, <1>2, <1>3, PlaceFacts, DefinitionsFacts

LEMMA ResultFacts ==
  ASSUME VerifierInv, phase = "accepted",
         NEW b \in Blocks(Fn), NEW k \in DOMAIN Fn.blocks[b].instructions,
         Fn.blocks[b].instructions[k].op # "callVoid"
  PROVE  LET i == Fn.blocks[b].instructions[k]
         IN /\ i.result \in DOMAIN Fn.valueTypes
            /\ definitions[i.result].block = b /\ definitions[i.result].position = k
            /\ Computed(i) = Fn.valueTypes[i.result]
<1> DEFINE p == <<b, k, 0>>
<1>1. Vectors(Fn) /\ DefinitionReports(Fn) = {} /\ definitions = DefinitionsIn(Fn)
  BY AcceptedFacts
<1>2. /\ p \in Places(Fn) /\ SiteAt(Fn, p).value = Fn.blocks[b].instructions[k].result
      /\ SiteAt(Fn, p).block = b /\ SiteAt(Fn, p).position = k
      /\ Computed(Fn.blocks[b].instructions[k]) = Fn.valueTypes[Fn.blocks[b].instructions[k].result]
  BY InstructionFacts
<1> HIDE DEF p
<1> QED BY <1>1, <1>2, PlaceFacts, DefinitionsFacts

\* A use of the running block, at the place of execution, has its value.
LEMMA UseReady ==
  ASSUME SsaInv, Started, NEW u \in UsesIn(Fn, Targets, at.block), u.position = at.position
  PROVE  u.value \in DOMAIN Fn.valueTypes /\ env[u.value] = u.type /\ Fn.valueTypes[u.value] = u.type
<1>1. /\ VerifierInv /\ phase = "accepted" /\ at.block \in Blocks(Fn)
      /\ \A v \in DOMAIN Fn.valueTypes : Available(v) => env[v] = Fn.valueTypes[v]
  BY DEF SsaInv, MachineInv
<1>2. UseReports(u) = {}
  <2>1. u \in AllUses
    BY <1>1 DEF AllUses
  <2> QED BY <1>1, <2>1, AcceptedFacts
<1>3. u.block = at.block
  BY UseBlocks
<1>4. u.value \in DOMAIN Fn.valueTypes /\ Fn.valueTypes[u.value] = u.type
  BY <1>2 DEF UseReports, ValidValue, Report
<1>5. Available(u.value)
  BY <1>2, <1>3, <1>4 DEF UseReports, ValidValue, Report, Precedes, Available
<1> QED BY <1>1, <1>4, <1>5

-----------------------------------------------------------------------------
(* The steps of the execution.                                             *)

LEMMA VerifyStep ==
  ASSUME SsaInv, Verify
  PROVE  SsaInv'
<1>1. VerifierInv'
  BY VerifierStep DEF SsaInv, Verify
<1>2. phase # "accepted"
  BY DEF Verify, VerifierNext, CheckSignature, CheckLayout, CheckDefinitions, CheckEntry,
         VisitBlock, CheckReachable, SweepBlock, EndSweep, CheckUses, Check
<1>3. MachineInv'
  BY <1>2 DEF SsaInv, MachineInv, Started, Verify
<1> QED BY <1>1, <1>3 DEF SsaInv

\* Outside the verifier its state stays.
LEMMA VerifierUnchanged ==
  ASSUME VerifierInv, UNCHANGED verifierVars
  PROVE  /\ VerifierInv' /\ Fn' = Fn /\ Targets' = Targets
         /\ phase' = phase /\ definitions' = definitions /\ dominates' = dominates
<1>1. /\ function' = function /\ phase' = phase /\ definitions' = definitions
      /\ dominates' = dominates /\ sweep' = sweep /\ reports' = reports
  BY DEF verifierVars
<1>2. Fn' = Fn /\ Targets' = Targets
  BY <1>1 DEF Fn, Targets
<1>3. AllUses' = AllUses /\ (\A u : UseReports(u)' = UseReports(u)) /\ (\A b : Meet(b)' = Meet(b))
  BY <1>1, <1>2 DEF AllUses, UseReports, Meet
<1>4. /\ DominatorsKept' = DominatorsKept /\ SweepSolves' = SweepSolves /\ Solved' = Solved
      /\ RefusedForPlaces' = RefusedForPlaces
  BY <1>1, <1>2, <1>3 DEF DominatorsKept, SweepSolves, Solved, RefusedForPlaces
<1>5. VerifierInv'
  BY <1>1, <1>2, <1>3, <1>4
     DEF VerifierInv, PastSignature, PastLayout, PastDefinitions, PastEntry, PastReach,
         PastDominators
<1> QED BY <1>1, <1>2, <1>5

LEMMA EnterStep ==
  ASSUME SsaInv, Enter
  PROVE  SsaInv'
<1>1. /\ VerifierInv' /\ Fn' = Fn /\ Targets' = Targets
      /\ phase' = phase /\ definitions' = definitions /\ dominates' = dominates
  BY VerifierUnchanged DEF SsaInv, Enter
<1>2. /\ VerifierInv /\ phase = "accepted" /\ at' = [block |-> 1, position |-> 1]
      /\ env' = [v \in DOMAIN Fn.valueTypes |-> "undefined"]
  BY DEF SsaInv, Enter
<1>3. /\ 1 \in Blocks(Fn) /\ LayoutReports(Fn) = {} /\ DominatorsKept
  BY <1>2, AcceptedFacts
<1>4. DOMAIN Fn.blocks[1].parameters = {}
  <2>1. Fn.blocks[1].parameters = <<>>
    BY <1>3 DEF LayoutReports, Report
  <2>2. DOMAIN <<>> = {}
    OBVIOUS
  <2> QED BY <2>1, <2>2
<1>5. ASSUME NEW v \in DOMAIN Fn.valueTypes, Available(v)' PROVE FALSE
  <2> DEFINE site == definitions[v]
  <2>1. /\ site.block \in Blocks(Fn)
        /\ \/ site.position = 0
              /\ \E n \in DOMAIN Fn.blocks[site.block].parameters :
                   Fn.blocks[site.block].parameters[n].value = v
           \/ site.position \in 1 .. Len(Fn.blocks[site.block].instructions)
    BY <1>2, DefinitionCases
  <2>2. IF site.block = 1 THEN site.position < 1 ELSE site.block \in dominates[1]
    BY <1>1, <1>2, <1>5 DEF Available
  <2> HIDE DEF site
  <2> QED BY <1>3, <1>4, <2>1, <2>2 DEF DominatorsKept
<1>6. MachineInv'
  BY <1>1, <1>2, <1>3, <1>5 DEF MachineInv
<1> QED BY <1>1, <1>6 DEF SsaInv

LEMMA ExecuteStep ==
  ASSUME SsaInv, Execute
  PROVE  SsaInv'
<1> DEFINE b == at.block
           k == at.position
           i == Fn.blocks[b].instructions[k]
<1>1. /\ VerifierInv' /\ Fn' = Fn /\ Targets' = Targets
      /\ phase' = phase /\ definitions' = definitions /\ dominates' = dominates
  BY VerifierUnchanged DEF SsaInv, Execute
<1>2. /\ VerifierInv /\ phase = "accepted" /\ b \in Blocks(Fn) /\ k \in Nat
      /\ DOMAIN env = DOMAIN Fn.valueTypes
      /\ \A v \in DOMAIN Fn.valueTypes : Available(v) => env[v] = Fn.valueTypes[v]
  BY DEF SsaInv, MachineInv, Execute
<1>3. /\ k \in DOMAIN Fn.blocks[b].instructions
      /\ at' = [at EXCEPT !.position = @ + 1]
      /\ env' = IF i.op = "callVoid" THEN env ELSE [env EXCEPT ![i.result] = Computed(i)]
  BY DEF Execute, Code
<1>4. at'.block = b /\ at'.position = k + 1 /\ at' \in [block : Blocks(Fn), position : Nat]
  <2>1. at \in [block : Blocks(Fn), position : Nat]
    BY DEF SsaInv, MachineInv, Execute
  <2> QED BY <1>3, <2>1
<1>5. i.op # "callVoid" =>
        /\ i.result \in DOMAIN Fn.valueTypes /\ Computed(i) = Fn.valueTypes[i.result]
  <2>1. k \in DOMAIN Fn.blocks[b].instructions
    BY <1>3
  <2> HIDE DEF b, k
  <2> QED BY <1>2, <2>1, ResultFacts
<1>6. DOMAIN env' = DOMAIN Fn.valueTypes
  BY <1>2, <1>3
<1>7. ASSUME NEW v \in DOMAIN Fn.valueTypes, Available(v)' PROVE env'[v] = Fn.valueTypes[v]
  <2> DEFINE site == definitions[v]
  <2>1. IF site.block = b THEN site.position < k + 1 ELSE site.block \in dominates[b]
    BY <1>1, <1>4, <1>7 DEF Available
  <2>2. \/ site.position = 0
        \/ /\ site.position \in 1 .. Len(Fn.blocks[site.block].instructions)
           /\ Fn.blocks[site.block].instructions[site.position].result = v
           /\ Fn.blocks[site.block].instructions[site.position].op # "callVoid"
    BY <1>2, DefinitionCases
  <2>3. CASE i.op # "callVoid" /\ i.result = v
    <3> HIDE DEF i
    <3> QED BY <1>2, <1>3, <1>5, <2>3
  <2>4. CASE ~(i.op # "callVoid" /\ i.result = v)
    <3>1. ~(site.block = b /\ site.position = k)
      <4>1. ASSUME site.block = b, site.position = k PROVE k # 0
        <5>1. Len(Fn.blocks[b].instructions) \in Nat
              /\ DOMAIN Fn.blocks[b].instructions = 1 .. Len(Fn.blocks[b].instructions)
          BY <1>2, AcceptedFacts, VectorFacts DEF Vectors, Blocks
        <5> QED BY <1>3, <5>1
      <4> QED BY <2>2, <2>4, <4>1
    <3>2. site.position \in Nat
      <4>1. Len(Fn.blocks[site.block].instructions) \in Nat
        BY <1>2, DefinitionCases, AcceptedFacts, VectorFacts DEF Vectors, Blocks
      <4> HIDE DEF site
      <4> QED BY <2>2, <4>1
    <3>3. IF site.block = b THEN site.position < k ELSE site.block \in dominates[b]
      <4> HIDE DEF site, k, b
      <4> QED BY <1>2, <2>1, <3>1, <3>2
    <3>4. env[v] = Fn.valueTypes[v]
      BY <1>2, <3>3 DEF Available
    <3>5. env'[v] = env[v]
      <4> HIDE DEF i
      <4> QED BY <1>2, <1>3, <2>4
    <3> QED BY <3>4, <3>5
  <2> QED BY <2>3, <2>4
<1>8. MachineInv'
  BY <1>1, <1>2, <1>4, <1>6, <1>7 DEF MachineInv
<1> QED BY <1>1, <1>8 DEF SsaInv

\* Every position of a definition is before the end of its block.
LEMMA PositionFacts ==
  ASSUME VerifierInv, phase = "accepted", NEW v \in DOMAIN Fn.valueTypes
  PROVE  LET site == definitions[v]
         IN /\ site.block \in Blocks(Fn) /\ site.position \in Nat
            /\ Len(Fn.blocks[site.block].instructions) \in Nat
            /\ site.position < Len(Fn.blocks[site.block].instructions) + 1
<1> DEFINE site == definitions[v]
<1>1. /\ site.block \in Blocks(Fn)
      /\ site.position = 0 \/ site.position \in 1 .. Len(Fn.blocks[site.block].instructions)
  BY DefinitionCases
<1>2. Len(Fn.blocks[site.block].instructions) \in Nat
  BY <1>1, AcceptedFacts, VectorFacts DEF Vectors, Blocks
<1> HIDE DEF site
<1>3. site.position \in Nat /\ site.position < Len(Fn.blocks[site.block].instructions) + 1
  BY <1>1, <1>2
<1> QED BY <1>1, <1>2, <1>3 DEF site

\* The argument of an edge for a parameter of its target.
LEMMA ArgumentReady ==
  ASSUME SsaInv, Started, at.position = Len(Code) + 1,
         NEW edge \in ToSet(Edges(Fn.blocks[at.block].terminator)),
         NEW n \in DOMAIN Fn.blocks[edge.target].parameters
  PROVE  env[edge.arguments[n]] = Fn.blocks[edge.target].parameters[n].type
<1> DEFINE b == at.block
           parameters == Fn.blocks[edge.target].parameters
           u == Use(edge.arguments[n], parameters[n].type, b, Len(Fn.blocks[b].instructions) + 1)
<1>1. /\ VerifierInv /\ phase = "accepted" /\ b \in Blocks(Fn)
      /\ at.position = Len(Fn.blocks[b].instructions) + 1
  BY DEF SsaInv, MachineInv, Code
<1>2. /\ Vectors(Fn) /\ DefinitionReports(Fn) = {} /\ ArityReports(Fn, Targets) = {}
  BY <1>1, AcceptedFacts
<1>3. edge.target \in Blocks(Fn)
  BY <1>1, <1>2, EdgesFacts
<1>4. DOMAIN parameters = 1 .. Len(parameters) /\ Len(parameters) \in Nat
  BY <1>2, <1>3, VectorFacts DEF Vectors, Blocks
<1>5. Len(edge.arguments) = Len(parameters)
  BY <1>1, <1>2, EdgeArguments
<1>6. u \in EdgeUses(Fn, b, edge)
  <2> DEFINE count == IF Len(parameters) < Len(edge.arguments) THEN Len(parameters)
                      ELSE Len(edge.arguments)
  <2>1. n \in 1 .. count
    BY <1>4, <1>5
  <2>2. EdgeUses(Fn, b, edge) =
          {Use(edge.arguments[m], parameters[m].type, b, Len(Fn.blocks[b].instructions) + 1) :
             m \in 1 .. count}
    BY DEF EdgeUses
  <2> HIDE DEF count, parameters
  <2> QED BY <2>1, <2>2
<1>7. u \in UsesIn(Fn, Targets, b)
  <2> DEFINE edges == ToSet(Edges(Fn.blocks[b].terminator))
  <2>1. (UNION {EdgeUses(Fn, b, e) : e \in edges}) \subseteq TerminatorUses(Fn, b)
    BY DEF TerminatorUses
  <2>2. u \in UNION {EdgeUses(Fn, b, e) : e \in edges}
    <3>1. edge \in edges
      OBVIOUS
    <3> HIDE DEF edges, u
    <3> QED BY <1>6, <3>1
  <2>3. TerminatorUses(Fn, b) \subseteq UsesIn(Fn, Targets, b)
    BY DEF UsesIn
  <2> HIDE DEF edges, u
  <2> QED BY <2>1, <2>2, <2>3
<1>8. u.value = edge.arguments[n] /\ u.type = parameters[n].type /\ u.position = at.position
  BY <1>1 DEF Use, Site
<1> HIDE DEF u, parameters
<1>9. env[u.value] = u.type
  BY <1>7, <1>8, UseReady
<1> QED BY <1>8, <1>9 DEF parameters

\* The values after an edge.
Passed(edge) ==
  LET parameters == Fn.blocks[edge.target].parameters
      Number(v) == CHOOSE n \in DOMAIN parameters : parameters[n].value = v
  IN [v \in DOMAIN env |->
        IF \E n \in DOMAIN parameters : parameters[n].value = v
        THEN env[edge.arguments[Number(v)]] ELSE env[v]]

LEMMA FollowStep ==
  ASSUME SsaInv, Started, at.position = Len(Code) + 1, UNCHANGED verifierVars,
         NEW edge \in ToSet(Edges(Fn.blocks[at.block].terminator)),
         at' = [block |-> edge.target, position |-> 1],
         env' = Passed(edge)
  PROVE  SsaInv'
<1> DEFINE b == at.block
           c == edge.target
           parameters == Fn.blocks[c].parameters
           IsParameter(v) == \E n \in DOMAIN parameters : parameters[n].value = v
           Number(v) == CHOOSE n \in DOMAIN parameters : parameters[n].value = v
<1>1. /\ VerifierInv' /\ Fn' = Fn /\ Targets' = Targets
      /\ phase' = phase /\ definitions' = definitions /\ dominates' = dominates
  BY VerifierUnchanged DEF SsaInv
<1>2. /\ VerifierInv /\ phase = "accepted" /\ b \in Blocks(Fn)
      /\ at.position = Len(Fn.blocks[b].instructions) + 1
      /\ DOMAIN env = DOMAIN Fn.valueTypes
      /\ \A v \in DOMAIN Fn.valueTypes : Available(v) => env[v] = Fn.valueTypes[v]
  BY DEF SsaInv, MachineInv, Code
<1>3. /\ Vectors(Fn) /\ DefinitionReports(Fn) = {} /\ Predecessors(Fn, 1) = {}
      /\ DominatorsKept /\ Solved
      /\ Len(Fn.blocks) \in Nat \ {0} /\ Blocks(Fn) = 1 .. Len(Fn.blocks)
  BY <1>2, AcceptedFacts
<1>4. c \in Blocks(Fn) /\ b \in Predecessors(Fn, c)
  <2>1. c \in ToSet(SuccessorsOf(Fn, b))
    BY SuccessorFacts
  <2> QED BY <1>2, <1>3, <2>1, EdgesFacts DEF Predecessors
<1>5. dominates[c] = Meet(c)
  <2>1. c # 1
    BY <1>3, <1>4
  <2> HIDE DEF c
  <2>2. c \in 2 .. Len(Fn.blocks)
    BY <1>3, <1>4, <2>1
  <2> QED BY <1>3, <2>2 DEF Solved
<1>6. DOMAIN env' = DOMAIN Fn.valueTypes
  BY <1>2 DEF Passed
<1>7. ASSUME NEW v \in DOMAIN Fn.valueTypes
      PROVE  env'[v] = IF IsParameter(v) THEN env[edge.arguments[Number(v)]] ELSE env[v]
  BY <1>2 DEF Passed
<1>8. ASSUME NEW v \in DOMAIN Fn.valueTypes, IsParameter(v) PROVE env'[v] = Fn.valueTypes[v]
  <2>1. Number(v) \in DOMAIN parameters /\ parameters[Number(v)].value = v
    BY <1>8
  <2> DEFINE n == Number(v)
  <2> HIDE DEF n
  <2>2. n \in DOMAIN parameters /\ parameters[n].value = v
    BY <2>1 DEF n
  <2>3. env[edge.arguments[n]] = parameters[n].type
    BY <2>2, ArgumentReady
  <2>4. parameters[n].type = Fn.valueTypes[v]
    BY <1>2, <1>4, <2>2, ParameterFacts
  <2>5. env'[v] = env[edge.arguments[n]]
    BY <1>7, <1>8 DEF n
  <2> QED BY <2>3, <2>4, <2>5
<1>9. ASSUME NEW v \in DOMAIN Fn.valueTypes, ~IsParameter(v), Available(v)'
      PROVE  env'[v] = Fn.valueTypes[v]
  <2> DEFINE site == definitions[v]
  <2>1. IF site.block = c THEN site.position < 1 ELSE site.block \in dominates[c]
    BY <1>1, <1>9 DEF Available
  <2>2. /\ site.block \in Blocks(Fn) /\ site.position \in Nat
        /\ site.position < Len(Fn.blocks[site.block].instructions) + 1
    BY <1>2, PositionFacts
  <2>3. site.block = c => site.position # 0
    <3>1. \/ site.position = 0 /\ \E n \in DOMAIN Fn.blocks[site.block].parameters :
                                    Fn.blocks[site.block].parameters[n].value = v
          \/ site.position \in 1 .. Len(Fn.blocks[site.block].instructions)
      BY <1>2, DefinitionCases
    <3>2. ASSUME site.block = c, site.position = 0 PROVE FALSE
      <4>1. 0 \notin 1 .. Len(Fn.blocks[c].instructions)
        <5>1. Len(Fn.blocks[c].instructions) \in Nat
          BY <1>3, <1>4, VectorFacts DEF Vectors, Blocks
        <5>2. \A m \in Nat : 0 \notin 1 .. m
          OBVIOUS
        <5> QED BY <5>1, <5>2
      <4> QED BY <1>9, <3>1, <3>2, <4>1
    <3> QED BY <3>2
  <2>4. site.block # c /\ site.block \in dominates[c]
    <3>1. \A m \in Nat : m < 1 => m = 0
      OBVIOUS
    <3> HIDE DEF site, c
    <3> QED BY <2>1, <2>2, <2>3, <3>1
  <2>5. site.block \in dominates[b]
    BY <1>4, <1>5, <2>4 DEF Meet
  <2>6. Available(v)
    BY <1>2, <2>2, <2>5 DEF Available
  <2>7. env'[v] = env[v]
    BY <1>7, <1>9
  <2> QED BY <1>2, <2>6, <2>7
<1>10. MachineInv'
  <2>1. at' \in [block : Blocks(Fn), position : Nat]
    BY <1>4
  <2>2. \A v \in DOMAIN Fn.valueTypes : Available(v)' => env'[v] = Fn.valueTypes[v]
    <3> HIDE DEF IsParameter
    <3> QED BY <1>8, <1>9
  <2> QED BY <1>1, <1>2, <1>6, <2>1, <2>2 DEF MachineInv
<1> QED BY <1>1, <1>10 DEF SsaInv

LEMMA ReturnStep ==
  ASSUME SsaInv, Started, at.position = Len(Code) + 1, UNCHANGED verifierVars,
         at' = [at EXCEPT !.position = @ + 1], env' = env
  PROVE  SsaInv'
<1>1. /\ VerifierInv' /\ Fn' = Fn /\ phase' = phase
      /\ definitions' = definitions /\ dominates' = dominates
  BY VerifierUnchanged DEF SsaInv
<1>2. /\ VerifierInv /\ phase = "accepted" /\ at \in [block : Blocks(Fn), position : Nat]
      /\ at.position = Len(Fn.blocks[at.block].instructions) + 1
      /\ DOMAIN env = DOMAIN Fn.valueTypes
      /\ \A v \in DOMAIN Fn.valueTypes : Available(v) => env[v] = Fn.valueTypes[v]
  BY DEF SsaInv, MachineInv, Code
<1>3. /\ at' \in [block : Blocks(Fn), position : Nat] /\ at'.block = at.block
  BY <1>2
<1>4. ASSUME NEW v \in DOMAIN Fn.valueTypes, Available(v)' PROVE Available(v)
  BY <1>1, <1>2, <1>3, <1>4, PositionFacts DEF Available
<1>5. MachineInv'
  BY <1>1, <1>2, <1>3, <1>4 DEF MachineInv
<1> QED BY <1>1, <1>5 DEF SsaInv

LEMMA LeaveStep ==
  ASSUME SsaInv, Leave
  PROVE  SsaInv'
<1>1. CASE \E edge \in ToSet(Edges(Fn.blocks[at.block].terminator)) :
             /\ at' = [block |-> edge.target, position |-> 1]
             /\ env' = Passed(edge)
  BY <1>1, FollowStep DEF Leave
<1>2. CASE at' = [at EXCEPT !.position = @ + 1] /\ env' = env
  BY <1>2, ReturnStep DEF Leave
<1> QED BY <1>1, <1>2 DEF Leave, Passed

-----------------------------------------------------------------------------
(* The theorems.                                                           *)

LEMMA SsaInductive == Spec => []SsaInv
<1>1. Init => SsaInv
  <2>1. Init => MachineInv
    BY DEF Init, MachineInv, Started
  <2> QED BY <2>1, VerifierStart DEF SsaInv
<1>2. SsaInv /\ [Next]_vars => SsaInv'
  <2>1. ASSUME SsaInv, UNCHANGED vars PROVE SsaInv'
    <3>1. /\ VerifierInv' /\ Fn' = Fn /\ phase' = phase /\ definitions' = definitions
          /\ dominates' = dominates /\ at' = at /\ env' = env
      BY <2>1, VerifierUnchanged DEF SsaInv, vars
    <3>2. MachineInv'
      BY <2>1, <3>1 DEF SsaInv, MachineInv, Started, Available
    <3> QED BY <3>1, <3>2 DEF SsaInv
  <2> QED BY <2>1, VerifyStep, EnterStep, ExecuteStep, LeaveStep DEF Next
<1> QED BY <1>1, <1>2, PTL DEF Spec

\* ssa::Verifier's dominators, when it comes to the uses, are those of the definition
\* by paths, and a function that it refuses for the places of its uses alone has a
\* use that a path reaches undefined.
THEOREM DominatorsByPaths == Spec => []DominanceExact
<1>1. SsaInv => DominanceExact
  BY DominanceFromInv DEF SsaInv
<1> QED BY <1>1, SsaInductive, PTL

\* A function that ssa::Verifier accepts never reads a value before it is defined on
\* the way taken, nor as another type than it has.
THEOREM AcceptedReadsAreDefined == Spec => []ReadsAreDefined
<1>1. SsaInv => ReadsAreDefined
  BY UseReady DEF ReadsAreDefined
<1> QED BY <1>1, SsaInductive, PTL
=============================================================================
