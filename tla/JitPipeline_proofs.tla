------------------------- MODULE JitPipeline_proofs -------------------------
(***************************************************************************)
(* Proofs about JitPipeline, for every set of programs, every width of the *)
(* words and every number of calls: at a call the machine code has an      *)
(* aligned stack with four slots for the callee, and at its return the     *)
(* stack and the registers are those of the caller.  The proof goes from   *)
(* the machine to the layout of the code, from there to what the compiler  *)
(* emits for each instruction, and from there to the shape of the IR that  *)
(* the lowering and the four passes hand over.  The last part is about     *)
(* that IR itself: the passes keep it verified.                            *)
(***************************************************************************)
EXTENDS JitPipeline, TLAPS, SequenceTheorems, FiniteSetTheorems, WellFoundedInduction

-----------------------------------------------------------------------------
(* Induction over an interval of numbers.                                  *)

\* The order by which the induction goes.
LessThan == {s \in Nat \X Nat : s[1] < s[2]}

LEMMA LessThanWellFounded == IsWellFoundedOn(LessThan, Nat)
BY NatLessThanWellFounded DEF OpToRel, LessThan

\* A set of natural numbers has a least element.
LEMMA LeastNatural ==
  ASSUME NEW T, T \subseteq Nat, T # {}
  PROVE  \E x \in T : \A y \in T : x <= y
<1>1. PICK x \in T : \A y \in T : <<y, x>> \notin LessThan
  BY LessThanWellFounded, WFMin
<1>2. ASSUME NEW y \in T, y < x PROVE FALSE
  <2>1. <<y, x>> \in LessThan
    BY <1>2 DEF LessThan
  <2> QED BY <1>1, <2>1
<1> QED BY <1>1, <1>2

\* A set that has the first number of an interval, and with each number the
\* next one up to the last, has all of them.
LEMMA IntervalInduction ==
  ASSUME NEW m \in Nat, NEW n \in Nat, NEW S,
         m \in S,
         \A k \in m .. n - 1 : k \in S => k + 1 \in S
  PROVE  m .. n \subseteq S
<1> DEFINE T == (m .. n) \ S
<1> SUFFICES ASSUME T # {} PROVE FALSE
  OBVIOUS
<1>1. PICK x \in T : \A y \in T : x <= y
  <2>1. T \subseteq Nat
    OBVIOUS
  <2> QED BY <2>1, LeastNatural
<1>2. x \in m + 1 .. n /\ x - 1 \in m .. n - 1
  OBVIOUS
<1>3. x - 1 \in S
  BY <1>1, <1>2
<1> QED BY <1>2, <1>3

-----------------------------------------------------------------------------
(* The machine: what an instruction does to the stack.                     *)

\* What lies on the stack when the prologue has pushed its registers.
Saved == <<ReturnAddress, CallerValue.rbx, CallerValue.r12, CallerValue.r13, CallerValue.r14>>

\* The registers that an epilogue has restored when its part j is next.
Restored(j) ==
  CASE j = 2 -> {}
    [] j = 3 -> {"r14"}
    [] j = 4 -> {"r14", "r13"}
    [] j = 5 -> {"r14", "r13", "r12"}
    [] j = 6 -> CalleeSaved

\* An instruction between the prologue and an epilogue.
Body(i) ==
  /\ i.op \notin {"push", "pop", "grow", "shrink", "ret"}
  /\ i.op = "store" /\ i.to = "rsp" => i.n = CallArea

\* A state of the processor has the members of NativeState that the proofs name.
Processor(m) ==
  /\ {"pc", "regs", "stack"} \subseteq DOMAIN m
  /\ CalleeSaved \subseteq DOMAIN m.regs

\* The stack while a function runs: what the prologue saved, the slot that aligns
\* it or holds the result of a call, and the four slots for the callee.
Framed(stack) ==
  /\ DOMAIN stack = 1 .. 10 /\ stack = [k \in 1 .. 10 |-> stack[k]]
  /\ \A k \in 1 .. 5 : stack[k] = Saved[k]
  /\ \A k \in 7 .. 10 : stack[k] = Unknown

\* These registers hold what the caller left in them.
Kept(m, R) == \A r \in R : m.regs[r] = CallerValue[r]

LEMMA SavedLength ==
  Len(Saved) = 5 /\ DOMAIN Saved = 1 .. 5 /\ Saved \in Seq({Saved[k] : k \in 1 .. 5})
BY DEF Saved

\* With nothing pushed there is the return address only.
LEMMA SavedFirst == SubSeq(Saved, 1, 1) = <<ReturnAddress>>
<1>1. Saved[1] = ReturnAddress
  BY DEF Saved
<1>2. SubSeq(Saved, 1, 1) = [l \in 1 .. 1 |-> Saved[l]]
  BY SavedLength
<1>3. <<ReturnAddress>> = [l \in 1 .. 1 |-> ReturnAddress]
  OBVIOUS
<1>4. \A l \in 1 .. 1 : Saved[l] = ReturnAddress
  BY <1>1
<1> QED BY <1>2, <1>3, <1>4

LEMMA Prefix ==
  ASSUME NEW S, NEW s \in Seq(S), NEW d \in 1 .. Len(s)
  PROVE  /\ Len(SubSeq(s, 1, d)) = d
         /\ \A l \in 1 .. d : SubSeq(s, 1, d)[l] = s[l]
         /\ SubSeq(SubSeq(s, 1, d), 1, d - 1) = SubSeq(s, 1, d - 1)
OBVIOUS

\* The prologue leaves a whole frame.
LEMMA FrameMade == Framed(Saved \o [l \in 1 .. CallArea |-> Unknown])
<1> DEFINE area == [l \in 1 .. 5 |-> Unknown]
           S == {Saved[k] : k \in 1 .. 5} \cup {Unknown}
           frame == Saved \o area
<1>0. Len(area) = 5
  OBVIOUS
<1>1. Saved \in Seq(S) /\ area \in Seq(S)
  <2>1. \A k \in 1 .. 5 : Saved[k] \in S
    OBVIOUS
  <2>2. Unknown \in S
    OBVIOUS
  <2> HIDE DEF S
  <2>3. Saved \in Seq(S)
    BY <2>1, SavedLength
  <2> QED BY <2>2, <2>3
<1>2. \A k \in 1 .. 5 : area[k] = Unknown
  OBVIOUS
<1> HIDE DEF S, area
<1>3. /\ frame \in Seq(S) /\ Len(frame) = 10
      /\ \A k \in 1 .. 5 : frame[k] = Saved[k]
      /\ \A k \in 1 .. 5 : frame[5 + k] = area[k]
  <2>1. frame \in Seq(S) /\ Len(frame) = Len(Saved) + Len(area)
    BY <1>1
  <2>2. \A k \in 1 .. Len(Saved) : frame[k] = Saved[k]
    BY <1>1
  <2>3. ASSUME NEW k \in 1 .. Len(area) PROVE frame[Len(Saved) + k] = area[k]
    BY <1>1
  <2> QED BY <1>0, <2>1, <2>2, <2>3, SavedLength
<1> HIDE DEF frame
<1>4. \A k \in 7 .. 10 : frame[k] = Unknown
  <2> SUFFICES ASSUME NEW k \in 7 .. 10 PROVE frame[k] = Unknown
    OBVIOUS
  <2>1. k - 5 \in 1 .. 5 /\ 5 + (k - 5) = k
    OBVIOUS
  <2> QED BY <1>2, <1>3, <2>1
<1>5. DOMAIN frame = 1 .. 10 /\ frame = [k \in 1 .. 10 |-> frame[k]]
  BY <1>3
<1>6. Framed(frame)
  BY <1>3, <1>4, <1>5 DEF Framed
<1>7. area = [l \in 1 .. CallArea |-> Unknown]
  BY DEF area, CallArea
<1> QED BY <1>6, <1>7 DEF frame

\* A piece of the code: instructions of a body and whole epilogues.
LEMMA EpilogueParts ==
  /\ Epilogue \in Seq({Epilogue[j] : j \in 1 .. 6}) /\ Len(Epilogue) = 6
  /\ Epilogue[1] = Shrink(CallArea) /\ Epilogue[2] = PopInto("r14")
  /\ Epilogue[3] = PopInto("r13") /\ Epilogue[4] = PopInto("r12")
  /\ Epilogue[5] = PopInto("rbx") /\ Epilogue[6] = Ret
BY DEF Epilogue

\* An instruction of a body leaves the frame whole.
LEMMA BodyExecutes ==
  ASSUME NEW m, Processor(m), Framed(m.stack),
         NEW i, Body(i), ~Faults(m, i)
  PROVE  /\ DOMAIN Executed(m, i) = DOMAIN m
         /\ CalleeSaved \subseteq DOMAIN Executed(m, i).regs
         /\ Framed(Executed(m, i).stack)
<1>1. Len(m.stack) = 10
  BY DEF Framed
<1>2. \/ Executed(m, i).stack = m.stack
      \/ Executed(m, i).stack = [m.stack EXCEPT ![Len(m.stack) - CallArea + 1] = m.regs[i.from]]
  BY DEF Executed, Processor, Body
<1>3. DOMAIN Executed(m, i) = DOMAIN m
  BY DEF Executed
<1>4. CalleeSaved \subseteq DOMAIN Executed(m, i).regs
  BY DEF Executed, Processor
<1>5. Framed(Executed(m, i).stack)
  BY <1>1, <1>2 DEF Framed, CallArea
<1> QED BY <1>3, <1>4, <1>5

\* A callee leaves the frame whole: the slots it may write are its own.
LEMMA ReturnedFramed ==
  ASSUME NEW m, Processor(m), Framed(m.stack), NEW v
  PROVE  /\ DOMAIN Returned(m, v) = DOMAIN m
         /\ Processor(Returned(m, v))
         /\ Framed(Returned(m, v).stack)
         /\ Returned(m, v).pc = m.pc + 1
<1>1. Len(m.stack) = 10
  BY DEF Framed
<1> QED BY <1>1 DEF Returned, Processor, Framed, CalleeSaved, Registers, Saved

-----------------------------------------------------------------------------
(* The code: how it is laid out.                                           *)

\* Part j of an epilogue stands at k, between its neighbours.
EpilogueAt(c, k, j) ==
  /\ c[k] = Epilogue[j]
  /\ j > 1 => k - 1 \in DOMAIN c /\ c[k - 1] = Epilogue[j - 1]
  /\ j < 6 => k + 1 \in DOMAIN c /\ c[k + 1] = Epilogue[j + 1]

\* Code of a function without its prologue: body, and whole epilogues.
Part(c) ==
  /\ IsSequence(c)
  /\ \A k \in DOMAIN c : Body(c[k]) \/ \E j \in 1 .. 6 : EpilogueAt(c, k, j)

\* The labels that code binds, and the labels its jumps may go to.
Bound(c) == {c[k].n : k \in {l \in DOMAIN c : c[l].op = "label"}}

JumpsWithin(c, labels) ==
  \A k \in DOMAIN c : c[k].op \in {"jump", "jumpIf"} => c[k].n \in labels

\* Code as BaselineCompiler lays it out: the prologue, then body and epilogues,
\* with a label for every jump.
Conventional(c) ==
  /\ IsSequence(c) /\ 9 \in DOMAIN c
  /\ \A k \in 1 .. 9 : c[k] = Prologue[k]
  /\ \A k \in DOMAIN c : k > 9 => Body(c[k]) \/ \E j \in 1 .. 6 : EpilogueAt(c, k, j)
  /\ JumpsWithin(c, Bound(c))

\* What the machine has on its stack and in its registers, wherever it is.
Positioned(m, c) ==
  /\ Processor(m)
  /\ m.pc \in DOMAIN c =>
       /\ m.pc \in 1 .. 5 => m.stack = SubSeq(Saved, 1, m.pc) /\ Kept(m, CalleeSaved)
       /\ \A j \in 2 .. 6 : c[m.pc] = Epilogue[j] =>
            m.stack = SubSeq(Saved, 1, 7 - j) /\ Kept(m, Restored(j))
       /\ m.pc > 5 /\ c[m.pc].op \notin {"pop", "ret"} => Framed(m.stack)

\* The nine instructions of the prologue.
LEMMA PrologueParts ==
  /\ Prologue[1] = Push("rbx") /\ Prologue[2] = Push("r12") /\ Prologue[3] = Push("r13")
  /\ Prologue[4] = Push("r14") /\ Prologue[5] = Grow(CallArea)
  /\ \A k \in 6 .. 9 : Body(Prologue[k]) /\ Prologue[k].op \notin {"jump", "jumpIf", "call", "label"}
  /\ \A k \in 1 .. 9, j \in 1 .. 6 : Prologue[k] # Epilogue[j]
  /\ Len(Prologue) = 9 /\ Prologue \in Seq({Prologue[j] : j \in 1 .. 9})
<1>1. /\ Prologue[1] = Push("rbx") /\ Prologue[2] = Push("r12") /\ Prologue[3] = Push("r13")
      /\ Prologue[4] = Push("r14") /\ Prologue[5] = Grow(CallArea)
      /\ Len(Prologue) = 9 /\ Prologue \in Seq({Prologue[j] : j \in 1 .. 9})
  BY DEF Prologue
<1>2. /\ Prologue[6] = Move("r12", "rcx") /\ Prologue[7] = LoadField("rbx", "locals")
      /\ Prologue[8] = LoadField("r13", "spills") /\ Prologue[9] = LoadField("r14", "callArguments")
  BY DEF Prologue
<1>3. \A k \in 6 .. 9 : Body(Prologue[k]) /\ Prologue[k].op \notin {"jump", "jumpIf", "call", "label"}
  <2> SUFFICES ASSUME NEW k \in 6 .. 9
               PROVE  Body(Prologue[k]) /\ Prologue[k].op \notin {"jump", "jumpIf", "call", "label"}
    OBVIOUS
  <2>1. k \in {6, 7, 8, 9}
    OBVIOUS
  <2> QED BY <1>2, <2>1 DEF Body, Move, LoadField, X
<1>4. \A k \in 1 .. 9 : Prologue[k].op \in {"push", "grow", "move", "loadField"}
  <2> SUFFICES ASSUME NEW k \in 1 .. 9
               PROVE  Prologue[k].op \in {"push", "grow", "move", "loadField"}
    OBVIOUS
  <2>1. k \in {1, 2, 3, 4, 5, 6, 7, 8, 9}
    OBVIOUS
  <2> QED BY <1>1, <1>2, <2>1 DEF Move, LoadField, Push, Grow, X
<1>5. \A j \in 1 .. 6 : Epilogue[j].op \in {"shrink", "pop", "ret"}
  <2> SUFFICES ASSUME NEW j \in 1 .. 6
               PROVE  Epilogue[j].op \in {"shrink", "pop", "ret"}
    OBVIOUS
  <2>1. j \in {1, 2, 3, 4, 5, 6}
    OBVIOUS
  <2> QED BY <2>1, EpilogueParts DEF Shrink, PopInto, Ret, X
<1> QED BY <1>1, <1>3, <1>4, <1>5

\* The parts of an epilogue differ, and none is an instruction of a body.
LEMMA EpilogueDiffers ==
  /\ \A j, l \in 1 .. 6 : Epilogue[j] = Epilogue[l] => j = l
  /\ \A j \in 1 .. 6 : ~Body(Epilogue[j])
  /\ \A j \in 1 .. 6 : Epilogue[j].op \notin {"jump", "jumpIf", "call", "label"}
  /\ \A j \in 2 .. 6 : Epilogue[j].op \in {"pop", "ret"}
  /\ Epilogue[1].op = "shrink"
<1>1. \A j \in 1 .. 6 : j \in {1, 2, 3, 4, 5, 6}
  OBVIOUS
<1> QED BY <1>1, EpilogueParts DEF Shrink, PopInto, Ret, X, Body

LEMMA EpilogueOnce ==
  ASSUME NEW j \in 1 .. 6, NEW l \in 1 .. 6, Epilogue[j] = Epilogue[l]
  PROVE  j = l
BY EpilogueDiffers

LEMMA SeqIsSequence ==
  ASSUME NEW S, NEW s \in Seq(S)
  PROVE  IsSequence(s)
BY DEF IsSequence

\* The positions of a sequence.
LEMMA CodeIsSequence ==
  ASSUME NEW c, IsSequence(c)
  PROVE  DOMAIN c = 1 .. Len(c) /\ Len(c) \in Nat
BY DEF IsSequence

\* A part of an epilogue is reached from the part before it only.
LEMMA EpilogueFollows ==
  ASSUME NEW c, Conventional(c), NEW k \in DOMAIN c, NEW j \in 2 .. 6, c[k] = Epilogue[j]
  PROVE  k > 9 /\ k - 1 \in DOMAIN c /\ c[k - 1] = Epilogue[j - 1]
<1>1. DOMAIN c = 1 .. Len(c) /\ Len(c) \in Nat
  BY CodeIsSequence DEF Conventional
<1>2. k > 9
  <2> SUFFICES ASSUME k \in 1 .. 9 PROVE FALSE
    BY <1>1
  <2> QED BY PrologueParts DEF Conventional
<1>3. PICK l \in 1 .. 6 : EpilogueAt(c, k, l)
  BY <1>2, EpilogueDiffers DEF Conventional
<1>4. l = j
  <2>1. j \in 1 .. 6 /\ Epilogue[j] = Epilogue[l]
    BY <1>3 DEF EpilogueAt
  <2> QED BY ONLY <2>1, l \in 1 .. 6, EpilogueOnce
<1> QED BY <1>2, <1>3, <1>4 DEF EpilogueAt

\* From a part of an epilogue the processor gets to the next part.
LEMMA EpilogueGoesOn ==
  ASSUME NEW c, Conventional(c), NEW k \in DOMAIN c, NEW j \in 1 .. 5, c[k] = Epilogue[j]
  PROVE  k > 9 /\ k + 1 \in DOMAIN c /\ c[k + 1] = Epilogue[j + 1]
<1>1. DOMAIN c = 1 .. Len(c) /\ Len(c) \in Nat
  BY CodeIsSequence DEF Conventional
<1>2. k > 9
  <2> SUFFICES ASSUME k \in 1 .. 9 PROVE FALSE
    BY <1>1
  <2> QED BY PrologueParts DEF Conventional
<1>3. PICK l \in 1 .. 6 : EpilogueAt(c, k, l)
  BY <1>2, EpilogueDiffers DEF Conventional
<1>4. l = j
  <2>1. j \in 1 .. 6 /\ Epilogue[j] = Epilogue[l]
    BY <1>3 DEF EpilogueAt
  <2> QED BY ONLY <2>1, l \in 1 .. 6, EpilogueOnce
<1> QED BY <1>2, <1>3, <1>4 DEF EpilogueAt

\* Past the pushes, what is no part of an epilogue is an instruction of a body.
LEMMA BodyOrEpilogue ==
  ASSUME NEW c, Conventional(c), NEW k \in DOMAIN c, k > 5
  PROVE  Body(c[k]) \/ \E j \in 1 .. 6 : c[k] = Epilogue[j]
<1>1. DOMAIN c = 1 .. Len(c) /\ Len(c) \in Nat
  BY CodeIsSequence DEF Conventional
<1>2. CASE k > 9
  BY <1>2 DEF Conventional, EpilogueAt
<1>3. CASE k <= 9
  BY <1>1, <1>3, PrologueParts DEF Conventional
<1> QED BY <1>1, <1>2, <1>3

\* From an instruction of the body it gets to another one, or to the start of an
\* epilogue: no jump goes into the middle of one.
LEMMA BodyGoesOn ==
  ASSUME NEW c, Conventional(c), NEW m, NEW k \in DOMAIN c, k > 5, Body(c[k]), m.pc = k
  PROVE  LET next == Advance(m, c, c[k])
         IN next \in DOMAIN c => next > 5 /\ \A j \in 2 .. 6 : c[next] # Epilogue[j]
<1> DEFINE next == Advance(m, c, c[k])
<1>1. DOMAIN c = 1 .. Len(c) /\ Len(c) \in Nat
  BY CodeIsSequence DEF Conventional
<1>2. CASE next = k + 1
  <2> SUFFICES ASSUME k + 1 \in DOMAIN c
               PROVE  \A j \in 2 .. 6 : c[k + 1] # Epilogue[j]
    BY <1>1, <1>2
  <2> SUFFICES ASSUME NEW j \in 2 .. 6, c[k + 1] = Epilogue[j]
               PROVE  FALSE
    OBVIOUS
  <2>1. c[k] = Epilogue[j - 1]
    <3>1. PICK l \in DOMAIN c : l = k + 1 /\ c[l] = Epilogue[j]
      OBVIOUS
    <3>2. c[l - 1] = Epilogue[j - 1]
      BY <3>1, EpilogueFollows
    <3> QED BY <1>1, <3>1, <3>2
  <2> QED BY <2>1, EpilogueDiffers
<1>3. CASE c[k].op \in {"jump", "jumpIf"} /\ next = LabelAt(c, c[k].n)
  <2>1. c[k].n \in Bound(c)
    BY <1>3 DEF Conventional, JumpsWithin
  <2>2. \E l \in DOMAIN c : c[l].op = "label" /\ c[l].n = c[k].n
    BY <2>1 DEF Bound
  <2>3. next \in DOMAIN c /\ c[next].op = "label"
    BY <1>3, <2>2 DEF LabelAt
  <2>4. next \notin 1 .. 9
    <3> SUFFICES ASSUME next \in 1 .. 9 PROVE FALSE
      OBVIOUS
    <3> HIDE DEF next
    <3>1. next \in {1, 2, 3, 4, 5, 6, 7, 8, 9}
      OBVIOUS
    <3>2. c[next] = Prologue[next]
      BY DEF Conventional
    <3> QED BY <2>3, <3>1, <3>2, PrologueParts DEF Push, Grow, X
  <2>5. \A j \in 2 .. 6 : c[next] # Epilogue[j]
    BY <2>3, EpilogueDiffers
  <2> HIDE DEF next
  <2>6. next > 5
    BY <1>1, <2>3, <2>4
  <2> QED BY <2>5, <2>6 DEF next
<1>4. next = k + 1 \/ (c[k].op \in {"jump", "jumpIf"} /\ next = LabelAt(c, c[k].n))
  BY DEF Advance
<1> QED BY <1>2, <1>3, <1>4

\* In the body, and in the prologue past the frame it makes.
LEMMA FramedPosition ==
  ASSUME NEW c, NEW n, Processor(n), Framed(n.stack),
         n.pc \in DOMAIN c => n.pc > 5 /\ \A j \in 2 .. 6 : c[n.pc] # Epilogue[j]
  PROVE  Positioned(n, c)
<1>1. n.pc \in DOMAIN c => n.pc \notin 1 .. 5
  OBVIOUS
<1> QED BY <1>1 DEF Positioned

\* Before part j of an epilogue, past the first.
LEMMA EpiloguePosition ==
  ASSUME NEW c, Conventional(c), NEW n, Processor(n), NEW j \in 2 .. 6, n.pc \in DOMAIN c,
         c[n.pc] = Epilogue[j], n.stack = SubSeq(Saved, 1, 7 - j), Kept(n, Restored(j))
  PROVE  Positioned(n, c)
<1>1. n.pc > 9
  BY EpilogueFollows
<1>2. c[n.pc].op \in {"pop", "ret"}
  BY EpilogueDiffers
<1>3. ASSUME NEW l \in 2 .. 6, c[n.pc] = Epilogue[l]
      PROVE  n.stack = SubSeq(Saved, 1, 7 - l) /\ Kept(n, Restored(l))
  <2>1. l \in 1 .. 6 /\ j \in 1 .. 6 /\ Epilogue[j] = Epilogue[l]
    BY <1>3
  <2>2. j = l
    BY ONLY <2>1, EpilogueOnce
  <2> QED BY <2>2
<1>4. n.pc \notin 1 .. 5
  BY <1>1
<1> QED BY <1>2, <1>3, <1>4 DEF Positioned

\* A step of the processor from a position that follows the convention leads to
\* another one.
LEMMA Stepping ==
  ASSUME NEW c, Conventional(c), NEW m, Positioned(m, c), NEW k \in DOMAIN c, m.pc = k,
         ~Faults(m, c[k]), c[k].op \notin {"call", "ret"},
         NEW n, n = [Executed(m, c[k]) EXCEPT !.pc = Advance(m, c, c[k])]
  PROVE  Positioned(n, c)
<1> DEFINE i == c[k]
           e == Executed(m, i)
           next == Advance(m, c, i)
<1>0. DOMAIN c = 1 .. Len(c) /\ Len(c) \in Nat /\ 9 \in DOMAIN c
  BY CodeIsSequence DEF Conventional
<1>p. \A l \in 1 .. 9 : l \in DOMAIN c /\ c[l] = Prologue[l] /\ \A j \in 2 .. 6 : c[l] # Epilogue[j]
  BY <1>0, PrologueParts DEF Conventional
<1>1. CASE k \in 1 .. 4
  <2>1. PICK r \in CalleeSaved : i = Push(r) /\ Saved[k + 1] = CallerValue[r]
    <3>1. k \in {1, 2, 3, 4}
      BY <1>1
    <3> QED BY <3>1, <1>p, PrologueParts DEF Saved, CalleeSaved
  <2>2. e = [m EXCEPT !.stack = Append(m.stack, m.regs[r])] /\ next = k + 1
    BY <2>1 DEF Executed, Push, X, Advance
  <2>3. m.stack = SubSeq(Saved, 1, k) /\ Kept(m, CalleeSaved) /\ Processor(m)
    BY <1>1 DEF Positioned
  <2>4. Append(SubSeq(Saved, 1, k), Saved[k + 1]) = SubSeq(Saved, 1, k + 1)
    BY <1>1, SavedLength
  <2>5. n.pc = k + 1 /\ n.stack = SubSeq(Saved, 1, k + 1) /\ n.regs = m.regs /\ Processor(n)
    BY <2>1, <2>2, <2>3, <2>4, ZenonT(30) DEF Processor, Kept
  <2>6. k + 1 \in 1 .. 5 /\ \A j \in 2 .. 6 : c[k + 1] # Epilogue[j]
    BY <1>1, <1>p
  <2> QED BY <2>3, <2>5, <2>6 DEF Positioned, Kept
<1>2. CASE k = 5
  <2>1. i = Grow(CallArea)
    BY <1>2, <1>p, PrologueParts
  <2>2. e = [m EXCEPT !.stack = m.stack \o [l \in 1 .. CallArea |-> Unknown]] /\ next = 6
    BY <1>2, <2>1 DEF Executed, Grow, X, Advance
  <2>3. m.stack = SubSeq(Saved, 1, 5) /\ Processor(m)
    BY <1>2 DEF Positioned
  <2>4. SubSeq(Saved, 1, 5) = Saved
    BY SavedLength
  <2>5. Framed(Saved \o [l \in 1 .. CallArea |-> Unknown])
    BY FrameMade
  <2>6. n.pc = 6 /\ Framed(n.stack) /\ Processor(n)
    <3>1. Framed(m.stack \o [l \in 1 .. CallArea |-> Unknown])
      BY <2>3, <2>4, <2>5
    <3> QED BY <2>2, <2>3, <3>1 DEF Processor
  <2>7. n.pc > 5 /\ \A j \in 2 .. 6 : c[n.pc] # Epilogue[j]
    BY <2>6, <1>p
  <2> QED BY <2>6, <2>7, FramedPosition, ZenonT(30)
<1>3. CASE k > 5 /\ Body(i)
  <2>1. i.op \notin {"pop", "ret"}
    BY <1>3 DEF Body
  <2>2. Framed(m.stack) /\ Processor(m)
    BY <1>3, <2>1 DEF Positioned
  <2>3. DOMAIN e = DOMAIN m /\ CalleeSaved \subseteq DOMAIN e.regs /\ Framed(e.stack)
    BY <1>3, <2>2, BodyExecutes
  <2>4. n.pc = next /\ Framed(n.stack) /\ Processor(n)
    <3>1. n = [e EXCEPT !.pc = next]
      OBVIOUS
    <3> HIDE DEF e, next
    <3> QED BY <2>2, <2>3, <3>1 DEF Processor
  <2>5. next \in DOMAIN c => next > 5 /\ \A j \in 2 .. 6 : c[next] # Epilogue[j]
    BY <1>3, BodyGoesOn
  <2> HIDE DEF next
  <2> QED BY <2>4, <2>5, FramedPosition
<1>4. CASE i = Epilogue[1]
  <2>1. k > 9 /\ k + 1 \in DOMAIN c /\ c[k + 1] = Epilogue[2]
    BY <1>4, EpilogueGoesOn
  <2>2. i = Shrink(CallArea)
    BY <1>4, EpilogueParts
  <2>3. e = [m EXCEPT !.stack = Drop(m.stack, CallArea)] /\ next = k + 1
    BY <2>2 DEF Executed, Shrink, X, Advance
  <2>4. Framed(m.stack) /\ Processor(m)
    <3>1. i.op = "shrink" /\ k > 5
      BY <1>0, <2>1, <2>2 DEF Shrink, X
    <3> QED BY <3>1 DEF Positioned
  <2>5. Drop(m.stack, CallArea) = SubSeq(Saved, 1, 5)
    <3>1. Len(m.stack) = 10
      BY <2>4 DEF Framed
    <3>2. Drop(m.stack, CallArea) = [l \in 1 .. 5 |-> m.stack[l]]
      BY <2>4, <3>1 DEF Framed, Drop, CallArea
    <3>3. SubSeq(Saved, 1, 5) = [l \in 1 .. 5 |-> Saved[l]]
      BY SavedLength
    <3> QED BY <2>4, <3>2, <3>3 DEF Framed
  <2>6. n.pc = k + 1 /\ n.stack = SubSeq(Saved, 1, 5) /\ Processor(n)
    BY <2>3, <2>4, <2>5 DEF Processor
  <2>7. Kept(n, Restored(2))
    BY DEF Kept, Restored
  <2>8. 7 - 2 = 5 /\ 2 \in 2 .. 6
    OBVIOUS
  <2> QED BY <2>1, <2>6, <2>7, <2>8, EpiloguePosition
<1>5. ASSUME NEW j \in 2 .. 5, i = Epilogue[j]
      PROVE  Positioned(n, c)
  <2>1. k > 9 /\ k + 1 \in DOMAIN c /\ c[k + 1] = Epilogue[j + 1]
    BY <1>5, EpilogueGoesOn
  <2>2. PICK r \in CalleeSaved : /\ i = PopInto(r)
                                 /\ Saved[7 - j] = CallerValue[r]
                                 /\ Restored(j + 1) = Restored(j) \cup {r}
    <3>1. j \in {2, 3, 4, 5}
      OBVIOUS
    <3> QED BY <1>5, <3>1, EpilogueParts DEF Saved, CalleeSaved, Restored
  <2>3. e = [m EXCEPT !.regs[r] = Last(m.stack), !.stack = Front(m.stack)] /\ next = k + 1
    BY <2>2 DEF Executed, PopInto, X, Advance
  <2>4. m.stack = SubSeq(Saved, 1, 7 - j) /\ Kept(m, Restored(j)) /\ Processor(m)
    <3>1. j \in 2 .. 6
      OBVIOUS
    <3> QED BY <1>5, <3>1 DEF Positioned
  <2>5. /\ Last(SubSeq(Saved, 1, 7 - j)) = Saved[7 - j]
        /\ Front(SubSeq(Saved, 1, 7 - j)) = SubSeq(Saved, 1, 6 - j)
    <3> DEFINE d == 7 - j
    <3>1. d \in 2 .. 5 /\ d - 1 = 6 - j
      OBVIOUS
    <3> HIDE DEF d
    <3>2. /\ Len(SubSeq(Saved, 1, d)) = d
          /\ \A l \in 1 .. d : SubSeq(Saved, 1, d)[l] = Saved[l]
          /\ SubSeq(SubSeq(Saved, 1, d), 1, d - 1) = SubSeq(Saved, 1, d - 1)
      BY <3>1, SavedLength, Prefix
    <3> QED BY <3>1, <3>2 DEF Last, Front, d
  <2>6. n.pc = k + 1 /\ n.stack = SubSeq(Saved, 1, 6 - j) /\ Processor(n)
    BY <2>2, <2>3, <2>4, <2>5 DEF Processor
  <2>7. Kept(n, Restored(j + 1))
    BY <2>2, <2>3, <2>4, <2>5 DEF Processor, Kept
  <2>8. 7 - (j + 1) = 6 - j /\ j + 1 \in 2 .. 6
    OBVIOUS
  <2> QED BY <2>1, <2>6, <2>7, <2>8, EpiloguePosition
<1>6. i # Epilogue[6]
  BY EpilogueParts DEF Ret, X
<1>7. k > 5 => Body(i) \/ \E j \in 1 .. 6 : i = Epilogue[j]
  BY BodyOrEpilogue
<1>8. k \in 1 .. 4 \/ k = 5 \/ k > 5
  BY <1>0
<1>9. \A j \in 1 .. 6 : j = 1 \/ j \in 2 .. 5 \/ j = 6
  OBVIOUS
<1> QED BY <1>1, <1>2, <1>3, <1>4, <1>5, <1>6, <1>7, <1>8, <1>9

\* At a call there is a whole frame on the stack.
LEMMA CallFramed ==
  ASSUME NEW c, Conventional(c), NEW m, Positioned(m, c), NEW k \in DOMAIN c, m.pc = k,
         c[k].op = "call"
  PROVE  k > 5 /\ Framed(m.stack) /\ Processor(m)
<1>0. DOMAIN c = 1 .. Len(c) /\ Len(c) \in Nat
  BY CodeIsSequence DEF Conventional
<1>1. k > 5
  <2> SUFFICES ASSUME k \in 1 .. 5 PROVE FALSE
    BY <1>0
  <2>1. k \in {1, 2, 3, 4, 5} /\ c[k] = Prologue[k]
    BY DEF Conventional
  <2> QED BY <2>1, PrologueParts DEF Push, Grow, X
<1> QED BY <1>1 DEF Positioned

\* A call comes back to the instruction after it.
LEMMA CallReturns ==
  ASSUME NEW c, Conventional(c), NEW m, Positioned(m, c), NEW k \in DOMAIN c, m.pc = k,
         c[k].op = "call", NEW n, Processor(n), Framed(m.stack) => Framed(n.stack), n.pc = k + 1
  PROVE  Positioned(n, c)
<1>0. DOMAIN c = 1 .. Len(c) /\ Len(c) \in Nat
  BY CodeIsSequence DEF Conventional
<1>1. k > 5 /\ Framed(m.stack)
  BY CallFramed
<1>3. Body(c[k])
  BY <1>1, BodyOrEpilogue, EpilogueDiffers
<1>4. Advance(m, c, c[k]) = k + 1
  BY DEF Advance
<1>5. k + 1 \in DOMAIN c => \A j \in 2 .. 6 : c[k + 1] # Epilogue[j]
  BY <1>1, <1>3, <1>4, BodyGoesOn
<1> QED BY <1>0, <1>1, <1>5 DEF Positioned

\* The machine code is entered in such a position.
LEMMA Entering ==
  ASSUME NEW c, Conventional(c), NEW count, NEW requirements, NEW given,
         NEW m, m = Enter(count, requirements, given)
  PROVE  Positioned(m, c)
<1>1. m.pc = 1 /\ m.stack = <<ReturnAddress>> /\ Processor(m) /\ Kept(m, CalleeSaved)
  BY DEF Enter, Processor, Kept, Registers, CalleeSaved
<1>2. SubSeq(Saved, 1, 1) = <<ReturnAddress>>
  BY SavedFirst
<1>3. \A j \in 2 .. 6 : c[1] # Epilogue[j]
  BY PrologueParts DEF Conventional
<1>4. m.stack = SubSeq(Saved, 1, m.pc) /\ \A j \in 2 .. 6 : c[m.pc] # Epilogue[j]
  BY <1>1, <1>2, <1>3
<1>5. ~(m.pc > 5)
  BY <1>1
<1> QED BY <1>1, <1>4, <1>5 DEF Positioned

\* In such a position a call and a return follow the convention.
LEMMA PositionedConvention ==
  ASSUME NEW c, Conventional(c), NEW m, Positioned(m, c), m.pc \in DOMAIN c
  PROVE  /\ c[m.pc].op = "call" =>
              /\ Len(m.stack) % 2 = 0
              /\ \A k \in Len(m.stack) - 3 .. Len(m.stack) :
                   k >= 1 /\ m.stack[k].area \notin {"return", "caller"}
         /\ c[m.pc].op = "ret" =>
              /\ m.stack = <<ReturnAddress>>
              /\ \A r \in CalleeSaved : m.regs[r] = CallerValue[r]
<1> DEFINE k == m.pc
<1>0. DOMAIN c = 1 .. Len(c) /\ Len(c) \in Nat
  BY CodeIsSequence DEF Conventional
<1>1. k > 5 \/ c[k].op \in {"push", "grow"}
  <2> SUFFICES ASSUME k \in 1 .. 5 PROVE c[k].op \in {"push", "grow"}
    BY <1>0
  <2>1. k \in {1, 2, 3, 4, 5} /\ c[k] = Prologue[k]
    BY DEF Conventional
  <2> QED BY <2>1, PrologueParts DEF Push, Grow, X
<1>2. ASSUME c[k].op = "call"
      PROVE  Framed(m.stack)
  BY <1>1, <1>2 DEF Positioned
<1>3. ASSUME c[k].op = "call"
      PROVE  /\ Len(m.stack) % 2 = 0
             /\ \A l \in Len(m.stack) - 3 .. Len(m.stack) :
                  l >= 1 /\ m.stack[l].area \notin {"return", "caller"}
  <2>1. Len(m.stack) = 10
    BY <1>2, <1>3 DEF Framed
  <2> QED BY <1>2, <1>3, <2>1 DEF Framed, Unknown, Value
<1>4. ASSUME c[k].op = "ret"
      PROVE  /\ m.stack = <<ReturnAddress>>
             /\ \A r \in CalleeSaved : m.regs[r] = CallerValue[r]
  <2>1. k > 5 /\ ~Body(c[k])
    BY <1>1, <1>4 DEF Body
  <2>2. PICK j \in 1 .. 6 : c[k] = Epilogue[j]
    BY <2>1, BodyOrEpilogue
  <2>3. j = 6
    <3>1. j \in {1, 2, 3, 4, 5, 6}
      OBVIOUS
    <3> QED BY <1>4, <2>2, <3>1, EpilogueParts DEF Shrink, PopInto, X
  <2>4. m.stack = SubSeq(Saved, 1, 1) /\ Kept(m, CalleeSaved)
    BY <2>2, <2>3 DEF Positioned, Restored
  <2>5. SubSeq(Saved, 1, 1) = <<ReturnAddress>>
    BY SavedFirst
  <2> QED BY <2>4, <2>5 DEF Kept
<1> QED BY <1>3, <1>4

-----------------------------------------------------------------------------
(* The compiler: what it emits is put together of pieces.                  *)

\* Code whose jumps go to labels of its own, or to those of the outer code.
Piece(c, outer) == Part(c) /\ JumpsWithin(c, outer \cup Bound(c))

\* One sequence after another: where each element comes from.
LEMMA Joined ==
  ASSUME NEW c, NEW d, IsSequence(c), IsSequence(d)
  PROVE  /\ IsSequence(c \o d) /\ Len(c) \in Nat /\ Len(d) \in Nat
         /\ DOMAIN c = 1 .. Len(c) /\ DOMAIN d = 1 .. Len(d)
         /\ DOMAIN (c \o d) = 1 .. Len(c) + Len(d)
         /\ \A k \in 1 .. Len(c) : (c \o d)[k] = c[k]
         /\ \A k \in 1 .. Len(d) : (c \o d)[Len(c) + k] = d[k]
<1> DEFINE C == {c[k] : k \in DOMAIN c}
           D == {d[k] : k \in DOMAIN d}
           S == C \cup D
<1>1. c \in Seq(S) /\ d \in Seq(S)
  <2>1. c \in Seq(C) /\ d \in Seq(D)
    BY DEF IsSequence
  <2> HIDE DEF C, D
  <2> QED BY <2>1
<1> HIDE DEF C, D, S
<1>2. c \o d \in Seq(S) /\ Len(c \o d) = Len(c) + Len(d)
  BY <1>1
<1>3. /\ \A k \in 1 .. Len(c) : (c \o d)[k] = c[k]
      /\ \A k \in 1 .. Len(d) : (c \o d)[Len(c) + k] = d[k]
  BY <1>1
<1>4. IsSequence(c \o d)
  BY <1>2, SeqIsSequence
<1> QED BY <1>1, <1>2, <1>3, <1>4

\* Two pieces of code make one.
LEMMA Joining ==
  ASSUME NEW c, NEW d, NEW outer, Piece(c, outer), Piece(d, outer)
  PROVE  Piece(c \o d, outer) /\ Bound(c \o d) = Bound(c) \cup Bound(d)
<1> DEFINE e == c \o d
           n == Len(c)
<1>0. IsSequence(c) /\ IsSequence(d)
  BY DEF Piece, Part
<1>1. /\ IsSequence(e) /\ n \in Nat /\ Len(d) \in Nat
      /\ DOMAIN c = 1 .. n /\ DOMAIN d = 1 .. Len(d)
      /\ DOMAIN e = 1 .. n + Len(d)
  BY <1>0, Joined
<1>2. /\ \A k \in 1 .. n : e[k] = c[k]
      /\ \A k \in 1 .. Len(d) : e[n + k] = d[k]
  BY <1>0, Joined
<1> HIDE DEF e, n
<1>3. \A k \in DOMAIN e : k \in DOMAIN c \/ \E l \in DOMAIN d : k = n + l
  <2> SUFFICES ASSUME NEW k \in DOMAIN e, k \notin DOMAIN c
               PROVE  \E l \in DOMAIN d : k = n + l
    OBVIOUS
  <2>1. k - n \in DOMAIN d /\ k = n + (k - n)
    BY <1>1
  <2> QED BY <2>1
<1>4. Bound(e) = Bound(c) \cup Bound(d)
  <2>1. Bound(c) \subseteq Bound(e)
    BY <1>1, <1>2 DEF Bound
  <2>2. Bound(d) \subseteq Bound(e)
    <3> SUFFICES ASSUME NEW l \in DOMAIN d, d[l].op = "label" PROVE d[l].n \in Bound(e)
      BY DEF Bound
    <3>1. n + l \in DOMAIN e /\ e[n + l] = d[l]
      BY <1>1, <1>2
    <3> QED BY <3>1 DEF Bound
  <2>3. Bound(e) \subseteq Bound(c) \cup Bound(d)
    BY <1>1, <1>2, <1>3 DEF Bound
  <2> QED BY <2>1, <2>2, <2>3
<1>5. ASSUME NEW k \in DOMAIN e PROVE Body(e[k]) \/ \E j \in 1 .. 6 : EpilogueAt(e, k, j)
  <2>1. CASE k \in DOMAIN c
    <3>1. e[k] = c[k]
      BY <1>1, <1>2, <2>1
    <3>2. ASSUME NEW j \in 1 .. 6, EpilogueAt(c, k, j) PROVE EpilogueAt(e, k, j)
      BY <1>1, <1>2, <2>1, <3>2 DEF EpilogueAt
    <3> QED BY <2>1, <3>1, <3>2 DEF Piece, Part
  <2>2. CASE \E l \in DOMAIN d : k = n + l
    <3>1. PICK l \in DOMAIN d : k = n + l
      BY <2>2
    <3>2. e[k] = d[l]
      BY <1>1, <1>2, <3>1
    <3>3. ASSUME NEW j \in 1 .. 6, EpilogueAt(d, l, j) PROVE EpilogueAt(e, k, j)
      <4>1. j > 1 => k - 1 \in DOMAIN e /\ e[k - 1] = Epilogue[j - 1]
        <5> SUFFICES ASSUME j > 1 PROVE k - 1 \in DOMAIN e /\ e[k - 1] = Epilogue[j - 1]
          OBVIOUS
        <5>1. l - 1 \in DOMAIN d /\ d[l - 1] = Epilogue[j - 1]
          BY <3>3 DEF EpilogueAt
        <5>2. k - 1 = n + (l - 1)
          BY <1>1, <3>1
        <5> QED BY <1>1, <1>2, <5>1, <5>2
      <4>2. j < 6 => k + 1 \in DOMAIN e /\ e[k + 1] = Epilogue[j + 1]
        <5> SUFFICES ASSUME j < 6 PROVE k + 1 \in DOMAIN e /\ e[k + 1] = Epilogue[j + 1]
          OBVIOUS
        <5>1. l + 1 \in DOMAIN d /\ d[l + 1] = Epilogue[j + 1]
          BY <3>3 DEF EpilogueAt
        <5>2. k + 1 = n + (l + 1)
          BY <1>1, <3>1
        <5> QED BY <1>1, <1>2, <5>1, <5>2
      <4> QED BY <3>2, <3>3, <4>1, <4>2 DEF EpilogueAt
    <3> QED BY <3>1, <3>2, <3>3 DEF Piece, Part
  <2> QED BY <1>3, <2>1, <2>2
<1>6. JumpsWithin(e, outer \cup Bound(e))
  <2> SUFFICES ASSUME NEW k \in DOMAIN e, e[k].op \in {"jump", "jumpIf"}
               PROVE  e[k].n \in outer \cup Bound(c) \cup Bound(d)
    BY <1>4 DEF JumpsWithin
  <2>1. CASE k \in DOMAIN c
    BY <1>1, <1>2, <2>1 DEF Piece, JumpsWithin
  <2>2. CASE \E l \in DOMAIN d : k = n + l
    BY <1>1, <1>2, <2>2 DEF Piece, JumpsWithin
  <2> QED BY <1>3, <2>1, <2>2
<1>7. Piece(e, outer)
  BY <1>1, <1>5, <1>6 DEF Piece, Part
<1> QED BY <1>4, <1>7 DEF e

\* FlattenSeq: the sequences one after another.
LEMMA FlattenUnfolds ==
  ASSUME NEW s, IsSequence(s), s # <<>>
  PROVE  \E f : /\ \A k \in DOMAIN s : f[k] = IF k = 1 THEN s[k] ELSE f[k - 1] \o s[k]
                /\ FlattenSeq(s) = f[Len(s)]
<1> DEFINE Flat(g, m) == g = [k \in 1 .. m |-> IF k = 1 THEN s[k] ELSE g[k - 1] \o s[k]]
           T == {m \in 0 .. Len(s) : \E g : Flat(g, m)}
<1>0. DOMAIN s = 1 .. Len(s) /\ Len(s) \in Nat /\ Len(s) # 0
  <2>1. DOMAIN s = 1 .. Len(s) /\ Len(s) \in Nat
    BY CodeIsSequence
  <2> QED BY <2>1 DEF IsSequence
<1>1. 0 \in T
  <2>1. Flat([k \in 1 .. 0 |-> s], 0)
    OBVIOUS
  <2> HIDE DEF Flat
  <2> QED BY <1>0, <2>1
<1>2. ASSUME NEW m \in 0 .. Len(s) - 1, m \in T PROVE m + 1 \in T
  <2>1. PICK g : Flat(g, m)
    BY <1>2
  <2> DEFINE h == [k \in 1 .. m + 1 |-> IF k = 1 THEN s[k] ELSE g[k - 1] \o s[k]]
  <2>2. ASSUME NEW k \in 1 .. m + 1, k # 1 PROVE h[k - 1] = g[k - 1]
    <3>1. k - 1 \in 1 .. m /\ k - 1 \in 1 .. m + 1
      BY <2>2
    <3>2. g[k - 1] = IF k - 1 = 1 THEN s[k - 1] ELSE g[k - 1 - 1] \o s[k - 1]
      BY <2>1, <3>1
    <3> QED BY <3>1, <3>2
  <2>3. h = [k \in 1 .. m + 1 |-> IF k = 1 THEN s[k] ELSE h[k - 1] \o s[k]]
    <3> DEFINE r == [k \in 1 .. m + 1 |-> IF k = 1 THEN s[k] ELSE h[k - 1] \o s[k]]
    <3>1. ASSUME NEW k \in 1 .. m + 1 PROVE h[k] = r[k]
      <4> HIDE DEF h
      <4>1. h[k] = IF k = 1 THEN s[k] ELSE g[k - 1] \o s[k]
        BY DEF h
      <4> QED BY <2>2, <4>1
    <3> QED BY <3>1
  <2>4. Flat(h, m + 1)
    <3> HIDE DEF h
    <3> QED BY <2>3
  <2> HIDE DEF Flat, h
  <2> QED BY <1>0, <2>4
<1>3. PICK g : Flat(g, Len(s))
  <2> HIDE DEF T
  <2>1. 0 .. Len(s) \subseteq T
    BY <1>0, <1>1, <1>2, IntervalInduction
  <2>2. Len(s) \in T
    BY <1>0, <2>1
  <2> QED BY <2>2 DEF T
<1>4. \E f : f = [k \in 1 .. Len(s) |-> IF k = 1 THEN s[k] ELSE f[k - 1] \o s[k]]
             /\ FlattenSeq(s) = f[Len(s)]
  BY <1>0, <1>3 DEF FlattenSeq
<1> QED BY <1>0, <1>4

\* So does a sequence of pieces.
LEMMA Flattening ==
  ASSUME NEW s, IsSequence(s), NEW outer, \A k \in DOMAIN s : Piece(s[k], outer)
  PROVE  /\ Piece(FlattenSeq(s), outer)
         /\ \A k \in DOMAIN s : Bound(s[k]) \subseteq Bound(FlattenSeq(s))
<1>0. DOMAIN s = 1 .. Len(s) /\ Len(s) \in Nat
  BY CodeIsSequence
<1>1. CASE s = <<>>
  <2>1. FlattenSeq(s) = s /\ DOMAIN s = {}
    BY <1>1 DEF FlattenSeq
  <2> QED BY <2>1 DEF Piece, Part, JumpsWithin
<1>2. CASE s # <<>>
  <2>1. PICK f : /\ \A k \in DOMAIN s : f[k] = IF k = 1 THEN s[k] ELSE f[k - 1] \o s[k]
                 /\ FlattenSeq(s) = f[Len(s)]
    BY <1>2, FlattenUnfolds
  <2> DEFINE T == {m \in 1 .. Len(s) : /\ Piece(f[m], outer)
                                       /\ \A k \in 1 .. m : Bound(s[k]) \subseteq Bound(f[m])}
  <2>2. Len(s) # 0
    BY <1>2 DEF IsSequence
  <2>3. 1 \in T
    <3>1. f[1] = s[1] /\ 1 \in DOMAIN s
      BY <1>0, <2>1, <2>2
    <3> QED BY <1>0, <3>1
  <2>4. ASSUME NEW m \in 1 .. Len(s) - 1, m \in T PROVE m + 1 \in T
    <3>1. f[m + 1] = f[m] \o s[m + 1] /\ m + 1 \in DOMAIN s
      <4>1. m + 1 \in DOMAIN s /\ m + 1 # 1 /\ (m + 1) - 1 = m
        BY <1>0
      <4> QED BY <2>1, <4>1
    <3>2. Piece(f[m], outer) /\ Piece(s[m + 1], outer)
      BY <2>4, <3>1
    <3>3. Piece(f[m + 1], outer) /\ Bound(f[m + 1]) = Bound(f[m]) \cup Bound(s[m + 1])
      BY <3>1, <3>2, Joining
    <3>4. ASSUME NEW k \in 1 .. m + 1 PROVE Bound(s[k]) \subseteq Bound(f[m + 1])
      BY <2>4, <3>3
    <3> QED BY <1>0, <3>1, <3>3, <3>4
  <2> HIDE DEF T
  <2>5. 1 .. Len(s) \subseteq T
    <3>1. 1 \in Nat
      OBVIOUS
    <3> QED BY <1>0, <2>3, <2>4, <3>1, IntervalInduction
  <2>6. Len(s) \in T
    BY <1>0, <2>2, <2>5
  <2> QED BY <1>0, <2>1, <2>6 DEF T
<1> QED BY <1>1, <1>2
LEMMA FunctionIsSequence ==
  ASSUME NEW n \in Nat, NEW s, s = [k \in 1 .. n |-> s[k]]
  PROVE  IsSequence(s) /\ DOMAIN s = 1 .. n
<1> DEFINE S == {s[k] : k \in DOMAIN s}
<1>1. DOMAIN s = 1 .. n
  OBVIOUS
<1>2. \A k \in 1 .. n : s[k] \in S
  BY <1>1
<1> HIDE DEF S
<1>3. s \in Seq(S)
  BY <1>1, <1>2
<1> QED BY <1>1, <1>3 DEF IsSequence, S

\* Code of n instructions, all of a body.
LEMMA StraightPiece ==
  ASSUME NEW n \in Nat, NEW c, c = [k \in 1 .. n |-> c[k]], NEW outer,
         \A k \in 1 .. n : Body(c[k]),
         \A k \in 1 .. n : c[k].op \in {"jump", "jumpIf"} => c[k].n \in outer \cup Bound(c)
  PROVE  Piece(c, outer)
BY FunctionIsSequence DEF Piece, Part, JumpsWithin

\* Straight(i): neither a jump nor an instruction of the prologue or epilogue.
Straight(i) == Body(i) /\ i.op \notin {"jump", "jumpIf"}

\* Code without jumps is a piece.
LEMMA StraightCode ==
  ASSUME NEW n \in Nat, NEW c, c = [k \in 1 .. n |-> c[k]], NEW outer,
         \A k \in 1 .. n : Straight(c[k])
  PROVE  Piece(c, outer)
BY StraightPiece DEF Straight

LEMMA StraightInstructions ==
  /\ \A to, v : Straight(Spilled(to, v))
  /\ \A v, from : Straight(Spill(v, from))
  /\ \A to, base, n : Straight(LoadSlot(to, base, n))
  /\ \A base, n, from : base # "rsp" => Straight(StoreSlot(base, n, from))
  /\ \A to, from : Straight(Move(to, from))
  /\ \A to, word : Straight(Immediate(to, word))
  /\ \A to, field : Straight(LoadField(to, field))
  /\ \A field, from : Straight(StoreField(field, from))
  /\ \A to, base, n : Straight(SlotAddress(to, base, n))
  /\ \A operator, to, from : Straight(Alu(operator, to, from))
  /\ \A to, callee : Straight(Function(to, callee))
  /\ \A r : Straight(Test(r))
  /\ \A left, right : Straight(Compare(left, right)) /\ Straight(CompareDouble(left, right))
  /\ Straight(Divide)
  /\ \A condition, to : Straight(SetIf(condition, to))
  /\ \A l : Straight(Bind(l))
  /\ \A r : Straight(CallThrough(r)) /\ Straight(CallHost(r))
BY DEF Straight, Body, X, Spilled, LoadSlot, Spill, StoreSlot, Move, Immediate, LoadField,
       StoreField, SlotAddress, Alu, Function, Test, Compare, CompareDouble, Divide, SetIf,
       Bind, CallThrough, CallHost

LEMMA JumpInstructions ==
  /\ \A l : Body(Jump(l)) /\ Jump(l).n = l
  /\ \A condition, l : Body(JumpIf(condition, l)) /\ JumpIf(condition, l).n = l
  /\ \A l : Bind(l).op = "label" /\ Bind(l).n = l
BY DEF Body, X, Jump, JumpIf, Bind

\* What is emitted for each kind of instruction is a piece.
LEMMA DivisionPiece ==
  ASSUME NEW fn, NEW i, NEW outer, DivisionFailure(fn) \in outer
  PROVE  Piece(EmitDivision(fn, i), outer)
<1> DEFINE c == EmitDivision(fn, i)
           safe == OwnLabel(fn, i.result, 0)
<1>1. c = [k \in 1 .. 13 |-> c[k]]
  BY DEF EmitDivision
<1>2. \A k \in 1 .. 13 : Straight(c[k]) \/ c[k] = JumpIf("equal", DivisionFailure(fn))
                         \/ c[k] = JumpIf("notEqual", safe)
  BY StraightInstructions DEF EmitDivision
<1>3. safe \in Bound(c)
  BY <1>1 DEF EmitDivision, Bound, Bind, X
<1> HIDE DEF c, safe
<1>4. \A k \in 1 .. 13 : Body(c[k])
  BY <1>2, JumpInstructions DEF Straight
<1>5. \A k \in 1 .. 13 : c[k].op \in {"jump", "jumpIf"} => c[k].n \in outer \cup Bound(c)
  BY <1>2, <1>3, JumpInstructions DEF Straight
<1>6. 13 \in Nat
  OBVIOUS
<1>7. Piece(c, outer)
  BY <1>1, <1>4, <1>5, <1>6, StraightPiece
<1> QED BY <1>7 DEF c

LEMMA ArithmeticPiece ==
  ASSUME NEW fn, NEW i, NEW outer, DivisionFailure(fn) \in outer
  PROVE  Piece(EmitArithmetic(fn, i), outer)
<1> DEFINE c == EmitArithmetic(fn, i)
<1>1. CASE i.type = "f64"
  <2>1. c = [k \in 1 .. 7 |-> c[k]]
    BY <1>1 DEF EmitArithmetic
  <2>2. \A k \in 1 .. 7 : Straight(c[k])
    BY <1>1, StraightInstructions DEF EmitArithmetic
  <2> HIDE DEF c
  <2>3. 7 \in Nat
    OBVIOUS
  <2>4. Piece(c, outer)
    BY <2>1, <2>2, <2>3, StraightCode
  <2> QED BY <2>4 DEF c
<1>2. CASE i.type # "f64" /\ i.operator \in {"div", "rem"}
  BY <1>2, DivisionPiece DEF EmitArithmetic
<1>3. CASE i.type # "f64" /\ i.operator \notin {"div", "rem"}
  <2>1. c = [k \in 1 .. 4 |-> c[k]]
    BY <1>3 DEF EmitArithmetic
  <2>2. \A k \in 1 .. 4 : Straight(c[k])
    BY <1>3, StraightInstructions DEF EmitArithmetic
  <2> HIDE DEF c
  <2>3. 4 \in Nat
    OBVIOUS
  <2>4. Piece(c, outer)
    BY <2>1, <2>2, <2>3, StraightCode
  <2> QED BY <2>4 DEF c
<1> QED BY <1>1, <1>2, <1>3

LEMMA NegationPiece ==
  ASSUME NEW i, NEW outer
  PROVE  Piece(EmitNegation(i), outer)
<1> DEFINE c == EmitNegation(i)
           n == IF i.type = "i64" THEN 3 ELSE 4
<1>1. c = [k \in 1 .. n |-> c[k]]
  BY SMTT(30) DEF EmitNegation
<1>2. \A k \in 1 .. n : Straight(c[k])
  BY StraightInstructions DEF EmitNegation
<1>3. n \in Nat
  OBVIOUS
<1> HIDE DEF c, n
<1>4. Piece(c, outer)
  BY <1>1, <1>2, <1>3, StraightCode
<1> QED BY <1>4 DEF c

LEMMA FloatingComparisonPiece ==
  ASSUME NEW fn, NEW i, NEW outer
  PROVE  Piece(EmitFloatingComparison(fn, i), outer)
<1> DEFINE c == EmitFloatingComparison(fn, i)
           ordered == OwnLabel(fn, i.result, 0)
           done == OwnLabel(fn, i.result, 1)
<1>1. c = [k \in 1 .. 13 |-> c[k]]
  BY DEF EmitFloatingComparison
<1>2. \A k \in 1 .. 13 : Straight(c[k]) \/ c[k] = JumpIf("notParity", ordered) \/ c[k] = Jump(done)
  BY StraightInstructions DEF EmitFloatingComparison
<1>3. ordered \in Bound(c) /\ done \in Bound(c)
  <2>1. c[9] = Bind(ordered) /\ c[12] = Bind(done)
    BY DEF EmitFloatingComparison
  <2>2. 9 \in DOMAIN c /\ 12 \in DOMAIN c
    BY <1>1
  <2> HIDE DEF c, ordered, done
  <2> QED BY <2>1, <2>2, JumpInstructions DEF Bound
<1> HIDE DEF c, ordered, done
<1>4. \A k \in 1 .. 13 : Body(c[k])
  BY <1>2, JumpInstructions DEF Straight
<1>5. \A k \in 1 .. 13 : c[k].op \in {"jump", "jumpIf"} => c[k].n \in outer \cup Bound(c)
  BY <1>2, <1>3, JumpInstructions DEF Straight
<1>6. 13 \in Nat
  OBVIOUS
<1>7. Piece(c, outer)
  BY <1>1, <1>4, <1>5, <1>6, StraightPiece
<1> QED BY <1>7 DEF c

LEMMA ComparisonPiece ==
  ASSUME NEW fn, NEW i, NEW outer
  PROVE  Piece(EmitComparison(fn, i), outer)
<1> DEFINE c == EmitComparison(fn, i)
<1>1. CASE i.type = "f64"
  BY <1>1, FloatingComparisonPiece DEF EmitComparison
<1>2. CASE i.type # "f64"
  <2>1. c = [k \in 1 .. 6 |-> c[k]]
    BY <1>2 DEF EmitComparison
  <2>2. \A k \in 1 .. 6 : Straight(c[k])
    BY <1>2, StraightInstructions DEF EmitComparison
  <2> HIDE DEF c
  <2>3. 6 \in Nat
    OBVIOUS
  <2>4. Piece(c, outer)
    BY <2>1, <2>2, <2>3, StraightCode
  <2> QED BY <2>4 DEF c
<1> QED BY <1>1, <1>2

LEMMA HostCallPiece ==
  ASSUME NEW p, NEW i, NEW outer
  PROVE  Piece(EmitHostCall(p, i), outer)
<1> DEFINE c == EmitHostCall(p, i)
           types == p[i.callee].parameterTypes
<1>0. <<"i64">> # <<"f64">>
  OBVIOUS
<1>1. CASE types = <<"f64">>
  <2>1. c = <<Spilled("rax", i.uses[1]), Move("xmm0", "rax"), CallHost(i.callee)>>
    BY <1>0, <1>1 DEF EmitHostCall
  <2>2. c = [k \in 1 .. 3 |-> c[k]]
    BY <2>1
  <2>3. \A k \in 1 .. 3 : Straight(c[k])
    BY <2>1, StraightInstructions
  <2> HIDE DEF c
  <2>4. 3 \in Nat
    OBVIOUS
  <2>5. Piece(c, outer)
    BY <2>2, <2>3, <2>4, StraightCode
  <2> QED BY <2>5 DEF c
<1>2. CASE types # <<"f64">>
  <2>1. \/ c = <<Spilled("rcx", i.uses[1]), CallHost(i.callee)>>
        \/ c = <<CallHost(i.callee), Spill(i.result, "rax")>>
    BY <1>2 DEF EmitHostCall
  <2> HIDE DEF c
  <2>2. c = [k \in 1 .. 2 |-> c[k]]
    BY <2>1
  <2>3. \A k \in 1 .. 2 : Straight(c[k])
    BY <2>1, StraightInstructions
  <2>4. 2 \in Nat
    OBVIOUS
  <2>5. Piece(c, outer)
    BY <2>2, <2>3, <2>4, StraightCode
  <2> QED BY <2>5 DEF c
<1> QED BY <1>1, <1>2

LEMMA UserCallPiece ==
  ASSUME NEW fn, NEW i, IsSequence(i.uses), NEW outer, CallFailure(fn) \in outer
  PROVE  Piece(EmitUserCall(fn, i), outer)
<1> DEFINE passing == [k \in DOMAIN i.uses |-> <<Spilled("rax", i.uses[k]), StoreSlot("r14", k, "rax")>>]
           calling == <<Move("rcx", "r12"), Function("rdx", i.callee),
              Move("r8", "r14"), Immediate("r9", Len(i.uses)),
              IF i.result = NoValue THEN Immediate("rax", 0) ELSE SlotAddress("rax", "r13", i.result),
              StoreSlot("rsp", 5, "rax"), LoadField("rax", "callBridge"), CallThrough("rax")>>
           checking == CheckedStatus(fn)
<1>1. Piece(FlattenSeq(passing), outer)
  <2>1. DOMAIN i.uses = 1 .. Len(i.uses) /\ Len(i.uses) \in Nat
    BY CodeIsSequence
  <2>2. IsSequence(passing) /\ DOMAIN passing = DOMAIN i.uses
    <3>1. passing = [k \in 1 .. Len(i.uses) |-> passing[k]]
      BY <2>1
    <3> HIDE DEF passing
    <3> QED BY <2>1, <3>1, FunctionIsSequence
  <2>3. ASSUME NEW k \in DOMAIN passing PROVE Piece(passing[k], outer)
    <3> DEFINE c == <<Spilled("rax", i.uses[k]), StoreSlot("r14", k, "rax")>>
    <3>1. c = [l \in 1 .. 2 |-> c[l]]
      OBVIOUS
    <3>2. \A l \in 1 .. 2 : Straight(c[l])
      BY StraightInstructions
    <3>3. passing[k] = c
      OBVIOUS
    <3> HIDE DEF c
    <3>4. 2 \in Nat
      OBVIOUS
    <3> QED BY <3>1, <3>2, <3>3, <3>4, StraightCode
  <2> HIDE DEF passing
  <2> QED BY <2>2, <2>3, Flattening
<1>2. Piece(calling, outer)
  <2>1. calling = [k \in 1 .. 8 |-> calling[k]]
    OBVIOUS
  <2>2. Straight(StoreSlot("rsp", 5, "rax"))
    BY DEF Straight, Body, StoreSlot, X, CallArea
  <2>3. \A k \in 1 .. 8 : Straight(calling[k])
    BY <2>2, StraightInstructions
  <2>4. 8 \in Nat
    OBVIOUS
  <2> HIDE DEF calling
  <2> QED BY <2>1, <2>3, <2>4, StraightCode
<1>3. Piece(checking, outer)
  <2>1. checking = [k \in 1 .. 2 |-> checking[k]]
    BY DEF CheckedStatus
  <2>2. \A k \in 1 .. 2 : Straight(checking[k]) \/ checking[k] = JumpIf("notEqual", CallFailure(fn))
    BY StraightInstructions DEF CheckedStatus
  <2> HIDE DEF checking
  <2>3. \A k \in 1 .. 2 : Body(checking[k])
    BY <2>2, JumpInstructions DEF Straight
  <2>4. \A k \in 1 .. 2 : checking[k].op \in {"jump", "jumpIf"} => checking[k].n \in outer \cup Bound(checking)
    BY <2>2, JumpInstructions DEF Straight
  <2>5. 2 \in Nat
    OBVIOUS
  <2> QED BY <2>1, <2>3, <2>4, <2>5, StraightPiece
<1>4. EmitUserCall(fn, i) = FlattenSeq(passing) \o calling \o checking
  BY DEF EmitUserCall
<1> HIDE DEF passing, calling, checking
<1>5. Piece(FlattenSeq(passing) \o calling, outer)
  BY <1>1, <1>2, Joining
<1> QED BY <1>3, <1>4, <1>5, Joining

-----------------------------------------------------------------------------
(* What the verifier does not look at, as the types of C++ ensure it: a    *)
(* function is made of sequences of instructions of the known kinds.       *)

\* The kinds of IR instructions.
Kinds == {"parameter", "constant", "load", "store", "negate", "arithmetic", "compare", "call"}

\* An instruction has a kind and a vector of uses.
Shaped(i) ==
  /\ DOMAIN i = {"op", "type", "operator", "result", "uses", "local", "word", "callee"}
  /\ i.op \in Kinds
  /\ IsSequence(i.uses)

ShapedTerminator(t) == {"kind", "value", "falseTarget", "trueTarget"} \subseteq DOMAIN t

ShapedBlock(block) ==
  /\ {"id", "instructions", "terminator"} \subseteq DOMAIN block
  /\ ShapedTerminator(block.terminator)
  /\ IsSequence(block.instructions)
  /\ \A n \in DOMAIN block.instructions : Shaped(block.instructions[n])

ShapedIr(fn) ==
  /\ {"parameterTypes", "returnType", "localTypes", "valueTypes", "blocks"} \subseteq DOMAIN fn
  /\ IsSequence(fn.parameterTypes) /\ IsSequence(fn.valueTypes)
  /\ IsSequence(fn.blocks)
  /\ \A b \in DOMAIN fn.blocks : ShapedBlock(fn.blocks[b])

\* Whatever is emitted for an instruction is a piece.
LEMMA InstructionPiece ==
  ASSUME NEW p, NEW fn, NEW i, Shaped(i), i.op # "parameter",
         NEW outer, DivisionFailure(fn) \in outer, CallFailure(fn) \in outer
  PROVE  Piece(EmitInstruction(p, fn, i), outer)
<1> DEFINE c == EmitInstruction(p, fn, i)
<1>1. CASE i.op \in {"constant", "load", "store"}
  <2>1. \/ c = <<Immediate("rax", i.word), Spill(i.result, "rax")>>
        \/ c = <<LoadSlot("rax", "rbx", i.local), Spill(i.result, "rax")>>
        \/ c = <<Spilled("rax", i.uses[1]), StoreSlot("rbx", i.local, "rax")>>
    BY <1>1 DEF EmitInstruction
  <2> HIDE DEF c
  <2>2. c = [k \in 1 .. 2 |-> c[k]]
    BY <2>1
  <2>3. \A k \in 1 .. 2 : Straight(c[k])
    BY <2>1, StraightInstructions
  <2>4. 2 \in Nat
    OBVIOUS
  <2>5. Piece(c, outer)
    BY <2>2, <2>3, <2>4, StraightCode
  <2> QED BY <2>5 DEF c
<1>2. CASE i.op = "negate"
  BY <1>2, NegationPiece DEF EmitInstruction
<1>3. CASE i.op = "arithmetic"
  BY <1>3, ArithmeticPiece DEF EmitInstruction
<1>4. CASE i.op = "compare"
  BY <1>4, ComparisonPiece DEF EmitInstruction
<1>5. CASE i.op = "call"
  <2>1. Piece(EmitUserCall(fn, i), outer)
    BY UserCallPiece DEF Shaped
  <2> QED BY <1>5, <2>1, HostCallPiece DEF EmitInstruction
<1> QED BY <1>1, <1>2, <1>3, <1>4, <1>5 DEF Shaped, Kinds

LEMMA EpiloguePiece ==
  ASSUME NEW outer
  PROVE  Piece(Epilogue, outer)
<1>1. IsSequence(Epilogue) /\ DOMAIN Epilogue = 1 .. 6
  BY EpilogueParts, SeqIsSequence, CodeIsSequence
<1>2. ASSUME NEW k \in 1 .. 6 PROVE EpilogueAt(Epilogue, k, k)
  BY <1>1 DEF EpilogueAt
<1>3. JumpsWithin(Epilogue, outer \cup Bound(Epilogue))
  BY <1>1, EpilogueDiffers DEF JumpsWithin
<1> QED BY <1>1, <1>2, <1>3 DEF Piece, Part

\* So is what is emitted for the end of a block,
LEMMA TerminatorPiece ==
  ASSUME NEW t, NEW outer,
         t.kind \in {"branch", "branchIfFalse", "returnValue", "returnVoid"},
         t.kind \in {"branch", "branchIfFalse"} => Targets(t) \subseteq outer
  PROVE  Piece(EmitTerminator(t), outer)
<1>1. CASE t.kind = "branch"
  <2> DEFINE c == <<Jump(t.trueTarget)>>
  <2>1. EmitTerminator(t) = c /\ t.trueTarget \in outer
    BY <1>1 DEF EmitTerminator, Targets
  <2>2. c = [k \in 1 .. 1 |-> c[k]] /\ \A k \in 1 .. 1 : c[k] = Jump(t.trueTarget)
    OBVIOUS
  <2>3. 1 \in Nat
    OBVIOUS
  <2> HIDE DEF c
  <2>4. /\ \A k \in 1 .. 1 : Body(c[k])
        /\ \A k \in 1 .. 1 : c[k].op \in {"jump", "jumpIf"} => c[k].n \in outer \cup Bound(c)
    BY <2>1, <2>2, JumpInstructions
  <2> QED BY <2>1, <2>2, <2>3, <2>4, StraightPiece, ZenonT(30)
<1>2. CASE t.kind = "branchIfFalse"
  <2> DEFINE c == <<Spilled("rax", t.value), Test("rax"),
                    JumpIf("equal", t.falseTarget), Jump(t.trueTarget)>>
  <2>1. EmitTerminator(t) = c /\ t.trueTarget \in outer /\ t.falseTarget \in outer
    BY <1>2 DEF EmitTerminator, Targets
  <2>2. c = [k \in 1 .. 4 |-> c[k]]
    OBVIOUS
  <2>3. \A k \in 1 .. 4 : Straight(c[k]) \/ c[k] = Jump(t.trueTarget)
                            \/ c[k] = JumpIf("equal", t.falseTarget)
    BY StraightInstructions
  <2>4. 4 \in Nat
    OBVIOUS
  <2> HIDE DEF c
  <2>5. \A k \in 1 .. 4 : Body(c[k])
    BY <2>3, JumpInstructions DEF Straight
  <2>6. \A k \in 1 .. 4 : c[k].op \in {"jump", "jumpIf"} => c[k].n \in outer \cup Bound(c)
    BY <2>1, <2>3, JumpInstructions DEF Straight
  <2>7. Piece(c, outer)
    BY <2>2, <2>4, <2>5, <2>6, StraightPiece
  <2> QED BY <2>1, <2>7
<1>3. ASSUME NEW i, Straight(i) PROVE Piece(<<i>> \o Epilogue, outer)
  <2> DEFINE c == <<i>>
  <2>1. c = [k \in 1 .. 1 |-> c[k]] /\ \A k \in 1 .. 1 : c[k] = i
    OBVIOUS
  <2>2. 1 \in Nat
    OBVIOUS
  <2> HIDE DEF c
  <2>3. Piece(c, outer)
    BY <1>3, <2>1, <2>2, StraightCode
  <2>4. Piece(c \o Epilogue, outer)
    BY <2>3, EpiloguePiece, Joining
  <2> QED BY <2>4 DEF c
<1>4. CASE t.kind \in {"returnValue", "returnVoid"}
  <2>1. Straight(Spilled("rax", t.value)) /\ Straight(Immediate("rax", 0))
    BY StraightInstructions
  <2> QED BY <1>3, <1>4, <2>1 DEF EmitTerminator
<1> QED BY <1>1, <1>2, <1>4

\* The labels that every block may jump to.
Outer(fn) == DOMAIN fn.blocks \cup {DivisionFailure(fn), CallFailure(fn)}

LEMMA LabelPiece ==
  ASSUME NEW l, NEW outer
  PROVE  Piece(<<Bind(l)>>, outer) /\ l \in Bound(<<Bind(l)>>)
<1> DEFINE c == <<Bind(l)>>
<1>1. c = [k \in 1 .. 1 |-> c[k]] /\ \A k \in 1 .. 1 : c[k] = Bind(l)
  OBVIOUS
<1>2. 1 \in Nat /\ 1 \in DOMAIN c /\ c[1] = Bind(l)
  OBVIOUS
<1> HIDE DEF c
<1>3. \A k \in 1 .. 1 : Straight(c[k])
  BY <1>1, StraightInstructions
<1>4. Piece(c, outer)
  BY <1>1, <1>2, <1>3, StraightCode
<1>5. l \in Bound(c)
  BY <1>2, JumpInstructions DEF Bound
<1> QED BY <1>4, <1>5 DEF c

\* and for a block, which binds its label.
LEMMA BlockPiece ==
  ASSUME NEW p, NEW fn, ShapedIr(fn), ParametersAreCanonical(fn), TerminatorsAreValid(fn),
         2 \in DOMAIN fn.blocks, NEW b \in DOMAIN fn.blocks
  PROVE  Piece(EmitBlock(p, fn, b), Outer(fn)) /\ b \in Bound(EmitBlock(p, fn, b))
<1> DEFINE outer == Outer(fn)
           block == fn.blocks[b]
<1>0. DivisionFailure(fn) \in outer /\ CallFailure(fn) \in outer /\ 2 \in outer
  BY DEF Outer
<1>1. CASE b = 1
  <2> DEFINE c == <<Bind(1), Jump(2)>>
  <2>1. EmitBlock(p, fn, b) = c
    BY <1>1 DEF EmitBlock
  <2>2. c = [k \in 1 .. 2 |-> c[k]] /\ c[1] = Bind(1)
    OBVIOUS
  <2>3. \A k \in 1 .. 2 : Straight(c[k]) \/ c[k] = Jump(2)
    BY StraightInstructions
  <2>4. 2 \in Nat /\ 1 \in DOMAIN c
    OBVIOUS
  <2> HIDE DEF c
  <2>5. /\ \A k \in 1 .. 2 : Body(c[k])
        /\ \A k \in 1 .. 2 : c[k].op \in {"jump", "jumpIf"} => c[k].n \in outer \cup Bound(c)
    BY <1>0, <2>3, JumpInstructions DEF Straight
  <2>6. Piece(c, outer)
    BY <2>2, <2>4, <2>5, StraightPiece
  <2>7. 1 \in Bound(c)
    BY <2>2, <2>4, JumpInstructions DEF Bound
  <2> QED BY <1>1, <2>1, <2>6, <2>7
<1>2. CASE b # 1
  <2> DEFINE pieces == [n \in DOMAIN block.instructions |-> EmitInstruction(p, fn, block.instructions[n])]
             label == <<Bind(b)>>
             end == EmitTerminator(block.terminator)
  <2>1. ShapedBlock(block)
    BY DEF ShapedIr
  <2>2. DOMAIN block.instructions = 1 .. Len(block.instructions) /\ Len(block.instructions) \in Nat
    BY <2>1, CodeIsSequence DEF ShapedBlock
  <2>3. IsSequence(pieces) /\ DOMAIN pieces = DOMAIN block.instructions
    <3>1. pieces = [k \in 1 .. Len(block.instructions) |-> pieces[k]]
      BY <2>2
    <3> HIDE DEF pieces
    <3> QED BY <2>2, <3>1, FunctionIsSequence
  <2>4. ASSUME NEW n \in DOMAIN pieces PROVE Piece(pieces[n], outer)
    <3> DEFINE i == block.instructions[n]
    <3>1. Shaped(i) /\ pieces[n] = EmitInstruction(p, fn, i)
      BY <2>1, <2>3 DEF ShapedBlock
    <3>2. i.op # "parameter"
      BY <1>2, <2>3 DEF ParametersAreCanonical
    <3> QED BY <1>0, <3>1, <3>2, InstructionPiece
  <2>5. Piece(FlattenSeq(pieces), outer)
    <3> HIDE DEF pieces, outer
    <3> QED BY <2>3, <2>4, Flattening
  <2>6. Piece(label, outer) /\ b \in Bound(label)
    BY LabelPiece
  <2>7. Piece(end, outer)
    <3>1. /\ block.terminator.kind \in {"branch", "branchIfFalse", "returnValue", "returnVoid"}
          /\ block.terminator.kind \in {"branch", "branchIfFalse"} =>
               Targets(block.terminator) \subseteq DOMAIN fn.blocks
      BY DEF TerminatorsAreValid
    <3> QED BY <3>1, TerminatorPiece DEF Outer
  <2>8. EmitBlock(p, fn, b) = label \o FlattenSeq(pieces) \o end
    BY <1>2 DEF EmitBlock
  <2> HIDE DEF pieces, label, end, outer
  <2>9. Piece(label \o FlattenSeq(pieces), outer) /\ b \in Bound(label \o FlattenSeq(pieces))
    BY <2>5, <2>6, Joining
  <2>10. /\ Piece(label \o FlattenSeq(pieces) \o end, outer)
         /\ b \in Bound(label \o FlattenSeq(pieces) \o end)
    BY <2>7, <2>9, Joining
  <2> QED BY <2>8, <2>10 DEF outer
<1> QED BY <1>1, <1>2

LEMMA JoinedAssociates ==
  ASSUME NEW a, NEW b, NEW c, IsSequence(a), IsSequence(b), IsSequence(c)
  PROVE  (a \o b) \o c = a \o (b \o c)
<1> DEFINE A == {a[k] : k \in DOMAIN a}
           B == {b[k] : k \in DOMAIN b}
           C == {c[k] : k \in DOMAIN c}
           S == A \cup B \cup C
<1>1. a \in Seq(A) /\ b \in Seq(B) /\ c \in Seq(C)
  BY DEF IsSequence
<1> HIDE DEF A, B, C
<1>2. a \in Seq(S) /\ b \in Seq(S) /\ c \in Seq(S)
  BY <1>1
<1> HIDE DEF S
<1> QED BY <1>2, ConcatAssociative

\* BaselineCompiler lays out all verified IR that it supports by the convention.
LEMMA CompiledIsConventional ==
  ASSUME NEW p, NEW fn, ShapedIr(fn), Verified(p, fn), Supported(p, fn)
  PROVE  Conventional(Compile(p, fn))
<1> DEFINE outer == Outer(fn)
           blocks == [b \in DOMAIN fn.blocks |-> EmitBlock(p, fn, b)]
           body == FlattenSeq(blocks)
           failed == <<Bind(DivisionFailure(fn)), Immediate("rax", InvalidI64Division),
                       StoreField("errorCode", "rax"), Immediate("rax", 0)>>
           stopped == <<Bind(CallFailure(fn)), Immediate("rax", 0)>>
<1>1. DOMAIN fn.blocks = 1 .. Len(fn.blocks) /\ Len(fn.blocks) \in Nat
  BY CodeIsSequence DEF ShapedIr
<1>2. 2 \in DOMAIN fn.blocks
  BY <1>1 DEF Supported
<1>3. \A b \in DOMAIN fn.blocks : Piece(blocks[b], outer) /\ b \in Bound(blocks[b])
  BY <1>2, BlockPiece DEF Verified
<1>4. IsSequence(blocks) /\ DOMAIN blocks = DOMAIN fn.blocks
  <2>1. blocks = [k \in 1 .. Len(fn.blocks) |-> blocks[k]]
    BY <1>1
  <2> HIDE DEF blocks
  <2> QED BY <1>1, <2>1, FunctionIsSequence
<1>5. Piece(body, outer) /\ DOMAIN fn.blocks \subseteq Bound(body)
  <2> HIDE DEF blocks, outer
  <2>1. Piece(body, outer) /\ \A b \in DOMAIN fn.blocks : Bound(blocks[b]) \subseteq Bound(body)
    BY <1>3, <1>4, Flattening
  <2> QED BY <1>3, <2>1
<1>6. Piece(failed, outer) /\ DivisionFailure(fn) \in Bound(failed)
  <2>1. failed = [k \in 1 .. 4 |-> failed[k]] /\ failed[1] = Bind(DivisionFailure(fn)) /\ 1 \in DOMAIN failed
    OBVIOUS
  <2>2. \A k \in 1 .. 4 : Straight(failed[k])
    BY StraightInstructions
  <2>3. 4 \in Nat
    OBVIOUS
  <2> HIDE DEF failed
  <2>4. DivisionFailure(fn) \in Bound(failed)
    BY <2>1, JumpInstructions DEF Bound
  <2> QED BY <2>1, <2>2, <2>3, <2>4, StraightCode
<1>7. Piece(stopped, outer) /\ CallFailure(fn) \in Bound(stopped)
  <2>1. stopped = [k \in 1 .. 2 |-> stopped[k]] /\ stopped[1] = Bind(CallFailure(fn)) /\ 1 \in DOMAIN stopped
    OBVIOUS
  <2>2. \A k \in 1 .. 2 : Straight(stopped[k])
    BY StraightInstructions
  <2>3. 2 \in Nat
    OBVIOUS
  <2> HIDE DEF stopped
  <2>4. CallFailure(fn) \in Bound(stopped)
    BY <2>1, JumpInstructions DEF Bound
  <2> QED BY <2>1, <2>2, <2>3, <2>4, StraightCode
<1>8. Compile(p, fn) = Prologue \o body \o failed \o Epilogue \o stopped \o Epilogue
  BY DEF Compile
<1> HIDE DEF outer, blocks, body, failed, stopped
<1>9. Piece(Epilogue, outer)
  BY EpiloguePiece
<1>10. IsSequence(Prologue)
  BY PrologueParts, SeqIsSequence
<1> DEFINE one == body \o failed
           two == one \o Epilogue
           three == two \o stopped
           rest == three \o Epilogue
<1>11. Piece(one, outer) /\ Bound(one) = Bound(body) \cup Bound(failed)
  BY <1>5, <1>6, Joining
<1> HIDE DEF one
<1>12. Piece(two, outer) /\ Bound(one) \subseteq Bound(two)
  <2>1. Piece(one, outer)
    BY <1>11
  <2> QED BY ONLY <1>9, <2>1, Joining DEF two
<1> HIDE DEF two
<1>13. Piece(three, outer) /\ Bound(two) \cup Bound(stopped) = Bound(three)
  BY <1>7, <1>12, Joining
<1> HIDE DEF three
<1>14. Piece(rest, outer) /\ Bound(three) \subseteq Bound(rest)
  BY <1>9, <1>13, Joining, SMTT(30)
<1> HIDE DEF rest
<1>15. outer \subseteq Bound(rest)
  BY <1>5, <1>6, <1>7, <1>11, <1>12, <1>13, <1>14 DEF outer, Outer
<1>16. Compile(p, fn) = Prologue \o rest
  <2>1. /\ IsSequence(body) /\ IsSequence(failed) /\ IsSequence(Epilogue) /\ IsSequence(stopped)
        /\ IsSequence(one) /\ IsSequence(two) /\ IsSequence(three)
    BY <1>5, <1>6, <1>7, <1>9, <1>11, <1>12, <1>13 DEF Piece, Part
  <2>2. (Prologue \o body) \o failed = Prologue \o one
    <3>1. IsSequence(body) /\ IsSequence(failed)
      BY <2>1
    <3> QED BY ONLY <1>10, <3>1, JoinedAssociates, SMTT(30) DEF one
  <2>3. (Prologue \o one) \o Epilogue = Prologue \o two
    <3>1. IsSequence(one) /\ IsSequence(Epilogue)
      BY <2>1
    <3> QED BY ONLY <1>10, <3>1, JoinedAssociates DEF two
  <2>4. (Prologue \o two) \o stopped = Prologue \o three
    <3>1. IsSequence(two) /\ IsSequence(stopped)
      BY <2>1
    <3> QED BY ONLY <1>10, <3>1, JoinedAssociates DEF three
  <2>5. (Prologue \o three) \o Epilogue = Prologue \o rest
    <3>1. IsSequence(three) /\ IsSequence(Epilogue)
      BY <2>1
    <3> QED BY ONLY <1>10, <3>1, JoinedAssociates DEF rest
  <2> QED BY <1>8, <2>2, <2>3, <2>4, <2>5
<1> DEFINE c == Prologue \o rest
<1>17. /\ IsSequence(c) /\ Len(rest) \in Nat /\ DOMAIN rest = 1 .. Len(rest)
       /\ DOMAIN c = 1 .. 9 + Len(rest)
       /\ \A k \in 1 .. 9 : c[k] = Prologue[k]
       /\ \A k \in 1 .. Len(rest) : c[9 + k] = rest[k]
  <2>1. IsSequence(rest)
    BY <1>14 DEF Piece, Part
  <2>2. /\ IsSequence(c) /\ Len(rest) \in Nat /\ DOMAIN rest = 1 .. Len(rest)
        /\ DOMAIN c = 1 .. Len(Prologue) + Len(rest)
        /\ \A k \in 1 .. Len(Prologue) : c[k] = Prologue[k]
        /\ \A k \in 1 .. Len(rest) : c[Len(Prologue) + k] = rest[k]
    BY ONLY <1>10, <2>1, Joined
  <2>3. Len(Prologue) = 9
    BY PrologueParts
  <2> QED BY <2>2, <2>3
<1> HIDE DEF c
<1>18. ASSUME NEW k \in DOMAIN c, k > 9
       PROVE  Body(c[k]) \/ \E j \in 1 .. 6 : EpilogueAt(c, k, j)
  <2>1. PICK l \in DOMAIN rest : k = 9 + l
    <3>1. k - 9 \in 1 .. Len(rest) /\ k = 9 + (k - 9)
      BY <1>17, <1>18
    <3> QED BY <1>17, <3>1
  <2>2. c[k] = rest[l]
    BY <1>17, <2>1
  <2>3. ASSUME NEW j \in 1 .. 6, EpilogueAt(rest, l, j) PROVE EpilogueAt(c, k, j)
    <3>1. j > 1 => k - 1 \in DOMAIN c /\ c[k - 1] = Epilogue[j - 1]
      <4> SUFFICES ASSUME j > 1 PROVE k - 1 \in DOMAIN c /\ c[k - 1] = Epilogue[j - 1]
        OBVIOUS
      <4>1. l - 1 \in DOMAIN rest /\ rest[l - 1] = Epilogue[j - 1]
        BY <2>3 DEF EpilogueAt
      <4>2. k - 1 = 9 + (l - 1)
        BY <1>17, <2>1
      <4>3. l - 1 \in 1 .. Len(rest)
        BY <1>17, <4>1
      <4>4. 9 + (l - 1) \in DOMAIN c /\ c[9 + (l - 1)] = rest[l - 1]
        BY ONLY <1>17, <4>3, SMTT(30)
      <4> QED BY <4>1, <4>2, <4>4
    <3>2. j < 6 => k + 1 \in DOMAIN c /\ c[k + 1] = Epilogue[j + 1]
      <4> SUFFICES ASSUME j < 6 PROVE k + 1 \in DOMAIN c /\ c[k + 1] = Epilogue[j + 1]
        OBVIOUS
      <4>1. l + 1 \in DOMAIN rest /\ rest[l + 1] = Epilogue[j + 1]
        BY <2>3 DEF EpilogueAt
      <4>2. k + 1 = 9 + (l + 1)
        BY <1>17, <2>1
      <4>3. l + 1 \in 1 .. Len(rest)
        BY <1>17, <4>1
      <4>4. 9 + (l + 1) \in DOMAIN c /\ c[9 + (l + 1)] = rest[l + 1]
        BY ONLY <1>17, <4>3, SMTT(30)
      <4> QED BY <4>1, <4>2, <4>4
    <3> QED BY <2>2, <2>3, <3>1, <3>2 DEF EpilogueAt
  <2> QED BY <1>14, <2>1, <2>2, <2>3 DEF Piece, Part
<1>19. Bound(rest) \subseteq Bound(c)
  <2> SUFFICES ASSUME NEW l \in DOMAIN rest, rest[l].op = "label" PROVE rest[l].n \in Bound(c)
    BY DEF Bound
  <2>1. 9 + l \in DOMAIN c /\ c[9 + l] = rest[l]
    BY <1>17
  <2> QED BY <2>1 DEF Bound
<1>20. JumpsWithin(c, Bound(c))
  <2> SUFFICES ASSUME NEW k \in DOMAIN c, c[k].op \in {"jump", "jumpIf"}
               PROVE  c[k].n \in Bound(c)
    BY DEF JumpsWithin
  <2>1. k > 9
    <3> SUFFICES ASSUME k \in 1 .. 9 PROVE FALSE
      BY <1>17
    <3>1. k \in {1, 2, 3, 4, 5, 6, 7, 8, 9} /\ c[k] = Prologue[k]
      BY <1>17
    <3> QED BY <3>1, PrologueParts DEF Push, Grow, X
  <2>2. k - 9 \in DOMAIN rest /\ k = 9 + (k - 9)
    BY <1>17, <2>1
  <2>3. c[k] = rest[k - 9]
    BY <1>17, <2>2
  <2> QED BY <1>14, <1>15, <1>19, <2>2, <2>3 DEF Piece, JumpsWithin
<1>21. 9 \in DOMAIN c
  BY <1>17
<1>22. Conventional(c)
  BY <1>17, <1>18, <1>20, <1>21 DEF Conventional
<1> QED BY <1>16, <1>22 DEF c

\* A set of natural numbers that goes no further than one of them has a greatest element.
LEMMA GreatestNatural ==
  ASSUME NEW n \in Nat, NEW T, T \subseteq 0 .. n, T # {}
  PROVE  \E x \in T : \A y \in T : y <= x
<1> DEFINE D == {d \in 0 .. n : n - d \in T}
<1>1. D # {}
  <2>1. PICK t \in T : TRUE
    OBVIOUS
  <2>2. t \in 0 .. n
    OBVIOUS
  <2>3. n - t \in 0 .. n /\ n - (n - t) = t
    BY <2>2
  <2> QED BY <2>1, <2>3
<1>2. PICK d \in D : \A c \in D : d <= c
  <2>1. D \subseteq Nat
    OBVIOUS
  <2> HIDE DEF D
  <2> QED BY <1>1, <2>1, LeastNatural
<1>3. ASSUME NEW y \in T PROVE y <= n - d
  <2>1. y \in 0 .. n /\ n - y \in 0 .. n /\ n - (n - y) = y
    OBVIOUS
  <2>2. n - y \in D
    BY <2>1
  <2> HIDE DEF D
  <2>3. d \in Int /\ d <= n - y
    BY <1>2, <2>2 DEF D
  <2> QED BY <2>1, <2>3
<1> QED BY <1>3
-----------------------------------------------------------------------------
(* Folds, which take the elements of a set of positions one by one.        *)

\* The last of some positions, and the others.
LEMMA LastOfSubset ==
  ASSUME NEW m \in Nat, NEW S \in SUBSET (1 .. m + 1), S # {}
  PROVE  /\ Max(S) \in S /\ \A x \in S : x <= Max(S)
         /\ S \ {Max(S)} \in SUBSET (1 .. m)
<1>1. PICK x \in S : \A y \in S : y <= x
  <2>1. S \subseteq 0 .. m + 1 /\ m + 1 \in Nat
    OBVIOUS
  <2> QED BY <2>1, GreatestNatural
<1>2. \A y \in S : x >= y
  BY <1>1
<1>3. Max(S) \in S /\ \A y \in S : Max(S) >= y
  BY <1>1, <1>2 DEF Max
<1>4. ASSUME NEW y \in S, y # Max(S) PROVE y \in 1 .. m
  <2>1. y \in 1 .. m + 1 /\ Max(S) \in 1 .. m + 1
    BY <1>3
  <2> QED BY <1>3, <1>4, <2>1
<1> QED BY <1>3, <1>4

LEMMA LastOfInterval ==
  ASSUME NEW k \in Nat, k # 0
  PROVE  1 .. k # {} /\ Max(1 .. k) = k /\ (1 .. k) \ {k} = 1 .. k - 1
<1>1. k \in 1 .. k /\ k - 1 \in Nat /\ 1 .. k \in SUBSET (1 .. (k - 1) + 1)
  OBVIOUS
<1>2. Max(1 .. k) \in 1 .. k /\ k <= Max(1 .. k)
  BY <1>1, LastOfSubset
<1> QED BY <1>1, <1>2


\* One step of each of the folds of the compiler.
Stepped(fold, p, f, s, x) ==
  CASE fold = "instructions" -> LowerInstruction(p, f, s, x)
    [] fold = "blocks"       -> LowerBlock(p, f, s, x)
    [] fold = "propagation"  -> PropagateInstruction(s, x)
    [] fold = "epochs"       -> PropagateBlock(s, x)
    [] fold = "liveness"     -> KeepIfNeeded(s, x)
    [] fold = "learning"     -> Learn(s, x)

\* The folds, named: the provers cannot read a fact about one of them otherwise.
LoweredInstructions(p, f, first, s) ==
  FoldLeft(LAMBDA t, pc : LowerInstruction(p, f, t, pc), first, s)

LoweredBlocks(p, f, first, s) ==
  FoldLeft(LAMBDA fn, leader : LowerBlock(p, f, fn, leader), first, s)

PropagatedInstructions(first, s) == FoldLeft(PropagateInstruction, first, s)

PropagatedBlocks(first, s) == FoldLeft(PropagateBlock, first, s)

NeededInstructions(first, s) == FoldLeft(KeepIfNeeded, first, s)

LearnedFacts(first, s) == FoldLeft(Learn, first, s)

\* g gives, for a set of positions of s, what the steps at these make of first.
Folding(g, fold, p, f, first, s, n) ==
  g = [S \in SUBSET (1 .. n) |->
         IF S = {} THEN first ELSE Stepped(fold, p, f, g[S \ {Max(S)}], s[Max(S)])]

\* For every sequence there is such a function.
LEMMA FoldExists ==
  ASSUME NEW fold, NEW p, NEW f, NEW first, NEW s, NEW n \in Nat
  PROVE  \E g : Folding(g, fold, p, f, first, s, n)
<1> DEFINE T == {m \in 0 .. n : \E g : Folding(g, fold, p, f, first, s, m)}
<1>1. 0 \in T
  <2> DEFINE g == [S \in SUBSET (1 .. 0) |-> first]
  <2>1. g = [S \in SUBSET (1 .. 0) |->
         IF S = {} THEN first ELSE Stepped(fold, p, f, g[S \ {Max(S)}], s[Max(S)])]
    OBVIOUS
  <2> HIDE DEF g
  <2>2. Folding(g, fold, p, f, first, s, 0)
    BY <2>1 DEF Folding
  <2> QED BY <2>2
<1>2. ASSUME NEW m \in 0 .. n - 1, m \in T PROVE m + 1 \in T
  <2>1. PICK g : Folding(g, fold, p, f, first, s, m)
    BY <1>2
  <2> DEFINE h == [S \in SUBSET (1 .. m + 1) |->
               IF S = {} THEN first ELSE Stepped(fold, p, f, g[S \ {Max(S)}], s[Max(S)])]
  <2>2. ASSUME NEW S \in SUBSET (1 .. m + 1), S # {} PROVE h[S \ {Max(S)}] = g[S \ {Max(S)}]
    <3>1. S \ {Max(S)} \in SUBSET (1 .. m)
      BY <2>2, LastOfSubset
    <3> DEFINE R == S \ {Max(S)}
    <3> HIDE DEF R
    <3>2. R \in SUBSET (1 .. m) /\ R \in SUBSET (1 .. m + 1)
      BY <3>1 DEF R
    <3>3. g[R] = IF R = {} THEN first ELSE Stepped(fold, p, f, g[R \ {Max(R)}], s[Max(R)])
      BY <2>1, <3>2 DEF Folding
    <3>4. h[R] = IF R = {} THEN first ELSE Stepped(fold, p, f, g[R \ {Max(R)}], s[Max(R)])
      BY <3>2
    <3> HIDE DEF h
    <3> QED BY <3>3, <3>4 DEF R
  <2>3. Folding(h, fold, p, f, first, s, m + 1)
    <3>1. ASSUME NEW S \in SUBSET (1 .. m + 1)
          PROVE  h[S] = IF S = {} THEN first ELSE Stepped(fold, p, f, h[S \ {Max(S)}], s[Max(S)])
      <4>1. h[S] = IF S = {} THEN first ELSE Stepped(fold, p, f, g[S \ {Max(S)}], s[Max(S)])
        OBVIOUS
      <4> HIDE DEF h
      <4> QED BY <2>2, <4>1
    <3>2. h = [S \in SUBSET (1 .. m + 1) |-> h[S]]
      OBVIOUS
    <3> HIDE DEF h
    <3> QED BY <3>1, <3>2 DEF Folding
  <2> HIDE DEF h
  <2> QED BY <2>3
<1> HIDE DEF T
<1>3. 0 .. n \subseteq T
  BY <1>1, <1>2, IntervalInduction
<1>4. n \in T
  BY <1>3
<1> QED BY <1>4 DEF T

\* What the steps make of first, one after another.
Chain(v, fold, p, f, first, s, n) ==
  /\ v[0] = first
  /\ \A k \in 1 .. n : v[k] = Stepped(fold, p, f, v[k - 1], s[k])

\* It takes the positions in order.
LEMMA FoldIsChain ==
  ASSUME NEW fold, NEW p, NEW f, NEW first, NEW s, NEW n \in Nat,
         NEW g, Folding(g, fold, p, f, first, s, n)
  PROVE  \E v : Chain(v, fold, p, f, first, s, n) /\ g[1 .. n] = v[n]
<1> DEFINE v == [k \in 0 .. n |-> g[1 .. k]]
<1>1. v[0] = first
  <2>1. 1 .. 0 = {} /\ {} \in SUBSET (1 .. n)
    OBVIOUS
  <2>2. g[{}] = first
    BY <2>1 DEF Folding
  <2> QED BY <2>1, <2>2
<1>2. ASSUME NEW k \in 1 .. n PROVE v[k] = Stepped(fold, p, f, v[k - 1], s[k])
  <2>1. 1 .. k # {} /\ Max(1 .. k) = k /\ (1 .. k) \ {k} = 1 .. k - 1
    <3>1. k \in Nat /\ k # 0
      OBVIOUS
    <3> HIDE DEF v
    <3> QED BY <3>1, LastOfInterval
  <2>2. 1 .. k \in SUBSET (1 .. n)
    OBVIOUS
  <2>3. g[1 .. k] = Stepped(fold, p, f, g[(1 .. k) \ {Max(1 .. k)}], s[Max(1 .. k)])
    BY <2>1, <2>2 DEF Folding
  <2>4. g[1 .. k] = Stepped(fold, p, f, g[1 .. k - 1], s[k])
    BY <2>1, <2>3
  <2>5. v[k] = g[1 .. k] /\ v[k - 1] = g[1 .. k - 1]
    OBVIOUS
  <2> HIDE DEF v
  <2> QED BY <2>4, <2>5
<1>3. g[1 .. n] = v[n]
  OBVIOUS
<1> HIDE DEF v
<1> QED BY <1>1, <1>2, <1>3 DEF Chain

\* Each of the folds is such a chain of steps.
LEMMA PropagationFolds ==
  ASSUME NEW first, NEW s, IsSequence(s)
  PROVE  \E v : /\ v[0] = first
                /\ \A k \in 1 .. Len(s) : v[k] = PropagateInstruction(v[k - 1], s[k])
                /\ PropagatedInstructions(first, s) = v[Len(s)]
<1> DEFINE n == Len(s)
           Iterates(g) == g = [S \in SUBSET (1 .. n) |->
             IF S = {} THEN first ELSE PropagateInstruction(g[S \ {Max(S)}], s[Max(S)])]
<1>1. DOMAIN s = 1 .. n /\ n \in Nat
  BY CodeIsSequence
<1>2. \A g : Iterates(g) <=> Folding(g, "propagation", <<>>, <<>>, first, s, n)
  BY DEF Folding, Stepped
<1>3. \E g : Iterates(g)
  <2> HIDE DEF Iterates, n
  <2> QED BY <1>1, <1>2, FoldExists
<1>4. PICK g : Iterates(g) /\ PropagatedInstructions(first, s) = g[1 .. n]
  BY <1>1, <1>3 DEF FoldLeft, MapThenFoldSet, PropagatedInstructions
<1>5. PICK v : Chain(v, "propagation", <<>>, <<>>, first, s, n) /\ g[1 .. n] = v[n]
  <2>1. Folding(g, "propagation", <<>>, <<>>, first, s, n)
    BY <1>2, <1>4
  <2> HIDE DEF Iterates, n
  <2> QED BY <1>1, <2>1, FoldIsChain
<1> QED BY <1>4, <1>5 DEF Chain, Stepped

LEMMA EpochsFold ==
  ASSUME NEW first, NEW s, IsSequence(s)
  PROVE  \E v : /\ v[0] = first
                /\ \A k \in 1 .. Len(s) : v[k] = PropagateBlock(v[k - 1], s[k])
                /\ PropagatedBlocks(first, s) = v[Len(s)]
<1> DEFINE n == Len(s)
           Iterates(g) == g = [S \in SUBSET (1 .. n) |->
             IF S = {} THEN first ELSE PropagateBlock(g[S \ {Max(S)}], s[Max(S)])]
<1>1. DOMAIN s = 1 .. n /\ n \in Nat
  BY CodeIsSequence
<1>2. \A g : Iterates(g) <=> Folding(g, "epochs", <<>>, <<>>, first, s, n)
  BY DEF Folding, Stepped
<1>3. \E g : Iterates(g)
  <2> HIDE DEF Iterates, n
  <2> QED BY <1>1, <1>2, FoldExists
<1>4. PICK g : Iterates(g) /\ PropagatedBlocks(first, s) = g[1 .. n]
  BY <1>1, <1>3 DEF FoldLeft, MapThenFoldSet, PropagatedBlocks
<1>5. PICK v : Chain(v, "epochs", <<>>, <<>>, first, s, n) /\ g[1 .. n] = v[n]
  <2>1. Folding(g, "epochs", <<>>, <<>>, first, s, n)
    BY <1>2, <1>4
  <2> HIDE DEF Iterates, n
  <2> QED BY <1>1, <2>1, FoldIsChain
<1> QED BY <1>4, <1>5 DEF Chain, Stepped

LEMMA LivenessFolds ==
  ASSUME NEW first, NEW s, IsSequence(s)
  PROVE  \E v : /\ v[0] = first
                /\ \A k \in 1 .. Len(s) : v[k] = KeepIfNeeded(v[k - 1], s[k])
                /\ NeededInstructions(first, s) = v[Len(s)]
<1> DEFINE n == Len(s)
           Iterates(g) == g = [S \in SUBSET (1 .. n) |->
             IF S = {} THEN first ELSE KeepIfNeeded(g[S \ {Max(S)}], s[Max(S)])]
<1>1. DOMAIN s = 1 .. n /\ n \in Nat
  BY CodeIsSequence
<1>2. \A g : Iterates(g) <=> Folding(g, "liveness", <<>>, <<>>, first, s, n)
  BY DEF Folding, Stepped
<1>3. \E g : Iterates(g)
  <2> HIDE DEF Iterates, n
  <2> QED BY <1>1, <1>2, FoldExists
<1>4. PICK g : Iterates(g) /\ NeededInstructions(first, s) = g[1 .. n]
  BY <1>1, <1>3 DEF FoldLeft, MapThenFoldSet, NeededInstructions
<1>5. PICK v : Chain(v, "liveness", <<>>, <<>>, first, s, n) /\ g[1 .. n] = v[n]
  <2>1. Folding(g, "liveness", <<>>, <<>>, first, s, n)
    BY <1>2, <1>4
  <2> HIDE DEF Iterates, n
  <2> QED BY <1>1, <2>1, FoldIsChain
<1> QED BY <1>4, <1>5 DEF Chain, Stepped

LEMMA LearningFolds ==
  ASSUME NEW first, NEW s, IsSequence(s)
  PROVE  \E v : /\ v[0] = first
                /\ \A k \in 1 .. Len(s) : v[k] = Learn(v[k - 1], s[k])
                /\ LearnedFacts(first, s) = v[Len(s)]
<1> DEFINE n == Len(s)
           Iterates(g) == g = [S \in SUBSET (1 .. n) |->
             IF S = {} THEN first ELSE Learn(g[S \ {Max(S)}], s[Max(S)])]
<1>1. DOMAIN s = 1 .. n /\ n \in Nat
  BY CodeIsSequence
<1>2. \A g : Iterates(g) <=> Folding(g, "learning", <<>>, <<>>, first, s, n)
  BY DEF Folding, Stepped
<1>3. \E g : Iterates(g)
  <2> HIDE DEF Iterates, n
  <2> QED BY <1>1, <1>2, FoldExists
<1>4. PICK g : Iterates(g) /\ LearnedFacts(first, s) = g[1 .. n]
  BY <1>1, <1>3 DEF FoldLeft, MapThenFoldSet, LearnedFacts
<1>5. PICK v : Chain(v, "learning", <<>>, <<>>, first, s, n) /\ g[1 .. n] = v[n]
  <2>1. Folding(g, "learning", <<>>, <<>>, first, s, n)
    BY <1>2, <1>4
  <2> HIDE DEF Iterates, n
  <2> QED BY <1>1, <2>1, FoldIsChain
<1> QED BY <1>4, <1>5 DEF Chain, Stepped

LEMMA InstructionsFold ==
  ASSUME NEW p, NEW f, NEW first, NEW s, IsSequence(s)
  PROVE  \E v : /\ v[0] = first
                /\ \A k \in 1 .. Len(s) : v[k] = LowerInstruction(p, f, v[k - 1], s[k])
                /\ LoweredInstructions(p, f, first, s) = v[Len(s)]
<1> DEFINE n == Len(s)
           Iterates(g) == g = [S \in SUBSET (1 .. n) |->
             IF S = {} THEN first ELSE LowerInstruction(p, f, g[S \ {Max(S)}], s[Max(S)])]
<1>1. DOMAIN s = 1 .. n /\ n \in Nat
  BY CodeIsSequence
<1>2. \A g : Iterates(g) <=> Folding(g, "instructions", p, f, first, s, n)
  BY DEF Folding, Stepped
<1>3. \E g : Iterates(g)
  <2> HIDE DEF Iterates, n
  <2> QED BY <1>1, <1>2, FoldExists
<1>4. PICK g : Iterates(g) /\ LoweredInstructions(p, f, first, s) = g[1 .. n]
  BY <1>1, <1>3 DEF FoldLeft, MapThenFoldSet, LoweredInstructions
<1>5. PICK v : Chain(v, "instructions", p, f, first, s, n) /\ g[1 .. n] = v[n]
  <2>1. Folding(g, "instructions", p, f, first, s, n)
    BY <1>2, <1>4
  <2> HIDE DEF Iterates, n
  <2> QED BY <1>1, <2>1, FoldIsChain
<1> QED BY <1>4, <1>5 DEF Chain, Stepped

LEMMA BlocksFold ==
  ASSUME NEW p, NEW f, NEW first, NEW s, IsSequence(s)
  PROVE  \E v : /\ v[0] = first
                /\ \A k \in 1 .. Len(s) : v[k] = LowerBlock(p, f, v[k - 1], s[k])
                /\ LoweredBlocks(p, f, first, s) = v[Len(s)]
<1> DEFINE n == Len(s)
           Iterates(g) == g = [S \in SUBSET (1 .. n) |->
             IF S = {} THEN first ELSE LowerBlock(p, f, g[S \ {Max(S)}], s[Max(S)])]
<1>1. DOMAIN s = 1 .. n /\ n \in Nat
  BY CodeIsSequence
<1>2. \A g : Iterates(g) <=> Folding(g, "blocks", p, f, first, s, n)
  BY DEF Folding, Stepped
<1>3. \E g : Iterates(g)
  <2> HIDE DEF Iterates, n
  <2> QED BY <1>1, <1>2, FoldExists
<1>4. PICK g : Iterates(g) /\ LoweredBlocks(p, f, first, s) = g[1 .. n]
  BY <1>1, <1>3 DEF FoldLeft, MapThenFoldSet, LoweredBlocks
<1>5. PICK v : Chain(v, "blocks", p, f, first, s, n) /\ g[1 .. n] = v[n]
  <2>1. Folding(g, "blocks", p, f, first, s, n)
    BY <1>2, <1>4
  <2> HIDE DEF Iterates, n
  <2> QED BY <1>1, <2>1, FoldIsChain
<1> QED BY <1>4, <1>5 DEF Chain, Stepped

\* A sequence and one more element.
LEMMA AppendedIsSequence ==
  ASSUME NEW c, IsSequence(c), NEW x
  PROVE  /\ IsSequence(Append(c, x))
         /\ DOMAIN Append(c, x) = 1 .. Len(c) + 1
         /\ \A k \in 1 .. Len(c) : Append(c, x)[k] = c[k]
         /\ Append(c, x)[Len(c) + 1] = x
<1> DEFINE S == {c[k] : k \in DOMAIN c} \cup {x}
<1>1. c \in Seq(S) /\ x \in S
  BY DEF IsSequence
<1> HIDE DEF S
<1>2. Append(c, x) \in Seq(S) /\ Len(Append(c, x)) = Len(c) + 1
      /\ (\A k \in 1 .. Len(c) : Append(c, x)[k] = c[k]) /\ Append(c, x)[Len(c) + 1] = x
  BY <1>1
<1> QED BY <1>2, SeqIsSequence, CodeIsSequence

\* InOrder takes the numbers one by one,
LEMMA InOrderUnfolds ==
  ASSUME NEW S, NEW n \in Nat
  PROVE  \E g : /\ g[0] = <<>>
                /\ \A k \in 1 .. n : g[k] = IF k \in S THEN Append(g[k - 1], k) ELSE g[k - 1]
                /\ InOrder(S, n) = g[n]
<1> DEFINE Lists(g, m) == g = [k \in 0 .. m |->
             IF k = 0 THEN <<>> ELSE IF k \in S THEN Append(g[k - 1], k) ELSE g[k - 1]]
           T == {m \in 0 .. n : \E g : Lists(g, m)}
<1>1. 0 \in T
  <2> DEFINE g == [k \in 0 .. 0 |-> <<>>]
  <2>1. Lists(g, 0)
    OBVIOUS
  <2> HIDE DEF g, Lists
  <2> QED BY <2>1
<1>2. ASSUME NEW m \in 0 .. n - 1, m \in T PROVE m + 1 \in T
  <2>1. PICK g : Lists(g, m)
    BY <1>2
  <2> DEFINE h == [k \in 0 .. m + 1 |->
               IF k = 0 THEN <<>> ELSE IF k \in S THEN Append(g[k - 1], k) ELSE g[k - 1]]
  <2>2. ASSUME NEW k \in 0 .. m + 1, k # 0 PROVE h[k - 1] = g[k - 1]
    <3>1. k - 1 \in 0 .. m /\ k - 1 \in 0 .. m + 1
      BY <2>2
    <3>2. g[k - 1] = IF k - 1 = 0 THEN <<>>
                     ELSE IF k - 1 \in S THEN Append(g[k - 1 - 1], k - 1) ELSE g[k - 1 - 1]
      BY <2>1, <3>1
    <3> QED BY <3>1, <3>2
  <2>3. Lists(h, m + 1)
    <3>1. ASSUME NEW k \in 0 .. m + 1
          PROVE  h[k] = IF k = 0 THEN <<>> ELSE IF k \in S THEN Append(h[k - 1], k) ELSE h[k - 1]
      <4>1. h[k] = IF k = 0 THEN <<>> ELSE IF k \in S THEN Append(g[k - 1], k) ELSE g[k - 1]
        OBVIOUS
      <4> HIDE DEF h
      <4> QED BY <2>2, <4>1
    <3>2. h = [k \in 0 .. m + 1 |-> h[k]]
      OBVIOUS
    <3> HIDE DEF h
    <3> QED BY <3>1, <3>2
  <2> HIDE DEF h, Lists
  <2> QED BY <2>3
<1>3. \E g : Lists(g, n)
  <2> HIDE DEF T
  <2>1. 0 .. n \subseteq T
    BY <1>1, <1>2, IntervalInduction
  <2>2. n \in T
    BY <2>1
  <2> QED BY <2>2 DEF T
<1>4. PICK g : Lists(g, n) /\ InOrder(S, n) = g[n]
  BY <1>3 DEF InOrder
<1>5. g[0] = <<>> /\ \A k \in 1 .. n : g[k] = IF k \in S THEN Append(g[k - 1], k) ELSE g[k - 1]
  <2>1. \A k \in 0 .. n :
          g[k] = IF k = 0 THEN <<>> ELSE IF k \in S THEN Append(g[k - 1], k) ELSE g[k - 1]
    BY <1>4
  <2>2. 0 \in 0 .. n /\ \A k \in 1 .. n : k \in 0 .. n /\ k # 0
    OBVIOUS
  <2> QED BY <2>1, <2>2
<1> HIDE DEF Lists
<1> QED BY <1>4, <1>5

\* A sequence of the numbers of a set, each once and in order.
Ascending(c, T) ==
  /\ IsSequence(c)
  /\ \A k \in DOMAIN c : c[k] \in T
  /\ \A x \in T : \E k \in DOMAIN c : c[k] = x
  /\ \A k, l \in DOMAIN c : k < l => c[k] < c[l]

\* One more number, greater than the others.
LEMMA AscendingLonger ==
  ASSUME NEW c, NEW m \in Nat, NEW T \in SUBSET (1 .. m), Ascending(c, T)
  PROVE  Ascending(Append(c, m + 1), T \cup {m + 1})
<1> DEFINE d == Append(c, m + 1)
<1>1. /\ IsSequence(c) /\ DOMAIN c = 1 .. Len(c) /\ Len(c) \in Nat
      /\ IsSequence(d) /\ DOMAIN d = 1 .. Len(c) + 1
      /\ \A k \in 1 .. Len(c) : d[k] = c[k]
      /\ d[Len(c) + 1] = m + 1
  BY CodeIsSequence, AppendedIsSequence DEF Ascending
<1> HIDE DEF d
<1>2. \A k \in DOMAIN d : k \in 1 .. Len(c) \/ k = Len(c) + 1
  BY <1>1
<1>3. \A k \in DOMAIN d : d[k] \in T \cup {m + 1}
  BY <1>1, <1>2 DEF Ascending
<1>4. \A x \in T \cup {m + 1} : \E k \in DOMAIN d : d[k] = x
  <2>1. Len(c) + 1 \in DOMAIN d /\ \A k \in DOMAIN c : k \in DOMAIN d
    BY <1>1
  <2> QED BY <1>1, <2>1 DEF Ascending
<1>5. ASSUME NEW k \in DOMAIN d, NEW l \in DOMAIN d, k < l PROVE d[k] < d[l]
  <2>1. CASE l \in 1 .. Len(c)
    <3>1. k \in 1 .. Len(c)
      BY <1>1, <1>5, <2>1
    <3> QED BY <1>1, <1>5, <2>1, <3>1 DEF Ascending
  <2>2. CASE l = Len(c) + 1
    <3>1. k \in 1 .. Len(c)
      BY <1>1, <1>5, <2>2
    <3>2. d[k] \in 1 .. m
      BY <1>1, <3>1 DEF Ascending
    <3> QED BY <1>1, <2>2, <3>2
  <2> QED BY <1>2, <2>1, <2>2
<1>6. Ascending(d, T \cup {m + 1})
  BY <1>1, <1>3, <1>4, <1>5 DEF Ascending
<1> QED BY <1>6 DEF d

\* and yields the members of the set in order.
LEMMA InOrderAscends ==
  ASSUME NEW S, NEW n \in Nat
  PROVE  Ascending(InOrder(S, n), S \cap (1 .. n))
<1>1. PICK g : /\ g[0] = <<>>
               /\ \A k \in 1 .. n : g[k] = IF k \in S THEN Append(g[k - 1], k) ELSE g[k - 1]
               /\ InOrder(S, n) = g[n]
  BY InOrderUnfolds
<1> DEFINE U == {m \in 0 .. n : Ascending(g[m], S \cap (1 .. m))}
<1>2. 0 \in U
  <2>1. Ascending(<<>>, S \cap (1 .. 0))
    BY DEF Ascending, IsSequence
  <2> QED BY <1>1, <2>1
<1>3. ASSUME NEW m \in 0 .. n - 1, m \in U PROVE m + 1 \in U
  <2>1. m + 1 \in 1 .. n /\ m + 1 \in 0 .. n /\ (m + 1) - 1 = m /\ m \in Nat
    OBVIOUS
  <2>2. g[m + 1] = IF m + 1 \in S THEN Append(g[m], m + 1) ELSE g[m]
    BY <1>1, <2>1
  <2> DEFINE C == S \cap (1 .. m)
  <2>3. Ascending(g[m], C)
    BY <1>3
  <2>4. S \cap (1 .. m + 1) = IF m + 1 \in S THEN C \cup {m + 1} ELSE C
    BY <2>1
  <2>5. C \in SUBSET (1 .. m)
    OBVIOUS
  <2> HIDE DEF C, U
  <2>6. Ascending(Append(g[m], m + 1), C \cup {m + 1})
    BY <2>1, <2>3, <2>5, AscendingLonger
  <2>7. Ascending(g[m + 1], S \cap (1 .. m + 1))
    BY <2>2, <2>3, <2>4, <2>6
  <2> QED BY <2>1, <2>7 DEF U
<1> HIDE DEF U
<1>4. 0 .. n \subseteq U
  BY <1>2, <1>3, IntervalInduction
<1>5. n \in U
  BY <1>4
<1> QED BY <1>1, <1>5 DEF U

LEMMA InOrderIsSequence ==
  ASSUME NEW S, NEW n \in Nat
  PROVE  /\ IsSequence(InOrder(S, n))
         /\ \A k \in DOMAIN InOrder(S, n) : InOrder(S, n)[k] \in S \cap (1 .. n)
BY InOrderAscends DEF Ascending

-----------------------------------------------------------------------------
(* Where in the blocks the instructions of a function stand.               *)

\* c has the elements of the first m lists of s: place says, one to one, which
\* list each is in and where in it.
Laid(s, c, m, place) ==
  /\ IsSequence(c) /\ DOMAIN place = DOMAIN c
  /\ \A k \in DOMAIN c :
       \E b \in 1 .. m : \E n \in DOMAIN s[b] : place[k] = <<b, n>> /\ c[k] = s[b][n]
  /\ \A k, l \in DOMAIN c : place[k] = place[l] => k = l
  /\ \A b \in 1 .. m : \A n \in DOMAIN s[b] : \E k \in DOMAIN c : place[k] = <<b, n>>

\* The places when list m follows d elements that have been laid.
Longer(place, d, list, m) ==
  [k \in 1 .. d + Len(list) |-> IF k <= d THEN place[k] ELSE <<m, k - d>>]

LEMMA LaidFirst ==
  ASSUME NEW s, IsSequence(s[1])
  PROVE  Laid(s, s[1], 1, [k \in DOMAIN s[1] |-> <<1, k>>])
<1> DEFINE place == [k \in DOMAIN s[1] |-> <<1, k>>]
<1>1. \A k \in DOMAIN s[1] : place[k] = <<1, k>>
  OBVIOUS
<1>2. DOMAIN place = DOMAIN s[1] /\ 1 \in 1 .. 1 /\ \A b \in 1 .. 1 : b = 1
  OBVIOUS
<1> HIDE DEF place
<1>3. Laid(s, s[1], 1, place)
  BY <1>1, <1>2 DEF Laid
<1> QED BY <1>3 DEF place

LEMMA LaidLonger ==
  ASSUME NEW s, NEW c, NEW m \in Nat, NEW place, Laid(s, c, m, place),
         IsSequence(s[m + 1])
  PROVE  Laid(s, c \o s[m + 1], m + 1, Longer(place, Len(c), s[m + 1], m + 1))
<1> DEFINE d == s[m + 1]
           e == c \o d
           longer == Longer(place, Len(c), d, m + 1)
<1>1. /\ IsSequence(e) /\ Len(c) \in Nat /\ Len(d) \in Nat
      /\ DOMAIN c = 1 .. Len(c) /\ DOMAIN d = 1 .. Len(d)
      /\ DOMAIN e = 1 .. Len(c) + Len(d)
      /\ \A k \in 1 .. Len(c) : e[k] = c[k]
      /\ \A k \in 1 .. Len(d) : e[Len(c) + k] = d[k]
  <2>1. IsSequence(c) /\ IsSequence(d)
    BY DEF Laid
  <2> HIDE DEF d
  <2> QED BY <2>1, Joined
<1>2. /\ DOMAIN longer = 1 .. Len(c) + Len(d)
      /\ \A k \in 1 .. Len(c) : longer[k] = place[k]
      /\ \A k \in 1 .. Len(d) : longer[Len(c) + k] = <<m + 1, k>>
  BY <1>1 DEF Longer
<1> HIDE DEF e, longer
<1>3. \A k \in DOMAIN e : k \in 1 .. Len(c) \/ \E l \in 1 .. Len(d) : k = Len(c) + l
  <2> SUFFICES ASSUME NEW k \in DOMAIN e, k \notin 1 .. Len(c)
               PROVE  \E l \in 1 .. Len(d) : k = Len(c) + l
    OBVIOUS
  <2>1. k - Len(c) \in 1 .. Len(d) /\ k = Len(c) + (k - Len(c))
    BY <1>1
  <2> QED BY <2>1
<1>4. \A k \in 1 .. Len(c) : \E b \in 1 .. m : \E n \in DOMAIN s[b] :
        longer[k] = <<b, n>> /\ e[k] = s[b][n]
  BY <1>1, <1>2 DEF Laid
<1>5. ASSUME NEW k \in DOMAIN e
      PROVE  \E b \in 1 .. m + 1 : \E n \in DOMAIN s[b] : longer[k] = <<b, n>> /\ e[k] = s[b][n]
  <2>1. CASE k \in 1 .. Len(c)
    <3>1. \A b \in 1 .. m : b \in 1 .. m + 1
      OBVIOUS
    <3> QED BY <1>4, <2>1, <3>1
  <2>2. CASE \E l \in 1 .. Len(d) : k = Len(c) + l
    <3>1. m + 1 \in 1 .. m + 1
      OBVIOUS
    <3>2. PICK l \in 1 .. Len(d) : k = Len(c) + l
      BY <2>2
    <3>3. longer[k] = <<m + 1, l>> /\ e[k] = d[l] /\ l \in DOMAIN d
      BY <1>1, <1>2, <3>2
    <3> QED BY <3>1, <3>3
  <2> QED BY <1>3, <2>1, <2>2
<1>6. ASSUME NEW k \in DOMAIN e, NEW l \in DOMAIN e, longer[k] = longer[l] PROVE k = l
  <2>1. \A x \in 1 .. Len(c) : \E b \in 1 .. m : \E n : longer[x] = <<b, n>>
    BY <1>4
  <2>2. \A x \in 1 .. Len(c), y \in 1 .. Len(d) : longer[x] # longer[Len(c) + y]
    BY <1>2, <2>1
  <2>3. CASE k \in 1 .. Len(c) /\ l \in 1 .. Len(c)
    BY <1>1, <1>2, <1>6, <2>3 DEF Laid
  <2>4. CASE (\E x \in 1 .. Len(d) : k = Len(c) + x) /\ \E y \in 1 .. Len(d) : l = Len(c) + y
    <3>1. PICK x \in 1 .. Len(d) : k = Len(c) + x
      BY <2>4
    <3>2. PICK y \in 1 .. Len(d) : l = Len(c) + y
      BY <2>4
    <3>3. longer[k] = <<m + 1, x>> /\ longer[l] = <<m + 1, y>>
      BY <1>2, <3>1, <3>2
    <3> QED BY <1>6, <3>1, <3>2, <3>3
  <2> QED BY <1>3, <1>6, <2>2, <2>3, <2>4
<1>7. ASSUME NEW b \in 1 .. m + 1, NEW n \in DOMAIN s[b]
      PROVE  \E k \in DOMAIN e : longer[k] = <<b, n>>
  <2>1. CASE b \in 1 .. m
    <3>1. PICK k \in DOMAIN c : place[k] = <<b, n>>
      BY <2>1 DEF Laid
    <3>2. k \in DOMAIN e
      BY <1>1
    <3> QED BY <1>1, <1>2, <3>1, <3>2
  <2>2. CASE b = m + 1
    <3>1. n \in 1 .. Len(d)
      BY <1>1, <2>2
    <3>2. Len(c) + n \in DOMAIN e
      BY <1>1, <3>1
    <3> QED BY <1>2, <2>2, <3>1, <3>2
  <2>3. b \in 1 .. m \/ b = m + 1
    OBVIOUS
  <2> QED BY <2>1, <2>2, <2>3
<1>8. Laid(s, e, m + 1, longer)
  BY <1>1, <1>2, <1>5, <1>6, <1>7 DEF Laid
<1> QED BY <1>8 DEF e, longer

\* Two sequences of lists whose lists have the same lengths are laid alike.
LEMMA FlattenedAlike ==
  ASSUME NEW s, IsSequence(s), \A b \in DOMAIN s : IsSequence(s[b]),
         NEW t, IsSequence(t), DOMAIN t = DOMAIN s,
         \A b \in DOMAIN s : IsSequence(t[b]) /\ DOMAIN t[b] = DOMAIN s[b]
  PROVE  \E place : /\ Laid(s, FlattenSeq(s), Len(s), place)
                    /\ Laid(t, FlattenSeq(t), Len(s), place)
<1>0. DOMAIN s = 1 .. Len(s) /\ Len(s) \in Nat /\ DOMAIN t = 1 .. Len(t) /\ Len(t) \in Nat
  BY CodeIsSequence
<1>1. Len(t) = Len(s)
  BY <1>0
<1>2. CASE s = <<>>
  <2>1. Len(s) = 0 /\ DOMAIN s = {}
    BY <1>2
  <2>2. t = <<>>
    BY <1>0, <1>1, <2>1 DEF IsSequence
  <2>3. FlattenSeq(s) = <<>> /\ FlattenSeq(t) = <<>>
    BY <1>2, <2>2 DEF FlattenSeq
  <2>4. Laid(s, <<>>, 0, <<>>) /\ Laid(t, <<>>, 0, <<>>)
    BY DEF Laid, IsSequence
  <2> QED BY <2>1, <2>3, <2>4
<1>3. CASE s # <<>>
  <2>0. Len(s) # 0 /\ t # <<>>
    BY <1>0, <1>1, <1>3 DEF IsSequence
  <2>1. PICK f : /\ \A k \in DOMAIN s : f[k] = IF k = 1 THEN s[k] ELSE f[k - 1] \o s[k]
                 /\ FlattenSeq(s) = f[Len(s)]
    BY <1>3, FlattenUnfolds
  <2>2. PICK g : /\ \A k \in DOMAIN t : g[k] = IF k = 1 THEN t[k] ELSE g[k - 1] \o t[k]
                 /\ FlattenSeq(t) = g[Len(t)]
    BY <2>0, FlattenUnfolds
  <2> DEFINE T == {m \in 1 .. Len(s) : \E place : Laid(s, f[m], m, place) /\ Laid(t, g[m], m, place)}
  <2>3. 1 \in T
    <3>1. 1 \in DOMAIN s /\ f[1] = s[1] /\ g[1] = t[1]
      BY <1>0, <2>0, <2>1, <2>2
    <3>2. Laid(s, s[1], 1, [k \in DOMAIN s[1] |-> <<1, k>>])
      BY <3>1, LaidFirst
    <3>3. Laid(t, t[1], 1, [k \in DOMAIN s[1] |-> <<1, k>>])
      BY <3>1, LaidFirst
    <3> QED BY <1>0, <3>1, <3>2, <3>3
  <2>4. ASSUME NEW m \in 1 .. Len(s) - 1, m \in T PROVE m + 1 \in T
    <3>0. m + 1 \in DOMAIN s /\ m + 1 # 1 /\ (m + 1) - 1 = m /\ m \in Nat
      BY <1>0
    <3>1. f[m + 1] = f[m] \o s[m + 1] /\ g[m + 1] = g[m] \o t[m + 1]
      BY <2>1, <2>2, <3>0
    <3>2. PICK place : Laid(s, f[m], m, place) /\ Laid(t, g[m], m, place)
      BY <2>4
    <3>3. Len(f[m]) = Len(g[m]) /\ Len(s[m + 1]) = Len(t[m + 1])
      <4>1. IsSequence(f[m]) /\ IsSequence(g[m]) /\ DOMAIN f[m] = DOMAIN g[m]
        BY <3>2 DEF Laid
      <4>2. IsSequence(s[m + 1]) /\ IsSequence(t[m + 1]) /\ DOMAIN s[m + 1] = DOMAIN t[m + 1]
        BY <3>0
      <4>3. \A a, b : IsSequence(a) /\ IsSequence(b) /\ DOMAIN a = DOMAIN b => Len(a) = Len(b)
        BY CodeIsSequence
      <4> QED BY <4>1, <4>2, <4>3
    <3> DEFINE longer == Longer(place, Len(f[m]), s[m + 1], m + 1)
    <3>4. longer = Longer(place, Len(g[m]), t[m + 1], m + 1)
      BY <3>3 DEF Longer
    <3>5. Laid(s, f[m + 1], m + 1, longer)
      BY <3>0, <3>1, <3>2, LaidLonger
    <3>6. Laid(t, g[m + 1], m + 1, longer)
      BY <3>0, <3>1, <3>2, <3>4, LaidLonger
    <3> HIDE DEF longer
    <3> QED BY <1>0, <3>0, <3>5, <3>6
  <2> HIDE DEF T
  <2>5. 1 .. Len(s) \subseteq T
    <3>1. 1 \in Nat
      OBVIOUS
    <3> QED BY <1>0, <2>3, <2>4, <3>1, IntervalInduction
  <2>6. Len(s) \in T
    BY <1>0, <2>0, <2>5
  <2> QED BY <1>1, <2>1, <2>2, <2>6 DEF T
<1> QED BY <1>2, <1>3

\* The lists that a function is made of, and that its vectors are.
Codes(fn) == [b \in DOMAIN fn.blocks |-> fn.blocks[b].instructions]

Listed(fn) ==
  /\ IsSequence(fn.blocks)
  /\ \A b \in DOMAIN fn.blocks : IsSequence(fn.blocks[b].instructions)

\* The instructions of two functions whose blocks have the same lengths.
LEMMA InstructionPlaces ==
  ASSUME NEW fn, Listed(fn), NEW gn, Listed(gn), DOMAIN gn.blocks = DOMAIN fn.blocks,
         \A b \in DOMAIN fn.blocks : DOMAIN gn.blocks[b].instructions = DOMAIN fn.blocks[b].instructions
  PROVE  \E place : /\ Laid(Codes(fn), Instructions(fn), Len(fn.blocks), place)
                    /\ Laid(Codes(gn), Instructions(gn), Len(fn.blocks), place)
<1>1. /\ DOMAIN fn.blocks = 1 .. Len(fn.blocks) /\ Len(fn.blocks) \in Nat
      /\ DOMAIN gn.blocks = 1 .. Len(gn.blocks) /\ Len(gn.blocks) \in Nat
      /\ Len(gn.blocks) = Len(fn.blocks)
  BY CodeIsSequence DEF Listed
<1>2. \A hn : Listed(hn) /\ DOMAIN hn.blocks = 1 .. Len(fn.blocks) =>
        /\ IsSequence(Codes(hn)) /\ DOMAIN Codes(hn) = 1 .. Len(fn.blocks)
        /\ \A b \in DOMAIN hn.blocks : Codes(hn)[b] = hn.blocks[b].instructions
  <2> SUFFICES ASSUME NEW hn, Listed(hn), DOMAIN hn.blocks = 1 .. Len(fn.blocks)
               PROVE  /\ IsSequence(Codes(hn)) /\ DOMAIN Codes(hn) = 1 .. Len(fn.blocks)
                      /\ \A b \in DOMAIN hn.blocks : Codes(hn)[b] = hn.blocks[b].instructions
    OBVIOUS
  <2>1. Codes(hn) = [b \in 1 .. Len(fn.blocks) |-> Codes(hn)[b]]
    BY DEF Codes
  <2>2. \A b \in DOMAIN hn.blocks : Codes(hn)[b] = hn.blocks[b].instructions
    BY DEF Codes
  <2> QED BY <1>1, <2>1, <2>2, FunctionIsSequence
<1>3. Len(Codes(fn)) = Len(fn.blocks)
  <2>1. IsSequence(Codes(fn)) /\ DOMAIN Codes(fn) = 1 .. Len(fn.blocks)
    BY <1>1, <1>2
  <2> QED BY <1>1, <2>1, CodeIsSequence
<1>4. \E place : /\ Laid(Codes(fn), FlattenSeq(Codes(fn)), Len(Codes(fn)), place)
                 /\ Laid(Codes(gn), FlattenSeq(Codes(gn)), Len(Codes(fn)), place)
  <2>1. IsSequence(Codes(fn)) /\ IsSequence(Codes(gn)) /\ DOMAIN Codes(gn) = DOMAIN Codes(fn)
    BY <1>1, <1>2
  <2>2. \A b \in DOMAIN Codes(fn) : /\ IsSequence(Codes(fn)[b]) /\ IsSequence(Codes(gn)[b])
                                    /\ DOMAIN Codes(gn)[b] = DOMAIN Codes(fn)[b]
    BY <1>1, <1>2, SMTT(30) DEF Listed
  <2> QED BY <2>1, <2>2, FlattenedAlike
<1> QED BY <1>3, <1>4 DEF Instructions, Codes

\* An instruction of the function is an instruction of one of its blocks.
LEMMA InstructionsOfBlocks ==
  ASSUME NEW fn, Listed(fn)
  PROVE  /\ IsSequence(Instructions(fn))
         /\ \A i : i \in ToSet(Instructions(fn)) <=>
              \E b \in DOMAIN fn.blocks : \E n \in DOMAIN fn.blocks[b].instructions :
                i = fn.blocks[b].instructions[n]
<1> DEFINE list == Instructions(fn)
<1>1. PICK place : Laid(Codes(fn), list, Len(fn.blocks), place)
  BY InstructionPlaces
<1>2. DOMAIN fn.blocks = 1 .. Len(fn.blocks)
  BY CodeIsSequence DEF Listed
<1>3. \A b \in DOMAIN fn.blocks : Codes(fn)[b] = fn.blocks[b].instructions
  BY DEF Codes
<1> HIDE DEF list
<1>4. ASSUME NEW i, i \in ToSet(list)
      PROVE  \E b \in DOMAIN fn.blocks : \E n \in DOMAIN fn.blocks[b].instructions :
               i = fn.blocks[b].instructions[n]
  <2>1. PICK k \in DOMAIN list : i = list[k]
    BY <1>4 DEF ToSet
  <2> QED BY <1>1, <1>2, <1>3, <2>1 DEF Laid
<1>5. ASSUME NEW b \in DOMAIN fn.blocks, NEW n \in DOMAIN fn.blocks[b].instructions
      PROVE  fn.blocks[b].instructions[n] \in ToSet(list)
  <2>1. PICK k \in DOMAIN list : place[k] = <<b, n>>
    BY <1>1, <1>2, <1>3 DEF Laid
  <2>2. list[k] = fn.blocks[b].instructions[n]
    BY <1>1, <1>2, <1>3, <2>1 DEF Laid
  <2> QED BY <2>1, <2>2 DEF ToSet
<1>6. IsSequence(list)
  BY <1>1 DEF Laid
<1> QED BY <1>4, <1>5, <1>6 DEF list

\* The positions of the instructions that define a value.
Defining(fn) ==
  InOrder({k \in DOMAIN Instructions(fn) : Instructions(fn)[k].result # NoValue}, Len(Instructions(fn)))

LEMMA DefiningAscends ==
  ASSUME NEW fn, Listed(fn)
  PROVE  /\ Ascending(Defining(fn), {k \in DOMAIN Instructions(fn) : Instructions(fn)[k].result # NoValue})
         /\ Definitions(fn) = [k \in DOMAIN Defining(fn) |-> Instructions(fn)[Defining(fn)[k]].result]
<1> DEFINE list == Instructions(fn)
           S == {k \in DOMAIN list : list[k].result # NoValue}
<1>1. DOMAIN list = 1 .. Len(list) /\ Len(list) \in Nat
  BY InstructionsOfBlocks, CodeIsSequence
<1>2. S \cap (1 .. Len(list)) = S
  BY <1>1
<1>3. Ascending(InOrder(S, Len(list)), S \cap (1 .. Len(list)))
  <2> HIDE DEF S, list
  <2> QED BY <1>1, InOrderAscends
<1> QED BY <1>2, <1>3 DEF Defining, Definitions

LEMMA DefinitionsAreSequence ==
  ASSUME NEW fn, Listed(fn)
  PROVE  IsSequence(Definitions(fn))
<1>1. IsSequence(Defining(fn))
  BY DefiningAscends DEF Ascending
<1>2. DOMAIN Defining(fn) = 1 .. Len(Defining(fn)) /\ Len(Defining(fn)) \in Nat
  BY <1>1, CodeIsSequence
<1>3. Definitions(fn) = [k \in 1 .. Len(Defining(fn)) |-> Definitions(fn)[k]]
  BY <1>2, DefiningAscends
<1> QED BY <1>2, <1>3, FunctionIsSequence

\* The definitions are the results of the instructions that have one,
LEMMA DefinitionsAreResults ==
  ASSUME NEW fn, Listed(fn)
  PROVE  /\ \A b \in DOMAIN fn.blocks : \A n \in DOMAIN fn.blocks[b].instructions :
              LET v == fn.blocks[b].instructions[n].result
              IN  v # NoValue => v \in ToSet(Definitions(fn))
         /\ NoValue \notin ToSet(Definitions(fn))
<1> DEFINE list == Instructions(fn)
           defining == Defining(fn)
<1>1. /\ Ascending(defining, {k \in DOMAIN list : list[k].result # NoValue})
      /\ Definitions(fn) = [k \in DOMAIN defining |-> list[defining[k]].result]
  BY DefiningAscends
<1> HIDE DEF defining
<1>2. ASSUME NEW b \in DOMAIN fn.blocks, NEW n \in DOMAIN fn.blocks[b].instructions,
             fn.blocks[b].instructions[n].result # NoValue
      PROVE  fn.blocks[b].instructions[n].result \in ToSet(Definitions(fn))
  <2>1. fn.blocks[b].instructions[n] \in ToSet(list)
    BY InstructionsOfBlocks
  <2> HIDE DEF list
  <2>2. PICK k \in DOMAIN list : list[k] = fn.blocks[b].instructions[n]
    BY <2>1 DEF ToSet
  <2>3. PICK j \in DOMAIN defining : defining[j] = k
    BY <1>1, <1>2, <2>2 DEF Ascending
  <2>4. j \in DOMAIN Definitions(fn) /\ Definitions(fn)[j] = fn.blocks[b].instructions[n].result
    BY <1>1, <2>2, <2>3
  <2> QED BY <2>4 DEF ToSet
<1> HIDE DEF list
<1>3. ASSUME NEW j \in DOMAIN Definitions(fn) PROVE Definitions(fn)[j] # NoValue
  <2>1. j \in DOMAIN defining /\ Definitions(fn)[j] = list[defining[j]].result
    BY <1>1
  <2> QED BY <1>1, <2>1 DEF Ascending
<1> QED BY <1>2, <1>3 DEF ToSet

\* in the same places in two functions whose instructions have results alike.
LEMMA DefinitionsAlike ==
  ASSUME NEW fn, Listed(fn), NEW gn, Listed(gn), DOMAIN gn.blocks = DOMAIN fn.blocks,
         \A b \in DOMAIN fn.blocks :
           /\ DOMAIN gn.blocks[b].instructions = DOMAIN fn.blocks[b].instructions
           /\ \A n \in DOMAIN fn.blocks[b].instructions :
                gn.blocks[b].instructions[n].result = NoValue
                  <=> fn.blocks[b].instructions[n].result = NoValue
  PROVE  /\ DOMAIN Definitions(gn) = DOMAIN Definitions(fn)
         /\ Definitions(gn) = [k \in DOMAIN Definitions(gn) |-> Definitions(gn)[k]]
         /\ \A k \in DOMAIN Definitions(fn) :
              \E b \in DOMAIN fn.blocks : \E n \in DOMAIN fn.blocks[b].instructions :
                /\ Definitions(fn)[k] = fn.blocks[b].instructions[n].result
                /\ Definitions(gn)[k] = gn.blocks[b].instructions[n].result
<1> DEFINE f == Instructions(fn)
           g == Instructions(gn)
<1>1. PICK place : Laid(Codes(fn), f, Len(fn.blocks), place) /\ Laid(Codes(gn), g, Len(fn.blocks), place)
  BY InstructionPlaces
<1>2. DOMAIN fn.blocks = 1 .. Len(fn.blocks)
  BY CodeIsSequence DEF Listed
<1>3. \A b \in DOMAIN fn.blocks : /\ Codes(fn)[b] = fn.blocks[b].instructions
                                  /\ Codes(gn)[b] = gn.blocks[b].instructions
  BY DEF Codes
<1>4. DOMAIN f = DOMAIN g /\ IsSequence(f) /\ IsSequence(g)
  BY <1>1 DEF Laid
<1>5. /\ Definitions(fn) = [k \in DOMAIN Defining(fn) |-> f[Defining(fn)[k]].result]
      /\ Definitions(gn) = [k \in DOMAIN Defining(gn) |-> g[Defining(gn)[k]].result]
      /\ \A k \in DOMAIN Defining(fn) : Defining(fn)[k] \in DOMAIN f
      /\ Defining(fn) = InOrder({k \in DOMAIN f : f[k].result # NoValue}, Len(f))
      /\ Defining(gn) = InOrder({k \in DOMAIN g : g[k].result # NoValue}, Len(g))
  BY DefiningAscends DEF Ascending, Defining
<1> HIDE DEF f, g
<1>6. ASSUME NEW k \in DOMAIN f
      PROVE  \E b \in DOMAIN fn.blocks : \E n \in DOMAIN fn.blocks[b].instructions :
               f[k] = fn.blocks[b].instructions[n] /\ g[k] = gn.blocks[b].instructions[n]
  <2>1. PICK b \in 1 .. Len(fn.blocks) : \E n \in DOMAIN Codes(fn)[b] :
          place[k] = <<b, n>> /\ f[k] = Codes(fn)[b][n]
    BY <1>1 DEF Laid
  <2>2. PICK n \in DOMAIN Codes(fn)[b] : place[k] = <<b, n>> /\ f[k] = Codes(fn)[b][n]
    BY <2>1
  <2>3. g[k] = Codes(gn)[b][n]
    BY <1>1, <1>4, <2>2 DEF Laid
  <2> QED BY <1>2, <1>3, <2>2, <2>3, SMTT(30)
<1>7. {k \in DOMAIN g : g[k].result # NoValue} = {k \in DOMAIN f : f[k].result # NoValue}
  BY <1>4, <1>6
<1>8. Len(f) = Len(g)
  BY <1>4, CodeIsSequence
<1>9. Defining(gn) = Defining(fn)
  BY <1>5, <1>7, <1>8
<1>10. DOMAIN Definitions(gn) = DOMAIN Definitions(fn)
  BY <1>5, <1>9
<1>11. ASSUME NEW k \in DOMAIN Definitions(fn)
       PROVE  \E b \in DOMAIN fn.blocks : \E n \in DOMAIN fn.blocks[b].instructions :
                /\ Definitions(fn)[k] = fn.blocks[b].instructions[n].result
                /\ Definitions(gn)[k] = gn.blocks[b].instructions[n].result
  <2>1. /\ k \in DOMAIN Defining(fn) /\ Defining(fn)[k] \in DOMAIN f
        /\ Definitions(fn)[k] = f[Defining(fn)[k]].result
        /\ Definitions(gn)[k] = g[Defining(fn)[k]].result
    BY <1>5, <1>9, <1>10
  <2> QED BY <1>6, <2>1
<1>12. Definitions(gn) = [k \in DOMAIN Definitions(gn) |-> Definitions(gn)[k]]
  BY <1>5
<1> QED BY <1>10, <1>11, <1>12

\* No two instructions have the same result.
DefinedOnce(fn) ==
  \A b, c \in DOMAIN fn.blocks :
    \A n \in DOMAIN fn.blocks[b].instructions, m \in DOMAIN fn.blocks[c].instructions :
      LET v == fn.blocks[b].instructions[n].result
      IN  v # NoValue /\ fn.blocks[c].instructions[m].result = v => b = c /\ n = m

\* It is so where no value is defined twice, and then the definitions differ.
LEMMA DefinitionsDiffer ==
  ASSUME NEW fn, Listed(fn)
  PROVE  DefinedOnce(fn) <=> \A k, l \in DOMAIN Definitions(fn) :
                               Definitions(fn)[k] = Definitions(fn)[l] => k = l
<1> DEFINE list == Instructions(fn)
           defining == Defining(fn)
<1>1. PICK place : Laid(Codes(fn), list, Len(fn.blocks), place)
  BY InstructionPlaces
<1>2. DOMAIN fn.blocks = 1 .. Len(fn.blocks)
  BY CodeIsSequence DEF Listed
<1>3. \A b \in DOMAIN fn.blocks : Codes(fn)[b] = fn.blocks[b].instructions
  BY DEF Codes
<1>4. /\ Ascending(defining, {k \in DOMAIN list : list[k].result # NoValue})
      /\ Definitions(fn) = [k \in DOMAIN defining |-> list[defining[k]].result]
  BY DefiningAscends
<1> HIDE DEF defining, list
<1>5. ASSUME DefinedOnce(fn), NEW k \in DOMAIN defining, NEW l \in DOMAIN defining,
             list[defining[k]].result = list[defining[l]].result
      PROVE  k = l
  <2>1. /\ defining[k] \in DOMAIN list /\ defining[l] \in DOMAIN list
        /\ list[defining[k]].result # NoValue
    BY <1>4 DEF Ascending
  <2>2. PICK b \in DOMAIN fn.blocks : \E n \in DOMAIN fn.blocks[b].instructions :
          place[defining[k]] = <<b, n>> /\ list[defining[k]] = fn.blocks[b].instructions[n]
    BY <1>1, <1>2, <1>3, <2>1 DEF Laid
  <2>3. PICK n \in DOMAIN fn.blocks[b].instructions :
          place[defining[k]] = <<b, n>> /\ list[defining[k]] = fn.blocks[b].instructions[n]
    BY <2>2
  <2>4. PICK c \in DOMAIN fn.blocks : \E m \in DOMAIN fn.blocks[c].instructions :
          place[defining[l]] = <<c, m>> /\ list[defining[l]] = fn.blocks[c].instructions[m]
    BY <1>1, <1>2, <1>3, <2>1 DEF Laid
  <2>5. PICK m \in DOMAIN fn.blocks[c].instructions :
          place[defining[l]] = <<c, m>> /\ list[defining[l]] = fn.blocks[c].instructions[m]
    BY <2>4
  <2>6. b = c /\ n = m
    BY <1>5, <2>1, <2>3, <2>5 DEF DefinedOnce
  <2>7. defining[k] = defining[l]
    BY <1>1, <2>1, <2>3, <2>5, <2>6 DEF Laid
  <2>8. DOMAIN defining = 1 .. Len(defining) /\ Len(defining) \in Nat
    BY <1>4, CodeIsSequence DEF Ascending
  <2>9. IsSequence(list)
    BY <1>1 DEF Laid
  <2>10. DOMAIN list = 1 .. Len(list) /\ Len(list) \in Nat
    BY <2>9, CodeIsSequence
  <2>11. ~(k < l) /\ ~(l < k)
    BY <1>4, <2>1, <2>7, <2>10 DEF Ascending
  <2> QED BY <2>8, <2>11
<1>6. ASSUME \A k, l \in DOMAIN defining : list[defining[k]].result = list[defining[l]].result => k = l,
             NEW b \in DOMAIN fn.blocks, NEW c \in DOMAIN fn.blocks,
             NEW n \in DOMAIN fn.blocks[b].instructions, NEW m \in DOMAIN fn.blocks[c].instructions,
             fn.blocks[b].instructions[n].result # NoValue,
             fn.blocks[c].instructions[m].result = fn.blocks[b].instructions[n].result
      PROVE  b = c /\ n = m
  <2>1. PICK x \in DOMAIN list : place[x] = <<b, n>>
    BY <1>1, <1>2, <1>3 DEF Laid
  <2>2. list[x] = fn.blocks[b].instructions[n]
    BY <1>1, <1>2, <1>3, <2>1 DEF Laid
  <2>3. PICK y \in DOMAIN list : place[y] = <<c, m>>
    BY <1>1, <1>2, <1>3 DEF Laid
  <2>4. list[y] = fn.blocks[c].instructions[m]
    BY <1>1, <1>2, <1>3, <2>3 DEF Laid
  <2>5. PICK k \in DOMAIN defining : defining[k] = x
    BY <1>4, <1>6, <2>2 DEF Ascending
  <2>6. PICK l \in DOMAIN defining : defining[l] = y
    BY <1>4, <1>6, <2>4 DEF Ascending
  <2>7. k = l
    BY <1>6, <2>2, <2>4, <2>5, <2>6
  <2> QED BY <2>1, <2>3, <2>5, <2>6, <2>7
<1>7. (\A k, l \in DOMAIN Definitions(fn) : Definitions(fn)[k] = Definitions(fn)[l] => k = l)
      <=> \A k, l \in DOMAIN defining : list[defining[k]].result = list[defining[l]].result => k = l
  BY <1>4
<1>8. DefinedOnce(fn) => \A k, l \in DOMAIN defining :
                           list[defining[k]].result = list[defining[l]].result => k = l
  BY <1>5
<1>9. (\A k, l \in DOMAIN defining : list[defining[k]].result = list[defining[l]].result => k = l)
      => DefinedOnce(fn)
  BY <1>6 DEF DefinedOnce
<1> QED BY <1>7, <1>8, <1>9

-----------------------------------------------------------------------------
(* Lowering and the passes make functions of the shape that the types of   *)
(* C++ give them.                                                          *)

\* A vector of shaped instructions.
ShapedList(c) == IsSequence(c) /\ \A n \in DOMAIN c : Shaped(c[n])

\* What the lowering and the passes construct is shaped.
LEMMA Shapes ==
  /\ \A v, type, local : Shaped(Parameter(v, type, local))
  /\ \A v, type, word : Shaped(Constant(v, type, word))
  /\ \A v, type, local : Shaped(LoadLocal(v, type, local))
  /\ \A v, type, local : Shaped(StoreLocal(local, type, v))
  /\ \A v, type, input : Shaped(Negate(v, type, input))
  /\ \A op \in {"arithmetic", "compare"} : \A v, type, operator, left, right :
       Shaped(Binary(op, v, type, operator, left, right))
  /\ \A v, type, callee, passed :
       IsSequence(passed) => Shaped(CallTo(v, type, callee, passed))
<1>1. IsSequence(<<>>) /\ (\A x : IsSequence(<<x>>)) /\ \A x, y : IsSequence(<<x, y>>)
  BY DEF IsSequence
<1>2. \A op \in Kinds : \A type, result, uses : IsSequence(uses) =>
        LET i == IrInstruction(op, type, result, uses)
        IN  Shaped(i) /\ DOMAIN i = {"op", "type", "operator", "result", "uses", "local", "word", "callee"}
            /\ i.op = op /\ i.uses = uses
  BY DEF IrInstruction, Shaped
<1>3. \A i, x : Shaped(i) => /\ Shaped([i EXCEPT !.local = x])
                             /\ Shaped([i EXCEPT !.word = x])
                             /\ Shaped([i EXCEPT !.operator = x])
                             /\ Shaped([i EXCEPT !.callee = x])
  BY DEF Shaped
<1>4. \A v, type, local : Shaped(Parameter(v, type, local))
  BY <1>1, <1>2, <1>3 DEF Parameter, Kinds
<1>5. \A v, type, word : Shaped(Constant(v, type, word))
  BY <1>1, <1>2, <1>3 DEF Constant, Kinds
<1>6. \A v, type, local : Shaped(LoadLocal(v, type, local))
  BY <1>1, <1>2, <1>3 DEF LoadLocal, Kinds
<1>7. \A v, type, local : Shaped(StoreLocal(local, type, v))
  BY <1>1, <1>2, <1>3 DEF StoreLocal, Kinds
<1>8. \A v, type, input : Shaped(Negate(v, type, input))
  BY <1>1, <1>2 DEF Negate, Kinds
<1>9. \A op \in {"arithmetic", "compare"} : \A v, type, operator, left, right :
        Shaped(Binary(op, v, type, operator, left, right))
  BY <1>1, <1>2, <1>3 DEF Binary, Kinds
<1>10. \A v, type, callee, passed :
         IsSequence(passed) => Shaped(CallTo(v, type, callee, passed))
  BY <1>2, <1>3 DEF CallTo, Kinds
<1> QED BY <1>4, <1>5, <1>6, <1>7, <1>8, <1>9, <1>10

\* A vector of instructions and one more.
LEMMA ShapedAppend ==
  ASSUME NEW c, ShapedList(c), NEW i, Shaped(i)
  PROVE  ShapedList(Append(c, i))
<1>1. IsSequence(c) /\ DOMAIN c = 1 .. Len(c) /\ Len(c) \in Nat
  BY CodeIsSequence DEF ShapedList
<1>2. ASSUME NEW n \in DOMAIN Append(c, i) PROVE Shaped(Append(c, i)[n])
  <2>1. n \in 1 .. Len(c) \/ n = Len(c) + 1
    BY <1>1, AppendedIsSequence
  <2> QED BY <1>1, <2>1, AppendedIsSequence DEF ShapedList
<1> QED BY <1>1, <1>2, AppendedIsSequence DEF ShapedList

LEMMA EmptyList == ShapedList(<<>>)
BY DEF ShapedList, IsSequence

-----------------------------------------------------------------------------
\* s, what has been lowered of a block: it has the members of the class, its
\* instructions are shaped and its operands are a sequence.
LoweredPart(s) ==
  /\ {"instructions", "stack", "valueTypes", "terminator", "failure"} \subseteq DOMAIN s
  /\ ShapedTerminator(s.terminator)
  /\ ShapedList(s.instructions)
  /\ IsSequence(s.stack) /\ IsSequence(s.valueTypes)

\* A part of a sequence.
LEMMA SubSequence ==
  ASSUME NEW c, IsSequence(c), NEW m \in Int, NEW n \in Int, m >= 1, n <= Len(c)
  PROVE  IsSequence(SubSeq(c, m, n))
<1> DEFINE S == {c[k] : k \in DOMAIN c}
<1>1. c \in Seq(S)
  BY DEF IsSequence
<1> HIDE DEF S
<1>2. \A k \in m .. n : k \in 1 .. Len(c)
  BY CodeIsSequence
<1>3. \A k \in m .. n : c[k] \in S
  BY <1>1, <1>2
<1>4. SubSeq(c, m, n) \in Seq(S)
  BY <1>1, <1>3
<1> QED BY <1>4, SeqIsSequence

\* The operands that an instruction takes, and those that it leaves.
LEMMA OperandSequences ==
  ASSUME NEW s, IsSequence(s.stack), NEW n \in Nat
  PROVE  /\ IsSequence(Drop(s.stack, n))
         /\ n <= Len(s.stack) => IsSequence(OperandsOf(s, n))
<1>1. Len(s.stack) \in Nat
  BY CodeIsSequence
<1>2. IsSequence(SubSeq(s.stack, 1, Len(s.stack) - n))
  BY <1>1, SubSequence
<1>3. n <= Len(s.stack) => IsSequence(SubSeq(s.stack, Len(s.stack) - n + 1, Len(s.stack)))
  BY <1>1, SubSequence
<1> QED BY <1>2, <1>3 DEF Drop, OperandsOf

\* An instruction that is added to a block.
LEMMA EmitShaped ==
  ASSUME NEW s, LoweredPart(s), NEW i, Shaped(i), NEW n \in Nat, NEW type
  PROVE  LoweredPart(Emit(s, i, n)) /\ LoweredPart(Produce(s, type, i, n))
<1>1. ShapedList(Append(s.instructions, i)) /\ IsSequence(Drop(s.stack, n))
  BY ShapedAppend, OperandSequences DEF LoweredPart
<1>2. IsSequence(Append(Drop(s.stack, n), Len(s.valueTypes) + 1))
  BY <1>1, AppendedIsSequence
<1>3. ASSUME NEW list, ShapedList(list), NEW stack, IsSequence(stack), NEW types, IsSequence(types)
      PROVE  /\ LoweredPart([s EXCEPT !.instructions = list, !.stack = stack])
             /\ LoweredPart([s EXCEPT !.instructions = list, !.valueTypes = types, !.stack = stack])
  BY <1>3 DEF LoweredPart
<1>4. IsSequence(Append(s.valueTypes, type))
  BY AppendedIsSequence DEF LoweredPart
<1> QED BY <1>1, <1>2, <1>3, <1>4 DEF Emit, Produce

\* The end of a block.
LEMMA TerminatorShapes ==
  /\ \A kind, value, falseTarget, trueTarget :
       ShapedTerminator(Terminator(kind, value, falseTarget, trueTarget))
  /\ \A target : ShapedTerminator(Branch(target))
  /\ \A condition, falseTarget, trueTarget :
       ShapedTerminator(BranchIfFalse(condition, falseTarget, trueTarget))
BY DEF ShapedTerminator, Terminator, Branch, BranchIfFalse

LEMMA FailureShaped ==
  ASSUME NEW s, LoweredPart(s), NEW reason
  PROVE  LoweredPart([s EXCEPT !.failure = reason])
BY DEF LoweredPart

LEMMA CloseShaped ==
  ASSUME NEW s, LoweredPart(s), NEW terminator, ShapedTerminator(terminator), NEW n
  PROVE  /\ LoweredPart(Close(s, terminator, n))
         /\ LoweredPart(CloseReturning(s, terminator, n))
<1>1. IsSequence(<<>>)
  BY DEF IsSequence
<1>2. \A word : LoweredPart([s EXCEPT !.failure = word])
  BY DEF LoweredPart
<1>3. LoweredPart([s EXCEPT !.terminator = terminator, !.stack = <<>>])
  BY <1>1 DEF LoweredPart
<1> QED BY <1>2, <1>3 DEF Close, CloseReturning

\* A function of a program whose vectors are sequences.
Vectored(p) ==
  \A id \in DOMAIN p : IsSequence(p[id].parameterTypes) /\ IsSequence(p[id].code)

\* Lowering one instruction of valid bytecode keeps the block shaped,
LEMMA LowerInstructionShaped ==
  ASSUME NEW p, Vectored(p), NEW f, NEW pc, ValidInstruction(p, f, f.code[pc]),
         NEW s, LoweredPart(s)
  PROVE  LoweredPart(LowerInstruction(p, f, s, pc))
<1> DEFINE i == f.code[pc]
           v == Len(s.valueTypes) + 1
           top == Last(s.stack)
           operands == OperandsOf(s, 2)
           result == LowerInstruction(p, f, s, pc)
<1>1. CASE s.failure # "none"
  BY <1>1 DEF LowerInstruction
<1>2. CASE s.failure = "none" /\ (s.terminator.kind # "invalid" \/ Len(s.stack) < Arity(p, f, i))
  <2>1. result = [s EXCEPT !.failure = "internalInvariant"]
    BY <1>2 DEF LowerInstruction
  <2> QED BY <2>1, FailureShaped
<1>3. CASE s.failure = "none" /\ ~(s.terminator.kind # "invalid" \/ Len(s.stack) < Arity(p, f, i))
  <2>0. 0 \in Nat /\ 1 \in Nat /\ 2 \in Nat /\ "arithmetic" \in {"arithmetic", "compare"}
        /\ "compare" \in {"arithmetic", "compare"}
    OBVIOUS
  <2>1. CASE i.op = "constant"
    <3>1. result = Produce(s, i.arg, Constant(v, i.arg, i.word), 0)
      BY <1>3, <2>1 DEF LowerInstruction
    <3> HIDE DEF v, i
    <3> QED BY <2>0, <3>1, Shapes, EmitShaped
  <2>2. CASE i.op = "load"
    <3> DEFINE type == f.localTypes[i.arg]
    <3>1. result = Produce(s, type, LoadLocal(v, type, i.arg), 0)
      BY <1>3, <2>2 DEF LowerInstruction
    <3> HIDE DEF v, i, type
    <3> QED BY <2>0, <3>1, Shapes, EmitShaped
  <2>3. CASE i.op = "store"
    <3>1. result = Emit(s, StoreLocal(i.arg, f.localTypes[i.arg], top), 1)
      BY <1>3, <2>3 DEF LowerInstruction
    <3> HIDE DEF v, i, top
    <3> QED BY <2>0, <3>1, Shapes, EmitShaped
  <2>4. CASE i.op = "pop"
    <3>1. result = [s EXCEPT !.stack = Front(@)]
      BY <1>3, <2>4 DEF LowerInstruction
    <3>2. IsSequence(Front(s.stack))
      <4>1. Len(s.stack) \in Nat /\ IsSequence(s.stack)
        BY CodeIsSequence DEF LoweredPart
      <4>2. IsSequence(SubSeq(s.stack, 1, Len(s.stack) - 1))
        BY <4>1, SubSequence
      <4> QED BY <4>2 DEF Front
    <3> QED BY <3>1, <3>2 DEF LoweredPart
  <2>5. CASE i.op = "unary"
    <3>1. result = Produce(s, i.arg, Negate(v, i.arg, top), 1)
      BY <1>3, <2>5 DEF LowerInstruction
    <3> HIDE DEF v, i, top
    <3> QED BY <2>0, <3>1, Shapes, EmitShaped
  <2>6. CASE i.op = "binary"
    <3>1. result = Produce(s, i.arg, Binary("arithmetic", v, i.arg, i.operator,
                                            operands[1], operands[2]), 2)
      BY <1>3, <2>6 DEF LowerInstruction
    <3> HIDE DEF v, i, operands
    <3> QED BY <2>0, <3>1, Shapes, EmitShaped
  <2>7. CASE i.op = "compare"
    <3>1. result = Produce(s, "boolean", Binary("compare", v, i.arg, i.operator,
                                                operands[1], operands[2]), 2)
      BY <1>3, <2>7 DEF LowerInstruction
    <3> HIDE DEF v, i, operands
    <3> QED BY <2>0, <3>1, Shapes, EmitShaped
  <2>8. CASE i.op = "call"
    <3>1. result = LowerCall(p, s, i.arg)
      BY <1>3, <2>8 DEF LowerInstruction
    <3>2. i.arg \in DOMAIN p
      BY <2>8 DEF ValidInstruction
    <3>3. Arity(p, f, i) = Params(p[i.arg]) /\ Params(p[i.arg]) \in Nat
      <4>1. Arity(p, f, i) = Params(p[i.arg])
        BY <2>8 DEF Arity, Operands, Params
      <4> HIDE DEF i
      <4> QED BY <3>2, <4>1, CodeIsSequence DEF Vectored, Params
    <3> DEFINE n == Params(p[i.arg])
               passed == OperandsOf(s, n)
               type == p[i.arg].returnType
    <3>4. IsSequence(passed)
      <4>1. Len(s.stack) \in Nat /\ IsSequence(s.stack)
        BY CodeIsSequence DEF LoweredPart
      <4>2. n \in Nat /\ n <= Len(s.stack)
        BY <1>3, <3>3, <4>1, SMTT(30)
      <4> HIDE DEF n
      <4> QED BY <4>1, <4>2, OperandSequences
    <3>5. \/ result = [s EXCEPT !.failure = "internalInvariant"]
          \/ result = Emit(s, CallTo(NoValue, "void", i.arg, passed), n)
          \/ result = Produce(s, type, CallTo(v, type, i.arg, passed), n)
      BY <3>1, Zenon DEF LowerCall
    <3>6. Shaped(CallTo(NoValue, "void", i.arg, passed)) /\ Shaped(CallTo(v, type, i.arg, passed))
      <4> HIDE DEF passed, v, type, i
      <4> QED BY <3>4, Shapes
    <3>7. n \in Nat
      BY <3>3
    <3> HIDE DEF passed, type, n, v, i
    <3> QED BY <3>5, <3>6, <3>7, EmitShaped, FailureShaped
  <2>9. CASE i.op = "jump"
    <3> DEFINE t == Branch(BlockAt(f, i.arg))
    <3>1. result = Close(s, t, 0)
      BY <1>3, <2>9 DEF LowerInstruction
    <3>2. ShapedTerminator(t)
      BY TerminatorShapes
    <3> HIDE DEF t
    <3>3. LoweredPart(Close(s, t, 0))
      BY <3>2, CloseShaped
    <3> QED BY <3>1, <3>3
  <2>10. CASE i.op = "jumpIfFalse"
    <3> DEFINE t == BranchIfFalse(top, BlockAt(f, i.arg), s.id + 1)
    <3>1. result = [s EXCEPT !.failure = "internalInvariant"] \/ result = Close(s, t, 1)
      BY <1>3, <2>10 DEF LowerInstruction
    <3>2. ShapedTerminator(t)
      BY TerminatorShapes
    <3> HIDE DEF t
    <3>3. LoweredPart(Close(s, t, 1)) /\ LoweredPart([s EXCEPT !.failure = "internalInvariant"])
      BY <3>2, CloseShaped, FailureShaped
    <3> QED BY <3>1, <3>3
  <2>11. CASE i.op = "returnValue"
    <3> DEFINE t == Terminator("returnValue", top, NoBlock, NoBlock)
    <3>1. result = CloseReturning(s, t, 1)
      BY <1>3, <2>11 DEF LowerInstruction
    <3>2. ShapedTerminator(t)
      BY TerminatorShapes
    <3> HIDE DEF t
    <3> QED BY <3>1, <3>2, CloseShaped
  <2>12. CASE i.op = "returnVoid"
    <3> DEFINE t == Terminator("returnVoid", NoValue, NoBlock, NoBlock)
    <3>1. result = CloseReturning(s, t, 0)
      BY <1>3, <2>12 DEF LowerInstruction
    <3>2. ShapedTerminator(t)
      BY TerminatorShapes
    <3> HIDE DEF t
    <3> QED BY <3>1, <3>2, CloseShaped
  <2> QED
    BY <2>1, <2>2, <2>3, <2>4, <2>5, <2>6, <2>7, <2>8, <2>9, <2>10, <2>11, <2>12 DEF ValidInstruction
<1> QED BY <1>1, <1>2, <1>3

\* A vector of blocks and one more.
LEMMA BlockAppended ==
  ASSUME NEW c, IsSequence(c), \A b \in DOMAIN c : ShapedBlock(c[b]), NEW block, ShapedBlock(block)
  PROVE  /\ IsSequence(Append(c, block))
         /\ \A b \in DOMAIN Append(c, block) : ShapedBlock(Append(c, block)[b])
<1>1. DOMAIN c = 1 .. Len(c) /\ Len(c) \in Nat
  BY CodeIsSequence
<1>2. ASSUME NEW n \in DOMAIN Append(c, block) PROVE ShapedBlock(Append(c, block)[n])
  <2>1. n \in 1 .. Len(c) \/ n = Len(c) + 1
    BY <1>1, AppendedIsSequence
  <2> QED BY <1>1, <2>1, AppendedIsSequence
<1> QED BY <1>2, AppendedIsSequence

\* lowering a block keeps the function shaped,
LEMMA LowerBlockShaped ==
  ASSUME NEW p, Vectored(p), NEW f, IsSequence(f.code),
         \A pc \in 1 .. Len(f.code) : ValidInstruction(p, f, f.code[pc]),
         NEW fn, ShapedIr(fn), NEW leader
  PROVE  ShapedIr(LowerBlock(p, f, fn, leader))
<1> DEFINE id == BlockAt(f, leader)
           pcs == InOrder({pc \in ReachablePcs(f) : BlockAt(f, pc) = id}, Len(f.code))
           start == [id |-> id, instructions |-> <<>>, stack |-> <<>>, valueTypes |-> fn.valueTypes,
                     terminator |-> Terminator("invalid", NoValue, NoBlock, NoBlock), failure |-> "none"]
           body == LoweredInstructions(p, f, start, pcs)
           s == IF body.failure # "none" \/ body.terminator.kind # "invalid" THEN body
                ELSE IF pcs = <<>> \/ id > Cardinality(Leaders(f))
                THEN [body EXCEPT !.failure = "internalInvariant"]
                ELSE Close(body, Branch(id + 1), 0)
           result == LowerBlock(p, f, fn, leader)
           block == Block(id, s.instructions, s.terminator)
<1>1. result = IF fn.failure # "none" THEN fn
               ELSE [fn EXCEPT !.blocks = Append(@, block),
                               !.valueTypes = s.valueTypes, !.failure = s.failure]
  BY DEF LowerBlock, LoweredInstructions
<1>2. IsSequence(pcs) /\ \A k \in DOMAIN pcs : pcs[k] \in 1 .. Len(f.code)
  <2>1. Len(f.code) \in Nat
    BY CodeIsSequence
  <2> QED BY <2>1, InOrderIsSequence
<1>3. LoweredPart(start)
  BY EmptyList, TerminatorShapes DEF LoweredPart, ShapedList, ShapedIr
<1>4. LoweredPart(body)
  <2> HIDE DEF start, pcs
  <2>1. PICK v : /\ v[0] = start
                 /\ \A k \in 1 .. Len(pcs) : v[k] = LowerInstruction(p, f, v[k - 1], pcs[k])
                 /\ body = v[Len(pcs)]
    <3>1. IsSequence(pcs)
      BY <1>2
    <3>2. PICK v : /\ v[0] = start
                   /\ \A k \in 1 .. Len(pcs) : v[k] = LowerInstruction(p, f, v[k - 1], pcs[k])
                   /\ LoweredInstructions(p, f, start, pcs) = v[Len(pcs)]
      BY <3>1, InstructionsFold
    <3>3. body = LoweredInstructions(p, f, start, pcs)
      OBVIOUS
    <3> HIDE DEF body
    <3> QED BY <3>2, <3>3
  <2> DEFINE T == {m \in 0 .. Len(pcs) : LoweredPart(v[m])}
  <2>2. Len(pcs) \in Nat /\ DOMAIN pcs = 1 .. Len(pcs)
    BY <1>2, CodeIsSequence
  <2>3. 0 \in T
    <3>1. v[0] = start
      BY <2>1
    <3> QED BY <1>3, <2>2, <3>1
  <2>4. ASSUME NEW m \in 0 .. Len(pcs) - 1, m \in T PROVE m + 1 \in T
    <3>1. m + 1 \in 1 .. Len(pcs) /\ (m + 1) - 1 = m /\ m + 1 \in 0 .. Len(pcs)
      BY <2>2
    <3>2. v[m + 1] = LowerInstruction(p, f, v[m], pcs[m + 1])
      BY <2>1, <3>1
    <3>3. pcs[m + 1] \in 1 .. Len(f.code)
      BY <1>2, <2>2, <3>1
    <3>4. LoweredPart(v[m])
      BY <2>4
    <3>5. LoweredPart(v[m + 1])
      <4> HIDE DEF T, body
      <4> QED BY <3>2, <3>3, <3>4, LowerInstructionShaped
    <3> QED BY <3>1, <3>5
  <2> HIDE DEF T, body
  <2>5. 0 .. Len(pcs) \subseteq T
    BY <2>2, <2>3, <2>4, IntervalInduction
  <2>6. Len(pcs) \in T
    BY <2>2, <2>5
  <2> QED BY <2>1, <2>6 DEF T
<1> HIDE DEF body, pcs, id
<1>5. LoweredPart(s)
  BY <1>4, TerminatorShapes, FailureShaped, CloseShaped
<1> HIDE DEF s, result
<1>6. ShapedBlock(block)
  BY <1>5 DEF Block, ShapedBlock, LoweredPart, ShapedList
<1> HIDE DEF block
<1>7. ASSUME NEW blocks, IsSequence(blocks), \A b \in DOMAIN blocks : ShapedBlock(blocks[b]),
             NEW types, IsSequence(types), NEW reason
      PROVE  ShapedIr([fn EXCEPT !.blocks = blocks, !.valueTypes = types, !.failure = reason])
  BY <1>7 DEF ShapedIr
<1>8. /\ IsSequence(Append(fn.blocks, block))
      /\ \A b \in DOMAIN Append(fn.blocks, block) : ShapedBlock(Append(fn.blocks, block)[b])
  BY <1>6, BlockAppended DEF ShapedIr
<1>9. ShapedIr(result)
  BY <1>1, <1>5, <1>7, <1>8 DEF LoweredPart
<1> QED BY <1>9 DEF result

\* and lowering makes a shaped function of any valid bytecode.
LEMMA LowerShaped ==
  ASSUME NEW p, Vectored(p), NEW f, IsSequence(f.code), IsSequence(f.parameterTypes),
         Params(f) \in Nat,
         \A pc \in 1 .. Len(f.code) : ValidInstruction(p, f, f.code[pc])
  PROVE  ShapedIr(Lower(p, f))
<1> DEFINE leaders == InOrder(Leaders(f), Len(f.code))
           first == Unverified(f)
           result == LoweredBlocks(p, f, first, leaders)
<1>1. Len(f.code) \in Nat
  BY CodeIsSequence
<1>2. IsSequence(leaders)
  BY <1>1, InOrderIsSequence
<1>3. ShapedIr(first)
  <2> DEFINE n == Params(f)
             defined == [k \in 1 .. n |-> Parameter(k, f.parameterTypes[k], k)]
             stored == [k \in 1 .. n |-> StoreLocal(k, f.parameterTypes[k], k)]
             both == defined \o stored
  <2>1. n \in Nat
    OBVIOUS
  <2>2. /\ defined = [k \in 1 .. n |-> defined[k]] /\ stored = [k \in 1 .. n |-> stored[k]]
        /\ \A k \in 1 .. n : Shaped(defined[k]) /\ Shaped(stored[k])
    BY Shapes
  <2>3. Preheader(f) = Block(1, both, Branch(2))
    BY DEF Preheader
  <2> HIDE DEF n, defined, stored
  <2>4. IsSequence(defined) /\ IsSequence(stored) /\ DOMAIN defined = 1 .. n /\ DOMAIN stored = 1 .. n
    BY <2>1, <2>2, FunctionIsSequence
  <2>5. /\ IsSequence(both) /\ DOMAIN both = 1 .. Len(defined) + Len(stored)
        /\ \A k \in 1 .. Len(defined) : both[k] = defined[k]
        /\ \A k \in 1 .. Len(stored) : both[Len(defined) + k] = stored[k]
    BY <2>4, Joined
  <2>6. /\ DOMAIN defined = 1 .. Len(defined) /\ Len(defined) \in Nat
        /\ DOMAIN stored = 1 .. Len(stored) /\ Len(stored) \in Nat
    BY <2>4, CodeIsSequence
  <2>7. ASSUME NEW k \in DOMAIN both PROVE Shaped(both[k])
    <3>1. \/ k \in 1 .. Len(defined)
          \/ k - Len(defined) \in 1 .. Len(stored) /\ k = Len(defined) + (k - Len(defined))
      BY <2>5, <2>6
    <3> HIDE DEF both
    <3> QED BY <2>2, <2>4, <2>5, <2>6, <3>1
  <2> HIDE DEF both
  <2>8. ShapedBlock(Preheader(f))
    BY <2>3, <2>5, <2>7, TerminatorShapes DEF ShapedBlock, Block
  <2>9. IsSequence(<<Preheader(f)>>)
    BY DEF IsSequence
  <2> QED BY <2>8, <2>9 DEF Unverified, ShapedIr
<1>4. ShapedIr(result)
  <2> HIDE DEF leaders, first
  <2>1. PICK v : /\ v[0] = first
                 /\ \A k \in 1 .. Len(leaders) : v[k] = LowerBlock(p, f, v[k - 1], leaders[k])
                 /\ result = v[Len(leaders)]
    BY <1>2, BlocksFold
  <2> DEFINE T == {m \in 0 .. Len(leaders) : ShapedIr(v[m])}
  <2>2. Len(leaders) \in Nat
    BY <1>2, CodeIsSequence
  <2>3. 0 \in T
    <3>1. v[0] = first
      BY <2>1
    <3> QED BY <1>3, <2>2, <3>1
  <2>4. ASSUME NEW m \in 0 .. Len(leaders) - 1, m \in T PROVE m + 1 \in T
    <3>1. m + 1 \in 1 .. Len(leaders) /\ (m + 1) - 1 = m /\ m + 1 \in 0 .. Len(leaders)
      BY <2>2
    <3>2. v[m + 1] = LowerBlock(p, f, v[m], leaders[m + 1])
      BY <2>1, <3>1
    <3>3. ShapedIr(v[m])
      BY <2>4
    <3>4. ShapedIr(v[m + 1])
      <4> HIDE DEF T, result
      <4> QED BY <3>2, <3>3, LowerBlockShaped
    <3> QED BY <3>1, <3>4
  <2> HIDE DEF T, result
  <2>5. 0 .. Len(leaders) \subseteq T
    BY <2>2, <2>3, <2>4, IntervalInduction
  <2>6. Len(leaders) \in T
    BY <2>2, <2>5
  <2> QED BY <2>1, <2>6 DEF T
<1> QED BY <1>4 DEF Lower, LoweredBlocks

-----------------------------------------------------------------------------
(* The passes.                                                             *)

\* A pass that replaces every instruction by a shaped one.
LEMMA BlocksShaped ==
  ASSUME NEW fn, ShapedIr(fn), NEW blocks,
         DOMAIN blocks = DOMAIN fn.blocks, blocks = [b \in DOMAIN blocks |-> blocks[b]],
         \A b \in DOMAIN blocks : ShapedBlock(blocks[b])
  PROVE  ShapedIr([fn EXCEPT !.blocks = blocks])
<1>1. DOMAIN fn.blocks = 1 .. Len(fn.blocks) /\ Len(fn.blocks) \in Nat
  BY CodeIsSequence DEF ShapedIr
<1>2. IsSequence(blocks)
  BY <1>1, FunctionIsSequence
<1> QED BY <1>2 DEF ShapedIr

\* A vector whose instructions are replaced one by one.
LEMMA ListReplaced ==
  ASSUME NEW c, ShapedList(c), NEW d, d = [n \in DOMAIN c |-> d[n]], \A n \in DOMAIN c : Shaped(d[n])
  PROVE  ShapedList(d)
<1>1. DOMAIN c = 1 .. Len(c) /\ Len(c) \in Nat
  BY CodeIsSequence DEF ShapedList
<1>2. IsSequence(d) /\ DOMAIN d = DOMAIN c
  BY <1>1, FunctionIsSequence
<1> QED BY <1>2 DEF ShapedList

\* Each of the passes makes a shaped function of a shaped one.
LEMMA FoldConstantsShaped ==
  ASSUME NEW fn, ShapedIr(fn)
  PROVE  ShapedIr(FoldConstants(fn))
<1> DEFINE facts == ConstantFacts(fn)
           folded(i) == IF (i.op = "negate" \/ Folds(i)) /\ i.result \in DOMAIN facts.i64
                        THEN Constant(i.result, "i64", facts.i64[i.result])
                        ELSE i
           list(b) == [n \in DOMAIN fn.blocks[b].instructions |-> folded(fn.blocks[b].instructions[n])]
           blocks == [b \in DOMAIN fn.blocks |->
             [fn.blocks[b] EXCEPT !.instructions = [n \in DOMAIN @ |-> folded(@[n])]]]
<1>1. FoldConstants(fn) = [fn EXCEPT !.blocks = blocks]
  BY DEF FoldConstants, EachInstruction
<1> HIDE DEF facts
<1>2. \A i : Shaped(i) => Shaped(folded(i))
  BY Shapes
<1> HIDE DEF folded
<1>3. ASSUME NEW b \in DOMAIN fn.blocks PROVE ShapedBlock(blocks[b])
  <2>1. ShapedBlock(fn.blocks[b])
    BY DEF ShapedIr
  <2>2. ShapedList(list(b))
    <3>1. list(b) = [n \in DOMAIN fn.blocks[b].instructions |-> list(b)[n]]
      OBVIOUS
    <3>2. \A n \in DOMAIN fn.blocks[b].instructions : Shaped(list(b)[n])
      BY <1>2, <2>1 DEF ShapedBlock
    <3> HIDE DEF list
    <3> QED BY <2>1, <3>1, <3>2, ListReplaced DEF ShapedBlock, ShapedList
  <2>3. blocks[b] = [fn.blocks[b] EXCEPT !.instructions = list(b)]
    OBVIOUS
  <2> HIDE DEF blocks, list
  <2> QED BY <2>1, <2>2, <2>3 DEF ShapedBlock, ShapedList
<1>4. DOMAIN blocks = DOMAIN fn.blocks /\ blocks = [b \in DOMAIN blocks |-> blocks[b]]
  OBVIOUS
<1> HIDE DEF blocks
<1> QED BY <1>1, <1>3, <1>4, BlocksShaped

\* What constant propagation has made of a block and of those before it.
PropagatedPart(s) ==
  /\ {"values", "locals", "instructions", "blocks"} \subseteq DOMAIN s
  /\ ShapedList(s.instructions)
  /\ IsSequence(s.blocks) /\ \A b \in DOMAIN s.blocks : ShapedBlock(s.blocks[b])

\* One step of constant propagation, then one block of it.
LEMMA PropagateInstructionShaped ==
  ASSUME NEW s, PropagatedPart(s), NEW i, Shaped(i)
  PROVE  PropagatedPart(PropagateInstruction(s, i))
<1>1. ASSUME NEW j, Shaped(j), NEW x
      PROVE  /\ PropagatedPart([s EXCEPT !.values = x, !.instructions = Append(@, j)])
             /\ PropagatedPart([s EXCEPT !.locals = x, !.instructions = Append(@, j)])
             /\ PropagatedPart([s EXCEPT !.instructions = Append(@, j)])
  <2>1. ShapedList(Append(s.instructions, j))
    BY <1>1, ShapedAppend DEF PropagatedPart
  <2> QED BY <2>1 DEF PropagatedPart
<1>2. Shaped(Constant(i.result, "i64", s.locals[i.local]))
  BY Shapes
<1>3. CASE i.op = "constant" /\ i.type = "i64"
  <2> DEFINE x == Assigned(s.values, i.result, i.word)
  <2>1. PropagateInstruction(s, i) = [s EXCEPT !.values = x, !.instructions = Append(@, i)]
    BY <1>3, SMTT(30) DEF PropagateInstruction
  <2> HIDE DEF x
  <2>2. PropagatedPart([s EXCEPT !.values = x, !.instructions = Append(@, i)])
    BY <1>1
  <2> QED BY <2>1, <2>2
<1>4. CASE ~(i.op = "constant" /\ i.type = "i64") /\ i.op = "load" /\ i.local \in DOMAIN s.locals
  <2> DEFINE x == Assigned(s.values, i.result, s.locals[i.local])
             j == Constant(i.result, "i64", s.locals[i.local])
  <2>1. PropagateInstruction(s, i) = [s EXCEPT !.values = x, !.instructions = Append(@, j)]
    BY <1>4 DEF PropagateInstruction
  <2>2. Shaped(j)
    BY <1>2, SMTT(30)
  <2> HIDE DEF x, j
  <2>3. PropagatedPart([s EXCEPT !.values = x, !.instructions = Append(@, j)])
    BY <1>1, <2>2
  <2> QED BY <2>1, <2>3
<1>5. CASE i.op = "store"
  <2> DEFINE x == IF i.uses[1] \in DOMAIN s.values
                  THEN Assigned(s.locals, i.local, s.values[i.uses[1]])
                  ELSE [l \in DOMAIN s.locals \ {i.local} |-> s.locals[l]]
  <2>1. PropagateInstruction(s, i) = [s EXCEPT !.locals = x, !.instructions = Append(@, i)]
    BY <1>5, SMTT(30) DEF PropagateInstruction
  <2> HIDE DEF x
  <2>2. PropagatedPart([s EXCEPT !.locals = x, !.instructions = Append(@, i)])
    BY <1>1
  <2> QED BY <2>1, <2>2
<1>6. CASE /\ ~(i.op = "constant" /\ i.type = "i64")
           /\ ~(i.op = "load" /\ i.local \in DOMAIN s.locals)
           /\ i.op # "store"
  BY <1>1, <1>6 DEF PropagateInstruction
<1> QED BY <1>3, <1>4, <1>5, <1>6

LEMMA PropagateBlockShaped ==
  ASSUME NEW s, PropagatedPart(s), NEW block, ShapedBlock(block)
  PROVE  PropagatedPart(PropagateBlock(s, block))
<1> DEFINE first == [s EXCEPT !.instructions = <<>>, !.locals = <<>>]
           list == block.instructions
           t == PropagatedInstructions(first, list)
           made == [block EXCEPT !.instructions = t.instructions]
<1>1. PropagateBlock(s, block) = [t EXCEPT !.blocks = Append(@, made)]
  BY DEF PropagateBlock, PropagatedInstructions
<1>2. PropagatedPart(first)
  BY EmptyList DEF PropagatedPart
<1>3. IsSequence(list) /\ \A n \in DOMAIN list : Shaped(list[n])
  BY DEF ShapedBlock
<1> HIDE DEF first, list
<1>4. PropagatedPart(t)
  <2>1. PICK v : /\ v[0] = first
                 /\ \A k \in 1 .. Len(list) : v[k] = PropagateInstruction(v[k - 1], list[k])
                 /\ t = v[Len(list)]
    BY <1>3, PropagationFolds
  <2> DEFINE T == {m \in 0 .. Len(list) : PropagatedPart(v[m])}
  <2>2. Len(list) \in Nat /\ DOMAIN list = 1 .. Len(list)
    BY <1>3, CodeIsSequence
  <2>3. 0 \in T
    BY <1>2, <2>1, <2>2
  <2>4. ASSUME NEW m \in 0 .. Len(list) - 1, m \in T PROVE m + 1 \in T
    <3>1. m + 1 \in 1 .. Len(list) /\ (m + 1) - 1 = m /\ m + 1 \in 0 .. Len(list)
      BY <2>2
    <3>2. v[m + 1] = PropagateInstruction(v[m], list[m + 1])
      BY <2>1, <3>1
    <3>3. PropagatedPart(v[m]) /\ Shaped(list[m + 1])
      BY <1>3, <2>2, <2>4, <3>1
    <3>4. PropagatedPart(v[m + 1])
      <4> HIDE DEF T, t
      <4> QED BY <3>2, <3>3, PropagateInstructionShaped
    <3> QED BY <3>1, <3>4
  <2> HIDE DEF T, t
  <2>5. 0 .. Len(list) \subseteq T
    BY <2>2, <2>3, <2>4, IntervalInduction
  <2>6. Len(list) \in T
    BY <2>2, <2>5
  <2> QED BY <2>1, <2>6 DEF T
<1> HIDE DEF t
<1>5. ShapedBlock(made)
  BY <1>4 DEF ShapedBlock, PropagatedPart, ShapedList
<1> HIDE DEF made
<1>6. /\ IsSequence(Append(t.blocks, made))
      /\ \A b \in DOMAIN Append(t.blocks, made) : ShapedBlock(Append(t.blocks, made)[b])
  BY <1>4, <1>5, BlockAppended DEF PropagatedPart
<1>7. PropagatedPart([t EXCEPT !.blocks = Append(@, made)])
  BY <1>4, <1>6 DEF PropagatedPart
<1> QED BY <1>1, <1>7

LEMMA PropagateConstantsShaped ==
  ASSUME NEW fn, ShapedIr(fn)
  PROVE  ShapedIr(PropagateConstants(fn))
<1> DEFINE first == [values |-> <<>>, locals |-> <<>>, instructions |-> <<>>, blocks |-> <<>>]
           list == fn.blocks
           t == PropagatedBlocks(first, list)
<1>1. PropagateConstants(fn) = [fn EXCEPT !.blocks = t.blocks]
  BY DEF PropagateConstants, PropagatedBlocks
<1>2. PropagatedPart(first)
  BY EmptyList DEF PropagatedPart, ShapedList
<1>3. IsSequence(list) /\ \A n \in DOMAIN list : ShapedBlock(list[n])
  BY DEF ShapedIr
<1> HIDE DEF first, list
<1>4. PropagatedPart(t)
  <2>1. PICK v : /\ v[0] = first
                 /\ \A k \in 1 .. Len(list) : v[k] = PropagateBlock(v[k - 1], list[k])
                 /\ t = v[Len(list)]
    BY <1>3, EpochsFold, ZenonT(30)
  <2> DEFINE T == {m \in 0 .. Len(list) : PropagatedPart(v[m])}
  <2>2. Len(list) \in Nat /\ DOMAIN list = 1 .. Len(list)
    BY <1>3, CodeIsSequence
  <2>3. 0 \in T
    BY <1>2, <2>1, <2>2
  <2>4. ASSUME NEW m \in 0 .. Len(list) - 1, m \in T PROVE m + 1 \in T
    <3>1. m + 1 \in 1 .. Len(list) /\ (m + 1) - 1 = m /\ m + 1 \in 0 .. Len(list)
      BY <2>2
    <3>2. v[m + 1] = PropagateBlock(v[m], list[m + 1])
      BY <2>1, <3>1
    <3>3. PropagatedPart(v[m]) /\ ShapedBlock(list[m + 1])
      BY <1>3, <2>2, <2>4, <3>1
    <3>4. PropagatedPart(v[m + 1])
      <4> HIDE DEF T, t
      <4> QED BY <3>2, <3>3, PropagateBlockShaped
    <3> QED BY <3>1, <3>4
  <2> HIDE DEF T, t
  <2>5. 0 .. Len(list) \subseteq T
    BY <2>2, <2>3, <2>4, IntervalInduction
  <2>6. Len(list) \in T
    BY <2>2, <2>5
  <2> QED BY <2>1, <2>6 DEF T
<1> HIDE DEF t
<1> QED BY <1>1, <1>4 DEF ShapedIr, PropagatedPart

LEMMA ShapedIsListed ==
  ASSUME NEW fn, ShapedIr(fn)
  PROVE  Listed(fn)
BY DEF ShapedIr, ShapedBlock, Listed

LEMMA CompactValuesShaped ==
  ASSUME NEW fn, ShapedIr(fn)
  PROVE  ShapedIr(CompactValues(fn))
<1> DEFINE old == Definitions(fn)
           new(v) == IF v \in ToSet(old) THEN CHOOSE k \in DOMAIN old : old[k] = v ELSE NoValue
           renamed(i) == [i EXCEPT !.result = new(@), !.uses = [k \in DOMAIN @ |-> new(@[k])]]
           list(b) == [n \in DOMAIN fn.blocks[b].instructions |-> renamed(fn.blocks[b].instructions[n])]
           each == [b \in DOMAIN fn.blocks |->
             [fn.blocks[b] EXCEPT !.instructions = [n \in DOMAIN @ |-> renamed(@[n])]]]
           blocks == [b \in DOMAIN each |-> [each[b] EXCEPT !.terminator.value = new(@)]]
           types == [k \in DOMAIN old |-> fn.valueTypes[old[k]]]
<1>1. CompactValues(fn) = [fn EXCEPT !.valueTypes = types, !.blocks = blocks]
  <2> DEFINE made == [fn EXCEPT !.blocks = each]
  <2>1. CompactValues(fn) =
          [fn EXCEPT !.valueTypes = types,
                     !.blocks = [b \in DOMAIN made.blocks |->
                                   [made.blocks[b] EXCEPT !.terminator.value = new(@)]]]
    BY DEF CompactValues, EachInstruction
  <2> HIDE DEF renamed, new, types, each
  <2>2. made.blocks = each
    BY DEF ShapedIr
  <2> HIDE DEF made
  <2> QED BY <2>1, <2>2
<1>0. IsSequence(types)
  <2>1. IsSequence(old)
    BY ShapedIsListed, DefinitionsAreSequence
  <2>2. DOMAIN old = 1 .. Len(old) /\ Len(old) \in Nat
    BY <2>1, CodeIsSequence
  <2>3. types = [k \in 1 .. Len(old) |-> types[k]]
    BY <2>2
  <2> HIDE DEF old, types
  <2> QED BY <2>2, <2>3, FunctionIsSequence
<1> HIDE DEF old, new, types
<1>2. ASSUME NEW i, Shaped(i) PROVE Shaped(renamed(i))
  <2> DEFINE uses == [k \in DOMAIN i.uses |-> new(i.uses[k])]
  <2>1. IsSequence(uses)
    <3>1. DOMAIN i.uses = 1 .. Len(i.uses) /\ Len(i.uses) \in Nat
      BY <1>2, CodeIsSequence DEF Shaped
    <3>2. uses = [k \in 1 .. Len(i.uses) |-> uses[k]]
      BY <3>1
    <3> HIDE DEF uses
    <3> QED BY <3>1, <3>2, FunctionIsSequence
  <2>2. renamed(i) = [i EXCEPT !.result = new(@), !.uses = uses]
    OBVIOUS
  <2> HIDE DEF uses, renamed
  <2> QED BY <1>2, <2>1, <2>2 DEF Shaped
<1> HIDE DEF renamed
<1>3. ASSUME NEW b \in DOMAIN fn.blocks PROVE ShapedBlock(blocks[b])
  <2>1. ShapedBlock(fn.blocks[b])
    BY DEF ShapedIr
  <2>2. ShapedList(list(b))
    <3>1. list(b) = [n \in DOMAIN fn.blocks[b].instructions |-> list(b)[n]]
      OBVIOUS
    <3>2. \A n \in DOMAIN fn.blocks[b].instructions : Shaped(list(b)[n])
      BY <1>2, <2>1 DEF ShapedBlock
    <3> HIDE DEF list
    <3> QED BY <2>1, <3>1, <3>2, ListReplaced DEF ShapedBlock, ShapedList
  <2>3. each[b] = [fn.blocks[b] EXCEPT !.instructions = list(b)]
    OBVIOUS
  <2>4. blocks[b] = [each[b] EXCEPT !.terminator.value = new(@)]
    BY Zenon
  <2> HIDE DEF blocks, list, each
  <2>5. ShapedBlock(each[b])
    BY <2>1, <2>2, <2>3 DEF ShapedBlock, ShapedList
  <2>6. blocks[b] = [each[b] EXCEPT !.terminator = [each[b].terminator EXCEPT !.value = new(@)]]
    BY <2>4
  <2>7. ShapedTerminator([each[b].terminator EXCEPT !.value = new(@)])
    BY <2>5, SMTT(30) DEF ShapedBlock, ShapedTerminator
  <2> QED BY <2>5, <2>6, <2>7 DEF ShapedBlock
<1>4. DOMAIN blocks = DOMAIN fn.blocks /\ blocks = [b \in DOMAIN blocks |-> blocks[b]]
  OBVIOUS
<1> HIDE DEF blocks
<1>5. ShapedIr([fn EXCEPT !.blocks = blocks])
  BY <1>3, <1>4, BlocksShaped
<1> QED BY <1>0, <1>1, <1>5 DEF ShapedIr

LEMMA SimplifyCfgShaped ==
  ASSUME NEW fn, ShapedIr(fn)
  PROVE  ShapedIr(SimplifyCfg(fn))
<1> DEFINE facts == ConstantFacts(fn)
           decided == [b \in DOMAIN fn.blocks |->
                         [fn.blocks[b] EXCEPT !.terminator = Decide(@, facts)]]
           kept == Remaining(decided)
           new(b) == IF b \in ToSet(kept) THEN CHOOSE k \in DOMAIN kept : kept[k] = b ELSE NoBlock
           renumbered(t) == [t EXCEPT !.trueTarget = new(@), !.falseTarget = new(@)]
           blocks == [k \in DOMAIN kept |->
                        [decided[kept[k]] EXCEPT !.id = k, !.terminator = renumbered(@)]]
<1>1. SimplifyCfg(fn) = CompactValues([fn EXCEPT !.blocks = blocks])
  BY DEF SimplifyCfg
<1> HIDE DEF facts
<1>2. DOMAIN fn.blocks = 1 .. Len(fn.blocks) /\ Len(fn.blocks) \in Nat
  BY CodeIsSequence DEF ShapedIr
<1>3. ASSUME NEW b \in DOMAIN fn.blocks PROVE ShapedBlock(decided[b])
  <2>1. ShapedBlock(fn.blocks[b])
    BY DEF ShapedIr
  <2>2. ShapedTerminator(Decide(fn.blocks[b].terminator, facts))
    BY <2>1, TerminatorShapes DEF Decide, ShapedBlock
  <2> QED BY <2>1, <2>2 DEF ShapedBlock
<1>4. IsSequence(decided) /\ DOMAIN decided = DOMAIN fn.blocks
  <2>1. decided = [b \in 1 .. Len(fn.blocks) |-> decided[b]]
    BY <1>2
  <2> HIDE DEF decided
  <2> QED BY <1>2, <2>1, FunctionIsSequence
<1> HIDE DEF decided
<1>5. IsSequence(kept) /\ \A k \in DOMAIN kept : kept[k] \in DOMAIN fn.blocks
  <2>1. DOMAIN decided = 1 .. Len(decided) /\ Len(decided) \in Nat
    BY <1>4, CodeIsSequence
  <2> QED BY <1>4, <2>1, InOrderIsSequence DEF Remaining
<1>9. \A t : ShapedTerminator(t) => ShapedTerminator(renumbered(t))
  BY DEF ShapedTerminator
<1> HIDE DEF kept, new, renumbered
<1>6. ASSUME NEW k \in DOMAIN kept PROVE ShapedBlock(blocks[k])
  <2>1. ShapedBlock(decided[kept[k]])
    BY <1>3, <1>5
  <2>2. blocks[k] = [decided[kept[k]] EXCEPT !.id = k, !.terminator = renumbered(@)]
    OBVIOUS
  <2> HIDE DEF blocks
  <2> QED BY <1>9, <2>1, <2>2 DEF ShapedBlock
<1>7. IsSequence(blocks) /\ DOMAIN blocks = DOMAIN kept
  <2>1. DOMAIN kept = 1 .. Len(kept) /\ Len(kept) \in Nat
    BY <1>5, CodeIsSequence
  <2>2. blocks = [k \in 1 .. Len(kept) |-> blocks[k]]
    BY <2>1
  <2> HIDE DEF blocks
  <2> QED BY <2>1, <2>2, FunctionIsSequence
<1> HIDE DEF blocks
<1>8. ShapedIr([fn EXCEPT !.blocks = blocks])
  BY <1>6, <1>7 DEF ShapedIr
<1> QED BY <1>1, <1>8, CompactValuesShaped

\* What has been kept of the end of a block.
NeededPart(s) == {"live", "kept"} \subseteq DOMAIN s /\ ShapedList(s.kept)

LEMMA KeepIfNeededShaped ==
  ASSUME NEW s, NeededPart(s), NEW i, Shaped(i)
  PROVE  NeededPart(KeepIfNeeded(s, i))
<1> DEFINE longer == <<i>> \o s.kept
<1>1. IsSequence(<<i>>) /\ Len(<<i>>) = 1 /\ <<i>>[1] = i
  BY DEF IsSequence
<1>2. DOMAIN s.kept = 1 .. Len(s.kept) /\ Len(s.kept) \in Nat /\ IsSequence(s.kept)
  BY CodeIsSequence DEF NeededPart, ShapedList
<1>3. /\ IsSequence(longer) /\ DOMAIN longer = 1 .. Len(<<i>>) + Len(s.kept)
      /\ \A k \in 1 .. Len(<<i>>) : longer[k] = <<i>>[k]
      /\ \A k \in 1 .. Len(s.kept) : longer[Len(<<i>>) + k] = s.kept[k]
  BY <1>1, <1>2, Joined
<1> HIDE DEF longer
<1>4. ASSUME NEW k \in DOMAIN longer PROVE Shaped(longer[k])
  <2>1. k = 1 \/ (k - 1 \in 1 .. Len(s.kept) /\ k = 1 + (k - 1))
    BY <1>1, <1>2, <1>3
  <2>2. 1 \in 1 .. Len(<<i>>)
    BY <1>1
  <2>3. longer[1] = i
    BY <1>1, <1>3, <2>2
  <2>4. \A n \in 1 .. Len(s.kept) : Shaped(s.kept[n])
    BY <1>2 DEF NeededPart, ShapedList
  <2> QED BY <1>1, <1>3, <2>1, <2>3, <2>4
<1>5. ShapedList(longer)
  BY <1>3, <1>4 DEF ShapedList
<1>6. \/ KeepIfNeeded(s, i) = s
      \/ KeepIfNeeded(s, i) = [live |-> (s.live \ {i.result}) \cup ToSet(i.uses), kept |-> longer]
  BY DEF KeepIfNeeded, longer
<1> QED BY <1>5, <1>6 DEF NeededPart

\* The function that has the needed instructions of each block.
LEMMA NeededShaped ==
  ASSUME NEW fn, ShapedIr(fn)
  PROVE  LET needed(b) ==
               NeededInstructions([live |-> LiveAtEnd(fn.blocks[b].terminator), kept |-> <<>>],
                                  Reverse(fn.blocks[b].instructions)).kept
         IN ShapedIr([fn EXCEPT !.blocks =
              [b \in DOMAIN fn.blocks |-> [fn.blocks[b] EXCEPT !.instructions = needed(b)]]])
<1> DEFINE first(b) == [live |-> LiveAtEnd(fn.blocks[b].terminator), kept |-> <<>>]
           list(b) == Reverse(fn.blocks[b].instructions)
           needed(b) == NeededInstructions(first(b), list(b)).kept
           blocks == [b \in DOMAIN fn.blocks |-> [fn.blocks[b] EXCEPT !.instructions = needed(b)]]
<1> HIDE DEF needed
<1>2. ASSUME NEW b \in DOMAIN fn.blocks PROVE ShapedList(needed(b))
  <2> DEFINE base == first(b)
             backwards == list(b)
             s == NeededInstructions(base, backwards)
             c == fn.blocks[b].instructions
  <2>1. IsSequence(c) /\ DOMAIN c = 1 .. Len(c) /\ Len(c) \in Nat /\ \A n \in DOMAIN c : Shaped(c[n])
    BY CodeIsSequence DEF ShapedIr, ShapedBlock
  <2>2. /\ backwards = [n \in 1 .. Len(c) |-> backwards[n]]
        /\ \A n \in 1 .. Len(c) : backwards[n] = c[Len(c) - n + 1]
    BY DEF Reverse
  <2>3. NeededPart(base)
    BY EmptyList DEF NeededPart
  <2>4. needed(b) = s.kept
    BY DEF needed
  <2> HIDE DEF base, backwards, c
  <2>5. IsSequence(backwards) /\ DOMAIN backwards = 1 .. Len(c)
    BY <2>1, <2>2, FunctionIsSequence
  <2>6. \A n \in DOMAIN backwards : Shaped(backwards[n])
    <3> SUFFICES ASSUME NEW n \in 1 .. Len(c) PROVE Shaped(backwards[n])
      BY <2>5
    <3>1. Len(c) - n + 1 \in DOMAIN c
      BY <2>1
    <3> QED BY <2>1, <2>2, <3>1
  <2>7. PICK v : /\ v[0] = base
                 /\ \A k \in 1 .. Len(backwards) : v[k] = KeepIfNeeded(v[k - 1], backwards[k])
                 /\ s = v[Len(backwards)]
    BY <2>5, LivenessFolds
  <2> DEFINE n == Len(backwards)
             T == {m \in 0 .. n : NeededPart(v[m])}
  <2>8. n \in Nat /\ DOMAIN backwards = 1 .. n
    BY <2>5, CodeIsSequence
  <2>9. 0 \in T
    BY <2>3, <2>7, <2>8
  <2>10. ASSUME NEW m \in 0 .. n - 1, m \in T PROVE m + 1 \in T
    <3>1. m + 1 \in 1 .. n /\ (m + 1) - 1 = m /\ m + 1 \in 0 .. n
      BY <2>8
    <3>2. v[m + 1] = KeepIfNeeded(v[m], backwards[m + 1])
      BY <2>7, <3>1
    <3>3. NeededPart(v[m]) /\ Shaped(backwards[m + 1])
      BY <2>6, <2>8, <2>10, <3>1
    <3>4. NeededPart(v[m + 1])
      <4> HIDE DEF T, n, s
      <4> QED BY <3>2, <3>3, KeepIfNeededShaped
    <3> QED BY <3>1, <3>4
  <2> HIDE DEF T, n, s
  <2>11. 0 .. n \subseteq T
    BY <2>8, <2>9, <2>10, IntervalInduction
  <2>12. n \in T
    BY <2>8, <2>11
  <2>13. NeededPart(v[n])
    BY <2>12 DEF T
  <2> QED BY <2>4, <2>7, <2>13 DEF NeededPart, n
<1>3. ASSUME NEW b \in DOMAIN fn.blocks PROVE ShapedBlock(blocks[b])
  <2>1. ShapedBlock(fn.blocks[b])
    BY DEF ShapedIr
  <2>2. blocks[b] = [fn.blocks[b] EXCEPT !.instructions = needed(b)]
    OBVIOUS
  <2> HIDE DEF blocks
  <2> QED BY <1>2, <2>1, <2>2 DEF ShapedBlock, ShapedList
<1>4. DOMAIN blocks = DOMAIN fn.blocks /\ blocks = [b \in DOMAIN blocks |-> blocks[b]]
  OBVIOUS
<1> HIDE DEF blocks
<1>5. ShapedIr([fn EXCEPT !.blocks = blocks])
  BY <1>3, <1>4, BlocksShaped
<1> QED BY <1>5 DEF blocks, needed

LEMMA EliminateDeadCodeShaped ==
  ASSUME NEW fn, ShapedIr(fn)
  PROVE  ShapedIr(EliminateDeadCode(fn))
<1> DEFINE needed(b) ==
             NeededInstructions([live |-> LiveAtEnd(fn.blocks[b].terminator), kept |-> <<>>],
                                Reverse(fn.blocks[b].instructions)).kept
           blocks == [b \in DOMAIN fn.blocks |-> [fn.blocks[b] EXCEPT !.instructions = needed(b)]]
<1>1. EliminateDeadCode(fn) = CompactValues([fn EXCEPT !.blocks = blocks])
  BY DEF EliminateDeadCode, NeededInstructions
<1>2. ShapedIr([fn EXCEPT !.blocks = blocks])
  BY NeededShaped
<1> HIDE DEF blocks
<1> QED BY <1>1, <1>2, CompactValuesShaped

-----------------------------------------------------------------------------
(* The blocks that are entered: the least set that has the first block and *)
(* the targets of its open blocks.                                         *)

\* The blocks of a set and those that its open blocks go to.
Further(blocks, open, S) == S \cup UNION {Targets(blocks[b].terminator) : b \in S \cap open}

LEMMA EnteredUnfolds ==
  ASSUME NEW blocks, Len(blocks) \in Nat, NEW open
  PROVE  \E w : /\ w[0] = {1}
                /\ \A k \in 1 .. Len(blocks) : w[k] = Further(blocks, open, w[k - 1])
                /\ Entered(blocks, open) = w[Len(blocks)]
<1> DEFINE n == Len(blocks)
           Sets(w, m) == w = [k \in 0 .. m |->
             IF k = 0 THEN {1} ELSE Further(blocks, open, w[k - 1])]
           T == {m \in 0 .. n : \E w : Sets(w, m)}
<1>1. 0 \in T
  <2> DEFINE w == [k \in 0 .. 0 |-> {1}]
  <2>1. Sets(w, 0)
    OBVIOUS
  <2> HIDE DEF w, Sets
  <2> QED BY <2>1
<1>2. ASSUME NEW m \in 0 .. n - 1, m \in T PROVE m + 1 \in T
  <2>1. PICK w : Sets(w, m)
    BY <1>2
  <2> DEFINE v == [k \in 0 .. m + 1 |-> IF k = 0 THEN {1} ELSE Further(blocks, open, w[k - 1])]
  <2>2. ASSUME NEW k \in 0 .. m + 1, k # 0 PROVE v[k - 1] = w[k - 1]
    <3>1. k - 1 \in 0 .. m /\ k - 1 \in 0 .. m + 1
      BY <2>2
    <3>2. w[k - 1] = IF k - 1 = 0 THEN {1} ELSE Further(blocks, open, w[k - 1 - 1])
      BY <2>1, <3>1
    <3> QED BY <3>1, <3>2
  <2>3. Sets(v, m + 1)
    <3>1. ASSUME NEW k \in 0 .. m + 1
          PROVE  v[k] = IF k = 0 THEN {1} ELSE Further(blocks, open, v[k - 1])
      <4>1. v[k] = IF k = 0 THEN {1} ELSE Further(blocks, open, w[k - 1])
        OBVIOUS
      <4> HIDE DEF v
      <4> QED BY <2>2, <4>1
    <3>2. v = [k \in 0 .. m + 1 |-> v[k]]
      OBVIOUS
    <3> HIDE DEF v
    <3> QED BY <3>1, <3>2
  <2> HIDE DEF v, Sets
  <2> QED BY <2>3
<1>3. PICK w : Sets(w, n)
  <2> HIDE DEF T
  <2>1. 0 .. n \subseteq T
    BY <1>1, <1>2, IntervalInduction
  <2>2. n \in T
    BY <2>1
  <2> QED BY <2>2 DEF T
<1>4. PICK v : Sets(v, n) /\ Entered(blocks, open) = v[n]
  BY <1>3 DEF Entered, Further
<1>5. v[0] = {1} /\ \A k \in 1 .. n : v[k] = Further(blocks, open, v[k - 1])
  <2>1. \A k \in 0 .. n : v[k] = IF k = 0 THEN {1} ELSE Further(blocks, open, v[k - 1])
    BY <1>4
  <2>2. 0 \in 0 .. n /\ \A k \in 1 .. n : k \in 0 .. n /\ k # 0
    OBVIOUS
  <2> QED BY <2>1, <2>2
<1> HIDE DEF Sets
<1> QED BY <1>4, <1>5

\* What has the first block, and what its open blocks go to, has all of them.
LEMMA EnteredLeast ==
  ASSUME NEW blocks, Len(blocks) \in Nat, NEW open, NEW S, 1 \in S,
         \A b \in S \cap open : Targets(blocks[b].terminator) \subseteq S
  PROVE  Entered(blocks, open) \subseteq S
<1>1. PICK w : /\ w[0] = {1}
               /\ \A k \in 1 .. Len(blocks) : w[k] = Further(blocks, open, w[k - 1])
               /\ Entered(blocks, open) = w[Len(blocks)]
  BY EnteredUnfolds
<1> DEFINE n == Len(blocks)
           T == {k \in 0 .. n : w[k] \subseteq S}
<1>2. 0 \in T
  BY <1>1
<1>3. ASSUME NEW k \in 0 .. n - 1, k \in T PROVE k + 1 \in T
  <2>1. k + 1 \in 1 .. n /\ k + 1 \in 0 .. n /\ (k + 1) - 1 = k
    OBVIOUS
  <2>2. w[k + 1] = Further(blocks, open, w[k])
    BY <1>1, <2>1
  <2> QED BY <1>3, <2>1, <2>2 DEF Further
<1> HIDE DEF T
<1>4. 0 .. n \subseteq T
  BY <1>2, <1>3, IntervalInduction
<1>5. n \in T
  BY <1>4
<1> QED BY <1>1, <1>5 DEF T

\* Every step adds a block until one adds nothing, and there are not more steps
\* than blocks.
LEMMA EnteredClosed ==
  ASSUME NEW blocks, DOMAIN blocks = 1 .. Len(blocks), Len(blocks) \in Nat \ {0}, NEW open,
         \A b \in DOMAIN blocks \cap open : Targets(blocks[b].terminator) \subseteq DOMAIN blocks
  PROVE  /\ 1 \in Entered(blocks, open)
         /\ Entered(blocks, open) \subseteq DOMAIN blocks
         /\ \A b \in Entered(blocks, open) \cap open :
              Targets(blocks[b].terminator) \subseteq Entered(blocks, open)
<1> DEFINE n == Len(blocks)
<1>1. PICK w : /\ w[0] = {1}
               /\ \A k \in 1 .. n : w[k] = Further(blocks, open, w[k - 1])
               /\ Entered(blocks, open) = w[n]
  BY EnteredUnfolds
<1>2. IsFiniteSet(1 .. n) /\ Cardinality(1 .. n) = n
  BY FS_Interval
<1> DEFINE T == {k \in 0 .. n : /\ 1 \in w[k] /\ w[k] \subseteq 1 .. n
                                /\ Further(blocks, open, w[k]) = w[k] \/ Cardinality(w[k]) >= k + 1}
<1>3. 0 \in T
  <2>1. Cardinality({1}) = 1
    BY FS_Singleton
  <2>2. 0 \in 0 .. n /\ 1 \in 1 .. n
    OBVIOUS
  <2>3. 1 \in w[0] /\ w[0] \subseteq 1 .. n /\ Cardinality(w[0]) >= 0 + 1
    BY <1>1, <2>1, <2>2
  <2> QED BY <2>2, <2>3
<1>4. ASSUME NEW k \in 0 .. n - 1, k \in T PROVE k + 1 \in T
  <2>1. k + 1 \in 1 .. n /\ k + 1 \in 0 .. n /\ (k + 1) - 1 = k /\ k \in Nat
    OBVIOUS
  <2>2. w[k + 1] = Further(blocks, open, w[k])
    BY <1>1, <2>1
  <2>3. /\ 1 \in w[k] /\ w[k] \subseteq 1 .. n
        /\ Further(blocks, open, w[k]) = w[k] \/ Cardinality(w[k]) >= k + 1
    BY <1>4
  <2>4. w[k] \subseteq w[k + 1] /\ w[k + 1] \subseteq 1 .. n
    BY <2>2, <2>3 DEF Further
  <2>5. CASE w[k + 1] = w[k]
    BY <2>1, <2>2, <2>3, <2>5
  <2>6. CASE w[k + 1] # w[k]
    <3>1. Cardinality(w[k]) >= k + 1
      BY <2>2, <2>3, <2>6
    <3>2. IsFiniteSet(w[k]) /\ IsFiniteSet(w[k + 1])
      BY <1>2, <2>3, <2>4, FS_Subset
    <3>3. Cardinality(w[k]) \in Nat /\ Cardinality(w[k + 1]) \in Nat
      BY <3>2, FS_CardinalityType
    <3>4. Cardinality(w[k]) < Cardinality(w[k + 1])
      BY <2>4, <2>6, <3>2, <3>3, FS_Subset
    <3>5. Cardinality(w[k + 1]) >= (k + 1) + 1
      BY <2>1, <3>1, <3>3, <3>4
    <3> QED BY <2>1, <2>3, <2>4, <3>5
  <2> QED BY <2>5, <2>6
<1> HIDE DEF T
<1>5. 0 .. n \subseteq T
  BY <1>3, <1>4, IntervalInduction
<1>6. n \in T
  BY <1>5
<1>7. Cardinality(w[n]) <= n /\ Cardinality(w[n]) \in Nat
  <2>1. w[n] \subseteq 1 .. n
    BY <1>6 DEF T
  <2> QED BY <1>2, <2>1, FS_Subset, FS_CardinalityType
<1>8. 1 \in w[n] /\ w[n] \subseteq 1 .. n /\ Further(blocks, open, w[n]) = w[n]
  BY <1>6, <1>7 DEF T
<1>9. \A b \in w[n] \cap open : Targets(blocks[b].terminator) \subseteq Further(blocks, open, w[n])
  BY DEF Further
<1> QED BY <1>1, <1>8, <1>9

-----------------------------------------------------------------------------
(* What the verifier checks, without the numbering of the values.          *)

\* A value of the type is defined in block b before its instruction n.
Has(fn, b, v, type, n) ==
  \E m \in 1 .. n - 1 :
    fn.blocks[b].instructions[m].result = v /\ v # NoValue /\ fn.valueTypes[v] = type

\* The local is stored in block b before its instruction n.
Stores(fn, b, l, n) ==
  \E m \in 1 .. n - 1 :
    fn.blocks[b].instructions[m].op = "store" /\ fn.blocks[b].instructions[m].local = l

\* The blocks that store nothing in the local.
Unset(fn, l) == {b \in DOMAIN fn.blocks : ~Stores(fn, b, l, Len(fn.blocks[b].instructions) + 1)}

Typed(p, fn, i) ==
  IF i.result = NoValue
  THEN ResultType(p, fn, i) = "void"
  ELSE i.result \in DOMAIN fn.valueTypes /\ fn.valueTypes[i.result] = ResultType(p, fn, i)

UsesOf(p, fn, b, n) ==
  LET types == OperandTypes(p, fn, fn.blocks[b].instructions[n])
      uses == fn.blocks[b].instructions[n].uses
  IN Len(uses) = Len(types) /\ \A k \in DOMAIN types : Has(fn, b, uses[k], types[k], n)

LEMMA UsesUnfold ==
  ASSUME NEW p, NEW fn
  PROVE  UsesAreLocal(p, fn) <=>
           \A b \in DOMAIN fn.blocks :
             LET t == fn.blocks[b].terminator
                 end == Len(fn.blocks[b].instructions) + 1
             IN /\ \A n \in DOMAIN fn.blocks[b].instructions : UsesOf(p, fn, b, n)
                /\ t.kind = "branchIfFalse" => Has(fn, b, t.value, "boolean", end)
                /\ t.kind = "returnValue" => Has(fn, b, t.value, fn.returnType, end)
BY ZenonT(60) DEF UsesAreLocal, UsesOf, Has

LEMMA LoadsUnfold ==
  ASSUME NEW fn
  PROVE  LoadsAreInitialized(fn) <=>
           \A l \in DOMAIN fn.localTypes : \A b \in Entered(fn.blocks, Unset(fn, l)) :
             \A n \in 1 .. Len(fn.blocks[b].instructions) :
               /\ fn.blocks[b].instructions[n].op = "load"
               /\ fn.blocks[b].instructions[n].local = l
               => Stores(fn, b, l, n)
BY ZenonT(60) DEF LoadsAreInitialized, Unset, Stores

\* All that the verifier checks but that the values are numbered as defined.
Sound(p, fn) ==
  /\ LayoutIsValid(fn)
  /\ ParametersAreCanonical(fn)
  /\ DefinedOnce(fn)
  /\ \A b \in DOMAIN fn.blocks : \A n \in DOMAIN fn.blocks[b].instructions :
       LET i == fn.blocks[b].instructions[n]
       IN Typed(p, fn, i) /\ (i.op = "call" => i.callee \in DOMAIN p) /\ IsCanonical(fn, i)
  /\ TerminatorsAreValid(fn)
  /\ GraphIsCompact(fn)
  /\ UsesAreLocal(p, fn)
  /\ LoadsAreInitialized(fn)

LEMMA VerifiedIsSound ==
  ASSUME NEW p, NEW fn, ShapedIr(fn)
  PROVE  Verified(p, fn) <=>
           Sound(p, fn) /\ Definitions(fn) = [v \in 1 .. Len(fn.valueTypes) |-> v]
<1>1. Listed(fn) /\ DOMAIN fn.valueTypes = 1 .. Len(fn.valueTypes)
  BY ShapedIsListed, CodeIsSequence DEF ShapedIr
<1>2. \A i : i \in ToSet(Instructions(fn)) <=>
         \E b \in DOMAIN fn.blocks : \E n \in DOMAIN fn.blocks[b].instructions :
           i = fn.blocks[b].instructions[n]
  BY <1>1, InstructionsOfBlocks
<1> DEFINE Dense == Definitions(fn) = [v \in 1 .. Len(fn.valueTypes) |-> v]
<1>3. Dense => /\ DOMAIN Definitions(fn) = 1 .. Len(fn.valueTypes)
               /\ \A v \in 1 .. Len(fn.valueTypes) : Definitions(fn)[v] = v
  OBVIOUS
<1>4. Dense => DefinedOnce(fn)
  BY <1>1, <1>3, DefinitionsDiffer
<1>5. ASSUME Dense, NEW b \in DOMAIN fn.blocks, NEW n \in DOMAIN fn.blocks[b].instructions,
             fn.blocks[b].instructions[n].result # NoValue
      PROVE  fn.blocks[b].instructions[n].result \in DOMAIN fn.valueTypes
  <2>1. fn.blocks[b].instructions[n].result \in ToSet(Definitions(fn))
    BY <1>1, <1>5, DefinitionsAreResults
  <2> HIDE DEF Dense
  <2> QED BY <1>1, <1>3, <1>5, <2>1 DEF ToSet
<1> HIDE DEF Dense
<1>6. CallsAreKnown(p, fn) <=>
        \A b \in DOMAIN fn.blocks : \A n \in DOMAIN fn.blocks[b].instructions :
          fn.blocks[b].instructions[n].op = "call" => fn.blocks[b].instructions[n].callee \in DOMAIN p
  BY <1>2 DEF CallsAreKnown
<1>10. InstructionsAreCanonical(fn) <=>
         \A b \in DOMAIN fn.blocks : \A n \in DOMAIN fn.blocks[b].instructions :
           IsCanonical(fn, fn.blocks[b].instructions[n])
  BY <1>2 DEF InstructionsAreCanonical
<1>7. Dense => (DefinitionsAreDense(p, fn) <=>
        \A b \in DOMAIN fn.blocks : \A n \in DOMAIN fn.blocks[b].instructions :
          Typed(p, fn, fn.blocks[b].instructions[n]))
  <2>1. DefinitionsAreDense(p, fn) <=> Dense /\ \A i \in ToSet(Instructions(fn)) :
          IF i.result = NoValue THEN ResultType(p, fn, i) = "void"
          ELSE fn.valueTypes[i.result] = ResultType(p, fn, i)
    BY DEF DefinitionsAreDense, Dense
  <2> QED BY <1>2, <1>5, <2>1 DEF Typed
<1>8. DefinitionsAreDense(p, fn) => Dense
  BY DEF DefinitionsAreDense, Dense
<1>9. Verified(p, fn) <=> Sound(p, fn) /\ Dense
  BY <1>4, <1>6, <1>7, <1>8, <1>10 DEF Verified, Sound
<1> QED BY <1>9 DEF Dense

-----------------------------------------------------------------------------
(* What is made of a function by leaving out blocks and instructions and   *)
(* putting constants for others.                                           *)

\* Instruction j stands for i: it is i, or a constant of the same value.
Replaces(fn, j, i) ==
  \/ j = i
  \/ /\ i.op \in {"load", "negate", "arithmetic"}
     /\ i.result # NoValue /\ i.result \in DOMAIN fn.valueTypes /\ fn.valueTypes[i.result] = "i64"
     /\ \E word : j = Constant(i.result, "i64", word)

\* Block b of gn has been block from[b] of fn, and its instruction n has been
\* instruction at[b][n].
Derived(gn, fn, from, at) ==
  /\ gn.parameterTypes = fn.parameterTypes /\ gn.returnType = fn.returnType
  /\ gn.localTypes = fn.localTypes /\ gn.valueTypes = fn.valueTypes
  /\ gn.blocks # <<>> /\ from[1] = 1
  /\ \A b \in DOMAIN gn.blocks : gn.blocks[b].id = b /\ from[b] \in DOMAIN fn.blocks
  /\ \A b, c \in DOMAIN gn.blocks : from[b] = from[c] => b = c
  /\ \A b \in DOMAIN gn.blocks :
       /\ \A n \in DOMAIN gn.blocks[b].instructions :
            /\ at[b][n] \in DOMAIN fn.blocks[from[b]].instructions
            /\ Replaces(fn, gn.blocks[b].instructions[n], fn.blocks[from[b]].instructions[at[b][n]])
       /\ \A n, m \in DOMAIN gn.blocks[b].instructions : n < m => at[b][n] < at[b][m]

\* What may not be left out: parameters, stores, and what is used.
Remains(gn, fn, from, at) ==
  \A b \in DOMAIN gn.blocks : \A m \in DOMAIN fn.blocks[from[b]].instructions :
    LET i == fn.blocks[from[b]].instructions[m]
        Stays == \E n \in DOMAIN gn.blocks[b].instructions : at[b][n] = m
    IN /\ i.op \in {"parameter", "store"} => Stays
       /\ \A n \in DOMAIN gn.blocks[b].instructions :
            i.result # NoValue /\ i.result \in ToSet(gn.blocks[b].instructions[n].uses)
              /\ m < at[b][n] => Stays
       /\ i.result # NoValue /\ i.result = gn.blocks[b].terminator.value
            /\ gn.blocks[b].terminator.kind \in {"branchIfFalse", "returnValue"} => Stays

\* Terminators go where they went, and to every block.
Connected(gn, fn, from) ==
  /\ \A b \in DOMAIN gn.blocks :
       LET t == gn.blocks[b].terminator
           s == fn.blocks[from[b]].terminator
       IN /\ \/ t.kind = s.kind /\ t.value = s.value
             \/ t.kind = "branch" /\ s.kind = "branchIfFalse"
          /\ Targets(t) \subseteq DOMAIN gn.blocks
          /\ \A c \in Targets(t) : from[c] \in Targets(s)
  /\ ReachableBlocks(gn.blocks) = DOMAIN gn.blocks

\* The positions in a function.
LEMMA ShapedPositions ==
  ASSUME NEW fn, ShapedIr(fn)
  PROVE  /\ DOMAIN fn.blocks = 1 .. Len(fn.blocks) /\ Len(fn.blocks) \in Nat
         /\ \A b \in DOMAIN fn.blocks :
              /\ DOMAIN fn.blocks[b].instructions = 1 .. Len(fn.blocks[b].instructions)
              /\ Len(fn.blocks[b].instructions) \in Nat
              /\ \A n \in DOMAIN fn.blocks[b].instructions :
                   /\ Shaped(fn.blocks[b].instructions[n])
                   /\ DOMAIN fn.blocks[b].instructions[n].uses = 1 .. Len(fn.blocks[b].instructions[n].uses)
                   /\ Len(fn.blocks[b].instructions[n].uses) \in Nat
BY CodeIsSequence DEF ShapedIr, ShapedBlock, Shaped

LEMMA ReplacementFacts ==
  ASSUME NEW fn, NEW i, NEW j, Replaces(fn, j, i)
  PROVE  /\ j.result = i.result
         /\ j.op \in {"parameter", "store", "load", "call"} \/ i.op \in {"parameter", "store", "call"} => j = i
         /\ j # i => j.op = "constant" /\ j.type = "i64" /\ j.uses = <<>>
BY DEF Replaces, Constant, IrInstruction

\* Numbers that grow, of which the first ones are all there.
LEMMA FirstNumbers ==
  ASSUME NEW len \in Nat, NEW at, \A n \in 1 .. len : at[n] \in Nat \ {0},
         \A n, m \in 1 .. len : n < m => at[n] < at[m],
         NEW p \in Nat, \A m \in 1 .. p : \E n \in 1 .. len : at[n] = m
  PROVE  /\ p <= len
         /\ \A n \in 1 .. p : at[n] = n
         /\ \A n \in 1 .. len : at[n] <= p <=> n <= p
<1> DEFINE T == {k \in 0 .. p : k <= len /\ \A n \in 1 .. k : at[n] = n}
<1>1. 0 \in T
  OBVIOUS
<1>2. ASSUME NEW k \in 0 .. p - 1, k \in T PROVE k + 1 \in T
  <2>1. k <= len /\ \A n \in 1 .. k : at[n] = n
    BY <1>2
  <2>2. k + 1 \in 1 .. p /\ k + 1 \in 0 .. p
    OBVIOUS
  <2>3. PICK m \in 1 .. len : at[m] = k + 1
    BY <2>2
  <2>4. m \notin 1 .. k
    <3> SUFFICES ASSUME m \in 1 .. k PROVE FALSE
      OBVIOUS
    <3>1. at[m] = m
      BY <2>1
    <3> QED BY <2>3, <3>1
  <2>5. k + 1 \in 1 .. len /\ k + 1 <= m
    BY <2>4
  <2>6. at[k + 1] <= k + 1
    <3>1. CASE m = k + 1
      BY <2>3, <3>1
    <3>2. CASE k + 1 < m
      <4>1. at[k + 1] < at[m] /\ at[k + 1] \in Nat
        BY <2>5, <3>2
      <4> QED BY <2>3, <4>1
    <3> QED BY <2>5, <3>1, <3>2
  <2>7. at[k + 1] >= k + 1
    <3>1. CASE k = 0
      BY <2>5, <3>1
    <3>2. CASE k # 0
      <4>1. k \in 1 .. k /\ k \in 1 .. len /\ k < k + 1
        BY <2>5, <3>2
      <4>2. at[k] = k /\ at[k] < at[k + 1] /\ at[k + 1] \in Nat
        BY <2>1, <2>5, <4>1
      <4> QED BY <4>1, <4>2
    <3> QED BY <3>1, <3>2
  <2>8. at[k + 1] = k + 1
    BY <2>5, <2>6, <2>7
  <2>9. \A n \in 1 .. k + 1 : at[n] = n
    <3>1. \A n \in 1 .. k + 1 : n \in 1 .. k \/ n = k + 1
      OBVIOUS
    <3> QED BY <2>1, <2>8, <3>1
  <2> QED BY <2>2, <2>5, <2>9
<1> HIDE DEF T
<1>3. 0 .. p \subseteq T
  BY <1>1, <1>2, IntervalInduction
<1>4. p \in T
  BY <1>3
<1>5. p <= len /\ \A n \in 1 .. p : at[n] = n
  BY <1>4 DEF T
<1>6. ASSUME NEW n \in 1 .. len PROVE at[n] <= p <=> n <= p
  <2>1. CASE n <= p
    BY <1>5, <2>1
  <2>2. CASE ~(n <= p) /\ p = 0
    BY <2>2
  <2>3. CASE ~(n <= p) /\ p # 0
    <3>1. p \in 1 .. p /\ p \in 1 .. len /\ p < n
      BY <1>5, <2>3
    <3>2. at[p] = p /\ at[p] < at[n] /\ at[n] \in Nat
      BY <1>5, <3>1
    <3> QED BY <2>3, <3>1, <3>2
  <2> QED BY <2>1, <2>2, <2>3
<1> QED BY <1>5, <1>6

\* What has grown does so one to one.
LEMMA LargerBefore ==
  ASSUME NEW len \in Nat, NEW at, \A n \in 1 .. len : at[n] \in Nat,
         \A n, m \in 1 .. len : n < m => at[n] < at[m],
         NEW n \in 1 .. len, NEW m \in 1 .. len
  PROVE  (at[n] < at[m] => n < m) /\ (at[n] = at[m] => n = m)
<1>1. n < m \/ n = m \/ m < n
  OBVIOUS
<1>2. at[n] \in Nat /\ at[m] \in Nat
  OBVIOUS
<1>3. (n < m => at[n] < at[m]) /\ (m < n => at[m] < at[n])
  OBVIOUS
<1> QED BY <1>1, <1>2, <1>3

\* Each part of what the verifier checks holds of what is derived.
LEMMA DerivedPlaces ==
  ASSUME NEW fn, ShapedIr(fn), NEW gn, ShapedIr(gn), NEW from, NEW at, Derived(gn, fn, from, at),
         NEW b \in DOMAIN gn.blocks
  PROVE  /\ from[b] \in DOMAIN fn.blocks
         /\ \A n \in DOMAIN gn.blocks[b].instructions :
              /\ at[b][n] \in Nat \ {0} /\ at[b][n] <= Len(fn.blocks[from[b]].instructions)
              /\ at[b][n] \in DOMAIN fn.blocks[from[b]].instructions
              /\ Replaces(fn, gn.blocks[b].instructions[n], fn.blocks[from[b]].instructions[at[b][n]])
         /\ \A n, m \in DOMAIN gn.blocks[b].instructions :
              /\ n < m => at[b][n] < at[b][m]
              /\ at[b][n] < at[b][m] => n < m
              /\ at[b][n] = at[b][m] => n = m
<1> DEFINE len == Len(gn.blocks[b].instructions)
           a == at[b]
           size == Len(fn.blocks[from[b]].instructions)
<1>1. from[b] \in DOMAIN fn.blocks
  BY DEF Derived
<1>2. /\ DOMAIN gn.blocks[b].instructions = 1 .. len /\ len \in Nat
      /\ DOMAIN fn.blocks[from[b]].instructions = 1 .. size /\ size \in Nat
  BY <1>1, ShapedPositions
<1>3. /\ \A n \in 1 .. len : a[n] \in 1 .. size
      /\ \A n, m \in 1 .. len : n < m => a[n] < a[m]
  BY <1>2 DEF Derived
<1>4. \A n, m \in 1 .. len : (a[n] < a[m] => n < m) /\ (a[n] = a[m] => n = m)
  <2>1. \A n \in 1 .. len : a[n] \in Nat
    BY <1>2, <1>3
  <2> HIDE DEF a, len
  <2> QED BY <1>2, <1>3, <2>1, LargerBefore
<1>5. \A n \in 1 .. len : a[n] \in Nat \ {0} /\ a[n] <= size
  BY <1>2, <1>3
<1>6. \A n \in DOMAIN gn.blocks[b].instructions :
        Replaces(fn, gn.blocks[b].instructions[n], fn.blocks[from[b]].instructions[at[b][n]])
  BY DEF Derived
<1> QED BY <1>1, <1>2, <1>3, <1>4, <1>5, <1>6

LEMMA DerivedParameters ==
  ASSUME NEW fn, ShapedIr(fn), ParametersAreCanonical(fn),
         NEW gn, ShapedIr(gn), NEW from, NEW at, Derived(gn, fn, from, at), Remains(gn, fn, from, at)
  PROVE  ParametersAreCanonical(gn)
<1> DEFINE p == Params(fn)
           len == Len(gn.blocks[1].instructions)
           size == Len(fn.blocks[1].instructions)
           a == at[1]
<1>1. p \in Nat /\ Params(gn) = p
  BY CodeIsSequence DEF ShapedIr, Params, Derived
<1>2. 1 \in DOMAIN gn.blocks /\ from[1] = 1 /\ 1 \in DOMAIN fn.blocks
  <2>1. DOMAIN gn.blocks = 1 .. Len(gn.blocks) /\ Len(gn.blocks) \in Nat /\ gn.blocks # <<>>
    BY ShapedPositions DEF Derived
  <2>2. Len(gn.blocks) # 0
    BY <2>1 DEF ShapedIr, IsSequence
  <2> QED BY <2>1, <2>2 DEF Derived
<1>3. /\ DOMAIN gn.blocks[1].instructions = 1 .. len /\ len \in Nat
      /\ DOMAIN fn.blocks[1].instructions = 1 .. size /\ size \in Nat
  BY <1>2, ShapedPositions
<1>4. /\ \A n \in 1 .. len : a[n] \in Nat \ {0}
      /\ \A n, m \in 1 .. len : n < m => a[n] < a[m]
  BY <1>2, <1>3, DerivedPlaces
<1>5. ASSUME NEW m \in 1 .. p PROVE \E n \in 1 .. len : a[n] = m
  <2>1. m \in DOMAIN fn.blocks[1].instructions
    BY <1>1, <1>3 DEF ParametersAreCanonical
  <2>2. fn.blocks[1].instructions[m].op = "parameter"
    BY <1>1, <1>2, <2>1 DEF ParametersAreCanonical
  <2> QED BY <1>2, <1>3, <2>1, <2>2 DEF Remains
<1>6. p <= len /\ (\A n \in 1 .. p : a[n] = n) /\ \A n \in 1 .. len : a[n] <= p <=> n <= p
  <2> HIDE DEF a, p, len
  <2> QED BY <1>1, <1>3, <1>4, <1>5, FirstNumbers
<1>7. ASSUME NEW b \in DOMAIN gn.blocks, NEW n \in DOMAIN gn.blocks[b].instructions
      PROVE  LET i == gn.blocks[b].instructions[n]
             IN /\ i.op = "parameter" <=> b = 1 /\ n <= p
                /\ i.op = "parameter" => i.local = n
  <2> DEFINE j == gn.blocks[b].instructions[n]
             i == fn.blocks[from[b]].instructions[at[b][n]]
  <2>1. /\ from[b] \in DOMAIN fn.blocks
        /\ at[b][n] \in DOMAIN fn.blocks[from[b]].instructions
        /\ Replaces(fn, j, i)
    BY DerivedPlaces, SMTT(30)
  <2>2. i.op = "parameter" <=> from[b] = 1 /\ at[b][n] <= p
    BY <2>1, SMTT(30) DEF ParametersAreCanonical
  <2>3. i.op = "parameter" => i.local = at[b][n]
    BY <2>1 DEF ParametersAreCanonical
  <2>4. from[b] = 1 <=> b = 1
    BY <1>2 DEF Derived
  <2>5. b = 1 => (at[b][n] <= p <=> n <= p)
    BY <1>3, <1>6
  <2>6. b = 1 /\ n <= p => at[b][n] = n
    <3> SUFFICES ASSUME b = 1, n <= p PROVE a[n] = n
      OBVIOUS
    <3>1. n \in 1 .. p
      BY <1>1, <1>3
    <3> QED BY <1>6, <3>1
  <2>7. (j.op = "parameter" <=> i.op = "parameter") /\ (i.op = "parameter" => j = i)
    <3> HIDE DEF i, j
    <3> QED BY <2>1, ReplacementFacts
  <2> HIDE DEF i, p
  <2>8. j.op = "parameter" <=> b = 1 /\ n <= p
    BY <2>2, <2>4, <2>5, <2>7
  <2>9. j.op = "parameter" => j.local = n
    BY <2>3, <2>6, <2>7, <2>8
  <2> QED BY <2>8, <2>9
<1> QED BY <1>1, <1>6, <1>7 DEF ParametersAreCanonical

LEMMA DerivedInstructions ==
  ASSUME NEW p, NEW fn, ShapedIr(fn), Sound(p, fn),
         NEW gn, ShapedIr(gn), NEW from, NEW at, Derived(gn, fn, from, at)
  PROVE  /\ DefinedOnce(gn)
         /\ \A b \in DOMAIN gn.blocks : \A n \in DOMAIN gn.blocks[b].instructions :
              LET i == gn.blocks[b].instructions[n]
              IN Typed(p, gn, i) /\ (i.op = "call" => i.callee \in DOMAIN p) /\ IsCanonical(gn, i)
<1>0. ASSUME NEW b \in DOMAIN gn.blocks, NEW n \in DOMAIN gn.blocks[b].instructions
      PROVE  /\ from[b] \in DOMAIN fn.blocks
             /\ at[b][n] \in DOMAIN fn.blocks[from[b]].instructions
             /\ gn.blocks[b].instructions[n].result = fn.blocks[from[b]].instructions[at[b][n]].result
  <2>1. /\ from[b] \in DOMAIN fn.blocks
        /\ at[b][n] \in DOMAIN fn.blocks[from[b]].instructions
        /\ Replaces(fn, gn.blocks[b].instructions[n], fn.blocks[from[b]].instructions[at[b][n]])
    BY DerivedPlaces
  <2> QED BY <2>1, ReplacementFacts
<1>1. ASSUME NEW b \in DOMAIN gn.blocks, NEW n \in DOMAIN gn.blocks[b].instructions,
             NEW c \in DOMAIN gn.blocks, NEW m \in DOMAIN gn.blocks[c].instructions,
             gn.blocks[b].instructions[n].result # NoValue,
             gn.blocks[c].instructions[m].result = gn.blocks[b].instructions[n].result
      PROVE  b = c /\ n = m
  <2>1. /\ from[b] \in DOMAIN fn.blocks /\ from[c] \in DOMAIN fn.blocks
        /\ at[b][n] \in DOMAIN fn.blocks[from[b]].instructions
        /\ at[c][m] \in DOMAIN fn.blocks[from[c]].instructions
        /\ gn.blocks[b].instructions[n].result = fn.blocks[from[b]].instructions[at[b][n]].result
        /\ gn.blocks[c].instructions[m].result = fn.blocks[from[c]].instructions[at[c][m]].result
    BY <1>0
  <2>2. from[b] = from[c] /\ at[b][n] = at[c][m]
    <3> DEFINE x == from[b]
               y == from[c]
               k == at[b][n]
               l == at[c][m]
    <3>1. DefinedOnce(fn)
      BY SMTT(30) DEF Sound
    <3>2. /\ fn.blocks[x].instructions[k].result # NoValue
          /\ fn.blocks[y].instructions[l].result = fn.blocks[x].instructions[k].result
      BY <1>1, <2>1
    <3>3. /\ x \in DOMAIN fn.blocks /\ y \in DOMAIN fn.blocks
          /\ k \in DOMAIN fn.blocks[x].instructions /\ l \in DOMAIN fn.blocks[y].instructions
      BY <2>1
    <3> HIDE DEF x, y, k, l
    <3>4. x = y /\ k = l
      BY <3>1, <3>2, <3>3 DEF DefinedOnce
    <3> QED BY <3>4 DEF x, y, k, l
  <2>3. b = c
    BY <2>2 DEF Derived
  <2> QED BY <2>2, <2>3, DerivedPlaces
<1>2. ASSUME NEW b \in DOMAIN gn.blocks, NEW n \in DOMAIN gn.blocks[b].instructions
      PROVE  LET i == gn.blocks[b].instructions[n]
             IN Typed(p, gn, i) /\ (i.op = "call" => i.callee \in DOMAIN p) /\ IsCanonical(gn, i)
  <2> DEFINE j == gn.blocks[b].instructions[n]
             i == fn.blocks[from[b]].instructions[at[b][n]]
  <2>1. /\ from[b] \in DOMAIN fn.blocks
        /\ at[b][n] \in DOMAIN fn.blocks[from[b]].instructions
        /\ Replaces(fn, j, i)
    BY DerivedPlaces, SMTT(30)
  <2>2. Typed(p, fn, i) /\ (i.op = "call" => i.callee \in DOMAIN p) /\ IsCanonical(fn, i)
    BY <2>1 DEF Sound
  <2> HIDE DEF i, j
  <2>3. Typed(p, gn, i)
    BY <2>2 DEF Typed, ResultType, Derived
  <2>6. IsCanonical(gn, i)
    BY <2>2 DEF IsCanonical, Derived
  <2>4. CASE j = i
    BY <2>2, <2>3, <2>4, <2>6 DEF j
  <2>5. CASE j # i
    <3>1. /\ j.result = i.result /\ j.result # NoValue
          /\ j.result \in DOMAIN fn.valueTypes /\ fn.valueTypes[j.result] = "i64"
          /\ j.op = "constant" /\ j.type = "i64"
      BY <2>1, <2>5, ReplacementFacts DEF Replaces
    <3>2. ResultType(p, gn, j) = "i64"
      BY <3>1 DEF ResultType
    <3>3. Typed(p, gn, j)
      BY <3>1, <3>2 DEF Typed, Derived
    <3>4. IsCanonical(gn, j)
      BY <3>1 DEF IsCanonical, Operations
    <3> QED BY <3>1, <3>3, <3>4 DEF j
  <2> QED BY <2>4, <2>5
<1> QED BY <1>1, <1>2 DEF DefinedOnce

\* A value that was defined before an instruction still is, if it is used.
LEMMA DerivedHas ==
  ASSUME NEW fn, ShapedIr(fn), NEW gn, ShapedIr(gn), NEW from, NEW at,
         Derived(gn, fn, from, at), Remains(gn, fn, from, at),
         NEW b \in DOMAIN gn.blocks, NEW v, NEW type, NEW n \in Nat, NEW m \in Nat,
         m <= Len(fn.blocks[from[b]].instructions) + 1,
         Has(fn, from[b], v, type, m),
         \A k \in DOMAIN gn.blocks[b].instructions : at[b][k] < m => k < n,
         \A l \in DOMAIN fn.blocks[from[b]].instructions :
           l < m /\ fn.blocks[from[b]].instructions[l].result = v =>
             \E k \in DOMAIN gn.blocks[b].instructions : at[b][k] = l
  PROVE  Has(gn, b, v, type, n)
<1>1. /\ from[b] \in DOMAIN fn.blocks
      /\ \A k \in DOMAIN gn.blocks[b].instructions :
           Replaces(fn, gn.blocks[b].instructions[k], fn.blocks[from[b]].instructions[at[b][k]])
  BY DerivedPlaces
<1>2. DOMAIN fn.blocks[from[b]].instructions = 1 .. Len(fn.blocks[from[b]].instructions)
      /\ Len(fn.blocks[from[b]].instructions) \in Nat
      /\ DOMAIN gn.blocks[b].instructions = 1 .. Len(gn.blocks[b].instructions)
      /\ Len(gn.blocks[b].instructions) \in Nat
  BY <1>1, ShapedPositions
<1>3. PICK l \in 1 .. m - 1 : /\ fn.blocks[from[b]].instructions[l].result = v
                              /\ v # NoValue /\ fn.valueTypes[v] = type
  BY DEF Has
<1>4. l \in DOMAIN fn.blocks[from[b]].instructions /\ l < m
  BY <1>2
<1>5. PICK k \in DOMAIN gn.blocks[b].instructions : at[b][k] = l
  BY <1>3, <1>4
<1>6. k \in 1 .. n - 1
  BY <1>2, <1>4, <1>5
<1>7. gn.blocks[b].instructions[k].result = v
  <2>1. Replaces(fn, gn.blocks[b].instructions[k], fn.blocks[from[b]].instructions[l])
    BY <1>1, <1>5
  <2> QED BY <1>3, <2>1, ReplacementFacts
<1>8. gn.valueTypes[v] = type
  BY <1>3 DEF Derived
<1> QED BY <1>3, <1>6, <1>7, <1>8 DEF Has

\* The operands of an instruction have as many types as there are positions.
LEMMA OperandTypesSequence ==
  ASSUME NEW p, Vectored(p), NEW fn, NEW i, i.op = "call" => i.callee \in DOMAIN p
  PROVE  DOMAIN OperandTypes(p, fn, i) = 1 .. Len(OperandTypes(p, fn, i))
<1>1. CASE i.op = "call"
  <2>1. OperandTypes(p, fn, i) = p[i.callee].parameterTypes
    BY <1>1 DEF OperandTypes
  <2> QED BY <1>1, <2>1, CodeIsSequence DEF Vectored
<1>2. ASSUME NEW s, s = <<>> \/ (\E a : s = <<a>>) \/ (\E a, c : s = <<a, c>>)
      PROVE  DOMAIN s = 1 .. Len(s)
  OBVIOUS
<1>3. CASE i.op # "call"
  <2> DEFINE s == OperandTypes(p, fn, i)
  <2>1. s = <<>> \/ (\E a : s = <<a>>) \/ (\E a, c : s = <<a, c>>)
    BY <1>3 DEF OperandTypes
  <2> HIDE DEF s
  <2> QED BY <1>2, <2>1 DEF s
<1> QED BY <1>1, <1>3

\* So the uses of what is derived are defined before it.
LEMMA DerivedUses ==
  ASSUME NEW p, Vectored(p), NEW fn, ShapedIr(fn), Sound(p, fn), NEW gn, ShapedIr(gn), NEW from, NEW at,
         Derived(gn, fn, from, at), Remains(gn, fn, from, at), Connected(gn, fn, from)
  PROVE  UsesAreLocal(p, gn)
<1>0. UsesAreLocal(p, fn)
  BY DEF Sound
<1>1. ASSUME NEW b \in DOMAIN gn.blocks, NEW n \in DOMAIN gn.blocks[b].instructions
      PROVE  UsesOf(p, gn, b, n)
  <2> DEFINE j == gn.blocks[b].instructions[n]
             i == fn.blocks[from[b]].instructions[at[b][n]]
             types == OperandTypes(p, fn, i)
             m == at[b][n]
  <2>1. /\ from[b] \in DOMAIN fn.blocks
        /\ m \in DOMAIN fn.blocks[from[b]].instructions
        /\ m \in Nat /\ m <= Len(fn.blocks[from[b]].instructions)
        /\ Replaces(fn, j, i)
    BY DerivedPlaces
  <2>2. UsesOf(p, fn, from[b], m)
    BY <1>0, <2>1, UsesUnfold, SMTT(30)
  <2>3. Len(i.uses) = Len(types) /\ \A k \in DOMAIN types : Has(fn, from[b], i.uses[k], types[k], m)
    BY <2>2, Zenon DEF UsesOf
  <2>4. /\ DOMAIN gn.blocks[b].instructions = 1 .. Len(gn.blocks[b].instructions)
        /\ Len(gn.blocks[b].instructions) \in Nat /\ n \in Nat
        /\ Len(fn.blocks[from[b]].instructions) \in Nat
        /\ DOMAIN j.uses = 1 .. Len(j.uses)
    BY <2>1, ShapedPositions
  <2> HIDE DEF i, j, m
  <2>5. CASE j = i
    <3>1. OperandTypes(p, gn, j) = types
      BY <2>5 DEF OperandTypes, Derived
    <3> HIDE DEF types
    <3>2. ASSUME NEW k \in DOMAIN types, k \in DOMAIN j.uses
          PROVE Has(gn, b, j.uses[k], types[k], n)
      <4> DEFINE v == j.uses[k]
                 type == types[k]
      <4>1. Has(fn, from[b], v, type, m)
        BY <2>3, <2>5
      <4>2. m \in Nat /\ n \in Nat /\ m <= Len(fn.blocks[from[b]].instructions) + 1
        BY <2>1, <2>4
      <4>3. \A l \in DOMAIN gn.blocks[b].instructions : at[b][l] < m => l < n
        BY DerivedPlaces DEF m
      <4>4. v \in ToSet(j.uses)
        BY <3>2 DEF ToSet
      <4>5. ASSUME NEW l \in DOMAIN fn.blocks[from[b]].instructions, l < m,
                   fn.blocks[from[b]].instructions[l].result = v
            PROVE  \E x \in DOMAIN gn.blocks[b].instructions : at[b][x] = l
        <5>1. v # NoValue
          BY <4>1 DEF Has
        <5> HIDE DEF v
        <5> QED BY <4>4, <4>5, <5>1 DEF Remains, j, m
      <4> HIDE DEF v, type
      <4>6. Has(gn, b, v, type, n)
        BY <4>1, <4>2, <4>3, <4>5, DerivedHas
      <4> QED BY <4>6 DEF v, type
    <3>3. Len(j.uses) = Len(types)
      BY <2>3, <2>5
    <3>4. \A k \in DOMAIN types : k \in DOMAIN j.uses
      <4>1. i.op = "call" => i.callee \in DOMAIN p
        BY <2>1 DEF Sound, i, m
      <4>2. DOMAIN types = 1 .. Len(types)
        BY <4>1, OperandTypesSequence DEF types
      <4> QED BY <2>4, <3>3, <4>2, SMTT(30)
    <3>5. UsesOf(p, gn, b, n)
      BY <3>1, <3>2, <3>3, <3>4 DEF UsesOf, j
    <3> QED BY <3>5
  <2>6. CASE j # i
    <3>1. j.op = "constant" /\ j.uses = <<>>
      BY <2>1, <2>6, ReplacementFacts
    <3>2. OperandTypes(p, gn, j) = <<>>
      BY <3>1 DEF OperandTypes
    <3> QED BY <3>1, <3>2 DEF UsesOf, j
  <2> QED BY <2>5, <2>6
<1>2. ASSUME NEW b \in DOMAIN gn.blocks, NEW type, NEW kind \in {"branchIfFalse", "returnValue"},
             gn.blocks[b].terminator.kind = kind,
             fn.blocks[from[b]].terminator.kind = kind =>
               Has(fn, from[b], fn.blocks[from[b]].terminator.value, type,
                   Len(fn.blocks[from[b]].instructions) + 1)
      PROVE  Has(gn, b, gn.blocks[b].terminator.value, type, Len(gn.blocks[b].instructions) + 1)
  <2> DEFINE v == gn.blocks[b].terminator.value
             m == Len(fn.blocks[from[b]].instructions) + 1
             n == Len(gn.blocks[b].instructions) + 1
  <2>1. fn.blocks[from[b]].terminator.kind = kind /\ fn.blocks[from[b]].terminator.value = v
    BY <1>2 DEF Connected
  <2>2. Has(fn, from[b], v, type, m)
    BY <1>2, <2>1
  <2>3. /\ from[b] \in DOMAIN fn.blocks
        /\ DOMAIN gn.blocks[b].instructions = 1 .. n - 1 /\ n \in Nat /\ m \in Nat
    <3>1. from[b] \in DOMAIN fn.blocks
      BY DEF Derived
    <3>2. /\ DOMAIN gn.blocks[b].instructions = 1 .. Len(gn.blocks[b].instructions)
          /\ Len(gn.blocks[b].instructions) \in Nat
          /\ Len(fn.blocks[from[b]].instructions) \in Nat
      BY <3>1, ShapedPositions
    <3> QED BY <3>1, <3>2
  <2>4. \A l \in DOMAIN gn.blocks[b].instructions : at[b][l] < m => l < n
    BY <2>3
  <2>5. ASSUME NEW l \in DOMAIN fn.blocks[from[b]].instructions, l < m,
               fn.blocks[from[b]].instructions[l].result = v
        PROVE  \E x \in DOMAIN gn.blocks[b].instructions : at[b][x] = l
    <3>1. v # NoValue
      BY <2>2 DEF Has
    <3> QED BY <1>2, <2>5, <3>1 DEF Remains
  <2>6. m <= Len(fn.blocks[from[b]].instructions) + 1
    BY <2>3
  <2> HIDE DEF v, m, n
  <2>7. Has(gn, b, v, type, n)
    BY <2>2, <2>3, <2>4, <2>5, <2>6, DerivedHas, SMTT(30)
  <2> QED BY <2>7 DEF v, n
<1>3. ASSUME NEW b \in DOMAIN gn.blocks
      PROVE  LET t == gn.blocks[b].terminator
                 end == Len(gn.blocks[b].instructions) + 1
             IN /\ t.kind = "branchIfFalse" => Has(gn, b, t.value, "boolean", end)
                /\ t.kind = "returnValue" => Has(gn, b, t.value, gn.returnType, end)
  <2>1. from[b] \in DOMAIN fn.blocks
    BY DEF Derived
  <2>2. LET t == fn.blocks[from[b]].terminator
            end == Len(fn.blocks[from[b]].instructions) + 1
        IN /\ t.kind = "branchIfFalse" => Has(fn, from[b], t.value, "boolean", end)
           /\ t.kind = "returnValue" => Has(fn, from[b], t.value, fn.returnType, end)
    BY <1>0, <2>1, UsesUnfold
  <2>3. gn.returnType = fn.returnType
    BY DEF Derived
  <2> QED BY <1>2, <2>2, <2>3
<1> QED BY <1>1, <1>3, UsesUnfold

\* A local that was stored before an instruction still is.
LEMMA DerivedStores ==
  ASSUME NEW fn, ShapedIr(fn), NEW gn, ShapedIr(gn), NEW from, NEW at,
         Derived(gn, fn, from, at), Remains(gn, fn, from, at),
         NEW b \in DOMAIN gn.blocks, NEW l, NEW n \in Nat, NEW m \in Nat,
         m <= Len(fn.blocks[from[b]].instructions) + 1,
         Stores(fn, from[b], l, m),
         \A k \in DOMAIN gn.blocks[b].instructions : at[b][k] < m => k < n
  PROVE  Stores(gn, b, l, n)
<1>1. /\ from[b] \in DOMAIN fn.blocks
      /\ \A k \in DOMAIN gn.blocks[b].instructions :
           Replaces(fn, gn.blocks[b].instructions[k], fn.blocks[from[b]].instructions[at[b][k]])
  BY DerivedPlaces
<1>2. /\ DOMAIN fn.blocks[from[b]].instructions = 1 .. Len(fn.blocks[from[b]].instructions)
      /\ Len(fn.blocks[from[b]].instructions) \in Nat
      /\ DOMAIN gn.blocks[b].instructions = 1 .. Len(gn.blocks[b].instructions)
      /\ Len(gn.blocks[b].instructions) \in Nat
  BY <1>1, ShapedPositions
<1>3. PICK x \in 1 .. m - 1 : /\ fn.blocks[from[b]].instructions[x].op = "store"
                              /\ fn.blocks[from[b]].instructions[x].local = l
  BY DEF Stores
<1>4. x \in DOMAIN fn.blocks[from[b]].instructions /\ x < m
  BY <1>2
<1>5. PICK k \in DOMAIN gn.blocks[b].instructions : at[b][k] = x
  BY <1>3, <1>4 DEF Remains
<1>6. k \in 1 .. n - 1
  BY <1>2, <1>4, <1>5
<1>7. gn.blocks[b].instructions[k] = fn.blocks[from[b]].instructions[x]
  <2>1. Replaces(fn, gn.blocks[b].instructions[k], fn.blocks[from[b]].instructions[x])
    BY <1>1, <1>5
  <2> QED BY <1>3, <2>1, ReplacementFacts
<1> QED BY <1>3, <1>6, <1>7 DEF Stores

\* The targets of a function that the verifier takes are blocks of it.
LEMMA EnteredFacts ==
  ASSUME NEW fn, ShapedIr(fn), fn.blocks # <<>>, NEW open,
         \A b \in DOMAIN fn.blocks : Targets(fn.blocks[b].terminator) \subseteq DOMAIN fn.blocks
  PROVE  /\ 1 \in Entered(fn.blocks, open)
         /\ Entered(fn.blocks, open) \subseteq DOMAIN fn.blocks
         /\ \A b \in Entered(fn.blocks, open) \cap open :
              Targets(fn.blocks[b].terminator) \subseteq Entered(fn.blocks, open)
<1>1. DOMAIN fn.blocks = 1 .. Len(fn.blocks) /\ Len(fn.blocks) \in Nat
  BY ShapedPositions
<1>2. Len(fn.blocks) # 0
  BY <1>1 DEF ShapedIr, IsSequence
<1> QED BY <1>1, <1>2, EnteredClosed

LEMMA ValidTargets ==
  ASSUME NEW fn, TerminatorsAreValid(fn), NEW b \in DOMAIN fn.blocks
  PROVE  Targets(fn.blocks[b].terminator) \subseteq DOMAIN fn.blocks
BY DEF TerminatorsAreValid, Targets

\* A path of what is derived was a path, and brings no more unset locals.
LEMMA DerivedLoads ==
  ASSUME NEW p, NEW fn, ShapedIr(fn), Sound(p, fn), NEW gn, ShapedIr(gn), NEW from, NEW at,
         Derived(gn, fn, from, at), Remains(gn, fn, from, at), Connected(gn, fn, from)
  PROVE  LoadsAreInitialized(gn)
<1> SUFFICES ASSUME NEW l \in DOMAIN gn.localTypes, NEW b \in Entered(gn.blocks, Unset(gn, l)),
                    NEW n \in 1 .. Len(gn.blocks[b].instructions),
                    gn.blocks[b].instructions[n].op = "load",
                    gn.blocks[b].instructions[n].local = l
             PROVE  Stores(gn, b, l, n)
  BY LoadsUnfold
<1>1. l \in DOMAIN fn.localTypes
  BY DEF Derived
<1>2. \A c \in DOMAIN fn.blocks : Targets(fn.blocks[c].terminator) \subseteq DOMAIN fn.blocks
  BY ValidTargets DEF Sound
<1>3. fn.blocks # <<>>
  BY DEF Sound, LayoutIsValid
<1> DEFINE E == Entered(fn.blocks, Unset(fn, l))
           S == {c \in DOMAIN gn.blocks : from[c] \in E}
<1>4. /\ 1 \in E
      /\ \A c \in E \cap Unset(fn, l) : Targets(fn.blocks[c].terminator) \subseteq E
  BY <1>2, <1>3, EnteredFacts
<1>5. DOMAIN gn.blocks = 1 .. Len(gn.blocks) /\ Len(gn.blocks) \in Nat /\ 1 \in DOMAIN gn.blocks
  <2>1. DOMAIN gn.blocks = 1 .. Len(gn.blocks) /\ Len(gn.blocks) \in Nat /\ gn.blocks # <<>>
    BY ShapedPositions DEF Derived
  <2>2. Len(gn.blocks) # 0
    BY <2>1 DEF ShapedIr, IsSequence
  <2> QED BY <2>1, <2>2
<1>6. ASSUME NEW c \in DOMAIN gn.blocks, c \in Unset(gn, l) PROVE from[c] \in Unset(fn, l)
  <2>1. from[c] \in DOMAIN fn.blocks
    BY DEF Derived
  <2> DEFINE m == Len(fn.blocks[from[c]].instructions) + 1
             k == Len(gn.blocks[c].instructions) + 1
  <2>2. /\ m \in Nat /\ k \in Nat /\ m <= Len(fn.blocks[from[c]].instructions) + 1
        /\ DOMAIN gn.blocks[c].instructions = 1 .. k - 1
    <3>1. /\ DOMAIN gn.blocks[c].instructions = 1 .. Len(gn.blocks[c].instructions)
          /\ Len(gn.blocks[c].instructions) \in Nat
          /\ Len(fn.blocks[from[c]].instructions) \in Nat
      BY <2>1, ShapedPositions
    <3> QED BY <3>1, SMTT(30)
  <2>3. \A x \in DOMAIN gn.blocks[c].instructions : at[c][x] < m => x < k
    BY <2>2
  <2>4. ~Stores(gn, c, l, k)
    BY <1>6 DEF Unset
  <2>5. ~Stores(fn, from[c], l, m)
    <3> HIDE DEF m, k
    <3> QED BY <2>2, <2>3, <2>4, DerivedStores DEF m
  <2> QED BY <2>1, <2>5 DEF Unset
<1> HIDE DEF E
<1>7. 1 \in S
  BY <1>4, <1>5 DEF Derived
<1>8. ASSUME NEW c \in S \cap Unset(gn, l) PROVE Targets(gn.blocks[c].terminator) \subseteq S
  <2>1. from[c] \in E \cap Unset(fn, l)
    BY <1>6
  <2>2. Targets(fn.blocks[from[c]].terminator) \subseteq E
    BY <1>4, <2>1
  <2>3. /\ Targets(gn.blocks[c].terminator) \subseteq DOMAIN gn.blocks
        /\ \A d \in Targets(gn.blocks[c].terminator) :
             from[d] \in Targets(fn.blocks[from[c]].terminator)
    BY DEF Connected
  <2> QED BY <2>2, <2>3
<1> HIDE DEF S
<1>9. Entered(gn.blocks, Unset(gn, l)) \subseteq S
  BY <1>5, <1>7, <1>8, EnteredLeast
<1>10. b \in DOMAIN gn.blocks /\ from[b] \in E
  BY <1>9 DEF S
<1>11. DOMAIN gn.blocks[b].instructions = 1 .. Len(gn.blocks[b].instructions)
       /\ Len(gn.blocks[b].instructions) \in Nat
  BY <1>10, ShapedPositions
<1> DEFINE m == at[b][n]
           i == fn.blocks[from[b]].instructions[m]
<1>12. /\ from[b] \in DOMAIN fn.blocks /\ m \in DOMAIN fn.blocks[from[b]].instructions
       /\ m \in Nat /\ m <= Len(fn.blocks[from[b]].instructions)
       /\ Replaces(fn, gn.blocks[b].instructions[n], i)
       /\ \A k \in DOMAIN gn.blocks[b].instructions : at[b][k] < m => k < n
  BY <1>10, <1>11, DerivedPlaces
<1>13. i.op = "load" /\ i.local = l
  <2> HIDE DEF i
  <2> QED BY <1>12, ReplacementFacts
<1>14. Stores(fn, from[b], l, m)
  <2>1. m \in 1 .. Len(fn.blocks[from[b]].instructions)
    BY <1>12, ShapedPositions, SMTT(30)
  <2>2. LoadsAreInitialized(fn)
    BY DEF Sound
  <2> QED BY <1>1, <1>10, <1>13, <2>1, <2>2, LoadsUnfold, SMTT(30) DEF E
<1>15. m <= Len(fn.blocks[from[b]].instructions) + 1
  BY <1>12, ShapedPositions
<1> HIDE DEF m, i
<1> QED BY <1>10, <1>11, <1>12, <1>14, <1>15, DerivedStores, SMTT(30)

\* What the verifier asks of a terminator.
Closes(fn, t) ==
  CASE t.kind \in {"branch", "branchIfFalse"} -> Targets(t) \subseteq DOMAIN fn.blocks
    [] t.kind = "returnValue" -> fn.returnType # "void"
    [] t.kind = "returnVoid"  -> fn.returnType = "void"
    [] OTHER                  -> FALSE

\* The whole.
LEMMA DerivedIsSound ==
  ASSUME NEW p, Vectored(p), NEW fn, ShapedIr(fn), Sound(p, fn), NEW gn, ShapedIr(gn), NEW from, NEW at,
         Derived(gn, fn, from, at), Remains(gn, fn, from, at), Connected(gn, fn, from)
  PROVE  Sound(p, gn)
<1>1. LayoutIsValid(gn)
  BY DEF Sound, LayoutIsValid, Derived
<1>2. ParametersAreCanonical(gn)
  BY DerivedParameters DEF Sound
<1>3. TerminatorsAreValid(gn)
  <2> SUFFICES ASSUME NEW b \in DOMAIN gn.blocks
               PROVE  LET t == gn.blocks[b].terminator
                      IN Closes(gn, t)
    BY DEF TerminatorsAreValid, Closes
  <2> DEFINE t == gn.blocks[b].terminator
             s == fn.blocks[from[b]].terminator
  <2>1. /\ t.kind = s.kind \/ (t.kind = "branch" /\ s.kind = "branchIfFalse")
        /\ Targets(t) \subseteq DOMAIN gn.blocks
    BY DEF Connected
  <2>2. from[b] \in DOMAIN fn.blocks /\ gn.returnType = fn.returnType
    BY DEF Derived
  <2>3. Closes(fn, s)
    BY <2>2 DEF Sound, TerminatorsAreValid, Closes
  <2> HIDE DEF s, t
  <2>4. Closes(gn, t)
    BY <2>1, <2>2, <2>3 DEF Closes
  <2> QED BY <2>4 DEF t
<1>4. GraphIsCompact(gn)
  <2>1. ASSUME NEW b \in DOMAIN gn.blocks PROVE 1 \notin Targets(gn.blocks[b].terminator)
    <3>1. from[b] \in DOMAIN fn.blocks /\ from[1] = 1
      BY DEF Derived
    <3>2. 1 \notin Targets(fn.blocks[from[b]].terminator)
      BY <3>1 DEF Sound, GraphIsCompact
    <3> QED BY <3>1, <3>2 DEF Connected
  <2> QED BY <2>1 DEF GraphIsCompact, Connected
<1> QED BY <1>1, <1>2, <1>3, <1>4, DerivedInstructions, DerivedUses, DerivedLoads DEF Sound

-----------------------------------------------------------------------------
(* Numbering the values anew.                                              *)

\* The number that a value gets.
Renumber(fn, v) ==
  IF v \in ToSet(Definitions(fn))
  THEN CHOOSE k \in DOMAIN Definitions(fn) : Definitions(fn)[k] = v
  ELSE NoValue

LEMMA Renumbering ==
  ASSUME NEW fn, ShapedIr(fn), DefinedOnce(fn)
  PROVE  /\ DOMAIN Definitions(fn) = 1 .. Len(Definitions(fn)) /\ Len(Definitions(fn)) \in Nat
         /\ \A k \in DOMAIN Definitions(fn) : Renumber(fn, Definitions(fn)[k]) = k
         /\ \A v \in ToSet(Definitions(fn)) :
              /\ Renumber(fn, v) \in DOMAIN Definitions(fn) /\ Renumber(fn, v) # NoValue
              /\ Definitions(fn)[Renumber(fn, v)] = v
         /\ Renumber(fn, NoValue) = NoValue
<1> DEFINE old == Definitions(fn)
<1>1. Listed(fn)
  BY ShapedIsListed
<1>2. DOMAIN old = 1 .. Len(old) /\ Len(old) \in Nat
  BY <1>1, DefinitionsAreSequence, CodeIsSequence
<1>3. \A k, l \in DOMAIN old : old[k] = old[l] => k = l
  BY <1>1, DefinitionsDiffer
<1>4. NoValue \notin ToSet(old)
  BY <1>1, DefinitionsAreResults
<1> HIDE DEF old
<1>5. \A v \in ToSet(old) : Renumber(fn, v) \in DOMAIN old /\ old[Renumber(fn, v)] = v
  <2> SUFFICES ASSUME NEW v \in ToSet(old) PROVE Renumber(fn, v) \in DOMAIN old /\ old[Renumber(fn, v)] = v
    OBVIOUS
  <2>1. \E k \in DOMAIN old : old[k] = v
    BY DEF ToSet
  <2>2. Renumber(fn, v) = CHOOSE k \in DOMAIN old : old[k] = v
    BY DEF Renumber, old
  <2> QED BY <2>1, <2>2
<1>6. \A k \in DOMAIN old : old[k] \in ToSet(old)
  BY DEF ToSet
<1>7. \A k \in DOMAIN old : Renumber(fn, old[k]) = k
  BY <1>3, <1>5, <1>6
<1>8. \A k \in DOMAIN old : k # NoValue
  BY <1>2 DEF NoValue
<1>9. Renumber(fn, NoValue) = NoValue
  BY <1>4 DEF Renumber, old
<1> QED BY <1>2, <1>5, <1>7, <1>8, <1>9 DEF old

Renumbered(fn, j, i) ==
  /\ j.op = i.op /\ j.type = i.type /\ j.local = i.local /\ j.callee = i.callee
  /\ j.word = i.word /\ j.result = Renumber(fn, i.result)
  /\ j.uses = [k \in DOMAIN i.uses |-> Renumber(fn, i.uses[k])]

RenumberedBlock(fn, c, b) ==
  /\ c.id = b.id
  /\ c.terminator.kind = b.terminator.kind
  /\ c.terminator.trueTarget = b.terminator.trueTarget
  /\ c.terminator.falseTarget = b.terminator.falseTarget
  /\ c.terminator.value = Renumber(fn, b.terminator.value)
  /\ DOMAIN c.instructions = DOMAIN b.instructions

\* What is renumbered is the same but for the numbers of its values.
LEMMA CompactedParts ==
  ASSUME NEW fn, ShapedIr(fn)
  PROVE  LET gn == CompactValues(fn)
         IN /\ gn.parameterTypes = fn.parameterTypes /\ gn.returnType = fn.returnType
            /\ gn.localTypes = fn.localTypes
            /\ gn.valueTypes = [k \in DOMAIN Definitions(fn) |-> fn.valueTypes[Definitions(fn)[k]]]
            /\ DOMAIN gn.blocks = DOMAIN fn.blocks
            /\ \A b \in DOMAIN fn.blocks :
                 /\ RenumberedBlock(fn, gn.blocks[b], fn.blocks[b])
                 /\ \A n \in DOMAIN fn.blocks[b].instructions :
                      Renumbered(fn, gn.blocks[b].instructions[n], fn.blocks[b].instructions[n])
<1> DEFINE old == Definitions(fn)
           renamed(i) == [i EXCEPT !.result = Renumber(fn, @), !.uses = [k \in DOMAIN @ |-> Renumber(fn, @[k])]]
           list(b) == [n \in DOMAIN fn.blocks[b].instructions |-> renamed(fn.blocks[b].instructions[n])]
           each == [b \in DOMAIN fn.blocks |->
             [fn.blocks[b] EXCEPT !.instructions = [n \in DOMAIN @ |-> renamed(@[n])]]]
           blocks == [b \in DOMAIN each |-> [each[b] EXCEPT !.terminator.value = Renumber(fn, @)]]
           types == [k \in DOMAIN old |-> fn.valueTypes[old[k]]]
           gn == CompactValues(fn)
<1>1. CompactValues(fn) = [fn EXCEPT !.valueTypes = types, !.blocks = blocks]
  <2> DEFINE made == [fn EXCEPT !.blocks = each]
  <2>1. CompactValues(fn) =
          [fn EXCEPT !.valueTypes = types,
                     !.blocks = [b \in DOMAIN made.blocks |->
                                   [made.blocks[b] EXCEPT !.terminator.value = Renumber(fn, @)]]]
    BY DEF CompactValues, EachInstruction, Renumber
  <2> HIDE DEF renamed, types, each
  <2>2. made.blocks = each
    BY DEF ShapedIr
  <2> HIDE DEF made
  <2> QED BY <2>1, <2>2
<1>2. ASSUME NEW i, Shaped(i)
      PROVE  Renumbered(fn, renamed(i), i)
  BY <1>2 DEF Shaped, Renumbered
<1> HIDE DEF renamed
<1>3. ASSUME NEW b \in DOMAIN fn.blocks
      PROVE  /\ blocks[b].id = fn.blocks[b].id
             /\ blocks[b].instructions = list(b)
             /\ blocks[b].terminator.kind = fn.blocks[b].terminator.kind
             /\ blocks[b].terminator.trueTarget = fn.blocks[b].terminator.trueTarget
             /\ blocks[b].terminator.falseTarget = fn.blocks[b].terminator.falseTarget
             /\ blocks[b].terminator.value = Renumber(fn, fn.blocks[b].terminator.value)
  <2>1. ShapedBlock(fn.blocks[b])
    BY DEF ShapedIr
  <2>2. each[b] = [fn.blocks[b] EXCEPT !.instructions = list(b)]
    OBVIOUS
  <2>3. blocks[b] = [each[b] EXCEPT !.terminator.value = Renumber(fn, @)]
    BY Zenon
  <2> HIDE DEF blocks, list, each
  <2>4. blocks[b] = [each[b] EXCEPT !.terminator = [each[b].terminator EXCEPT !.value = Renumber(fn, @)]]
    BY <2>3
  <2>5. each[b].terminator = fn.blocks[b].terminator /\ each[b].id = fn.blocks[b].id
        /\ each[b].instructions = list(b) /\ DOMAIN each[b] = DOMAIN fn.blocks[b]
    BY <2>1, <2>2 DEF ShapedBlock
  <2> QED BY <2>1, <2>4, <2>5, SMTT(30) DEF ShapedBlock, ShapedTerminator
<1>4. DOMAIN blocks = DOMAIN fn.blocks
  OBVIOUS
<1> HIDE DEF blocks, types
<1>5. /\ gn.parameterTypes = fn.parameterTypes /\ gn.returnType = fn.returnType
      /\ gn.localTypes = fn.localTypes /\ gn.valueTypes = types /\ gn.blocks = blocks
  BY <1>1 DEF ShapedIr
<1>6. ASSUME NEW b \in DOMAIN fn.blocks, NEW n \in DOMAIN fn.blocks[b].instructions
      PROVE  Renumbered(fn, gn.blocks[b].instructions[n], fn.blocks[b].instructions[n])
  <2> HIDE DEF gn
  <2>1. gn.blocks[b].instructions[n] = renamed(fn.blocks[b].instructions[n])
    BY <1>3, <1>5
  <2>2. Shaped(fn.blocks[b].instructions[n])
    BY DEF ShapedIr, ShapedBlock
  <2> QED BY <1>2, <2>1, <2>2
<1>7. \A b \in DOMAIN fn.blocks : DOMAIN blocks[b].instructions = DOMAIN fn.blocks[b].instructions
  BY <1>3
<1> HIDE DEF gn
<1>8. \A b \in DOMAIN fn.blocks : RenumberedBlock(fn, gn.blocks[b], fn.blocks[b])
  BY <1>3, <1>5, <1>7 DEF RenumberedBlock
<1> HIDE DEF list
<1> QED BY <1>4, <1>5, <1>6, <1>8 DEF gn, types

\* The same paths lead through the blocks of two functions with the same targets.
LEMMA EnteredAlike ==
  ASSUME NEW fn, ShapedIr(fn), NEW gn, ShapedIr(gn), DOMAIN gn.blocks = DOMAIN fn.blocks,
         fn.blocks # <<>>, NEW open,
         \A b \in DOMAIN fn.blocks :
           /\ Targets(fn.blocks[b].terminator) \subseteq DOMAIN fn.blocks
           /\ Targets(gn.blocks[b].terminator) = Targets(fn.blocks[b].terminator)
  PROVE  Entered(gn.blocks, open) = Entered(fn.blocks, open)
<1>1. /\ DOMAIN fn.blocks = 1 .. Len(fn.blocks) /\ Len(fn.blocks) \in Nat
      /\ DOMAIN gn.blocks = 1 .. Len(gn.blocks) /\ Len(gn.blocks) \in Nat
      /\ Len(gn.blocks) = Len(fn.blocks)
  BY ShapedPositions
<1>2. Len(fn.blocks) # 0
  BY <1>1 DEF ShapedIr, IsSequence
<1>3. gn.blocks # <<>>
  BY <1>1, <1>2
<1> DEFINE E == Entered(fn.blocks, open)
           F == Entered(gn.blocks, open)
<1>4. /\ 1 \in E /\ E \subseteq DOMAIN fn.blocks
      /\ \A b \in E \cap open : Targets(fn.blocks[b].terminator) \subseteq E
  BY EnteredFacts
<1>5. /\ 1 \in F /\ F \subseteq DOMAIN gn.blocks
      /\ \A b \in F \cap open : Targets(gn.blocks[b].terminator) \subseteq F
  BY <1>3, EnteredFacts
<1> HIDE DEF E, F
<1>6. F \subseteq E
  <2>1. \A b \in E \cap open : Targets(gn.blocks[b].terminator) \subseteq E
    BY <1>4
  <2> QED BY <1>1, <1>4, <2>1, EnteredLeast DEF F
<1>7. E \subseteq F
  <2>1. \A b \in F \cap open : Targets(fn.blocks[b].terminator) \subseteq F
    BY <1>5
  <2> QED BY <1>1, <1>5, <2>1, EnteredLeast DEF E
<1> QED BY <1>6, <1>7 DEF E, F

LEMMA SameLength ==
  ASSUME NEW m \in Nat, NEW n \in Nat, 1 .. m = 1 .. n
  PROVE  m = n
<1>1. \A k \in Nat \ {0} : k <= m <=> k <= n
  OBVIOUS
<1> QED BY <1>1

\* Renumbering makes verified IR of what is sound.
LEMMA CompactedIsVerified ==
  ASSUME NEW p, Vectored(p), NEW fn, ShapedIr(fn), Sound(p, fn)
  PROVE  Verified(p, CompactValues(fn))
<1> DEFINE gn == CompactValues(fn)
           old == Definitions(fn)
<1>1. ShapedIr(gn)
  BY CompactValuesShaped
<1>2. /\ gn.parameterTypes = fn.parameterTypes /\ gn.returnType = fn.returnType
      /\ gn.localTypes = fn.localTypes
      /\ gn.valueTypes = [k \in DOMAIN old |-> fn.valueTypes[old[k]]]
      /\ DOMAIN gn.blocks = DOMAIN fn.blocks
  BY CompactedParts
<1>3. \A b \in DOMAIN fn.blocks : RenumberedBlock(fn, gn.blocks[b], fn.blocks[b])
  BY CompactedParts
<1>4. \A b \in DOMAIN fn.blocks : \A n \in DOMAIN fn.blocks[b].instructions :
        Renumbered(fn, gn.blocks[b].instructions[n], fn.blocks[b].instructions[n])
  BY CompactedParts
<1>0. ASSUME NEW b \in DOMAIN fn.blocks, NEW n \in DOMAIN fn.blocks[b].instructions
      PROVE  /\ gn.blocks[b].instructions[n].result = Renumber(fn, fn.blocks[b].instructions[n].result)
             /\ gn.blocks[b].instructions[n].op = fn.blocks[b].instructions[n].op
             /\ gn.blocks[b].instructions[n].local = fn.blocks[b].instructions[n].local
  <2> HIDE DEF gn
  <2>1. Renumbered(fn, gn.blocks[b].instructions[n], fn.blocks[b].instructions[n])
    BY <1>4
  <2> QED BY <2>1 DEF Renumbered
<1>5. /\ DOMAIN old = 1 .. Len(old) /\ Len(old) \in Nat
      /\ \A k \in DOMAIN old : Renumber(fn, old[k]) = k
      /\ \A v \in ToSet(old) : Renumber(fn, v) \in DOMAIN old /\ Renumber(fn, v) # NoValue /\ old[Renumber(fn, v)] = v
      /\ Renumber(fn, NoValue) = NoValue
  BY Renumbering DEF Sound
<1>6. \A b \in DOMAIN fn.blocks : \A n \in DOMAIN fn.blocks[b].instructions :
        fn.blocks[b].instructions[n].result # NoValue => fn.blocks[b].instructions[n].result \in ToSet(old)
  BY ShapedIsListed, DefinitionsAreResults
<1> HIDE DEF gn, old
<1>7. \A v \in ToSet(old) : Renumber(fn, v) \in DOMAIN gn.valueTypes /\ gn.valueTypes[Renumber(fn, v)] = fn.valueTypes[v]
  BY <1>2, <1>5
<1>8. \A b \in DOMAIN fn.blocks : \A n \in DOMAIN fn.blocks[b].instructions :
        fn.blocks[b].instructions[n].result = NoValue <=> gn.blocks[b].instructions[n].result = NoValue
  BY <1>0, <1>5, <1>6
<1>9. /\ DOMAIN Definitions(gn) = DOMAIN old
      /\ Definitions(gn) = [k \in DOMAIN Definitions(gn) |-> Definitions(gn)[k]]
      /\ \A k \in DOMAIN old :
           \E b \in DOMAIN fn.blocks : \E n \in DOMAIN fn.blocks[b].instructions :
             /\ old[k] = fn.blocks[b].instructions[n].result
             /\ Definitions(gn)[k] = gn.blocks[b].instructions[n].result
  <2>1. Listed(fn) /\ Listed(gn)
    BY <1>1, ShapedIsListed
  <2>2. \A b \in DOMAIN fn.blocks :
          /\ DOMAIN gn.blocks[b].instructions = DOMAIN fn.blocks[b].instructions
          /\ \A n \in DOMAIN fn.blocks[b].instructions :
               gn.blocks[b].instructions[n].result = NoValue
                 <=> fn.blocks[b].instructions[n].result = NoValue
    BY <1>3, <1>8 DEF RenumberedBlock
  <2>3. DOMAIN gn.blocks = DOMAIN fn.blocks
    BY <1>2
  <2> QED BY <2>1, <2>2, <2>3, DefinitionsAlike DEF old
<1>10. Definitions(gn) = [v \in 1 .. Len(gn.valueTypes) |-> v]
  <2>1. DOMAIN gn.valueTypes = 1 .. Len(old)
    BY <1>2, <1>5
  <2>2. Len(gn.valueTypes) = Len(old)
    <3>1. DOMAIN gn.valueTypes = 1 .. Len(gn.valueTypes) /\ Len(gn.valueTypes) \in Nat
      BY <1>1, CodeIsSequence DEF ShapedIr
    <3> QED BY <1>5, <2>1, <3>1
  <2>3. \A k \in DOMAIN old : Definitions(gn)[k] = k
    <3> SUFFICES ASSUME NEW k \in DOMAIN old PROVE Definitions(gn)[k] = k
      OBVIOUS
    <3>1. PICK b \in DOMAIN fn.blocks : \E n \in DOMAIN fn.blocks[b].instructions :
            /\ old[k] = fn.blocks[b].instructions[n].result
            /\ Definitions(gn)[k] = gn.blocks[b].instructions[n].result
      BY <1>9
    <3>2. PICK n \in DOMAIN fn.blocks[b].instructions :
            /\ old[k] = fn.blocks[b].instructions[n].result
            /\ Definitions(gn)[k] = gn.blocks[b].instructions[n].result
      BY <3>1
    <3>3. gn.blocks[b].instructions[n].result = Renumber(fn, fn.blocks[b].instructions[n].result)
      BY <1>4 DEF Renumbered
    <3> QED BY <1>5, <3>2, <3>3
  <2> QED BY <1>5, <1>9, <2>2, <2>3
<1>11. \A v, w \in ToSet(old) : Renumber(fn, v) = Renumber(fn, w) => v = w
  BY <1>5
<1>12. LayoutIsValid(gn)
  <2>1. ToSet(gn.valueTypes) \subseteq Types
    <3> SUFFICES ASSUME NEW k \in DOMAIN old PROVE fn.valueTypes[old[k]] \in Types
      BY <1>2 DEF ToSet
    <3>1. PICK b \in DOMAIN fn.blocks : \E n \in DOMAIN fn.blocks[b].instructions :
            old[k] = fn.blocks[b].instructions[n].result
      BY <1>9
    <3>2. PICK n \in DOMAIN fn.blocks[b].instructions : old[k] = fn.blocks[b].instructions[n].result
      BY <3>1
    <3>3. old[k] # NoValue
      BY <1>5 DEF ToSet
    <3>4. Typed(p, fn, fn.blocks[b].instructions[n])
      BY DEF Sound
    <3>5. old[k] \in DOMAIN fn.valueTypes
      BY <3>2, <3>3, <3>4 DEF Typed
    <3>6. ToSet(fn.valueTypes) \subseteq Types
      BY DEF Sound, LayoutIsValid
    <3> QED BY <3>5, <3>6 DEF ToSet
  <2>2. gn.blocks # <<>>
    <3>1. DOMAIN fn.blocks = 1 .. Len(fn.blocks) /\ Len(fn.blocks) \in Nat /\ fn.blocks # <<>>
          /\ DOMAIN gn.blocks = 1 .. Len(gn.blocks)
      BY <1>1, ShapedPositions DEF Sound, LayoutIsValid
    <3>2. Len(fn.blocks) # 0
      BY <3>1 DEF ShapedIr, IsSequence
    <3>3. 1 \in 1 .. Len(fn.blocks)
      BY <3>1, <3>2
    <3>4. 1 \in DOMAIN gn.blocks
      BY <1>2, <3>1, <3>3
    <3> QED BY <3>4
  <2>3. \A b \in DOMAIN gn.blocks : gn.blocks[b].id = b
    BY <1>2, <1>3 DEF Sound, LayoutIsValid, RenumberedBlock
  <2> QED BY <1>2, <2>1, <2>2, <2>3 DEF Sound, LayoutIsValid
<1>13. ParametersAreCanonical(gn)
  <2>1. 1 \in DOMAIN fn.blocks
    <3>1. DOMAIN fn.blocks = 1 .. Len(fn.blocks) /\ Len(fn.blocks) \in Nat /\ fn.blocks # <<>>
      BY ShapedPositions DEF Sound, LayoutIsValid
    <3>2. Len(fn.blocks) # 0
      BY <3>1 DEF ShapedIr, IsSequence
    <3> QED BY <3>1, <3>2
  <2>2. Len(gn.blocks[1].instructions) = Len(fn.blocks[1].instructions)
    <3>1. DOMAIN gn.blocks[1].instructions = DOMAIN fn.blocks[1].instructions
      BY <1>3, <2>1 DEF RenumberedBlock
    <3>2. /\ DOMAIN gn.blocks[1].instructions = 1 .. Len(gn.blocks[1].instructions)
          /\ Len(gn.blocks[1].instructions) \in Nat
          /\ DOMAIN fn.blocks[1].instructions = 1 .. Len(fn.blocks[1].instructions)
          /\ Len(fn.blocks[1].instructions) \in Nat
      BY <1>1, <1>2, <2>1, ShapedPositions
    <3> QED BY <3>1, <3>2, SameLength
  <2>3. Params(gn) = Params(fn)
    BY <1>2 DEF Params
  <2>4. \A b \in DOMAIN gn.blocks : \A n \in DOMAIN gn.blocks[b].instructions :
          b \in DOMAIN fn.blocks /\ n \in DOMAIN fn.blocks[b].instructions
    BY <1>2, <1>3 DEF RenumberedBlock
  <2> QED BY <1>0, <2>2, <2>3, <2>4 DEF Sound, ParametersAreCanonical
<1>14. DefinedOnce(gn)
  <2> SUFFICES ASSUME NEW b \in DOMAIN gn.blocks, NEW c \in DOMAIN gn.blocks,
                      NEW n \in DOMAIN gn.blocks[b].instructions, NEW m \in DOMAIN gn.blocks[c].instructions,
                      gn.blocks[b].instructions[n].result # NoValue,
                      gn.blocks[c].instructions[m].result = gn.blocks[b].instructions[n].result
               PROVE  b = c /\ n = m
    BY DEF DefinedOnce
  <2>1. /\ b \in DOMAIN fn.blocks /\ c \in DOMAIN fn.blocks
        /\ n \in DOMAIN fn.blocks[b].instructions /\ m \in DOMAIN fn.blocks[c].instructions
    BY <1>2, <1>3 DEF RenumberedBlock
  <2> DEFINE v == fn.blocks[b].instructions[n].result
             w == fn.blocks[c].instructions[m].result
  <2>2. v # NoValue /\ w # NoValue
    BY <1>8, <2>1
  <2>4. v \in ToSet(old) /\ w \in ToSet(old)
    BY <1>6, <2>1, <2>2
  <2>5. Renumber(fn, w) = Renumber(fn, v)
    BY <1>0, <2>1
  <2>3. w = v
    <3> HIDE DEF v, w
    <3> QED BY <1>11, <2>4, <2>5
  <2> QED BY <2>1, <2>2, <2>3 DEF Sound, DefinedOnce
<1>15. ASSUME NEW b \in DOMAIN gn.blocks, NEW n \in DOMAIN gn.blocks[b].instructions
       PROVE  LET j == gn.blocks[b].instructions[n]
              IN Typed(p, gn, j) /\ (j.op = "call" => j.callee \in DOMAIN p) /\ IsCanonical(gn, j)
  <2> DEFINE j == gn.blocks[b].instructions[n]
             i == fn.blocks[b].instructions[n]
  <2>1. b \in DOMAIN fn.blocks /\ n \in DOMAIN fn.blocks[b].instructions
    BY <1>2, <1>3 DEF RenumberedBlock
  <2>2. Typed(p, fn, i) /\ (i.op = "call" => i.callee \in DOMAIN p) /\ IsCanonical(fn, i)
    BY <2>1 DEF Sound
  <2>3. /\ j.op = i.op /\ j.type = i.type /\ j.local = i.local /\ j.callee = i.callee
        /\ j.word = i.word /\ j.result = Renumber(fn, i.result)
    BY <1>4, <2>1 DEF Renumbered
  <2>4. i.result # NoValue => i.result \in ToSet(old)
    BY <1>6, <2>1
  <2> HIDE DEF i, j
  <2>5. ResultType(p, gn, j) = ResultType(p, fn, i)
    BY <1>2, <2>3 DEF ResultType
  <2>6. Typed(p, gn, j)
    BY <1>5, <1>7, <2>2, <2>3, <2>4, <2>5 DEF Typed
  <2>7. IsCanonical(gn, j)
    BY <1>2, <2>2, <2>3 DEF IsCanonical
  <2> QED BY <2>2, <2>3, <2>6, <2>7 DEF j
<1>16. \A b \in DOMAIN fn.blocks : Targets(gn.blocks[b].terminator) = Targets(fn.blocks[b].terminator)
  BY <1>3 DEF Targets, RenumberedBlock
<1>17. TerminatorsAreValid(gn)
  <2>1. \A b \in DOMAIN fn.blocks : Closes(fn, fn.blocks[b].terminator)
    BY DEF Sound, TerminatorsAreValid, Closes
  <2>2. \A b \in DOMAIN gn.blocks : Closes(gn, gn.blocks[b].terminator)
    BY <1>2, <1>3, <1>16, <2>1 DEF Closes, RenumberedBlock
  <2> QED BY <2>2 DEF TerminatorsAreValid, Closes
<1>18. \A open : Entered(gn.blocks, open) = Entered(fn.blocks, open)
  <2>1. \A b \in DOMAIN fn.blocks : Targets(fn.blocks[b].terminator) \subseteq DOMAIN fn.blocks
    BY ValidTargets DEF Sound
  <2>2. fn.blocks # <<>>
    BY DEF Sound, LayoutIsValid
  <2> QED BY <1>1, <1>2, <1>16, <2>1, <2>2, EnteredAlike
<1>19. GraphIsCompact(gn)
  <2>1. ReachableBlocks(gn.blocks) = ReachableBlocks(fn.blocks)
    BY <1>2, <1>18 DEF ReachableBlocks
  <2> QED BY <1>2, <1>16, <2>1 DEF Sound, GraphIsCompact
<1>20. ASSUME NEW b \in DOMAIN fn.blocks, NEW v, NEW type, NEW n,
              \A m \in 1 .. n - 1 : m \in DOMAIN fn.blocks[b].instructions,
              Has(fn, b, v, type, n)
       PROVE  Has(gn, b, Renumber(fn, v), type, n)
  <2>1. PICK m \in 1 .. n - 1 : fn.blocks[b].instructions[m].result = v /\ v # NoValue /\ fn.valueTypes[v] = type
    BY <1>20 DEF Has
  <2>2. m \in DOMAIN fn.blocks[b].instructions
    BY <1>20
  <2>3. v \in ToSet(old)
    BY <1>6, <2>1, <2>2
  <2>4. gn.blocks[b].instructions[m].result = Renumber(fn, v) /\ Renumber(fn, v) # NoValue /\ gn.valueTypes[Renumber(fn, v)] = type
    BY <1>4, <1>5, <1>7, <2>1, <2>2, <2>3 DEF Renumbered
  <2> QED BY <2>4 DEF Has
<1>21. ASSUME NEW b \in DOMAIN gn.blocks
       PROVE  /\ b \in DOMAIN fn.blocks
              /\ DOMAIN fn.blocks[b].instructions = 1 .. Len(fn.blocks[b].instructions)
              /\ Len(fn.blocks[b].instructions) \in Nat
              /\ Len(gn.blocks[b].instructions) = Len(fn.blocks[b].instructions)
  <2>1. /\ DOMAIN fn.blocks[b].instructions = 1 .. Len(fn.blocks[b].instructions)
        /\ Len(fn.blocks[b].instructions) \in Nat
        /\ DOMAIN gn.blocks[b].instructions = 1 .. Len(gn.blocks[b].instructions)
        /\ Len(gn.blocks[b].instructions) \in Nat
    BY <1>1, <1>2, ShapedPositions
  <2> QED BY <1>2, <1>3, <2>1 DEF RenumberedBlock
<1>22. UsesAreLocal(p, gn)
  <2>1. ASSUME NEW b \in DOMAIN gn.blocks, NEW n \in DOMAIN gn.blocks[b].instructions
        PROVE  UsesOf(p, gn, b, n)
    <3> DEFINE j == gn.blocks[b].instructions[n]
               i == fn.blocks[b].instructions[n]
               types == OperandTypes(p, fn, i)
    <3>1. b \in DOMAIN fn.blocks /\ n \in DOMAIN fn.blocks[b].instructions
      BY <1>2, <1>3 DEF RenumberedBlock
    <3>2. /\ j.op = i.op /\ j.type = i.type /\ j.local = i.local /\ j.callee = i.callee
          /\ j.uses = [k \in DOMAIN i.uses |-> Renumber(fn, i.uses[k])]
      BY <1>4, <3>1 DEF Renumbered
    <3>3. UsesOf(p, fn, b, n)
      BY <3>1, UsesUnfold DEF Sound
    <3>4. DOMAIN types = 1 .. Len(types)
      <4>1. i.op = "call" => i.callee \in DOMAIN p
        BY <3>1 DEF Sound
      <4> QED BY <4>1, OperandTypesSequence
    <3>5. DOMAIN i.uses = 1 .. Len(i.uses) /\ Len(i.uses) \in Nat
      BY <3>1, ShapedPositions
    <3>6. Len(i.uses) = Len(types) /\ \A k \in DOMAIN types : Has(fn, b, i.uses[k], types[k], n)
      BY <3>3 DEF UsesOf
    <3>7. \A m \in 1 .. n - 1 : m \in DOMAIN fn.blocks[b].instructions
      BY <1>21, <3>1
    <3> HIDE DEF i, j, types
    <3>8. OperandTypes(p, gn, j) = types
      BY <1>2, <3>2 DEF OperandTypes, types
    <3>9. Len(j.uses) = Len(types)
      <4>1. j.uses = [k \in 1 .. Len(i.uses) |-> j.uses[k]]
        BY <3>2, <3>5
      <4> QED BY <3>5, <3>6, <4>1, FunctionIsSequence
    <3>10. \A k \in DOMAIN types : Has(gn, b, j.uses[k], types[k], n)
      <4> SUFFICES ASSUME NEW k \in DOMAIN types PROVE Has(gn, b, j.uses[k], types[k], n)
        OBVIOUS
      <4>1. j.uses[k] = Renumber(fn, i.uses[k])
        BY <3>2, <3>4, <3>5, <3>6
      <4>2. Has(fn, b, i.uses[k], types[k], n)
        BY <3>6
      <4>3. Has(gn, b, Renumber(fn, i.uses[k]), types[k], n)
        BY <1>20, <3>1, <3>7, <4>2
      <4> QED BY <4>1, <4>3
    <3> QED BY <3>8, <3>9, <3>10, SMTT(30) DEF UsesOf, j
  <2>2. ASSUME NEW b \in DOMAIN gn.blocks, NEW type,
               Has(fn, b, fn.blocks[b].terminator.value, type, Len(fn.blocks[b].instructions) + 1)
        PROVE  Has(gn, b, gn.blocks[b].terminator.value, type, Len(gn.blocks[b].instructions) + 1)
    <3>1. \A m \in 1 .. (Len(fn.blocks[b].instructions) + 1) - 1 : m \in DOMAIN fn.blocks[b].instructions
      BY <1>21
    <3>2. Has(gn, b, Renumber(fn, fn.blocks[b].terminator.value), type, Len(fn.blocks[b].instructions) + 1)
      BY <1>2, <1>20, <2>2, <3>1
    <3> QED BY <1>2, <1>3, <1>21, <3>2 DEF RenumberedBlock
  <2>3. ASSUME NEW b \in DOMAIN gn.blocks
        PROVE  LET t == gn.blocks[b].terminator
                   end == Len(gn.blocks[b].instructions) + 1
               IN /\ t.kind = "branchIfFalse" => Has(gn, b, t.value, "boolean", end)
                  /\ t.kind = "returnValue" => Has(gn, b, t.value, gn.returnType, end)
    <3>1. LET t == fn.blocks[b].terminator
              end == Len(fn.blocks[b].instructions) + 1
          IN /\ t.kind = "branchIfFalse" => Has(fn, b, t.value, "boolean", end)
             /\ t.kind = "returnValue" => Has(fn, b, t.value, fn.returnType, end)
      BY <1>2, UsesUnfold DEF Sound
    <3> QED BY <1>2, <1>3, <2>2, <3>1 DEF RenumberedBlock
  <2> QED BY <2>1, <2>3, UsesUnfold
<1>23. LoadsAreInitialized(gn)
  <2>1. ASSUME NEW b \in DOMAIN fn.blocks, NEW l, NEW n,
               \A m \in 1 .. n - 1 : m \in DOMAIN fn.blocks[b].instructions
        PROVE  Stores(gn, b, l, n) <=> Stores(fn, b, l, n)
    BY <1>4, <2>1 DEF Stores, Renumbered
  <2>2. ASSUME NEW l PROVE Unset(gn, l) = Unset(fn, l)
    <3>1. ASSUME NEW b \in DOMAIN fn.blocks
          PROVE  Stores(gn, b, l, Len(gn.blocks[b].instructions) + 1)
                   <=> Stores(fn, b, l, Len(fn.blocks[b].instructions) + 1)
      <4>1. \A m \in 1 .. (Len(fn.blocks[b].instructions) + 1) - 1 : m \in DOMAIN fn.blocks[b].instructions
        BY <1>2, <1>21
      <4>2. Len(gn.blocks[b].instructions) = Len(fn.blocks[b].instructions)
        BY <1>2, <1>21
      <4> QED BY <2>1, <4>1, <4>2
    <3> QED BY <1>2, <3>1 DEF Unset
  <2> SUFFICES ASSUME NEW l \in DOMAIN gn.localTypes, NEW b \in Entered(gn.blocks, Unset(gn, l)),
                      NEW n \in 1 .. Len(gn.blocks[b].instructions),
                      gn.blocks[b].instructions[n].op = "load", gn.blocks[b].instructions[n].local = l
               PROVE  Stores(gn, b, l, n)
    BY LoadsUnfold
  <2>3. l \in DOMAIN fn.localTypes /\ b \in Entered(fn.blocks, Unset(fn, l))
    BY <1>2, <1>18, <2>2
  <2>4. b \in DOMAIN fn.blocks
    <3>1. \A c \in DOMAIN fn.blocks : Targets(fn.blocks[c].terminator) \subseteq DOMAIN fn.blocks
      BY ValidTargets DEF Sound
    <3>2. fn.blocks # <<>>
      BY DEF Sound, LayoutIsValid
    <3> QED BY <2>3, <3>1, <3>2, EnteredFacts
  <2>5. n \in 1 .. Len(fn.blocks[b].instructions) /\ n \in DOMAIN fn.blocks[b].instructions
        /\ \A m \in 1 .. n - 1 : m \in DOMAIN fn.blocks[b].instructions
    BY <1>2, <1>21, <2>4
  <2>6. fn.blocks[b].instructions[n].op = "load" /\ fn.blocks[b].instructions[n].local = l
    BY <1>4, <2>4, <2>5 DEF Renumbered
  <2>7. Stores(fn, b, l, n)
    BY <2>3, <2>5, <2>6, LoadsUnfold DEF Sound
  <2> QED BY <2>1, <2>4, <2>5, <2>7
<1>24. Sound(p, gn)
  BY <1>12, <1>13, <1>14, <1>15, <1>17, <1>19, <1>22, <1>23 DEF Sound
<1>25. Verified(p, gn)
  BY <1>1, <1>10, <1>24, VerifiedIsSound
<1> QED BY <1>25 DEF gn

\* A function whose instructions are replaced one by one stays verified.
RewrittenBlock(fn, c, b) ==
  /\ c.id = b.id /\ c.terminator = b.terminator
  /\ DOMAIN c.instructions = DOMAIN b.instructions
  /\ \A n \in DOMAIN b.instructions : Replaces(fn, c.instructions[n], b.instructions[n])

LEMMA RewrittenIsVerified ==
  ASSUME NEW p, Vectored(p), NEW fn, ShapedIr(fn), Verified(p, fn), NEW gn, ShapedIr(gn),
         gn.parameterTypes = fn.parameterTypes, gn.returnType = fn.returnType,
         gn.localTypes = fn.localTypes, gn.valueTypes = fn.valueTypes,
         DOMAIN gn.blocks = DOMAIN fn.blocks,
         \A b \in DOMAIN fn.blocks : RewrittenBlock(fn, gn.blocks[b], fn.blocks[b])
  PROVE  Verified(p, gn)
<1>1. Sound(p, fn) /\ Definitions(fn) = [v \in 1 .. Len(fn.valueTypes) |-> v]
  BY VerifiedIsSound
<1>2. /\ fn.blocks # <<>> /\ \A b \in DOMAIN fn.blocks : fn.blocks[b].id = b
      /\ ReachableBlocks(fn.blocks) = DOMAIN fn.blocks
      /\ \A b \in DOMAIN fn.blocks : Targets(fn.blocks[b].terminator) \subseteq DOMAIN fn.blocks
  BY <1>1, ValidTargets DEF Sound, LayoutIsValid, GraphIsCompact
<1>3. 1 \in DOMAIN fn.blocks
  <2>1. DOMAIN fn.blocks = 1 .. Len(fn.blocks) /\ Len(fn.blocks) \in Nat
    BY ShapedPositions
  <2>2. Len(fn.blocks) # 0
    BY <1>2, <2>1 DEF ShapedIr, IsSequence
  <2> QED BY <2>1, <2>2
<1> DEFINE from == [b \in DOMAIN fn.blocks |-> b]
           at == [b \in DOMAIN fn.blocks |-> [n \in DOMAIN fn.blocks[b].instructions |-> n]]
<1>4. /\ \A b \in DOMAIN fn.blocks : from[b] = b
      /\ \A b \in DOMAIN fn.blocks : \A n \in DOMAIN fn.blocks[b].instructions : at[b][n] = n
  OBVIOUS
<1>5. \A b \in DOMAIN fn.blocks :
        /\ gn.blocks[b].id = b /\ gn.blocks[b].terminator = fn.blocks[b].terminator
        /\ DOMAIN gn.blocks[b].instructions = DOMAIN fn.blocks[b].instructions
        /\ \A n \in DOMAIN fn.blocks[b].instructions :
             Replaces(fn, gn.blocks[b].instructions[n], fn.blocks[b].instructions[n])
  BY <1>2 DEF RewrittenBlock
<1> HIDE DEF from, at
<1>6. Derived(gn, fn, from, at)
  <2>1. gn.blocks # <<>>
    BY <1>3
  <2>2. from[1] = 1
    BY <1>3, <1>4
  <2>3. \A b \in DOMAIN gn.blocks : gn.blocks[b].id = b /\ from[b] \in DOMAIN fn.blocks
    BY <1>4, <1>5
  <2>4. \A b, c \in DOMAIN gn.blocks : from[b] = from[c] => b = c
    BY <1>4
  <2>5. ASSUME NEW b \in DOMAIN gn.blocks
        PROVE  /\ \A n \in DOMAIN gn.blocks[b].instructions :
                    /\ at[b][n] \in DOMAIN fn.blocks[from[b]].instructions
                    /\ Replaces(fn, gn.blocks[b].instructions[n], fn.blocks[from[b]].instructions[at[b][n]])
               /\ \A n, m \in DOMAIN gn.blocks[b].instructions : n < m => at[b][n] < at[b][m]
    BY <1>4, <1>5
  <2> QED BY <2>1, <2>2, <2>3, <2>4, <2>5 DEF Derived
<1>7. Remains(gn, fn, from, at)
  <2>1. ASSUME NEW b \in DOMAIN gn.blocks, NEW m \in DOMAIN fn.blocks[from[b]].instructions
        PROVE  \E n \in DOMAIN gn.blocks[b].instructions : at[b][n] = m
    BY <1>4, <1>5
  <2> QED BY <2>1 DEF Remains
<1>8. ReachableBlocks(gn.blocks) = DOMAIN gn.blocks
  <2>1. \A b \in DOMAIN fn.blocks : Targets(gn.blocks[b].terminator) = Targets(fn.blocks[b].terminator)
    BY <1>5
  <2>2. Entered(gn.blocks, DOMAIN fn.blocks) = Entered(fn.blocks, DOMAIN fn.blocks)
    BY <1>2, <2>1, EnteredAlike
  <2> QED BY <1>2, <2>2 DEF ReachableBlocks
<1>9. Connected(gn, fn, from)
  <2>1. ASSUME NEW b \in DOMAIN gn.blocks
        PROVE  LET t == gn.blocks[b].terminator
                   s == fn.blocks[from[b]].terminator
               IN /\ t.kind = s.kind /\ t.value = s.value
                  /\ Targets(t) \subseteq DOMAIN gn.blocks
                  /\ \A c \in Targets(t) : from[c] \in Targets(s)
    <3>1. /\ gn.blocks[b].terminator = fn.blocks[b].terminator /\ from[b] = b
          /\ Targets(fn.blocks[b].terminator) \subseteq DOMAIN fn.blocks
      BY <1>2, <1>4, <1>5
    <3>2. \A c \in Targets(fn.blocks[b].terminator) : from[c] = c
      BY <1>4, <3>1
    <3> QED BY <3>1, <3>2
  <2> QED BY <1>8, <2>1 DEF Connected
<1>10. Sound(p, gn)
  BY <1>1, <1>6, <1>7, <1>9, DerivedIsSound
<1>11. Definitions(gn) = Definitions(fn)
  <2>1. ASSUME NEW b \in DOMAIN fn.blocks, NEW n \in DOMAIN fn.blocks[b].instructions
        PROVE  gn.blocks[b].instructions[n].result = fn.blocks[b].instructions[n].result
    <3>1. Replaces(fn, gn.blocks[b].instructions[n], fn.blocks[b].instructions[n])
      BY <1>5
    <3> QED BY <3>1, ReplacementFacts
  <2>2. Listed(fn) /\ Listed(gn)
    BY ShapedIsListed
  <2>3. \A b \in DOMAIN fn.blocks : DOMAIN gn.blocks[b].instructions = DOMAIN fn.blocks[b].instructions
    BY <1>5
  <2>4. \A b \in DOMAIN fn.blocks :
         /\ DOMAIN gn.blocks[b].instructions = DOMAIN fn.blocks[b].instructions
         /\ \A n \in DOMAIN fn.blocks[b].instructions :
              gn.blocks[b].instructions[n].result = NoValue
                <=> fn.blocks[b].instructions[n].result = NoValue
    BY <2>1, <2>3
  <2>5. /\ DOMAIN Definitions(gn) = DOMAIN Definitions(fn)
        /\ Definitions(gn) = [k \in DOMAIN Definitions(gn) |-> Definitions(gn)[k]]
        /\ \A k \in DOMAIN Definitions(fn) :
             \E b \in DOMAIN fn.blocks : \E n \in DOMAIN fn.blocks[b].instructions :
               /\ Definitions(fn)[k] = fn.blocks[b].instructions[n].result
               /\ Definitions(gn)[k] = gn.blocks[b].instructions[n].result
    BY <2>2, <2>4, DefinitionsAlike
  <2>6. \A k \in DOMAIN Definitions(fn) : Definitions(gn)[k] = Definitions(fn)[k]
    BY <2>1, <2>5
  <2>7. Definitions(fn) = [k \in DOMAIN Definitions(fn) |-> Definitions(fn)[k]]
    BY <1>1
  <2> QED BY <2>5, <2>6, <2>7
<1> QED BY <1>1, <1>10, <1>11, VerifiedIsSound

-----------------------------------------------------------------------------
(* Constant folding and propagation keep verified IR verified.             *)

\* The keys of a function that has one more.
LEMMA OneMoreKey ==
  ASSUME NEW a, NEW b, NEW f
  PROVE  DOMAIN Assigned(f, a, b) = {a} \cup DOMAIN f
BY SMTT(30) DEF Assigned

\* A value of type i64 of the function.
Integral(fn, v) == v # NoValue /\ v \in DOMAIN fn.valueTypes /\ fn.valueTypes[v] = "i64"

\* What verified IR says of one of its instructions.
LEMMA InstructionFacts ==
  ASSUME NEW p, NEW fn, ShapedIr(fn), Sound(p, fn),
         NEW b \in DOMAIN fn.blocks, NEW n \in DOMAIN fn.blocks[b].instructions,
         NEW i, i = fn.blocks[b].instructions[n]
  PROVE  /\ ResultType(p, fn, i) = "i64" => Integral(fn, i.result)
         /\ i.result # NoValue =>
              i.result \in DOMAIN fn.valueTypes /\ fn.valueTypes[i.result] = ResultType(p, fn, i)
         /\ i.op = "negate" => fn.valueTypes[i.uses[1]] = i.type /\ i.uses[1] \in ToSet(i.uses)
         /\ i.op = "store" => /\ fn.valueTypes[i.uses[1]] = fn.localTypes[i.local]
                              /\ i.uses[1] \in ToSet(i.uses)
<1>1. Typed(p, fn, i)
  BY DEF Sound
<1>2. UsesOf(p, fn, b, n)
  BY UsesUnfold DEF Sound
<1>3. DOMAIN i.uses = 1 .. Len(i.uses)
  BY ShapedPositions
<1>4. ASSUME NEW type, OperandTypes(p, fn, i) = <<type>>
      PROVE  fn.valueTypes[i.uses[1]] = type /\ i.uses[1] \in ToSet(i.uses)
  <2>1. Len(i.uses) = 1 /\ Has(fn, b, i.uses[1], type, n)
    <3>1. DOMAIN <<type>> = 1 .. 1 /\ Len(<<type>>) = 1 /\ <<type>>[1] = type /\ 1 \in 1 .. 1
      OBVIOUS
    <3> QED BY <1>2, <1>4, <3>1 DEF UsesOf
  <2>2. fn.valueTypes[i.uses[1]] = type
    BY <2>1 DEF Has
  <2>3. 1 \in DOMAIN i.uses
    BY <1>3, <2>1
  <2> QED BY <2>2, <2>3 DEF ToSet
<1>5. i.op = "negate" => OperandTypes(p, fn, i) = <<i.type>>
  BY DEF OperandTypes
<1>6. i.op = "store" => OperandTypes(p, fn, i) = <<fn.localTypes[i.local]>>
  BY DEF OperandTypes
<1>7. ResultType(p, fn, i) = "i64" => Integral(fn, i.result)
  BY <1>1 DEF Typed, Integral
<1>8. i.result # NoValue =>
        i.result \in DOMAIN fn.valueTypes /\ fn.valueTypes[i.result] = ResultType(p, fn, i)
  BY <1>1 DEF Typed
<1> QED BY <1>4, <1>5, <1>6, <1>7, <1>8

\* The facts know words for values of type i64 only.
LEMMA LearnsIntegral ==
  ASSUME NEW p, NEW fn, ShapedIr(fn), Sound(p, fn),
         NEW b \in DOMAIN fn.blocks, NEW n \in DOMAIN fn.blocks[b].instructions,
         NEW facts, {"i64", "boolean"} \subseteq DOMAIN facts, \A v \in DOMAIN facts.i64 : Integral(fn, v)
  PROVE  LET next == Learn(facts, fn.blocks[b].instructions[n])
         IN {"i64", "boolean"} \subseteq DOMAIN next /\ \A v \in DOMAIN next.i64 : Integral(fn, v)
<1> DEFINE i == fn.blocks[b].instructions[n]
           next == Learn(facts, i)
<1>1. /\ ResultType(p, fn, i) = "i64" => Integral(fn, i.result)
      /\ i.op = "negate" => fn.valueTypes[i.uses[1]] = i.type /\ i.uses[1] \in ToSet(i.uses)
  <2>1. i = fn.blocks[b].instructions[n]
    OBVIOUS
  <2> HIDE DEF i
  <2> QED BY <2>1, InstructionFacts
<1> HIDE DEF i
<1>2. CASE \E w : next = [facts EXCEPT !.i64 = Assigned(@, i.result, w)] /\ Integral(fn, i.result)
  <2>1. PICK w : next = [facts EXCEPT !.i64 = Assigned(@, i.result, w)]
    BY <1>2
  <2> DEFINE more == Assigned(facts.i64, i.result, w)
  <2>2. DOMAIN more = {i.result} \cup DOMAIN facts.i64
    BY OneMoreKey
  <2> HIDE DEF more
  <2>3. next = [facts EXCEPT !.i64 = more]
    BY <2>1 DEF more
  <2> HIDE DEF next
  <2>4. next.i64 = more /\ DOMAIN next = DOMAIN facts
    BY <2>3
  <2> QED BY <1>2, <2>2, <2>4 DEF next, i
<1>3. CASE \E x : next = [facts EXCEPT !.boolean = x]
  <2>1. PICK x : next = [facts EXCEPT !.boolean = x]
    BY <1>3
  <2> HIDE DEF next
  <2>2. next.i64 = facts.i64 /\ DOMAIN next = DOMAIN facts
    BY <2>1
  <2> QED BY <2>2 DEF next, i
<1>4. CASE next = facts
  BY <1>4 DEF i
<1>5. i.op = "constant" /\ i.type = "i64" =>
        Integral(fn, i.result) /\ next = [facts EXCEPT !.i64 = Assigned(@, i.result, i.word)]
  BY <1>1 DEF ResultType, Learn
<1>6. ASSUME ~(i.op = "constant" /\ i.type = "i64"), next # facts
      PROVE  \/ \E w : next = [facts EXCEPT !.i64 = Assigned(@, i.result, w)] /\ Integral(fn, i.result)
             \/ \E x : next = [facts EXCEPT !.boolean = x]
  <2>1. ToSet(i.uses) \subseteq DOMAIN facts.i64
    BY <1>6 DEF Learn
  <2>2. CASE i.op = "negate"
    <3>1. Integral(fn, i.uses[1])
      BY <1>1, <2>1, <2>2
    <3>2. ResultType(p, fn, i) = "i64"
      BY <1>1, <2>2, <3>1 DEF ResultType, Integral
    <3>3. \E w : next = [facts EXCEPT !.i64 = Assigned(@, i.result, w)]
      BY <1>6, <2>2 DEF Learn
    <3> QED BY <1>1, <3>2, <3>3
  <2>3. CASE i.op # "negate" /\ Folds(i)
    <3>1. ResultType(p, fn, i) = "i64"
      BY <2>3 DEF ResultType, Folds
    <3>2. \E w : next = [facts EXCEPT !.i64 = Assigned(@, i.result, w)]
      BY <1>6, <2>3 DEF Learn
    <3> QED BY <1>1, <3>1, <3>2
  <2>4. CASE i.op # "negate" /\ ~Folds(i)
    BY <1>6, <2>4 DEF Learn
  <2> QED BY <2>2, <2>3, <2>4
<1> QED BY <1>2, <1>3, <1>4, <1>5, <1>6

LEMMA FactsAreIntegral ==
  ASSUME NEW p, NEW fn, ShapedIr(fn), Sound(p, fn)
  PROVE  \A v \in DOMAIN ConstantFacts(fn).i64 : Integral(fn, v)
<1> DEFINE first == [i64 |-> <<>>, boolean |-> <<>>]
           list == Instructions(fn)
           t == LearnedFacts(first, list)
           Good(s) == {"i64", "boolean"} \subseteq DOMAIN s /\ \A v \in DOMAIN s.i64 : Integral(fn, v)
<1>1. ConstantFacts(fn) = t
  BY DEF ConstantFacts, LearnedFacts
<1>2. Good(first)
  OBVIOUS
<1>3. IsSequence(list) /\ \A i : i \in ToSet(list) =>
        \E b \in DOMAIN fn.blocks : \E n \in DOMAIN fn.blocks[b].instructions : i = fn.blocks[b].instructions[n]
  BY ShapedIsListed, InstructionsOfBlocks
<1> HIDE DEF first, list
<1>4. DOMAIN list = 1 .. Len(list) /\ Len(list) \in Nat
  BY <1>3, CodeIsSequence
<1>5. PICK v : /\ v[0] = first
               /\ \A k \in 1 .. Len(list) : v[k] = Learn(v[k - 1], list[k])
               /\ t = v[Len(list)]
  BY <1>3, LearningFolds
<1>6. ASSUME NEW s, Good(s), NEW k \in DOMAIN list PROVE Good(Learn(s, list[k]))
  <2>1. list[k] \in ToSet(list)
    BY DEF ToSet
  <2>2. PICK b \in DOMAIN fn.blocks : \E n \in DOMAIN fn.blocks[b].instructions : list[k] = fn.blocks[b].instructions[n]
    BY <1>3, <2>1
  <2>3. PICK n \in DOMAIN fn.blocks[b].instructions : list[k] = fn.blocks[b].instructions[n]
    BY <2>2
  <2>4. Good(Learn(s, fn.blocks[b].instructions[n]))
    BY <1>6, LearnsIntegral
  <2> QED BY <2>3, <2>4
<1> DEFINE T == {m \in 0 .. Len(list) : Good(v[m])}
<1> HIDE DEF Good
<1>7. 0 \in T
  BY <1>2, <1>4, <1>5
<1>8. ASSUME NEW m \in 0 .. Len(list) - 1, m \in T PROVE m + 1 \in T
  <2>1. m + 1 \in 1 .. Len(list) /\ (m + 1) - 1 = m /\ m + 1 \in 0 .. Len(list)
    BY <1>4
  <2>2. v[m + 1] = Learn(v[m], list[m + 1])
    BY <1>5, <2>1
  <2>3. Good(v[m + 1])
    BY <1>4, <1>6, <1>8, <2>1, <2>2
  <2> QED BY <2>1, <2>3
<1> HIDE DEF T, t
<1>9. 0 .. Len(list) \subseteq T
  BY <1>4, <1>7, <1>8, IntervalInduction
<1>10. Len(list) \in T
  BY <1>4, <1>9
<1> QED BY <1>1, <1>5, <1>10 DEF T, Good

LEMMA FoldConstantsVerified ==
  ASSUME NEW p, Vectored(p), NEW fn, ShapedIr(fn), Verified(p, fn)
  PROVE  Verified(p, FoldConstants(fn))
<1> DEFINE facts == ConstantFacts(fn)
           folded(i) == IF (i.op = "negate" \/ Folds(i)) /\ i.result \in DOMAIN facts.i64
                        THEN Constant(i.result, "i64", facts.i64[i.result])
                        ELSE i
           list(b) == [n \in DOMAIN fn.blocks[b].instructions |-> folded(fn.blocks[b].instructions[n])]
           blocks == [b \in DOMAIN fn.blocks |->
             [fn.blocks[b] EXCEPT !.instructions = [n \in DOMAIN @ |-> folded(@[n])]]]
           gn == FoldConstants(fn)
<1>1. gn = [fn EXCEPT !.blocks = blocks]
  BY DEF FoldConstants, EachInstruction
<1>2. Sound(p, fn)
  BY VerifiedIsSound
<1>3. \A v \in DOMAIN facts.i64 : Integral(fn, v)
  BY <1>2, FactsAreIntegral
<1> HIDE DEF facts
<1>4. \A i : Replaces(fn, folded(i), i)
  BY <1>3 DEF Replaces, Integral, Folds
<1> HIDE DEF folded
<1>5. ASSUME NEW b \in DOMAIN fn.blocks PROVE RewrittenBlock(fn, blocks[b], fn.blocks[b])
  <2>1. blocks[b] = [fn.blocks[b] EXCEPT !.instructions = list(b)]
    OBVIOUS
  <2>2. ShapedBlock(fn.blocks[b])
    BY DEF ShapedIr
  <2>3. DOMAIN list(b) = DOMAIN fn.blocks[b].instructions
        /\ \A n \in DOMAIN fn.blocks[b].instructions : Replaces(fn, list(b)[n], fn.blocks[b].instructions[n])
    BY <1>4
  <2> HIDE DEF list, blocks
  <2> QED BY <2>1, <2>2, <2>3 DEF RewrittenBlock, ShapedBlock
<1>6. DOMAIN blocks = DOMAIN fn.blocks
  OBVIOUS
<1> HIDE DEF blocks
<1>7. ShapedIr(gn)
  BY FoldConstantsShaped
<1>8. /\ gn.parameterTypes = fn.parameterTypes /\ gn.returnType = fn.returnType
      /\ gn.localTypes = fn.localTypes /\ gn.valueTypes = fn.valueTypes /\ gn.blocks = blocks
  BY <1>1 DEF ShapedIr
<1> HIDE DEF gn
<1>9. Verified(p, gn)
  BY <1>5, <1>6, <1>7, <1>8, RewrittenIsVerified
<1> QED BY <1>9 DEF gn

\* What propagation has made of the first n instructions of block b, and of the
\* blocks before: it knows words for values and locals of type i64 only.
Propagating(fn, s, blocks, b, n) ==
  /\ {"values", "locals", "instructions", "blocks"} \subseteq DOMAIN s
  /\ s.blocks = blocks
  /\ \A v \in DOMAIN s.values : Integral(fn, v)
  /\ \A l \in DOMAIN s.locals : fn.localTypes[l] = "i64"
  /\ IsSequence(s.instructions) /\ Len(s.instructions) = n
  /\ \A k \in 1 .. n : Replaces(fn, s.instructions[k], fn.blocks[b].instructions[k])

LEMMA PropagatingLonger ==
  ASSUME NEW fn, NEW s, NEW blocks, NEW b, NEW n \in Nat, Propagating(fn, s, blocks, b, n),
         NEW j, Replaces(fn, j, fn.blocks[b].instructions[n + 1]),
         NEW values, \A v \in DOMAIN values : Integral(fn, v),
         NEW locals, \A l \in DOMAIN locals : fn.localTypes[l] = "i64"
  PROVE  /\ Propagating(fn, [s EXCEPT !.values = values, !.instructions = Append(@, j)], blocks, b, n + 1)
         /\ Propagating(fn, [s EXCEPT !.locals = locals, !.instructions = Append(@, j)], blocks, b, n + 1)
         /\ Propagating(fn, [s EXCEPT !.instructions = Append(@, j)], blocks, b, n + 1)
<1> DEFINE c == Append(s.instructions, j)
<1>1. /\ IsSequence(s.instructions) /\ Len(s.instructions) = n
      /\ \A k \in 1 .. n : Replaces(fn, s.instructions[k], fn.blocks[b].instructions[k])
  BY DEF Propagating
<1>2. /\ IsSequence(c) /\ DOMAIN c = 1 .. n + 1
      /\ \A k \in 1 .. n : c[k] = s.instructions[k]
      /\ c[n + 1] = j
  BY <1>1, AppendedIsSequence
<1> HIDE DEF c
<1>3. Len(c) = n + 1
  <2>1. DOMAIN c = 1 .. Len(c) /\ Len(c) \in Nat
    BY <1>2, CodeIsSequence
  <2> QED BY <1>2, <2>1, SameLength
<1>4. \A k \in 1 .. n + 1 : Replaces(fn, c[k], fn.blocks[b].instructions[k])
  <2>1. \A k \in 1 .. n + 1 : k \in 1 .. n \/ k = n + 1
    OBVIOUS
  <2> QED BY <1>1, <1>2, <2>1
<1>5. /\ Propagating(fn, [s EXCEPT !.values = values, !.instructions = c], blocks, b, n + 1)
      /\ Propagating(fn, [s EXCEPT !.locals = locals, !.instructions = c], blocks, b, n + 1)
      /\ Propagating(fn, [s EXCEPT !.instructions = c], blocks, b, n + 1)
  BY <1>2, <1>3, <1>4 DEF Propagating
<1> QED BY <1>5 DEF c

LEMMA PropagatesIntegral ==
  ASSUME NEW p, NEW fn, ShapedIr(fn), Sound(p, fn),
         NEW b \in DOMAIN fn.blocks, NEW n \in Nat, n + 1 \in DOMAIN fn.blocks[b].instructions,
         NEW s, NEW blocks, Propagating(fn, s, blocks, b, n)
  PROVE  Propagating(fn, PropagateInstruction(s, fn.blocks[b].instructions[n + 1]), blocks, b, n + 1)
<1> DEFINE i == fn.blocks[b].instructions[n + 1]
<1>1. /\ ResultType(p, fn, i) = "i64" => Integral(fn, i.result)
      /\ i.op = "store" => fn.valueTypes[i.uses[1]] = fn.localTypes[i.local]
  <2>1. n + 1 \in DOMAIN fn.blocks[b].instructions /\ i = fn.blocks[b].instructions[n + 1]
    OBVIOUS
  <2> HIDE DEF i
  <2> QED BY <2>1, InstructionFacts
<1>2. /\ \A v \in DOMAIN s.values : Integral(fn, v)
      /\ \A l \in DOMAIN s.locals : fn.localTypes[l] = "i64"
  BY DEF Propagating
<1>3. Replaces(fn, i, i)
  BY DEF Replaces
<1>4. CASE i.op = "constant" /\ i.type = "i64"
  <2> DEFINE x == Assigned(s.values, i.result, i.word)
  <2>1. PropagateInstruction(s, i) = [s EXCEPT !.values = x, !.instructions = Append(@, i)]
    BY <1>4 DEF PropagateInstruction
  <2>2. DOMAIN x = {i.result} \cup DOMAIN s.values
    BY OneMoreKey
  <2>3. \A v \in DOMAIN x : Integral(fn, v)
    BY <1>1, <1>2, <1>4, <2>2, SMTT(30) DEF ResultType
  <2> HIDE DEF x
  <2>4. Propagating(fn, [s EXCEPT !.values = x, !.instructions = Append(@, i)], blocks, b, n + 1)
    BY <1>2, <1>3, <2>3, PropagatingLonger
  <2> QED BY <2>1, <2>4
<1>5. CASE ~(i.op = "constant" /\ i.type = "i64") /\ i.op = "load" /\ i.local \in DOMAIN s.locals
  <2> DEFINE x == Assigned(s.values, i.result, s.locals[i.local])
             j == Constant(i.result, "i64", s.locals[i.local])
  <2>1. PropagateInstruction(s, i) = [s EXCEPT !.values = x, !.instructions = Append(@, j)]
    BY <1>5 DEF PropagateInstruction
  <2>2. Integral(fn, i.result)
    BY <1>1, <1>2, <1>5 DEF ResultType
  <2>3. DOMAIN x = {i.result} \cup DOMAIN s.values
    BY OneMoreKey, SMTT(30)
  <2>4. Replaces(fn, j, i)
    BY <1>5, <2>2 DEF Replaces, Integral
  <2> HIDE DEF x, j, i
  <2>5. \A v \in DOMAIN x : Integral(fn, v)
    BY <1>2, <2>2, <2>3, SMTT(30)
  <2>6. Propagating(fn, [s EXCEPT !.values = x, !.instructions = Append(@, j)], blocks, b, n + 1)
    BY <1>2, <2>4, <2>5, PropagatingLonger DEF i
  <2> QED BY <2>1, <2>6 DEF i
<1>6. CASE i.op = "store"
  <2> DEFINE x == IF i.uses[1] \in DOMAIN s.values
                  THEN Assigned(s.locals, i.local, s.values[i.uses[1]])
                  ELSE [l \in DOMAIN s.locals \ {i.local} |-> s.locals[l]]
  <2>1. PropagateInstruction(s, i) = [s EXCEPT !.locals = x, !.instructions = Append(@, i)]
    BY <1>6 DEF PropagateInstruction
  <2>2. DOMAIN Assigned(s.locals, i.local, s.values[i.uses[1]]) = {i.local} \cup DOMAIN s.locals
    BY OneMoreKey
  <2>3. ASSUME NEW l \in DOMAIN x PROVE fn.localTypes[l] = "i64"
    <3>1. CASE i.uses[1] \in DOMAIN s.values
      <4>1. Integral(fn, i.uses[1])
        BY <1>2, <3>1, SMTT(30)
      <4>2. fn.localTypes[i.local] = "i64"
        BY <1>1, <1>6, <4>1 DEF Integral
      <4> QED BY <1>2, <2>2, <3>1, <4>2, Zenon
    <3>2. CASE i.uses[1] \notin DOMAIN s.values
      BY <1>2, <3>2, SMTT(30)
    <3> QED BY <3>1, <3>2
  <2> HIDE DEF x
  <2>4. Propagating(fn, [s EXCEPT !.locals = x, !.instructions = Append(@, i)], blocks, b, n + 1)
    BY <1>2, <1>3, <2>3, PropagatingLonger
  <2> QED BY <2>1, <2>4
<1>7. CASE /\ ~(i.op = "constant" /\ i.type = "i64")
           /\ ~(i.op = "load" /\ i.local \in DOMAIN s.locals)
           /\ i.op # "store"
  <2>1. PropagateInstruction(s, i) = [s EXCEPT !.instructions = Append(@, i)]
    BY <1>7, SMTT(30) DEF PropagateInstruction
  <2>2. Propagating(fn, [s EXCEPT !.instructions = Append(@, i)], blocks, b, n + 1)
    BY <1>2, <1>3, PropagatingLonger
  <2> QED BY <2>1, <2>2, SMTT(30)
<1> QED BY <1>4, <1>5, <1>6, <1>7

\* What propagation has made of the first m blocks.
PropagatedBefore(fn, s, m) ==
  /\ {"values", "locals", "instructions", "blocks"} \subseteq DOMAIN s
  /\ \A v \in DOMAIN s.values : Integral(fn, v)
  /\ IsSequence(s.blocks) /\ Len(s.blocks) = m
  /\ \A b \in 1 .. m : RewrittenBlock(fn, s.blocks[b], fn.blocks[b])

LEMMA PropagatesBlock ==
  ASSUME NEW p, NEW fn, ShapedIr(fn), Sound(p, fn), NEW m \in Nat, m + 1 \in DOMAIN fn.blocks,
         NEW s, PropagatedBefore(fn, s, m)
  PROVE  PropagatedBefore(fn, PropagateBlock(s, fn.blocks[m + 1]), m + 1)
<1> DEFINE block == fn.blocks[m + 1]
           first == [s EXCEPT !.instructions = <<>>, !.locals = <<>>]
           list == block.instructions
           t == PropagatedInstructions(first, list)
           made == [block EXCEPT !.instructions = t.instructions]
           n == Len(list)
<1>1. PropagateBlock(s, block) = [t EXCEPT !.blocks = Append(@, made)]
  BY DEF PropagateBlock, PropagatedInstructions
<1>2. Propagating(fn, first, s.blocks, m + 1, 0)
  <2>1. IsSequence(<<>>) /\ Len(<<>>) = 0 /\ DOMAIN <<>> = {}
    BY DEF IsSequence
  <2>2. \A k \in 1 .. 0 : FALSE
    OBVIOUS
  <2> QED BY <2>1, <2>2 DEF PropagatedBefore, Propagating
<1>3. ShapedBlock(block) /\ IsSequence(list) /\ DOMAIN list = 1 .. n /\ n \in Nat
  BY ShapedPositions DEF ShapedIr, ShapedBlock
<1> HIDE DEF first
<1>4. PICK v : /\ v[0] = first
               /\ \A k \in 1 .. n : v[k] = PropagateInstruction(v[k - 1], list[k])
               /\ t = v[n]
  <2> HIDE DEF list
  <2> QED BY <1>3, PropagationFolds
<1> HIDE DEF t, n
<1> DEFINE T == {k \in 0 .. n : Propagating(fn, v[k], s.blocks, m + 1, k)}
<1>5. 0 \in T
  BY <1>2, <1>3, <1>4
<1>6. ASSUME NEW k \in 0 .. n - 1, k \in T PROVE k + 1 \in T
  <2>1. k + 1 \in 1 .. n /\ (k + 1) - 1 = k /\ k + 1 \in 0 .. n /\ k \in Nat
    BY <1>3
  <2>2. v[k + 1] = PropagateInstruction(v[k], list[k + 1])
    BY <1>4, <2>1
  <2>3. Propagating(fn, v[k], s.blocks, m + 1, k)
    BY <1>6
  <2>4. k + 1 \in DOMAIN fn.blocks[m + 1].instructions
    BY <1>3, <2>1
  <2>5. Propagating(fn, PropagateInstruction(v[k], fn.blocks[m + 1].instructions[k + 1]), s.blocks, m + 1, k + 1)
    BY <2>1, <2>3, <2>4, PropagatesIntegral
  <2> QED BY <2>1, <2>2, <2>5
<1> HIDE DEF T
<1>7. 0 .. n \subseteq T
  BY <1>3, <1>5, <1>6, IntervalInduction
<1>8. n \in T
  BY <1>3, <1>7
<1>9. Propagating(fn, t, s.blocks, m + 1, n)
  BY <1>4, <1>8 DEF T
<1>10. RewrittenBlock(fn, made, block)
  <2>1. made.instructions = t.instructions /\ made.id = block.id /\ made.terminator = block.terminator
    BY <1>3 DEF ShapedBlock
  <2>2. DOMAIN t.instructions = 1 .. n
    <3>1. IsSequence(t.instructions) /\ Len(t.instructions) = n
      BY <1>9 DEF Propagating
    <3> QED BY <3>1, CodeIsSequence
  <2>3. \A k \in 1 .. n : Replaces(fn, t.instructions[k], block.instructions[k])
    BY <1>9 DEF Propagating
  <2> HIDE DEF made
  <2> QED BY <1>3, <2>1, <2>2, <2>3 DEF RewrittenBlock
<1> HIDE DEF made, block
<1> DEFINE longer == Append(s.blocks, made)
<1>11. IsSequence(s.blocks) /\ Len(s.blocks) = m
       /\ \A b \in 1 .. m : RewrittenBlock(fn, s.blocks[b], fn.blocks[b])
  BY DEF PropagatedBefore
<1>12. /\ IsSequence(longer) /\ DOMAIN longer = 1 .. m + 1
       /\ \A k \in 1 .. m : longer[k] = s.blocks[k]
       /\ longer[m + 1] = made
  BY <1>11, AppendedIsSequence
<1> HIDE DEF longer
<1>13. Len(longer) = m + 1
  <2>1. DOMAIN longer = 1 .. Len(longer) /\ Len(longer) \in Nat
    BY <1>12, CodeIsSequence
  <2> QED BY <1>12, <2>1, SameLength
<1>14. \A b \in 1 .. m + 1 : RewrittenBlock(fn, longer[b], fn.blocks[b])
  <2>1. \A b \in 1 .. m + 1 : b \in 1 .. m \/ b = m + 1
    OBVIOUS
  <2> QED BY <1>10, <1>11, <1>12, <2>1 DEF block
<1>15. t.blocks = s.blocks
  BY <1>9 DEF Propagating
<1>16. PropagatedBefore(fn, [t EXCEPT !.blocks = longer], m + 1)
  BY <1>9, <1>12, <1>13, <1>14 DEF PropagatedBefore, Propagating
<1>17. [t EXCEPT !.blocks = Append(@, made)] = [t EXCEPT !.blocks = longer]
  BY <1>15 DEF longer
<1> QED BY <1>1, <1>16, <1>17 DEF block

LEMMA PropagateConstantsVerified ==
  ASSUME NEW p, Vectored(p), NEW fn, ShapedIr(fn), Verified(p, fn)
  PROVE  Verified(p, PropagateConstants(fn))
<1> DEFINE first == [values |-> <<>>, locals |-> <<>>, instructions |-> <<>>, blocks |-> <<>>]
           list == fn.blocks
           t == PropagatedBlocks(first, list)
           gn == PropagateConstants(fn)
           n == Len(list)
<1>1. gn = [fn EXCEPT !.blocks = t.blocks]
  BY DEF PropagateConstants, PropagatedBlocks
<1>2. Sound(p, fn)
  BY VerifiedIsSound
<1>3. PropagatedBefore(fn, first, 0)
  <2>1. IsSequence(<<>>) /\ Len(<<>>) = 0 /\ DOMAIN <<>> = {}
    BY DEF IsSequence
  <2>2. \A k \in 1 .. 0 : FALSE
    OBVIOUS
  <2> QED BY <2>1, <2>2 DEF PropagatedBefore
<1>4. IsSequence(list) /\ DOMAIN list = 1 .. n /\ n \in Nat
  BY ShapedPositions DEF ShapedIr
<1> HIDE DEF first
<1>5. PICK v : /\ v[0] = first
               /\ \A k \in 1 .. n : v[k] = PropagateBlock(v[k - 1], list[k])
               /\ t = v[n]
  <2> HIDE DEF list
  <2> QED BY <1>4, EpochsFold, ZenonT(30)
<1> HIDE DEF t, n
<1> DEFINE T == {k \in 0 .. n : PropagatedBefore(fn, v[k], k)}
<1>6. 0 \in T
  BY <1>3, <1>4, <1>5
<1>7. ASSUME NEW k \in 0 .. n - 1, k \in T PROVE k + 1 \in T
  <2>1. k + 1 \in 1 .. n /\ (k + 1) - 1 = k /\ k + 1 \in 0 .. n /\ k \in Nat
    BY <1>4
  <2>2. v[k + 1] = PropagateBlock(v[k], list[k + 1])
    BY <1>5, <2>1
  <2>3. PropagatedBefore(fn, v[k], k)
    BY <1>7
  <2>4. k + 1 \in DOMAIN fn.blocks
    BY <1>4, <2>1
  <2>5. PropagatedBefore(fn, PropagateBlock(v[k], fn.blocks[k + 1]), k + 1)
    BY <1>2, <2>1, <2>3, <2>4, PropagatesBlock
  <2> QED BY <2>1, <2>2, <2>5
<1> HIDE DEF T
<1>8. 0 .. n \subseteq T
  BY <1>4, <1>6, <1>7, IntervalInduction
<1>9. n \in T
  BY <1>4, <1>8
<1>10. PropagatedBefore(fn, t, n)
  BY <1>5, <1>9 DEF T
<1>11. /\ gn.parameterTypes = fn.parameterTypes /\ gn.returnType = fn.returnType
       /\ gn.localTypes = fn.localTypes /\ gn.valueTypes = fn.valueTypes /\ gn.blocks = t.blocks
  BY <1>1 DEF ShapedIr
<1>12. ShapedIr(gn)
  BY PropagateConstantsShaped
<1> HIDE DEF gn
<1>13. DOMAIN gn.blocks = DOMAIN fn.blocks
  <2>1. IsSequence(t.blocks) /\ Len(t.blocks) = n
    BY <1>10 DEF PropagatedBefore
  <2>2. DOMAIN t.blocks = 1 .. n
    BY <2>1, CodeIsSequence
  <2> QED BY <1>4, <1>11, <2>2
<1>14. \A b \in DOMAIN fn.blocks : RewrittenBlock(fn, gn.blocks[b], fn.blocks[b])
  BY <1>4, <1>10, <1>11 DEF PropagatedBefore
<1>15. Verified(p, gn)
  BY <1>11, <1>12, <1>13, <1>14, RewrittenIsVerified
<1> QED BY <1>15 DEF gn

-----------------------------------------------------------------------------
(* Simplifying the graph keeps verified IR verified.                       *)

\* A branch that is decided goes to one of the targets it had.
LEMMA DecidedTargets ==
  ASSUME NEW t, NEW facts
  PROVE  LET d == Decide(t, facts)
         IN /\ \/ d = t
               \/ d.kind = "branch" /\ t.kind = "branchIfFalse"
            /\ Targets(d) \subseteq Targets(t)
<1>1. CASE Decide(t, facts) = t
  BY <1>1
<1>2. CASE Decide(t, facts) # t
  <2>1. t.kind = "branchIfFalse"
    BY <1>2 DEF Decide
  <2>2. \E x \in {t.falseTarget, t.trueTarget} : Decide(t, facts) = Branch(x)
    BY <1>2 DEF Decide
  <2>3. PICK x \in {t.falseTarget, t.trueTarget} : Decide(t, facts) = Branch(x)
    BY <2>2
  <2>4. Branch(x).kind = "branch" /\ Branch(x).trueTarget = x
    BY DEF Branch, Terminator
  <2>5. Targets(Branch(x)) = {x}
    BY <2>4 DEF Targets
  <2>6. Targets(t) = {t.falseTarget, t.trueTarget}
    BY <2>1 DEF Targets
  <2> QED BY <2>1, <2>3, <2>4, <2>5, <2>6
<1> QED BY <1>1, <1>2

\* The number of a block among those that stay.
Place(stays, b) ==
  IF b \in ToSet(stays) THEN CHOOSE k \in DOMAIN stays : stays[k] = b ELSE NoBlock

\* A terminator whose targets are numbered anew.
Moved(stays, t) ==
  [t EXCEPT !.trueTarget = Place(stays, @), !.falseTarget = Place(stays, @)]

LEMMA MovedTargets ==
  ASSUME NEW t, ShapedTerminator(t), NEW stays
  PROVE  /\ Moved(stays, t).kind = t.kind /\ Moved(stays, t).value = t.value
         /\ Targets(Moved(stays, t)) = {Place(stays, c) : c \in Targets(t)}
<1> DEFINE u == Moved(stays, t)
<1>1. /\ u.kind = t.kind /\ u.value = t.value
      /\ u.trueTarget = Place(stays, t.trueTarget)
      /\ u.falseTarget = Place(stays, t.falseTarget)
  BY DEF Moved, ShapedTerminator
<1> HIDE DEF u
<1>2. Targets(u) = {Place(stays, c) : c \in Targets(t)}
  <2>1. CASE t.kind = "branch"
    BY <1>1, <2>1 DEF Targets
  <2>2. CASE t.kind = "branchIfFalse"
    BY <1>1, <2>2 DEF Targets
  <2>3. CASE t.kind # "branch" /\ t.kind # "branchIfFalse"
    BY <1>1, <2>3 DEF Targets
  <2> QED BY <2>1, <2>2, <2>3
<1> QED BY <1>1, <1>2 DEF u

\* The blocks whose branches are decided, and those of them that stay.
DecidedBlocks(fn, decided, facts) ==
  /\ IsSequence(decided) /\ DOMAIN decided = DOMAIN fn.blocks
  /\ \A b \in DOMAIN fn.blocks :
       /\ decided[b] = [fn.blocks[b] EXCEPT !.terminator = Decide(@, facts)]
       /\ ShapedBlock(decided[b])

StayingBlocks(gn, decided) ==
  /\ DOMAIN gn.blocks = DOMAIN Remaining(decided)
  /\ \A k \in DOMAIN gn.blocks :
       gn.blocks[k] = [decided[Remaining(decided)[k]] EXCEPT
                         !.id = k, !.terminator = Moved(Remaining(decided), @)]

\* What stays of a verified function is sound.
LEMMA SimplifiedIsSound ==
  ASSUME NEW p, Vectored(p), NEW fn, ShapedIr(fn), Sound(p, fn), NEW facts,
         NEW decided, DecidedBlocks(fn, decided, facts), NEW gn, ShapedIr(gn),
         gn.parameterTypes = fn.parameterTypes, gn.returnType = fn.returnType,
         gn.localTypes = fn.localTypes, gn.valueTypes = fn.valueTypes,
         StayingBlocks(gn, decided)
  PROVE  Sound(p, gn)
<1> DEFINE stays == Remaining(decided)
           R == ReachableBlocks(decided)
           size == Len(decided)
           D(b) == Targets(decided[b].terminator)
<1>1. /\ DOMAIN fn.blocks = 1 .. size /\ DOMAIN decided = 1 .. size /\ size \in Nat
      /\ fn.blocks # <<>> /\ Len(fn.blocks) \in Nat /\ DOMAIN fn.blocks = 1 .. Len(fn.blocks)
  BY CodeIsSequence, ShapedPositions DEF Sound, LayoutIsValid, DecidedBlocks
<1>2. size # 0
  <2>1. Len(fn.blocks) # 0
    BY <1>1 DEF ShapedIr, IsSequence
  <2>2. size = Len(fn.blocks)
    <3> HIDE DEF size
    <3> QED BY <1>1, SameLength
  <2> QED BY <2>1, <2>2
<1>3. \A b \in DOMAIN fn.blocks :
        /\ decided[b].instructions = fn.blocks[b].instructions
        /\ decided[b].terminator = Decide(fn.blocks[b].terminator, facts)
        /\ ShapedTerminator(decided[b].terminator)
        /\ {"id", "instructions", "terminator"} \subseteq DOMAIN decided[b]
  BY DEF ShapedIr, ShapedBlock, DecidedBlocks
<1>4. \A b \in DOMAIN fn.blocks :
        /\ \/ decided[b].terminator = fn.blocks[b].terminator
           \/ decided[b].terminator.kind = "branch" /\ fn.blocks[b].terminator.kind = "branchIfFalse"
        /\ D(b) \subseteq Targets(fn.blocks[b].terminator)
        /\ D(b) \subseteq DOMAIN fn.blocks
  <2>1. \A b \in DOMAIN fn.blocks : Targets(fn.blocks[b].terminator) \subseteq DOMAIN fn.blocks
    BY ValidTargets DEF Sound
  <2> QED BY <1>3, <2>1, DecidedTargets
<1> HIDE DEF size, D
<1>5. /\ 1 \in R /\ R \subseteq 1 .. size
      /\ \A b \in R : D(b) \subseteq R
  <2>1. DOMAIN decided = 1 .. Len(decided) /\ Len(decided) \in Nat \ {0}
    BY <1>1, <1>2 DEF size
  <2>2. \A b \in DOMAIN decided \cap DOMAIN decided : Targets(decided[b].terminator) \subseteq DOMAIN decided
    BY <1>1, <1>4 DEF D
  <2>3. /\ 1 \in Entered(decided, DOMAIN decided)
        /\ Entered(decided, DOMAIN decided) \subseteq DOMAIN decided
        /\ \A b \in Entered(decided, DOMAIN decided) \cap DOMAIN decided :
             Targets(decided[b].terminator) \subseteq Entered(decided, DOMAIN decided)
    BY <2>1, <2>2, EnteredClosed
  <2> QED BY <1>1, <2>3 DEF ReachableBlocks, D
<1>6. Ascending(stays, R)
  <2>1. Ascending(InOrder(R, size), R \cap (1 .. size))
    <3> HIDE DEF R
    <3> QED BY <1>1, InOrderAscends
  <2>2. R \cap (1 .. size) = R
    BY <1>5
  <2> QED BY <2>1, <2>2 DEF Remaining, size
<1> HIDE DEF stays, R
<1>7. /\ IsSequence(stays) /\ DOMAIN stays = 1 .. Len(stays) /\ Len(stays) \in Nat
      /\ \A k \in DOMAIN stays : stays[k] \in R /\ stays[k] \in DOMAIN fn.blocks
      /\ \A x \in R : \E k \in DOMAIN stays : stays[k] = x
      /\ \A k, l \in DOMAIN stays : k < l => stays[k] < stays[l]
  BY <1>1, <1>5, <1>6, CodeIsSequence DEF Ascending
<1>8. \A k, l \in DOMAIN stays : stays[k] = stays[l] => k = l
  <2> SUFFICES ASSUME NEW k \in DOMAIN stays, NEW l \in DOMAIN stays, stays[k] = stays[l]
               PROVE  k = l
    OBVIOUS
  <2>1. k \in Nat /\ l \in Nat /\ stays[k] \in Nat
    BY <1>1, <1>7
  <2>2. ~(k < l) /\ ~(l < k)
    BY <1>7, <2>1
  <2> QED BY <2>1, <2>2
<1>9. 1 \in DOMAIN stays /\ stays[1] = 1
  <2>1. PICK k \in DOMAIN stays : stays[k] = 1
    BY <1>5, <1>7
  <2>2. k \in 1 .. Len(stays) /\ 1 \in DOMAIN stays
    BY <1>7, <2>1
  <2>3. stays[1] \in 1 .. size
    BY <1>5, <1>7, <2>2
  <2>4. ~(1 < k)
    BY <1>1, <1>7, <2>1, <2>2, <2>3
  <2> QED BY <2>1, <2>2, <2>4
<1>10. \A c \in R : Place(stays, c) \in DOMAIN stays /\ stays[Place(stays, c)] = c
  <2> SUFFICES ASSUME NEW c \in R PROVE Place(stays, c) \in DOMAIN stays /\ stays[Place(stays, c)] = c
    OBVIOUS
  <2>1. \E k \in DOMAIN stays : stays[k] = c
    BY <1>7
  <2>2. c \in ToSet(stays)
    BY <2>1 DEF ToSet
  <2> QED BY <2>1, <2>2 DEF Place
<1>11. DOMAIN gn.blocks = DOMAIN stays
       /\ \A k \in DOMAIN stays :
            gn.blocks[k] = [decided[stays[k]] EXCEPT !.id = k, !.terminator = Moved(stays, @)]
  BY DEF stays, StayingBlocks
<1>21. DOMAIN gn.blocks = DOMAIN stays
  BY <1>11
<1>12. \A k \in DOMAIN stays :
         /\ gn.blocks[k].id = k
         /\ gn.blocks[k].instructions = fn.blocks[stays[k]].instructions
         /\ gn.blocks[k].terminator = Moved(stays, decided[stays[k]].terminator)
  <2> SUFFICES ASSUME NEW k \in DOMAIN stays
               PROVE  /\ gn.blocks[k].id = k
                      /\ gn.blocks[k].instructions = fn.blocks[stays[k]].instructions
                      /\ gn.blocks[k].terminator = Moved(stays, decided[stays[k]].terminator)
    OBVIOUS
  <2>1. stays[k] \in DOMAIN fn.blocks
    BY <1>7
  <2>2. /\ decided[stays[k]].instructions = fn.blocks[stays[k]].instructions
        /\ {"id", "instructions", "terminator"} \subseteq DOMAIN decided[stays[k]]
    BY <1>3, <2>1
  <2>3. gn.blocks[k] = [decided[stays[k]] EXCEPT !.id = k, !.terminator = Moved(stays, @)]
    BY <1>11
  <2> QED BY <2>2, <2>3
<1>13. \A k \in DOMAIN stays :
         /\ gn.blocks[k].terminator.kind = decided[stays[k]].terminator.kind
         /\ gn.blocks[k].terminator.value = decided[stays[k]].terminator.value
         /\ Targets(gn.blocks[k].terminator) = {Place(stays, c) : c \in D(stays[k])}
  BY <1>3, <1>7, <1>12, MovedTargets DEF D
<1>14. \A k \in DOMAIN stays : D(stays[k]) \subseteq R
  BY <1>5, <1>7
<1>15. \A k \in DOMAIN stays :
         /\ Targets(gn.blocks[k].terminator) \subseteq DOMAIN stays
         /\ \A c \in Targets(gn.blocks[k].terminator) : stays[c] \in D(stays[k])
  BY <1>10, <1>13, <1>14
<1>16. ReachableBlocks(gn.blocks) = DOMAIN gn.blocks
  <2> DEFINE E == Entered(gn.blocks, DOMAIN gn.blocks)
             S == {stays[k] : k \in E}
  <2>1. gn.blocks # <<>>
    BY <1>9, <1>21
  <2>2. /\ 1 \in E /\ E \subseteq DOMAIN gn.blocks
        /\ \A k \in E \cap DOMAIN gn.blocks : Targets(gn.blocks[k].terminator) \subseteq E
    BY <1>21, <1>15, <2>1, EnteredFacts
  <2> HIDE DEF E
  <2>3. 1 \in S
    BY <1>9, <2>2
  <2>4. ASSUME NEW b \in S PROVE D(b) \subseteq S
    <3>1. PICK k \in E : b = stays[k]
      OBVIOUS
    <3>2. k \in DOMAIN stays /\ Targets(gn.blocks[k].terminator) \subseteq E
      BY <1>21, <2>2, <3>1
    <3>3. ASSUME NEW c \in D(b) PROVE c \in S
      <4>1. Place(stays, c) \in E
        BY <1>13, <3>1, <3>2
      <4>2. stays[Place(stays, c)] = c
        BY <1>10, <1>14, <3>1, <3>2
      <4> QED BY <4>1, <4>2
    <3> QED BY <3>3
  <2> HIDE DEF S
  <2>5. R \subseteq S
    <3>1. \A b \in S \cap DOMAIN decided : Targets(decided[b].terminator) \subseteq S
      BY <2>4 DEF D
    <3>2. Len(decided) \in Nat
      BY <1>1 DEF size
    <3> QED BY <2>3, <3>1, <3>2, EnteredLeast DEF R, ReachableBlocks
  <2>6. DOMAIN gn.blocks \subseteq E
    <3> SUFFICES ASSUME NEW k \in DOMAIN stays PROVE k \in E
      BY <1>21
    <3>1. stays[k] \in S
      BY <1>7, <2>5
    <3>2. PICK l \in E : stays[k] = stays[l]
      BY <3>1 DEF S
    <3>3. l \in DOMAIN stays
      BY <1>21, <2>2
    <3> QED BY <1>8, <3>2, <3>3
  <2> QED BY <2>2, <2>6 DEF E, ReachableBlocks
<1> DEFINE at == [k \in DOMAIN stays |-> [n \in DOMAIN fn.blocks[stays[k]].instructions |-> n]]
<1>17. \A k \in DOMAIN stays : \A n \in DOMAIN fn.blocks[stays[k]].instructions : at[k][n] = n
  OBVIOUS
<1> HIDE DEF at
<1>18. Derived(gn, fn, stays, at)
  <2>1. gn.blocks # <<>> /\ stays[1] = 1
    BY <1>9, <1>21
  <2>2. \A b \in DOMAIN gn.blocks : gn.blocks[b].id = b /\ stays[b] \in DOMAIN fn.blocks
    BY <1>7, <1>21, <1>12
  <2>3. \A b, c \in DOMAIN gn.blocks : stays[b] = stays[c] => b = c
    BY <1>8, <1>21
  <2>4. ASSUME NEW b \in DOMAIN gn.blocks
        PROVE  /\ \A n \in DOMAIN gn.blocks[b].instructions :
                    /\ at[b][n] \in DOMAIN fn.blocks[stays[b]].instructions
                    /\ Replaces(fn, gn.blocks[b].instructions[n], fn.blocks[stays[b]].instructions[at[b][n]])
               /\ \A n, m \in DOMAIN gn.blocks[b].instructions : n < m => at[b][n] < at[b][m]
    <3>1. /\ b \in DOMAIN stays
          /\ gn.blocks[b].instructions = fn.blocks[stays[b]].instructions
          /\ \A n \in DOMAIN fn.blocks[stays[b]].instructions : at[b][n] = n
      BY <1>12, <1>17, <1>21
    <3>2. \A i : Replaces(fn, i, i)
      BY DEF Replaces
    <3> QED BY <3>1, <3>2
  <2> QED BY <2>1, <2>2, <2>3, <2>4 DEF Derived
<1>19. Remains(gn, fn, stays, at)
  <2>1. ASSUME NEW b \in DOMAIN gn.blocks, NEW m \in DOMAIN fn.blocks[stays[b]].instructions
        PROVE  \E n \in DOMAIN gn.blocks[b].instructions : at[b][n] = m
    BY <1>21, <1>12, <1>17
  <2> QED BY <2>1 DEF Remains
<1>20. Connected(gn, fn, stays)
  <2>1. ASSUME NEW b \in DOMAIN gn.blocks
        PROVE  LET t == gn.blocks[b].terminator
                   s == fn.blocks[stays[b]].terminator
               IN /\ \/ t.kind = s.kind /\ t.value = s.value
                     \/ t.kind = "branch" /\ s.kind = "branchIfFalse"
                  /\ Targets(t) \subseteq DOMAIN gn.blocks
                  /\ \A c \in Targets(t) : stays[c] \in Targets(s)
    <3>1. b \in DOMAIN stays /\ stays[b] \in DOMAIN fn.blocks
      BY <1>7, <1>21
    <3>2. /\ gn.blocks[b].terminator.kind = decided[stays[b]].terminator.kind
          /\ gn.blocks[b].terminator.value = decided[stays[b]].terminator.value
      BY <1>13, <3>1
    <3>3. /\ \/ decided[stays[b]].terminator = fn.blocks[stays[b]].terminator
             \/ /\ decided[stays[b]].terminator.kind = "branch"
                /\ fn.blocks[stays[b]].terminator.kind = "branchIfFalse"
          /\ D(stays[b]) \subseteq Targets(fn.blocks[stays[b]].terminator)
      BY <1>4, <3>1
    <3> QED BY <1>21, <1>15, <3>1, <3>2, <3>3
  <2> QED BY <1>16, <2>1 DEF Connected
<1> QED BY <1>18, <1>19, <1>20, DerivedIsSound

LEMMA SimplifyCfgVerified ==
  ASSUME NEW p, Vectored(p), NEW fn, ShapedIr(fn), Verified(p, fn)
  PROVE  Verified(p, SimplifyCfg(fn))
<1> DEFINE facts == ConstantFacts(fn)
           decided == [b \in DOMAIN fn.blocks |->
                         [fn.blocks[b] EXCEPT !.terminator = Decide(@, facts)]]
           stays == Remaining(decided)
           blocks == [k \in DOMAIN stays |->
                        [decided[stays[k]] EXCEPT !.id = k, !.terminator = Moved(stays, @)]]
           gn == [fn EXCEPT !.blocks = blocks]
<1>1. SimplifyCfg(fn) = CompactValues(gn)
  BY DEF SimplifyCfg, Moved, Place
<1> HIDE DEF facts
<1>2. DOMAIN fn.blocks = 1 .. Len(fn.blocks) /\ Len(fn.blocks) \in Nat
  BY CodeIsSequence DEF ShapedIr
<1>3. ASSUME NEW b \in DOMAIN fn.blocks PROVE ShapedBlock(decided[b])
  <2>1. ShapedBlock(fn.blocks[b])
    BY DEF ShapedIr
  <2>2. ShapedTerminator(Decide(fn.blocks[b].terminator, facts))
    BY <2>1, TerminatorShapes DEF Decide, ShapedBlock
  <2> QED BY <2>1, <2>2 DEF ShapedBlock
<1>4. IsSequence(decided) /\ DOMAIN decided = DOMAIN fn.blocks
  <2>1. decided = [b \in 1 .. Len(fn.blocks) |-> decided[b]]
    BY <1>2
  <2> HIDE DEF decided
  <2> QED BY <1>2, <2>1, FunctionIsSequence
<1>5. DecidedBlocks(fn, decided, facts)
  <2>1. \A b \in DOMAIN fn.blocks : decided[b] = [fn.blocks[b] EXCEPT !.terminator = Decide(@, facts)]
    OBVIOUS
  <2> HIDE DEF decided
  <2> QED BY <1>3, <1>4, <2>1 DEF DecidedBlocks
<1> HIDE DEF decided
<1>6. IsSequence(stays) /\ \A k \in DOMAIN stays : stays[k] \in DOMAIN fn.blocks
  <2>1. DOMAIN decided = 1 .. Len(decided) /\ Len(decided) \in Nat
    BY <1>4, CodeIsSequence
  <2> QED BY <1>4, <2>1, InOrderIsSequence DEF Remaining
<1>7. \A t : ShapedTerminator(t) => ShapedTerminator(Moved(stays, t))
  BY DEF ShapedTerminator, Moved
<1>8. DOMAIN blocks = DOMAIN stays
      /\ \A k \in DOMAIN stays :
           blocks[k] = [decided[stays[k]] EXCEPT !.id = k, !.terminator = Moved(stays, @)]
  OBVIOUS
<1>9. IsSequence(blocks)
  <2>1. DOMAIN stays = 1 .. Len(stays) /\ Len(stays) \in Nat
    BY <1>6, CodeIsSequence
  <2>2. blocks = [k \in 1 .. Len(stays) |-> blocks[k]]
    BY <2>1
  <2> HIDE DEF blocks
  <2> QED BY <2>1, <2>2, FunctionIsSequence
<1> HIDE DEF blocks, stays
<1>10. ASSUME NEW k \in DOMAIN blocks PROVE ShapedBlock(blocks[k])
  <2>1. ShapedBlock(decided[stays[k]])
    BY <1>3, <1>6, <1>8
  <2>2. blocks[k] = [decided[stays[k]] EXCEPT !.id = k, !.terminator = Moved(stays, @)]
    BY <1>8
  <2> QED BY <1>7, <2>1, <2>2 DEF ShapedBlock
<1>11. ShapedIr(gn)
  BY <1>9, <1>10 DEF ShapedIr
<1>12. /\ gn.parameterTypes = fn.parameterTypes /\ gn.returnType = fn.returnType
       /\ gn.localTypes = fn.localTypes /\ gn.valueTypes = fn.valueTypes /\ gn.blocks = blocks
  BY DEF ShapedIr
<1>13. StayingBlocks(gn, decided)
  <2> HIDE DEF gn
  <2> QED BY <1>8, <1>12 DEF StayingBlocks, stays
<1>14. Sound(p, fn)
  BY VerifiedIsSound
<1> HIDE DEF gn
<1>15. Sound(p, gn)
  BY <1>5, <1>11, <1>12, <1>13, <1>14, SimplifiedIsSound
<1>16. Verified(p, CompactValues(gn))
  BY <1>11, <1>15, CompactedIsVerified
<1> QED BY <1>1, <1>16

-----------------------------------------------------------------------------
(* Eliminating dead code keeps verified IR verified.                       *)

\* Value v is wanted at position e: at the end of a block, or by an instruction
\* that is kept.
WantedAt(size, last, s, a, v, e) ==
  \/ e = size + 1 /\ v \in last
  \/ \E k \in 1 .. Len(s.kept) : e = a[k] /\ v \in ToSet(s.kept[k].uses)

\* What has been kept of the instructions of c after the first low ones, which
\* were at the positions a: what has an effect, and what defines a value that is
\* wanted later.  A wanted value is live until its definition is met.
Needing(c, last, s, a, low) ==
  /\ {"live", "kept"} \subseteq DOMAIN s /\ IsSequence(s.kept)
  /\ \A k \in 1 .. Len(s.kept) : a[k] \in low + 1 .. Len(c) /\ s.kept[k] = c[a[k]]
  /\ \A k, l \in 1 .. Len(s.kept) : k < l => a[k] < a[l]
  /\ \A m \in low + 1 .. Len(c) : ~IsPure(c[m]) => \E k \in 1 .. Len(s.kept) : a[k] = m
  /\ \A v, e : v # NoValue /\ WantedAt(Len(c), last, s, a, v, e) =>
       /\ v \in s.live \/ \E m \in low + 1 .. Len(c) : c[m].result = v
       /\ \A m \in low + 1 .. Len(c) :
            c[m].result = v /\ m < e => \E k \in 1 .. Len(s.kept) : a[k] = m

\* No two instructions of c define the same value.
Distinct(c) ==
  \A k, l \in DOMAIN c : c[k].result # NoValue /\ c[k].result = c[l].result => k = l

\* An instruction that is not kept has no effect, and nothing wants its result.
LEMMA SkippedUnneeded ==
  ASSUME NEW c, IsSequence(c), Distinct(c), NEW last, NEW s, NEW a,
         NEW low \in 1 .. Len(c), Needing(c, last, s, a, low),
         IsPure(c[low]), c[low].result \notin s.live
  PROVE  Needing(c, last, s, a, low - 1)
<1>1. DOMAIN c = 1 .. Len(c) /\ Len(c) \in Nat
  BY CodeIsSequence
<1>2. \A m \in (low - 1) + 1 .. Len(c) : m = low \/ m \in low + 1 .. Len(c)
  BY <1>1
<1>3. \A m \in low + 1 .. Len(c) : m \in (low - 1) + 1 .. Len(c) /\ m # low /\ m \in DOMAIN c
  BY <1>1
<1> DEFINE n == Len(c)
           count == Len(s.kept)
<1>4. \A k \in 1 .. count : a[k] \in low + 1 .. n /\ s.kept[k] = c[a[k]]
  BY DEF Needing
<1>5. \A k \in 1 .. count : a[k] \in (low - 1) + 1 .. n /\ s.kept[k] = c[a[k]]
  BY <1>3, <1>4
<1>6. \A m \in (low - 1) + 1 .. n : ~IsPure(c[m]) => \E k \in 1 .. count : a[k] = m
  BY <1>2 DEF Needing
<1>7. ASSUME NEW v, NEW e, v # NoValue, WantedAt(n, last, s, a, v, e)
      PROVE  /\ v \in s.live \/ \E m \in (low - 1) + 1 .. n : c[m].result = v
             /\ \A m \in (low - 1) + 1 .. n :
                  c[m].result = v /\ m < e => \E k \in 1 .. count : a[k] = m
  <2>1. /\ v \in s.live \/ \E m \in low + 1 .. n : c[m].result = v
        /\ \A m \in low + 1 .. n : c[m].result = v /\ m < e => \E k \in 1 .. count : a[k] = m
    BY <1>7 DEF Needing
  <2>2. c[low].result # v
    <3>1. \A m \in low + 1 .. n : c[m].result = v => c[low].result # v
      BY <1>1, <1>3, <1>7 DEF Distinct
    <3> QED BY <2>1, <3>1
  <2>3. v \in s.live \/ \E m \in (low - 1) + 1 .. n : c[m].result = v
    BY <1>3, <2>1
  <2>4. \A m \in (low - 1) + 1 .. n : c[m].result = v => m \in low + 1 .. n
    BY <1>2, <2>2
  <2> QED BY <2>1, <2>3, <2>4
<1>8. /\ {"live", "kept"} \subseteq DOMAIN s /\ IsSequence(s.kept)
      /\ \A k, l \in 1 .. count : k < l => a[k] < a[l]
  BY DEF Needing
<1> HIDE DEF n, count
<1> QED BY <1>5, <1>6, <1>7, <1>8 DEF Needing, n, count

\* An instruction that is kept wants what it uses.
LEMMA KeptNeeded ==
  ASSUME NEW c, IsSequence(c), NEW last, NEW s, NEW a,
         NEW low \in 1 .. Len(c), Needing(c, last, s, a, low),
         NEW t, t = [live |-> (s.live \ {c[low].result}) \cup ToSet(c[low].uses),
                     kept |-> <<c[low]>> \o s.kept]
  PROVE  \E d : Needing(c, last, t, d, low - 1)
<1> DEFINE n == Len(c)
           count == Len(s.kept)
           i == c[low]
           d == [k \in 1 .. count + 1 |-> IF k = 1 THEN low ELSE a[k - 1]]
<1>1. DOMAIN c = 1 .. n /\ n \in Nat
  BY CodeIsSequence
<1>2. IsSequence(s.kept) /\ count \in Nat
  BY CodeIsSequence DEF Needing
<1>3. /\ IsSequence(t.kept) /\ Len(t.kept) = count + 1
      /\ t.kept[1] = i /\ \A k \in 1 .. count : t.kept[k + 1] = s.kept[k]
  <2>1. IsSequence(<<i>>) /\ Len(<<i>>) = 1 /\ <<i>>[1] = i
    BY DEF IsSequence
  <2> DEFINE longer == <<i>> \o s.kept
  <2>2. /\ IsSequence(longer) /\ DOMAIN longer = 1 .. Len(<<i>>) + Len(s.kept)
        /\ \A k \in 1 .. Len(<<i>>) : longer[k] = <<i>>[k]
        /\ \A k \in 1 .. Len(s.kept) : longer[Len(<<i>>) + k] = s.kept[k]
    BY <1>2, <2>1, Joined
  <2>3. t.kept = longer
    OBVIOUS
  <2> HIDE DEF longer, i
  <2>4. DOMAIN longer = 1 .. count + 1 /\ count + 1 \in Nat
    BY <1>2, <2>1, <2>2
  <2>5. DOMAIN longer = 1 .. Len(longer) /\ Len(longer) \in Nat
    BY <2>2, CodeIsSequence
  <2>6. Len(longer) = count + 1
    <3> HIDE DEF count
    <3> QED BY <2>4, <2>5, SameLength
  <2>7. 1 \in 1 .. Len(<<i>>)
    BY <2>1
  <2>8. longer[1] = i
    BY <2>1, <2>2, <2>7
  <2>9. \A k \in 1 .. count : 1 + k = k + 1
    BY <1>2
  <2>10. \A k \in 1 .. count : longer[k + 1] = s.kept[k]
    BY <2>1, <2>2, <2>9
  <2> QED BY <2>2, <2>3, <2>6, <2>8, <2>10
<1>4. t.live = (s.live \ {i.result}) \cup ToSet(i.uses) /\ {"live", "kept"} \subseteq DOMAIN t
  OBVIOUS
<1>5. d[1] = low /\ \A k \in 1 .. count : d[k + 1] = a[k]
  <2>1. 1 \in 1 .. count + 1
    BY <1>2
  <2>2. \A k \in 1 .. count : k + 1 \in 1 .. count + 1 /\ k + 1 # 1 /\ (k + 1) - 1 = k
    BY <1>2
  <2> QED BY <2>1, <2>2
<1> HIDE DEF d, i
<1>6. \A k \in 1 .. count + 1 : k = 1 \/ (k - 1 \in 1 .. count /\ k = (k - 1) + 1)
  BY <1>2
<1>7. /\ \A k \in 1 .. count : a[k] \in low + 1 .. n /\ s.kept[k] = c[a[k]]
      /\ \A k, l \in 1 .. count : k < l => a[k] < a[l]
      /\ \A m \in low + 1 .. n : ~IsPure(c[m]) => \E k \in 1 .. count : a[k] = m
  BY DEF Needing
<1> HIDE DEF n, count
<1>8. ASSUME NEW m \in (low - 1) + 1 .. n PROVE m = low \/ m \in low + 1 .. n
  BY <1>1
<1>9. low \in (low - 1) + 1 .. n /\ \A m \in low + 1 .. n : m \in (low - 1) + 1 .. n
  BY <1>1 DEF n
<1>10. \A k \in 1 .. count + 1 : d[k] \in (low - 1) + 1 .. n /\ t.kept[k] = c[d[k]]
  <2> SUFFICES ASSUME NEW k \in 1 .. count + 1 PROVE d[k] \in (low - 1) + 1 .. n /\ t.kept[k] = c[d[k]]
    OBVIOUS
  <2>1. CASE k = 1
    BY <1>3, <1>5, <1>9, <2>1 DEF i
  <2>2. CASE k # 1
    <3> DEFINE j == k - 1
    <3>1. j \in 1 .. count /\ k = j + 1
      BY <1>6, <2>2
    <3> HIDE DEF j
    <3>2. d[k] = a[j] /\ t.kept[k] = s.kept[j]
      BY <1>3, <1>5, <3>1
    <3> QED BY <1>7, <1>9, <3>1, <3>2
  <2> QED BY <2>1, <2>2
<1>11. \A k, l \in 1 .. count + 1 : k < l => d[k] < d[l]
  <2> SUFFICES ASSUME NEW k \in 1 .. count + 1, NEW l \in 1 .. count + 1, k < l PROVE d[k] < d[l]
    OBVIOUS
  <2> DEFINE j == l - 1
  <2>1. j \in 1 .. count /\ l = j + 1
    BY <1>2, <1>6
  <2> HIDE DEF j
  <2>2. d[l] = a[j] /\ a[j] \in low + 1 .. n
    BY <1>5, <1>7, <2>1
  <2>3. CASE k = 1
    <3>1. d[k] = low
      BY <1>5, <2>3
    <3> QED BY <1>1, <2>2, <3>1 DEF n
  <2>4. CASE k # 1
    <3> DEFINE h == k - 1
    <3>1. h \in 1 .. count /\ k = h + 1
      BY <1>6, <2>4
    <3> HIDE DEF h
    <3>2. h < j
      BY <1>2, <2>1, <3>1
    <3>3. d[k] = a[h]
      BY <1>5, <3>1
    <3> QED BY <1>7, <2>1, <2>2, <3>1, <3>2, <3>3
  <2> QED BY <2>3, <2>4
<1>12. \A m \in low + 1 .. n : (\E k \in 1 .. count : a[k] = m) => \E k \in 1 .. count + 1 : d[k] = m
  <2> SUFFICES ASSUME NEW m, NEW k \in 1 .. count, a[k] = m PROVE \E l \in 1 .. count + 1 : d[l] = m
    OBVIOUS
  <2>1. k + 1 \in 1 .. count + 1
    BY <1>2
  <2> QED BY <1>5, <2>1
<1>13. \E k \in 1 .. count + 1 : d[k] = low
  <2>1. 1 \in 1 .. count + 1
    BY <1>2
  <2> QED BY <1>5, <2>1
<1>14. \A m \in (low - 1) + 1 .. n : ~IsPure(c[m]) => \E k \in 1 .. count + 1 : d[k] = m
  BY <1>7, <1>8, <1>12, <1>13
<1>15. ASSUME NEW v, NEW e, v # NoValue, WantedAt(n, last, t, d, v, e)
       PROVE  /\ v \in t.live \/ \E m \in (low - 1) + 1 .. n : c[m].result = v
              /\ \A m \in (low - 1) + 1 .. n :
                   c[m].result = v /\ m < e => \E k \in 1 .. count + 1 : d[k] = m
  <2>1. CASE WantedAt(n, last, s, a, v, e)
    <3>1. /\ v \in s.live \/ \E m \in low + 1 .. n : c[m].result = v
          /\ \A m \in low + 1 .. n : c[m].result = v /\ m < e => \E k \in 1 .. count : a[k] = m
      BY <1>15, <2>1 DEF Needing, n, count
    <3>2. v \in s.live => v \in t.live \/ c[low].result = v
      BY <1>4 DEF i
    <3>3. v \in t.live \/ \E m \in (low - 1) + 1 .. n : c[m].result = v
      BY <1>9, <3>1, <3>2
    <3>4. \A m \in (low - 1) + 1 .. n : c[m].result = v /\ m < e => \E k \in 1 .. count + 1 : d[k] = m
      BY <1>8, <1>12, <1>13, <3>1
    <3> QED BY <3>3, <3>4
  <2>2. CASE ~WantedAt(n, last, s, a, v, e)
    <3>1. PICK k \in 1 .. count + 1 : e = d[k] /\ v \in ToSet(t.kept[k].uses)
      BY <1>3, <1>15, <2>2 DEF WantedAt
    <3>2. k = 1
      <4> SUFFICES ASSUME k # 1 PROVE FALSE
        OBVIOUS
      <4> DEFINE j == k - 1
      <4>1. j \in 1 .. count /\ k = j + 1
        BY <1>6
      <4> HIDE DEF j
      <4>2. e = a[j] /\ v \in ToSet(s.kept[j].uses)
        BY <1>3, <1>5, <3>1, <4>1
      <4> QED BY <2>2, <4>1, <4>2 DEF WantedAt, count
    <3>3. e = low /\ v \in ToSet(i.uses)
      BY <1>3, <1>5, <3>1, <3>2
    <3>4. v \in t.live
      BY <1>4, <3>3
    <3>5. \A m \in (low - 1) + 1 .. n : ~(m < e)
      BY <1>1, <3>3
    <3> QED BY <3>4, <3>5
  <2> QED BY <2>1, <2>2
<1>16. Needing(c, last, t, d, low - 1)
  <2>1. n = Len(c) /\ count + 1 = Len(t.kept)
    BY <1>3 DEF n
  <2>2. /\ {"live", "kept"} \subseteq DOMAIN t /\ IsSequence(t.kept)
        /\ \A k \in 1 .. Len(t.kept) : d[k] \in (low - 1) + 1 .. Len(c) /\ t.kept[k] = c[d[k]]
        /\ \A k, l \in 1 .. Len(t.kept) : k < l => d[k] < d[l]
    BY <1>3, <1>4, <1>10, <1>11, <2>1
  <2>3. \A m \in (low - 1) + 1 .. Len(c) : ~IsPure(c[m]) => \E k \in 1 .. Len(t.kept) : d[k] = m
    BY <1>14, <2>1
  <2>4. ASSUME NEW v, NEW e, v # NoValue, WantedAt(Len(c), last, t, d, v, e)
        PROVE  /\ v \in t.live \/ \E m \in (low - 1) + 1 .. Len(c) : c[m].result = v
               /\ \A m \in (low - 1) + 1 .. Len(c) :
                    c[m].result = v /\ m < e => \E k \in 1 .. Len(t.kept) : d[k] = m
    BY <1>15, <2>1, <2>4
  <2>5. \A v, e : v # NoValue /\ WantedAt(Len(c), last, t, d, v, e) =>
          /\ v \in t.live \/ \E m \in (low - 1) + 1 .. Len(c) : c[m].result = v
          /\ \A m \in (low - 1) + 1 .. Len(c) :
               c[m].result = v /\ m < e => \E k \in 1 .. Len(t.kept) : d[k] = m
    BY <2>4
  <2> DEFINE Goal == Needing(c, last, t, d, low - 1)
  <2>6. Goal <=>
        /\ {"live", "kept"} \subseteq DOMAIN t /\ IsSequence(t.kept)
        /\ \A k \in 1 .. Len(t.kept) : d[k] \in (low - 1) + 1 .. Len(c) /\ t.kept[k] = c[d[k]]
        /\ \A k, l \in 1 .. Len(t.kept) : k < l => d[k] < d[l]
        /\ \A m \in (low - 1) + 1 .. Len(c) : ~IsPure(c[m]) => \E k \in 1 .. Len(t.kept) : d[k] = m
        /\ \A v, e : v # NoValue /\ WantedAt(Len(c), last, t, d, v, e) =>
              /\ v \in t.live \/ \E m \in (low - 1) + 1 .. Len(c) : c[m].result = v
              /\ \A m \in (low - 1) + 1 .. Len(c) :
                   c[m].result = v /\ m < e => \E k \in 1 .. Len(t.kept) : d[k] = m
    BY DEF Needing
  <2> HIDE DEF Goal
  <2>7. Goal
    BY <2>2, <2>3, <2>5, <2>6
  <2> QED BY <2>7 DEF Goal
<1> QED BY <1>16

\* So one step backwards keeps what is needed.
LEMMA StepNeeds ==
  ASSUME NEW c, IsSequence(c), Distinct(c), NEW last, NEW s, NEW low \in 1 .. Len(c),
         \E a : Needing(c, last, s, a, low)
  PROVE  \E d : Needing(c, last, KeepIfNeeded(s, c[low]), d, low - 1)
<1>1. PICK a : Needing(c, last, s, a, low)
  OBVIOUS
<1>2. CASE IsPure(c[low]) /\ c[low].result \notin s.live
  <2>1. Needing(c, last, s, a, low - 1)
    BY <1>1, <1>2, SkippedUnneeded
  <2>2. KeepIfNeeded(s, c[low]) = s
    BY <1>2 DEF KeepIfNeeded
  <2> QED BY <2>1, <2>2
<1>3. CASE ~(IsPure(c[low]) /\ c[low].result \notin s.live)
  <2> DEFINE t == KeepIfNeeded(s, c[low])
  <2>1. t = [live |-> (s.live \ {c[low].result}) \cup ToSet(c[low].uses),
             kept |-> <<c[low]>> \o s.kept]
    BY <1>3 DEF KeepIfNeeded
  <2> HIDE DEF t
  <2>2. \E d : Needing(c, last, t, d, low - 1)
    BY <1>1, <2>1, KeptNeeded
  <2> QED BY <2>2 DEF t
<1> QED BY <1>2, <1>3

\* What is needed at the end of a block of a terminator that wants last.
AtEnd(last) == [live |-> last, kept |-> <<>>]

LEMMA BlockNeeds ==
  ASSUME NEW c, IsSequence(c), Distinct(c), NEW last
  PROVE  \E a : Needing(c, last, NeededInstructions(AtEnd(last), Reverse(c)), a, 0)
<1> DEFINE base == AtEnd(last)
           backwards == Reverse(c)
           s == NeededInstructions(base, backwards)
<1>1. DOMAIN c = 1 .. Len(c) /\ Len(c) \in Nat
  BY CodeIsSequence
<1>2. /\ backwards = [n \in 1 .. Len(c) |-> backwards[n]]
      /\ \A n \in 1 .. Len(c) : backwards[n] = c[Len(c) - n + 1]
  BY DEF Reverse
<1>3. {"live", "kept"} \subseteq DOMAIN base /\ base.live = last /\ IsSequence(base.kept) /\ Len(base.kept) = 0
  BY EmptyList DEF AtEnd, ShapedList
<1> HIDE DEF base, backwards
<1>4. Needing(c, last, base, <<>>, Len(c))
  <2>1. \A k : k \notin Len(c) + 1 .. Len(c)
    BY <1>1
  <2>2. \A k : k \notin 1 .. Len(base.kept)
    BY <1>3
  <2>3. \A v, e : WantedAt(Len(c), last, base, <<>>, v, e) => v \in base.live
    BY <1>3, <2>2 DEF WantedAt
  <2> QED BY <1>3, <2>1, <2>2, <2>3 DEF Needing
<1>5. IsSequence(backwards) /\ DOMAIN backwards = 1 .. Len(c)
  BY <1>1, <1>2, FunctionIsSequence
<1>6. Len(backwards) = Len(c)
  <2>1. DOMAIN backwards = 1 .. Len(backwards) /\ Len(backwards) \in Nat
    BY <1>5, CodeIsSequence
  <2> QED BY <1>1, <1>5, <2>1, SameLength
<1>7. PICK v : /\ v[0] = base
               /\ \A k \in 1 .. Len(backwards) : v[k] = KeepIfNeeded(v[k - 1], backwards[k])
               /\ s = v[Len(backwards)]
  BY <1>5, LivenessFolds
<1> DEFINE n == Len(c)
           T == {m \in 0 .. n : \E a : Needing(c, last, v[m], a, n - m)}
<1>8. 0 \in T
  <2>1. 0 \in 0 .. n /\ n - 0 = n
    BY <1>1
  <2>2. Needing(c, last, v[0], <<>>, n - 0)
    BY <1>4, <1>7, <2>1
  <2> QED BY <2>1, <2>2
<1>9. ASSUME NEW m \in 0 .. n - 1, m \in T PROVE m + 1 \in T
  <2> DEFINE low == n - m
  <2>1. /\ m + 1 \in 1 .. n /\ (m + 1) - 1 = m /\ m + 1 \in 0 .. n
        /\ low \in 1 .. n /\ n - (m + 1) = low - 1 /\ n - (m + 1) + 1 = low
    BY <1>1
  <2>2. v[m + 1] = KeepIfNeeded(v[m], c[low])
    <3>1. v[m + 1] = KeepIfNeeded(v[(m + 1) - 1], backwards[m + 1])
      BY <1>6, <1>7, <2>1
    <3>2. backwards[m + 1] = c[n - (m + 1) + 1]
      BY <1>2, <2>1
    <3> HIDE DEF low, n
    <3> QED BY <2>1, <3>1, <3>2
  <2>3. \E a : Needing(c, last, v[m], a, low)
    BY <1>9
  <2> HIDE DEF low
  <2>4. \E d : Needing(c, last, v[m + 1], d, low - 1)
    BY <2>1, <2>2, <2>3, StepNeeds
  <2> QED BY <2>1, <2>4
<1> HIDE DEF T, n, s
<1>10. 0 .. n \subseteq T
  BY <1>1, <1>8, <1>9, IntervalInduction DEF n
<1>11. n \in T /\ n - n = 0
  BY <1>1, <1>10 DEF n
<1>12. \E a : Needing(c, last, v[n], a, 0)
  BY <1>11 DEF T
<1> QED BY <1>6, <1>7, <1>12 DEF n, s, base, backwards

\* Block c of gn has what is needed of block b of fn.
NeededBlock(c, b) ==
  /\ c.id = b.id /\ c.terminator = b.terminator
  /\ c.instructions = NeededInstructions(AtEnd(LiveAtEnd(b.terminator)), Reverse(b.instructions)).kept

LEMMA EliminatedIsSound ==
  ASSUME NEW p, Vectored(p), NEW fn, ShapedIr(fn), Sound(p, fn), NEW gn, ShapedIr(gn),
         gn.parameterTypes = fn.parameterTypes, gn.returnType = fn.returnType,
         gn.localTypes = fn.localTypes, gn.valueTypes = fn.valueTypes,
         DOMAIN gn.blocks = DOMAIN fn.blocks,
         \A b \in DOMAIN fn.blocks : NeededBlock(gn.blocks[b], fn.blocks[b])
  PROVE  Sound(p, gn)
<1>1. /\ fn.blocks # <<>> /\ \A b \in DOMAIN fn.blocks : fn.blocks[b].id = b
      /\ ReachableBlocks(fn.blocks) = DOMAIN fn.blocks
      /\ \A b \in DOMAIN fn.blocks : Targets(fn.blocks[b].terminator) \subseteq DOMAIN fn.blocks
  BY ValidTargets DEF Sound, LayoutIsValid, GraphIsCompact
<1>2. 1 \in DOMAIN fn.blocks
  <2>1. DOMAIN fn.blocks = 1 .. Len(fn.blocks) /\ Len(fn.blocks) \in Nat
    BY ShapedPositions
  <2>2. Len(fn.blocks) # 0
    BY <1>1, <2>1 DEF ShapedIr, IsSequence
  <2> QED BY <2>1, <2>2
<1> DEFINE c(b) == fn.blocks[b].instructions
           last(b) == LiveAtEnd(fn.blocks[b].terminator)
           s(b) == NeededInstructions(AtEnd(last(b)), Reverse(c(b)))
           from == [b \in DOMAIN fn.blocks |-> b]
           at == [b \in DOMAIN fn.blocks |-> CHOOSE a : Needing(c(b), last(b), s(b), a, 0)]
<1>3. ASSUME NEW b \in DOMAIN fn.blocks
      PROVE  /\ from[b] = b /\ gn.blocks[b].id = b
             /\ gn.blocks[b].terminator = fn.blocks[b].terminator
             /\ gn.blocks[b].instructions = s(b).kept
             /\ Needing(c(b), last(b), s(b), at[b], 0)
             /\ DOMAIN c(b) = 1 .. Len(c(b)) /\ Len(c(b)) \in Nat
             /\ DOMAIN s(b).kept = 1 .. Len(s(b).kept)
  <2>1. IsSequence(c(b)) /\ DOMAIN c(b) = 1 .. Len(c(b)) /\ Len(c(b)) \in Nat
    BY CodeIsSequence DEF ShapedIr, ShapedBlock
  <2>2. Distinct(c(b))
    BY DEF Distinct, Sound, DefinedOnce
  <2>3. \E a : Needing(c(b), last(b), s(b), a, 0)
    BY <2>1, <2>2, BlockNeeds
  <2>4. Needing(c(b), last(b), s(b), at[b], 0)
    <3>1. at[b] = CHOOSE a : Needing(c(b), last(b), s(b), a, 0)
      OBVIOUS
    <3> HIDE DEF at, c, last, s
    <3> QED BY <2>3, <3>1
  <2>5. gn.blocks[b].id = b /\ gn.blocks[b].terminator = fn.blocks[b].terminator
        /\ gn.blocks[b].instructions = s(b).kept
    BY <1>1 DEF NeededBlock
  <2>6. DOMAIN gn.blocks[b].instructions = 1 .. Len(gn.blocks[b].instructions)
    BY ShapedPositions
  <2>7. from[b] = b
    OBVIOUS
  <2> HIDE DEF from, at, s
  <2> QED BY <2>1, <2>4, <2>5, <2>6, <2>7
<1> HIDE DEF from, at, s
<1>4. ASSUME NEW b \in DOMAIN fn.blocks
      PROVE  /\ DOMAIN gn.blocks[b].instructions = 1 .. Len(s(b).kept)
             /\ \A n \in 1 .. Len(s(b).kept) :
                  at[b][n] \in DOMAIN c(b) /\ gn.blocks[b].instructions[n] = c(b)[at[b][n]]
             /\ \A n, m \in 1 .. Len(s(b).kept) : n < m => at[b][n] < at[b][m]
             /\ \A m \in DOMAIN c(b) : ~IsPure(c(b)[m]) => \E n \in 1 .. Len(s(b).kept) : at[b][n] = m
             /\ \A v, e : v # NoValue /\ WantedAt(Len(c(b)), last(b), s(b), at[b], v, e) =>
                  \A m \in DOMAIN c(b) :
                    c(b)[m].result = v /\ m < e => \E n \in 1 .. Len(s(b).kept) : at[b][n] = m
  <2>1. 0 + 1 .. Len(c(b)) = DOMAIN c(b)
    BY <1>3
  <2>2. gn.blocks[b].instructions = s(b).kept /\ DOMAIN s(b).kept = 1 .. Len(s(b).kept)
    BY <1>3
  <2>3. Needing(c(b), last(b), s(b), at[b], 0)
    BY <1>3
  <2> HIDE DEF c, last
  <2>4. /\ \A n \in 1 .. Len(s(b).kept) : at[b][n] \in DOMAIN c(b) /\ s(b).kept[n] = c(b)[at[b][n]]
        /\ \A n, m \in 1 .. Len(s(b).kept) : n < m => at[b][n] < at[b][m]
    BY <2>1, <2>3 DEF Needing
  <2>5. \A m \in DOMAIN c(b) : ~IsPure(c(b)[m]) => \E n \in 1 .. Len(s(b).kept) : at[b][n] = m
    BY <2>1, <2>3 DEF Needing
  <2>6. \A v, e : v # NoValue /\ WantedAt(Len(c(b)), last(b), s(b), at[b], v, e) =>
          \A m \in DOMAIN c(b) :
            c(b)[m].result = v /\ m < e => \E n \in 1 .. Len(s(b).kept) : at[b][n] = m
    BY <2>1, <2>3 DEF Needing
  <2> QED BY <2>2, <2>4, <2>5, <2>6
<1>5. Derived(gn, fn, from, at)
  <2>1. gn.blocks # <<>> /\ from[1] = 1
    BY <1>2, <1>3
  <2>2. \A b \in DOMAIN gn.blocks : gn.blocks[b].id = b /\ from[b] \in DOMAIN fn.blocks
    BY <1>3
  <2>3. \A b, d \in DOMAIN gn.blocks : from[b] = from[d] => b = d
    BY <1>3
  <2>4. ASSUME NEW b \in DOMAIN gn.blocks
        PROVE  /\ \A n \in DOMAIN gn.blocks[b].instructions :
                    /\ at[b][n] \in DOMAIN fn.blocks[from[b]].instructions
                    /\ Replaces(fn, gn.blocks[b].instructions[n], fn.blocks[from[b]].instructions[at[b][n]])
               /\ \A n, m \in DOMAIN gn.blocks[b].instructions : n < m => at[b][n] < at[b][m]
    <3>1. /\ b \in DOMAIN fn.blocks /\ from[b] = b
          /\ DOMAIN gn.blocks[b].instructions = 1 .. Len(s(b).kept)
      BY <1>3, <1>4
    <3>2. \A n, m \in 1 .. Len(s(b).kept) : n < m => at[b][n] < at[b][m]
      BY <1>4, <3>1
    <3>3. \A n \in 1 .. Len(s(b).kept) :
            at[b][n] \in DOMAIN c(b) /\ gn.blocks[b].instructions[n] = c(b)[at[b][n]]
      BY <1>4, <3>1, SMTT(30)
    <3>4. \A n \in 1 .. Len(s(b).kept) :
            /\ at[b][n] \in DOMAIN fn.blocks[from[b]].instructions
            /\ Replaces(fn, gn.blocks[b].instructions[n], fn.blocks[from[b]].instructions[at[b][n]])
      BY <3>1, <3>3 DEF Replaces
    <3> QED BY <3>1, <3>2, <3>4
  <2> QED BY <2>1, <2>2, <2>3, <2>4 DEF Derived
<1>6. Remains(gn, fn, from, at)
  <2>1. ASSUME NEW b \in DOMAIN gn.blocks, NEW m \in DOMAIN fn.blocks[from[b]].instructions
        PROVE  LET i == fn.blocks[from[b]].instructions[m]
                   Stays == \E n \in DOMAIN gn.blocks[b].instructions : at[b][n] = m
               IN /\ i.op \in {"parameter", "store"} => Stays
                  /\ \A n \in DOMAIN gn.blocks[b].instructions :
                       i.result # NoValue /\ i.result \in ToSet(gn.blocks[b].instructions[n].uses)
                         /\ m < at[b][n] => Stays
                  /\ i.result # NoValue /\ i.result = gn.blocks[b].terminator.value
                       /\ gn.blocks[b].terminator.kind \in {"branchIfFalse", "returnValue"} => Stays
    <3> DEFINE i == c(b)[m]
               t == fn.blocks[b].terminator
               Stays == \E n \in 1 .. Len(s(b).kept) : at[b][n] = m
    <3>1. /\ from[b] = b /\ b \in DOMAIN fn.blocks /\ m \in DOMAIN c(b)
          /\ gn.blocks[b].terminator = t
          /\ DOMAIN gn.blocks[b].instructions = 1 .. Len(s(b).kept)
          /\ gn.blocks[b].instructions = s(b).kept
      BY <1>3, <1>4
    <3>2. i.op \in {"parameter", "store"} => Stays
      <4>1. i.op \in {"parameter", "store"} => ~IsPure(i)
        BY DEF IsPure, Folds, Compares
      <4>2. ~IsPure(i) => Stays
        BY <1>4, <3>1
      <4> QED BY <4>1, <4>2
    <3>3. ASSUME NEW n \in 1 .. Len(s(b).kept), i.result # NoValue,
                 i.result \in ToSet(s(b).kept[n].uses), m < at[b][n]
          PROVE  Stays
      <4>1. WantedAt(Len(c(b)), last(b), s(b), at[b], i.result, at[b][n])
        BY <3>3 DEF WantedAt
      <4> QED BY <1>4, <3>1, <3>3, <4>1
    <3>4. ASSUME i.result # NoValue, i.result = t.value, t.kind \in {"branchIfFalse", "returnValue"}
          PROVE  Stays
      <4>1. i.result \in last(b)
        BY <3>4 DEF LiveAtEnd
      <4>2. WantedAt(Len(c(b)), last(b), s(b), at[b], i.result, Len(c(b)) + 1)
        BY <4>1 DEF WantedAt
      <4>3. m < Len(c(b)) + 1
        BY <1>3, <3>1
      <4> QED BY <1>4, <3>1, <3>4, <4>2, <4>3
    <3> HIDE DEF Stays
    <3>5. Stays <=> \E n \in DOMAIN gn.blocks[b].instructions : at[b][n] = m
      BY <3>1 DEF Stays
    <3> QED BY <3>1, <3>2, <3>3, <3>4, <3>5
  <2> QED BY <2>1 DEF Remains
<1>7. \A b \in DOMAIN fn.blocks : Targets(gn.blocks[b].terminator) = Targets(fn.blocks[b].terminator)
  BY <1>3
<1>8. ReachableBlocks(gn.blocks) = DOMAIN gn.blocks
  <2>1. Entered(gn.blocks, DOMAIN fn.blocks) = Entered(fn.blocks, DOMAIN fn.blocks)
    BY <1>1, <1>7, EnteredAlike
  <2> QED BY <1>1, <2>1 DEF ReachableBlocks
<1>9. Connected(gn, fn, from)
  <2>1. ASSUME NEW b \in DOMAIN gn.blocks
        PROVE  LET t == gn.blocks[b].terminator
                   u == fn.blocks[from[b]].terminator
               IN /\ t.kind = u.kind /\ t.value = u.value
                  /\ Targets(t) \subseteq DOMAIN gn.blocks
                  /\ \A d \in Targets(t) : from[d] \in Targets(u)
    <3>1. /\ gn.blocks[b].terminator = fn.blocks[b].terminator /\ from[b] = b
          /\ Targets(fn.blocks[b].terminator) \subseteq DOMAIN fn.blocks
      BY <1>1, <1>3
    <3>2. \A d \in Targets(fn.blocks[b].terminator) : from[d] = d
      BY <1>3, <3>1
    <3> QED BY <3>1, <3>2
  <2> QED BY <1>8, <2>1 DEF Connected
<1> QED BY <1>5, <1>6, <1>9, DerivedIsSound

LEMMA EliminateDeadCodeVerified ==
  ASSUME NEW p, Vectored(p), NEW fn, ShapedIr(fn), Verified(p, fn)
  PROVE  Verified(p, EliminateDeadCode(fn))
<1> DEFINE first(b) == [live |-> LiveAtEnd(fn.blocks[b].terminator), kept |-> <<>>]
           list(b) == Reverse(fn.blocks[b].instructions)
           needed(b) == NeededInstructions(first(b), list(b)).kept
           blocks == [b \in DOMAIN fn.blocks |-> [fn.blocks[b] EXCEPT !.instructions = needed(b)]]
           gn == [fn EXCEPT !.blocks = blocks]
<1>1. EliminateDeadCode(fn) = CompactValues(gn)
  BY DEF EliminateDeadCode, NeededInstructions
<1>2. \A b \in DOMAIN fn.blocks : 
        needed(b) = NeededInstructions(AtEnd(LiveAtEnd(fn.blocks[b].terminator)), Reverse(fn.blocks[b].instructions)).kept
  BY DEF AtEnd
<1> HIDE DEF needed
<1>3. DOMAIN blocks = DOMAIN fn.blocks
      /\ \A b \in DOMAIN fn.blocks : blocks[b] = [fn.blocks[b] EXCEPT !.instructions = needed(b)]
  OBVIOUS
<1>4. ShapedIr(gn)
  BY NeededShaped DEF needed
<1> HIDE DEF blocks
<1>5. /\ gn.parameterTypes = fn.parameterTypes /\ gn.returnType = fn.returnType
      /\ gn.localTypes = fn.localTypes /\ gn.valueTypes = fn.valueTypes /\ gn.blocks = blocks
  BY DEF ShapedIr
<1> HIDE DEF gn
<1>6. ASSUME NEW b \in DOMAIN fn.blocks PROVE NeededBlock(gn.blocks[b], fn.blocks[b])
  <2>1. {"id", "instructions", "terminator"} \subseteq DOMAIN fn.blocks[b]
    BY DEF ShapedIr, ShapedBlock
  <2>2. gn.blocks[b] = [fn.blocks[b] EXCEPT !.instructions = needed(b)]
    BY <1>3, <1>5
  <2> QED BY <1>2, <2>1, <2>2 DEF NeededBlock
<1>7. Sound(p, fn)
  BY VerifiedIsSound
<1>8. Sound(p, gn)
  BY <1>3, <1>4, <1>5, <1>6, <1>7, EliminatedIsSound
<1>9. Verified(p, CompactValues(gn))
  BY <1>4, <1>8, CompactedIsVerified
<1> QED BY <1>1, <1>9

-----------------------------------------------------------------------------
(* The pipeline.                                                           *)

\* The stages at which there is IR, and those at which there is machine code.
Optimizing == {"lowered", "folded", "propagated", "refolded", "simplified", "eliminated"}
Compiled == {"compiled", "interpreting", "native"}

\* What every stage leaves to the next one.  The convention alone is not
\* inductive: it rests on where the machine is in its code, that on how the code
\* is laid out, and that on what the compiler was given.
PipelineInv ==
  /\ program \in Programs
  /\ verdict = "accepted" => Structured(program)
  /\ stage \in Optimizing => ShapedIr(ir) /\ Verified(program, ir)
  /\ stage \in Compiled => Conventional(code)
  /\ stage = "native" => Positioned(native, code)

\* It holds at the start, and every step keeps it.
LEMMA PipelineStart == Init => PipelineInv
BY DEF Init, VerifierInit, PipelineInv, Optimizing, Compiled

LEMMA VerifierKeepsPipeline ==
  ASSUME PipelineInv, VerifierStep, UNCHANGED pipelineVars
  PROVE  PipelineInv'
<1>1. program' = program
  BY DEF VerifierStep, RejectStructure, Begin, Visit, Conclude
<1>2. verdict' = "accepted" => Structured(program)
  BY DEF VerifierStep, RejectStructure, Begin, Visit, Conclude, PipelineInv
<1>3. stage' = stage /\ ir' = ir /\ code' = code /\ native' = native
  BY DEF pipelineVars
<1> QED BY <1>1, <1>2, <1>3 DEF PipelineInv

\* The function that is lowered, of a program that the verifier accepted.
LEMMA SourceFacts ==
  ASSUME PipelineInv, Structured(program)
  PROVE  /\ Vectored(program) /\ IsSequence(Source.code) /\ IsSequence(Source.parameterTypes)
         /\ Params(Source) \in Nat
         /\ \A pc \in 1 .. Len(Source.code) : ValidInstruction(program, Source, Source.code[pc])
<1>1. program \in Programs /\ Target \in UserFunctions(program) /\ Target \in DOMAIN program
  BY PipelineAssumption DEF PipelineInv, UserFunctions
<1>2. Vectored(program)
  BY <1>1, ProgramsAssumption DEF Vectored
<1>3. IsSequence(Source.parameterTypes) /\ IsSequence(Source.code)
  BY <1>1, <1>2 DEF Vectored, Source
<1>4. Params(Source) \in Nat
  BY <1>3, CodeIsSequence DEF Params
<1> QED BY <1>1, <1>2, <1>3, <1>4 DEF Structured, Source

\* A pass that hands over a shaped function.
LEMMA KeepsShape ==
  ASSUME PipelineInv, NEW fn, ShapedIr(fn), NEW next \in Optimizing, NEW reason,
         Keep(fn, next, reason), UNCHANGED runVars, UNCHANGED verifierVars
  PROVE  PipelineInv'
<1>1. program' = program /\ verdict' = verdict /\ native' = native
  BY DEF runVars, verifierVars
<1>2. CASE Verified(program, fn)
  <2>1. stage' = next /\ ir' = fn
    BY <1>2 DEF Keep
  <2> QED BY <1>1, <1>2, <2>1 DEF PipelineInv, Optimizing, Compiled
<1>3. CASE ~Verified(program, fn)
  <2>1. stage' = "abandoned"
    BY <1>3 DEF Keep, Abandon
  <2> QED BY <1>1, <2>1 DEF PipelineInv, Optimizing, Compiled
<1> QED BY <1>2, <1>3

LEMMA LoweringKeepsPipeline ==
  ASSUME PipelineInv, LowerBytecode, UNCHANGED verifierVars
  PROVE  PipelineInv'
<1> DEFINE fn == Lower(program, Source)
<1>1. ShapedIr(fn)
  <2>1. Structured(program)
    BY DEF LowerBytecode, PipelineInv
  <2> QED BY <2>1, SourceFacts, LowerShaped
<1>2. CASE fn.failure # "none"
  <2>1. stage' = "abandoned" /\ program' = program /\ verdict' = verdict
    BY <1>2 DEF LowerBytecode, Abandon, verifierVars
  <2> QED BY <2>1 DEF PipelineInv, Optimizing, Compiled
<1>3. CASE fn.failure = "none"
  <2>1. Keep(fn, "lowered", "internalInvariant") /\ UNCHANGED runVars /\ "lowered" \in Optimizing
    BY <1>3 DEF LowerBytecode, Optimizing
  <2> HIDE DEF fn
  <2> QED BY <1>1, <2>1, KeepsShape
<1> QED BY <1>2, <1>3

LEMMA OptimizingKeepsPipeline ==
  ASSUME PipelineInv, Optimize, UNCHANGED verifierVars
  PROVE  PipelineInv'
<1>1. ASSUME NEW before \in Optimizing, NEW after \in Optimizing, NEW fn,
             ShapedIr(ir) => ShapedIr(fn), Pass(before, after, fn)
      PROVE  PipelineInv'
  <2>1. ShapedIr(fn) /\ Keep(fn, after, after) /\ UNCHANGED runVars
    BY <1>1 DEF Pass, PipelineInv
  <2> QED BY <2>1, KeepsShape
<1>2. ShapedIr(ir) => /\ ShapedIr(FoldConstants(ir))
                      /\ ShapedIr(PropagateConstants(ir))
                      /\ ShapedIr(SimplifyCfg(ir))
                      /\ ShapedIr(EliminateDeadCode(ir))
  BY FoldConstantsShaped, PropagateConstantsShaped, SimplifyCfgShaped, EliminateDeadCodeShaped
<1>3. Optimizing = {"lowered", "folded", "propagated", "refolded", "simplified", "eliminated"}
  BY DEF Optimizing
<1>4. CASE Pass("lowered", "folded", FoldConstants(ir))
  BY <1>1, <1>2, <1>3, <1>4
<1>5. CASE Pass("folded", "propagated", PropagateConstants(ir))
  BY <1>1, <1>2, <1>3, <1>5
<1>6. CASE Pass("propagated", "refolded", FoldConstants(ir))
  BY <1>1, <1>2, <1>3, <1>6
<1>7. CASE Pass("refolded", "simplified", SimplifyCfg(ir))
  BY <1>1, <1>2, <1>3, <1>7
<1>8. CASE Pass("simplified", "eliminated", EliminateDeadCode(ir))
  BY <1>1, <1>2, <1>3, <1>8
<1> QED BY <1>4, <1>5, <1>6, <1>7, <1>8 DEF Optimize

LEMMA CompilingKeepsPipeline ==
  ASSUME PipelineInv, CompileBaseline, UNCHANGED verifierVars
  PROVE  PipelineInv'
<1>1. program' = program /\ verdict' = verdict
  BY DEF verifierVars
<1>2. CASE Supported(program, ir)
  <2>1. stage' = "compiled" /\ code' = Compile(program, ir)
    BY <1>2 DEF CompileBaseline
  <2>2. ShapedIr(ir) /\ Verified(program, ir)
    BY DEF CompileBaseline, PipelineInv, Optimizing
  <2>3. Conventional(code')
    BY <1>2, <2>1, <2>2, CompiledIsConventional
  <2> QED BY <1>1, <2>1, <2>3 DEF PipelineInv, Optimizing, Compiled
<1>3. CASE ~Supported(program, ir)
  <2>1. stage' = "abandoned"
    BY <1>3 DEF CompileBaseline, Abandon
  <2> QED BY <1>1, <2>1 DEF PipelineInv, Optimizing, Compiled
<1> QED BY <1>2, <1>3

\* The end of the interpreter enters the machine code.
LEMMA EndingKeepsPipeline ==
  ASSUME PipelineInv, stage = "interpreting", NEW result, EndVm(result),
         code' = code, UNCHANGED verifierVars
  PROVE  PipelineInv'
<1>1. program' = program /\ verdict' = verdict
  BY DEF verifierVars
<1>2. stage' = "native" /\ native' = Enter(Source.localCount, FrameRequirements(ir), arguments)
  BY DEF EndVm
<1>3. Conventional(code)
  BY DEF PipelineInv, Compiled
<1>4. Positioned(native', code)
  BY <1>2, <1>3, Entering
<1> QED BY <1>1, <1>2, <1>3, <1>4 DEF PipelineInv, Optimizing, Compiled

LEMMA InterpretingKeepsPipeline ==
  ASSUME PipelineInv, Start \/ Interpret \/ InterpretCall, UNCHANGED verifierVars
  PROVE  PipelineInv'
<1>1. program' = program /\ verdict' = verdict
  BY DEF verifierVars
<1>2. ASSUME code' = code, stage \in {"compiled", "interpreting"}, stage' = "interpreting"
      PROVE  PipelineInv'
  BY <1>1, <1>2 DEF PipelineInv, Optimizing, Compiled
<1>3. CASE Start
  BY <1>2, <1>3 DEF Start
<1>4. CASE Interpret
  <2>1. code' = code /\ stage = "interpreting"
    BY <1>4 DEF Interpret
  <2>2. stage' = stage \/ \E result : EndVm(result)
    BY <1>4, SMTT(30) DEF Interpret
  <2> QED BY <1>2, <2>1, <2>2, EndingKeepsPipeline
<1>5. CASE InterpretCall
  <2>1. code' = code /\ stage = "interpreting"
    BY <1>5, Zenon DEF InterpretCall
  <2>2. stage' = stage \/ \E result : EndVm(result)
    BY <1>5, Zenon DEF InterpretCall
  <2> QED BY <1>2, <2>1, <2>2, EndingKeepsPipeline
<1> QED BY <1>3, <1>4, <1>5

LEMMA RunningKeepsPipeline ==
  ASSUME PipelineInv, NativeRun, UNCHANGED verifierVars
  PROVE  PipelineInv'
<1>1. program' = program /\ verdict' = verdict
  BY DEF verifierVars
<1>2. stage = "native" /\ code' = code
  BY DEF NativeRun, NativeStep, CallBridge, CallBuiltin, NativeReturn, Executing
<1>3. Conventional(code) /\ Positioned(native, code)
  BY <1>2 DEF PipelineInv, Compiled
<1>4. ASSUME stage' = "native", Positioned(native', code) PROVE PipelineInv'
  BY <1>1, <1>2, <1>3, <1>4 DEF PipelineInv, Optimizing, Compiled
<1>5. ASSUME stage' = "finished" PROVE PipelineInv'
  BY <1>1, <1>5 DEF PipelineInv, Optimizing, Compiled
<1>6. CASE NativeStep
  <2>1. /\ native.pc \in DOMAIN code /\ ~Faults(native, code[native.pc])
        /\ code[native.pc].op \notin {"call", "ret"}
        /\ native' = [Executed(native, code[native.pc]) EXCEPT
                        !.pc = Advance(native, code, code[native.pc])]
        /\ stage' = stage
    BY <1>6 DEF NativeStep, Undefined, InCode, Instr
  <2>2. Positioned(native', code)
    BY <1>3, <2>1, Stepping
  <2> QED BY <1>2, <1>4, <2>1, <2>2
<1>7. ASSUME InCode, Instr.op = "call", NEW v, NEW n, DOMAIN n = DOMAIN Returned(native, v),
             n.pc = Returned(native, v).pc, n.regs = Returned(native, v).regs,
             n.stack = Returned(native, v).stack
      PROVE  Positioned(n, code)
  <2>1. native.pc \in DOMAIN code /\ code[native.pc].op = "call"
    BY <1>7 DEF InCode, Instr
  <2>2. Framed(native.stack) /\ Processor(native)
    BY <1>3, <2>1, CallFramed
  <2>3. Processor(Returned(native, v)) /\ Framed(Returned(native, v).stack)
        /\ Returned(native, v).pc = native.pc + 1
    BY <2>2, ReturnedFramed
  <2>4. Processor(n) /\ Framed(n.stack) /\ n.pc = native.pc + 1
    BY <1>7, <2>3 DEF Processor
  <2> QED BY <1>3, <2>1, <2>4, CallReturns
<1>8. CASE CallBridge
  <2>1. InCode /\ Instr.op = "call"
    BY <1>8 DEF CallBridge
  <2>2. CASE BridgeAccepts /\ Made(PassedToBridge)
    <3>1. native' = Bridged /\ stage' = stage
      BY <1>8, <2>2 DEF CallBridge
    <3>2. \E v : /\ DOMAIN Bridged = DOMAIN Returned(native, v)
                 /\ Bridged.pc = Returned(native, v).pc
                 /\ Bridged.regs = Returned(native, v).regs
                 /\ Bridged.stack = Returned(native, v).stack
      BY DEF Bridged
    <3> QED BY <1>2, <1>4, <1>7, <2>1, <3>1, <3>2
  <2>3. CASE ~(BridgeAccepts /\ Made(PassedToBridge))
    BY <1>5, <1>8, <2>3 DEF CallBridge, EndNative
  <2> QED BY <2>2, <2>3
<1>9. CASE CallBuiltin
  <2>1. InCode /\ Instr.op = "call"
    BY <1>9 DEF CallBuiltin
  <2>2. CASE Made(PassedToHost(Instr.name))
    <3>1. stage' = stage /\ \E v : native' = Returned(native, v)
      BY <1>9, <2>2 DEF CallBuiltin
    <3> QED BY <1>2, <1>4, <1>7, <2>1, <3>1
  <2>3. CASE ~Made(PassedToHost(Instr.name))
    BY <1>5, <1>9, <2>3 DEF CallBuiltin, EndNative
  <2> QED BY <2>2, <2>3
<1>10. CASE NativeReturn
  BY <1>5, <1>10 DEF NativeReturn, EndNative
<1> QED BY <1>6, <1>8, <1>9, <1>10 DEF NativeRun

LEMMA StutteringKeepsPipeline ==
  ASSUME PipelineInv, UNCHANGED vars
  PROVE  PipelineInv'
BY DEF PipelineInv, vars

\* In every stage of compileBaselineNative the IR is verified and made of known
\* instructions, the machine code is laid out by the convention of
\* BaselineCompiler, and the processor is where that layout says it may be.
THEOREM PipelineInvariant == Spec => []PipelineInv
<1>1. Init => PipelineInv
  BY PipelineStart
<1>2. PipelineInv /\ [Next]_vars => PipelineInv'
  <2> SUFFICES ASSUME PipelineInv, [Next]_vars PROVE PipelineInv'
    OBVIOUS
  <2>1. CASE VerifierStep /\ UNCHANGED pipelineVars
    BY <2>1, VerifierKeepsPipeline
  <2>2. CASE LowerBytecode /\ UNCHANGED verifierVars
    BY <2>2, LoweringKeepsPipeline
  <2>3. CASE Optimize /\ UNCHANGED verifierVars
    BY <2>3, OptimizingKeepsPipeline
  <2>4. CASE CompileBaseline /\ UNCHANGED verifierVars
    BY <2>4, CompilingKeepsPipeline
  <2>5. CASE (Start \/ Interpret \/ InterpretCall) /\ UNCHANGED verifierVars
    BY <2>5, InterpretingKeepsPipeline
  <2>6. CASE NativeRun /\ UNCHANGED verifierVars
    BY <2>6, RunningKeepsPipeline
  <2>7. CASE UNCHANGED vars
    BY <2>7, StutteringKeepsPipeline
  <2> QED BY <2>1, <2>2, <2>3, <2>4, <2>5, <2>6, <2>7 DEF Next, PipelineStep
<1> QED BY <1>1, <1>2, PTL DEF Spec

\* The machine code of BaselineCompiler, of any program and on any path through
\* it, respects the calling convention at every call and at its return.
THEOREM CallsFollowTheConvention == Spec => []ConventionRespected
<1>1. PipelineInv => ConventionRespected
  <2> SUFFICES ASSUME PipelineInv, Executing, InCode PROVE ConventionRespected
    BY DEF ConventionRespected
  <2>1. Conventional(code) /\ Positioned(native, code) /\ native.pc \in DOMAIN code
    BY DEF PipelineInv, Executing, InCode, Compiled
  <2> QED BY <2>1, PositionedConvention DEF ConventionRespected, Instr
<1> QED BY <1>1, PipelineInvariant, PTL

\* Of what the lowering made of verified bytecode the four optimizations make
\* verified IR: the verifier that OptimizationPipeline runs after each of them
\* refuses nothing, for any program.
THEOREM PassesKeepIrVerified ==
  ASSUME NEW p, Vectored(p), NEW fn, ShapedIr(fn), Verified(p, fn)
  PROVE  /\ Verified(p, FoldConstants(fn))
         /\ Verified(p, PropagateConstants(fn))
         /\ Verified(p, SimplifyCfg(fn))
         /\ Verified(p, EliminateDeadCode(fn))
BY FoldConstantsVerified, PropagateConstantsVerified, SimplifyCfgVerified, EliminateDeadCodeVerified

\* Once a function has been lowered, no pass abandons it: it is in the next
\* stage, or still in this one.
PassesAbandonNothing ==
  [][(stage \in Optimizing \ {"eliminated"}) => stage' \in Optimizing]_vars

\* compileBaselineNative never falls back to the interpreter because of what
\* OptimizationPipeline did.
THEOREM OptimizerAbandonsNothing == Spec => PassesAbandonNothing
<1>1. PipelineInv /\ [Next]_vars
        => [(stage \in Optimizing \ {"eliminated"}) => stage' \in Optimizing]_vars
  <2> SUFFICES ASSUME PipelineInv, Next, stage \in Optimizing \ {"eliminated"}
               PROVE  stage' \in Optimizing
    BY DEF vars
  <2>1. Optimizing = {"lowered", "folded", "propagated", "refolded", "simplified", "eliminated"}
    BY DEF Optimizing
  <2>2. ShapedIr(ir) /\ Verified(program, ir)
    BY DEF PipelineInv
  <2>3. Vectored(program)
    BY ProgramsAssumption DEF PipelineInv, Vectored
  <2>4. ASSUME NEW before, NEW after \in Optimizing, NEW fn, Verified(program, fn),
               Pass(before, after, fn)
        PROVE  stage' \in Optimizing
    BY <2>4 DEF Pass, Keep
  <2>5. CASE VerifierStep /\ UNCHANGED pipelineVars
    BY <2>5 DEF pipelineVars
  <2>6. CASE Optimize
    <3>1. /\ Verified(program, FoldConstants(ir)) /\ Verified(program, PropagateConstants(ir))
          /\ Verified(program, SimplifyCfg(ir)) /\ Verified(program, EliminateDeadCode(ir))
      BY <2>2, <2>3, PassesKeepIrVerified
    <3>2. CASE Pass("lowered", "folded", FoldConstants(ir))
      BY <2>1, <2>4, <3>1, <3>2
    <3>3. CASE Pass("folded", "propagated", PropagateConstants(ir))
      BY <2>1, <2>4, <3>1, <3>3
    <3>4. CASE Pass("propagated", "refolded", FoldConstants(ir))
      BY <2>1, <2>4, <3>1, <3>4
    <3>5. CASE Pass("refolded", "simplified", SimplifyCfg(ir))
      BY <2>1, <2>4, <3>1, <3>5
    <3>6. CASE Pass("simplified", "eliminated", EliminateDeadCode(ir))
      BY <2>1, <2>4, <3>1, <3>6, SMTT(30)
    <3> QED BY <2>6, <3>2, <3>3, <3>4, <3>5, <3>6 DEF Optimize
  <2>7. CASE LowerBytecode \/ CompileBaseline \/ Start \/ Interpret \/ InterpretCall \/ NativeRun
    BY <2>1, <2>7, Zenon DEF LowerBytecode, CompileBaseline, Start, Interpret, InterpretCall, NativeRun,
                      NativeStep, CallBridge, CallBuiltin, NativeReturn, Executing
  <2> QED BY <2>5, <2>6, <2>7 DEF Next, PipelineStep
<1> QED BY <1>1, PipelineInvariant, PTL DEF Spec, PassesAbandonNothing
=============================================================================
