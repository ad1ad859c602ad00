----------------------- MODULE BytecodeMachine_proofs -----------------------
(***************************************************************************)
(* The soundness of the verifier, for every set of programs: what it       *)
(* accepts never faults in the interpreter.                                *)
(*                                                                         *)
(* The verifier: an instruction whose state changes is queued, so that     *)
(* once the queue is empty and nothing was diagnosed the states are a      *)
(* solution: each instruction accepts its own state, and each of its       *)
(* successors has a state that what it leaves is an instance of (Settled). *)
(* The machine: every frame is in the state predicted for its instruction, *)
(* and the segments of the shared stack are adjacent (Sound).              *)
(*                                                                         *)
(* The lemmas are about operators of their arguments; only the last        *)
(* sections mention the variables.                                         *)
(***************************************************************************)
EXTENDS BytecodeMachine, TLAPS, SequenceTheorems

-----------------------------------------------------------------------------
(* Programs with the right structure.                                      *)

LEMMA TypedSequence ==
  ASSUME NEW s, NEW S, IsSequence(s), \A k \in 1 .. Len(s) : s[k] \in S
  PROVE  s \in Seq(S)
<1>1. s \in Seq({s[k] : k \in DOMAIN s}) /\ Len(s) \in Nat
  BY LenProperties DEF IsSequence
<1>2. SubSeq(s, 1, Len(s)) = s
  BY <1>1, SubSeqFull
<1>3. SubSeq(s, 1, Len(s)) \in Seq(S)
  BY <1>1, SubSeqProperties
<1> QED BY <1>2, <1>3

LEMMA SignatureFacts ==
  ASSUME NEW p \in Programs, Structured(p), NEW id \in DOMAIN p
  PROVE  /\ p[id].parameterTypes \in Seq(Types)
         /\ Params(p[id]) \in Nat
         /\ p[id].returnType \in ReturnTypes
<1>1. ValidSignature(p[id]) /\ IsSequence(p[id].parameterTypes)
  BY ProgramsAssumption DEF Structured
<1>2. p[id].parameterTypes \in Seq(Types)
  BY <1>1, TypedSequence DEF ValidSignature, Params
<1> QED BY <1>1, <1>2, LenProperties DEF ValidSignature, Params

LEMMA UserFacts ==
  ASSUME NEW p \in Programs, Structured(p), NEW id \in UserFunctions(p)
  PROVE  /\ id \in DOMAIN p
         /\ Len(p[id].code) \in Nat /\ 1 \in 1 .. Len(p[id].code)
         /\ p[id].localCount \in Nat
         /\ p[id].localTypes \in Seq(Types)
         /\ Len(p[id].localTypes) = p[id].localCount
         /\ Params(p[id]) <= p[id].localCount
         /\ \A slot \in 1 .. Params(p[id]) : p[id].localTypes[slot] = p[id].parameterTypes[slot]
         /\ \A pc \in 1 .. Len(p[id].code) : ValidInstruction(p, p[id], p[id].code[pc])
<1> DEFINE f == p[id]
<1>1. id \in DOMAIN p
  BY DEF UserFunctions
<1>2. /\ IsSequence(f.localTypes) /\ IsSequence(f.code) /\ f.localCount \in Nat
      /\ ValidLayout(f)
      /\ \A pc \in 1 .. Len(f.code) : ValidInstruction(p, f, f.code[pc])
  BY <1>1, ProgramsAssumption DEF Structured
<1>3. Len(f.code) \in Nat \ {0}
  BY <1>2, EmptySeq DEF IsSequence, ValidLayout
<1>4. f.localTypes \in Seq(Types)
  BY <1>2, TypedSequence DEF ValidLayout
<1>5. Params(f) \in Nat
  BY <1>1, SignatureFacts
<1>6. \A slot \in 1 .. Params(f) : f.localTypes[slot] = f.parameterTypes[slot]
  BY <1>2, <1>5 DEF ValidLayout
<1> QED BY <1>1, <1>2, <1>3, <1>4, <1>6 DEF ValidLayout

LEMMA InstructionFacts ==
  ASSUME NEW p \in Programs, Structured(p), NEW id \in UserFunctions(p),
         NEW pc \in 1 .. Len(p[id].code)
  PROVE  LET f == p[id]
             i == f.code[pc]
         IN /\ i.op \in Opcodes \ {"invalid"}
            /\ Operands(p, f, i) \in Seq(ReturnTypes)
            /\ Arity(p, f, i) \in Nat
            /\ Len(Operands(p, f, i)) \in 0 .. Arity(p, f, i)
            /\ Result(p, f, i) \in ReturnTypes
<1> DEFINE f == p[id]
           i == f.code[pc]
<1> HIDE DEF f, i
<1>1. ValidInstruction(p, f, i)
  BY UserFacts DEF f, i
<1>2. i.op \in Opcodes \ {"invalid"}
  BY <1>1 DEF ValidInstruction, Opcodes
<1>3. i.op \in {"load", "store"} => f.localTypes[i.arg] \in Types
  BY <1>1, UserFacts, ElementOfSeq DEF ValidInstruction, f
<1>4. f.returnType \in ReturnTypes
  BY SignatureFacts, UserFacts DEF f
<1>5. i.op = "call" => /\ p[i.arg].parameterTypes \in Seq(Types)
                       /\ p[i.arg].returnType \in ReturnTypes
  BY <1>1, SignatureFacts DEF ValidInstruction
<1>6. Result(p, f, i) \in ReturnTypes
  BY <1>1, <1>2, <1>3, <1>5 DEF Result, ReturnTypes, Types, Opcodes, ValidInstruction
<1>7. Operands(p, f, i) \in Seq(ReturnTypes)
  <2>1. CASE i.op = "call"
    BY <2>1, <1>5, SeqMonotonic, Types \subseteq ReturnTypes DEF Operands, ReturnTypes
  <2>2. CASE i.op = "store"
    BY <2>2, <1>3 DEF Operands, ReturnTypes
  <2>3. CASE i.op = "returnValue"
    BY <2>3, <1>4 DEF Operands
  <2>4. CASE i.op \in {"unary", "binary", "compare"}
    <3>1. i.arg \in ReturnTypes
      BY <2>4, <1>1 DEF ValidInstruction, ReturnTypes, Types
    <3> QED BY <2>4, <3>1 DEF Operands
  <2>5. CASE i.op = "jumpIfFalse"
    BY <2>5 DEF Operands, ReturnTypes, Types
  <2>6. CASE i.op \in {"constant", "load", "pop", "jump", "returnVoid"}
    BY <2>6 DEF Operands
  <2> QED BY <1>2, <2>1, <2>2, <2>3, <2>4, <2>5, <2>6 DEF Opcodes
<1>8. Len(Operands(p, f, i)) \in Nat
  BY <1>7, LenProperties
<1>9. Arity(p, f, i) \in Nat /\ Len(Operands(p, f, i)) \in 0 .. Arity(p, f, i)
  <2>1. CASE i.op = "pop"
    BY <2>1 DEF Arity, Operands
  <2>2. CASE i.op # "pop"
    BY <2>2, <1>8 DEF Arity
  <2> QED BY <2>1, <2>2
<1> QED BY <1>2, <1>6, <1>7, <1>9 DEF f, i

-----------------------------------------------------------------------------
(* What one instruction does to a state of the data flow.                  *)

StateOf(f) == [stack : Seq(Types), initialized : SUBSET (1 .. f.localCount)]

LEMMA PushedFacts ==
  ASSUME NEW s \in Seq(Types), NEW n \in Nat, n <= Len(s), NEW type \in ReturnTypes
  PROVE  /\ Drop(s, n) \in Seq(Types)
         /\ Len(Drop(s, n)) = Len(s) - n
         /\ \A k \in 1 .. Len(s) - n : Drop(s, n)[k] = s[k]
         /\ Pushed(Drop(s, n), type) \in Seq(Types)
         /\ Len(Pushed(Drop(s, n), type)) = Len(s) - n + (IF type = "void" THEN 0 ELSE 1)
         /\ \A k \in 1 .. Len(s) - n : Pushed(Drop(s, n), type)[k] = s[k]
         /\ type # "void" => Pushed(Drop(s, n), type)[Len(s) - n + 1] = type
<1> DEFINE d == Drop(s, n)
<1>1. Len(s) \in Nat /\ \A k \in 1 .. Len(s) : s[k] \in Types
  BY LenProperties, ElementOfSeq
<1>2. /\ d \in Seq(Types) /\ Len(d) = Len(s) - n
      /\ \A k \in 1 .. Len(s) - n : d[k] = s[k]
  BY <1>1, SubSeqProperties DEF Drop
<1> HIDE DEF d
<1>3. CASE type = "void"
  BY <1>1, <1>2, <1>3 DEF Pushed, d
<1>4. CASE type # "void"
  <2>1. type \in Types
    BY <1>4 DEF ReturnTypes
  <2> QED BY <1>1, <1>2, <1>4, <2>1, AppendProperties DEF Pushed, d
<1> QED BY <1>3, <1>4

LEMMA Pair ==
  ASSUME NEW x, NEW y PROVE <<x>> \o <<y>> = <<x, y>>
<1> DEFINE S == {x, y}
           a == <<x>>
           b == <<y>>
           c == <<x, y>>
<1>1. a \in Seq(S) /\ b \in Seq(S) /\ c \in Seq(S)
  OBVIOUS
<1>2. Len(a) = 1 /\ Len(b) = 1 /\ Len(c) = 2 /\ a[1] = x /\ b[1] = y /\ c[1] = x /\ c[2] = y
  OBVIOUS
<1> HIDE DEF a, b, c, S
<1>3. /\ a \o b \in Seq(S) /\ Len(a \o b) = 2
      /\ \A k \in 1 .. 2 : (a \o b)[k] = IF k <= 1 THEN a[k] ELSE b[k - 1]
  BY <1>1, <1>2, ConcatProperties
<1>4. \A k \in 1 .. 2 : (a \o b)[k] = c[k]
  BY <1>2, <1>3
<1>5. a \o b = c
  BY <1>1, <1>2, <1>3, <1>4, SeqEqual
<1> QED BY <1>5 DEF a, b, c

\* The successors, by the three shapes of control.
LEMMA SuccessorFacts ==
  ASSUME NEW f, NEW pc
  PROVE  /\ f.code[pc].op = "jump" => Successors(f, pc) = <<f.code[pc].arg>>
         /\ f.code[pc].op = "jumpIfFalse" => Successors(f, pc) = <<f.code[pc].arg, pc + 1>>
         /\ Returns(f.code[pc]) => Successors(f, pc) = <<>>
         /\ ~Returns(f.code[pc]) /\ f.code[pc].op \notin {"jump", "jumpIfFalse"} =>
              Successors(f, pc) = <<pc + 1>>
<1> DEFINE i == f.code[pc]
           S == {i.arg, pc + 1}
           a == IF i.op \in {"jump", "jumpIfFalse"} THEN <<i.arg>> ELSE <<>>
           b == IF FallsThrough(i) THEN <<pc + 1>> ELSE <<>>
<1>1. Successors(f, pc) = a \o b
  BY DEF Successors
<1> HIDE DEF i
<1>2. a \in Seq(S) /\ b \in Seq(S)
  <2>1. <<i.arg>> \in Seq(S) /\ <<pc + 1>> \in Seq(S) /\ <<>> \in Seq(S)
    OBVIOUS
  <2> HIDE DEF S
  <2> QED BY <2>1
<1>3. a \o <<>> = a /\ <<>> \o b = b
  BY <1>2, ConcatEmptySeq
<1>4. <<i.arg>> \o <<pc + 1>> = <<i.arg, pc + 1>>
  BY Pair
<1>5. i.op = "jump" => a = <<i.arg>> /\ b = <<>>
  BY DEF FallsThrough
<1>6. i.op = "jumpIfFalse" => a = <<i.arg>> /\ b = <<pc + 1>>
  BY DEF FallsThrough, Returns
<1>7. Returns(i) => a = <<>> /\ b = <<>>
  BY DEF FallsThrough, Returns
<1>8. ~Returns(i) /\ i.op \notin {"jump", "jumpIfFalse"} => a = <<>> /\ b = <<pc + 1>>
  BY DEF FallsThrough
<1> HIDE DEF a, b, S
<1> QED BY <1>1, <1>3, <1>4, <1>5, <1>6, <1>7, <1>8 DEF i

LEMMA AcceptedFacts ==
  ASSUME NEW p \in Programs, Structured(p), NEW id \in UserFunctions(p),
         NEW pc \in 1 .. Len(p[id].code), NEW s \in StateOf(p[id]),
         Accepts(p, p[id], pc, s)
  PROVE  /\ Arity(p, p[id], p[id].code[pc]) <= Len(s.stack)
         /\ After(p, p[id], pc, s) \in StateOf(p[id])
         /\ \A k \in DOMAIN Successors(p[id], pc) :
              Successors(p[id], pc)[k] \in 1 .. Len(p[id].code)
         /\ Len(Successors(p[id], pc)) \in 0 .. 2
         /\ DOMAIN Successors(p[id], pc) = 1 .. Len(Successors(p[id], pc))
<1> DEFINE f == p[id]
           i == f.code[pc]
<1>1. /\ ValidInstruction(p, f, i) /\ Len(f.code) \in Nat
      /\ f.localCount \in Nat
  BY UserFacts
<1>2. /\ Arity(p, f, i) \in Nat /\ Result(p, f, i) \in ReturnTypes
      /\ i.op \in Opcodes \ {"invalid"}
  BY InstructionFacts
<1>3. s.stack \in Seq(Types) /\ Len(s.stack) \in Nat /\ s.initialized \subseteq 1 .. f.localCount
  BY LenProperties DEF StateOf
<1>4. Arity(p, f, i) <= Len(s.stack)
  <2>1. CASE i.op = "pop"
    BY <2>1, <1>3, EmptySeq DEF Accepts, Arity
  <2>2. CASE i.op # "pop"
    BY <2>2 DEF Accepts, Arity, OnTop
  <2> QED BY <2>1, <2>2
<1>5. After(p, f, pc, s) \in StateOf(f)
  <2>1. Pushed(Drop(s.stack, Arity(p, f, i)), Result(p, f, i)) \in Seq(Types)
    BY <1>2, <1>3, <1>4, PushedFacts
  <2>2. i.op = "store" => i.arg \in 1 .. f.localCount
    BY <1>1 DEF ValidInstruction
  <2> HIDE DEF f, i
  <2> QED BY <1>3, <2>1, <2>2 DEF After, StateOf, i
<1>6. i.op \in {"jump", "jumpIfFalse"} => i.arg \in 1 .. Len(f.code)
  BY <1>1 DEF ValidInstruction
<1>7. FallsThrough(i) => pc + 1 \in 1 .. Len(f.code)
  BY <1>1 DEF Accepts
<1>8. /\ \A k \in DOMAIN Successors(f, pc) : Successors(f, pc)[k] \in 1 .. Len(f.code)
      /\ Len(Successors(f, pc)) \in 0 .. 2
      /\ DOMAIN Successors(f, pc) = 1 .. Len(Successors(f, pc))
  <2> DEFINE t == Successors(f, pc)
  <2>1. CASE i.op = "jump"
    <3>1. t = <<i.arg>>
      BY <2>1, SuccessorFacts
    <3> QED BY <3>1, <2>1, <1>6
  <2>2. CASE i.op = "jumpIfFalse"
    <3>1. t = <<i.arg, pc + 1>>
      BY <2>2, SuccessorFacts
    <3>2. pc + 1 \in 1 .. Len(f.code)
      BY <2>2, <1>7 DEF FallsThrough, Returns
    <3> QED BY <3>1, <3>2, <2>2, <1>6
  <2>3. CASE Returns(i)
    <3>1. t = <<>>
      BY <2>3, SuccessorFacts
    <3> QED BY <3>1
  <2>4. CASE ~Returns(i) /\ i.op \notin {"jump", "jumpIfFalse"}
    <3>1. t = <<pc + 1>>
      BY <2>4, SuccessorFacts
    <3>2. pc + 1 \in 1 .. Len(f.code)
      BY <2>4, <1>7 DEF FallsThrough
    <3> QED BY <3>1, <3>2
  <2> QED BY <2>1, <2>2, <2>3, <2>4
<1> QED BY <1>4, <1>5, <1>8

-----------------------------------------------------------------------------
(* Merging: states only descend, and what changes is queued.               *)

FlowOf(f, flow) ==
  /\ flow = [states |-> flow.states, work |-> flow.work, diagnosed |-> flow.diagnosed]
  /\ DOMAIN flow.states \subseteq 1 .. Len(f.code)
  /\ \A pc \in DOMAIN flow.states : flow.states[pc] \in StateOf(f)
  /\ flow.work \in Seq(DOMAIN flow.states)
  /\ flow.diagnosed \in BOOLEAN

Queued(queue, pc) == \E k \in 1 .. Len(queue) : queue[k] = pc

Descends(old, new) ==
  \A pc \in DOMAIN old :
    /\ pc \in DOMAIN new
    /\ new[pc].stack = old[pc].stack
    /\ new[pc].initialized \subseteq old[pc].initialized

Grows(old, new) ==
  /\ Descends(old.states, new.states)
  /\ \A pc \in DOMAIN new.states :
       \/ Queued(new.work, pc)
       \/ pc \in DOMAIN old.states /\ new.states[pc] = old.states[pc]
  /\ \A pc \in DOMAIN old.states : Queued(old.work, pc) => Queued(new.work, pc)
  /\ old.diagnosed => new.diagnosed

\* What arrives with state s at target is an instance of the state there.
Covers(states, target, s) ==
  /\ target \in DOMAIN states
  /\ states[target].stack = s.stack
  /\ states[target].initialized \subseteq s.initialized

LEMMA GrowsReflexive == ASSUME NEW flow PROVE Grows(flow, flow)
BY DEF Grows, Descends

LEMMA GrowsTransitive ==
  ASSUME NEW a, NEW b, NEW c, Grows(a, b), Grows(b, c) PROVE Grows(a, c)
<1>1. Descends(a.states, c.states)
  BY DEF Grows, Descends
<1>2. ASSUME NEW pc \in DOMAIN c.states, ~Queued(c.work, pc)
      PROVE  pc \in DOMAIN a.states /\ c.states[pc] = a.states[pc]
  <2>1. pc \in DOMAIN b.states /\ c.states[pc] = b.states[pc]
    BY <1>2 DEF Grows
  <2>2. ~Queued(b.work, pc)
    BY <1>2, <2>1 DEF Grows
  <2> QED BY <2>1, <2>2 DEF Grows
<1>3. \A pc \in DOMAIN a.states : Queued(a.work, pc) => Queued(c.work, pc)
  BY DEF Grows, Descends
<1>4. a.diagnosed => c.diagnosed
  BY DEF Grows
<1> QED BY <1>1, <1>2, <1>3, <1>4 DEF Grows

LEMMA StaysCovered ==
  ASSUME NEW a, NEW b, Descends(a, b), NEW target, NEW s, Covers(a, target, s)
  PROVE  Covers(b, target, s)
BY DEF Descends, Covers

LEMMA ReachFacts ==
  ASSUME NEW f, NEW flow, FlowOf(f, flow),
         NEW target \in 1 .. Len(f.code), NEW s \in StateOf(f),
         target \in DOMAIN flow.states =>
           /\ s.stack = flow.states[target].stack
           /\ s.initialized \subseteq flow.states[target].initialized
  PROVE  LET r == Reach(flow, target, s)
         IN FlowOf(f, r) /\ Grows(flow, r) /\ target \in DOMAIN r.states /\ r.states[target] = s
<1> DEFINE r == Reach(flow, target, s)
           D == DOMAIN flow.states \cup {target}
           states == [pc \in D |-> IF pc = target THEN s ELSE flow.states[pc]]
           queue == Append(flow.work, target)
<1>1. r = [states |-> states, work |-> queue, diagnosed |-> flow.diagnosed]
  <2>1. r = [flow EXCEPT !.states = states, !.work = queue]
    BY DEF Reach
  <2>2. flow = [states |-> flow.states, work |-> flow.work, diagnosed |-> flow.diagnosed]
    BY DEF FlowOf
  <2> HIDE DEF r, states, queue
  <2> QED BY <2>1, <2>2
<1>2. /\ r.states = states /\ r.work = queue /\ r.diagnosed = flow.diagnosed
      /\ DOMAIN r.states = D
  BY <1>1
<1>3. /\ \A pc \in DOMAIN flow.states : pc # target => states[pc] = flow.states[pc]
      /\ states[target] = s
      /\ \A pc \in D : states[pc] \in StateOf(f)
      /\ D \subseteq 1 .. Len(f.code)
  BY DEF FlowOf
<1>4. /\ queue \in Seq(D) /\ Len(queue) = Len(flow.work) + 1 /\ Len(flow.work) \in Nat
      /\ \A k \in 1 .. Len(flow.work) : queue[k] = flow.work[k]
      /\ queue[Len(flow.work) + 1] = target
  <2>1. flow.work \in Seq(D) /\ target \in D
    BY SeqMonotonic DEF FlowOf
  <2> HIDE DEF D
  <2> QED BY <2>1, AppendProperties, LenProperties
<1> HIDE DEF r, D, states, queue
<1>5. Queued(queue, target)
  BY <1>4 DEF Queued
<1>6. \A pc \in DOMAIN flow.states : Queued(flow.work, pc) => Queued(queue, pc)
  BY <1>4 DEF Queued
<1>7. FlowOf(f, r)
  BY <1>1, <1>2, <1>3, <1>4 DEF FlowOf
<1>8. Descends(flow.states, r.states)
  BY <1>2, <1>3 DEF Descends, D
<1>9. Grows(flow, r)
  BY <1>2, <1>3, <1>5, <1>6, <1>8 DEF Grows, D
<1> QED BY <1>2, <1>3, <1>7, <1>9 DEF r, D

LEMMA MergeFacts ==
  ASSUME NEW f, NEW flow, FlowOf(f, flow),
         NEW target \in 1 .. Len(f.code), NEW s \in StateOf(f)
  PROVE  LET r == Merge(flow, target, s)
         IN /\ FlowOf(f, r) /\ Grows(flow, r)
            /\ ~r.diagnosed => Covers(r.states, target, s)
<1> DEFINE r == Merge(flow, target, s)
           old == flow.states[target]
<1>1. CASE target \notin DOMAIN flow.states
  <2>1. r = Reach(flow, target, s)
    BY <1>1 DEF Merge
  <2> QED BY <1>1, <2>1, ReachFacts DEF Covers
<1>2. CASE target \in DOMAIN flow.states /\ old.stack # s.stack
  <2>1. r = [flow EXCEPT !.diagnosed = TRUE]
    BY <1>2 DEF Merge
  <2>2. r = [states |-> flow.states, work |-> flow.work, diagnosed |-> TRUE]
    BY <2>1 DEF FlowOf
  <2>3. r.states = flow.states /\ r.work = flow.work /\ r.diagnosed = TRUE
    BY <2>2
  <2> HIDE DEF r
  <2>4. FlowOf(f, r) /\ Grows(flow, r)
    BY <2>2, <2>3 DEF FlowOf, Grows, Descends
  <2> QED BY <2>3, <2>4 DEF r
<1>3. CASE /\ target \in DOMAIN flow.states /\ old.stack = s.stack
           /\ old.initialized \subseteq s.initialized
  <2>1. r = flow
    BY <1>3 DEF Merge
  <2> QED BY <1>3, <2>1, GrowsReflexive DEF Covers
<1>4. CASE /\ target \in DOMAIN flow.states /\ old.stack = s.stack
           /\ ~(old.initialized \subseteq s.initialized)
  <2> DEFINE new == [old EXCEPT !.initialized = @ \cap s.initialized]
  <2>1. r = Reach(flow, target, new)
    BY <1>4 DEF Merge
  <2>2. old \in StateOf(f)
    BY <1>4 DEF FlowOf
  <2>3. /\ new \in StateOf(f) /\ new.stack = old.stack
        /\ new.initialized = old.initialized \cap s.initialized
    <3> HIDE DEF old
    <3> QED BY <2>2 DEF StateOf
  <2> HIDE DEF new
  <2>4. /\ FlowOf(f, r) /\ Grows(flow, r)
        /\ target \in DOMAIN r.states /\ r.states[target] = new
    BY <2>1, <2>3, ReachFacts
  <2> QED BY <1>4, <2>3, <2>4 DEF Covers
<1> QED BY <1>1, <1>2, <1>3, <1>4

LEMMA MergeAllFacts ==
  ASSUME NEW f, NEW flow, FlowOf(f, flow), NEW s \in StateOf(f), NEW targets,
         Len(targets) \in 0 .. 2, DOMAIN targets = 1 .. Len(targets),
         \A k \in DOMAIN targets : targets[k] \in 1 .. Len(f.code)
  PROVE  LET r == MergeAll(flow, targets, s)
         IN /\ FlowOf(f, r) /\ Grows(flow, r)
            /\ ~r.diagnosed => \A k \in DOMAIN targets : Covers(r.states, targets[k], s)
<1> DEFINE r == MergeAll(flow, targets, s)
<1>1. CASE Len(targets) = 0
  <2>1. r = flow
    BY <1>1 DEF MergeAll
  <2> QED BY <1>1, <2>1, GrowsReflexive
<1>2. CASE Len(targets) = 1
  <2>1. r = Merge(flow, targets[1], s)
    BY <1>2 DEF MergeAll
  <2>2. targets[1] \in 1 .. Len(f.code)
    BY <1>2
  <2> QED BY <1>2, <2>1, <2>2, MergeFacts
<1>3. CASE Len(targets) = 2
  <2> DEFINE a == Merge(flow, targets[1], s)
  <2>1. r = Merge(a, targets[2], s)
    BY <1>3 DEF MergeAll
  <2>2. targets[1] \in 1 .. Len(f.code) /\ targets[2] \in 1 .. Len(f.code)
    BY <1>3
  <2>3. /\ FlowOf(f, a) /\ Grows(flow, a)
        /\ ~a.diagnosed => Covers(a.states, targets[1], s)
    BY <2>2, MergeFacts
  <2> HIDE DEF a
  <2>4. /\ FlowOf(f, r) /\ Grows(a, r)
        /\ ~r.diagnosed => Covers(r.states, targets[2], s)
    BY <2>1, <2>2, <2>3, MergeFacts
  <2> HIDE DEF r
  <2>5. Grows(flow, r)
    BY <2>3, <2>4, GrowsTransitive
  <2>6. ~r.diagnosed => Covers(r.states, targets[1], s)
    BY <2>3, <2>4, StaysCovered DEF Grows
  <2>7. DOMAIN targets = {1, 2}
    BY <1>3
  <2> QED BY <2>4, <2>5, <2>6, <2>7 DEF r
<1> QED BY <1>1, <1>2, <1>3

-----------------------------------------------------------------------------
(* The data flow: every state that is not a solution is still queued.      *)

Settled(p, states, id, pc) ==
  LET s == states[pc]
  IN /\ Accepts(p, p[id], pc, s)
     /\ \A k \in DOMAIN Successors(p[id], pc) :
          Covers(states, Successors(p[id], pc)[k], After(p, p[id], pc, s))

StatesOf(p, id, states) ==
  /\ DOMAIN states \subseteq 1 .. Len(p[id].code)
  /\ \A pc \in DOMAIN states : states[pc] \in StateOf(p[id])

FlowTypes ==
  /\ program \in Programs
  /\ current \in Seq(UserFunctions(program))
  /\ diagnosed \in BOOLEAN
  /\ DOMAIN incoming = UserFunctions(program)
  /\ \A id \in UserFunctions(program) : StatesOf(program, id, incoming[id])
  /\ current = <<>> => work = <<>>
  /\ current # <<>> => Structured(program) /\ work \in Seq(DOMAIN incoming[Current])

Fresh == \A id \in UserFunctions(program) \ Started : DOMAIN incoming[id] = {}
Entered == \A id \in Started : Covers(incoming[id], 1, Entry(program[id]))

Closed ==
  ~diagnosed =>
    \A id \in Started : \A pc \in DOMAIN incoming[id] :
      \/ Settled(program, incoming[id], id, pc)
      \/ id = Current /\ Queued(work, pc)

Concluded ==
  verdict = "accepted" =>
    /\ ~diagnosed /\ work = <<>>
    /\ Structured(program) /\ Started = UserFunctions(program)

FlowInv == FlowTypes /\ Fresh /\ Entered /\ Closed /\ Concluded

\* The current function is one of the program that was begun.
LEMMA CurrentFacts ==
  ASSUME FlowTypes, current # <<>>
  PROVE  Current \in Started /\ Current \in UserFunctions(program)
<1>1. Len(current) \in 1 .. Len(current) /\ DOMAIN current = 1 .. Len(current)
  BY EmptySeq, LenProperties DEF FlowTypes
<1> QED BY <1>1, ElementOfSeq DEF FlowTypes, Current, Started

LEMMA StartedFacts == FlowTypes => Started \subseteq UserFunctions(program)
BY LenProperties, ElementOfSeq DEF FlowTypes, Started

LEMMA FlowInit == VerifierInit => FlowInv
<1> SUFFICES ASSUME VerifierInit PROVE FlowInv
  OBVIOUS
<1>1. current = <<>> /\ Started = {}
  BY DEF VerifierInit, Started
<1>2. \A id \in UserFunctions(program) : DOMAIN incoming[id] = {}
  <2>1. DOMAIN <<>> = {}
    OBVIOUS
  <2> QED BY <2>1 DEF VerifierInit
<1>3. FlowTypes
  BY <1>1, <1>2, EmptySeq DEF VerifierInit, FlowTypes, StatesOf
<1> QED BY <1>1, <1>2, <1>3 DEF FlowInv, Fresh, Entered, Closed, Concluded, VerifierInit

LEMMA BeginFlow ==
  ASSUME FlowInv, NEW id \in UserFunctions(program), Begin(id)
  PROVE  /\ FlowInv'
         /\ \A other \in UserFunctions(program) : Descends(incoming[other], incoming'[other])
<1> DEFINE states == [pc \in {1} |-> Entry(program[id])]
<1>1. /\ Structured(program) /\ program \in Programs /\ work = <<>> /\ id \notin Started
      /\ program' = program /\ diagnosed' = diagnosed /\ verdict' = verdict
      /\ verdict = "pending" /\ work' = <<1>>
      /\ DOMAIN incoming = UserFunctions(program)
      /\ current \in Seq(UserFunctions(program))
  BY DEF Begin, FlowInv, FlowTypes
<1>2. /\ DOMAIN incoming' = UserFunctions(program)
      /\ incoming'[id] = states
      /\ \A other \in UserFunctions(program) \ {id} : incoming'[other] = incoming[other]
  BY <1>1 DEF Begin
<1>3. /\ current' = Append(current, id) /\ current' \in Seq(UserFunctions(program))
      /\ current' # <<>>
      /\ Len(current') = Len(current) + 1 /\ Len(current) \in Nat
      /\ \A k \in 1 .. Len(current) : current'[k] = current[k]
      /\ current'[Len(current) + 1] = id
  BY <1>1, AppendProperties, LenProperties DEF Begin
<1>4. Current' = id
  BY <1>3 DEF Current
<1>5. Started' = Started \cup {id}
  <2>1. DOMAIN current = 1 .. Len(current) /\ DOMAIN current' = 1 .. Len(current) + 1
    BY <1>1, <1>3, LenProperties
  <2> QED BY <1>3, <2>1 DEF Started
<1>6. Entry(program[id]) \in StateOf(program[id]) /\ 1 \in 1 .. Len(program[id].code)
  <2>1. /\ Params(program[id]) <= program[id].localCount
        /\ Params(program[id]) \in Nat /\ program[id].localCount \in Nat
        /\ 1 \in 1 .. Len(program[id].code)
    BY <1>1, UserFacts, SignatureFacts
  <2> QED BY <2>1, EmptySeq DEF Entry, StateOf
<1>7. DOMAIN states = {1} /\ states[1] = Entry(program[id])
  OBVIOUS
<1> HIDE DEF states
<1>8. FlowTypes'
  <2>1. \A other \in UserFunctions(program) : StatesOf(program, other, incoming'[other])
    BY <1>2, <1>6, <1>7 DEF FlowInv, FlowTypes, StatesOf
  <2>2. work' \in Seq(DOMAIN incoming'[id])
    BY <1>1, <1>2, <1>7
  <2> QED BY <1>1, <1>2, <1>3, <1>4, <2>1, <2>2 DEF FlowInv, FlowTypes
<1>9. Fresh'
  BY <1>1, <1>2, <1>5 DEF Fresh, FlowInv
<1>10. Entered'
  <2>1. Covers(states, 1, Entry(program[id]))
    BY <1>7 DEF Covers
  <2>2. \A other \in Started : other \in UserFunctions(program) \ {id}
    BY <1>1, StartedFacts DEF FlowInv
  <2> QED BY <1>1, <1>2, <1>5, <2>1, <2>2 DEF Entered, FlowInv
<1>11. Closed'
  <2> SUFFICES ASSUME ~diagnosed, NEW other \in Started', NEW pc \in DOMAIN incoming'[other]
               PROVE  \/ Settled(program, incoming'[other], other, pc)
                      \/ other = id /\ Queued(work', pc)
    BY <1>1, <1>4 DEF Closed
  <2>1. CASE other = id
    <3>1. pc = 1 /\ Len(work') = 1 /\ work'[1] = 1
      BY <1>1, <1>2, <1>7, <2>1
    <3> QED BY <2>1, <3>1 DEF Queued
  <2>2. CASE other # id
    <3>1. other \in Started /\ other \in UserFunctions(program)
      BY <1>5, <2>2, StartedFacts DEF FlowInv
    <3>2. incoming'[other] = incoming[other] /\ ~Queued(work, pc)
      BY <1>1, <1>2, <2>2, <3>1, EmptySeq DEF Queued
    <3> QED BY <3>1, <3>2 DEF FlowInv, Closed
  <2> QED BY <2>1, <2>2
<1>12. Concluded'
  BY <1>1 DEF Concluded
<1>13. \A other \in UserFunctions(program) : Descends(incoming[other], incoming'[other])
  <2>1. DOMAIN incoming[id] = {}
    BY <1>1 DEF FlowInv, Fresh
  <2> QED BY <1>2, <2>1 DEF Descends
<1> QED BY <1>8, <1>9, <1>10, <1>11, <1>12, <1>13 DEF FlowInv

\* One visit, as a fact about the states of the current function.
LEMMA VisitFacts ==
  ASSUME FlowInv, Visit
  PROVE  \E flow :
           /\ FlowOf(program[Current], flow)
           /\ incoming' = [incoming EXCEPT ![Current] = flow.states]
           /\ work' = flow.work /\ diagnosed' = flow.diagnosed
           /\ Descends(incoming[Current], flow.states)
           /\ diagnosed => flow.diagnosed
           /\ ~flow.diagnosed => \A pc \in DOMAIN flow.states :
                Settled(program, flow.states, Current, pc) \/ Queued(flow.work, pc)
<1> DEFINE id == Current
           f == program[id]
           pc == Head(work)
           s == incoming[id][pc]
           popped == [states |-> incoming[id], work |-> Tail(work), diagnosed |-> diagnosed]
           targets == Successors(f, pc)
           after == After(program, f, pc, s)
           flow == IF Accepts(program, f, pc, s) THEN MergeAll(popped, targets, after)
                   ELSE [popped EXCEPT !.diagnosed = TRUE]
<1>1. /\ incoming' = [incoming EXCEPT ![id] = flow.states]
      /\ work' = flow.work /\ diagnosed' = flow.diagnosed
      /\ work # <<>>
  BY DEF Visit
<1>2. /\ current # <<>> /\ Structured(program) /\ program \in Programs
      /\ work \in Seq(DOMAIN incoming[id])
      /\ diagnosed \in BOOLEAN
  BY <1>1 DEF FlowInv, FlowTypes
<1>3. id \in UserFunctions(program) /\ id \in Started
  BY <1>2, CurrentFacts DEF FlowInv
<1>4. StatesOf(program, id, incoming[id])
  BY <1>3 DEF FlowInv, FlowTypes
<1>5. /\ pc \in DOMAIN incoming[id] /\ Tail(work) \in Seq(DOMAIN incoming[id])
      /\ Len(work) \in Nat \ {0}
      /\ Len(Tail(work)) = Len(work) - 1
      /\ \A k \in 1 .. Len(Tail(work)) : Tail(work)[k] = work[k + 1]
      /\ pc = work[1]
  BY <1>1, <1>2, HeadTailProperties, EmptySeq
<1>6. pc \in 1 .. Len(f.code) /\ s \in StateOf(f)
  BY <1>4, <1>5 DEF StatesOf
<1>7. popped.states = incoming[id] /\ popped.work = Tail(work) /\ popped.diagnosed = diagnosed
  OBVIOUS
<1>8. FlowOf(f, popped)
  BY <1>2, <1>4, <1>5, <1>7 DEF FlowOf, StatesOf
<1>9. \A q \in DOMAIN incoming[id] : q # pc /\ Queued(work, q) => Queued(Tail(work), q)
  <2> SUFFICES ASSUME NEW q \in DOMAIN incoming[id], q # pc, Queued(work, q)
               PROVE  Queued(Tail(work), q)
    OBVIOUS
  <2>1. PICK k \in 1 .. Len(work) : work[k] = q
    BY DEF Queued
  <2>2. k # 1
    BY <1>5, <2>1
  <2>3. k - 1 \in 1 .. Len(Tail(work)) /\ Tail(work)[k - 1] = work[k]
    <3> HIDE DEF pc
    <3> QED BY <1>5, <2>2
  <2> QED BY <2>1, <2>3 DEF Queued
<1>10. CASE ~Accepts(program, f, pc, s)
  <2>1. flow = [states |-> incoming[id], work |-> Tail(work), diagnosed |-> TRUE]
    BY <1>10
  <2> HIDE DEF flow
  <2>2. flow.states = incoming[id] /\ flow.work = Tail(work) /\ flow.diagnosed = TRUE
    BY <2>1
  <2>3. FlowOf(f, flow)
    BY <2>1, <2>2, <1>4, <1>5 DEF FlowOf, StatesOf
  <2>4. Descends(incoming[id], flow.states)
    BY <2>2 DEF Descends
  <2> WITNESS flow
  <2> QED BY <1>1, <2>2, <2>3, <2>4
<1>11. CASE Accepts(program, f, pc, s)
  <2>1. flow = MergeAll(popped, targets, after)
    BY <1>11
  <2>2. /\ after \in StateOf(f)
        /\ Len(targets) \in 0 .. 2 /\ DOMAIN targets = 1 .. Len(targets)
        /\ \A k \in DOMAIN targets : targets[k] \in 1 .. Len(f.code)
    BY <1>2, <1>3, <1>6, <1>11, AcceptedFacts
  <2> HIDE DEF flow, popped, targets, after, f, s, pc, id
  <2>3. /\ FlowOf(f, flow) /\ Grows(popped, flow)
        /\ ~flow.diagnosed => \A k \in DOMAIN targets : Covers(flow.states, targets[k], after)
    BY <1>8, <2>1, <2>2, MergeAllFacts
  <2>4. Descends(incoming[id], flow.states) /\ (diagnosed => flow.diagnosed)
    BY <1>7, <2>3 DEF Grows
  <2>5. ASSUME ~flow.diagnosed, NEW q \in DOMAIN flow.states, ~Queued(flow.work, q)
        PROVE  Settled(program, flow.states, id, q)
    <3>1. /\ q \in DOMAIN incoming[id] /\ flow.states[q] = incoming[id][q]
      BY <1>7, <2>3, <2>5 DEF Grows
    <3>2. CASE q = pc
      <4>1. flow.states[q] = s
        BY <3>1, <3>2 DEF s
      <4> QED BY <1>11, <2>3, <2>5, <3>2, <4>1 DEF Settled, targets, after, f
    <3>3. CASE q # pc
      <4>1. ~Queued(work, q)
        BY <1>7, <1>9, <2>3, <2>5, <3>1, <3>3 DEF Grows
      <4>2. Settled(program, incoming[id], id, q)
        BY <1>3, <2>4, <2>5, <3>1, <4>1 DEF FlowInv, Closed, id
      <4> QED BY <2>4, <3>1, <4>2, StaysCovered DEF Settled
    <3> QED BY <3>2, <3>3
  <2> WITNESS flow
  <2> QED BY <1>1, <2>3, <2>4, <2>5 DEF f, id
<1> QED BY <1>10, <1>11

LEMMA VisitFlow ==
  ASSUME FlowInv, Visit
  PROVE  FlowInv' /\ \A id \in UserFunctions(program) : Descends(incoming[id], incoming'[id])
<1>1. PICK flow :
        /\ FlowOf(program[Current], flow)
        /\ incoming' = [incoming EXCEPT ![Current] = flow.states]
        /\ work' = flow.work /\ diagnosed' = flow.diagnosed
        /\ Descends(incoming[Current], flow.states)
        /\ diagnosed => flow.diagnosed
        /\ ~flow.diagnosed => \A pc \in DOMAIN flow.states :
             Settled(program, flow.states, Current, pc) \/ Queued(flow.work, pc)
  BY VisitFacts
<1>2. /\ program' = program /\ current' = current /\ verdict' = verdict
      /\ verdict = "pending" /\ current # <<>>
  BY DEF Visit, FlowInv, FlowTypes
<1>3. Current \in Started /\ Current \in UserFunctions(program)
  BY <1>2, CurrentFacts DEF FlowInv
<1>4. Current' = Current /\ Started' = Started
  BY <1>2 DEF Current, Started
<1>5. /\ DOMAIN incoming' = UserFunctions(program)
      /\ incoming'[Current] = flow.states
      /\ \A id \in UserFunctions(program) \ {Current} : incoming'[id] = incoming[id]
  BY <1>1, <1>3 DEF FlowInv, FlowTypes
<1>6. FlowTypes'
  BY <1>1, <1>2, <1>4, <1>5 DEF FlowInv, FlowTypes, StatesOf, FlowOf
<1>7. Fresh'
  BY <1>2, <1>3, <1>4, <1>5 DEF FlowInv, Fresh
<1>8. Entered'
  <2> SUFFICES ASSUME NEW id \in Started PROVE Covers(incoming'[id], 1, Entry(program[id]))
    BY <1>2, <1>4 DEF Entered
  <2>1. Covers(incoming[id], 1, Entry(program[id])) /\ id \in UserFunctions(program)
    BY StartedFacts DEF FlowInv, Entered
  <2>2. CASE id = Current
    BY <1>1, <1>5, <2>1, <2>2, StaysCovered
  <2>3. CASE id # Current
    BY <1>5, <2>1, <2>3
  <2> QED BY <2>2, <2>3
<1>9. Closed'
  <2> SUFFICES ASSUME ~diagnosed', NEW id \in Started, NEW pc \in DOMAIN incoming'[id]
               PROVE  \/ Settled(program, incoming'[id], id, pc)
                      \/ id = Current /\ Queued(work', pc)
    BY <1>2, <1>4 DEF Closed
  <2>1. id \in UserFunctions(program)
    BY StartedFacts DEF FlowInv
  <2>2. CASE id = Current
    BY <1>1, <1>5, <2>2
  <2>3. CASE id # Current
    <3>1. incoming'[id] = incoming[id] /\ ~diagnosed
      BY <1>1, <1>5, <2>1, <2>3
    <3> QED BY <3>1, <2>3 DEF FlowInv, Closed
  <2> QED BY <2>2, <2>3
<1>10. Concluded'
  BY <1>2 DEF Concluded
<1>11. \A id \in UserFunctions(program) : Descends(incoming[id], incoming'[id])
  <2> SUFFICES ASSUME NEW id \in UserFunctions(program) PROVE Descends(incoming[id], incoming'[id])
    OBVIOUS
  <2>1. CASE id = Current
    BY <1>1, <1>5, <2>1
  <2>2. CASE id # Current
    BY <1>5, <2>2 DEF Descends
  <2> QED BY <2>1, <2>2
<1> QED BY <1>6, <1>7, <1>8, <1>9, <1>10, <1>11 DEF FlowInv

LEMMA SameFlow ==
  ASSUME FlowInv, UNCHANGED verifierVars
  PROVE  FlowInv' /\ \A id \in UserFunctions(program) : Descends(incoming[id], incoming'[id])
<1>1. /\ program' = program /\ incoming' = incoming /\ work' = work
      /\ current' = current /\ diagnosed' = diagnosed /\ verdict' = verdict
  BY DEF verifierVars
<1>2. FlowInv'
  BY <1>1 DEF FlowInv, FlowTypes, Fresh, Entered, Closed, Concluded, Started, Current
<1> QED BY <1>1, <1>2 DEF Descends

LEMMA VerifierFlow ==
  ASSUME FlowInv, VerifierStep
  PROVE  FlowInv' /\ \A id \in UserFunctions(program) : Descends(incoming[id], incoming'[id])
<1>1. CASE RejectStructure
  <2>1. /\ program' = program /\ incoming' = incoming /\ work' = work
        /\ current' = current /\ diagnosed' = TRUE /\ verdict' = "rejected"
        /\ current = <<>> /\ DOMAIN current = {}
    BY <1>1 DEF RejectStructure
  <2>2. FlowInv'
    BY <2>1 DEF FlowInv, FlowTypes, Fresh, Entered, Closed, Concluded, Started
  <2> QED BY <2>1, <2>2 DEF Descends
<1>2. ASSUME NEW id \in UserFunctions(program), Begin(id)
      PROVE  /\ FlowInv'
             /\ \A other \in UserFunctions(program) : Descends(incoming[other], incoming'[other])
  BY <1>2, BeginFlow
<1>3. CASE Visit
  BY <1>3, VisitFlow
<1>4. CASE Conclude
  <2>1. /\ program' = program /\ incoming' = incoming /\ work' = work
        /\ current' = current /\ diagnosed' = diagnosed
        /\ verdict' = IF diagnosed THEN "rejected" ELSE "accepted"
        /\ work = <<>> /\ Structured(program) /\ Started = UserFunctions(program)
    BY <1>4 DEF Conclude
  <2>2. FlowInv'
    BY <2>1 DEF FlowInv, FlowTypes, Fresh, Entered, Closed, Concluded, Started, Current
  <2> QED BY <2>1, <2>2 DEF Descends
<1> QED BY <1>1, <1>2, <1>3, <1>4 DEF VerifierStep

-----------------------------------------------------------------------------
(* The machine on a solution inc of the data flow of program p.            *)

Verified(p, inc) ==
  /\ p \in Programs /\ Structured(p)
  /\ \A id \in UserFunctions(p) :
       /\ StatesOf(p, id, inc[id])
       /\ Covers(inc[id], 1, Entry(p[id]))
       /\ \A pc \in DOMAIN inc[id] : Settled(p, inc[id], id, pc)

FrameOf(p) ==
  [fn : UserFunctions(p), pc : Nat, stackBase : Nat, locals : Seq(Types \cup {Unset})]

\* The operands that inc predicts for a frame; the place that a caller keeps
\* for the result of a callee.
Expected(inc, frame) == inc[frame.fn][frame.pc].stack
Place(p, callee) == IF p[callee.fn].returnType = "void" THEN 0 ELSE 1

InFrame(p, inc, frame) ==
  /\ frame.pc \in DOMAIN inc[frame.fn]
  /\ Len(frame.locals) = p[frame.fn].localCount
  /\ \A slot \in inc[frame.fn][frame.pc].initialized :
       frame.locals[slot] = p[frame.fn].localTypes[slot]

OnTopOf(inc, st, frame) ==
  /\ Len(st) = frame.stackBase + Len(Expected(inc, frame))
  /\ \A k \in 1 .. Len(Expected(inc, frame)) : st[frame.stackBase + k] = Expected(inc, frame)[k]

Waits(p, inc, st, frame, callee) ==
  LET predicted == Expected(inc, frame)
  IN /\ frame.stackBase + Len(predicted) = callee.stackBase + Place(p, callee)
     /\ \A k \in 1 .. callee.stackBase - frame.stackBase : st[frame.stackBase + k] = predicted[k]
     /\ p[callee.fn].returnType # "void" => predicted[Len(predicted)] = p[callee.fn].returnType

Sound(p, inc, fs, st) ==
  /\ fs \in Seq(FrameOf(p)) /\ st \in Seq(Types)
  /\ \A k \in 1 .. Len(fs) : InFrame(p, inc, fs[k])
  /\ \A j, k \in 1 .. Len(fs) : j <= k => fs[j].stackBase <= fs[k].stackBase
  /\ \A k \in 1 .. Len(fs) - 1 : Waits(p, inc, st, fs[k], fs[k + 1])
  /\ fs # <<>> => OnTopOf(inc, st, fs[Len(fs)])

\* What is known of the frame on top of a sound machine: its instruction
\* accepts the state predicted, in which the frame is.
Predicts(p, inc, st, top) ==
  LET f == p[top.fn]
      s == inc[top.fn][top.pc]
  IN /\ top \in FrameOf(p) /\ top.fn \in UserFunctions(p)
     /\ top.pc \in 1 .. Len(f.code) /\ s \in StateOf(f)
     /\ s.stack \in Seq(Types) /\ Len(s.stack) \in Nat
     /\ Accepts(p, f, top.pc, s)
     /\ \A k \in DOMAIN Successors(f, top.pc) :
          Covers(inc[top.fn], Successors(f, top.pc)[k], After(p, f, top.pc, s))
     /\ Len(st) = top.stackBase + Len(s.stack)
     /\ \A k \in 1 .. Len(s.stack) : st[top.stackBase + k] = s.stack[k]
     /\ Len(top.locals) = f.localCount
     /\ \A slot \in s.initialized : top.locals[slot] = f.localTypes[slot]

LEMMA TopFacts ==
  ASSUME NEW p, NEW inc, Verified(p, inc), NEW fs, NEW st, Sound(p, inc, fs, st), fs # <<>>
  PROVE  Len(fs) \in Nat \ {0} /\ Predicts(p, inc, st, fs[Len(fs)])
<1> DEFINE top == fs[Len(fs)]
           f == p[top.fn]
           s == inc[top.fn][top.pc]
<1>1. Len(fs) \in Nat \ {0} /\ top \in FrameOf(p)
  BY EmptySeq, ElementOfSeq DEF Sound
<1>2. top.fn \in UserFunctions(p)
  BY <1>1 DEF FrameOf
<1>3. InFrame(p, inc, top) /\ OnTopOf(inc, st, top)
  BY <1>1 DEF Sound
<1>4. top.pc \in 1 .. Len(f.code) /\ s \in StateOf(f)
  BY <1>2, <1>3 DEF Verified, StatesOf, InFrame
<1>5. Settled(p, inc[top.fn], top.fn, top.pc)
  BY <1>2, <1>3 DEF Verified, InFrame
<1>6. s.stack \in Seq(Types) /\ Len(s.stack) \in Nat
  BY <1>4, LenProperties DEF StateOf
<1> HIDE DEF top
<1> QED BY <1>1, <1>2, <1>3, <1>4, <1>5, <1>6 DEF Predicts, Settled, InFrame, OnTopOf, Expected, top

\* The operands of the instruction on top are on the shared stack, above the
\* base of its frame.
LEMMA OperandsThere ==
  ASSUME NEW p, NEW inc, Verified(p, inc), NEW fs, NEW st, Sound(p, inc, fs, st), fs # <<>>
  PROVE  LET top == fs[Len(fs)]
             f == p[top.fn]
             i == f.code[top.pc]
             operands == Operands(p, f, i)
         IN /\ Arity(p, f, i) \in Nat /\ top.stackBase \in Nat /\ Len(st) \in Nat
            /\ Len(operands) \in Nat
            /\ top.stackBase + Arity(p, f, i) <= Len(st)
            /\ OnTop(st, operands)
            /\ Returns(i) => Len(st) - Arity(p, f, i) = top.stackBase
<1> DEFINE top == fs[Len(fs)]
           f == p[top.fn]
           i == f.code[top.pc]
           s == inc[top.fn][top.pc]
           operands == Operands(p, f, i)
<1>1. /\ top.fn \in UserFunctions(p) /\ top.pc \in 1 .. Len(f.code) /\ s \in StateOf(f)
      /\ Accepts(p, f, top.pc, s) /\ Len(s.stack) \in Nat
      /\ Len(st) = top.stackBase + Len(s.stack)
      /\ \A k \in 1 .. Len(s.stack) : st[top.stackBase + k] = s.stack[k]
      /\ top \in FrameOf(p) /\ p \in Programs /\ Structured(p)
  <2>1. Predicts(p, inc, st, top)
    BY TopFacts
  <2> QED BY <2>1 DEF Predicts, Verified
<1>2. /\ Arity(p, f, i) \in Nat /\ Len(operands) \in 0 .. Arity(p, f, i)
  BY <1>1, InstructionFacts
<1>3. Arity(p, f, i) <= Len(s.stack)
  BY <1>1, AcceptedFacts
<1>4. top.stackBase \in Nat
  BY <1>1 DEF FrameOf
<1>5. OnTop(s.stack, operands)
  BY <1>1 DEF Accepts
<1>6. Returns(i) => Len(s.stack) = Arity(p, f, i)
  <2>1. CASE i.op = "returnValue"
    BY <1>1, <2>1, InstructionFacts DEF Accepts, Arity, Operands
  <2>2. CASE i.op = "returnVoid"
    BY <1>1, <2>2, InstructionFacts, EmptySeq DEF Accepts, Arity, Operands
  <2> QED BY <2>1, <2>2 DEF Returns
<1> HIDE DEF top, f, i, s, operands
<1>7. OnTop(st, operands)
  <2> SUFFICES ASSUME NEW k \in 1 .. Len(operands)
               PROVE  st[Len(st) - Len(operands) + k] = operands[k]
    BY <1>1, <1>2, <1>3, <1>4 DEF OnTop
  <2>1. s.stack[Len(s.stack) - Len(operands) + k] = operands[k]
    BY <1>5 DEF OnTop
  <2>2. Len(s.stack) - Len(operands) + k \in 1 .. Len(s.stack)
    BY <1>1, <1>2, <1>3
  <2>3. top.stackBase + (Len(s.stack) - Len(operands) + k) = Len(st) - Len(operands) + k
    BY <1>1, <1>2, <1>4
  <2> QED BY <1>1, <2>1, <2>2, <2>3
<1>8. /\ Arity(p, f, i) \in Nat /\ top.stackBase \in Nat /\ Len(st) \in Nat
      /\ Len(operands) \in Nat
      /\ top.stackBase + Arity(p, f, i) <= Len(st)
      /\ Returns(i) => Len(st) - Arity(p, f, i) = top.stackBase
  BY <1>1, <1>2, <1>3, <1>4, <1>6
<1> QED BY <1>7, <1>8 DEF top, f, i, operands

-----------------------------------------------------------------------------
(* A sound machine after one instruction.                                  *)

\* Callers only look at the stack below the base of the frame on top.
LEMMA CallersKeepWaiting ==
  ASSUME NEW p, NEW inc, NEW fs, NEW st, Sound(p, inc, fs, st), fs # <<>>,
         NEW st2, \A k \in 1 .. fs[Len(fs)].stackBase : st2[k] = st[k],
         NEW k \in 1 .. Len(fs) - 1, NEW callee,
         callee.fn = fs[k + 1].fn, callee.stackBase = fs[k + 1].stackBase
  PROVE  Waits(p, inc, st2, fs[k], callee)
<1>1. Len(fs) \in Nat \ {0} /\ k \in 1 .. Len(fs) /\ k + 1 \in 1 .. Len(fs)
  BY EmptySeq DEF Sound
<1>2. fs[k] \in FrameOf(p) /\ fs[k + 1] \in FrameOf(p) /\ fs[Len(fs)] \in FrameOf(p)
  BY <1>1, ElementOfSeq DEF Sound
<1>3. /\ fs[k].stackBase \in Nat /\ callee.stackBase \in Nat /\ fs[Len(fs)].stackBase \in Nat
  BY <1>2 DEF FrameOf
<1>4. callee.stackBase <= fs[Len(fs)].stackBase
  BY <1>1 DEF Sound
<1>5. Waits(p, inc, st, fs[k], fs[k + 1])
  BY DEF Sound
<1>6. ASSUME NEW j \in 1 .. callee.stackBase - fs[k].stackBase
      PROVE  st2[fs[k].stackBase + j] = st[fs[k].stackBase + j]
  <2>1. fs[k].stackBase + j \in 1 .. fs[Len(fs)].stackBase
    BY <1>3, <1>4
  <2> QED BY <2>1
<1> QED BY <1>5, <1>6 DEF Waits, Place

WithTop(fs, frame) == [fs EXCEPT ![Len(fs)] = frame]

LEMMA ReplaceTop ==
  ASSUME NEW p, NEW inc, NEW fs, NEW st, Sound(p, inc, fs, st), fs # <<>>,
         NEW frame \in FrameOf(p), frame.fn = fs[Len(fs)].fn,
         frame.stackBase = fs[Len(fs)].stackBase, InFrame(p, inc, frame),
         NEW st2 \in Seq(Types), OnTopOf(inc, st2, frame),
         \A k \in 1 .. fs[Len(fs)].stackBase : st2[k] = st[k]
  PROVE  Sound(p, inc, WithTop(fs, frame), st2)
<1> DEFINE n == Len(fs)
           fs2 == [fs EXCEPT ![n] = frame]
<1>1. fs \in Seq(FrameOf(p)) /\ n \in Nat \ {0}
  BY EmptySeq DEF Sound
<1>2. /\ fs2 \in Seq(FrameOf(p)) /\ Len(fs2) = n
      /\ \A k \in 1 .. n : fs2[k] = IF k = n THEN frame ELSE fs[k]
  BY <1>1, ExceptSeq
<1> HIDE DEF fs2
<1>3. \A k \in 1 .. n : fs2[k].fn = fs[k].fn /\ fs2[k].stackBase = fs[k].stackBase
  BY <1>2
<1>4. \A k \in 1 .. n : InFrame(p, inc, fs2[k])
  BY <1>2 DEF Sound
<1>5. \A j, k \in 1 .. n : j <= k => fs2[j].stackBase <= fs2[k].stackBase
  BY <1>3 DEF Sound
<1>6. ASSUME NEW k \in 1 .. n - 1 PROVE Waits(p, inc, st2, fs2[k], fs2[k + 1])
  <2>1. k \in 1 .. n /\ k + 1 \in 1 .. n /\ fs2[k] = fs[k]
    BY <1>1, <1>2
  <2> QED BY <1>3, <2>1, CallersKeepWaiting
<1>7. fs2[n] = frame
  BY <1>1, <1>2
<1>8. Sound(p, inc, fs2, st2)
  BY <1>2, <1>4, <1>5, <1>6, <1>7 DEF Sound
<1> QED BY <1>8 DEF fs2, WithTop

Moved(frame, pc, values) ==
  [fn |-> frame.fn, pc |-> pc, stackBase |-> frame.stackBase, locals |-> values]

\* The stack after an instruction that pops its operands and pushes its result.
Effect(p, top, st) ==
  LET f == p[top.fn]
      i == f.code[top.pc]
  IN Pushed(Drop(st, Arity(p, f, i)), Result(p, f, i))

Effective(p, inc, st, top) ==
  LET after == After(p, p[top.fn], top.pc, inc[top.fn][top.pc]).stack
      st2 == Effect(p, top, st)
  IN /\ st2 \in Seq(Types)
     /\ Len(st2) = top.stackBase + Len(after)
     /\ \A k \in 1 .. Len(after) : st2[top.stackBase + k] = after[k]
     /\ \A k \in 1 .. top.stackBase : st2[k] = st[k]

LEMMA EffectFacts ==
  ASSUME NEW p, NEW inc, Verified(p, inc), NEW fs, NEW st, Sound(p, inc, fs, st), fs # <<>>
  PROVE  Effective(p, inc, st, fs[Len(fs)])
<1> DEFINE top == fs[Len(fs)]
           f == p[top.fn]
           i == f.code[top.pc]
           s == inc[top.fn][top.pc]
           n == Arity(p, f, i)
           type == Result(p, f, i)
           after == Pushed(Drop(s.stack, n), type)
           st2 == Pushed(Drop(st, n), type)
           b == top.stackBase
<1>1. /\ top.fn \in UserFunctions(p) /\ top.pc \in 1 .. Len(f.code) /\ s \in StateOf(f)
      /\ Accepts(p, f, top.pc, s) /\ s.stack \in Seq(Types) /\ Len(s.stack) \in Nat
      /\ Len(st) = b + Len(s.stack)
      /\ \A k \in 1 .. Len(s.stack) : st[b + k] = s.stack[k]
      /\ p \in Programs /\ Structured(p)
  <2>1. Predicts(p, inc, st, top)
    BY TopFacts
  <2> QED BY <2>1 DEF Predicts, Verified
<1>2. st \in Seq(Types)
  BY DEF Sound
<1>3. n \in Nat /\ type \in ReturnTypes /\ b \in Nat /\ n <= Len(s.stack)
  BY <1>1, InstructionFacts, AcceptedFacts, OperandsThere
<1>4. After(p, f, top.pc, s).stack = after /\ Effect(p, top, st) = st2
  BY DEF After, Effect
<1> DEFINE pushed == IF type = "void" THEN 0 ELSE 1
<1>5. pushed \in {0, 1} /\ (pushed = 1 => type # "void")
  OBVIOUS
<1> HIDE DEF top, f, i, s, n, type
<1>6. /\ Len(after) = Len(s.stack) - n + pushed
      /\ \A k \in 1 .. Len(s.stack) - n : after[k] = s.stack[k]
      /\ type # "void" => after[Len(s.stack) - n + 1] = type
  BY <1>1, <1>3, PushedFacts
<1>7. /\ st2 \in Seq(Types)
      /\ Len(st2) = Len(st) - n + pushed
      /\ \A k \in 1 .. Len(st) - n : st2[k] = st[k]
      /\ type # "void" => st2[Len(st) - n + 1] = type
  <2>1. n <= Len(st)
    BY <1>1, <1>3
  <2> QED BY <1>2, <1>3, <2>1, PushedFacts
<1> HIDE DEF after, st2, b, pushed
<1>8. Len(st2) = b + Len(after)
  BY <1>1, <1>3, <1>6, <1>7, <1>5
<1>9. ASSUME NEW k \in 1 .. Len(after) PROVE st2[b + k] = after[k]
  <2>1. CASE k \in 1 .. Len(s.stack) - n
    <3>1. b + k \in 1 .. Len(st) - n
      BY <1>1, <1>3, <2>1
    <3>2. st2[b + k] = st[b + k] /\ after[k] = s.stack[k]
      BY <1>6, <1>7, <2>1, <3>1
    <3>3. k \in 1 .. Len(s.stack)
      BY <1>1, <1>3, <2>1
    <3> QED BY <1>1, <3>2, <3>3
  <2>2. CASE k \notin 1 .. Len(s.stack) - n
    <3>1. type # "void" /\ k = Len(s.stack) - n + 1
      BY <1>1, <1>3, <1>6, <1>5, <2>2
    <3>2. b + k = Len(st) - n + 1
      BY <1>1, <1>3, <3>1
    <3> QED BY <1>6, <1>7, <3>1, <3>2
  <2> QED BY <2>1, <2>2
<1>10. \A k \in 1 .. b : st2[k] = st[k]
  BY <1>1, <1>3, <1>7
<1>11. /\ Effect(p, top, st) \in Seq(Types)
       /\ Len(Effect(p, top, st)) = b + Len(After(p, f, top.pc, s).stack)
       /\ \A k \in 1 .. Len(After(p, f, top.pc, s).stack) :
            Effect(p, top, st)[b + k] = After(p, f, top.pc, s).stack[k]
       /\ \A k \in 1 .. b : Effect(p, top, st)[k] = st[k]
  BY <1>4, <1>7, <1>8, <1>9, <1>10
<1> QED BY <1>11 DEF Effective, top, f, s, b

LEMMA StaysOnTop ==
  ASSUME NEW st2 \in Seq(Types), NEW inc, NEW frame, NEW base \in Nat, NEW operands \in Seq(Types),
         frame.stackBase = base, Expected(inc, frame) = operands,
         Len(st2) = base + Len(operands),
         \A k \in 1 .. Len(operands) : st2[base + k] = operands[k]
  PROVE  OnTopOf(inc, st2, frame)
BY DEF OnTopOf

\* The frame on top goes on to a successor of its instruction.
Moves(p, inc, top, next, values) ==
  LET f == p[top.fn]
      after == After(p, f, top.pc, inc[top.fn][top.pc])
  IN /\ \E k \in DOMAIN Successors(f, top.pc) : next = Successors(f, top.pc)[k]
     /\ values \in Seq(Types \cup {Unset}) /\ Len(values) = Len(top.locals)
     /\ \A slot \in after.initialized : values[slot] = f.localTypes[slot]

LEMMA MoveOn ==
  ASSUME NEW p, NEW inc, Verified(p, inc), NEW fs, NEW st, Sound(p, inc, fs, st), fs # <<>>,
         NEW next, NEW values, Moves(p, inc, fs[Len(fs)], next, values)
  PROVE  Sound(p, inc, WithTop(fs, Moved(fs[Len(fs)], next, values)), Effect(p, fs[Len(fs)], st))
<1> DEFINE top == fs[Len(fs)]
           f == p[top.fn]
           after == After(p, f, top.pc, inc[top.fn][top.pc])
           frame == Moved(top, next, values)
           st2 == Effect(p, top, st)
<1>1. /\ \E k \in DOMAIN Successors(f, top.pc) : next = Successors(f, top.pc)[k]
      /\ values \in Seq(Types \cup {Unset}) /\ Len(values) = Len(top.locals)
      /\ \A slot \in after.initialized : values[slot] = f.localTypes[slot]
  BY DEF Moves
<1>2. /\ top \in FrameOf(p) /\ top.fn \in UserFunctions(p)
      /\ top.pc \in 1 .. Len(f.code)
      /\ \A k \in DOMAIN Successors(f, top.pc) :
           Covers(inc[top.fn], Successors(f, top.pc)[k], after)
      /\ Len(top.locals) = f.localCount
  <2>1. Predicts(p, inc, st, top)
    BY TopFacts
  <2> QED BY <2>1 DEF Predicts
<1>3. p \in Programs /\ Structured(p)
  BY DEF Verified
<1>4. Covers(inc[top.fn], next, after)
  BY <1>1, <1>2
<1>5. /\ st2 \in Seq(Types)
      /\ Len(st2) = top.stackBase + Len(after.stack)
      /\ \A k \in 1 .. Len(after.stack) : st2[top.stackBase + k] = after.stack[k]
      /\ \A k \in 1 .. top.stackBase : st2[k] = st[k]
  <2>1. Effective(p, inc, st, top)
    BY EffectFacts
  <2> QED BY <2>1 DEF Effective
<1>6. next \in Nat
  <2>1. next \in DOMAIN inc[top.fn]
    BY <1>4 DEF Covers
  <2>2. DOMAIN inc[top.fn] \subseteq 1 .. Len(f.code)
    BY <1>2 DEF Verified, StatesOf
  <2>3. Len(f.code) \in Nat
    BY <1>2, <1>3, UserFacts
  <2> QED BY <2>1, <2>2, <2>3
<1>7. /\ Len(values) = f.localCount
      /\ \A slot \in after.initialized : values[slot] = f.localTypes[slot]
  BY <1>1, <1>2
<1>8. after \in StateOf(f)
  <2>1. Predicts(p, inc, st, top)
    BY TopFacts
  <2> QED BY <1>2, <1>3, <2>1, AcceptedFacts DEF Predicts
<1> HIDE DEF top, f, after
<1>9. /\ frame.fn = top.fn /\ frame.pc = next /\ frame.stackBase = top.stackBase
      /\ frame.locals = values /\ frame \in FrameOf(p)
  BY <1>1, <1>2, <1>6 DEF Moved, FrameOf
<1> HIDE DEF frame, st2
<1>10. InFrame(p, inc, frame)
  BY <1>4, <1>7, <1>9 DEF InFrame, Covers, f
<1>11. OnTopOf(inc, st2, frame)
  <2>1. Expected(inc, frame) = after.stack
    BY <1>4, <1>9 DEF Expected, Covers
  <2>2. top.stackBase \in Nat /\ after.stack \in Seq(Types)
    BY <1>2, <1>8 DEF FrameOf, StateOf
  <2> QED BY <1>5, <1>9, <2>1, <2>2, StaysOnTop
<1>12. Sound(p, inc, WithTop(fs, frame), st2)
  <2>1. /\ frame \in FrameOf(p) /\ frame.fn = fs[Len(fs)].fn
        /\ frame.stackBase = fs[Len(fs)].stackBase
        /\ \A k \in 1 .. fs[Len(fs)].stackBase : st2[k] = st[k]
    BY <1>5, <1>9 DEF top
  <2>2. st2 \in Seq(Types)
    BY <1>5
  <2> QED BY <1>10, <1>11, <2>1, <2>2, ReplaceTop
<1> QED BY <1>12 DEF frame, st2, top

\* A call: the caller goes on behind the call, its operands are the locals of
\* the callee, whose base is where they were.
Called(p, top, st, callee) ==
  LET i == p[top.fn].code[top.pc]
  IN /\ i.op = "call" /\ i.arg \in UserFunctions(p)
     /\ callee \in FrameOf(p) /\ callee.fn = i.arg /\ callee.pc = 1
     /\ callee.stackBase = Len(st) - Arity(p, p[top.fn], i)
     /\ Len(callee.locals) = p[i.arg].localCount
     /\ \A slot \in 1 .. Params(p[i.arg]) : callee.locals[slot] = p[i.arg].localTypes[slot]

LEMMA PushFrame ==
  ASSUME NEW p, NEW inc, Verified(p, inc), NEW fs, NEW st, Sound(p, inc, fs, st), fs # <<>>,
         NEW callee, Called(p, fs[Len(fs)], st, callee)
  PROVE  LET top == fs[Len(fs)]
         IN Sound(p, inc, Append(WithTop(fs, Moved(top, top.pc + 1, top.locals)), callee),
                  Drop(st, Arity(p, p[top.fn], p[top.fn].code[top.pc])))
<1> DEFINE top == fs[Len(fs)]
           f == p[top.fn]
           i == f.code[top.pc]
           n == Arity(p, f, i)
           s == inc[top.fn][top.pc]
           after == After(p, f, top.pc, s)
           caller == Moved(top, top.pc + 1, top.locals)
           m == Len(fs)
           fs1 == WithTop(fs, caller)
           fs2 == Append(fs1, callee)
           st2 == Drop(st, n)
           b == top.stackBase
           type == p[i.arg].returnType
<1>1. /\ i.op = "call" /\ i.arg \in UserFunctions(p)
      /\ callee \in FrameOf(p) /\ callee.fn = i.arg /\ callee.pc = 1
      /\ callee.stackBase = Len(st) - n
      /\ Len(callee.locals) = p[i.arg].localCount
      /\ \A slot \in 1 .. Params(p[i.arg]) : callee.locals[slot] = p[i.arg].localTypes[slot]
  BY DEF Called
<1>2. /\ top \in FrameOf(p) /\ top.fn \in UserFunctions(p)
      /\ top.pc \in 1 .. Len(f.code) /\ s \in StateOf(f)
      /\ s.stack \in Seq(Types) /\ Len(s.stack) \in Nat
      /\ Accepts(p, f, top.pc, s)
      /\ \A k \in DOMAIN Successors(f, top.pc) :
           Covers(inc[top.fn], Successors(f, top.pc)[k], after)
      /\ Len(st) = b + Len(s.stack)
      /\ \A k \in 1 .. Len(s.stack) : st[b + k] = s.stack[k]
      /\ Len(top.locals) = f.localCount
      /\ \A slot \in s.initialized : top.locals[slot] = f.localTypes[slot]
  <2>1. Predicts(p, inc, st, top)
    BY TopFacts
  <2> QED BY <2>1 DEF Predicts
<1>3. p \in Programs /\ Structured(p) /\ m \in Nat \ {0}
  BY TopFacts DEF Verified
<1>4. /\ n \in Nat /\ n <= Len(s.stack) /\ b \in Nat /\ Len(st) \in Nat
      /\ b + n <= Len(st) /\ top.pc \in Nat /\ st \in Seq(Types)
  <2>1. n \in Nat
    BY <1>2, <1>3, InstructionFacts
  <2>2. n <= Len(s.stack)
    BY <1>2, <1>3, AcceptedFacts
  <2>3. Len(f.code) \in Nat
    BY <1>2, <1>3, UserFacts
  <2>4. top.pc \in Nat /\ b \in Nat /\ st \in Seq(Types)
    BY <1>2, <2>3 DEF FrameOf, Sound
  <2> HIDE DEF top, f, i, n, s, b
  <2> QED BY <1>2, <2>1, <2>2, <2>4 DEF b
<1>5. type \in ReturnTypes /\ i.arg \in DOMAIN p
  <2>1. i.arg \in DOMAIN p
    BY <1>1 DEF UserFunctions
  <2> QED BY <1>3, <2>1, SignatureFacts
<1>6. /\ after.stack = Pushed(Drop(s.stack, n), type)
      /\ after.initialized = s.initialized
  BY <1>1 DEF After, Result
<1>7. Covers(inc[top.fn], top.pc + 1, after)
  <2>1. Successors(f, top.pc) = <<top.pc + 1>>
    BY <1>1, SuccessorFacts DEF Returns
  <2>2. 1 \in DOMAIN Successors(f, top.pc) /\ Successors(f, top.pc)[1] = top.pc + 1
    BY <2>1
  <2> HIDE DEF top, f, after
  <2> QED BY <1>2, <2>2
<1> HIDE DEF top, f, i, n, s, after, m, b, type
<1>8. /\ caller.fn = top.fn /\ caller.pc = top.pc + 1 /\ caller.stackBase = b
      /\ caller.locals = top.locals /\ caller \in FrameOf(p)
  BY <1>2, <1>4 DEF Moved, FrameOf, b
<1> HIDE DEF caller
<1>9. /\ fs1 \in Seq(FrameOf(p)) /\ Len(fs1) = m
      /\ \A k \in 1 .. m : fs1[k] = IF k = m THEN caller ELSE fs[k]
  <2>1. fs \in Seq(FrameOf(p)) /\ m \in 1 .. Len(fs)
    BY <1>3 DEF Sound, m
  <2> QED BY <1>8, <2>1, ExceptSeq DEF WithTop, m
<1> HIDE DEF fs1
<1>10. /\ fs2 \in Seq(FrameOf(p)) /\ Len(fs2) = m + 1 /\ fs2 # <<>>
       /\ \A k \in 1 .. m : fs2[k] = IF k = m THEN caller ELSE fs[k]
       /\ fs2[m + 1] = callee
  BY <1>1, <1>3, <1>9, AppendProperties
<1> HIDE DEF fs2
<1> DEFINE place == IF type = "void" THEN 0 ELSE 1
<1>11. /\ place \in {0, 1} /\ (place = 1 <=> type # "void")
       /\ Place(p, callee) = place
  BY <1>1 DEF Place, type
<1>12. /\ st2 \in Seq(Types) /\ Len(st2) = Len(st) - n
       /\ \A k \in 1 .. Len(st) - n : st2[k] = st[k]
  <2>1. n <= Len(st) /\ "void" \in ReturnTypes
    BY <1>4 DEF ReturnTypes
  <2> QED BY <1>4, <2>1, PushedFacts
<1> HIDE DEF st2
<1>13. /\ Len(after.stack) = Len(s.stack) - n + place
       /\ \A k \in 1 .. Len(s.stack) - n : after.stack[k] = s.stack[k]
       /\ type # "void" => after.stack[Len(s.stack) - n + 1] = type
  <2> DEFINE y == Pushed(Drop(s.stack, n), type)
  <2>1. /\ Len(y) = Len(s.stack) - n + place
        /\ \A k \in 1 .. Len(s.stack) - n : y[k] = s.stack[k]
        /\ type # "void" => y[Len(s.stack) - n + 1] = type
    BY <1>2, <1>4, <1>5, PushedFacts
  <2> HIDE DEF y, place
  <2>2. after.stack = y
    BY <1>6 DEF y
  <2> QED BY <2>1, <2>2
<1> HIDE DEF place
<1>14. InFrame(p, inc, caller)
  BY <1>2, <1>6, <1>7, <1>8 DEF InFrame, Covers, f
<1>15. Covers(inc[callee.fn], 1, Entry(p[i.arg])) /\ Expected(inc, callee) = <<>>
  BY <1>1 DEF Verified, Covers, Entry, Expected
<1>16. InFrame(p, inc, callee)
  BY <1>1, <1>15 DEF InFrame, Covers, Entry
<1>17. OnTopOf(inc, st2, callee)
  <2>1. callee.stackBase \in Nat /\ Len(st2) = callee.stackBase + 0
    BY <1>1, <1>4, <1>12
  <2>2. <<>> \in Seq(Types) /\ Len(<<>>) = 0 /\ 1 .. Len(<<>>) = {}
    OBVIOUS
  <2> QED BY <1>15, <2>1, <2>2 DEF OnTopOf
<1>18. Waits(p, inc, st2, caller, callee)
  <2>1. Expected(inc, caller) = after.stack
    BY <1>7, <1>8 DEF Expected, Covers
  <2>2. b + Len(after.stack) = callee.stackBase + Place(p, callee)
    BY <1>1, <1>2, <1>4, <1>13, <1>11
  <2>3. ASSUME NEW k \in 1 .. callee.stackBase - b PROVE st2[b + k] = after.stack[k]
    <3>1. k \in 1 .. Len(s.stack) - n /\ k \in 1 .. Len(s.stack) /\ b + k \in 1 .. Len(st) - n
      BY <1>1, <1>2, <1>4
    <3>2. st2[b + k] = st[b + k] /\ st[b + k] = s.stack[k] /\ after.stack[k] = s.stack[k]
      BY <1>2, <1>12, <1>13, <3>1
    <3> QED BY <3>2
  <2>4. type # "void" => after.stack[Len(after.stack)] = type
    BY <1>2, <1>4, <1>13, <1>11
  <2> QED BY <1>1, <1>8, <2>1, <2>2, <2>3, <2>4 DEF Waits, type
<1>19. \A k \in 1 .. m + 1 : InFrame(p, inc, fs2[k])
  BY <1>3, <1>10, <1>14, <1>16 DEF Sound, m
<1>20. \A j, k \in 1 .. m + 1 : j <= k => fs2[j].stackBase <= fs2[k].stackBase
  <2>1. \A j, k \in 1 .. m : j <= k => fs[j].stackBase <= fs[k].stackBase
    BY DEF Sound, m
  <2>2. \A k \in 1 .. m : fs2[k].stackBase = fs[k].stackBase
    BY <1>8, <1>10 DEF b, m, top
  <2>3. \A k \in 1 .. m : fs[k].stackBase \in Nat /\ fs[k].stackBase <= b
    <3>1. \A k \in 1 .. m : fs[k] \in FrameOf(p)
      BY ElementOfSeq DEF Sound, m
    <3>2. b = fs[m].stackBase /\ m \in 1 .. m
      BY <1>3 DEF b, m, top
    <3> QED BY <2>1, <3>1, <3>2 DEF FrameOf
  <2>4. b <= callee.stackBase /\ callee.stackBase \in Nat
    BY <1>1, <1>4
  <2>5. ASSUME NEW j \in 1 .. m + 1, NEW k \in 1 .. m + 1, j <= k
        PROVE  fs2[j].stackBase <= fs2[k].stackBase
    <3>1. CASE k \in 1 .. m
      BY <1>3, <2>1, <2>2, <2>5, <3>1
    <3>2. CASE k = m + 1 /\ j \in 1 .. m
      BY <1>4, <1>10, <2>2, <2>3, <2>4, <3>2
    <3>3. CASE k = m + 1 /\ j = m + 1
      BY <1>10, <2>4, <3>3
    <3> QED BY <1>3, <2>5, <3>1, <3>2, <3>3
  <2> QED BY <2>5
<1>21. ASSUME NEW k \in 1 .. m PROVE Waits(p, inc, st2, fs2[k], fs2[k + 1])
  <2>1. CASE k = m
    BY <1>3, <1>10, <1>18, <2>1
  <2>2. CASE k # m
    <3>1. k \in 1 .. m - 1 /\ k + 1 \in 1 .. m /\ fs2[k] = fs[k]
      BY <1>3, <1>10, <2>2
    <3>2. fs2[k + 1].fn = fs[k + 1].fn /\ fs2[k + 1].stackBase = fs[k + 1].stackBase
      BY <1>8, <1>10, <3>1 DEF b, m, top
    <3>3. \A j \in 1 .. fs[m].stackBase : st2[j] = st[j]
      BY <1>2, <1>4, <1>12 DEF b, top, m
    <3> QED BY <3>1, <3>2, <3>3, CallersKeepWaiting DEF m
  <2> QED BY <2>1, <2>2
<1>22. Sound(p, inc, fs2, st2)
  BY <1>3, <1>10, <1>12, <1>17, <1>19, <1>20, <1>21 DEF Sound
<1> QED BY <1>22 DEF fs2, st2, fs1, caller, top, n, f, i

\* A return to a caller: what it left on the stack is what the caller waits for.
LEMMA PopFrame ==
  ASSUME NEW p, NEW inc, Verified(p, inc), NEW fs, NEW st, Sound(p, inc, fs, st), fs # <<>>,
         Len(fs) # 1, Returns(p[fs[Len(fs)].fn].code[fs[Len(fs)].pc])
  PROVE  Sound(p, inc, SubSeq(fs, 1, Len(fs) - 1), st)
<1> DEFINE m == Len(fs)
           top == fs[m]
           f == p[top.fn]
           i == f.code[top.pc]
           s == inc[top.fn][top.pc]
           caller == fs[m - 1]
           e == Expected(inc, caller)
           fs2 == SubSeq(fs, 1, m - 1)
           b == top.stackBase
<1>1. /\ top \in FrameOf(p) /\ top.fn \in UserFunctions(p)
      /\ top.pc \in 1 .. Len(f.code) /\ s \in StateOf(f)
      /\ s.stack \in Seq(Types) /\ Len(s.stack) \in Nat
      /\ Accepts(p, f, top.pc, s)
      /\ Len(st) = b + Len(s.stack)
      /\ \A k \in 1 .. Len(s.stack) : st[b + k] = s.stack[k]
  <2>1. Predicts(p, inc, st, top)
    BY TopFacts
  <2> QED BY <2>1 DEF Predicts
<1>2. m \in Nat /\ m - 1 \in 1 .. m /\ m - 1 \in Nat /\ m - 1 \in 1 .. m - 1 /\ m \in 1 .. m
  <2>1. m \in Nat \ {0} /\ m # 1
    BY TopFacts
  <2> HIDE DEF m
  <2> QED BY <2>1
<1>3. /\ fs \in Seq(FrameOf(p)) /\ st \in Seq(Types) /\ caller \in FrameOf(p)
      /\ Waits(p, inc, st, caller, top) /\ caller.stackBase <= b
      /\ InFrame(p, inc, caller)
  BY <1>2, ElementOfSeq DEF Sound
<1>4. b \in Nat /\ caller.stackBase \in Nat
  BY <1>1, <1>3 DEF FrameOf
\* What the callee leaves is the result, if there is one.
<1>5. \/ f.returnType = "void" /\ Len(s.stack) = 0
      \/ f.returnType # "void" /\ Len(s.stack) = 1 /\ s.stack[1] = f.returnType
  <2>1. i.op \in {"returnValue", "returnVoid"}
    BY DEF Returns
  <2>2. CASE i.op = "returnVoid"
    BY <1>1, <2>2, EmptySeq DEF Accepts
  <2>3. CASE i.op = "returnValue"
    <3>1. Operands(p, f, i) = <<f.returnType>> /\ f.returnType # "void" /\ Len(s.stack) = 1
      BY <1>1, <2>3 DEF Accepts, Operands
    <3>2. OnTop(s.stack, Operands(p, f, i))
      BY <1>1 DEF Accepts
    <3> DEFINE operands == Operands(p, f, i)
    <3>3. Len(operands) = 1 /\ operands[1] = f.returnType /\ 1 \in 1 .. Len(operands)
      BY <3>1
    <3> HIDE DEF operands, s, f
    <3>4. s.stack[Len(s.stack) - Len(operands) + 1] = operands[1]
      BY <3>2, <3>3 DEF OnTop, operands, f
    <3>5. s.stack[1] = f.returnType
      BY <3>1, <3>3, <3>4
    <3> QED BY <3>1, <3>5
  <2> QED BY <2>1, <2>2, <2>3
<1>6. e \in Seq(Types) /\ Len(e) \in Nat
  <2>1. caller.fn \in UserFunctions(p) /\ caller.pc \in DOMAIN inc[caller.fn]
    BY <1>3 DEF FrameOf, InFrame
  <2>2. inc[caller.fn][caller.pc] \in StateOf(p[caller.fn])
    BY <2>1 DEF Verified, StatesOf
  <2> QED BY <2>2, LenProperties DEF Expected, StateOf
<1>7. /\ caller.stackBase + Len(e) = b + Place(p, top)
      /\ \A k \in 1 .. b - caller.stackBase : st[caller.stackBase + k] = e[k]
      /\ f.returnType # "void" => e[Len(e)] = f.returnType
  BY <1>3 DEF Waits
<1>8. /\ f.returnType = "void" => Place(p, top) = 0
      /\ f.returnType # "void" => Place(p, top) = 1
  BY DEF Place
<1>9. /\ fs2 \in Seq(FrameOf(p)) /\ Len(fs2) = m - 1
      /\ \A k \in 1 .. m - 1 : fs2[k] = fs[k]
  <2>1. \A k \in 1 .. m - 1 : fs[k] \in FrameOf(p)
    BY <1>2, <1>3, ElementOfSeq
  <2> HIDE DEF m
  <2> QED BY <1>2, <2>1, SubSeqProperties
<1> HIDE DEF m, top, f, i, s, caller, e, fs2, b
<1>10. OnTopOf(inc, st, caller)
  <2>1. Len(st) = caller.stackBase + Len(e)
    BY <1>1, <1>4, <1>5, <1>6, <1>7, <1>8
  <2>2. ASSUME NEW k \in 1 .. Len(e) PROVE st[caller.stackBase + k] = e[k]
    <3>1. CASE k \in 1 .. b - caller.stackBase
      BY <1>7, <3>1
    <3>2. CASE k \notin 1 .. b - caller.stackBase
      <4>1. f.returnType # "void" /\ k = Len(e) /\ caller.stackBase + k = b + 1
        BY <1>3, <1>4, <1>5, <1>6, <1>7, <1>8, <3>2
      <4>2. st[b + 1] = f.returnType
        BY <1>1, <1>5, <4>1
      <4> QED BY <1>7, <4>1, <4>2
    <3> QED BY <3>1, <3>2
  <2> QED BY <1>3, <1>4, <1>6, <2>1, <2>2, StaysOnTop DEF e
<1>11. \A k \in 1 .. m - 1 : InFrame(p, inc, fs2[k])
  BY <1>2, <1>9 DEF Sound, m
<1>12. \A j, k \in 1 .. m - 1 : j <= k => fs2[j].stackBase <= fs2[k].stackBase
  BY <1>2, <1>9 DEF Sound, m
<1>13. \A k \in 1 .. m - 2 : Waits(p, inc, st, fs2[k], fs2[k + 1])
  <2> SUFFICES ASSUME NEW k \in 1 .. m - 2 PROVE Waits(p, inc, st, fs2[k], fs2[k + 1])
    OBVIOUS
  <2>1. k \in 1 .. m - 1 /\ k + 1 \in 1 .. m - 1
    BY <1>2
  <2>2. Waits(p, inc, st, fs[k], fs[k + 1])
    BY <2>1 DEF Sound, m
  <2> QED BY <1>9, <2>1, <2>2
<1>14. fs2[m - 1] = caller
  BY <1>2, <1>9 DEF caller
<1>15. Len(fs2) - 1 = m - 2
  BY <1>2, <1>9
<1>16. Sound(p, inc, fs2, st)
  BY <1>3, <1>9, <1>10, <1>11, <1>12, <1>13, <1>14, <1>15 DEF Sound
<1> QED BY <1>16 DEF fs2, m

-----------------------------------------------------------------------------
(* The steps of the machine.                                               *)

MachineInv ==
  /\ frames # <<>> => verdict = "accepted"
  /\ Sound(program, incoming, frames, stack)

LEMMA AcceptedIsVerified == FlowInv /\ verdict = "accepted" => Verified(program, incoming)
<1> SUFFICES ASSUME FlowInv, verdict = "accepted" PROVE Verified(program, incoming)
  OBVIOUS
<1>1. /\ ~diagnosed /\ work = <<>>
      /\ Structured(program) /\ Started = UserFunctions(program) /\ program \in Programs
  BY DEF FlowInv, Concluded, FlowTypes
<1>2. \A pc : ~Queued(work, pc)
  BY <1>1, EmptySeq DEF Queued
<1>3. \A id \in UserFunctions(program) :
        \A pc \in DOMAIN incoming[id] : Settled(program, incoming[id], id, pc)
  BY <1>1, <1>2 DEF FlowInv, Closed
<1> QED BY <1>1, <1>3 DEF Verified, FlowInv, FlowTypes, Entered

LEMMA RunningFacts ==
  ASSUME FlowInv, MachineInv, Running
  PROVE  /\ Verified(program, incoming) /\ Sound(program, incoming, frames, stack)
         /\ frames # <<>> /\ Top = frames[Len(frames)] /\ Len(frames) \in Nat \ {0}
         /\ Predicts(program, incoming, stack, Top)
<1>1. /\ Verified(program, incoming) /\ Sound(program, incoming, frames, stack)
      /\ frames # <<>> /\ Top = frames[Len(frames)]
  BY AcceptedIsVerified DEF MachineInv, Running, Top
<1> QED BY <1>1, TopFacts

\* No frames are sound whatever the data flow is.
LEMMA NoFrames ==
  ASSUME NEW p, NEW inc, NEW st \in Seq(Types) PROVE Sound(p, inc, <<>>, st)
<1>1. <<>> \in Seq(FrameOf(p)) /\ Len(<<>>) = 0
  BY EmptySeq
<1> QED BY <1>1 DEF Sound

\* Arguments of the right types make locals of the right types.
LEMMA FrameFacts ==
  ASSUME NEW id \in UserFunctions(program), program \in Programs, Structured(program),
         NEW base \in Nat
  PROVE  LET frame == Frame(id, program[id].parameterTypes, base)
         IN /\ frame \in FrameOf(program)
            /\ frame.fn = id /\ frame.pc = 1 /\ frame.stackBase = base
            /\ Len(frame.locals) = program[id].localCount
            /\ \A slot \in 1 .. Params(program[id]) :
                 frame.locals[slot] = program[id].localTypes[slot]
<1> DEFINE f == program[id]
           n == f.localCount
           arguments == f.parameterTypes
           values == [slot \in 1 .. n |-> IF slot <= Len(arguments) THEN arguments[slot] ELSE Unset]
           frame == Frame(id, arguments, base)
<1>1. /\ n \in Nat /\ Params(f) <= n /\ arguments \in Seq(Types) /\ Params(f) \in Nat
      /\ Len(arguments) = Params(f)
      /\ \A slot \in 1 .. Params(f) : f.localTypes[slot] = arguments[slot]
  BY UserFacts, SignatureFacts DEF Params
<1>2. frame = [fn |-> id, pc |-> 1, stackBase |-> base, locals |-> values]
  BY DEF Frame
<1> HIDE DEF f, n, arguments
<1>3. /\ DOMAIN values = 1 .. n
      /\ \A slot \in 1 .. n : values[slot] \in Types \cup {Unset}
      /\ \A slot \in 1 .. Params(f) : values[slot] = arguments[slot]
  BY <1>1, ElementOfSeq
<1>4. values \in [1 .. n -> Types \cup {Unset}]
  BY <1>3
<1>5. values \in Seq(Types \cup {Unset})
  BY <1>1, <1>4, SeqDef
<1>6. Len(values) = n
  BY <1>1, <1>3, <1>5, LenProperties
<1> HIDE DEF values, frame
<1>7. /\ frame.fn = id /\ frame.pc = 1 /\ frame.stackBase = base /\ frame.locals = values
      /\ frame \in FrameOf(program)
  BY <1>2, <1>5 DEF FrameOf
<1> QED BY <1>1, <1>3, <1>6, <1>7 DEF frame, f, n, arguments

LEMMA AdvancedIs ==
  ASSUME frames \in Seq(FrameOf(program)), Top \in FrameOf(program), NEW next
  PROVE  Advanced(next) = WithTop(frames, Moved(Top, next, Top.locals))
<1> DEFINE n == Len(frames)
           top == frames[n]
<1>1. Advanced(next) = [frames EXCEPT ![n] = [top EXCEPT !.pc = next]]
  BY DEF Advanced
<1>2. [top EXCEPT !.pc = next] = Moved(top, next, top.locals)
  <2>1. top \in FrameOf(program)
    BY DEF Top
  <2> HIDE DEF top
  <2>2. top = [fn |-> top.fn, pc |-> top.pc, stackBase |-> top.stackBase, locals |-> top.locals]
    BY <2>1 DEF FrameOf
  <2> QED BY <2>2 DEF Moved
<1> QED BY <1>1, <1>2 DEF WithTop, Top

\* An instruction that changes no local.
LEMMA GoOn ==
  ASSUME FlowInv, MachineInv, Running, Instruction.op # "store", NEW next,
         \E k \in DOMAIN Successors(program[Top.fn], Top.pc) :
           next = Successors(program[Top.fn], Top.pc)[k]
  PROVE  Sound(program, incoming, Advanced(next), Effect(program, Top, stack))
<1> DEFINE f == program[Top.fn]
           s == incoming[Top.fn][Top.pc]
           after == After(program, f, Top.pc, s)
<1>1. /\ Verified(program, incoming) /\ Sound(program, incoming, frames, stack)
      /\ frames # <<>> /\ Top = frames[Len(frames)]
      /\ Predicts(program, incoming, stack, Top)
  BY RunningFacts
<1>2. /\ Top \in FrameOf(program)
      /\ \A slot \in s.initialized : Top.locals[slot] = f.localTypes[slot]
  BY <1>1 DEF Predicts
<1>3. after.initialized = s.initialized
  BY DEF After, Instruction, Code
<1>4. Top.locals \in Seq(Types \cup {Unset}) /\ frames \in Seq(FrameOf(program))
  BY <1>1, <1>2 DEF FrameOf, Sound
<1>5. Moves(program, incoming, Top, next, Top.locals)
  BY <1>2, <1>3, <1>4 DEF Moves
<1>6. Sound(program, incoming, WithTop(frames, Moved(Top, next, Top.locals)),
            Effect(program, Top, stack))
  BY <1>1, <1>5, MoveOn
<1>7. Advanced(next) = WithTop(frames, Moved(Top, next, Top.locals))
  BY <1>2, <1>4, AdvancedIs
<1> QED BY <1>6, <1>7

LEMMA StraightOn ==
  ASSUME FlowInv, MachineInv, Running,
         Instruction.op \in {"constant", "load", "pop", "unary", "binary", "compare", "call"}
  PROVE  Sound(program, incoming, Advanced(Top.pc + 1), Effect(program, Top, stack))
<1>1. Successors(program[Top.fn], Top.pc) = <<Top.pc + 1>>
  BY SuccessorFacts DEF Returns, Instruction, Code
<1>2. \E k \in DOMAIN Successors(program[Top.fn], Top.pc) :
        Top.pc + 1 = Successors(program[Top.fn], Top.pc)[k]
  BY <1>1
<1>3. Instruction.op # "store"
  OBVIOUS
<1> QED BY <1>2, <1>3, GoOn

\* The operands of the next instruction are where it takes them.
LEMMA InstructionReady ==
  ASSUME FlowInv, MachineInv, Running
  PROVE  /\ Top.fn \in UserFunctions(program) /\ Top.pc \in 1 .. Len(Code)
         /\ Taken \in Nat /\ Top.stackBase \in Nat /\ Len(stack) \in Nat
         /\ Top.stackBase + Taken <= Len(stack)
         /\ OnTop(stack, Operands(program, program[Top.fn], Instruction))
         /\ Returns(Instruction) => Len(stack) - Taken = Top.stackBase
         /\ Instruction.op = "load" =>
              Top.locals[Instruction.arg] = program[Top.fn].localTypes[Instruction.arg]
<1>1. /\ Verified(program, incoming) /\ Sound(program, incoming, frames, stack)
      /\ frames # <<>> /\ Top = frames[Len(frames)]
      /\ Predicts(program, incoming, stack, Top)
  BY RunningFacts
<1>2. /\ Taken \in Nat /\ Top.stackBase \in Nat /\ Len(stack) \in Nat
      /\ Top.stackBase + Taken <= Len(stack)
      /\ OnTop(stack, Operands(program, program[Top.fn], Instruction))
      /\ Returns(Instruction) => Len(stack) - Taken = Top.stackBase
  BY <1>1, OperandsThere DEF Taken, Instruction, Code
<1>3. Top.fn \in UserFunctions(program) /\ Top.pc \in 1 .. Len(Code)
  BY <1>1 DEF Predicts, Code
<1>4. Instruction.op = "load" =>
        Top.locals[Instruction.arg] = program[Top.fn].localTypes[Instruction.arg]
  BY <1>1 DEF Predicts, Accepts, Instruction, Code
<1> QED BY <1>2, <1>3, <1>4

\* The arguments of a call are of the types of the parameters.
LEMMA CallReady ==
  ASSUME FlowInv, MachineInv, Running, Instruction.op = "call"
  PROVE  /\ Arguments = Callee.parameterTypes
         /\ Instruction.arg \in DOMAIN program
<1> DEFINE types == Callee.parameterTypes
           n == Len(stack)
<1>1. /\ Top.fn \in UserFunctions(program) /\ Top.pc \in 1 .. Len(Code)
      /\ Taken \in Nat /\ Top.stackBase \in Nat /\ n \in Nat
      /\ Top.stackBase + Taken <= n
      /\ OnTop(stack, Operands(program, program[Top.fn], Instruction))
      /\ stack \in Seq(Types) /\ program \in Programs /\ Structured(program)
  BY InstructionReady, RunningFacts DEF Sound, Verified
<1>2. Operands(program, program[Top.fn], Instruction) = types /\ Taken = Len(types)
  BY DEF Operands, Taken, Arity, Callee
<1>3. Instruction.arg \in DOMAIN program
  <2>1. ValidInstruction(program, program[Top.fn], Instruction)
    BY <1>1, UserFacts DEF Instruction, Code
  <2> QED BY <2>1 DEF ValidInstruction
<1>4. types \in Seq(Types)
  BY <1>1, <1>3, SignatureFacts DEF Callee
<1> HIDE DEF types, n
<1>5. \A k \in 1 .. Taken : stack[n - Taken + k] = types[k]
  BY <1>1, <1>2 DEF OnTop, n
<1>6. /\ Arguments \in Seq(Types) /\ Len(Arguments) = Taken
      /\ \A k \in 1 .. Taken : Arguments[k] = stack[n - Taken + 1 + k - 1]
  <2>1. \A k \in n - Taken + 1 .. n : stack[k] \in Types
    BY <1>1, ElementOfSeq DEF n
  <2>2. /\ n - Taken + 1 \in Int /\ n \in Int
        /\ n - (n - Taken + 1) + 1 = Taken
        /\ (IF n - Taken + 1 <= n THEN n - (n - Taken + 1) + 1 ELSE 0) = Taken
    BY <1>1
  <2>3. Arguments = SubSeq(stack, n - Taken + 1, n)
    BY DEF Arguments, n
  <2>4. /\ SubSeq(stack, n - Taken + 1, n) \in Seq(Types)
        /\ Len(SubSeq(stack, n - Taken + 1, n)) =
             IF n - Taken + 1 <= n THEN n - (n - Taken + 1) + 1 ELSE 0
        /\ \A k \in 1 .. n - (n - Taken + 1) + 1 :
             SubSeq(stack, n - Taken + 1, n)[k] = stack[n - Taken + 1 + k - 1]
    BY <2>1, <2>2, SubSeqProperties
  <2> QED BY <2>2, <2>3, <2>4
<1>7. \A k \in 1 .. Taken : n - Taken + 1 + k - 1 = n - Taken + k
  BY <1>1
<1>8. Arguments = types
  BY <1>2, <1>4, <1>5, <1>6, <1>7, SeqEqual
<1> QED BY <1>3, <1>8 DEF types

\* Of the failures, only those of the program remain.
LEMMA FewFailures ==
  ASSUME FlowInv, MachineInv, Running
  PROVE  Failures \subseteq {"R5004", "R5006"}
<1> DEFINE ok == {"R5004", "R5006"}
<1>1. /\ ~(Top.pc > Len(Code)) /\ ~(Len(stack) < Taken)
      /\ OnTop(stack, Operands(program, program[Top.fn], Instruction))
      /\ Returns(Instruction) => Len(stack) - Taken = Top.stackBase
  <2>1. /\ Top.fn \in UserFunctions(program) /\ Top.pc \in 1 .. Len(Code)
        /\ Taken \in Nat /\ Top.stackBase \in Nat /\ Len(stack) \in Nat
        /\ Top.stackBase + Taken <= Len(stack)
        /\ program \in Programs /\ Structured(program)
    BY InstructionReady, RunningFacts DEF Verified
  <2>2. Len(Code) \in Nat
    BY <2>1, UserFacts DEF Code
  <2> QED BY <2>1, <2>2, InstructionReady
<1>2. CASE Instruction.op \in {"unary", "binary", "compare", "jumpIfFalse"}
  <2>1. Instruction.op # "call" /\ ~Returns(Instruction)
    BY <1>2 DEF Returns
  <2>2. Failures = IF ~OnTop(stack, Operands(program, program[Top.fn], Instruction))
                   THEN {"undefined"}
                   ELSE IF Instruction.op = "binary" /\ Instruction.arg = "i64"
                   THEN {"R5004"} ELSE {}
    BY <1>1, <1>2, <2>1, Zenon DEF Failures
  <2> QED BY <1>1, <2>2
<1>3. CASE Instruction.op = "call"
  <2>1. Arguments = Callee.parameterTypes
    BY <1>3, CallReady
  <2>2. Instruction.op \notin {"unary", "binary", "compare", "jumpIfFalse"}
    BY <1>3
  <2>3. Failures = IF Callee.kind = "user" /\ Len(frames) >= MaxFrames THEN {"R5006"} ELSE {}
    BY <1>1, <1>3, <2>1, <2>2, ZenonT(30) DEF Failures, Returns
  <2> QED BY <2>3
<1>4. CASE Returns(Instruction)
  <2>1. /\ Instruction.op \notin {"unary", "binary", "compare", "jumpIfFalse"}
        /\ Instruction.op # "call"
    BY <1>4 DEF Returns
  <2>2. Failures = {}
    BY <1>1, <1>4, <2>1, Zenon DEF Failures
  <2> QED BY <2>2
<1>5. CASE /\ ~Returns(Instruction) /\ Instruction.op # "call"
           /\ Instruction.op \notin {"unary", "binary", "compare", "jumpIfFalse"}
  <2>1. Failures = {}
    BY <1>1, <1>5, Zenon DEF Failures
  <2> QED BY <2>1
<1> QED BY <1>2, <1>3, <1>4, <1>5

-----------------------------------------------------------------------------
(* One lemma for each step.                                                *)

\* Nothing dropped and nothing pushed leaves a stack as it is.
LEMMA Untouched == ASSUME NEW s \in Seq(Types) PROVE Drop(s, 0) = s
<1>1. Len(s) \in Nat
  BY LenProperties
<1>2. Drop(s, 0) = SubSeq(s, 1, Len(s))
  <2>1. Len(s) - 0 = Len(s)
    BY <1>1
  <2> QED BY <2>1 DEF Drop
<1> QED BY <1>2, SubSeqFull

LEMMA ExecuteSound ==
  ASSUME FlowInv, MachineInv, NEW id \in DOMAIN program, Execute(id)
  PROVE  Sound(program, incoming, frames', stack')
<1> DEFINE f == program[id]
           frame == Frame(id, f.parameterTypes, 0)
           fs == <<frame>>
           st == <<>>
<1>1. Verified(program, incoming) /\ id \in UserFunctions(program)
  BY AcceptedIsVerified DEF Execute, UserFunctions
<1>2. /\ program \in Programs /\ Structured(program)
      /\ Covers(incoming[id], 1, Entry(f))
  BY <1>1 DEF Verified
<1>3. /\ frame \in FrameOf(program)
      /\ frame.fn = id /\ frame.pc = 1 /\ frame.stackBase = 0
      /\ Len(frame.locals) = f.localCount
      /\ \A slot \in 1 .. Params(f) : frame.locals[slot] = f.localTypes[slot]
  <2>1. 0 \in Nat
    OBVIOUS
  <2> QED BY <1>1, <1>2, <2>1, FrameFacts
<1>4. frames' = fs /\ stack' = st
  BY DEF Execute
<1> HIDE DEF frame
<1>5. InFrame(program, incoming, frame)
  BY <1>2, <1>3 DEF InFrame, Covers, Entry
<1>6. Expected(incoming, frame) = <<>>
  BY <1>2, <1>3 DEF Expected, Covers, Entry
<1>7. OnTopOf(incoming, st, frame)
  <2>1. Len(<<>>) = 0 /\ 1 .. 0 = {}
    OBVIOUS
  <2> QED BY <1>3, <1>6, <2>1 DEF OnTopOf
<1>8. fs \in Seq(FrameOf(program)) /\ Len(fs) = 1 /\ fs[1] = frame /\ st \in Seq(Types)
  BY <1>3
<1> HIDE DEF fs, st
<1>9. \A j, k \in 1 .. Len(fs) : j <= k => fs[j].stackBase <= fs[k].stackBase
  BY <1>3, <1>8
<1> QED BY <1>4, <1>5, <1>7, <1>8, <1>9 DEF Sound

LEMMA LoadSound ==
  ASSUME FlowInv, MachineInv, Load PROVE Sound(program, incoming, frames', stack')
<1> DEFINE value == Top.locals[Instruction.arg]
<1>1. Running /\ Instruction.op = "load"
  BY DEF Load, At
<1>2. /\ frames' = Advanced(Top.pc + 1)
      /\ stack' = Append(stack, IF value = Unset THEN "i64" ELSE value)
  BY DEF Load
<1>3. value = program[Top.fn].localTypes[Instruction.arg]
  BY <1>1, InstructionReady
<1>4. value \in Types
  <2>1. /\ Top.fn \in UserFunctions(program) /\ Top.pc \in 1 .. Len(Code)
        /\ program \in Programs /\ Structured(program)
    BY <1>1, InstructionReady, RunningFacts DEF Verified
  <2>2. ValidInstruction(program, program[Top.fn], Instruction)
    BY <2>1, UserFacts DEF Instruction, Code
  <2>3. Instruction.arg \in 1 .. program[Top.fn].localCount
    BY <1>1, <2>2 DEF ValidInstruction
  <2>4. /\ program[Top.fn].localTypes \in Seq(Types)
        /\ Len(program[Top.fn].localTypes) = program[Top.fn].localCount
    BY <2>1, UserFacts
  <2> QED BY <1>3, <2>3, <2>4, ElementOfSeq
<1>5. value # Unset /\ value # "void"
  BY <1>4, MachineAssumption DEF Types
<1>6. /\ Arity(program, program[Top.fn], Instruction) = 0
      /\ Result(program, program[Top.fn], Instruction) = value
  <2>1. Operands(program, program[Top.fn], Instruction) = <<>>
    BY <1>1 DEF Operands
  <2>2. Len(<<>>) = 0
    OBVIOUS
  <2>3. Result(program, program[Top.fn], Instruction) = program[Top.fn].localTypes[Instruction.arg]
    BY <1>1 DEF Result
  <2> QED BY <1>1, <1>3, <2>1, <2>2, <2>3 DEF Arity
<1>7. stack \in Seq(Types)
  BY DEF MachineInv, Sound
<1> HIDE DEF value
<1>8. Effect(program, Top, stack) = Append(stack, value)
  <2>1. Effect(program, Top, stack) = Pushed(Drop(stack, 0), value)
    BY <1>6 DEF Effect, Instruction, Code
  <2> QED BY <1>5, <1>7, <2>1, Untouched DEF Pushed
<1>9. stack' = Effect(program, Top, stack)
  BY <1>2, <1>5, <1>8
<1> QED BY <1>1, <1>2, <1>9, StraightOn

LEMMA OperateSound ==
  ASSUME FlowInv, MachineInv, Operate PROVE Sound(program, incoming, frames', stack')
<1>1. Running /\ Instruction.op \in {"constant", "pop", "unary", "binary", "compare"}
  BY DEF Operate, At
<1>2. frames' = Advanced(Top.pc + 1) /\ stack' = Effect(program, Top, stack)
  BY DEF Operate, Effect, Taken, Instruction, Code
<1>3. Sound(program, incoming, Advanced(Top.pc + 1), Effect(program, Top, stack))
  BY <1>1, StraightOn
<1> QED BY <1>2, <1>3

LEMMA CallHostSound ==
  ASSUME FlowInv, MachineInv, CallHost PROVE Sound(program, incoming, frames', stack')
<1>1. Running /\ Instruction.op = "call"
  BY DEF CallHost, At
<1>2. Result(program, program[Top.fn], Instruction) = Callee.returnType
  BY <1>1 DEF Result, Callee
<1>3. frames' = Advanced(Top.pc + 1) /\ stack' = Effect(program, Top, stack)
  BY <1>2 DEF CallHost, Effect, Taken, Instruction, Code
<1>4. Sound(program, incoming, Advanced(Top.pc + 1), Effect(program, Top, stack))
  BY <1>1, StraightOn
<1> QED BY <1>3, <1>4

\* A jump takes no operand, a branch takes its condition; both push nothing.
LEMMA JumpSound ==
  ASSUME FlowInv, MachineInv, Jump PROVE Sound(program, incoming, frames', stack')
<1>1. Running /\ Instruction.op = "jump"
  BY DEF Jump, At
<1>2. frames' = Advanced(Instruction.arg) /\ stack' = stack /\ stack \in Seq(Types)
  BY DEF Jump, MachineInv, Sound
<1>3. Effect(program, Top, stack) = stack
  <2>1. /\ Operands(program, program[Top.fn], Instruction) = <<>>
        /\ Result(program, program[Top.fn], Instruction) = "void"
    BY <1>1 DEF Operands, Result
  <2>2. Len(<<>>) = 0
    OBVIOUS
  <2>3. Arity(program, program[Top.fn], Instruction) = 0
    BY <1>1, <2>1, <2>2 DEF Arity
  <2> QED BY <1>2, <2>1, <2>3, Untouched DEF Effect, Pushed, Instruction, Code
<1>4. \E k \in DOMAIN Successors(program[Top.fn], Top.pc) :
        Instruction.arg = Successors(program[Top.fn], Top.pc)[k]
  <2>1. Successors(program[Top.fn], Top.pc) = <<Instruction.arg>>
    BY <1>1, SuccessorFacts DEF Instruction, Code
  <2> QED BY <2>1
<1>5. Sound(program, incoming, Advanced(Instruction.arg), Effect(program, Top, stack))
  BY <1>1, <1>4, GoOn
<1> QED BY <1>2, <1>3, <1>5

LEMMA JumpIfFalseSound ==
  ASSUME FlowInv, MachineInv, JumpIfFalse PROVE Sound(program, incoming, frames', stack')
<1>1. Running /\ Instruction.op = "jumpIfFalse"
  BY DEF JumpIfFalse, At
<1>2. /\ frames' = Advanced(Instruction.arg) \/ frames' = Advanced(Top.pc + 1)
      /\ stack' = Drop(stack, 1)
  BY DEF JumpIfFalse
<1>3. Effect(program, Top, stack) = Drop(stack, 1)
  <2>1. /\ Operands(program, program[Top.fn], Instruction) = <<"boolean">>
        /\ Result(program, program[Top.fn], Instruction) = "void"
    BY <1>1 DEF Operands, Result
  <2>2. Len(<<"boolean">>) = 1
    OBVIOUS
  <2>3. Arity(program, program[Top.fn], Instruction) = 1
    BY <1>1, <2>1, <2>2 DEF Arity
  <2> QED BY <2>1, <2>3 DEF Effect, Pushed, Instruction, Code
<1>4. Successors(program[Top.fn], Top.pc) = <<Instruction.arg, Top.pc + 1>>
  BY <1>1, SuccessorFacts DEF Instruction, Code
<1>5. /\ \E k \in DOMAIN Successors(program[Top.fn], Top.pc) :
           Instruction.arg = Successors(program[Top.fn], Top.pc)[k]
      /\ \E k \in DOMAIN Successors(program[Top.fn], Top.pc) :
           Top.pc + 1 = Successors(program[Top.fn], Top.pc)[k]
  <2> DEFINE t == Successors(program[Top.fn], Top.pc)
  <2>1. /\ 1 \in DOMAIN t /\ t[1] = Instruction.arg
        /\ 2 \in DOMAIN t /\ t[2] = Top.pc + 1
    BY <1>4
  <2> HIDE DEF t
  <2> QED BY <2>1 DEF t
<1>6. /\ Sound(program, incoming, Advanced(Instruction.arg), Effect(program, Top, stack))
      /\ Sound(program, incoming, Advanced(Top.pc + 1), Effect(program, Top, stack))
  BY <1>1, <1>5, GoOn
<1> QED BY <1>2, <1>3, <1>6

LEMMA StoreSound ==
  ASSUME FlowInv, MachineInv, Store PROVE Sound(program, incoming, frames', stack')
<1> DEFINE f == program[Top.fn]
           slot == Instruction.arg
           value == stack[Len(stack)]
           values == [Top.locals EXCEPT ![slot] = value]
           s == incoming[Top.fn][Top.pc]
           after == After(program, f, Top.pc, s)
           n == Len(frames)
<1>1. Running /\ Instruction.op = "store"
  BY DEF Store, At
<1>2. /\ frames' = [frames EXCEPT ![n].pc = @ + 1, ![n].locals[slot] = value]
      /\ stack' = Drop(stack, 1)
  BY DEF Store
<1>3. /\ Verified(program, incoming) /\ Sound(program, incoming, frames, stack)
      /\ frames # <<>> /\ Top = frames[n] /\ n \in Nat \ {0}
      /\ Predicts(program, incoming, stack, Top)
      /\ program \in Programs /\ Structured(program)
      /\ frames \in Seq(FrameOf(program)) /\ stack \in Seq(Types)
  BY <1>1, RunningFacts DEF Verified, Sound
<1>4. /\ Top \in FrameOf(program) /\ Top.fn \in UserFunctions(program)
      /\ Top.pc \in 1 .. Len(Code) /\ Top.pc \in 1 .. Len(f.code)
      /\ Len(Top.locals) = f.localCount
      /\ \A k \in s.initialized : Top.locals[k] = f.localTypes[k]
      /\ Top.locals \in Seq(Types \cup {Unset})
      /\ s \in StateOf(f)
  BY <1>3 DEF Predicts, FrameOf, Code
<1>5. slot \in 1 .. f.localCount
  <2>1. ValidInstruction(program, f, Instruction)
    BY <1>3, <1>4, UserFacts DEF Instruction, Code
  <2> QED BY <1>1, <2>1 DEF ValidInstruction
<1>6. /\ Operands(program, f, Instruction) = <<f.localTypes[slot]>>
      /\ Result(program, f, Instruction) = "void"
      /\ Arity(program, f, Instruction) = 1
  <2>1. Operands(program, f, Instruction) = <<f.localTypes[slot]>>
    BY <1>1 DEF Operands
  <2>2. Len(<<f.localTypes[slot]>>) = 1
    OBVIOUS
  <2> QED BY <1>1, <2>1, <2>2 DEF Arity, Result
<1>7. value = f.localTypes[slot]
  <2> DEFINE operands == Operands(program, f, Instruction)
  <2>1. Len(operands) = 1 /\ operands[1] = f.localTypes[slot] /\ 1 \in 1 .. Len(operands)
    BY <1>6
  <2>2. OnTop(stack, operands) /\ Len(stack) \in Nat
    BY <1>1, InstructionReady
  <2> HIDE DEF operands, f, slot
  <2>3. stack[Len(stack) - Len(operands) + 1] = operands[1]
    BY <2>1, <2>2 DEF OnTop
  <2>4. Len(stack) - Len(operands) + 1 = Len(stack)
    BY <2>1, <2>2
  <2> QED BY <2>1, <2>3, <2>4
<1>8. value \in Types
  BY <1>3, <1>4, <1>5, <1>7, UserFacts, ElementOfSeq
<1>9. after.initialized = s.initialized \cup {slot}
  BY <1>1 DEF After, Instruction, Code
<1>10. Successors(f, Top.pc) = <<Top.pc + 1>>
  BY <1>1, SuccessorFacts DEF Returns, Instruction, Code
<1>11. \E k \in DOMAIN Successors(f, Top.pc) : Top.pc + 1 = Successors(f, Top.pc)[k]
  BY <1>10
<1>12. Effect(program, Top, stack) = Drop(stack, 1)
  BY <1>6 DEF Effect, Pushed, Instruction, Code
<1> HIDE DEF f, slot, value, s, after, n
<1>13. /\ values \in Seq(Types \cup {Unset}) /\ Len(values) = Len(Top.locals)
       /\ \A k \in 1 .. f.localCount : values[k] = IF k = slot THEN value ELSE Top.locals[k]
  <2>1. value \in Types \cup {Unset} /\ slot \in 1 .. Len(Top.locals)
    BY <1>4, <1>5, <1>8
  <2> QED BY <1>4, <2>1, ExceptSeq
<1> HIDE DEF values
<1>14. \A k \in after.initialized : values[k] = f.localTypes[k]
  <2>1. \A k \in s.initialized : k \in 1 .. f.localCount
    BY <1>4 DEF StateOf
  <2> QED BY <1>4, <1>5, <1>7, <1>9, <1>13, <2>1
<1>15. Moves(program, incoming, Top, Top.pc + 1, values)
  BY <1>11, <1>13, <1>14 DEF Moves, f, after, s
<1>16. Sound(program, incoming, WithTop(frames, Moved(Top, Top.pc + 1, values)),
             Effect(program, Top, stack))
  BY <1>3, <1>15, MoveOn DEF n
<1>17. frames' = WithTop(frames, Moved(Top, Top.pc + 1, values))
  <2> DEFINE g == [frames EXCEPT ![n] = [Top EXCEPT !.pc = Top.pc + 1]]
             moved == Moved(Top, Top.pc + 1, values)
  <2>1. n \in DOMAIN frames
    BY <1>3, LenProperties DEF n
  <2>2. Top = [fn |-> Top.fn, pc |-> Top.pc, stackBase |-> Top.stackBase, locals |-> Top.locals]
    BY <1>4 DEF FrameOf
  <2>3. g[n] = [Top EXCEPT !.pc = Top.pc + 1] /\ g[n].locals = Top.locals
    BY <2>1, <2>2
  <2>4. frames' = [g EXCEPT ![n] = [g[n] EXCEPT !.locals = [g[n].locals EXCEPT ![slot] = value]]]
    BY <1>2, <1>3
  <2>5. [g[n] EXCEPT !.locals = [g[n].locals EXCEPT ![slot] = value]] = moved
    BY <2>2, <2>3 DEF Moved, values
  <2>6. frames' = [g EXCEPT ![n] = moved]
    BY <2>4, <2>5
  <2> HIDE DEF moved
  <2>7. [g EXCEPT ![n] = moved] = [frames EXCEPT ![n] = moved]
    BY <2>1
  <2> QED BY <2>6, <2>7 DEF WithTop, moved, n
<1> QED BY <1>2, <1>12, <1>16, <1>17

LEMMA CallSound ==
  ASSUME FlowInv, MachineInv, Call PROVE Sound(program, incoming, frames', stack')
<1> DEFINE base == Len(stack) - Taken
           callee == Frame(Instruction.arg, Callee.parameterTypes, base)
<1>1. Running /\ Instruction.op = "call" /\ Callee.kind = "user"
  BY DEF Call, At
<1>2. /\ Arguments = Callee.parameterTypes
      /\ Instruction.arg \in UserFunctions(program)
  BY <1>1, CallReady DEF UserFunctions, Callee
<1>3. /\ frames' = Append(Advanced(Top.pc + 1), callee)
      /\ stack' = Drop(stack, Taken)
  BY <1>2 DEF Call
<1>4. base \in Nat
  BY <1>1, InstructionReady
<1>5. /\ Verified(program, incoming) /\ Sound(program, incoming, frames, stack)
      /\ frames # <<>> /\ Top = frames[Len(frames)] /\ Top \in FrameOf(program)
      /\ program \in Programs /\ Structured(program)
      /\ frames \in Seq(FrameOf(program))
  BY <1>1, RunningFacts DEF Verified, Predicts, Sound
<1> HIDE DEF base
<1>6. /\ callee \in FrameOf(program)
      /\ callee.fn = Instruction.arg /\ callee.pc = 1 /\ callee.stackBase = base
      /\ Len(callee.locals) = program[Instruction.arg].localCount
      /\ \A slot \in 1 .. Params(program[Instruction.arg]) :
           callee.locals[slot] = program[Instruction.arg].localTypes[slot]
  BY <1>2, <1>4, <1>5, FrameFacts DEF Callee
<1> HIDE DEF callee
<1>7. Called(program, Top, stack, callee)
  BY <1>1, <1>2, <1>6 DEF Called, Instruction, Code, base, Taken
<1>8. Sound(program, incoming,
            Append(WithTop(frames, Moved(Top, Top.pc + 1, Top.locals)), callee),
            Drop(stack, Taken))
  BY <1>5, <1>7, PushFrame DEF Taken, Instruction, Code
<1>9. Advanced(Top.pc + 1) = WithTop(frames, Moved(Top, Top.pc + 1, Top.locals))
  BY <1>5, AdvancedIs
<1> QED BY <1>3, <1>8, <1>9

\* The end of an execution, whatever its outcome.
LEMMA EndSound ==
  ASSUME NEW outcome, End(outcome) PROVE Sound(program, incoming, frames', stack')
<1>1. frames' = <<>> /\ stack' = <<>> /\ <<>> \in Seq(Types)
  BY EmptySeq DEF End
<1> QED BY <1>1, NoFrames

LEMMA ReturnSound ==
  ASSUME FlowInv, MachineInv, Return PROVE Sound(program, incoming, frames', stack')
<1>1. Running /\ Returns(Instruction)
  BY DEF Return, At, Returns
<1>2. CASE Len(frames) = 1
  BY <1>2, EndSound DEF Return
<1>3. CASE Len(frames) # 1
  <2>1. frames' = SubSeq(frames, 1, Len(frames) - 1) /\ stack' = stack
    BY <1>3 DEF Return
  <2>2. /\ Verified(program, incoming) /\ Sound(program, incoming, frames, stack)
        /\ frames # <<>> /\ Top = frames[Len(frames)]
    BY <1>1, RunningFacts
  <2>3. Returns(program[frames[Len(frames)].fn].code[frames[Len(frames)].pc])
    BY <1>1, <2>2 DEF Instruction, Code
  <2>4. Sound(program, incoming, SubSeq(frames, 1, Len(frames) - 1), stack)
    BY <1>3, <2>2, <2>3, PopFrame
  <2> QED BY <2>1, <2>4
<1> QED BY <1>2, <1>3

LEMMA MachineSound ==
  ASSUME FlowInv, MachineInv, MachineStep, UNCHANGED verifierVars PROVE MachineInv'
<1>1. program' = program /\ incoming' = incoming /\ verdict' = verdict
  BY DEF verifierVars
<1>2. verdict = "accepted"
  BY DEF MachineStep, Execute, Fail, Load, Store, Operate, Jump, JumpIfFalse, Call,
         CallHost, Return, At, Running
<1>3. ASSUME Fail PROVE Sound(program, incoming, frames', stack')
  BY <1>3, EndSound DEF Fail
<1>4. Sound(program, incoming, frames', stack')
  BY <1>3, ExecuteSound, LoadSound, StoreSound, OperateSound, JumpSound, JumpIfFalseSound,
     CallSound, CallHostSound, ReturnSound DEF MachineStep
<1> QED BY <1>1, <1>2, <1>4 DEF MachineInv

-----------------------------------------------------------------------------
(* The theorems.                                                           *)

IInv == FlowInv /\ MachineInv

LEMMA InitIInv == Init => IInv
<1> SUFFICES ASSUME Init PROVE IInv
  OBVIOUS
<1>1. VerifierInit /\ frames = <<>> /\ stack = <<>> /\ <<>> \in Seq(Types)
  BY EmptySeq DEF Init
<1>2. Sound(program, incoming, frames, stack)
  BY <1>1, NoFrames
<1> QED BY <1>1, <1>2, FlowInit DEF IInv, MachineInv

\* One step keeps the invariant, and the states descend in it.
LEMMA NextIInv ==
  ASSUME IInv, [Next]_vars
  PROVE  IInv' /\ \A id \in UserFunctions(program) : Descends(incoming[id], incoming'[id])
<1>1. CASE VerifierStep /\ UNCHANGED machineVars
  <2>1. FlowInv' /\ \A id \in UserFunctions(program) : Descends(incoming[id], incoming'[id])
    BY <1>1, VerifierFlow DEF IInv
  <2>2. verdict = "pending"
    BY <1>1 DEF VerifierStep, RejectStructure, Begin, Visit, Conclude
  <2>3. frames = <<>> /\ stack \in Seq(Types)
    BY <2>2 DEF IInv, MachineInv, Sound
  <2>4. frames' = <<>> /\ stack' \in Seq(Types)
    BY <1>1, <2>3 DEF machineVars
  <2>5. MachineInv'
    BY <2>4, NoFrames DEF MachineInv
  <2> QED BY <2>1, <2>5 DEF IInv
<1>2. CASE MachineStep /\ UNCHANGED verifierVars
  BY <1>2, SameFlow, MachineSound DEF IInv
<1>3. CASE UNCHANGED vars
  <2>1. UNCHANGED verifierVars /\ frames' = frames /\ stack' = stack
    BY <1>3 DEF vars, verifierVars
  <2>2. program' = program /\ incoming' = incoming /\ verdict' = verdict
    BY <2>1 DEF verifierVars
  <2>3. MachineInv'
    BY <2>1, <2>2 DEF IInv, MachineInv
  <2> QED BY <2>1, <2>3, SameFlow DEF IInv
<1> QED BY <1>1, <1>2, <1>3 DEF Next

LEMMA Invariance == Spec => []IInv
BY InitIInv, NextIInv, PTL DEF Spec

\* A program that the verifier accepts ends an execution only by a return, an
\* invalid division or the frame limit, whatever the program is
\* (VirtualMachine::executeInternal checks little of this itself).
THEOREM VerifierSound == Spec => []VerifiedNeverFaults
<1>1. IInv => VerifiedNeverFaults
  BY FewFailures DEF IInv, VerifiedNeverFaults
<1> QED BY <1>1, Invariance, PTL

\* No load of an accepted program reads a local that nothing was stored to.
THEOREM LoadsAreInitialized == Spec => []NoUninitializedLoad
<1>1. IInv => NoUninitializedLoad
  BY InstructionReady DEF IInv, NoUninitializedLoad
<1> QED BY <1>1, Invariance, PTL

\* The operand stack that all frames share is, frame by frame, what the data
\* flow of the verifier predicts.
THEOREM StackIsPredicted == Spec => []SegmentsAsPredicted
<1>1. IInv => SegmentsAsPredicted
  <2> SUFFICES ASSUME IInv, NEW k \in 1 .. Len(frames)
               PROVE  SubSeq(stack, frames[k].stackBase + 1, SegmentEnd(k)) = Awaited(k)
    BY DEF SegmentsAsPredicted
  <2> DEFINE n == Len(frames)
             frame == frames[k]
             b == frame.stackBase
             e == Expected(incoming, frame)
             last == SegmentEnd(k)
             segment == SubSeq(stack, b + 1, last)
  <2>1. /\ Sound(program, incoming, frames, stack) /\ stack \in Seq(Types)
        /\ frames \in Seq(FrameOf(program)) /\ n \in Nat \ {0} /\ k \in 1 .. n
        /\ Len(stack) \in Nat /\ frames # <<>>
    <3>1. /\ Sound(program, incoming, frames, stack) /\ stack \in Seq(Types)
          /\ frames \in Seq(FrameOf(program))
      BY DEF IInv, MachineInv, Sound
    <3>2. Len(stack) \in Nat /\ n \in Nat /\ n # 0
      BY <3>1, LenProperties
    <3>3. Len(<<>>) = 0
      OBVIOUS
    <3> QED BY <3>1, <3>2, <3>3
  <2>2. Verified(program, incoming)
    BY <2>1, AcceptedIsVerified DEF IInv, MachineInv
  <2>3. \A j \in 1 .. n : frames[j] \in FrameOf(program) /\ frames[j].stackBase \in Nat
    <3>1. \A j \in 1 .. n : frames[j] \in FrameOf(program)
      BY <2>1, ElementOfSeq
    <3>2. \A a \in FrameOf(program) : a.stackBase \in Nat
      BY DEF FrameOf
    <3> QED BY <3>1, <3>2
  <2>4. InFrame(program, incoming, frame) /\ frame \in FrameOf(program) /\ b \in Nat
    BY <2>1, <2>3 DEF Sound
  <2>5. e \in Seq(Types) /\ Len(e) \in Nat /\ e = Predicted(k)
    <3>1. frame.fn \in UserFunctions(program) /\ frame.pc \in DOMAIN incoming[frame.fn]
      BY <2>4 DEF FrameOf, InFrame
    <3>2. incoming[frame.fn][frame.pc] \in StateOf(program[frame.fn])
      BY <2>2, <3>1 DEF Verified, StatesOf
    <3> QED BY <3>2, LenProperties DEF Expected, StateOf, Predicted
  <2>6. /\ last \in Nat /\ b <= last /\ last <= Len(stack)
        /\ Awaited(k) \in Seq(Types) /\ Len(Awaited(k)) = last - b
        /\ \A j \in 1 .. last - b : stack[b + j] = Awaited(k)[j]
    <3>1. CASE k = n
      <4>1. last = Len(stack) /\ Awaited(k) = e
        BY <2>1, <2>5, <3>1 DEF SegmentEnd, Awaited
      <4>2. OnTopOf(incoming, stack, frame)
        BY <2>1, <3>1 DEF Sound
      <4> HIDE DEF frame, last, n
      <4> QED BY <2>1, <2>4, <2>5, <4>1, <4>2 DEF OnTopOf
    <3>2. CASE k # n
      <4> DEFINE callee == frames[k + 1]
                 awaited == Awaited(k)
      <4>1. k < n /\ k \in 1 .. n - 1 /\ k + 1 \in 1 .. n
        BY <2>1, <3>2
      <4>2. Waits(program, incoming, stack, frame, callee) /\ callee.stackBase \in Nat
        BY <2>1, <2>3, <4>1 DEF Sound
      <4>3. b <= callee.stackBase
        BY <2>1, <4>1 DEF Sound
      <4>4. last = callee.stackBase
        BY <4>1 DEF SegmentEnd
      <4>5. callee.stackBase <= frames[n].stackBase
        BY <2>1, <4>1 DEF Sound
      <4>6. frames[n].stackBase <= Len(stack)
        <5>1. Predicts(program, incoming, stack, frames[n])
          BY <2>1, <2>2, TopFacts
        <5> DEFINE a == frames[n].stackBase
                   c == Len(incoming[frames[n].fn][frames[n].pc].stack)
        <5>2. a \in Nat
          BY <2>1, <2>3
        <5>3. c \in Nat /\ Len(stack) = a + c
          BY <5>1 DEF Predicts
        <5> HIDE DEF a, c
        <5>4. a <= Len(stack)
          BY <5>2, <5>3
        <5> QED BY <5>4 DEF a
      <4>7. frames[n].stackBase \in Nat
        BY <2>1, <2>3
      <4>8. CASE program[callee.fn].returnType = "void"
        <5>1. awaited = e
          BY <2>5, <4>1, <4>8 DEF Awaited
        <5>2. b + Len(e) = callee.stackBase
          BY <4>2, <4>8 DEF Waits, Place
        <5> HIDE DEF b, e, last, callee, awaited, frame, n
        <5>3. Len(e) = last - b
          BY <2>4, <2>5, <4>2, <4>4, <5>2
        <5>4. \A j \in 1 .. last - b : stack[b + j] = e[j]
          BY <4>2, <4>4 DEF Waits, b, e, frame
        <5> QED BY <2>1, <2>4, <2>5, <4>2, <4>3, <4>4, <4>5, <4>6, <4>7, <5>1, <5>3, <5>4
                DEF awaited
      <4>9. CASE program[callee.fn].returnType # "void"
        <5>1. awaited = Drop(e, 1)
          BY <2>5, <4>1, <4>9 DEF Awaited
        <5>2. b + Len(e) = callee.stackBase + 1
          BY <4>2, <4>9 DEF Waits, Place
        <5> HIDE DEF b, e, last, callee, awaited, frame, n
        <5>3. 1 <= Len(e) /\ Len(e) - 1 = last - b
          BY <2>4, <2>5, <4>2, <4>3, <4>4, <5>2
        <5>4. \A j \in 1 .. last - b : stack[b + j] = e[j]
          BY <4>2, <4>4 DEF Waits, b, e, frame
        <5>5. /\ awaited \in Seq(Types) /\ Len(awaited) = Len(e) - 1
              /\ \A j \in 1 .. Len(e) - 1 : awaited[j] = e[j]
          <6>1. 1 \in Nat /\ "void" \in ReturnTypes
            BY DEF ReturnTypes
          <6> QED BY <2>5, <5>1, <5>3, <6>1, PushedFacts
        <5> QED BY <2>1, <2>4, <2>5, <4>2, <4>3, <4>4, <4>5, <4>6, <4>7, <5>3, <5>4, <5>5
                DEF awaited
      <4> QED BY <4>8, <4>9
    <3> QED BY <3>1, <3>2
  <2> HIDE DEF b, e, last, frame, n
  <2>7. /\ segment \in Seq(Types) /\ Len(segment) = last - b
        /\ \A j \in 1 .. last - b : segment[j] = stack[b + j]
    <3>1. \A j \in b + 1 .. last : stack[j] \in Types
      BY <2>1, <2>4, <2>6, ElementOfSeq
    <3>2. b + 1 \in Int /\ last \in Int
      BY <2>4, <2>6
    <3>3. /\ segment \in Seq(Types)
          /\ Len(segment) = IF b + 1 <= last THEN last - (b + 1) + 1 ELSE 0
          /\ \A j \in 1 .. last - (b + 1) + 1 : segment[j] = stack[b + 1 + j - 1]
      BY <3>1, <3>2, SubSeqProperties
    <3>4. /\ last - (b + 1) + 1 = last - b
          /\ \A j \in 1 .. last - b : b + 1 + j - 1 = b + j
          /\ (IF b + 1 <= last THEN last - (b + 1) + 1 ELSE 0) = last - b
      BY <2>4, <2>6
    <3> HIDE DEF segment
    <3> QED BY <3>3, <3>4
  <2> HIDE DEF segment
  <2>8. segment = Awaited(k)
    <3>1. Len(segment) = Len(Awaited(k))
      BY <2>6, <2>7
    <3>2. \A j \in 1 .. Len(segment) : segment[j] = Awaited(k)[j]
      BY <2>6, <2>7
    <3> QED BY <2>6, <2>7, <3>1, <3>2, SeqEqual
  <2> QED BY <2>8 DEF segment, b, last, frame
<1> QED BY <1>1, Invariance, PTL

\* The states of the data flow only descend, so that the loop ends.
THEOREM FlowDescends == Spec => IncomingDescends
<1> DEFINE A == \A id \in UserFunctions(program) :
                  \A pc \in DOMAIN incoming[id] :
                    /\ pc \in DOMAIN incoming'[id]
                    /\ incoming'[id][pc].stack = incoming[id][pc].stack
                    /\ incoming'[id][pc].initialized \subseteq incoming[id][pc].initialized
<1>1. IInv /\ [Next]_vars => [A]_vars
  BY NextIInv DEF Descends
<1>2. [][A]_vars <=> IncomingDescends
  BY DEF IncomingDescends
<1> HIDE DEF A
<1>3. Spec => [][A]_vars
  BY <1>1, Invariance, PTL DEF Spec
<1> QED BY <1>2, <1>3

\* An execution that returns gives a value of the declared type of its entry.
THEOREM ResultsTyped == Spec => ResultsAreTyped
<1> DEFINE A == frames # <<>> /\ frames' = <<>> =>
                  result' \in {program[frames[1].fn].returnType, "R5004", "R5006"}
<1>1. ASSUME IInv, [Next]_vars, frames # <<>>, frames' = <<>>
      PROVE  result' \in {program[frames[1].fn].returnType, "R5004", "R5006"}
  <2>1. MachineStep /\ verdict = "accepted" /\ Running /\ FlowInv /\ MachineInv
    <3>1. verdict = "accepted"
      BY <1>1 DEF IInv, MachineInv
    <3>2. ~VerifierStep
      BY <3>1 DEF VerifierStep, RejectStructure, Begin, Visit, Conclude
    <3>3. frames' # frames
      BY <1>1
    <3>4. MachineStep
      BY <1>1, <3>2, <3>3 DEF Next, vars
    <3> QED BY <1>1, <3>1, <3>4 DEF IInv, Running
  <2>2. /\ Verified(program, incoming) /\ Sound(program, incoming, frames, stack)
        /\ Top = frames[Len(frames)] /\ Len(frames) \in Nat \ {0}
        /\ frames \in Seq(FrameOf(program))
    BY <2>1, RunningFacts DEF Sound
  <2>3. CASE Fail
    BY <2>1, <2>3, FewFailures DEF Fail, End
  <2>4. CASE Return
    <3>1. Returns(Instruction) /\ Instruction.op \in {"returnValue", "returnVoid"}
      BY <2>4 DEF Return, At, Returns
    <3>2. Len(frames) = 1
      <4>1. SUFFICES ASSUME Len(frames) # 1 PROVE FALSE
        OBVIOUS
      <4>2. frames' = SubSeq(frames, 1, Len(frames) - 1)
        BY <2>4, <4>1 DEF Return
      <4>3. \A k \in 1 .. Len(frames) - 1 : frames[k] \in FrameOf(program)
        BY <2>2, ElementOfSeq
      <4> DEFINE n == Len(frames) - 1
      <4>4. n \in Nat \ {0} /\ 1 \in Int /\ n \in Int
        BY <2>2, <4>1
      <4> HIDE DEF n
      <4>5. \A k \in 1 .. n : frames[k] \in FrameOf(program)
        BY <4>3 DEF n
      <4>6. 1 <= n /\ n - 1 + 1 = n
        BY <4>4
      <4>7. Len(SubSeq(frames, 1, n)) = IF 1 <= n THEN n - 1 + 1 ELSE 0
        BY <4>4, <4>5, SubSeqProperties
      <4>8. Len(frames') = n
        BY <4>2, <4>6, <4>7 DEF n
      <4>9. Len(<<>>) = 0
        OBVIOUS
      <4> QED BY <1>1, <4>8, <4>9, <4>4
    <3>3. result' = IF Instruction.op = "returnVoid" THEN "void" ELSE stack[Len(stack)]
      BY <2>4, <3>2 DEF Return, End
    <3>4. Predicts(program, incoming, stack, Top) /\ Top = frames[1]
      BY <2>1, <2>2, <3>2, RunningFacts
    <3>5. CASE Instruction.op = "returnVoid"
      <4>1. program[Top.fn].returnType = "void"
        BY <3>4, <3>5 DEF Predicts, Accepts, Instruction, Code
      <4> QED BY <3>3, <3>4, <3>5, <4>1
    <3>6. CASE Instruction.op = "returnValue"
      <4> DEFINE operands == Operands(program, program[Top.fn], Instruction)
      <4>1. operands = <<program[Top.fn].returnType>>
        BY <3>6 DEF Operands
      <4>2. /\ Len(operands) = 1 /\ operands[1] = program[Top.fn].returnType
            /\ 1 \in 1 .. Len(operands)
        BY <4>1
      <4>3. OnTop(stack, operands) /\ Len(stack) \in Nat
        BY <2>1, InstructionReady
      <4> HIDE DEF operands
      <4>4. stack[Len(stack) - Len(operands) + 1] = operands[1]
        BY <4>2, <4>3 DEF OnTop
      <4>5. Len(stack) - Len(operands) + 1 = Len(stack)
        BY <4>2, <4>3
      <4>6. stack[Len(stack)] = program[Top.fn].returnType
        BY <4>2, <4>4, <4>5
      <4> QED BY <3>3, <3>4, <3>6, <4>6
    <3> QED BY <3>1, <3>5, <3>6
  <2>5. CASE ~Fail /\ ~Return
    <3>1. ~(\E id \in DOMAIN program : Execute(id))
      BY <1>1 DEF Execute
    <3>2. Load \/ Store \/ Operate \/ Jump \/ JumpIfFalse \/ Call \/ CallHost
      BY <2>1, <2>5, <3>1 DEF MachineStep
    <3>3. \A next : Advanced(next) # <<>>
      <4> SUFFICES ASSUME NEW next PROVE Advanced(next) # <<>>
        OBVIOUS
      <4>1. 1 \in DOMAIN Advanced(next)
        <5>1. DOMAIN frames = 1 .. Len(frames)
          BY <2>2, LenProperties
        <5> QED BY <2>2, <5>1 DEF Advanced
      <4>2. DOMAIN <<>> = {}
        OBVIOUS
      <4> QED BY <4>1, <4>2
    <3>4. CASE Store
      <4>1. frames' = [frames EXCEPT ![Len(frames)].pc = @ + 1,
                                     ![Len(frames)].locals[Instruction.arg] = stack[Len(stack)]]
        BY <3>4 DEF Store
      <4>2. 1 \in DOMAIN frames
        BY <2>2, LenProperties
      <4>3. 1 \in DOMAIN frames'
        BY <4>1, <4>2
      <4>4. DOMAIN <<>> = {}
        OBVIOUS
      <4> QED BY <1>1, <4>3, <4>4
    <3>5. CASE Call
      <4> DEFINE top == [Top EXCEPT !.pc = Top.pc + 1]
                 callee == Frame(Instruction.arg, Arguments, Len(stack) - Taken)
                 S == FrameOf(program) \cup {top, callee}
                 fs == [frames EXCEPT ![Len(frames)] = top]
      <4>1. frames' = Append(fs, callee)
        BY <3>5 DEF Call, Advanced, Top
      <4> HIDE DEF top, callee
      <4>2. frames \in Seq(S) /\ top \in S /\ callee \in S /\ Len(frames) \in 1 .. Len(frames)
        BY <2>2, SeqMonotonic
      <4> HIDE DEF S
      <4>3. fs \in Seq(S)
        BY <4>2, ExceptSeq
      <4> HIDE DEF fs
      <4> QED BY <1>1, <4>1, <4>2, <4>3, AppendProperties
    <3>6. CASE Load \/ Operate \/ Jump \/ JumpIfFalse \/ CallHost
      BY <1>1, <3>3, <3>6 DEF Load, Operate, Jump, JumpIfFalse, CallHost
    <3> QED BY <3>2, <3>4, <3>5, <3>6
  <2> QED BY <2>3, <2>4, <2>5
<1>2. IInv /\ [Next]_vars => [A]_vars
  BY <1>1
<1>3. [][A]_vars <=> ResultsAreTyped
  BY DEF ResultsAreTyped
<1> HIDE DEF A
<1>4. Spec => [][A]_vars
  BY <1>2, Invariance, PTL DEF Spec
<1> QED BY <1>3, <1>4
=============================================================================
