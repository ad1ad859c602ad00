-------------------------- MODULE BytecodeMachine --------------------------
(***************************************************************************)
(* The interpreter of VirtualMachine::executeInternal on the programs the  *)
(* verifier accepts.  It trusts them: it pops without looking, and all the *)
(* frames of an execution share one operand stack.  What C++ leaves        *)
(* undefined (pop_back of an empty vector) and the exception of std::get   *)
(* on a value of another type are the outcome "undefined" here.            *)
(***************************************************************************)
EXTENDS BytecodeVerifier

CONSTANTS
  MaxFrames,  \* maximumFrameCount
  Unset       \* a local that nothing was stored to: a default Value, an i64

ASSUME MachineAssumption == MaxFrames \in Nat \ {0} /\ Unset \notin Types

VARIABLES
  frames,  \* [fn, pc, stackBase, locals], oldest first
  stack,   \* the types of the operands, of all frames
  result   \* "none" before and during an execution, then how it ended

machineVars == <<frames, stack, result>>
vars == <<program, incoming, work, current, diagnosed, verdict, frames, stack, result>>

Init ==
  /\ VerifierInit
  /\ frames = <<>>
  /\ stack = <<>>
  /\ result = "none"

Running == verdict = "accepted" /\ frames # <<>>

Top == frames[Len(frames)]
Code == program[Top.fn].code
Instruction == Code[Top.pc]

\* Seeded fault: the base of a callee is taken before its arguments are popped.
FrameOverArguments(id, arguments, base) ==
  [fn |-> id, pc |-> 1, stackBase |-> base + Len(arguments),
   locals |-> [slot \in 1 .. program[id].localCount |->
                 IF slot <= Len(arguments) THEN arguments[slot] ELSE Unset]]

Frame(id, arguments, base) ==
  [fn |-> id, pc |-> 1, stackBase |-> base,
   locals |-> [slot \in 1 .. program[id].localCount |->
                 IF slot <= Len(arguments) THEN arguments[slot] ELSE Unset]]

Advanced(pc) == [frames EXCEPT ![Len(frames)].pc = pc]

End(outcome) ==
  /\ result' = outcome
  /\ frames' = <<>>
  /\ stack' = <<>>

\* The embedder starts a function of the program with arguments of its types
\* (others are refused with R5002 and start nothing).
Execute(id) ==
  /\ verdict = "accepted" /\ frames = <<>>
  /\ program[id].kind = "user"
  /\ frames' = <<Frame(id, program[id].parameterTypes, 0)>>
  /\ stack' = <<>>
  /\ result' = "none"

Taken == Arity(program, program[Top.fn], Instruction)
Arguments == SubSeq(stack, Len(stack) - Taken + 1, Len(stack))
Callee == program[Instruction.arg]

\* What may end the execution at the next instruction.  The operators and the
\* branch take their operands by type; a call hands its operands, whatever
\* they are, to the checks of dispatch and invokeBuiltin; a return looks only
\* at the number of the operands that are left.
Failures ==
  IF Top.pc > Len(Code) THEN {"R5005"}
  ELSE IF Len(stack) < Taken THEN {"undefined"}
  ELSE CASE Instruction.op \in {"unary", "binary", "compare", "jumpIfFalse"} ->
              IF ~OnTop(stack, Operands(program, program[Top.fn], Instruction))
              THEN {"undefined"}
              ELSE IF Instruction.op = "binary" /\ Instruction.arg = "i64"
              THEN {"R5004"}   \* a division by zero, or of the least i64 by -1
              ELSE {}
         [] Instruction.op = "call" ->
              IF Callee.kind = "user" /\ Len(frames) >= MaxFrames THEN {"R5006"}
              ELSE IF Arguments = Callee.parameterTypes THEN {}
              ELSE IF Callee.kind = "user" THEN {"R5002"} ELSE {"R5003"}
         [] Returns(Instruction) ->
              IF Len(stack) - Taken # Top.stackBase THEN {"R5007"} ELSE {}
         [] OTHER -> {}

Fail == Running /\ \E outcome \in Failures : End(outcome)

At(ops) ==
  /\ Running
  /\ Failures \subseteq {"R5004"}
  /\ Instruction.op \in ops

Load ==
  /\ At({"load"})
  /\ LET value == Top.locals[Instruction.arg]
     IN stack' = Append(stack, IF value = Unset THEN "i64" ELSE value)
  /\ frames' = Advanced(Top.pc + 1)
  /\ UNCHANGED result

Store ==
  /\ At({"store"})
  /\ frames' = [frames EXCEPT ![Len(frames)].pc = @ + 1,
                              ![Len(frames)].locals[Instruction.arg] = stack[Len(stack)]]
  /\ stack' = Drop(stack, 1)
  /\ UNCHANGED result

Operate ==
  /\ At({"constant", "pop", "unary", "binary", "compare"})
  /\ stack' = Pushed(Drop(stack, Taken), Result(program, program[Top.fn], Instruction))
  /\ frames' = Advanced(Top.pc + 1)
  /\ UNCHANGED result

Jump ==
  /\ At({"jump"})
  /\ frames' = Advanced(Instruction.arg)
  /\ UNCHANGED <<stack, result>>

JumpIfFalse ==
  /\ At({"jumpIfFalse"})
  /\ frames' = Advanced(Instruction.arg) \/ frames' = Advanced(Top.pc + 1)
  /\ stack' = Drop(stack, 1)
  /\ UNCHANGED result

Call ==
  /\ At({"call"})
  /\ Callee.kind = "user"
  /\ frames' = Append(Advanced(Top.pc + 1),
                      Frame(Instruction.arg, Arguments, Len(stack) - Taken))
  /\ stack' = Drop(stack, Taken)
  /\ UNCHANGED result

CallHost ==
  /\ At({"call"})
  /\ Callee.kind = "host"
  /\ stack' = Pushed(Drop(stack, Taken), Callee.returnType)
  /\ frames' = Advanced(Top.pc + 1)
  /\ UNCHANGED result

\* The value of a returnValue stays where the caller expects it.
Return ==
  /\ At({"returnValue", "returnVoid"})
  /\ IF Len(frames) = 1
     THEN End(IF Instruction.op = "returnVoid" THEN "void" ELSE stack[Len(stack)])
     ELSE /\ frames' = SubSeq(frames, 1, Len(frames) - 1)
          /\ UNCHANGED <<stack, result>>

MachineStep ==
  \/ \E id \in DOMAIN program : Execute(id)
  \/ Fail
  \/ Load \/ Store \/ Operate \/ Jump \/ JumpIfFalse
  \/ Call \/ CallHost \/ Return

Next ==
  \/ VerifierStep /\ UNCHANGED machineVars
  \/ MachineStep /\ UNCHANGED verifierVars

Spec == Init /\ [][Next]_vars

\* verify is a loop of its own: it is left only when it has a verdict.
FairSpec == Spec /\ WF_vars(VerifierStep /\ UNCHANGED machineVars)

-----------------------------------------------------------------------------
(* Properties.                                                             *)

\* A verified program ends an execution only by a return, an invalid division
\* or the frame limit: no instruction underflows the stack, finds an operand
\* or an argument of a wrong type, or falls off the code, and no return leaves
\* operands behind.  The interpreter checks few of these itself.
VerifiedNeverFaults ==
  Running => Failures \subseteq {"R5004", "R5006"}

\* No load reads a local that no store or argument has set, and every local
\* that is set holds a value of its declared type.
NoUninitializedLoad ==
  Running /\ Top.pc <= Len(Code) /\ Instruction.op = "load" =>
    Top.locals[Instruction.arg] = program[Top.fn].localTypes[Instruction.arg]

\* What the verifier predicts of the operands of frame k at its instruction; a
\* caller that waits has no result yet.
Predicted(k) == incoming[frames[k].fn][frames[k].pc].stack
Awaited(k) ==
  IF k < Len(frames) /\ program[frames[k + 1].fn].returnType # "void"
  THEN Drop(Predicted(k), 1)
  ELSE Predicted(k)
SegmentEnd(k) == IF k < Len(frames) THEN frames[k + 1].stackBase ELSE Len(stack)

\* At every moment the shared stack is, frame by frame, what the data flow
\* predicts for the instruction each frame is at, so that no callee touches
\* the operands of its callers.
SegmentsAsPredicted ==
  \A k \in 1 .. Len(frames) :
    SubSeq(stack, frames[k].stackBase + 1, SegmentEnd(k)) = Awaited(k)

\* The data flow descends: a state is never withdrawn, its stack never changes,
\* and its initialized locals only become fewer (so that the loop ends).
IncomingDescends ==
  [][\A id \in UserFunctions(program) :
       \A pc \in DOMAIN incoming[id] :
         /\ pc \in DOMAIN incoming'[id]
         /\ incoming'[id][pc].stack = incoming[id][pc].stack
         /\ incoming'[id][pc].initialized \subseteq incoming[id][pc].initialized]_vars

\* An execution that returns gives a value of the declared type of its entry.
ResultsAreTyped ==
  [][frames # <<>> /\ frames' = <<>> =>
       result' \in {program[frames[1].fn].returnType, "R5004", "R5006"}]_vars

\* The verifier always gives a verdict.
VerifierConcludes == <>(verdict # "pending")
=============================================================================
