---------------------------- MODULE JitPipeline ----------------------------
(***************************************************************************)
(* One function on its way through both tiers.  A program is verified, the *)
(* function is lowered, optimized and compiled; then the interpreter runs  *)
(* it on some arguments, its callees answering anything, and the machine   *)
(* code runs it on the same arguments with the same answers.               *)
(***************************************************************************)
EXTENDS BytecodeVerifier, IrLowering, IrOptimization, X64

CONSTANTS
  Target,      \* the user function that is compiled
  Samples,     \* per type, the words given as arguments and answers
  CallErrors,  \* the errors a callee may end with
  MaxCalls     \* calls of one invocation that are followed

ASSUME PipelineAssumption ==
  /\ \A p \in Programs : Target \in UserFunctions(p)
  /\ \A type \in Types : Samples[type] \subseteq Words
  /\ CallErrors \subseteq {"R5003", "R5004", "R5006"}
  /\ MaxCalls \in Nat

VARIABLES
  stage,     \* how far the function has come
  failure,   \* why its compilation was abandoned, or "none"
  ir,        \* the verified IR after the last pass
  code,      \* the machine code
  vm,        \* the frame of the interpreter: pc, operands, locals
  arguments, \* what both tiers are given
  calls,     \* what was called with which arguments, and the answers
  outcome,   \* how the interpreter ended
  native,    \* the processor and the NativeFrame
  answered,  \* how many calls the machine code has made
  nativeOutcome

pipelineVars == <<stage, failure, ir, code, vm, arguments, calls, outcome,
                  native, answered, nativeOutcome>>
runVars == <<vm, arguments, calls, outcome, native, answered, nativeOutcome>>
vars == <<program, incoming, work, current, diagnosed, verdict, stage, failure, ir, code,
          vm, arguments, calls, outcome, native, answered, nativeOutcome>>

Source == program[Target]
NotYet == <<"none", 0>>
NoFrame == [pc |-> 0, stack |-> <<>>, locals |-> <<>>]

Init ==
  /\ VerifierInit
  /\ stage = "source" /\ failure = "none"
  /\ ir = <<>> /\ code = <<>>
  /\ vm = NoFrame /\ arguments = <<>> /\ calls = <<>> /\ outcome = NotYet
  /\ native = <<>> /\ answered = 0 /\ nativeOutcome = NotYet

-----------------------------------------------------------------------------
(* compileBaselineNative: lowering, OptimizationPipeline::run, compile.    *)

Abandon(reason) ==
  /\ stage' = "abandoned"
  /\ failure' = reason
  /\ ir' = <<>>
  /\ UNCHANGED code

\* Every pass ends with the verifier.
Keep(fn, next, reason) ==
  IF Verified(program, fn)
  THEN stage' = next /\ ir' = fn /\ UNCHANGED <<failure, code>>
  ELSE Abandon(reason)

LowerBytecode ==
  /\ verdict = "accepted" /\ stage = "source"
  /\ LET fn == Lower(program, Source)
     IN IF fn.failure # "none" THEN Abandon(fn.failure)
        ELSE Keep(fn, "lowered", "internalInvariant")
  /\ UNCHANGED runVars

Pass(before, after, fn) ==
  /\ stage = before
  /\ Keep(fn, after, after)
  /\ UNCHANGED runVars

Optimize ==
  \/ Pass("lowered", "folded", FoldConstants(ir))
  \/ Pass("folded", "propagated", PropagateConstants(ir))
  \/ Pass("propagated", "refolded", FoldConstants(ir))
  \/ Pass("refolded", "simplified", SimplifyCfg(ir))
  \/ Pass("simplified", "eliminated", EliminateDeadCode(ir))

CompileBaseline ==
  /\ stage = "eliminated"
  /\ IF Supported(program, ir)
     THEN stage' = "compiled" /\ code' = Compile(program, ir) /\ UNCHANGED <<failure, ir>>
     ELSE Abandon("unsupportedFunction")
  /\ UNCHANGED runVars

-----------------------------------------------------------------------------
(* The interpreter, on words.                                              *)

Start ==
  /\ stage = "compiled"
  /\ \E given \in [1 .. Params(Source) -> UNION {Samples[t] : t \in Types}] :
       /\ \A k \in 1 .. Params(Source) : given[k] \in Samples[Source.parameterTypes[k]]
       /\ arguments' = given
       /\ vm' = [pc |-> 1, stack |-> <<>>,
                 locals |-> [k \in 1 .. Source.localCount |->
                               IF k <= Params(Source) THEN given[k] ELSE 0]]
  /\ stage' = "interpreting"
  /\ UNCHANGED <<failure, ir, code, calls, outcome, native, answered, nativeOutcome>>

\* The machine code starts when the interpreter has ended.
EndVm(result) ==
  /\ outcome' = result
  /\ vm' = NoFrame
  /\ stage' = "native"
  /\ native' = Enter(Source.localCount, FrameRequirements(ir), arguments)

Popped(i) == SubSeq(vm.stack, Len(vm.stack) - Arity(program, Source, i) + 1, Len(vm.stack))

\* The operands after instruction i took its own and pushed its result.
Computed(i) ==
  LET operands == Popped(i)
      rest == Drop(vm.stack, Len(operands))
  IN CASE i.op = "constant" -> Append(rest, i.word)
       [] i.op = "load"     -> Append(rest, vm.locals[i.arg])
       [] i.op = "unary"    -> Append(rest, Negated(i.arg, operands[1]))
       [] i.op = "binary"   ->
            Append(rest, Calculated(i.arg, i.operator, operands[1], operands[2]))
       [] i.op = "compare"  ->
            Append(rest, Compared(i.arg, i.operator, operands[1], operands[2]))
       [] OTHER -> rest

InvalidVmDivision(i) ==
  /\ i.op = "binary" /\ i.arg = "i64" /\ i.operator \in {"div", "rem"}
  /\ Indivisible(Popped(i)[1], Popped(i)[2])

Interpret ==
  /\ stage = "interpreting"
  /\ LET i == Source.code[vm.pc]
     IN /\ i.op # "call"
        /\ IF InvalidVmDivision(i) THEN EndVm(<<"R5004", 0>>)
           ELSE IF i.op = "returnValue" THEN EndVm(<<"value", Last(vm.stack)>>)
           ELSE IF i.op = "returnVoid" THEN EndVm(<<"void", 0>>)
           ELSE /\ vm' = [pc |-> IF i.op = "jump" \/ (i.op = "jumpIfFalse" /\ Last(vm.stack) = 0)
                                 THEN i.arg ELSE vm.pc + 1,
                          stack |-> Computed(i),
                          locals |-> IF i.op = "store"
                                     THEN [vm.locals EXCEPT ![i.arg] = Last(vm.stack)]
                                     ELSE vm.locals]
                /\ UNCHANGED <<stage, outcome, native>>
  /\ UNCHANGED <<failure, ir, code, arguments, calls, answered, nativeOutcome>>

\* Any callee may return any value of its type; a user function may fail.
Answers(callee) ==
  [error : {"none"},
   word : IF program[callee].returnType = "void" THEN {0} ELSE Samples[program[callee].returnType]]
    \cup IF program[callee].kind = "user" THEN [error : CallErrors, word : {0}] ELSE {}

InterpretCall ==
  /\ stage = "interpreting"
  /\ LET i == Source.code[vm.pc]
     IN /\ i.op = "call" /\ Len(calls) < MaxCalls
        /\ \E answer \in Answers(i.arg) :
             /\ calls' = Append(calls, [callee |-> i.arg, arguments |-> Popped(i), answer |-> answer])
             /\ IF answer.error # "none" THEN EndVm(<<answer.error, 0>>)
                ELSE /\ vm' = [vm EXCEPT
                                 !.pc = @ + 1,
                                 !.stack = IF program[i.arg].returnType = "void" THEN Computed(i)
                                           ELSE Append(Computed(i), answer.word)]
                     /\ UNCHANGED <<stage, outcome, native>>
  /\ UNCHANGED <<failure, ir, code, arguments, answered, nativeOutcome>>

-----------------------------------------------------------------------------
(* The machine code.                                                       *)

Executing == stage = "native"
Instr == code[native.pc]
InCode == native.pc \in DOMAIN code

EndNative(result) ==
  /\ nativeOutcome' = result
  /\ stage' = "finished"

Undefined == ~InCode \/ Faults(native, Instr)

NativeStep ==
  /\ Executing /\ ~Undefined
  /\ Instr.op \notin {"call", "ret"}
  /\ native' = [Executed(native, Instr) EXCEPT !.pc = Advance(native, code, Instr)]
  /\ UNCHANGED <<stage, failure, ir, code, vm, arguments, calls, outcome, answered, nativeOutcome>>

\* The fifth argument of the bridge: where to put the result, or null.
ResultPointer == native.stack[Len(native.stack) - 4]

Answer == calls[answered + 1]

\* nativeCallBridge refuses a call whose arguments do not fit the callee.
BridgeAccepts ==
  LET callee == native.regs.rdx.area
  IN /\ native.regs.rcx = Value("frame", 1)
     /\ callee \in DOMAIN program
     /\ native.regs.r8 = Value("callArguments", 1)
     /\ native.regs.r9 = Word(Params(program[callee]))
     /\ (program[callee].returnType = "void") <=> (ResultPointer = Word(0))

PassedToBridge ==
  [callee |-> native.regs.rdx.area,
   arguments |-> SubSeq(native.memory.callArguments, 1, native.regs.r9.n)]

PassedToHost(callee) ==
  [callee |-> callee,
   arguments |-> CASE program[callee].parameterTypes = <<"i64">> -> <<native.regs.rcx.n>>
                   [] program[callee].parameterTypes = <<"f64">> -> <<native.regs.xmm0.n>>
                   [] OTHER -> <<>>]

Made(call) ==
  /\ answered < Len(calls)
  /\ call = [callee |-> Answer.callee, arguments |-> Answer.arguments]

ErrorCodes == <<"R5004", "R5003", "R5006">>
CodeOf(error) == CHOOSE k \in DOMAIN ErrorCodes : ErrorCodes[k] = error

Bridged ==
  IF Answer.answer.error # "none"
  THEN [Returned(native, Word(CodeOf(Answer.answer.error))) EXCEPT
          !.errorCode = CodeOf(Answer.answer.error)]
  ELSE IF ResultPointer = Word(0) THEN Returned(native, Word(0))
  ELSE [Returned(native, Word(0)) EXCEPT
          !.memory[ResultPointer.area][ResultPointer.n] = Answer.answer.word]

CallBridge ==
  /\ Executing /\ InCode /\ Instr.op = "call" /\ Instr.name = "bridge"
  /\ IF BridgeAccepts /\ Made(PassedToBridge)
     THEN /\ native' = Bridged
          /\ answered' = answered + 1
          /\ UNCHANGED <<stage, nativeOutcome>>
     ELSE EndNative(<<"diverged", 0>>) /\ UNCHANGED <<native, answered>>
  /\ UNCHANGED <<failure, ir, code, vm, arguments, calls, outcome>>

CallBuiltin ==
  /\ Executing /\ InCode /\ Instr.op = "call" /\ Instr.name # "bridge"
  /\ IF Made(PassedToHost(Instr.name))
     THEN /\ native' = Returned(native, IF program[Instr.name].returnType = "void" THEN Unknown
                                        ELSE Word(Answer.answer.word))
          /\ answered' = answered + 1
          /\ UNCHANGED <<stage, nativeOutcome>>
     ELSE EndNative(<<"diverged", 0>>) /\ UNCHANGED <<native, answered>>
  /\ UNCHANGED <<failure, ir, code, vm, arguments, calls, outcome>>

\* What executeInternal makes of the frame and of the word in rax.
Decoded ==
  LET word == native.regs.rax.n
  IN IF native.errorCode # 0 THEN <<ErrorCodes[native.errorCode], 0>>
     ELSE IF Source.returnType = "void" THEN <<"void", 0>>
     ELSE IF ~IsWord(native.regs.rax) THEN <<"undefined", 0>>
     ELSE IF Source.returnType = "boolean" /\ word \notin {0, 1} THEN <<"R5005", 0>>
     ELSE <<"value", word>>

\* What is undefined ends the run as well: SameBehaviour says it never does.
NativeReturn ==
  /\ Executing
  /\ ~Undefined => Instr.op = "ret"
  /\ EndNative(IF Undefined THEN <<"undefined", 0>> ELSE Decoded)
  /\ UNCHANGED <<failure, ir, code, vm, arguments, calls, outcome, native, answered>>

NativeRun == NativeStep \/ CallBridge \/ CallBuiltin \/ NativeReturn

PipelineStep ==
  \/ LowerBytecode \/ Optimize \/ CompileBaseline
  \/ Start \/ Interpret \/ InterpretCall
  \/ NativeRun

Next ==
  \/ VerifierStep /\ UNCHANGED pipelineVars
  \/ PipelineStep /\ UNCHANGED verifierVars

Spec == Init /\ [][Next]_vars

\* Machine code runs once it is entered, and the callees of one invocation have
\* all returned to the interpreter before.
FairSpec == Spec /\ WF_vars(NativeRun /\ UNCHANGED verifierVars)

-----------------------------------------------------------------------------
(* Properties.                                                             *)

\* A verified function with no more values than slots is abandoned exactly when
\* operands are on the stack where two of its blocks meet: no other is refused
\* by the lowering, by the verifier after a pass or by the compiler, and none of
\* these is compiled.  The reason is "unsupported" where the jump goes forward;
\* where it goes back, the block it goes to was lowered first, from an empty
\* stack, and the reason is "internalInvariant".
AbandonedForOperands ==
  stage # "source" =>
    (failure # "none" <=> \E pc \in Leaders(Source) : incoming[Target][pc].stack # <<>>)

\* The machine code gives the result, or the error, of the interpreter, after
\* the same calls with the same arguments; it never does what is undefined.
SameBehaviour ==
  stage = "finished" => nativeOutcome = outcome /\ answered = Len(calls)

\* The calling convention: at a call the stack is aligned to sixteen bytes and
\* its top four slots are the callee's to overwrite; at the return the stack
\* and the callee-saved registers are those of the caller.
ConventionRespected ==
  Executing /\ InCode =>
    /\ Instr.op = "call" =>
         /\ Len(native.stack) % 2 = 0
         /\ \A k \in Len(native.stack) - 3 .. Len(native.stack) :
              k >= 1 /\ native.stack[k].area \notin {"return", "caller"}
    /\ Instr.op = "ret" =>
         /\ native.stack = <<ReturnAddress>>
         /\ \A r \in CalleeSaved : native.regs[r] = CallerValue[r]

\* When the interpreter ends, so does the machine code.
NativeTerminates == stage = "native" ~> stage = "finished"
=============================================================================
