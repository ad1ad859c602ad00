------------------------------ MODULE FrontEnd ------------------------------
(***************************************************************************)
(* A parsed source from the analyzer to machine code: analyzed, compiled   *)
(* to bytecode, and then all that JitPipeline does with a program.         *)
(***************************************************************************)
EXTENDS JitPipeline, BytecodeCompiler, SourceSemantics

CONSTANT Sources   \* parsed programs, right and wrong

VARIABLES
  source,
  phase,      \* "parsed", "refused", "analyzed" or "compiled"
  diagnostic, \* the code of the diagnostic of a refused source, or "none"
  typed       \* the typed AST

frontVars == <<source, phase, diagnostic, typed>>

FrontInit ==
  /\ source \in Sources
  /\ phase = "parsed" /\ diagnostic = "none" /\ typed = <<>>
  /\ program = <<>> /\ incoming = <<>> /\ work = <<>> /\ current = <<>>
  /\ diagnosed = FALSE /\ verdict = "pending"
  /\ stage = "source" /\ failure = "none" /\ ir = <<>> /\ code = <<>>
  /\ vm = NoFrame /\ arguments = <<>> /\ calls = <<>> /\ outcome = NotYet
  /\ native = <<>> /\ answered = 0 /\ nativeOutcome = NotYet

AnalyzeSource ==
  /\ phase = "parsed"
  /\ LET result == Analyze(source)
     IN IF IsFailed(result)
        THEN phase' = "refused" /\ diagnostic' = result.code /\ UNCHANGED typed
        ELSE phase' = "analyzed" /\ typed' = result /\ UNCHANGED diagnostic
  /\ UNCHANGED <<source, verifierVars, pipelineVars>>

CompileBytecode ==
  /\ phase = "analyzed"
  /\ phase' = "compiled"
  /\ program' = CompileProgram(typed)
  /\ incoming' = [name \in UserFunctions(program') |-> <<>>]
  /\ UNCHANGED <<source, diagnostic, typed, work, current, diagnosed, verdict, pipelineVars>>

FrontNext ==
  \/ AnalyzeSource
  \/ CompileBytecode
  \/ phase = "compiled" /\ Next /\ UNCHANGED frontVars

FrontSpec == FrontInit /\ [][FrontNext]_<<frontVars, vars>>

-----------------------------------------------------------------------------
\* What the analyzer accepts the bytecode verifier accepts: the two check types,
\* initialization and the end of every path, one on the tree and one on the code.
AnalyzedIsVerified == verdict # "rejected"

\* The function of an accepted source is compiled to machine code: the compiler
\* leaves no operands on the stack where blocks meet.
AnalyzedIsCompiled == stage # "abandoned"

\* What the analyzer accepts runs in both tiers: nothing after it refuses.
AnalyzedIsRunnable == AnalyzedIsVerified /\ AnalyzedIsCompiled

\* Bytecode and machine code end as the source says, after the same calls with
\* the same arguments: every name means the declaration it is in the scope of,
\* operands and arguments are evaluated from left to right and only where
\* control goes.
SourceMeaning ==
  stage = "finished" =>
    LET f == SelectSeq(source, LAMBDA g : g.name = Target)[1]
        Answered(call) == [error |-> call.answer.error, word |-> call.answer.word,
                           type |-> program[call.callee].returnType]
        meaning == Meaning(f, arguments, [k \in DOMAIN calls |-> Answered(calls[k])])
    IN /\ outcome = meaning.ended
       /\ nativeOutcome = meaning.ended
       /\ meaning.made = [k \in DOMAIN calls |->
            [callee |-> calls[k].callee, arguments |-> calls[k].arguments]]
=============================================================================
