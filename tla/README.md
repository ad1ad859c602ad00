# EmberJIT in TLA+

EmberJIT compiles a small typed language to bytecode, verifies the bytecode, interprets it, and
compiles hot functions to x64 machine code while the program runs. This directory models the parts
of it where a mistake would not show in a unit test, checks them with TLC and proves the most
important results with TLAPS. Paths below are relative to the repository.

## 1. Inventory

The pipeline is: source text → tokens → AST → typed AST → bytecode → *verified* bytecode → VM; and,
for a function that became hot, verified bytecode → IR → optimized IR → machine code → executable
pages → native entry.

| component | state it keeps | operations | what makes it correct |
|---|---|---|---|
| virtual machine (`runtime/vm.cpp`) | frames, operand stack; `dynamicFrameCount`, `nativeBridgeDepth` of one execution | `execute`, `executeInternal`, `nativeCallBridge` | budgets exact on every path; tiers not observable; interpreter safe on verified code |
| dispatcher (`runtime/runtime_dispatcher.cpp`) | hot events of one execution | `dispatch` | a function is reported once, and compiled at most once |
| runtime function (`runtime/runtime_function.cpp`) | profile, tier, retained source, published code, last stage | `recordInvocation`, `compileBaselineNative`, `selectExecutionTier` | a compilation is all or nothing |
| executable memory (`jit/code_buffer.cpp`, `runtime/native_code.cpp`) | pages, a process-wide counter | create, move, destroy | published code is executable, not writable, flushed; no leak, no double release |
| function table (`runtime/runtime_function_table.cpp`) | functions and their index | construction, lookup | identifiers are unique (by the verifier) |
| bytecode verifier (`bytecode/bytecode.cpp`) | per function a state per instruction, a work queue, diagnostics | `Verifier::verify` | accepts only what the interpreter can run unchecked; terminates |
| builtins (`bytecode/builtins.hpp`) | none | `print_i64`, `print_f64`, `clock_ms` | signatures agree with the verifier's table |
| IR lowerer (`ir/bytecode_lowerer.cpp`) | blocks, a symbolic operand stack | `Lowerer::lower` | the IR computes what the bytecode computes |
| IR verifier (`ir/verifier.cpp`) | definitions, initialized locals per block | `Verifier::verify` | rejects what the backend would miscompile |
| optimizer (`ir/optimization.cpp`) | constant facts, liveness | four passes, the pipeline | same results; every pass leaves verified IR |
| baseline compiler (`jit/baseline_compiler.cpp`) | emitter, labels | `compile` | spill slots and call scratch large enough; callee-saved registers restored |
| emitter (`jit/emitter.cpp`) | bytes, labels, fixups, sticky error | one method per instruction, `bind`, `jump`, `finalize` | the processor reads what was asked for; jumps go to their labels; no code after an error |
| SSA form (`ssa/*.cpp`) | a function in SSA form | `ssa::Verifier::verify`, dump | accepted functions read no undefined value; not on the execution path |
| source text (`support/source.cpp`) | bytes, line starts, the first invalid sequence | construction, `isSourceBoundary`, `slice`, `locationAt` | agrees with Unicode; a diagnostic never cuts a character or a line end |
| lexer (`frontend/lexer.cpp`) | offset, tokens, diagnostics | `lex` | tokens are the longest lexemes, nothing is lost between them |
| parser (`frontend/parser.cpp`) | position, first diagnostic, declarations | `parseProgram` and one method per construction | accepts the grammar, reports the first token that fits nowhere, trees and spans read back |
| semantic analyzer (`semantic/analyzer.cpp`) | scopes, functions, diagnostics | `analyze` | accepted programs are typed and return on every path |
| bytecode compiler (`bytecode/lowering.cpp`) | code, slots | `compile` | its output passes the bytecode verifier |
| command line (`main.cpp`) | options, the machine of a benchmark, a silenced stdout | `run`, `benchmark`, six `dump-…` | exit codes mean one thing; measurements are of what they are labelled with |
| printers and dumps (`*_printer.cpp`, `dump.cpp`) | none | formatting | — |

How they interact. The embedder calls `execute` again and again on one machine; profiles and
published code stay, budgets and hot events are per execution. Interpreted code calls native code
directly; native code calls back only through `nativeCallBridge`, which re-enters
`executeInternal`. One machine runs on one thread, but several machines may run in one process, and
all share the address space and the counter of executable allocations. The front end is a chain of
functions: each takes the whole result of the one before and none runs after one that refused.

What is hard: the alternation of tiers in one call chain with failures (error results, C++
exceptions, exhausted budgets) at every point; ownership of executable pages on all failure paths;
the data-flow merges of the verifiers; optimizations across a control-flow graph; instruction
encodings whose irregular cases (rsp, r12, byte registers, two sizes of jumps) are valid code of
another meaning; boundaries of UTF-8 and of line ends; a benchmark that must put state back on every
way out.

There is no persistence, no message passing and no timeout in this program, so crashes,
lost messages and timers have no counterpart in the models.

## 2. Modules

| module | what it is |
|---|---|
| `Profiling` | the counters of one function and when it becomes hot (`profiling.hpp`, `recordInvocation`) |
| `EmberCalls` | abstract specification: what a program may observe of calls; no tiers |
| `TieredRuntime` | `execute`, `executeInternal`, `nativeCallBridge`, `dispatch` with their budgets and failures |
| `TieredRuntime_proofs` | theorems about it, and that it implements `EmberCalls` |
| `NativePublication` | `compileBaselineNative` down to the pages, and every way functions are created, moved and destroyed |
| `NativePublication_proofs` | theorems about it |
| `Bytecode` | programs, the structural checks and the effect of each instruction |
| `BytecodeVerifier` | the data flow of `Verifier::verify`, one action per turn of its loop |
| `BytecodeMachine` | the interpreter on what the verifier accepts; composes with `BytecodeVerifier` |
| `BytecodeMachine_proofs` | theorems about both: what the verifier accepts never faults |
| `Words` | words of a few bits: wrapping i64, f64 with NaN, infinity and two zeros |
| `Ir` | IR functions and `ir/verifier.cpp` |
| `IrLowering`, `IrOptimization` | `ir/bytecode_lowerer.cpp`; the four passes of `ir/optimization.cpp` |
| `BaselineCompiler`, `X64` | the instruction sequences of `baseline_compiler.cpp`; a processor that runs them |
| `JitPipeline` | composes the bytecode verifier and the five modules above with an interpreter on words |
| `JitPipeline_proofs` | theorems about these: machine code keeps the calling convention, the passes keep IR verified |
| `SemanticAnalysis`, `BytecodeCompiler` | `semantic/analyzer.cpp`; `bytecode/lowering.cpp` |
| `SourceSemantics` | reference: an evaluator of sources that knows neither types nor slots |
| `FrontEnd` | a source through the analyzer, the compiler and all of `JitPipeline` |
| `Encoding`, `Emitter` | the bytes of each instruction; the calls of `x64::Emitter` one by one |
| `Assembly`, `EmitterHistory` | abstract specification of the emitter; the emitter with its history and a reader of its bytes, shown to implement it |
| `Emitter_proofs` | theorems about `Encoding`, `Emitter` and `EmitterHistory`, up to the refinement of `Assembly` |
| `Ssa`, `SsaVerifier`, `SsaMachine` | the SSA form and its local checks; `ssa::Verifier::verify` step by step; executions of what it accepts |
| `SsaMachine_proofs` | theorems about the three: the fixpoint is dominance, and accepted functions read what is defined |
| `SourceText`, `Lexer` | `support/source.cpp`; `frontend/lexer.cpp` on top of it |
| `Lexer_proofs` | theorems about both: characters, places and lines, and the scanning, of every text |
| `Parser` | `frontend/parser.cpp`; its first part is the language as a grammar, for reference |
| `CommandLine` | `main.cpp`; takes hotness from `Profiling` |
| `CommandLine_proofs` | theorems about it |
| `MC…` | the instances for TLC |

Definitions whose comment says *seeded fault* are plausible bugs in the definition that follows
them. No specification uses them; each is put in the place of the definition to see that a property
notices.

### TieredRuntime

`acts` is the C++ and Ember call stack at once: one record per live user invocation, with the tier
it runs in, the way it was called (`entry`, `vmCall`, `bridge`) and whether a bridge past the depth
limit forced it into the VM. `dynamicFrameCount` and `nativeBridgeDepth` are the two counters of
`NativeCallState`. `raised` is an error on its way down; `Unwind…` are the frames it passes: the
guard of a VM-to-native transition, the end of an `executeInternal` with all its VM frames, and the
bridge, which folds the error into a status. Memory may run out wherever the code allocates
(`VmThrows`, `NativeCallThrows`, `ExecuteThrows`, `DispatchThrows`).

What the code of functions computes is abstracted: a running invocation may call, return or divide
by zero at any time. A host call changes none of this state. Compilation is one atomic choice of
success or failure. That `fail()` itself may throw while it builds its message is left out, and so
are the test seams (`forceNativeCallFailureForTesting` and its like).

`EmberCalls` has one call chain, one budget, one outcome. The refinement maps `acts` to its
functions, empty as soon as an error is raised: that is where the error takes effect for the
program, whatever C++ has still to unwind. An exception that escapes and an invalid native call
(`R5003`) are both `aborted` there.

### NativePublication

One function of each machine walks through the points of `compileBaselineNative`: eligibility,
lowering, verification, optimization, baseline compile, mapping, copy, protect, flush, ownership,
publication. Each may fail, and after each the pages, the counter of live allocations and the
holders of code are what the C++ destructors leave. Pages move from the buffer to the handle and
to the function they are published in; a machine may be destroyed and gives up what it holds. The
table of functions itself is not moved.

### Bytecode, BytecodeVerifier, BytecodeMachine

A value is its type. The verifier's queue, its optional states per instruction and its merges are
modelled step by step; the interpreter then runs each accepted program. The functions are taken in
any order (the code's order depends on nothing but position). Duplicate function identifiers and
the exact bytes of unused operands are abstracted to the opcode `invalid`.

### JitPipeline and the modules below it

One program goes through the actions `LowerBytecode`, five times `Optimize` (the order of
`OptimizationPipeline::run`; each pass ends with the IR verifier, as in the code) and
`CompileBaseline`. Then `Start` picks arguments, `Interpret` runs the bytecode, and the calls it
makes are recorded with answers chosen freely from the type of the callee, errors included. At last
the machine code runs, one `NativeStep` per instruction, on the same arguments; each call through
the bridge must be the next recorded one and is given the same answer.

Lowering, passes and compiler are functions from program to program, written as operators: the code
has no state between two calls. Machine instructions are what the methods of `Emitter` emit, one
record each; labels are positions. `X64` gives them their effect on registers, flags, the stack and
the memory that `NativeFrame` points to. A register holds a word, an address in a known area or
`Unknown`, so that the use of a clobbered register, a read behind an area, and a division that traps
are undefined, and `SameBehaviour` says they never happen. At a call all registers that Windows x64
leaves to the callee become `Unknown`, the four shadow slots too.

Abstracted: words have `Bits` bits; f64 arithmetic rounds in a fixed way (both tiers use the same
processor for it); `callI64`, `callValue` and `callVoid` are one kind of IR instruction; callees are
not run; the values of unused fields of IR instructions are canonical by construction. A call of a
builtin is made to the builtin directly, as the compiler does for the three signatures it knows.

A disagreement met here: the test at `src/tests/ir/ir_tests.cpp:530` calls operands on the stack at an
edge "unsupported rather than an internal lowering failure". That holds for jumps that go forward.
Blocks are lowered in the order of their addresses, each from an empty symbolic stack
(`src/src/ir/bytecode_lowerer.cpp:218`), so that with a jump that goes back, as in `jump 2;
returnValue; load 0; jump 1`, the lowering fails at the `returnValue` with `internalInvariant` and
"verified bytecode returns with an invalid stack", and `dump-ir` reports an error. The compiler of the
language makes no such bytecode. The program is among those of the run, and the model gives the reason
that the code gives; either way the function is not compiled.

### FrontEnd and the modules below it

`AnalyzeSource` is `SemanticAnalyzer::analyze`, `CompileBytecode` is `Compiler::compile`; all that
follows is `JitPipeline`. The analyzer threads its scopes and the next symbol number through the
tree and ends with the first diagnostic, as the code does with `fail` and `nullptr`. The operators
of `BytecodeCompiler` append to the code of a `FunctionCompiler` and patch its jumps. Function ids
are the names of the functions (the code numbers them after the host functions and refuses
duplicates); text, spans and messages are left out; a literal is its magnitude.

`SourceSemantics` is not a translation: it evaluates a source by name, with scopes of values and
types found in the values, and says what the run should have done.

### Encoding, Emitter, Assembly and what lies between them

An instruction is a record with the name of the method, its registers and its number. `Encoding`
holds the byte sequences of the methods and what each passes to `beginInstruction`; a 64-bit number
is in two signed halves. The actions of `Emitter` are `CreateLabel`, `Bind`, `Emit` (every method
but the jumps), `Jump`, `Finalize` and `FinalizeAgain`; each has its refusals as disjuncts, in the
order of the code, and `error` keeps the first. `bytes`, `labels` and `fixups` are `bytes_`,
`labels_` and `fixups_`; a label of another emitter (`Foreign`) is a label whose owner is another.

`Assembly` knows no bytes: a program of symbolic instructions, labels that stand before an
instruction, one code with all jumps resolved, or none. `EmitterHistory` adds the accepted calls to
the emitter and, when `finalize` hands out code, what a processor reads in it: `RefinesAssembly`
says that this is the program asked for, each jump leading to the first byte of the instruction its
label was bound to. The reader (`Decode`) shares no table with `Encoding` but the numbers of
conditions. `Written` says what a method can be called for: parameters that the method does not
have are 0 or `None`, numbers fit 32 bits, and the stack pointer moves by no more than a positive
int32 holds (the method takes a `uint32_t`, the processor reads the field signed; the one client
passes 40). `HistoryAssumption` asks this of the instructions of a history, and that the limit of
the code (`maximumCodeSize()`) is no larger than an int32.

### Ssa, SsaVerifier, SsaMachine

The phases of `ssa::Verifier::verify` are actions; each ends the verification if it reports
anything. Reachability visits one block in a step, the fixpoint of dominators refines one block in a
step, in layout order, and starts another sweep when something changed. `DominanceExact` compares
its result with the definition by paths (a block dominates another if the other cannot be reached
without it), and what the use phase reports with "defined on every path to the use".
`SsaMachine` is what the form means: an accepted function is executed on types, the arguments of an
edge becoming the parameters of its target all at once.

### SourceText, Lexer

The loops of the constructor of `SourceText` are actions (`CollectLineStart`, `ValidateCharacter`),
the questions asked of it are operators. They are compared with a definition by code points: which
byte sequences are characters, where a character, a `\r\n` and a line begin. The lexer makes one
token, one run of blanks or one comment in a step; a name or a number is cut out as a whole and
then judged, as in the code. `TokensReadBack` is the definition by longest lexemes.

### Parser

The methods of `ParserState` are operators that take a cursor and yield one, with the node they made
or `Absent` and the first diagnostic; the program is parsed one function in a step. Names and
literals are the tokens they are written with. The grammar is the rules of the language and a reader
that keeps every stack of symbols still to be read; `DiagnosticExact` says that the parser stops at
the first token no continuation of the grammar can explain, with the code of what was missing there,
and accepts exactly what the grammar derives. `TreeReadsBack` writes the tree back as tokens.

### CommandLine

An argument is a name and, where the option takes one, a number. `pc` is the place in `main`: the
actions read one argument, the file, pass or fail one stage (`Stages` of the command), and run, warm
up, or measure one round at a time. `silenced` is a living `ScopedStandardOutputSilencer`.

`VirtualMachine::execute` is a sequence of actions. `Execute` begins one, with the entry and the
calls the program makes this time (a program may read the clock, so that two executions need not
call alike); `Invoke` is `RuntimeDispatcher::dispatch` of the next user function, entry or callee:
it counts, reports the function when it becomes hot (`BecomesHot` of `Profiling`), compiles it, and
chooses a tier; `EndRun`, `EndWarmUp` and `EndRound` take the report of the execution, which may
have failed in any of its invocations. `work` lists what was done in it, for which function: created,
compiled, interpreted, run as machine code. How invocations nest is in `TieredRuntime`; here nesting
shows in one thing, that a callee at the limit of the bridge is interpreted even if it has code.

A trace is a line for each event of the execution, printed before its error. `EveryEndIsExplained`
counts the invocations and asks that the lines name just the functions that were invoked as often as
the threshold says, at any threshold, as the test `ember_run_vm_hot_loop_trace` (CMakeLists.txt:656)
has it for one function and a threshold of 3. `MeasuredAsLabelled` reads the `work` of the timed
rounds, callees included: in the rounds of the VM all functions are interpreted; a cold round begins
with the compilation of the entry and runs no machine code that was not compiled in it; a warmed
round begins in the machine code of the entry and never compiles it. What a warmed round may still
do is compile or interpret a callee, one that no earlier round has called or that has no code: the
command asks for a native entry and for no more.

## 3. Runs

| run | bounds | shows |
|---|---|---|
| `tiered_runtime` | 2 functions, 5 frames, 2 bridge levels, counters to 3 | budgets, chain, hot events, errors, and that tiers are not observable |
| `native_publication` | see `MCNativePublication.tla` | ownership, W^X before publication, all or nothing |
| `native_publication_stage` | the same | the reported stage does not mean what its comment says (a finding) |
| `bytecode_machine` | all bodies of 4 instructions from a pool of 10, and longer ones for loops, merges, calls | the verifier is sound for the interpreter and terminates |
| `jit_pipeline` | 108 programs, words of 4 bits, at most 5 calls | machine code does what the interpreter does, within the calling convention |
| `front_end` | 56 sources, words of 4 bits, at most 4 calls | accepted sources are verified and compiled to the end, and mean what they say in both tiers |
| `emitter` | 16 bytes, 2 labels, three instructions and two jumps in any order; every instruction alone | what `finalize` hands out is the program asked for; instructions are encoded as the processor reads them |
| `ssa_verifier` | every graph of 3 blocks, some of 4, a loop wrong in each place | the fixpoint is dominance; accepted functions never read what no path has defined |
| `parser` | short bodies over two sets of tokens, two programs edited anywhere | the first diagnostic is where and what the grammar says; trees, spans and precedence read back |
| `lexer` | texts of up to 5 bytes over the bytes that matter, keywords with neighbours | encoding, boundaries, locations and tokens agree with their definitions |
| `command_line` | up to 4 arguments after `run`, 3 after `benchmark`; a program for every way out; up to 4 invocations of 2 functions, counts to 4 | usage errors, exit codes, what reaches stdout, which functions a trace names, and what is measured |
| `command_line_inspect` | the same | a program that runs cannot be inspected at every stage (a finding) |

The bounds of `tiered_runtime` are the smallest in which a call is forced into the VM below the
frame limit, a native function calls a VM function that calls a native one, and a function becomes
hot while it is live. The pool of `bytecode_machine` contains an instruction for each way to
violate one check.

The programs of `jit_pipeline` contain every operation on constants and on variables, three kinds of
condition (decided at once, decided after constants are propagated, not decided) with four kinds of
branch on each side, loops (one of which starts at the first instruction), calls whose result is
used, dropped or passed on, unreachable code, and operands left on the stack where blocks meet, with
jumps forward and back, which is all that lowering refuses (`AbandonedForOperands`). Four bits hold
the least and the largest word, both zeros, both infinities, NaN and numbers between them, and
samples of arguments contain the boundaries. No pass depends on the width of words. Five calls are
enough for a loop that calls to be entered, repeated and left; longer runs of the interpreter stop
there and are not compared.

The sources of `front_end` hide names, redeclare them with another type after a scope ended, read
the outer variable in the initializer of the inner one, end their paths in all ways, and have
operands whose order shows in the calls or in the error. For each diagnostic there is a refused
source. Each of them has helper functions before and after it, so that symbol numbers do not begin
at zero and calls go both ways.

Sixteen bytes of `emitter` hold both jumps and a load with a SIB byte, so that calls are refused for
lack of space at every point, jumps go forward, backward and to themselves over instructions of
different length, and two jumps name one label. The instructions are a division that is refused, one
that is not, and a load of eight bytes. `ReadAsWritten` needs no sequence: it takes every
instruction with every register and with numbers at the limits of their fields, once.

`ssa_verifier` has every graph of three blocks with every place of a definition and of a use, within
one block in both orders: joins, unreachable blocks and loops whose dominators need a second sweep
are among them, and four blocks with a definition in the second and a use in the last. The loop
with parameters and calls has each operand, result, type, operation, edge and table entry replaced
by each other one, which reaches each report of the verifier.

The bodies of `parser` go up to four tokens, in which constructions begin and break off in every way, and
all triples of operators with a sign stand in one expression. The two programs hold every
construction and are cut off after each token, with and without the end of file, and changed by one
token lost, replaced by or preceded by each other kind. `lexer` takes the bytes at both sides of
each limit of the UTF-8 table at each place, all short sequences of line ends and characters of one,
two and four bytes, and texts over the bytes the scanner tells apart. Beyond a run of like bytes
neither scanner looks more than three bytes ahead, and the parser looks one token ahead.

`command_line` gives each option malformed, absent, repeated and at both sides of its limits; a
program fails in each stage, has each kind of unsuitable `main`, raises an error never, sometimes or
always. It calls nothing, one function up to three times, its `main` again, or a function in some
executions only; both functions, the entry alone or neither can be compiled. With counts up to 4 and
thresholds of 0, 1, 2 (the default) and 3, a function gets there in its first call, a later one, or
never, and the entry by recursion. Two rounds show a machine that is kept and one that is replaced.

Some properties join several statements about one result, which stand beside them by name:
`FinalizeIsSafe` (`CodeFits`, `FixupsInside`, `DisplacementsFit`), `DominanceExact`,
`DiagnosticExact`, `TreeReadsBack`, `SourceTextExact`, `ScanningExact` and `AnalyzedIsRunnable`.

Fairness. `FairSpec` of `TieredRuntime` has weak fairness of `Unwind`: an error return or a C++
exception passes through straight-line code. No call and no return is fair: programs may loop.
`FairSpec` of `BytecodeMachine` has weak fairness of the verifier's loop, which nothing else in the
process can interrupt. `FairSpec` of `JitPipeline` has weak fairness of `NativeRun`: machine code
runs once entered, and all the answers it will be given are there. So `NativeTerminates` says that
compiled loops end when the interpreted ones do. `SsaMachine` has weak fairness of the verifier,
straight-line code with loops over finite sets that nothing interrupts; the execution is not fair.
Emitter, lexer, parser and command line have none: no property of theirs says that something must
happen, since the embedder calls the emitter when it likes and the others end where their input does.

Deadlock is checked in `tiered_runtime`. In `native_publication` the system really stops when every
machine is gone; in `bytecode_machine`, `jit_pipeline` and `front_end` when the program is refused,
abandoned or has ended, and when an interpreted loop reaches the bound on calls; in `ssa_verifier`,
`lexer`, `parser` and `command_line` when the function, text, program or command has ended. In
`emitter` a client may always ask again, and deadlock is checked.

Findings. Three places of the repository say what the program does not do. (1) The comment of
`runtime_function.hpp:28` calls the recorded stage the furthest completed one; when sharing finished
code runs out of memory it stays at `emitted`. (2) `README.md:128-133` inspects a program that
prints with `dump-typed-ast`; that command analyzes without the builtins (`main.cpp:188-189`) and
ends with a diagnostic. (3) `README.md:730` says that cold JIT
"includes the cost of creating runtime state"; `measureColdJit` clones the program and creates the
machine before it reads the clock (`main.cpp:539-543`), in every round. The third has no run of its
own: what contradicts it is a part of `MeasuredAsLabelled`, that nothing timed is a creation, in any
of the three measurements, which is checked and proved.

## 4. Proofs

`TieredRuntime_proofs` proves for all functions, all frame and bridge limits and all counter widths
that the type invariant, `FrameBudgetExact`, `CallChain`, `BridgeDepthExact` and
`HotExactlyAtThreshold` are invariants, that `NativeNestingBounded` follows from them for the native
activations, and that `FailedCompilationIsFinal` holds of every step. The assumptions are
`BudgetAssumption` (at least one frame) and `MaxCountAssumption`. The inductive invariant is the
conjunction of these with what is needed of the stack while an error travels: the frame count is at
least the number of live calls (it is not equal: frames of an aborted `executeInternal` stay
counted until the next execution resets the counter), and the bridge depth counts the unforced
bridge calls, which forms a prefix of the chain. That is why the unbalanced counter is harmless.

The same module proves that every step of `Spec` is a step of `EmberCalls` or leaves its variables
unchanged, from the same invariant.

`NativePublication_proofs` proves for any number of machines and pages that published code is
runnable, that pages are owned once and that a compilation is all or nothing. For finitely many
machines and pages (`FiniteAssumption`) it also proves `LiveCountExact` and the type invariant: the
counter lags behind the mapped blocks only by the threads between the call to the system and the
change of the counter, and each that has not counted yet holds a block of its own, so that the
counter is never negative.

`BytecodeMachine_proofs` proves the soundness of the verifier for every set of programs, well formed
or not, and every frame limit: `VerifiedNeverFaults`, `NoUninitializedLoad`, `SegmentsAsPredicted`,
`ResultsAreTyped`, and that the states of the data flow only descend (`IncomingDescends`). The
assumptions are `ProgramsAssumption` (a function is made of vectors and a natural count of slots, as
`bytecode::Function` is; what is in them is arbitrary) and `MachineAssumption`. None of the
properties is inductive: that a load finds its local initialized rests on the state computed for
that instruction, and on every way control can get there. `IInv` has two halves:

- `FlowInv`, of the verifier: as long as nothing is diagnosed, each instruction that has a state is
  in the queue of the current function or `Settled`, which is to accept its own state and to have at
  each successor a state that what it leaves is an instance of. A merge that changes a state queues
  its instruction, and one that does not leaves its predecessors settled, because states only
  descend. With an empty queue and no diagnosis the states are therefore a solution, and the states
  of functions concluded earlier are not touched again.
- `MachineInv`, of the interpreter: each frame is at an instruction with a state and its locals
  agree with it; the frame on top has as operands what its state predicts, a frame below the
  operands its state at the next instruction predicts but for the result of the call it waits for;
  segments of the shared stack are adjacent (`Sound`). Each instruction keeps it: an ordinary one by
  `Settled`, a call since the state at a function's entry is an instance of its parameters, a return
  since the one operand left has the return type of the function, which the caller's state expects.

`Emitter_proofs` proves for every limit of the code, every number of labels and every set of
instructions (`EmitterAssumption`, `HistoryAssumption`) what the run `emitter` checks on a few of
them. It has four parts.

- Sizes: each method appends at least one byte, only bytes, and no more than it reserved
  (`EncodedFits`, one case for each form of instruction), so that `FinalizeIsSafe` holds: `finalize`
  indexes `labels_` and `bytes_` inside their bounds and its check of the range of a displacement
  never refuses. `TypeOK`, `CodeFits` and `FixupsInside` together are inductive as they stand (`IInv`).
  The argument for the range is that a displacement leads from a place in the code to a place in the
  code, and the code is never longer than the largest displacement, because the size is reserved
  before the bytes are appended.
- Instructions: wherever the bytes of a method stand in a code, the processor reads that
  instruction and goes on after them (`InstructionRead`, one lemma for each form; from it
  `ReadAsWritten`). The bits of REX, ModRM and SIB put each register together again (`RexFields`,
  `ModRmFields`, `Parts`), four bytes are the signed number they were made of (`HoldsInt32`), and the
  arms of the reader do not overlap (`WideArms`, `LongArms`, `ShortArms`). The limits `TLC` tries are
  replaced by every number.
- Layout: `HInv` is the inductive invariant of the history. While calls are accepted, the texts of
  the calls follow one another from the first byte to the last and each is still as it was appended;
  every jump has its fixup and every fixup its jump; a bound label stands where an instruction begins
  or at the end. That the texts do not overlap is what makes `finalize` write each displacement into
  the field of its own jump and nowhere else (`FieldsOfCall`, `PatchedHolds`).
- Refinement: a code whose instructions follow one another is read as exactly these
  (`DisassembledAs`, by induction from the last to the first, since the reader is a function on the
  bytes; `ReaderDefined` shows that it exists because it only goes forward). Places of calls rise
  strictly, so that a byte tells the instruction (`IndexOfStart`, `FoundStart`), a displacement leads
  to the one its label stands before (`JumpLeads`), and what `finalize` hands out is `Assembly`'s
  program (`PatchedUnderstood`). Every call is a step of `Assembly` or changes nothing in it
  (`StepMaps`), hence `RefinesAssembly`.

`SsaMachine_proofs` proves for every set of functions (`FunctionsAssumption`: what the code keeps in
vectors is a sequence; blocks, instructions, edges and tables may hold anything) that the fixpoint
of `ssa::Verifier` computes dominance as it is defined by paths, that a function refused for the
places of its uses has a use some path reaches undefined (`DominanceExact`), and that an accepted
function never reads a value before its definition or as another type, whichever way its branches go
(`ReadsAreDefined`). The inductive invariant `SsaInv` says of each phase what those before it left:
reached blocks are those a path from the entry reaches; no sweep removes a dominator by paths
(`DominatorsKept`); a block of the current sweep that was visited solves its equation unless
something changed (`SweepSolves`), so that the sets at the end are a solution (`Solved`). The other
direction is the hard one: that a solution has no dominator too many. If block `d` does not dominate
`b`, a path avoids it, and along the path each block's equation drops `d`. The set of blocks reached
without `d` is defined by as many steps as there are blocks; that it is closed is the pigeonhole
principle, by induction over a set of numbers of steps.

`CommandLine_proofs` proves for every set of argument lines (`InputsAssumption`: a line is a sequence
of arguments, and only the two options with a number have one), every content of files, every set of
functions (`EntryAssumption`: the entry is one), every sequence of calls, every limit of the counters
and every number of iterations: code 2 is given exactly to the lines without a meaning, and the options of
any other line are what its arguments say as a whole (`UsageExact`); each way out of `main` has
written what its code means (`EveryEndIsExplained`); and a table that is printed is made of full
measurements of what their labels say (`MeasuredAsLabelled`). `ReadingInv` relates what was parsed
to the arguments before the next one: names seen, the one path and nothing but empty arguments
before it, the last value of each option. `StreamsInv` says which command can be where and what it has
written. Of an execution, `Executed` says what its `work` and its machine have to do with the machine
it began on: the profile counts its invocations, machine code is run of functions that had it before
or were compiled in it, and those are hot. `Traced` adds for `run`, which begins with a new machine,
that the events are those of the functions whose count has reached the threshold, one for each
(`CountedOnce`: a counter goes through the threshold once, since it never goes back).
`BenchmarkInv` says what the machine of the current round is: one without tiers, a new one whose
first invocation of any function is hot, or one with native code of the entry, which is hot and so
never compiled again; and `MeasureInv` that a measurement that is over has all its rounds or has
shown its error.

`Lexer_proofs` proves for every set of byte sequences (`TextsAssumption`) what `SourceText` and
`Lexer` are checked for: `SourceTextExact`, `ScanningExact` and `SpansCanBeSliced`. It goes from the
bytes upwards. The tables of first and second bytes accept just the shortest forms of code points
that are no surrogates, one lemma for each length (`FourBytes`); a continuation byte begins nothing,
so that the ends of characters (`CharacterEnds`, a recursive function unfolded with `Iteration`) are
the places the constructor's loop visits, and it stops at the last of them (`TextInv`). `LineStartsUpTo`
says that the line starts collected are the ends of lines passed, in order. Whether an offset is a
boundary is decided by walking from the start of its line (`Walk` unfolds it): the start is a
boundary, each step leads to the next one, and none is jumped over. For the scanner, `LexerInv` says
that what was scanned is a chain of tokens each right after the one before (`Rights`), and that the
place it stands at is one where no comment is open (`Opens`); a token ends after a byte of ASCII that is no
carriage return, which is a boundary in any valid text. `ClassifyNumberFacts` shows that the code's
test of a literal by its points agrees with the forms of numbers.

`JitPipeline_proofs` proves `ConventionRespected` for every set of programs, every width of words and
every number of calls: machine code makes each call with an
aligned stack whose top four slots are the callee's to overwrite, and returns with the stack and the
callee-saved registers of its caller. The assumptions are `ProgramsAssumption` (only that a program
is made of vectors: what the bytecode verifier refuses is in the set), `PipelineAssumption` (the
function compiled is one of the program's) and `WordAssumption`. What holds at a call depends on every
instruction since the prologue, so that the invariant (`PipelineInv`, also checked by TLC on the
instance of `jit_pipeline`) is built in four layers:

- `Positioned`: where the machine is says what is on its stack. In the prologue as many registers
  are pushed as instructions are done; in an epilogue as many are restored; anywhere else the
  frame is whole (`Framed`), and `rsp` and the saved registers are as the prologue left them.
- `Conventional`, of the code, is what keeps a step of the machine `Positioned`: it begins with the
  prologue; after it comes no instruction that moves the stack or writes a saved register, except in
  whole epilogues, into which no jump goes; each jump has a label, and the code does not run off its end
  within an epilogue.
- The compiler makes conventional code (`CompiledIsConventional`): what it emits for each instruction,
  terminator and block is a `Piece`, pieces can be put side by side, and the labels that a piece
  jumps to without binding them are those of blocks and of the two common failures, which are bound
  once the pieces are joined.
- This rests on the IR: instructions of known kinds (`ShapedIr`), which the lowering and each of the
  passes hand on, and targets of jumps that exist, which is the IR verifier's to say
  (`Verified`), and it is called after every one of them.

The same module proves that the passes never lose a function (`PassesKeepIrVerified`, and for the
pipeline `OptimizerAbandonsNothing`): what they make of verified IR the verifier takes, so that
`OptimizationPipeline` hands no function back to the interpreter. The argument is one for all four:

- `Sound` is what the verifier checks but for the numbers of the values, written by positions:
  `Has` (a value is defined before a place of its block, with a type) and `Stores` (a local is stored
  before a place). `VerifiedIsSound` says that verified means sound with values numbered in layout order.
- `Derived` says how a function came from another: blocks and instructions left out, loads and pure
  i64 operations replaced by constants of the same value (`Replaces`); `Remains`, that parameters, stores
  and what is used later were not left out; `Connected`, that terminators go where they went and that
  every block is entered. What is derived so from a sound function is sound (`DerivedIsSound`): its paths are
  paths of the other one, which `Entered`, the least set closed under the targets of its blocks
  (`EnteredClosed`, `EnteredLeast`), lets the prover say without induction over paths.
- `CompactValues` makes a sound function verified (`CompactedIsVerified`): new numbers are given once,
  in order, to what is still defined.
- Each pass is then shown to derive. Folding and propagation replace in place: what they know of values and
  locals are words of i64 only (`FactsAreIntegral`). Simplification moves blocks
  (`SimplifiedIsSound`). Elimination goes backwards through a block, and `Needing` is its invariant: a
  value wanted later is live until its definition is met, which is then kept.

What the facts of these proofs look up was written in the model so that the provers know it:
`Assigned` for the assignment to a table, `InOrder` for the selection of definitions.

The folds by which the lowering and the passes are written are recursive functions of the library. The
prover knows the result of one as a chain of intermediate states (`FoldIsChain`), along which the
shape is kept.

Induction over numbers: the library states it for operators, which the prover cannot instantiate,
but a property of numbers is also the set of numbers that have it, and `WFMin` speaks of sets. Each
module of proofs that needs it begins with that step, as facts about sets and intervals.

Only model-checked: the liveness properties (`ErrorsReachTheEmbedder`, `VerifierConcludes`,
`NativeTerminates`, `SsaVerifierConcludes`), which are beyond the prover; of `JitPipeline`,
`SameBehaviour`, which is the correctness of the whole compiler, and `AbandonedForOperands`,
of which the passes' share is proved, but which would need that the lowering produces what the IR
verifier accepts, and exactly when; and all of
`FrontEnd` and `Parser`, which walk over trees with recursive operators, of which the prover knows
nothing.

## 5. Plan

Done so far: the tiers, native publication, the bytecode verifier with the interpreter and its
soundness, the native pipeline, the front end from bytes to bytecode, the emitter, the SSA form, the
command line. Next, in this order:

1. `JitPipeline` with a refused emission as an action: `BaselineCompiler` gives up at the first call
   that `Emitter` refuses, and the function stays interpreted.
2. `TieredRuntime` with `compileBaselineNative` in several steps, refined by `NativePublication`.

## 6. Not modelled

- Printers and dumps of tokens, trees, bytecode, IR, SSA and machine code, and the rendering of
  diagnostics: each formats one value and keeps no state. In `CommandLine` a dump is one word of
  output; help texts and the format of the numbers of the benchmark are left out.
- The output of the builtins and the clock: I/O.
- In the emitter: `listing`, the refusal of xmm codes of eight or more (the enumeration has two), and
  exceptions of allocation, after which the client must discard the emitter. That `finalize` reports
  `codeTooLarge` for a displacement is modelled and shown never to happen.
- In `JitPipeline`: an emission that fails.
- Nothing in the program builds the SSA form yet; its verifier is called by tests only. The greatest
  number of an identifier is the constant `MaxId`.
- In `Ir`: the ranges of identifiers and the canonical values of fields that an operation does not
  have, which `verifier.cpp` tests too; in the model these fields have one value. JIT code that
  was not optimized is reached by an option for tests only and is not modelled.
- In `CommandLine`: failures of `cloneVerifiedProgram` and of `registerBuiltins` on a fresh registry.
- In the front end as a whole: `FrontEnd` starts from trees, `Parser` from tokens and `Lexer` from
  bytes. Each is checked against a definition of what the next one may expect; they are not run in one
  behaviour, since each hands over its result once and is then gone.
- Recovery: lexer, parser and analyzer end with their first diagnostic; there is no recovery in this
  code.

Data races are not possible in this program: there is one thread per machine, and the one counter
the machines share is atomic.
