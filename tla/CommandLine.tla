---------------------------- MODULE CommandLine ----------------------------
(***************************************************************************)
(* main.cpp: the arguments are read one by one, the file is taken through  *)
(* the stages its command needs, and the program is run, measured or       *)
(* printed.  The stages are modelled elsewhere; here each one succeeds or  *)
(* refuses, as the program in the file decides.  An execution is the       *)
(* sequence of invocations of user functions that it makes: what each one  *)
(* counts, compiles and reports, and the tier it runs in (TieredRuntime    *)
(* has how they nest and fail).                                            *)
(***************************************************************************)
EXTENDS Profiling, FiniteSets

CONSTANTS
  Lines,             \* the sequences of arguments tried
  Programs,          \* the contents of files tried
  Functions,         \* the user functions of the programs
  DefaultThreshold,  \* 1000
  DefaultIterations, \* 10
  MaxIterations      \* maximumBenchmarkIterations

ASSUME CommandLineAssumption ==
  /\ DefaultThreshold \in 0 .. MaxCount
  /\ DefaultIterations \in 1 .. MaxIterations
  /\ MaxIterations \in 1 .. MaxCount

Entry == "main"
ASSUME EntryAssumption == Entry \in Functions

\* Only the two options with a number have one.
Arguments ==
  {a \in [name : STRING, value : Int] :
     a.name \in {"--jit-threshold=", "--iterations="} \/ a.value = 0}

\* What is in a file, as main can tell it apart: the stage that refuses it, its
\* function main, how its functions are lowered, and what it does when it runs.
\* A program may read the clock, and then one execution need not call what
\* another one does, or fail where it fails.
Contents ==
  [fails : STRING, callsBuiltin : BOOLEAN, main : STRING, functions : Seq(STRING),
   calls : (SUBSET Seq(Functions)) \ {{}},  \* what main may come to call, in order
   compilable : SUBSET Functions,           \* has a form the compiler supports
   nests : BOOLEAN,                         \* calls reach the limit of the native bridge
   raises : {"never", "sometimes", "always"}]

ASSUME InputsAssumption == Lines \subseteq Seq(Arguments) /\ Programs \subseteq Contents

VARIABLES
  arguments,  \* what follows the name of the executable
  pc,         \* what main does next
  parsed,     \* index, names seen, options and path
  program,    \* the content of the file, once read
  stage,      \* how many stages the program has passed
  stdout, stderr,
  silenced,   \* a ScopedStandardOutputSilencer is alive
  bench,      \* the running measurement
  execution,  \* the running call of VirtualMachine::execute, or the last one
  measured,   \* what happened in the timed part of each round, by measurement
  exitCode

files == <<program, stage>>
benchmark == <<silenced, bench, execution, measured>>
vars == <<arguments, pc, parsed, files, stdout, stderr, benchmark, exitCode>>

-----------------------------------------------------------------------------
(* Words.  An argument is a name, with the number behind its "=" if it has *)
(* one; a text that is not the whole of a uint64 is Malformed.             *)

Malformed == -1
Running == -1
Word(name) == [name |-> name, value |-> 0]

DumpCommands ==
  {"dump-tokens", "dump-ast", "dump-typed-ast", "dump-bytecode", "dump-ir", "dump-asm"}
Commands == {"run", "benchmark"} \cup DumpCommands
RunOptions == {"--no-jit", "--trace-jit", "--jit-threshold="}
Dashed == RunOptions \cup {"--iterations=", "--help", "--version", "-x"}

Command == IF arguments = <<>> THEN "" ELSE arguments[1].name
OptionsOf(command) == IF command = "run" THEN RunOptions ELSE {"--iterations="}

ParsesAsNumber(text) == text >= 0 /\ text <= MaxCount

InBounds(argument) ==
  /\ argument.name \in {"--jit-threshold=", "--iterations="} => ParsesAsNumber(argument.value)
  /\ argument.name = "--iterations=" => argument.value # 0 /\ argument.value <= MaxIterations

DefaultOptions ==
  [jitEnabled |-> TRUE, traceJit |-> FALSE, hotThreshold |-> DefaultThreshold,
   iterations |-> DefaultIterations]

\* Seeded fault: a switch takes its default back.
AppliedAnew(argument, options) ==
  CASE argument.name = "--no-jit"         -> [DefaultOptions EXCEPT !.jitEnabled = FALSE]
    [] argument.name = "--trace-jit"      -> [options EXCEPT !.traceJit = TRUE]
    [] argument.name = "--jit-threshold=" -> [options EXCEPT !.hotThreshold = argument.value]
    [] argument.name = "--iterations="    -> [options EXCEPT !.iterations = argument.value]

\* The options after one more of them.
Applied(argument, options) ==
  CASE argument.name = "--no-jit"         -> [options EXCEPT !.jitEnabled = FALSE]
    [] argument.name = "--trace-jit"      -> [options EXCEPT !.traceJit = TRUE]
    [] argument.name = "--jit-threshold=" -> [options EXCEPT !.hotThreshold = argument.value]
    [] argument.name = "--iterations="    -> [options EXCEPT !.iterations = argument.value]

-----------------------------------------------------------------------------
(* The file's content, as the stages judge it.                             *)

\* The stages a command takes its file through.
Stages(command) ==
  CASE command = "dump-tokens"    -> <<"lex">>
    [] command = "dump-ast"       -> <<"lex", "parse">>
    [] command = "dump-typed-ast" -> <<"lex", "parse", "analyze">>
    [] OTHER                      -> <<"lex", "parse", "analyze", "compile", "verify">>

\* Only analyzeForRuntime registers the builtins before it analyzes.
KnowsBuiltins(command) == command # "dump-typed-ast"

Passes(name, command) ==
  /\ program.fails # name
  /\ name = "analyze" => KnowsBuiltins(command) \/ ~program.callsBuiltin

\* How far dump-ir comes: a function that cannot be lowered refuses the whole
\* program before anything is printed, one that cannot be optimized what follows.
LoweringFails == \E k \in DOMAIN program.functions : program.functions[k] = "lowering failed"
Optimizable ==
  CHOOSE n \in 0 .. Len(program.functions) :
    /\ \A k \in 1 .. n : program.functions[k] # "optimization failed"
    /\ n < Len(program.functions) => program.functions[n + 1] = "optimization failed"

-----------------------------------------------------------------------------
(* A virtual machine, as the invocations of its user functions see it.     *)

VirtualMachine(hotThreshold, jitEnabled, profilingEnabled) ==
  [hotThreshold |-> hotThreshold, jitEnabled |-> jitEnabled,
   profilingEnabled |-> profilingEnabled,
   profile |-> [f \in Functions |-> NeverInvoked], native |-> {}]

NoMachine == VirtualMachine(0, FALSE, FALSE)

JitMachine == VirtualMachine(1, TRUE, TRUE)

\* The machine a measurement creates.
MachineFor(mode) == IF mode = "VM" THEN VirtualMachine(0, FALSE, FALSE) ELSE JitMachine

\* dispatch, of an invocation of f: only one that makes f hot compiles it.
Hot(vm, f) == vm.profilingEnabled /\ BecomesHot(vm.profile[f], vm.hotThreshold)
Compiles(vm, f) == Hot(vm, f) /\ vm.jitEnabled

\* Pages can be refused to a compilation.
NewCode(vm, f) == IF Compiles(vm, f) /\ f \in program.compilable THEN BOOLEAN ELSE {FALSE}

ProfileAfter(vm, f) ==
  IF vm.profilingEnabled
  THEN [vm.profile EXCEPT ![f] = RecordInvocation(vm.profile[f], vm.hotThreshold)]
  ELSE vm.profile

Dispatched(vm, f, code) ==
  [vm EXCEPT !.native = IF code THEN vm.native \cup {f} ELSE vm.native,
             !.profile = ProfileAfter(vm, f)]

SelectExecutionTier(vm, f) == IF vm.jitEnabled /\ f \in vm.native THEN "native" ELSE "vm"

-----------------------------------------------------------------------------
(* VirtualMachine::execute: the entry, and then what it comes to call.     *)

\* Something that is done for a function, in the order it is done in.
Did(what, f) == [what |-> what, function |-> f]

NoExecution == [vm |-> NoMachine, calls |-> <<>>, done |-> 0, hotEvents |-> <<>>, work |-> <<>>]

\* Continued by Invoke and ended by the action that asked for it.
Execute(vm, before) ==
  /\ pc' = "execute"
  /\ \E calls \in program.calls :
       execution' = [vm |-> vm, calls |-> <<Entry>> \o calls, done |-> 0,
                     hotEvents |-> <<>>, work |-> before]

Executing == pc = "execute" /\ execution.done < Len(execution.calls)
Callee == execution.calls[execution.done + 1]

\* Past the limit of the bridge, a callee is interpreted whatever it has; the
\* entry has nothing above it.
Tiers(vm, f) ==
  {SelectExecutionTier(vm, f)} \cup IF program.nests /\ execution.done > 0 THEN {"vm"} ELSE {}

HotEventsAfter(vm, f) ==
  IF Hot(vm, f) THEN Append(execution.hotEvents, HotEvent(f, ProfileAfter(vm, f)[f]))
                ELSE execution.hotEvents

WorkAfter(vm, f, tier) ==
  Append(IF Compiles(vm, f) THEN Append(execution.work, Did("compile", f)) ELSE execution.work,
         Did(tier, f))

\* An execution that fails does so in any of its invocations.
Ends(failed) ==
  /\ pc = "execute" /\ execution.done > 0
  /\ program.raises \in {"sometimes", IF failed THEN "always" ELSE "never"}
  /\ ~failed => execution.done = Len(execution.calls)

-----------------------------------------------------------------------------
(* Ends.                                                                   *)

\* What a silencer lets through.
Shown(out) == IF silenced THEN <<>> ELSE out

\* A line of stderr; that of a hot function has its name and its count.
Message(text) == [text |-> text, function |-> "", calls |-> 0]
HotLine(event) ==
  [text |-> "hot", function |-> event.functionId, calls |-> event.invocationCount]

Exit(code, out, err) ==
  /\ exitCode' = code
  /\ pc' = "done"
  /\ stdout' = stdout \o Shown(out)
  /\ stderr' = stderr \o err

\* printUsageError, and 2.
UsageError == Exit(2, <<>>, <<Message("usage")>>)
Failure(text) == Exit(1, <<>>, <<Message(text)>>)

Silent == UNCHANGED <<stdout, stderr, exitCode>>

-----------------------------------------------------------------------------
(* The arguments.                                                          *)

Init ==
  /\ arguments \in Lines
  /\ pc = "command"
  /\ parsed = [index |-> 2, seen |-> {}, options |-> DefaultOptions, path |-> ""]
  /\ program = <<>> /\ stage = 0
  /\ stdout = <<>> /\ stderr = <<>>
  /\ silenced = FALSE
  /\ bench = [mode |-> "none", round |-> 0, clock |-> FALSE, timed |-> <<>>, created |-> FALSE,
               vm |-> NoMachine, warmed |-> NoMachine]
  /\ execution = NoExecution
  /\ measured = [m \in {"VM", "cold", "warmed"} |-> <<>>]
  /\ exitCode = Running

\* --help and help, a known command after help, or --help after one.
AsksForHelp ==
  \/ arguments = <<>>
  \/ Len(arguments) = 1 /\ Command \in {"--help", "help"}
  \/ Len(arguments) = 2 /\ Command = "help" /\ arguments[2].name \in Commands
  \/ Len(arguments) = 2 /\ arguments[2].name = "--help" /\ Command \in Commands

ShowHelp ==
  /\ pc = "command" /\ AsksForHelp
  /\ Exit(0, <<"help">>, <<>>)
  /\ UNCHANGED <<arguments, parsed, files, benchmark>>

ShowVersion ==
  /\ pc = "command" /\ Command = "--version" /\ Len(arguments) = 1
  /\ Exit(0, <<"version">>, <<>>)
  /\ UNCHANGED <<arguments, parsed, files, benchmark>>

DumpAccepted == Len(arguments) = 2 /\ arguments[2].name \notin Dashed

RefuseCommand ==
  /\ pc = "command" /\ ~AsksForHelp
  /\ \/ Command = "--version" /\ Len(arguments) # 1
     \/ Command \in DumpCommands /\ ~DumpAccepted
     \/ Command \notin Commands \cup {"--version"}
  /\ UsageError
  /\ UNCHANGED <<arguments, parsed, files, benchmark>>

BeginInspection ==
  /\ pc = "command" /\ Command \in DumpCommands
  /\ ~AsksForHelp /\ DumpAccepted
  /\ pc' = "read" /\ parsed' = [parsed EXCEPT !.path = arguments[2].name]
  /\ Silent /\ UNCHANGED <<arguments, files, benchmark>>

BeginOptions ==
  /\ pc = "command" /\ Command \in {"run", "benchmark"} /\ ~AsksForHelp
  /\ pc' = "options"
  /\ Silent /\ UNCHANGED <<arguments, parsed, files, benchmark>>

AtArgument == pc = "options" /\ parsed.index <= Len(arguments)
Argument == arguments[parsed.index]

TakeOption ==
  /\ AtArgument
  /\ Argument.name \in OptionsOf(Command) \ parsed.seen /\ InBounds(Argument)
  /\ parsed' = [parsed EXCEPT !.index = @ + 1, !.seen = @ \cup {Argument.name},
                              !.options = Applied(Argument, @)]
  /\ Silent /\ UNCHANGED <<arguments, pc, files, benchmark>>

TakePath ==
  /\ AtArgument /\ Argument.name \notin Dashed
  /\ parsed.path = ""
  /\ parsed' = [parsed EXCEPT !.index = @ + 1, !.path = Argument.name]
  /\ Silent /\ UNCHANGED <<arguments, pc, files, benchmark>>

\* An option again, out of bounds or unknown, or a second path.
Refused(argument) ==
  \/ argument.name \in OptionsOf(Command) /\ (argument.name \in parsed.seen \/ ~InBounds(argument))
  \/ argument.name \in Dashed \ OptionsOf(Command)
  \/ argument.name \notin Dashed /\ parsed.path # ""

RefuseArgument ==
  /\ AtArgument /\ Refused(Argument)
  /\ UsageError
  /\ UNCHANGED <<arguments, parsed, files, benchmark>>

EndOptions ==
  /\ pc = "options" /\ parsed.index > Len(arguments)
  /\ IF parsed.path = ""
     THEN UsageError
     ELSE pc' = "read" /\ Silent
  /\ UNCHANGED <<arguments, parsed, files, benchmark>>

-----------------------------------------------------------------------------
(* The file.                                                               *)

ReadFile ==
  /\ pc = "read"
  /\ \E content \in Programs : program' = content
  /\ pc' = "stages"
  /\ Silent /\ UNCHANGED <<arguments, parsed, stage, benchmark>>

ReadFileFails ==
  /\ pc = "read"
  /\ Failure("unable to read")
  /\ UNCHANGED <<arguments, parsed, files, benchmark>>

AtStage == pc = "stages" /\ stage < Len(Stages(Command))

PassStage ==
  /\ AtStage /\ Passes(Stages(Command)[stage + 1], Command)
  /\ stage' = stage + 1
  /\ Silent /\ UNCHANGED <<arguments, pc, parsed, program, benchmark>>

FailStage ==
  /\ AtStage /\ ~Passes(Stages(Command)[stage + 1], Command)
  /\ Failure("diagnostic")
  /\ UNCHANGED <<arguments, parsed, files, benchmark>>

StagesPassed == pc = "stages" /\ stage = Len(Stages(Command))

\* dump-asm prints a line for what has no native code, dump-ir gives up.
Dump ==
  /\ StagesPassed /\ Command \in DumpCommands
  /\ IF Command # "dump-ir" THEN Exit(0, <<"dump">>, <<>>)
     ELSE IF LoweringFails THEN Failure("lowering")
     ELSE LET complete == Optimizable = Len(program.functions)
          IN  Exit(IF complete THEN 0 ELSE 1, [k \in 1 .. Optimizable |-> "dump"],
                   IF complete THEN <<>> ELSE <<Message("optimization")>>)
  /\ UNCHANGED <<arguments, parsed, files, benchmark>>

\* findCliEntryPoint: a user function main without parameters, void or i64.
FindEntryFails ==
  /\ StagesPassed /\ Command \in {"run", "benchmark"} /\ program.main # "suitable"
  /\ Failure("E5001")
  /\ UNCHANGED <<arguments, parsed, files, benchmark>>

EntryFound == StagesPassed /\ Command \in {"run", "benchmark"} /\ program.main = "suitable"

-----------------------------------------------------------------------------
(* run.                                                                    *)

\* The program prints, and may end in a runtime error.
Output == <<"program">>
ErrorOf(failed) == IF failed THEN <<Message("runtime error")>> ELSE <<>>

RunMachine ==
  VirtualMachine(parsed.options.hotThreshold, parsed.options.jitEnabled, TRUE)

RunVm ==
  /\ EntryFound /\ Command = "run"
  /\ Execute(RunMachine, <<>>)
  /\ Silent /\ UNCHANGED <<arguments, parsed, files, silenced, bench, measured>>

Invoke ==
  /\ Executing
  /\ \E code \in NewCode(execution.vm, Callee) :
       LET after == Dispatched(execution.vm, Callee, code)
       IN  \E tier \in Tiers(after, Callee) :
             execution' = [execution EXCEPT !.vm = after, !.done = @ + 1,
                                            !.hotEvents = HotEventsAfter(execution.vm, Callee),
                                            !.work = WorkAfter(execution.vm, Callee, tier)]
  /\ Silent /\ UNCHANGED <<arguments, pc, parsed, files, silenced, bench, measured>>

\* printJitTrace, when it is asked for.
JitTrace ==
  IF parsed.options.traceJit
  THEN [k \in DOMAIN execution.hotEvents |-> HotLine(execution.hotEvents[k])]
  ELSE <<>>

\* The functions that became hot are printed before the error, if there is one.
EndRun ==
  /\ Command = "run"
  /\ \E failed \in BOOLEAN :
       Ends(failed) /\ Exit(IF failed THEN 1 ELSE 0, Output, JitTrace \o ErrorOf(failed))
  /\ UNCHANGED <<arguments, parsed, files, benchmark>>

-----------------------------------------------------------------------------
(* benchmark.                                                              *)

BeginBenchmark ==
  /\ EntryFound /\ Command = "benchmark"
  /\ pc' = "warm"
  /\ bench' = [bench EXCEPT !.mode = "warming", !.warmed = JitMachine]
  /\ silenced' = TRUE
  /\ Silent /\ UNCHANGED <<arguments, parsed, files, execution, measured>>

\* Seeded fault: only the way through the block's end restores the output.
RestoreOutputAtEnd == silenced' = (bench.mode = "warming")

\* The silencer's destructor, on every way out of its block.
RestoreOutput == silenced' = FALSE

WarmUp ==
  /\ pc = "warm"
  /\ Execute(bench.warmed, <<>>)
  /\ Silent /\ UNCHANGED <<arguments, parsed, files, silenced, bench, measured>>

\* The first run must leave a native entry function.
EndWarmUp ==
  /\ bench.mode = "warming"
  /\ \E failed \in BOOLEAN :
       /\ Ends(failed)
       /\ IF failed \/ Entry \notin execution.vm.native
          THEN /\ Exit(1, Output, <<Message(IF failed THEN "runtime error" ELSE "not native")>>)
               /\ RestoreOutput
               /\ UNCHANGED bench
          ELSE /\ bench' = [bench EXCEPT !.warmed = execution.vm, !.mode = "VM"]
               /\ pc' = "measure" /\ stdout' = stdout \o Shown(Output)
               /\ UNCHANGED <<silenced, stderr, exitCode>>
  /\ UNCHANGED <<arguments, parsed, files, execution, measured>>

Iterations == parsed.options.iterations
Measuring == pc = "measure" /\ bench.mode # "report"

\* cloneVerifiedProgram and VirtualMachine::create: once for the VM, for each
\* round of the cold measurement, and not at all for the warmed machine.
CreateMachine ==
  /\ Measuring /\ ~bench.created /\ bench.round < Iterations
  /\ bench' = [bench EXCEPT !.created = TRUE, !.vm = MachineFor(bench.mode),
                            !.timed = IF bench.clock THEN <<Did("create", Entry)>> ELSE <<>>]
  /\ Silent /\ UNCHANGED <<arguments, pc, parsed, files, silenced, execution, measured>>

StartClock ==
  /\ Measuring /\ bench.created /\ ~bench.clock /\ bench.round < Iterations
  /\ bench' = [bench EXCEPT !.clock = TRUE]
  /\ Silent /\ UNCHANGED <<arguments, pc, parsed, files, silenced, execution, measured>>

NextMode == CASE bench.mode = "VM" -> "cold" [] bench.mode = "cold" -> "warmed" [] OTHER -> "report"

BeginNext ==
  [bench EXCEPT !.mode = NextMode, !.round = 0, !.clock = FALSE, !.timed = <<>>,
                !.created = NextMode = "warmed",
                !.vm = IF NextMode = "warmed" THEN bench.warmed ELSE NoMachine]

\* Seeded fault: the cold measurement keeps its machine.
AfterRoundKept(vm) == [bench EXCEPT !.round = @ + 1, !.vm = vm, !.timed = <<>>]

\* The cold clock stops after each round, and the machine goes.
AfterRound(vm) ==
  LET next == [bench EXCEPT !.round = @ + 1, !.vm = vm, !.timed = <<>>]
  IN  IF bench.mode = "cold" THEN [next EXCEPT !.clock = FALSE, !.created = FALSE, !.vm = NoMachine]
      ELSE next

\* executeBenchmarkIteration, with what was timed in its round before.
Iterate ==
  /\ Measuring /\ bench.created /\ bench.clock /\ bench.round < Iterations
  /\ Execute(bench.vm, bench.timed)
  /\ Silent /\ UNCHANGED <<arguments, parsed, files, silenced, bench, measured>>

\* A round that fails ends its measurement, not the others.
EndRound ==
  /\ bench.mode \in DOMAIN measured
  /\ \E failed \in BOOLEAN :
       /\ Ends(failed)
       /\ stdout' = stdout \o Shown(Output) /\ stderr' = stderr \o ErrorOf(failed)
       /\ IF failed
          THEN /\ bench' = BeginNext
               /\ measured' = [measured EXCEPT ![bench.mode] = <<>>]
          ELSE /\ bench' = AfterRound(execution.vm)
               /\ measured' = [measured EXCEPT ![bench.mode] = Append(@, execution.work)]
  /\ pc' = "measure"
  /\ UNCHANGED <<arguments, parsed, files, silenced, execution, exitCode>>

EndMeasurement ==
  /\ Measuring /\ bench.round = Iterations
  /\ bench' = BeginNext
  /\ Silent /\ UNCHANGED <<arguments, pc, parsed, files, silenced, execution, measured>>

EndSilence ==
  /\ pc = "measure" /\ bench.mode = "report"
  /\ pc' = "report" /\ RestoreOutput
  /\ Silent /\ UNCHANGED <<arguments, parsed, files, bench, execution, measured>>

\* The table is printed when all three measurements have a time.
Report ==
  /\ pc = "report"
  /\ IF \A m \in DOMAIN measured : measured[m] # <<>>
     THEN Exit(0, <<"table">>, <<>>)
     ELSE Exit(1, <<>>, <<>>)
  /\ UNCHANGED <<arguments, parsed, files, benchmark>>

-----------------------------------------------------------------------------
Next ==
  \/ ShowHelp \/ ShowVersion \/ RefuseCommand \/ BeginInspection \/ BeginOptions
  \/ TakeOption \/ TakePath \/ RefuseArgument \/ EndOptions
  \/ ReadFile \/ ReadFileFails \/ PassStage \/ FailStage \/ Dump \/ FindEntryFails
  \/ RunVm \/ Invoke \/ EndRun
  \/ BeginBenchmark \/ WarmUp \/ EndWarmUp \/ CreateMachine \/ StartClock \/ Iterate \/ EndRound
  \/ EndMeasurement \/ EndSilence \/ Report

Spec == Init /\ [][Next]_vars

-----------------------------------------------------------------------------
(* What the arguments mean, read as a whole.                               *)

Given == {k \in DOMAIN arguments : k > 1}
At(name) == {k \in Given : arguments[k].name = name}
Paths == {k \in Given : arguments[k].name \notin Dashed \cup {""}}

\* Every option is known, within bounds and given once; there is one path, and
\* no empty argument after it.
OptionsMakeSense ==
  /\ \A k \in Given : arguments[k].name \in Dashed =>
        /\ arguments[k].name \in OptionsOf(Command)
        /\ arguments[k].name = "--jit-threshold=" => arguments[k].value \in 0 .. MaxCount
        /\ arguments[k].name = "--iterations=" => arguments[k].value \in 1 .. MaxIterations
        /\ At(arguments[k].name) = {k}
  /\ \E k \in Paths : Paths = {k} /\ \A j \in At("") : j < k

WellFormed ==
  \/ AsksForHelp
  \/ arguments = <<Word("--version")>>
  \/ Command \in DumpCommands /\ Len(arguments) = 2 /\ arguments[2].name \notin Dashed
  \/ Command \in {"run", "benchmark"} /\ OptionsMakeSense

ValueAt(name, default) ==
  IF At(name) = {} THEN default ELSE arguments[CHOOSE k \in At(name) : TRUE].value

Meant ==
  [jitEnabled |-> At("--no-jit") = {}, traceJit |-> At("--trace-jit") # {},
   hotThreshold |-> ValueAt("--jit-threshold=", DefaultThreshold),
   iterations |-> ValueAt("--iterations=", DefaultIterations)]

-----------------------------------------------------------------------------
(* Properties.                                                             *)

\* Code 2 says that the line has no meaning, and every line without one gets it
\* before a file is read; the options of any other are what all its arguments
\* say together, in whatever order they stand.
UsageExact ==
  /\ exitCode = 2 => ~WellFormed
  /\ pc \notin {"command", "options"} /\ exitCode # 2 =>
       /\ WellFormed
       /\ Command \in {"run", "benchmark"} /\ ~AsksForHelp =>
            /\ parsed.options = Meant
            /\ \E k \in Paths : parsed.path = arguments[k].name

\* What an execution has done, counted from its calls.
Invoked == {execution.calls[k] : k \in 1 .. execution.done}
Invocations(f) == Cardinality({k \in 1 .. execution.done : execution.calls[k] = f})

TraceAsked == Command = "run" /\ ~AsksForHelp /\ Meant.traceJit /\ Meant.hotThreshold # 0
HotFunctions == {f \in Invoked : Invocations(f) >= Meant.hotThreshold}

\* --trace-jit names the functions that were invoked as often as the threshold
\* says, each of them once and with that count, whether or not they were compiled
\* and however the execution ended; a threshold of 0 asks for none.
TraceExact ==
  LET lines == {k \in DOMAIN stderr : stderr[k].text = "hot"}
  IN  /\ {stderr[k].function : k \in lines} = IF TraceAsked THEN HotFunctions ELSE {}
      /\ \A k \in lines : stderr[k].calls = Meant.hotThreshold
      /\ \A j, k \in lines : stderr[j].function = stderr[k].function => j = k

\* A command that succeeds has written its result, the whole of it and nothing
\* else, and one that fails has said why, which the trace does not; a benchmark
\* shows no output of the program on any way out, and has given the stream back.
EveryEndIsExplained ==
  pc = "done" =>
    /\ ~silenced
    /\ TraceExact
    /\ exitCode # 0 => \E k \in DOMAIN stderr : stderr[k].text # "hot"
    /\ exitCode = 0 =>
         stdout = IF AsksForHelp THEN <<"help">>
                  ELSE CASE Command = "--version" -> <<"version">>
                         [] Command = "run"       -> <<"program">>
                         [] Command = "benchmark" -> <<"table">>
                         [] Command = "dump-ir"   -> [k \in DOMAIN program.functions |-> "dump"]
                         [] OTHER                 -> <<"dump">>
    /\ exitCode # 0 /\ Command # "run" /\ stdout # <<>> =>
         Command = "dump-ir" /\ stderr = <<Message("optimization")>>

\* In the rounds of the VM every function is interpreted.
InterpretedOnly(work) == \A k \in DOMAIN work : work[k].what = "vm"

\* A cold round begins with the compilation of the entry, and runs no machine
\* code that was not compiled in it.
FromCold(work) ==
  /\ work # <<>> /\ work[1] = Did("compile", Entry)
  /\ \A k \in DOMAIN work : work[k].what = "native" =>
       \E j \in 1 .. k - 1 : work[j] = Did("compile", work[k].function)

\* A warmed round begins in the machine code of the entry, and never compiles it:
\* a callee that no earlier round has called, or that has no code, may still be
\* compiled or interpreted.
FromWarm(work) ==
  /\ work # <<>> /\ work[1] = Did("native", Entry)
  /\ \A k \in DOMAIN work : work[k] # Did("compile", Entry)

\* In rounds on one machine, no function is compiled twice.
CompiledOnce(rounds) ==
  \A j, k \in DOMAIN rounds : \A m \in DOMAIN rounds[j], n \in DOMAIN rounds[k] :
    rounds[j][m].what = "compile" /\ rounds[j][m] = rounds[k][n] => j = k /\ m = n

\* A table is printed of full measurements only, and what their rounds have timed,
\* of all functions and not of the entry alone, is what the labels say.  No
\* machine is created in it, in any of the three measurements.
MeasuredAsLabelled ==
  exitCode = 0 /\ Command = "benchmark" /\ ~AsksForHelp =>
    /\ \A m \in DOMAIN measured : Len(measured[m]) = Meant.iterations
    /\ \A k \in 1 .. Meant.iterations :
         /\ InterpretedOnly(measured["VM"][k])
         /\ FromCold(measured["cold"][k]) /\ CompiledOnce(<<measured["cold"][k]>>)
         /\ FromWarm(measured["warmed"][k])
         /\ \A m \in DOMAIN measured : \A j \in DOMAIN measured[m][k] :
              measured[m][k][j].what # "create"
    /\ CompiledOnce(measured["warmed"])

\* A program that run accepts, and all of whose functions are lowered or skipped.
Runs ==
  /\ program.fails = "none" /\ program.main = "suitable" /\ program.raises = "never"
  /\ ~LoweringFails /\ Optimizable = Len(program.functions)

\* README.md, Quick start: a program that runs "can be inspected at every major
\* compiler stage".  dump-typed-ast analyzes without the builtins.
InspectableAtEveryStage ==
  pc = "done" /\ Command \in DumpCommands /\ program # <<>> => (Runs => exitCode = 0)
=============================================================================
