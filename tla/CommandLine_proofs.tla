------------------------- MODULE CommandLine_proofs -------------------------
(***************************************************************************)
(* main.cpp for every line of arguments and every program: what a line     *)
(* means, how every run of the executable ends, what the trace names, and  *)
(* what was measured.                                                      *)
(***************************************************************************)
EXTENDS CommandLine, TLAPS, SequenceTheorems, FiniteSetTheorems

USE MaxCountAssumption, CommandLineAssumption

-----------------------------------------------------------------------------
(* What has been read of the line.                                         *)

Options ==
  [jitEnabled : BOOLEAN, traceJit : BOOLEAN, hotThreshold : 0 .. MaxCount,
   iterations : 1 .. MaxIterations]

Parsed == [index : Nat, seen : SUBSET STRING, options : Options, path : STRING \cup {""}]

\* The arguments that have been read.
Before == 2 .. parsed.index - 1
Name(k) == arguments[k].name

OptionsRead ==
  /\ parsed.seen = {Name(k) : k \in {j \in Before : Name(j) \in Dashed}}
  /\ \A k \in Before : Name(k) \in Dashed => Name(k) \in OptionsOf(Command) /\ InBounds(arguments[k])
  /\ \A j, k \in Before : Name(j) = Name(k) /\ Name(k) \in Dashed => j = k

PathRead ==
  IF parsed.path = "" THEN \A k \in Before : Name(k) \in Dashed \cup {""}
  ELSE \E k \in Before :
         /\ Name(k) = parsed.path /\ Name(k) \notin Dashed
         /\ \A j \in Before : j # k /\ Name(j) \notin Dashed => Name(j) = "" /\ j < k

\* The value of an option with a number.
NumberRead(value, name, default) ==
  /\ \A k \in Before : Name(k) = name => value = arguments[k].value
  /\ name \notin parsed.seen => value = default

OptionsApplied ==
  /\ parsed.options.jitEnabled <=> "--no-jit" \notin parsed.seen
  /\ parsed.options.traceJit <=> "--trace-jit" \in parsed.seen
  /\ NumberRead(parsed.options.hotThreshold, "--jit-threshold=", DefaultThreshold)
  /\ NumberRead(parsed.options.iterations, "--iterations=", DefaultIterations)

ReadingInv ==
  /\ arguments \in Seq(Arguments) /\ parsed \in Parsed
  /\ pc = "command" => parsed.index = 2 /\ parsed.seen = {} /\ parsed.path = ""
                       /\ parsed.options = DefaultOptions
  /\ pc = "options" =>
       /\ Command \in {"run", "benchmark"} /\ ~AsksForHelp
       /\ parsed.index \in 2 .. Len(arguments) + 1
       /\ OptionsRead /\ PathRead /\ OptionsApplied
  /\ UsageExact

-----------------------------------------------------------------------------
(* What an execution has done.                                             *)

Items == [what : {"compile", "native", "vm"}, function : Functions]
Events == [functionId : Functions, invocationCount : 0 .. MaxCount]
Profiles == [Functions -> ProfilingCounters]

Machines ==
  [hotThreshold : 0 .. MaxCount, jitEnabled : BOOLEAN, profilingEnabled : BOOLEAN,
   profile : Profiles, native : SUBSET Functions]

Executions ==
  [vm : Machines, calls : Seq(Functions), done : Nat, hotEvents : Seq(Events), work : Seq(Items)]

\* A machine without tiers, and one that enters the entry in native code.
Plain(vm) == vm \in Machines /\ vm.native = {} /\ ~vm.profilingEnabled
Warmed(vm) ==
  /\ vm \in Machines /\ vm.jitEnabled /\ vm.profilingEnabled
  /\ Entry \in vm.native /\ vm.profile[Entry].isHot

\* What an execution has kept of the machine it started on.
SameOptions(start, vm) ==
  /\ vm.hotThreshold = start.hotThreshold /\ vm.jitEnabled = start.jitEnabled
  /\ vm.profilingEnabled = start.profilingEnabled

Grown(start, vm) ==
  /\ \A f \in Functions : start.profile[f].isHot => vm.profile[f].isHot
  /\ start.native \subseteq vm.native

\* Every compilation made a function hot that was not, and is the only one of it;
\* code is there since the start, or since a compilation before.
CompiledOf(start, vm, work) ==
  \A k \in DOMAIN work : work[k].what = "compile" =>
    /\ start.profilingEnabled
    /\ ~start.profile[work[k].function].isHot /\ vm.profile[work[k].function].isHot
    /\ \A j \in DOMAIN work : work[j] = work[k] => j = k

NativeOf(start, work) ==
  \A k \in DOMAIN work : work[k].what = "native" =>
    \/ work[k].function \in start.native
    \/ \E j \in 1 .. k - 1 : work[j] = Did("compile", work[k].function)

CodeOf(start, vm, work) ==
  \A f \in vm.native : f \in start.native \/ \E j \in DOMAIN work : work[j] = Did("compile", f)

\* What is done first in an execution.
First(start) ==
  IF Compiles(start, Entry) THEN Did("compile", Entry)
  ELSE Did(SelectExecutionTier(start, Entry), Entry)

Begun(start, e) ==
  IF e.done = 0 THEN e.vm = start /\ e.work = <<>> ELSE e.work # <<>> /\ e.work[1] = First(start)

Executed(start, e) ==
  /\ start \in Machines /\ e \in Executions
  /\ e.calls # <<>> /\ e.calls[1] = Entry /\ e.done <= Len(e.calls)
  /\ SameOptions(start, e.vm) /\ Grown(start, e.vm)
  /\ CompiledOf(start, e.vm, e.work) /\ NativeOf(start, e.work) /\ CodeOf(start, e.vm, e.work)
  /\ Begun(start, e)

\* The invocations of f so far.
CallsOf(e, f) == {k \in 1 .. e.done : e.calls[k] = f}

\* A profile says how often its function was invoked, until it is hot.
Counted(e) ==
  \A f \in Functions :
    /\ e.vm.profile[f].isHot <=>
         e.vm.hotThreshold # 0 /\ Cardinality(CallsOf(e, f)) >= e.vm.hotThreshold
    /\ e.vm.hotThreshold # 0 /\ ~e.vm.profile[f].isHot =>
         e.vm.profile[f].invocationCount = Cardinality(CallsOf(e, f))

\* Every function that is hot was reported, once.
Reported(e) ==
  /\ \A k \in DOMAIN e.hotEvents :
       /\ e.hotEvents[k].invocationCount = e.vm.hotThreshold
       /\ e.vm.profile[e.hotEvents[k].functionId].isHot
       /\ \A j \in DOMAIN e.hotEvents :
            e.hotEvents[j].functionId = e.hotEvents[k].functionId => j = k
  /\ \A f \in Functions : e.vm.profile[f].isHot =>
       \E k \in DOMAIN e.hotEvents : e.hotEvents[k].functionId = f

\* The execution of run.
Traced(e) ==
  /\ Executed(RunMachine, e) /\ e.vm.profilingEnabled
  /\ e.vm.hotThreshold = parsed.options.hotThreshold
  /\ Counted(e) /\ Reported(e)

\* What a machine has compiled it does not compile again.
HotSince(rounds, vm) ==
  \A j \in DOMAIN rounds : \A k \in DOMAIN rounds[j] :
    rounds[j][k].what = "compile" => vm.profile[rounds[j][k].function].isHot

-----------------------------------------------------------------------------
(* The invariant.                                                          *)

Modes == {"VM", "cold", "warmed"}

\* Which command has come where, and what it has written.
StreamsInv ==
  /\ pc \in {"command", "options", "read", "stages", "execute", "warm", "measure", "report", "done"}
  /\ pc # "done" => exitCode = Running /\ stdout = <<>>
  /\ pc \in {"read", "stages"} => Command \in Commands /\ ~AsksForHelp
  /\ pc \in {"stages", "execute"} => program \in Contents
  /\ pc = "execute" => Command \in {"run", "benchmark"} /\ ~AsksForHelp
  /\ pc = "execute" /\ Command = "run" => silenced = FALSE
  /\ pc = "execute" /\ Command = "benchmark" => silenced = TRUE
  /\ pc = "execute" /\ bench.mode \notin Modes => stderr = <<>>
  /\ pc \in {"warm", "measure", "report"} => Command = "benchmark" /\ ~AsksForHelp
  /\ pc \in {"warm", "measure"} => silenced = TRUE
  /\ pc \notin {"execute", "warm", "measure"} => silenced = FALSE
  /\ pc \in {"command", "options", "read", "stages", "warm"} => stderr = <<>>
  /\ pc \in {"measure", "report"} => stderr \in Seq({Message("runtime error")})
  /\ pc = "execute" /\ bench.mode \in Modes => stderr \in Seq({Message("runtime error")})

Labels ==
  [m \in Modes |->
     {work \in Seq(Items) :
        CASE m = "VM"     -> InterpretedOnly(work)
          [] m = "cold"   -> FromCold(work) /\ CompiledOnce(<<work>>)
          [] m = "warmed" -> FromWarm(work)}]

\* The measurements before that of a mode.
Past(mode) ==
  CASE mode = "VM" -> {} [] mode = "cold" -> {"VM"} [] mode = "warmed" -> {"VM", "cold"}
    [] mode = "report" -> {"VM", "cold", "warmed"}

\* A measurement that has been made, or whose error has been shown.
Made(m) ==
  \/ measured[m] = <<>> /\ stderr # <<>>
  \/ measured[m] \in Seq(Labels[m]) /\ Len(measured[m]) = Iterations

\* What the machine of the current round is.
MachineReady ==
  CASE bench.mode = "VM"     -> bench.created => Plain(bench.vm)
    [] bench.mode = "cold"   -> bench.created => bench.vm = JitMachine
    [] bench.mode = "warmed" -> bench.created /\ Warmed(bench.vm)

Benches ==
  [mode : {"VM", "cold", "warmed", "report"}, round : Nat, clock : BOOLEAN, timed : {<<>>},
   created : BOOLEAN, vm : Machines, warmed : Machines]

MeasureInv ==
  /\ bench \in Benches
  /\ measured \in [Modes -> Seq(Seq(Items))]
  /\ Warmed(bench.warmed)
  /\ \A m \in Past(bench.mode) : Made(m)
  /\ CompiledOnce(measured["warmed"])
  /\ bench.mode = "warmed" => HotSince(measured["warmed"], bench.vm)
  /\ bench.mode # "report" =>
       /\ MachineReady /\ bench.round <= Iterations
       /\ bench.clock => bench.created
       /\ measured[bench.mode] \in Seq(Labels[bench.mode])
       /\ Len(measured[bench.mode]) = bench.round
       /\ \A m \in Modes \ (Past(bench.mode) \cup {bench.mode}) : measured[m] = <<>>

NoMeasurement == measured = [m \in {"VM", "cold", "warmed"} |-> <<>>]
Idle(mode, warmed) ==
  bench = [mode |-> mode, round |-> 0, clock |-> FALSE, timed |-> <<>>, created |-> FALSE,
           vm |-> NoMachine, warmed |-> warmed]

Early == {"command", "options", "read", "stages"}

BenchmarkInv ==
  /\ pc \in Early => NoMeasurement /\ Idle("none", NoMachine) /\ execution = NoExecution
  /\ pc = "warm" => NoMeasurement /\ Idle("warming", JitMachine) /\ program \in Contents
  /\ pc = "measure" => program \in Contents /\ MeasureInv
  /\ pc = "report" => MeasureInv /\ bench.mode = "report"
  /\ pc = "execute" /\ Command = "run" =>
       NoMeasurement /\ Idle("none", NoMachine) /\ Traced(execution)
  /\ pc = "execute" /\ Command = "benchmark" =>
       \/ NoMeasurement /\ Idle("warming", JitMachine) /\ Executed(JitMachine, execution)
       \/ /\ MeasureInv /\ bench.mode \in Modes /\ bench.created /\ bench.round < Iterations
          /\ Executed(bench.vm, execution)

CommandInv ==
  /\ ReadingInv /\ StreamsInv /\ BenchmarkInv
  /\ EveryEndIsExplained /\ MeasuredAsLabelled

-----------------------------------------------------------------------------
(* The arguments.                                                          *)

LEMMA ArgumentFacts ==
  ASSUME ReadingInv, NEW k \in 1 .. Len(arguments)
  PROVE  /\ arguments[k] \in Arguments /\ Name(k) \in STRING
         /\ Len(arguments) \in Nat /\ DOMAIN arguments = 1 .. Len(arguments)
<1>1. Len(arguments) \in Nat /\ DOMAIN arguments = 1 .. Len(arguments)
  BY LenProperties DEF ReadingInv
<1>2. arguments[k] \in Arguments
  BY ElementOfSeq DEF ReadingInv
<1> QED BY <1>1, <1>2 DEF Arguments, Name

LEMMA LineFacts ==
  ASSUME ReadingInv
  PROVE  /\ Len(arguments) \in Nat /\ DOMAIN arguments = 1 .. Len(arguments)
         /\ Given = 2 .. Len(arguments)
<1>1. Len(arguments) \in Nat /\ DOMAIN arguments = 1 .. Len(arguments)
  BY LenProperties DEF ReadingInv
<1> QED BY <1>1 DEF Given

\* An argument that is an option of run or of benchmark.
LEMMA OptionNames ==
  ASSUME Command \in {"run", "benchmark"}, NEW name \in OptionsOf(Command)
  PROVE  /\ name \in Dashed
         /\ name \in {"--no-jit", "--trace-jit", "--jit-threshold=", "--iterations="}
BY DEF OptionsOf, RunOptions, Dashed

LEMMA CommandNames ==
  /\ "run" \notin DumpCommands /\ "benchmark" \notin DumpCommands
  /\ "run" # "--version" /\ "benchmark" # "--version"
  /\ Commands = {"run", "benchmark"} \cup DumpCommands
  /\ "" \notin Dashed /\ "--version" \notin Commands
BY DEF DumpCommands, Commands, Dashed, RunOptions

LEMMA ReadingStart ==
  ASSUME Init
  PROVE  ReadingInv
<1>1. arguments \in Seq(Arguments)
  BY InputsAssumption DEF Init
<1>2. DefaultOptions \in Options
  BY DEF DefaultOptions, Options
<1>3. parsed \in Parsed
  <2>1. parsed = [index |-> 2, seen |-> {}, options |-> DefaultOptions, path |-> ""]
    BY DEF Init
  <2> QED BY <1>2, <2>1 DEF Parsed
<1>4. UsageExact
  <2>1. pc = "command" /\ exitCode = Running
    BY DEF Init
  <2>2. Running # 2
    BY DEF Running
  <2> QED BY <2>1, <2>2 DEF UsageExact
<1> QED BY <1>1, <1>3, <1>4 DEF Init, ReadingInv

\* What a line means is a matter of the arguments only.
LEMMA SameLine ==
  ASSUME arguments' = arguments
  PROVE  /\ WellFormed' = WellFormed /\ Command' = Command /\ AsksForHelp' = AsksForHelp
         /\ Meant' = Meant /\ Paths' = Paths
BY DEF WellFormed, Command, AsksForHelp, Meant, Paths, OptionsMakeSense, Given, At, ValueAt

\* Steps that leave the arguments and what was made of them alone, and do not end
\* with a usage error.
LEMMA LaterStep ==
  ASSUME ReadingInv, UNCHANGED <<arguments, parsed>>, pc \notin {"command", "options"},
         exitCode # 2, exitCode' # 2, pc' \notin {"command", "options"}
  PROVE  ReadingInv'
<1>1. arguments' = arguments /\ parsed' = parsed /\ UsageExact
  BY DEF ReadingInv
<1>2. UsageExact'
  BY <1>1, SameLine DEF UsageExact
<1> QED BY <1>1, <1>2 DEF ReadingInv

\* An end in the first of the steps.
LEMMA EndAtOnce ==
  ASSUME ReadingInv, UNCHANGED <<arguments, parsed>>, pc' = "done",
         \/ exitCode' = 0 /\ (AsksForHelp \/ arguments = <<Word("--version")>>)
         \/ exitCode' = 2 /\ ~WellFormed
  PROVE  ReadingInv'
<1>1. arguments' = arguments /\ parsed' = parsed
  OBVIOUS
<1>2. UsageExact'
  <2>1. CASE exitCode' = 2 /\ ~WellFormed
    BY <1>1, <2>1, SameLine DEF UsageExact
  <2>2. CASE exitCode' = 0 /\ AsksForHelp
    BY <1>1, <2>2, SameLine DEF UsageExact, WellFormed
  <2>3. CASE exitCode' = 0 /\ arguments = <<Word("--version")>>
    <3>1. Command = "--version"
      BY <2>3 DEF Command, Word
    <3> QED BY <1>1, <2>3, <3>1, SameLine DEF UsageExact, WellFormed
  <2> QED BY <2>1, <2>2, <2>3
<1> QED BY <1>1, <1>2 DEF ReadingInv

LEMMA VersionStep ==
  ASSUME ReadingInv, ShowVersion
  PROVE  ReadingInv'
<1>1. /\ pc = "command" /\ pc' = "done" /\ exitCode' = 0 /\ UNCHANGED <<arguments, parsed>>
      /\ Command = "--version" /\ Len(arguments) = 1
  BY DEF ShowVersion, Exit
<1>2. arguments[1] \in Arguments /\ DOMAIN arguments = 1 .. 1
  BY <1>1, ArgumentFacts
<1>3. arguments # <<>>
  BY <1>1 DEF Command
<1>4. arguments[1].name = "--version"
  BY <1>1, <1>3 DEF Command
<1>5. arguments[1] = Word("--version")
  BY <1>2, <1>4 DEF Arguments, Word
<1>6. arguments = <<Word("--version")>>
  <2>1. arguments \in Seq(Arguments)
    BY DEF ReadingInv
  <2> QED BY <1>1, <1>5, <2>1
<1> QED BY <1>1, <1>6, EndAtOnce

LEMMA CommandRefused ==
  ASSUME ReadingInv, RefuseCommand
  PROVE  ReadingInv'
<1>1. /\ pc = "command" /\ pc' = "done" /\ exitCode' = 2 /\ UNCHANGED <<arguments, parsed>>
      /\ ~AsksForHelp
  BY DEF RefuseCommand, UsageError, Exit
<1>2. ~WellFormed
  <2>1. ASSUME arguments = <<Word("--version")>> PROVE FALSE
    <3>1. Command = "--version" /\ Len(arguments) = 1
      BY <2>1 DEF Command, Word
    <3> QED BY <3>1, CommandNames DEF RefuseCommand
  <2>2. ASSUME Command \in DumpCommands, Len(arguments) = 2, arguments[2].name \notin Dashed PROVE FALSE
    BY <2>2, CommandNames DEF RefuseCommand, DumpAccepted, Commands, DumpCommands
  <2>3. ASSUME Command \in {"run", "benchmark"} PROVE FALSE
    BY <2>3, CommandNames DEF RefuseCommand
  <2> QED BY <1>1, <2>1, <2>2, <2>3 DEF WellFormed
<1> QED BY <1>1, <1>2, EndAtOnce

\* One argument more has been read, or refused.
LEMMA OptionsBegin ==
  ASSUME ReadingInv, BeginOptions
  PROVE  ReadingInv'
<1>1. /\ pc = "command" /\ pc' = "options" /\ arguments' = arguments /\ parsed' = parsed
      /\ Command \in {"run", "benchmark"} /\ ~AsksForHelp
  BY DEF BeginOptions
<1>2. /\ parsed.index = 2 /\ parsed.seen = {} /\ parsed.path = ""
      /\ parsed.options = DefaultOptions
  BY <1>1 DEF ReadingInv
<1>3. 2 \in 2 .. Len(arguments) + 1
  <2>1. arguments # <<>>
    BY DEF BeginOptions, AsksForHelp
  <2>2. Len(arguments) \in Nat \ {0}
    BY <2>1, LenProperties, EmptySeq DEF ReadingInv
  <2> QED BY <2>2
<1>4. Before' = {}
  <2>1. parsed'.index = 2
    BY <1>1, <1>2
  <2>2. 2 .. 2 - 1 = {}
    OBVIOUS
  <2> QED BY <2>1, <2>2 DEF Before
<1>5. OptionsRead' /\ PathRead'
  BY <1>1, <1>2, <1>4 DEF OptionsRead, PathRead
<1>6. OptionsApplied'
  <2>1. parsed'.seen = {} /\ parsed'.options = DefaultOptions
    BY <1>1, <1>2
  <2>2. NumberRead(parsed.options.hotThreshold, "--jit-threshold=", DefaultThreshold)'
        /\ NumberRead(parsed.options.iterations, "--iterations=", DefaultIterations)'
    BY <1>4, <2>1 DEF NumberRead, DefaultOptions
  <2> QED BY <2>1, <2>2 DEF OptionsApplied, DefaultOptions
<1>7. UsageExact'
  <2>1. exitCode' = exitCode /\ UsageExact
    BY DEF BeginOptions, Silent, ReadingInv
  <2> QED BY <1>1, <2>1, SameLine DEF UsageExact
<1>8. arguments' \in Seq(Arguments) /\ parsed' \in Parsed /\ parsed'.index \in 2 .. Len(arguments') + 1
  BY <1>1, <1>2, <1>3 DEF ReadingInv
<1>9. Command' \in {"run", "benchmark"} /\ ~AsksForHelp' /\ pc' = "options"
  BY <1>1, SameLine
<1> QED BY <1>5, <1>6, <1>7, <1>8, <1>9 DEF ReadingInv

\* The argument that is read, and what it adds to the others.
LEMMA ReadFacts ==
  ASSUME ReadingInv, AtArgument
  PROVE  /\ parsed.index \in 2 .. Len(arguments) /\ Len(arguments) \in Nat
         /\ parsed.index \notin Before /\ Before \subseteq Given
         /\ parsed.index \in Given /\ DOMAIN arguments = 1 .. Len(arguments)
         /\ \A k \in Before : k < parsed.index
         /\ Argument \in Arguments /\ Argument = arguments[parsed.index]
         /\ Command \in {"run", "benchmark"} /\ ~AsksForHelp
         /\ parsed \in Parsed /\ OptionsRead /\ PathRead /\ OptionsApplied
<1>1. pc = "options" /\ parsed.index \in Nat /\ parsed.index <= Len(arguments)
  BY DEF AtArgument, ReadingInv, Parsed
<1>2. /\ Len(arguments) \in Nat /\ DOMAIN arguments = 1 .. Len(arguments)
      /\ Given = 2 .. Len(arguments)
  BY LineFacts
<1>3. /\ Command \in {"run", "benchmark"} /\ ~AsksForHelp
      /\ parsed.index \in 2 .. Len(arguments) + 1 /\ parsed \in Parsed
      /\ OptionsRead /\ PathRead /\ OptionsApplied
  BY <1>1 DEF ReadingInv
<1>4. parsed.index \in 2 .. Len(arguments)
  BY <1>1, <1>2, <1>3
<1>5. Argument \in Arguments /\ Argument = arguments[parsed.index]
  BY <1>2, <1>4, ArgumentFacts DEF Argument
<1>6. parsed.index \notin Before /\ Before \subseteq Given /\ \A k \in Before : k < parsed.index
  BY <1>2, <1>4 DEF Before
<1> QED BY <1>2, <1>3, <1>4, <1>5, <1>6

LEMMA ReadOn ==
  ASSUME ReadingInv, AtArgument, parsed'.index = parsed.index + 1
  PROVE  Before' = Before \cup {parsed.index}
<1>1. parsed.index \in Nat /\ 2 <= parsed.index
  BY ReadFacts
<1> QED BY <1>1 DEF Before

\* An option with a number after one more argument.
LEMMA NumberKept ==
  ASSUME ReadingInv, AtArgument, arguments' = arguments, Before' = Before \cup {parsed.index},
         NEW value, NEW name, NEW default, NumberRead(value, name, default),
         Argument.name # name, name \in parsed'.seen <=> name \in parsed.seen
  PROVE  NumberRead(value, name, default)'
BY ReadFacts DEF NumberRead, Name

LEMMA NumberTaken ==
  ASSUME ReadingInv, AtArgument, arguments' = arguments, Before' = Before \cup {parsed.index},
         NEW name \in Dashed, NEW default, NEW value, value = Argument.value,
         Argument.name = name, name \notin parsed.seen, name \in parsed'.seen
  PROVE  NumberRead(value, name, default)'
<1>1. \A k \in Before : Name(k) # name
  BY ReadFacts DEF OptionsRead
<1>2. \A k \in Before' : Name(k) = name => k = parsed.index
  BY <1>1
<1> QED BY <1>2, ReadFacts DEF NumberRead, Name

LEMMA OptionTaken ==
  ASSUME ReadingInv, TakeOption
  PROVE  ReadingInv'
<1> DEFINE i == parsed.index
           name == Argument.name
<1>1. /\ AtArgument /\ name \in OptionsOf(Command) /\ name \notin parsed.seen /\ InBounds(Argument)
      /\ parsed' = [parsed EXCEPT !.index = i + 1, !.seen = parsed.seen \cup {name},
                                  !.options = Applied(Argument, parsed.options)]
      /\ exitCode' = exitCode /\ arguments' = arguments /\ pc' = pc /\ pc = "options"
  BY DEF TakeOption, Silent, AtArgument
<1>2. /\ i \in 2 .. Len(arguments) /\ Len(arguments) \in Nat
      /\ i \notin Before /\ Argument \in Arguments /\ Argument = arguments[i]
      /\ Command \in {"run", "benchmark"} /\ ~AsksForHelp
      /\ parsed \in Parsed /\ OptionsRead /\ PathRead /\ OptionsApplied
  BY <1>1, ReadFacts
<1>3. name \in Dashed /\ name \in {"--no-jit", "--trace-jit", "--jit-threshold=", "--iterations="}
  BY <1>1, <1>2, OptionNames
<1>4. /\ parsed'.index = i + 1 /\ parsed'.seen = parsed.seen \cup {name}
      /\ parsed'.options = Applied(Argument, parsed.options) /\ parsed'.path = parsed.path
  BY <1>1, <1>2 DEF Parsed
<1>5. Before' = Before \cup {i}
  BY <1>1, <1>4, ReadOn
<1>6. Applied(Argument, parsed.options) \in Options
  <2>1. parsed.options \in Options
    BY <1>2 DEF Parsed
  <2>2. Argument.value \in Int
    BY <1>2 DEF Arguments
  <2>3. name = "--jit-threshold=" => Argument.value \in 0 .. MaxCount
    BY <1>1, <2>2 DEF InBounds, ParsesAsNumber
  <2>4. name = "--iterations=" => Argument.value \in 1 .. MaxIterations
    BY <1>1, <2>2 DEF InBounds, ParsesAsNumber
  <2> HIDE DEF name
  <2> QED BY <1>3, <2>1, <2>3, <2>4 DEF Applied, Options, name
<1>7. parsed' \in Parsed
  <2>1. name \in STRING
    BY <1>2 DEF Arguments
  <2>2. parsed' = [index |-> i + 1, seen |-> parsed.seen \cup {name},
                   options |-> Applied(Argument, parsed.options), path |-> parsed.path]
    <3> HIDE DEF name
    <3> QED BY <1>1, <1>2 DEF Parsed
  <2>3. i + 1 \in Nat
    <3>1. i \in Nat
      BY <1>2 DEF Parsed
    <3> HIDE DEF i
    <3> QED BY <3>1
  <2>4. parsed.seen \in SUBSET STRING /\ parsed.path \in STRING \cup {""}
    BY <1>2 DEF Parsed
  <2> HIDE DEF name, i
  <2> QED BY <1>6, <2>1, <2>2, <2>3, <2>4 DEF Parsed
<1>8. OptionsRead'
  <2>1. \A k \in Before \cup {i} : Name(k)' = Name(k)
    BY <1>1 DEF Name
  <2>2. Name(i) = name
    BY <1>2 DEF Name
  <2>3. parsed'.seen = {Name(k) : k \in {j \in Before \cup {i} : Name(j) \in Dashed}}
    BY <1>2, <1>3, <1>4, <2>2 DEF OptionsRead
  <2>4. \A k \in Before \cup {i} :
          Name(k) \in Dashed => Name(k) \in OptionsOf(Command) /\ InBounds(arguments[k])
    BY <1>1, <1>2, <2>2 DEF OptionsRead
  <2>5. \A j, k \in Before \cup {i} : Name(j) = Name(k) /\ Name(k) \in Dashed => j = k
    BY <1>1, <1>2, <2>2 DEF OptionsRead
  <2>6. OptionsOf(Command)' = OptionsOf(Command) /\ \A k : InBounds(arguments[k])' = InBounds(arguments[k])
    BY <1>1, SameLine
  <2> QED BY <1>1, <1>5, <2>1, <2>3, <2>4, <2>5, <2>6 DEF OptionsRead
<1>9. PathRead'
  BY <1>1, <1>2, <1>3, <1>4, <1>5 DEF PathRead, Name
<1>10. OptionsApplied'
  <2>1. CASE name = "--no-jit"
    BY <1>1, <1>2, <1>4, <1>5, <2>1, NumberKept DEF OptionsApplied, Applied, Parsed, Options
  <2>2. CASE name = "--trace-jit"
    BY <1>1, <1>2, <1>4, <1>5, <2>2, NumberKept DEF OptionsApplied, Applied, Parsed, Options
  <2>3. CASE name = "--jit-threshold="
    BY <1>1, <1>2, <1>3, <1>4, <1>5, <2>3, NumberKept, NumberTaken
       DEF OptionsApplied, Applied, Parsed, Options
  <2>4. CASE name = "--iterations="
    BY <1>1, <1>2, <1>3, <1>4, <1>5, <2>4, NumberKept, NumberTaken
       DEF OptionsApplied, Applied, Parsed, Options
  <2> QED BY <1>3, <2>1, <2>2, <2>3, <2>4
<1>11. UsageExact'
  BY <1>1, SameLine DEF UsageExact, ReadingInv
<1>12. /\ arguments' \in Seq(Arguments) /\ Command' \in {"run", "benchmark"} /\ ~AsksForHelp'
       /\ pc' = "options" /\ parsed'.index \in 2 .. Len(arguments') + 1
  BY <1>1, <1>2, <1>4, SameLine DEF ReadingInv
<1> QED BY <1>7, <1>8, <1>9, <1>10, <1>11, <1>12 DEF ReadingInv

LEMMA PathTaken ==
  ASSUME ReadingInv, TakePath
  PROVE  ReadingInv'
<1> DEFINE i == parsed.index
           name == Argument.name
<1>1. /\ AtArgument /\ name \notin Dashed /\ parsed.path = ""
      /\ parsed' = [parsed EXCEPT !.index = i + 1, !.path = name]
      /\ exitCode' = exitCode /\ arguments' = arguments /\ pc' = pc /\ pc = "options"
  BY DEF TakePath, Silent, AtArgument
<1>2. /\ i \in 2 .. Len(arguments) /\ Len(arguments) \in Nat
      /\ i \notin Before /\ Argument \in Arguments /\ Argument = arguments[i]
      /\ Command \in {"run", "benchmark"} /\ ~AsksForHelp
      /\ parsed \in Parsed /\ OptionsRead /\ PathRead /\ OptionsApplied
      /\ \A k \in Before : k < i
  BY <1>1, ReadFacts
<1>3. /\ parsed'.index = i + 1 /\ parsed'.seen = parsed.seen
      /\ parsed'.options = parsed.options /\ parsed'.path = name
  BY <1>1, <1>2 DEF Parsed
<1>4. Before' = Before \cup {i}
  BY <1>1, <1>3, ReadOn
<1>5. \A k \in Before \cup {i} : Name(k)' = Name(k)
  BY <1>1 DEF Name
<1>6. Name(i) = name
  BY <1>2 DEF Name
<1>7. parsed' \in Parsed
  <2>1. name \in STRING
    BY <1>2 DEF Arguments
  <2>2. parsed' = [index |-> i + 1, seen |-> parsed.seen, options |-> parsed.options, path |-> name]
    <3> HIDE DEF name
    <3> QED BY <1>1, <1>2 DEF Parsed
  <2>3. i + 1 \in Nat
    <3>1. i \in Nat
      BY <1>2 DEF Parsed
    <3> HIDE DEF i
    <3> QED BY <3>1
  <2>4. parsed.seen \in SUBSET STRING /\ parsed.options \in Options
    BY <1>2 DEF Parsed
  <2> HIDE DEF name, i
  <2> QED BY <2>1, <2>2, <2>3, <2>4 DEF Parsed
<1>8. OptionsRead'
  <2>1. parsed'.seen = {Name(k) : k \in {j \in Before \cup {i} : Name(j) \in Dashed}}
    <3>1. Name(i) \notin Dashed
      BY <1>1, <1>6
    <3>2. {j \in Before \cup {i} : Name(j) \in Dashed} = {j \in Before : Name(j) \in Dashed}
      BY <3>1
    <3>3. parsed'.seen = parsed.seen
      BY <1>3
    <3>4. parsed.seen = {Name(k) : k \in {j \in Before : Name(j) \in Dashed}}
      BY <1>2 DEF OptionsRead
    <3> QED BY <3>2, <3>3, <3>4
  <2>2. \A k \in Before \cup {i} :
          Name(k) \in Dashed => Name(k) \in OptionsOf(Command) /\ InBounds(arguments[k])
    BY <1>1, <1>2, <1>6 DEF OptionsRead
  <2>3. \A j, k \in Before \cup {i} : Name(j) = Name(k) /\ Name(k) \in Dashed => j = k
    BY <1>1, <1>2, <1>6 DEF OptionsRead
  <2>4. OptionsOf(Command)' = OptionsOf(Command) /\ \A k : InBounds(arguments[k])' = InBounds(arguments[k])
    BY <1>1, SameLine
  <2>5. arguments' = arguments
    BY <1>1
  <2> HIDE DEF i
  <2> QED BY <1>4, <1>5, <2>1, <2>2, <2>3, <2>4, <2>5 DEF OptionsRead
<1>9. PathRead'
  <2>1. \A k \in Before : Name(k) \in Dashed \cup {""}
    BY <1>1, <1>2 DEF PathRead
  <2>2. CASE name = ""
    BY <1>3, <1>4, <1>5, <1>6, <2>1, <2>2 DEF PathRead
  <2>3. CASE name # ""
    <3>1. \A j \in Before \cup {i} : j # i /\ Name(j) \notin Dashed => Name(j) = "" /\ j < i
      BY <1>2, <2>1
    <3>2. Name(i) = parsed'.path /\ Name(i) \notin Dashed /\ i \in Before'
      BY <1>1, <1>3, <1>4, <1>6
    <3>3. parsed'.path # ""
      BY <1>3, <2>3
    <3>4. i' = i + 1 /\ arguments' = arguments
      BY <1>1, <1>3
    <3> DEFINE last == i
    <3>5. /\ last \in Before' /\ arguments'[last].name = parsed'.path /\ arguments'[last].name \notin Dashed
          /\ \A j \in Before' : j # last /\ arguments'[j].name \notin Dashed => arguments'[j].name = "" /\ j < last
      BY <1>4, <3>1, <3>2, <3>4 DEF Name
    <3> QED BY <3>3, <3>5 DEF PathRead, Name
  <2> QED BY <2>2, <2>3
<1>10. OptionsApplied'
  <2>1. /\ name # "--jit-threshold=" /\ name # "--iterations="
    BY <1>1 DEF Dashed, RunOptions
  <2>2. /\ NumberRead(parsed.options.hotThreshold, "--jit-threshold=", DefaultThreshold)
        /\ NumberRead(parsed.options.iterations, "--iterations=", DefaultIterations)
    BY <1>2 DEF OptionsApplied
  <2>3. \A k \in Before : (Name(k) = "--jit-threshold=" => parsed.options.hotThreshold = arguments[k].value)
                          /\ (Name(k) = "--iterations=" => parsed.options.iterations = arguments[k].value)
    BY <2>2 DEF NumberRead
  <2>4. /\ NumberRead(parsed.options.hotThreshold, "--jit-threshold=", DefaultThreshold)'
        /\ NumberRead(parsed.options.iterations, "--iterations=", DefaultIterations)'
    BY <1>1, <1>3, <1>4, <1>5, <1>6, <2>1, <2>2, <2>3 DEF NumberRead
  <2> QED BY <1>2, <1>3, <2>4 DEF OptionsApplied
<1>11. UsageExact'
  <2>1. pc' = "options" /\ exitCode' = exitCode /\ arguments' = arguments
    BY <1>1
  <2>2. exitCode = 2 => ~WellFormed
    BY DEF UsageExact, ReadingInv
  <2> QED BY <2>1, <2>2, SameLine DEF UsageExact
<1>12. /\ arguments' \in Seq(Arguments) /\ Command' \in {"run", "benchmark"} /\ ~AsksForHelp'
       /\ pc' = "options" /\ parsed'.index \in 2 .. Len(arguments') + 1
  <2>1. pc' = "options" /\ arguments' = arguments /\ arguments \in Seq(Arguments)
    BY <1>1 DEF ReadingInv
  <2>2. Command' \in {"run", "benchmark"} /\ ~AsksForHelp'
    BY <1>2, <2>1, SameLine
  <2>3. i + 1 \in 2 .. Len(arguments) + 1
    <3>1. i \in 2 .. Len(arguments) /\ Len(arguments) \in Nat
      BY <1>2
    <3> HIDE DEF i
    <3> QED BY <3>1
  <2> QED BY <1>3, <2>1, <2>2, <2>3
<1> QED BY <1>7, <1>8, <1>9, <1>10, <1>11, <1>12 DEF ReadingInv

\* An argument that is refused leaves the line without a meaning.
LEMMA ArgumentRefused ==
  ASSUME ReadingInv, RefuseArgument
  PROVE  ReadingInv'
<1> DEFINE i == parsed.index
           name == Argument.name
<1>1. /\ AtArgument /\ Refused(Argument)
      /\ pc' = "done" /\ exitCode' = 2 /\ UNCHANGED <<arguments, parsed>>
  BY DEF RefuseArgument, UsageError, Exit
<1>2. /\ i \notin Before /\ Argument \in Arguments /\ Argument = arguments[i]
      /\ Command \in {"run", "benchmark"} /\ ~AsksForHelp
      /\ OptionsRead /\ PathRead /\ i \in Given /\ Before \subseteq Given
      /\ \A k \in Before : k < i
  BY <1>1, ReadFacts
<1>3. ASSUME OptionsMakeSense PROVE FALSE
  <2>1. name \in Dashed =>
          /\ name \in OptionsOf(Command)
          /\ name = "--jit-threshold=" => Argument.value \in 0 .. MaxCount
          /\ name = "--iterations=" => Argument.value \in 1 .. MaxIterations
          /\ At(name) = {i}
    BY <1>2, <1>3 DEF OptionsMakeSense
  <2>2. CASE name \in OptionsOf(Command) /\ name \in parsed.seen
    <3>1. name \in Dashed
      BY <1>2, <2>2, OptionNames
    <3>2. PICK k \in Before : Name(k) = name
      BY <1>2, <2>2 DEF OptionsRead
    <3>3. k \in At(name)
      BY <1>2, <3>2 DEF At, Name
    <3> QED BY <1>2, <2>1, <3>1, <3>2, <3>3
  <2>3. CASE name \in OptionsOf(Command) /\ ~InBounds(Argument)
    <3>1. name \in Dashed
      BY <1>2, <2>3, OptionNames
    <3> QED BY <1>2, <2>1, <2>3, <3>1 DEF InBounds, ParsesAsNumber, Arguments
  <2>4. CASE name \in Dashed \ OptionsOf(Command)
    BY <2>1, <2>4
  <2>5. CASE name \notin Dashed /\ parsed.path # ""
    <3>1. PICK k \in Before : Name(k) = parsed.path /\ Name(k) \notin Dashed
      BY <1>2, <2>5 DEF PathRead
    <3>2. PICK p \in Paths : Paths = {p} /\ \A j \in At("") : j < p
      BY <1>3 DEF OptionsMakeSense
    <3>3. k \in Paths /\ k < i
      BY <1>2, <2>5, <3>1 DEF Paths, Name
    <3>4. CASE name = ""
      <4>1. i \in At("")
        BY <1>2, <3>4 DEF At
      <4>2. k = p /\ i < p
        BY <3>2, <3>3, <4>1
      <4>3. i \in Int /\ p \in Int
        <5>1. Given \subseteq Int
          BY LineFacts
        <5>2. p \in Given
          BY <3>2 DEF Paths
        <5> QED BY <1>2, <5>1, <5>2
      <4> HIDE DEF i
      <4> QED BY <3>3, <4>2, <4>3
    <3>5. CASE name # ""
      <4>1. i \in Paths
        BY <1>2, <2>5, <3>5 DEF Paths
      <4> QED BY <3>2, <3>3, <4>1, <1>2
    <3> QED BY <3>4, <3>5
  <2> QED BY <1>1, <2>2, <2>3, <2>4, <2>5 DEF Refused
<1>4. ~WellFormed
  <2>1. ASSUME arguments = <<Word("--version")>> PROVE FALSE
    BY <1>2, <2>1, CommandNames DEF Command, Word
  <2> QED BY <1>2, <1>3, <2>1, CommandNames DEF WellFormed
<1> QED BY <1>1, <1>4, EndAtOnce

\* What an option was given, when all arguments have been read.
LEMMA ValueRead ==
  ASSUME Given = Before, NEW name \in Dashed, OptionsRead,
         NEW value, NEW default, NumberRead(value, name, default)
  PROVE  value = ValueAt(name, default)
<1>1. At(name) = {} => name \notin parsed.seen
  BY DEF At, OptionsRead, Name
<1>2. CASE At(name) = {}
  BY <1>1, <1>2 DEF NumberRead, ValueAt
<1>3. CASE At(name) # {}
  <2>1. PICK k \in At(name) : k = (CHOOSE j \in At(name) : TRUE)
    BY <1>3
  <2>2. value = arguments[k].value
    BY <2>1 DEF At, NumberRead, Name
  <2> QED BY <1>3, <2>1, <2>2 DEF ValueAt
<1> QED BY <1>2, <1>3

\* A line that has been read to its end.
LEMMA LineRead ==
  ASSUME ReadingInv, pc = "options", parsed.index > Len(arguments)
  PROVE  /\ Command \in {"run", "benchmark"} /\ ~AsksForHelp
         /\ parsed.path = "" => ~WellFormed
         /\ parsed.path # "" =>
              /\ WellFormed /\ parsed.options = Meant
              /\ \E k \in Paths : parsed.path = arguments[k].name
<1>1. /\ Command \in {"run", "benchmark"} /\ ~AsksForHelp
      /\ parsed.index \in 2 .. Len(arguments) + 1 /\ parsed \in Parsed
      /\ OptionsRead /\ PathRead /\ OptionsApplied
  BY DEF ReadingInv
<1>2. Len(arguments) \in Nat /\ Given = 2 .. Len(arguments)
  BY LineFacts
<1>3. Given = Before
  BY <1>1, <1>2 DEF Before
<1>4. ASSUME parsed.path = "" PROVE ~WellFormed
  <2>1. Paths = {}
    BY <1>1, <1>3, <1>4 DEF PathRead, Paths, Name
  <2>2. ASSUME arguments = <<Word("--version")>> PROVE FALSE
    BY <1>1, <2>2, CommandNames DEF Command, Word
  <2> QED BY <1>1, <2>1, <2>2, CommandNames DEF WellFormed, OptionsMakeSense
<1>5. ASSUME parsed.path # ""
      PROVE  \E k \in Paths : /\ Paths = {k} /\ \A j \in At("") : j < k
                              /\ parsed.path = arguments[k].name
  <2>1. PICK k \in Before :
          /\ Name(k) = parsed.path /\ Name(k) \notin Dashed
          /\ \A j \in Before : j # k /\ Name(j) \notin Dashed => Name(j) = "" /\ j < k
    BY <1>1, <1>5 DEF PathRead
  <2>2. k \in Paths /\ Paths = {k}
    BY <1>3, <1>5, <2>1 DEF Paths, Name
  <2>3. \A j \in At("") : j < k
    BY <1>3, <1>5, <2>1, CommandNames DEF At, Name
  <2> QED BY <2>1, <2>2, <2>3 DEF Name
<1>6. ASSUME NEW k \in Given, arguments[k].name \in Dashed
      PROVE  /\ arguments[k].name \in OptionsOf(Command)
             /\ arguments[k].name = "--jit-threshold=" => arguments[k].value \in 0 .. MaxCount
             /\ arguments[k].name = "--iterations=" => arguments[k].value \in 1 .. MaxIterations
             /\ At(arguments[k].name) = {k}
  <2>1. Name(k) \in OptionsOf(Command) /\ InBounds(arguments[k])
    BY <1>1, <1>3, <1>6 DEF OptionsRead, Name
  <2>2. arguments[k].value \in Int
    BY <1>2, ArgumentFacts DEF Arguments
  <2>3. At(arguments[k].name) = {k}
    BY <1>1, <1>3, <1>6 DEF OptionsRead, At, Name
  <2> QED BY <2>1, <2>2, <2>3 DEF InBounds, ParsesAsNumber, Name
<1>7. ASSUME parsed.path # "" PROVE WellFormed
  BY <1>1, <1>5, <1>6, <1>7 DEF WellFormed, OptionsMakeSense
<1>8. parsed.options = Meant
  <2>1. /\ "--no-jit" \in Dashed /\ "--trace-jit" \in Dashed
        /\ "--jit-threshold=" \in Dashed /\ "--iterations=" \in Dashed
    BY DEF Dashed, RunOptions
  <2>2. \A name \in Dashed : name \in parsed.seen <=> At(name) # {}
    BY <1>1, <1>3 DEF OptionsRead, At, Name
  <2>3. /\ parsed.options.hotThreshold = ValueAt("--jit-threshold=", DefaultThreshold)
        /\ parsed.options.iterations = ValueAt("--iterations=", DefaultIterations)
    BY <1>1, <1>3, <2>1, ValueRead DEF OptionsApplied
  <2>4. parsed.options.jitEnabled \in BOOLEAN /\ parsed.options.traceJit \in BOOLEAN
    BY <1>1 DEF Parsed, Options
  <2>5. /\ parsed.options.jitEnabled = (At("--no-jit") = {})
        /\ parsed.options.traceJit = (At("--trace-jit") # {})
    BY <1>1, <2>1, <2>2, <2>4 DEF OptionsApplied
  <2>6. parsed.options = [jitEnabled |-> parsed.options.jitEnabled, traceJit |-> parsed.options.traceJit,
                          hotThreshold |-> parsed.options.hotThreshold,
                          iterations |-> parsed.options.iterations]
    BY <1>1 DEF Parsed, Options
  <2> QED BY <2>3, <2>5, <2>6 DEF Meant
<1> QED BY <1>1, <1>4, <1>5, <1>7, <1>8

LEMMA OptionsEnd ==
  ASSUME ReadingInv, EndOptions
  PROVE  ReadingInv'
<1>1. /\ pc = "options" /\ parsed.index > Len(arguments) /\ arguments' = arguments /\ parsed' = parsed
      /\ parsed \in Parsed /\ arguments \in Seq(Arguments)
  BY DEF EndOptions, ReadingInv
<1>2. CASE parsed.path = ""
  <2>1. pc' = "done" /\ exitCode' = 2 /\ UNCHANGED <<arguments, parsed>>
    BY <1>1, <1>2 DEF EndOptions, UsageError, Exit
  <2> QED BY <1>1, <1>2, <2>1, LineRead, EndAtOnce
<1>3. CASE parsed.path # ""
  <2>1. pc' = "read" /\ exitCode' = exitCode /\ (exitCode = 2 => ~WellFormed)
    BY <1>1, <1>3 DEF EndOptions, Silent, ReadingInv, UsageExact
  <2>2. UsageExact'
    BY <1>1, <1>3, <2>1, LineRead, SameLine DEF UsageExact
  <2> QED BY <1>1, <2>1, <2>2 DEF ReadingInv
<1> QED BY <1>2, <1>3

\* A dump takes its path at once.
LEMMA InspectionBegins ==
  ASSUME ReadingInv, BeginInspection
  PROVE  ReadingInv'
<1>1. /\ pc = "command" /\ Command \in DumpCommands /\ ~AsksForHelp /\ DumpAccepted /\ pc' = "read"
      /\ parsed' = [parsed EXCEPT !.path = arguments[2].name] /\ arguments' = arguments
      /\ exitCode' = exitCode /\ parsed \in Parsed /\ arguments \in Seq(Arguments)
  BY DEF BeginInspection, Silent, ReadingInv
<1>2. Command \notin {"run", "benchmark"}
  BY <1>1, CommandNames
<1>3. WellFormed
  BY <1>1 DEF WellFormed, DumpAccepted
<1>4. UsageExact'
  BY <1>1, <1>2, <1>3, SameLine DEF UsageExact, ReadingInv
<1>5. parsed' \in Parsed
  <2>1. arguments[2].name \in STRING
    BY <1>1, ArgumentFacts DEF DumpAccepted, Name
  <2> QED BY <1>1, <2>1 DEF Parsed
<1> QED BY <1>1, <1>4, <1>5 DEF ReadingInv

\* What is done with the line when it has been read.
LaterSteps ==
  \/ ReadFile \/ ReadFileFails \/ PassStage \/ FailStage \/ Dump \/ FindEntryFails
  \/ RunVm \/ Invoke \/ EndRun
  \/ BeginBenchmark \/ WarmUp \/ EndWarmUp \/ CreateMachine \/ StartClock \/ Iterate \/ EndRound
  \/ EndMeasurement \/ EndSilence \/ Report

LEMMA LaterStepIsLater ==
  ASSUME LaterSteps
  PROVE  /\ UNCHANGED <<arguments, parsed>>
         /\ pc \in {"read", "stages", "execute", "warm", "measure", "report"}
         /\ \/ pc' = "done" /\ exitCode' \in {0, 1}
            \/ pc' \in {"stages", "execute", "warm", "measure", "report"} /\ exitCode' = exitCode
<1>1. CASE ReadFile \/ ReadFileFails
  BY <1>1 DEF ReadFile, ReadFileFails, Failure, Exit, Silent
<1>2. CASE PassStage \/ FailStage
  BY <1>2 DEF PassStage, FailStage, AtStage, Failure, Exit, Silent
<1>3. CASE Dump
  BY <1>3 DEF Dump, StagesPassed, Failure, Exit
<1>4. CASE FindEntryFails \/ RunVm
  BY <1>4 DEF FindEntryFails, RunVm, EntryFound, StagesPassed, Failure, Exit, Execute, Silent
<1>5. CASE BeginBenchmark
  BY <1>5 DEF BeginBenchmark, EntryFound, StagesPassed, Silent
<1>6. CASE WarmUp \/ Iterate
  BY <1>6 DEF WarmUp, Iterate, Measuring, Execute, Silent
<1>7. CASE CreateMachine \/ StartClock \/ EndMeasurement
  BY <1>7 DEF CreateMachine, StartClock, EndMeasurement, Measuring, Silent
<1>8. CASE Invoke
  BY <1>8 DEF Invoke, Executing, Silent
<1>9. CASE EndSilence \/ Report
  BY <1>9 DEF EndSilence, Report, Silent, Exit
<1>10. CASE EndRun
  <2>1. PICK failed \in BOOLEAN :
          Ends(failed) /\ Exit(IF failed THEN 1 ELSE 0, Output, JitTrace \o ErrorOf(failed))
    BY <1>10 DEF EndRun
  <2>2. pc = "execute" /\ pc' = "done" /\ exitCode' \in {0, 1}
    BY <2>1 DEF Ends, Exit
  <2> QED BY <1>10, <2>2 DEF EndRun
<1>11. CASE EndWarmUp
  <2>1. PICK failed \in BOOLEAN :
          /\ Ends(failed)
          /\ IF failed \/ Entry \notin execution.vm.native
             THEN Exit(1, Output, <<Message(IF failed THEN "runtime error" ELSE "not native")>>)
             ELSE pc' = "measure" /\ UNCHANGED exitCode
    BY <1>11 DEF EndWarmUp
  <2>2. /\ pc = "execute"
        /\ \/ pc' = "done" /\ exitCode' = 1
           \/ pc' = "measure" /\ exitCode' = exitCode
    BY <2>1 DEF Ends, Exit
  <2> QED BY <1>11, <2>2 DEF EndWarmUp
<1>12. CASE EndRound
  BY <1>12 DEF EndRound, Ends
<1> QED BY <1>1, <1>2, <1>3, <1>4, <1>5, <1>6, <1>7, <1>8, <1>9, <1>10, <1>11, <1>12 DEF LaterSteps

LEMMA ReadingStep ==
  ASSUME ReadingInv, StreamsInv, [Next]_vars
  PROVE  ReadingInv'
<1>1. CASE ShowHelp
  BY <1>1, EndAtOnce DEF ShowHelp, Exit
<1>2. CASE ShowVersion
  BY <1>2, VersionStep
<1>3. CASE RefuseCommand
  BY <1>3, CommandRefused
<1>4. CASE BeginInspection
  BY <1>4, InspectionBegins
<1>5. CASE BeginOptions
  BY <1>5, OptionsBegin
<1>6. CASE TakeOption
  BY <1>6, OptionTaken
<1>7. CASE TakePath
  BY <1>7, PathTaken
<1>8. CASE RefuseArgument
  BY <1>8, ArgumentRefused
<1>9. CASE EndOptions
  BY <1>9, OptionsEnd
<1>10. CASE LaterSteps
  <2>1. exitCode = Running
    BY <1>10, LaterStepIsLater DEF StreamsInv
  <2> QED BY <1>10, <2>1, LaterStepIsLater, LaterStep DEF Running
<1>11. CASE UNCHANGED vars
  <2>1. arguments' = arguments /\ parsed' = parsed /\ pc' = pc /\ exitCode' = exitCode
    BY <1>11 DEF vars
  <2>2. UsageExact'
    <3>1. UsageExact
      BY DEF ReadingInv
    <3> QED BY <2>1, <3>1, SameLine DEF UsageExact
  <2>3. Before' = Before /\ \A k : Name(k)' = Name(k)
    BY <2>1 DEF Before, Name
  <2>4. OptionsRead => OptionsRead'
    BY <2>1, <2>3, SameLine DEF OptionsRead
  <2>5. PathRead => PathRead'
    BY <2>1, <2>3 DEF PathRead
  <2>6. OptionsApplied => OptionsApplied'
    BY <2>1, <2>3 DEF OptionsApplied, NumberRead
  <2>7. Command' = Command /\ AsksForHelp' = AsksForHelp
    BY <2>1, SameLine
  <2> QED BY <2>1, <2>2, <2>4, <2>5, <2>6, <2>7 DEF ReadingInv
<1> QED BY <1>1, <1>2, <1>3, <1>4, <1>5, <1>6, <1>7, <1>8, <1>9, <1>10, <1>11 DEF Next, LaterSteps

-----------------------------------------------------------------------------
(* What an execution does.                                                 *)

LEMMA Extended ==
  ASSUME NEW S, NEW s \in Seq(S), NEW x \in S
  PROVE  /\ Append(s, x) \in Seq(S) /\ Append(s, x) # <<>>
         /\ Len(s) \in Nat /\ DOMAIN s = 1 .. Len(s) /\ DOMAIN Append(s, x) = 1 .. Len(s) + 1
         /\ \A k \in DOMAIN s : Append(s, x)[k] = s[k]
         /\ Append(s, x)[Len(s) + 1] = x
<1>1. Len(s) \in Nat /\ DOMAIN s = 1 .. Len(s)
  BY LenProperties
<1>2. /\ Append(s, x) \in Seq(S) /\ Append(s, x) # <<>> /\ Len(Append(s, x)) = Len(s) + 1
      /\ \A k \in 1 .. Len(s) : Append(s, x)[k] = s[k]
      /\ Append(s, x)[Len(s) + 1] = x
  BY AppendProperties
<1>3. DOMAIN Append(s, x) = 1 .. Len(Append(s, x))
  BY <1>2, LenProperties
<1> QED BY <1>1, <1>2, <1>3

\* One more thing is done.
LEMMA WorkDone ==
  ASSUME NEW start, NEW vm, NEW work \in Seq(Items), NEW x \in Items,
         CompiledOf(start, vm, work), NativeOf(start, work),
         x.what = "compile" =>
           /\ start.profilingEnabled
           /\ ~start.profile[x.function].isHot /\ vm.profile[x.function].isHot
           /\ \A j \in DOMAIN work : work[j] # x,
         x.what = "native" =>
           x.function \in start.native \/ \E j \in DOMAIN work : work[j] = Did("compile", x.function)
  PROVE  CompiledOf(start, vm, Append(work, x)) /\ NativeOf(start, Append(work, x))
<1> DEFINE after == Append(work, x)
           n == Len(work) + 1
<1>1. /\ Len(work) \in Nat /\ DOMAIN work = 1 .. Len(work) /\ DOMAIN after = 1 .. n
      /\ \A k \in DOMAIN work : after[k] = work[k]
      /\ after[n] = x
  BY Extended
<1>2. DOMAIN after = DOMAIN work \cup {n} /\ n \notin DOMAIN work
  <2> HIDE DEF after
  <2> QED BY <1>1
<1>3. \A k \in DOMAIN work : 1 .. k - 1 \subseteq DOMAIN work
  <2> HIDE DEF after
  <2> QED BY <1>1
<1>4. 1 .. n - 1 = DOMAIN work
  <2> HIDE DEF after
  <2> QED BY <1>1
<1> HIDE DEF after, n
<1>5. CompiledOf(start, vm, after)
  <2> SUFFICES ASSUME NEW k \in DOMAIN after, after[k].what = "compile"
               PROVE  /\ start.profilingEnabled
                      /\ ~start.profile[after[k].function].isHot /\ vm.profile[after[k].function].isHot
                      /\ \A j \in DOMAIN after : after[j] = after[k] => j = k
    BY DEF CompiledOf
  <2>1. CASE k = n
    BY <1>1, <1>2, <2>1
  <2>2. CASE k \in DOMAIN work
    <3>1. /\ work[k].what = "compile" /\ start.profilingEnabled
          /\ ~start.profile[work[k].function].isHot /\ vm.profile[work[k].function].isHot
          /\ \A j \in DOMAIN work : work[j] = work[k] => j = k
      BY <1>1, <2>2 DEF CompiledOf
    <3>2. x # work[k]
      BY <2>2, <3>1
    <3> QED BY <1>1, <1>2, <2>2, <3>1, <3>2
  <2> QED BY <1>2, <2>1, <2>2
<1>6. NativeOf(start, after)
  <2> SUFFICES ASSUME NEW k \in DOMAIN after, after[k].what = "native"
               PROVE  \/ after[k].function \in start.native
                      \/ \E j \in 1 .. k - 1 : after[j] = Did("compile", after[k].function)
    BY DEF NativeOf
  <2>1. CASE k = n
    BY <1>1, <1>4, <2>1
  <2>2. CASE k \in DOMAIN work
    <3>1. \/ work[k].function \in start.native
          \/ \E j \in 1 .. k - 1 : work[j] = Did("compile", work[k].function)
      BY <1>1, <2>2 DEF NativeOf
    <3> QED BY <1>1, <1>3, <2>2, <3>1
  <2> QED BY <1>2, <2>1, <2>2
<1> QED BY <1>5, <1>6 DEF after

LEMMA ProfileFacts ==
  ASSUME NEW vm \in Machines, NEW f \in Functions
  PROVE  /\ vm.profile \in Profiles /\ vm.hotThreshold \in 0 .. MaxCount
         /\ vm.jitEnabled \in BOOLEAN /\ vm.profilingEnabled \in BOOLEAN /\ vm.native \subseteq Functions
         /\ vm.profile[f].invocationCount \in 0 .. MaxCount /\ vm.profile[f].isHot \in BOOLEAN
BY DEF Machines, Profiles, ProfilingCounters

\* dispatch leaves a machine of the same options; only f is counted.
LEMMA DispatchedMachine ==
  ASSUME NEW vm \in Machines, NEW f \in Functions, NEW code \in BOOLEAN
  PROVE  /\ Dispatched(vm, f, code) \in Machines
         /\ SameOptions(vm, Dispatched(vm, f, code)) /\ Grown(vm, Dispatched(vm, f, code))
         /\ Dispatched(vm, f, code).profile = ProfileAfter(vm, f)
         /\ Dispatched(vm, f, code).native \subseteq vm.native \cup {f}
         /\ ~code => Dispatched(vm, f, code).native = vm.native
         /\ \A g \in Functions \ {f} : Dispatched(vm, f, code).profile[g] = vm.profile[g]
         /\ vm.profilingEnabled =>
              Dispatched(vm, f, code).profile[f] = RecordInvocation(vm.profile[f], vm.hotThreshold)
         /\ ~vm.profilingEnabled => Dispatched(vm, f, code).profile[f] = vm.profile[f]
<1> DEFINE after == Dispatched(vm, f, code)
<1> SUFFICES /\ after \in Machines /\ SameOptions(vm, after) /\ Grown(vm, after)
             /\ after.profile = ProfileAfter(vm, f)
             /\ after.native \subseteq vm.native \cup {f} /\ (~code => after.native = vm.native)
             /\ \A g \in Functions \ {f} : after.profile[g] = vm.profile[g]
             /\ vm.profilingEnabled => after.profile[f] = RecordInvocation(vm.profile[f], vm.hotThreshold)
             /\ ~vm.profilingEnabled => after.profile[f] = vm.profile[f]
  OBVIOUS
<1> DEFINE next == RecordInvocation(vm.profile[f], vm.hotThreshold)
           profile == ProfileAfter(vm, f)
           native == IF code THEN vm.native \cup {f} ELSE vm.native
<1>1. next \in ProfilingCounters /\ (vm.profile[f].isHot => next.isHot)
  <2>1. Saturated(vm.profile[f].invocationCount) \in 0 .. MaxCount
    BY ProfileFacts DEF Saturated
  <2>2. (vm.profile[f].isHot \/ BecomesHot(vm.profile[f], vm.hotThreshold)) \in BOOLEAN
    OBVIOUS
  <2> QED BY <2>1, <2>2 DEF RecordInvocation, ProfilingCounters
<1>2. /\ profile \in Profiles
      /\ \A g \in Functions \ {f} : profile[g] = vm.profile[g]
      /\ vm.profilingEnabled => profile[f] = next
      /\ ~vm.profilingEnabled => profile[f] = vm.profile[f]
  <2>1. vm.profile \in [Functions -> ProfilingCounters]
    BY DEF Machines, Profiles
  <2>2. profile = IF vm.profilingEnabled THEN [vm.profile EXCEPT ![f] = next] ELSE vm.profile
    BY DEF ProfileAfter
  <2> HIDE DEF next, profile
  <2> QED BY <1>1, <2>1, <2>2 DEF Profiles
<1>3. native \in SUBSET Functions
  BY DEF Machines
<1>4. after = [vm EXCEPT !.native = native, !.profile = profile]
  BY DEF Dispatched
<1> HIDE DEF next, profile, native, after
<1>5. /\ after \in Machines /\ after.profile = profile /\ after.native = native
      /\ SameOptions(vm, after)
  BY <1>2, <1>3, <1>4 DEF Machines, SameOptions
<1>6. native \subseteq vm.native \cup {f} /\ (~code => native = vm.native)
  BY DEF native
<1>7. Grown(vm, after)
  <2>1. \A g \in Functions : vm.profile[g].isHot => profile[g].isHot
    BY <1>1, <1>2
  <2>2. vm.native \subseteq native
    BY DEF native
  <2> QED BY <1>5, <2>1, <2>2 DEF Grown
<1> QED BY <1>2, <1>5, <1>6, <1>7 DEF profile, next

\* A machine compiles what it has not compiled, and has the code only then.
LEMMA CompilationFacts ==
  ASSUME NEW vm \in Machines, NEW f \in Functions, NEW code \in NewCode(vm, f)
  PROVE  /\ code \in BOOLEAN /\ (code => Compiles(vm, f))
         /\ Compiles(vm, f) => Hot(vm, f) /\ vm.jitEnabled
         /\ Hot(vm, f) => /\ vm.profilingEnabled /\ ~vm.profile[f].isHot
                          /\ Dispatched(vm, f, code).profile[f].isHot
<1>1. code \in BOOLEAN /\ (code => Compiles(vm, f))
  BY DEF NewCode
<1>2. Compiles(vm, f) => Hot(vm, f) /\ vm.jitEnabled
  BY DEF Compiles
<1>3. ASSUME Hot(vm, f)
      PROVE  vm.profilingEnabled /\ ~vm.profile[f].isHot /\ Dispatched(vm, f, code).profile[f].isHot
  <2>1. vm.profilingEnabled /\ BecomesHot(vm.profile[f], vm.hotThreshold) /\ ~vm.profile[f].isHot
    BY <1>3 DEF Hot, BecomesHot
  <2>2. Dispatched(vm, f, code).profile[f] = RecordInvocation(vm.profile[f], vm.hotThreshold)
    BY <1>1, <2>1, DispatchedMachine
  <2>3. RecordInvocation(vm.profile[f], vm.hotThreshold).isHot
    BY <2>1 DEF RecordInvocation
  <2> QED BY <2>1, <2>2, <2>3
<1> QED BY <1>1, <1>2, <1>3

\* What the next invocation is, and what execution becomes by it.
Invokes(code, tier) ==
  execution' = [execution EXCEPT !.vm = Dispatched(execution.vm, Callee, code), !.done = @ + 1,
                                 !.hotEvents = HotEventsAfter(execution.vm, Callee),
                                 !.work = WorkAfter(execution.vm, Callee, tier)]

LEMMA InvocationFacts ==
  ASSUME NEW start, Executed(start, execution), Executing,
         NEW code \in NewCode(execution.vm, Callee), NEW tier, Invokes(code, tier)
  PROVE  /\ execution.done \in 0 .. Len(execution.calls) - 1 /\ Len(execution.calls) \in Nat
         /\ Callee \in Functions /\ execution.vm \in Machines /\ start \in Machines
         /\ execution.work \in Seq(Items) /\ execution.hotEvents \in Seq(Events)
         /\ execution'.vm = Dispatched(execution.vm, Callee, code)
         /\ execution'.done = execution.done + 1 /\ execution'.calls = execution.calls
         /\ execution'.hotEvents = HotEventsAfter(execution.vm, Callee)
         /\ execution'.work = WorkAfter(execution.vm, Callee, tier)
         /\ execution' = [vm |-> execution'.vm, calls |-> execution'.calls, done |-> execution'.done,
                          hotEvents |-> execution'.hotEvents, work |-> execution'.work]
<1>1. /\ execution \in Executions /\ start \in Machines /\ execution.done < Len(execution.calls)
      /\ execution.calls \in Seq(Functions) /\ execution.done \in Nat
  BY DEF Executed, Executing, Executions
<1>2. Len(execution.calls) \in Nat /\ execution.done \in 0 .. Len(execution.calls) - 1
  BY <1>1, LenProperties
<1>3. Callee \in Functions
  <2>1. execution.done + 1 \in 1 .. Len(execution.calls)
    BY <1>2
  <2> QED BY <1>1, <2>1, ElementOfSeq DEF Callee
<1>4. /\ execution.vm \in Machines /\ execution.work \in Seq(Items)
      /\ execution.hotEvents \in Seq(Events)
  BY <1>1 DEF Executions
<1>5. /\ execution'.vm = Dispatched(execution.vm, Callee, code)
      /\ execution'.done = execution.done + 1 /\ execution'.calls = execution.calls
      /\ execution'.hotEvents = HotEventsAfter(execution.vm, Callee)
      /\ execution'.work = WorkAfter(execution.vm, Callee, tier)
      /\ execution' = [vm |-> execution'.vm, calls |-> execution'.calls, done |-> execution'.done,
                       hotEvents |-> execution'.hotEvents, work |-> execution'.work]
  BY <1>1 DEF Invokes, Executions
<1> QED BY <1>1, <1>2, <1>3, <1>4, <1>5

\* The tier is that of the code, or the interpreter.
LEMMA TierFacts ==
  ASSUME NEW vm, NEW f \in Functions, NEW tier \in Tiers(vm, f)
  PROVE  /\ Did(tier, f) \in Items /\ Did(tier, f).what \in {"native", "vm"}
         /\ Did(tier, f).function = f
         /\ Did(tier, f).what = "native" => vm.jitEnabled /\ f \in vm.native
         /\ ~program.nests \/ ~(execution.done > 0) => tier = SelectExecutionTier(vm, f)
<1>1. tier \in {"native", "vm"} /\ (tier = "native" => vm.jitEnabled /\ f \in vm.native)
  BY DEF Tiers, SelectExecutionTier
<1>2. ~program.nests \/ ~(execution.done > 0) => tier = SelectExecutionTier(vm, f)
  BY DEF Tiers
<1> QED BY <1>1, <1>2 DEF Did, Items

LEMMA InvokedOn ==
  ASSUME NEW start, Executed(start, execution), Executing,
         NEW code \in NewCode(execution.vm, Callee),
         NEW tier \in Tiers(Dispatched(execution.vm, Callee, code), Callee), Invokes(code, tier)
  PROVE  Executed(start, execution')
<1> DEFINE vm == execution.vm
           f == Callee
           after == Dispatched(vm, f, code)
           work == execution.work
           compiled == IF Compiles(vm, f) THEN Append(work, Did("compile", f)) ELSE work
           x == Did(tier, f)
<1>1. /\ execution.done \in 0 .. Len(execution.calls) - 1 /\ Len(execution.calls) \in Nat
      /\ f \in Functions /\ vm \in Machines /\ start \in Machines /\ work \in Seq(Items)
      /\ execution'.vm = after /\ execution'.done = execution.done + 1
      /\ execution'.calls = execution.calls
      /\ execution'.hotEvents = HotEventsAfter(vm, f)
      /\ execution'.work = Append(compiled, x)
      /\ execution' = [vm |-> execution'.vm, calls |-> execution'.calls, done |-> execution'.done,
                       hotEvents |-> execution'.hotEvents, work |-> execution'.work]
  BY InvocationFacts DEF WorkAfter
<1>2. /\ execution \in Executions /\ execution.calls # <<>> /\ execution.calls[1] = Entry
      /\ SameOptions(start, vm) /\ Grown(start, vm) /\ Begun(start, execution)
      /\ CompiledOf(start, vm, work) /\ NativeOf(start, work) /\ CodeOf(start, vm, work)
  BY DEF Executed
<1>3. /\ code \in BOOLEAN /\ (code => Compiles(vm, f))
      /\ Compiles(vm, f) => Hot(vm, f) /\ vm.jitEnabled
      /\ Hot(vm, f) => vm.profilingEnabled /\ ~vm.profile[f].isHot /\ after.profile[f].isHot
  BY <1>1, CompilationFacts
<1>4. /\ after \in Machines /\ SameOptions(vm, after) /\ Grown(vm, after)
      /\ after.profile = ProfileAfter(vm, f)
      /\ after.native \subseteq vm.native \cup {f} /\ (~code => after.native = vm.native)
  <2>1. vm \in Machines /\ f \in Functions /\ code \in BOOLEAN
    BY <1>1, <1>3
  <2> HIDE DEF vm, f
  <2> QED BY <2>1, DispatchedMachine
<1>5. /\ x \in Items /\ x.what \in {"native", "vm"} /\ x.function = f
      /\ x.what = "native" => f \in after.native
      /\ ~(execution.done > 0) => tier = SelectExecutionTier(after, f)
  BY <1>1, TierFacts
<1>6. Did("compile", f) \in Items /\ Did("compile", f).what = "compile" /\ Did("compile", f).function = f
  BY <1>1 DEF Did, Items
<1> HIDE DEF x, after
<1>7. SameOptions(start, after) /\ Grown(start, after)
  BY <1>1, <1>2, <1>4 DEF SameOptions, Grown
<1>8. CompiledOf(start, after, work)
  <2>1. ASSUME NEW k \in DOMAIN work
        PROVE  work[k].function \in Functions
    <3>1. DOMAIN work = 1 .. Len(work)
      BY <1>1, LenProperties
    <3>2. work[k] \in Items
      BY <1>1, <2>1, <3>1, ElementOfSeq
    <3> QED BY <3>2 DEF Items
  <2>2. \A g \in Functions : vm.profile[g].isHot => after.profile[g].isHot
    BY <1>4 DEF Grown
  <2> HIDE DEF work, vm
  <2> QED BY <1>2, <2>1, <2>2 DEF CompiledOf
<1>9. /\ CompiledOf(start, after, compiled) /\ NativeOf(start, compiled) /\ compiled \in Seq(Items)
      /\ CodeOf(start, after, compiled)
  <2>1. CASE Compiles(vm, f)
    <3>1. compiled = Append(work, Did("compile", f))
      BY <2>1
    <3>2. ASSUME NEW j \in DOMAIN work PROVE work[j] # Did("compile", f)
      BY <1>2, <1>3, <1>6, <2>1 DEF CompiledOf
    <3>3. start.profilingEnabled /\ ~start.profile[f].isHot /\ after.profile[f].isHot
      BY <1>1, <1>2, <1>3, <2>1 DEF SameOptions, Grown
    <3>4. CompiledOf(start, after, compiled) /\ NativeOf(start, compiled)
      <4> HIDE DEF work, vm, f
      <4> QED BY <1>1, <1>2, <1>6, <1>8, <3>1, <3>2, <3>3, WorkDone
    <3>5. /\ compiled \in Seq(Items) /\ DOMAIN work \subseteq DOMAIN compiled
          /\ \A k \in DOMAIN work : compiled[k] = work[k]
          /\ \E k \in DOMAIN compiled : compiled[k] = Did("compile", f)
      <4> HIDE DEF work, vm, f
      <4>1. /\ Append(work, Did("compile", f)) \in Seq(Items) /\ Len(work) \in Nat
            /\ DOMAIN work = 1 .. Len(work)
            /\ DOMAIN Append(work, Did("compile", f)) = 1 .. Len(work) + 1
            /\ \A k \in DOMAIN work : Append(work, Did("compile", f))[k] = work[k]
            /\ Append(work, Did("compile", f))[Len(work) + 1] = Did("compile", f)
        BY <1>1, <1>6, Extended
      <4> HIDE DEF compiled
      <4>2. DOMAIN compiled = 1 .. Len(work) + 1 /\ Len(work) + 1 \in DOMAIN compiled
        BY <3>1, <4>1
      <4> QED BY <3>1, <4>1, <4>2
    <3>6. CodeOf(start, after, compiled)
      <4>1. \A g \in after.native : g \in vm.native \/ g = f
        BY <1>4
      <4> HIDE DEF work, vm, f, compiled
      <4> QED BY <1>2, <3>5, <4>1 DEF CodeOf
    <3> QED BY <3>4, <3>5, <3>6
  <2>2. CASE ~Compiles(vm, f)
    <3>1. compiled = work /\ after.native = vm.native
      BY <1>3, <1>4, <2>2
    <3> HIDE DEF work, vm, f, compiled
    <3> QED BY <1>1, <1>2, <1>8, <3>1 DEF CodeOf
  <2> QED BY <2>1, <2>2
<1>10. /\ Append(compiled, x) \in Seq(Items) /\ Append(compiled, x) # <<>>
       /\ Len(compiled) \in Nat /\ DOMAIN compiled = 1 .. Len(compiled)
       /\ DOMAIN Append(compiled, x) = 1 .. Len(compiled) + 1
       /\ \A k \in DOMAIN compiled : Append(compiled, x)[k] = compiled[k]
       /\ Append(compiled, x)[Len(compiled) + 1] = x
  <2> HIDE DEF compiled
  <2> QED BY <1>5, <1>9, Extended
<1>11. CompiledOf(start, after, Append(compiled, x)) /\ NativeOf(start, Append(compiled, x))
  <2>1. x.what = "native" =>
          x.function \in start.native \/ \E j \in DOMAIN compiled : compiled[j] = Did("compile", x.function)
    <3> HIDE DEF compiled, f
    <3> QED BY <1>5, <1>9 DEF CodeOf
  <2>2. x.what # "compile"
    BY <1>5
  <2> HIDE DEF compiled
  <2> QED BY <1>5, <1>9, <2>1, <2>2, WorkDone
<1>12. CodeOf(start, after, Append(compiled, x))
  <2> HIDE DEF compiled
  <2>1. DOMAIN compiled \subseteq DOMAIN Append(compiled, x)
    BY <1>10
  <2> QED BY <1>9, <1>10, <2>1 DEF CodeOf
<1>13. Begun(start, execution')
  <2>1. execution'.done # 0
    BY <1>1
  <2>2. CASE execution.done = 0
    <3>1. vm = start /\ work = <<>> /\ f = Entry
      BY <1>2, <2>2 DEF Begun, Callee
    <3>2. CASE Compiles(vm, f)
      <4>1. compiled = <<Did("compile", f)>>
        <5>1. Append(<<>>, Did("compile", f)) = <<Did("compile", f)>>
          OBVIOUS
        <5> QED BY <3>1, <3>2, <5>1
      <4>2. 1 \in DOMAIN compiled /\ compiled[1] = Did("compile", f)
        <5> HIDE DEF f
        <5> QED BY <4>1
      <4>3. execution'.work[1] = Did("compile", Entry)
        <5> HIDE DEF compiled
        <5> QED BY <1>1, <1>10, <3>1, <4>2
      <4> QED BY <1>1, <1>10, <2>1, <3>1, <3>2, <4>3 DEF Begun, First
    <3>3. CASE ~Compiles(vm, f)
      <4>1. compiled = <<>>
        BY <3>1, <3>3
      <4>2. Append(<<>>, x) = <<x>> /\ <<x>>[1] = x
        OBVIOUS
      <4>3. tier = SelectExecutionTier(start, Entry)
        <5>1. after.native = vm.native /\ after.jitEnabled = vm.jitEnabled
          BY <1>3, <1>4, <3>3 DEF SameOptions
        <5> QED BY <1>5, <2>2, <3>1, <5>1 DEF SelectExecutionTier
      <4>4. execution'.work = <<x>> /\ execution'.work # <<>> /\ execution'.work[1] = x
        <5> HIDE DEF compiled
        <5> QED BY <1>1, <1>10, <4>1, <4>2
      <4>5. x = Did(SelectExecutionTier(start, Entry), Entry)
        BY <3>1, <4>3 DEF x
      <4> QED BY <2>1, <3>1, <3>3, <4>4, <4>5 DEF Begun, First
    <3> QED BY <3>2, <3>3
  <2>3. CASE execution.done # 0
    <3>1. work # <<>> /\ work[1] = First(start)
      BY <1>2, <2>3 DEF Begun
    <3>2. 1 \in DOMAIN work
      <4>1. Len(work) \in Nat \ {0} /\ DOMAIN work = 1 .. Len(work)
        BY <1>1, <3>1, LenProperties, EmptySeq
      <4> HIDE DEF work
      <4> QED BY <4>1
    <3>3. 1 \in DOMAIN compiled /\ compiled[1] = work[1]
      <4>1. CASE Compiles(vm, f)
        <5>1. compiled = Append(work, Did("compile", f))
          BY <4>1
        <5>2. /\ Len(work) \in Nat /\ DOMAIN work = 1 .. Len(work)
              /\ DOMAIN Append(work, Did("compile", f)) = 1 .. Len(work) + 1
              /\ \A k \in DOMAIN work : Append(work, Did("compile", f))[k] = work[k]
          <6> HIDE DEF work, f
          <6> QED BY <1>1, <1>6, Extended
        <5>3. 1 \in DOMAIN Append(work, Did("compile", f))
          <6> HIDE DEF work, f
          <6> QED BY <3>2, <5>2
        <5> HIDE DEF work, f, vm, compiled
        <5> QED BY <3>2, <5>1, <5>2, <5>3
      <4>2. CASE ~Compiles(vm, f)
        BY <3>2, <4>2
      <4> QED BY <4>1, <4>2
    <3>4. Append(compiled, x)[1] = First(start)
      <4> HIDE DEF compiled, work
      <4> QED BY <1>10, <3>1, <3>3
    <3> HIDE DEF compiled
    <3> QED BY <1>1, <1>10, <2>1, <3>4 DEF Begun
  <2> QED BY <2>2, <2>3
<1>14. execution' \in Executions
  <2>1. execution'.hotEvents \in Seq(Events)
    <3>1. execution.hotEvents \in Seq(Events)
      BY <1>2 DEF Executions
    <3>2. HotEvent(f, ProfileAfter(vm, f)[f]) \in Events
      <4>1. ProfileAfter(vm, f)[f] \in ProfilingCounters
        BY <1>1, <1>4 DEF Machines, Profiles
      <4> HIDE DEF vm
      <4> QED BY <1>1, <4>1 DEF HotEvent, Events, ProfilingCounters
    <3> HIDE DEF vm, f
    <3>3. ASSUME NEW s \in Seq(Events), NEW event \in Events PROVE Append(s, event) \in Seq(Events)
      BY AppendProperties
    <3>4. Append(execution.hotEvents, HotEvent(f, ProfileAfter(vm, f)[f])) \in Seq(Events)
      BY <3>1, <3>2, <3>3
    <3> QED BY <1>1, <3>1, <3>4 DEF HotEventsAfter
  <2>2. execution'.done \in Nat /\ execution'.calls \in Seq(Functions) /\ execution'.vm \in Machines
    BY <1>1, <1>2, <1>4 DEF Executions
  <2>3. execution'.work \in Seq(Items)
    BY <1>1, <1>10
  <2> QED BY <1>1, <2>1, <2>2, <2>3 DEF Executions
<1>15. execution'.done <= Len(execution'.calls)
  <2> HIDE DEF vm, f, compiled, work
  <2> QED BY <1>1
<1>16. execution'.calls # <<>> /\ execution'.calls[1] = Entry /\ start \in Machines
  BY <1>1, <1>2
<1> HIDE DEF vm, f, compiled, work
<1>17. SameOptions(start, execution'.vm) /\ Grown(start, execution'.vm)
  BY <1>1, <1>7
<1>18. CompiledOf(start, execution'.vm, execution'.work) /\ NativeOf(start, execution'.work)
       /\ CodeOf(start, execution'.vm, execution'.work)
  BY <1>1, <1>11, <1>12
<1> QED BY <1>13, <1>14, <1>15, <1>16, <1>17, <1>18 DEF Executed

\* One more invocation of a function that was invoked c times.
LEMMA CountedOnce ==
  ASSUME NEW p \in ProfilingCounters, NEW T \in 0 .. MaxCount, NEW c \in Nat,
         p.isHot <=> T # 0 /\ c >= T,
         T # 0 /\ ~p.isHot => p.invocationCount = c
  PROVE  /\ RecordInvocation(p, T).isHot <=> T # 0 /\ c + 1 >= T
         /\ T # 0 /\ ~RecordInvocation(p, T).isHot => RecordInvocation(p, T).invocationCount = c + 1
         /\ BecomesHot(p, T) => RecordInvocation(p, T).invocationCount = T
<1>1. BecomesHot(p, T) => T # 0 /\ ~p.isHot /\ Saturated(p.invocationCount) = T /\ c + 1 = T
  BY DEF BecomesHot, Saturated
<1>2. T # 0 /\ ~p.isHot => Saturated(p.invocationCount) = c + 1 /\ c + 1 <= T
  BY DEF Saturated
<1>3. T # 0 /\ ~p.isHot /\ ~BecomesHot(p, T) => c + 1 < T
  BY <1>2 DEF BecomesHot
<1>4. /\ RecordInvocation(p, T).isHot <=> p.isHot \/ BecomesHot(p, T)
      /\ RecordInvocation(p, T).invocationCount = Saturated(p.invocationCount)
  BY DEF RecordInvocation
<1> QED BY <1>1, <1>2, <1>3, <1>4

\* The invocations of each function after one more.
LEMMA CallsAfter ==
  ASSUME NEW e \in Executions, e.done < Len(e.calls), NEW after,
         after.calls = e.calls, after.done = e.done + 1, NEW f
  PROVE  /\ Cardinality(CallsOf(e, f)) \in Nat
         /\ Cardinality(CallsOf(after, f)) =
              Cardinality(CallsOf(e, f)) + IF f = e.calls[e.done + 1] THEN 1 ELSE 0
<1>1. e.done \in Nat
  BY DEF Executions
<1>2. IsFiniteSet(CallsOf(e, f))
  <2>1. IsFiniteSet(1 .. e.done)
    BY <1>1, FS_Interval
  <2>2. CallsOf(e, f) \in SUBSET (1 .. e.done)
    BY DEF CallsOf
  <2> QED BY <2>1, <2>2, FS_Subset
<1>3. e.done + 1 \notin CallsOf(e, f)
  BY <1>1 DEF CallsOf
<1>4. CallsOf(after, f) =
        CallsOf(e, f) \cup IF f = e.calls[e.done + 1] THEN {e.done + 1} ELSE {}
  <2>1. 1 .. e.done + 1 = (1 .. e.done) \cup {e.done + 1}
    BY <1>1
  <2> QED BY <2>1 DEF CallsOf
<1>5. Cardinality(CallsOf(e, f)) \in Nat
  BY <1>2, FS_CardinalityType
<1>6. Cardinality(CallsOf(e, f) \cup {e.done + 1}) = Cardinality(CallsOf(e, f)) + 1
  BY <1>2, <1>3, FS_AddElement
<1>7. CASE f = e.calls[e.done + 1]
  <2>1. CallsOf(after, f) = CallsOf(e, f) \cup {e.done + 1}
    BY <1>4, <1>7
  <2> QED BY <1>5, <1>6, <1>7, <2>1
<1>8. CASE f # e.calls[e.done + 1]
  <2>1. CallsOf(after, f) = CallsOf(e, f)
    BY <1>4, <1>8
  <2> QED BY <1>5, <1>8, <2>1
<1> QED BY <1>7, <1>8

\* The trace of run stays that of its invocations.
LEMMA InvokedInRun ==
  ASSUME Traced(execution), Executing, parsed' = parsed,
         NEW code \in NewCode(execution.vm, Callee),
         NEW tier \in Tiers(Dispatched(execution.vm, Callee, code), Callee), Invokes(code, tier)
  PROVE  Traced(execution)'
<1> DEFINE vm == execution.vm
           f == Callee
           T == vm.hotThreshold
           after == Dispatched(vm, f, code)
<1>1. Executed(RunMachine, execution) /\ vm.profilingEnabled /\ T = parsed.options.hotThreshold
  BY DEF Traced
<1>2. Executed(RunMachine, execution)'
  <2>1. RunMachine' = RunMachine
    BY DEF RunMachine
  <2>2. Executed(RunMachine, execution')
    BY <1>1, InvokedOn
  <2> QED BY <2>1, <2>2
<1>3. /\ f \in Functions /\ vm \in Machines /\ execution'.vm = after
      /\ execution'.done = execution.done + 1 /\ execution'.calls = execution.calls
      /\ execution.hotEvents \in Seq(Events)
      /\ execution'.hotEvents = HotEventsAfter(vm, f)
  BY <1>1, InvocationFacts
<1>4. code \in BOOLEAN
  BY <1>1, <1>3, CompilationFacts
<1>5. /\ after.hotThreshold = T /\ after.profilingEnabled = vm.profilingEnabled
      /\ after.profile[f] = RecordInvocation(vm.profile[f], T)
      /\ after.profile = ProfileAfter(vm, f)
      /\ \A g \in Functions \ {f} : after.profile[g] = vm.profile[g]
  <2> HIDE DEF vm, f
  <2>1. vm.profilingEnabled = TRUE
    BY <1>1, <1>3 DEF Machines
  <2> QED BY <1>3, <1>4, <2>1, DispatchedMachine DEF SameOptions
<1>6. /\ vm.profile \in Profiles /\ T \in 0 .. MaxCount
  BY <1>3 DEF Machines
<1>7. \A g \in Functions :
        /\ Cardinality(CallsOf(execution, g)) \in Nat
        /\ Cardinality(CallsOf(execution', g)) =
             Cardinality(CallsOf(execution, g)) + IF g = f THEN 1 ELSE 0
  <2>1. execution \in Executions /\ execution.done < Len(execution.calls)
    BY <1>1 DEF Executed, Executing
  <2> QED BY <1>3, <2>1, CallsAfter DEF Callee
<1> HIDE DEF after
<1>8. Counted(execution')
  <2> SUFFICES ASSUME NEW g \in Functions
               PROVE  /\ after.profile[g].isHot <=> T # 0 /\ Cardinality(CallsOf(execution', g)) >= T
                      /\ T # 0 /\ ~after.profile[g].isHot =>
                           after.profile[g].invocationCount = Cardinality(CallsOf(execution', g))
    BY <1>3, <1>5 DEF Counted
  <2>1. /\ vm.profile[g].isHot <=> T # 0 /\ Cardinality(CallsOf(execution, g)) >= T
        /\ T # 0 /\ ~vm.profile[g].isHot =>
             vm.profile[g].invocationCount = Cardinality(CallsOf(execution, g))
    BY DEF Traced, Counted
  <2>2. CASE g # f
    <3>1. Cardinality(CallsOf(execution', g)) = Cardinality(CallsOf(execution, g))
      BY <1>7, <2>2
    <3>2. after.profile[g] = vm.profile[g]
      BY <1>5, <2>2
    <3> QED BY <2>1, <3>1, <3>2
  <2>3. CASE g = f
    <3> DEFINE c == Cardinality(CallsOf(execution, g))
    <3>1. Cardinality(CallsOf(execution', g)) = c + 1 /\ c \in Nat
      BY <1>7, <2>3
    <3>2. vm.profile[g] \in ProfilingCounters
      BY <1>6 DEF Profiles
    <3>3. after.profile[g] = RecordInvocation(vm.profile[g], T)
      BY <1>5, <2>3
    <3> HIDE DEF c, T, vm
    <3>4. /\ RecordInvocation(vm.profile[g], T).isHot <=> T # 0 /\ c + 1 >= T
          /\ T # 0 /\ ~RecordInvocation(vm.profile[g], T).isHot =>
               RecordInvocation(vm.profile[g], T).invocationCount = c + 1
      BY <1>6, <2>1, <3>1, <3>2, CountedOnce DEF c
    <3> QED BY <3>1, <3>3, <3>4
  <2> QED BY <2>2, <2>3
<1>9. Reported(execution')
  <2>1. /\ \A k \in DOMAIN execution.hotEvents :
             /\ execution.hotEvents[k].invocationCount = T
             /\ vm.profile[execution.hotEvents[k].functionId].isHot
             /\ execution.hotEvents[k].functionId \in Functions
             /\ \A j \in DOMAIN execution.hotEvents :
                  execution.hotEvents[j].functionId = execution.hotEvents[k].functionId => j = k
        /\ \A g \in Functions : vm.profile[g].isHot =>
             \E k \in DOMAIN execution.hotEvents : execution.hotEvents[k].functionId = g
    <3>1. \A k \in DOMAIN execution.hotEvents : execution.hotEvents[k] \in Events
      BY <1>3, ElementOfSeq, LenProperties
    <3> QED BY <3>1 DEF Traced, Reported, Events
  <2>2. \A g \in Functions : vm.profile[g].isHot => after.profile[g].isHot
    <3>1. RecordInvocation(vm.profile[f], T).isHot <=> vm.profile[f].isHot \/ BecomesHot(vm.profile[f], T)
      BY DEF RecordInvocation
    <3> QED BY <1>5, <3>1
  <2>3. CASE ~Hot(vm, f)
    <3>1. execution'.hotEvents = execution.hotEvents
      BY <1>3, <2>3 DEF HotEventsAfter
    <3>2. \A g \in Functions : after.profile[g].isHot => vm.profile[g].isHot
      <4>1. RecordInvocation(vm.profile[f], T).isHot => vm.profile[f].isHot
        BY <1>1, <2>3 DEF RecordInvocation, Hot
      <4> QED BY <1>5, <4>1
    <3> HIDE DEF vm, f
    <3> QED BY <1>3, <1>5, <2>1, <2>2, <3>1, <3>2 DEF Reported
  <2>4. CASE Hot(vm, f)
    <3> DEFINE events == execution.hotEvents
               event == HotEvent(f, ProfileAfter(vm, f)[f])
               n == Len(events) + 1
    <3>1. ~vm.profile[f].isHot /\ BecomesHot(vm.profile[f], T)
      BY <2>4 DEF Hot, BecomesHot
    <3>2. /\ event.functionId = f /\ event.invocationCount = T
          /\ after.profile[f].isHot /\ event \in Events
      <4>1. after.profile[f].isHot
        <5>1. RecordInvocation(vm.profile[f], T).isHot
          BY <3>1 DEF RecordInvocation
        <5> QED BY <1>5, <5>1
      <4>2. after.profile[f].invocationCount = T
        <5> DEFINE c == Cardinality(CallsOf(execution, f))
        <5>1. /\ vm.profile[f].isHot <=> T # 0 /\ c >= T
              /\ T # 0 /\ ~vm.profile[f].isHot => vm.profile[f].invocationCount = c
          BY <1>3 DEF Traced, Counted
        <5>2. vm.profile[f] \in ProfilingCounters /\ c \in Nat
          BY <1>3, <1>6, <1>7 DEF Profiles
        <5> HIDE DEF c, T, vm, f
        <5>3. RecordInvocation(vm.profile[f], T).invocationCount = T
          BY <1>6, <3>1, <5>1, <5>2, CountedOnce
        <5> QED BY <1>5, <5>3
      <4> HIDE DEF vm, f, T
      <4> QED BY <1>3, <1>5, <1>6, <4>1, <4>2 DEF HotEvent, Events
    <3>3. execution'.hotEvents = Append(events, event)
      BY <1>3, <2>4 DEF HotEventsAfter
    <3>4. /\ Len(events) \in Nat /\ DOMAIN events = 1 .. Len(events)
          /\ DOMAIN Append(events, event) = 1 .. n
          /\ \A k \in DOMAIN events : Append(events, event)[k] = events[k]
          /\ Append(events, event)[n] = event
      <4> HIDE DEF event, events
      <4> QED BY <1>3, <3>2, Extended DEF events
    <3>5. /\ DOMAIN execution'.hotEvents = DOMAIN events \cup {n} /\ n \notin DOMAIN events
          /\ \A k \in DOMAIN events : execution'.hotEvents[k] = events[k]
          /\ execution'.hotEvents[n] = event
      <4> HIDE DEF event, events
      <4> QED BY <3>3, <3>4
    <3>6. \A k \in DOMAIN events : events[k].functionId # f
      BY <2>1, <3>1
    <3>7. \A g \in Functions : after.profile[g].isHot => vm.profile[g].isHot \/ g = f
      BY <1>5
    <3> HIDE DEF vm, f, T, n, event, events
    <3>8. /\ \A k \in DOMAIN events :
               /\ events[k].invocationCount = T
               /\ after.profile[events[k].functionId].isHot
               /\ \A j \in DOMAIN events : events[j].functionId = events[k].functionId => j = k
          /\ \A g \in Functions : vm.profile[g].isHot =>
               \E k \in DOMAIN events : events[k].functionId = g
      BY <2>1, <2>2 DEF events
    <3>9. /\ \A k \in DOMAIN execution'.hotEvents :
               /\ execution'.hotEvents[k].invocationCount = T
               /\ after.profile[execution'.hotEvents[k].functionId].isHot
               /\ \A j \in DOMAIN execution'.hotEvents :
                    execution'.hotEvents[j].functionId = execution'.hotEvents[k].functionId => j = k
      BY <3>2, <3>5, <3>6, <3>8
    <3>10. \A g \in Functions : after.profile[g].isHot =>
             \E k \in DOMAIN execution'.hotEvents : execution'.hotEvents[k].functionId = g
      BY <3>2, <3>5, <3>7, <3>8
    <3> QED BY <1>3, <1>5, <3>9, <3>10 DEF Reported, T
  <2> QED BY <2>3, <2>4
<1>10. execution'.vm.profilingEnabled /\ execution'.vm.hotThreshold = parsed'.options.hotThreshold
  BY <1>1, <1>3, <1>5
<1> HIDE DEF vm, f, T
<1> QED BY <1>2, <1>8, <1>9, <1>10 DEF Traced

\* The two kinds of machine that main creates.
LEMMA NewMachines ==
  /\ NoMachine \in Machines /\ Plain(NoMachine)
  /\ JitMachine \in Machines /\ JitMachine.native = {} /\ Compiles(JitMachine, Entry)
  /\ JitMachine.jitEnabled /\ JitMachine.profilingEnabled
<1>1. [f \in Functions |-> NeverInvoked] \in Profiles
  BY DEF NeverInvoked, ProfilingCounters, Profiles
<1>2. 0 \in 0 .. MaxCount /\ 1 \in 0 .. MaxCount
  OBVIOUS
<1>3. NoMachine \in Machines /\ Plain(NoMachine)
  BY <1>1, <1>2 DEF NoMachine, VirtualMachine, Machines, Plain
<1>4. /\ JitMachine \in Machines /\ JitMachine.native = {}
      /\ JitMachine.jitEnabled = TRUE /\ JitMachine.profilingEnabled = TRUE /\ JitMachine.hotThreshold = 1
      /\ JitMachine.profile[Entry] = NeverInvoked
  BY <1>1, <1>2, EntryAssumption DEF JitMachine, VirtualMachine, Machines
<1>5. BecomesHot(NeverInvoked, 1)
  BY DEF BecomesHot, NeverInvoked, Saturated
<1> QED BY <1>3, <1>4, <1>5 DEF Compiles, Hot

LEMMA RunMachineIsOne ==
  ASSUME parsed.options.hotThreshold \in 0 .. MaxCount, parsed.options.jitEnabled \in BOOLEAN
  PROVE  /\ RunMachine \in Machines /\ RunMachine.profilingEnabled
         /\ RunMachine.hotThreshold = parsed.options.hotThreshold
         /\ \A f \in Functions : RunMachine.profile[f] = NeverInvoked
<1>1. [f \in Functions |-> NeverInvoked] \in Profiles
  BY DEF NeverInvoked, ProfilingCounters, Profiles
<1> QED BY <1>1 DEF RunMachine, VirtualMachine, Machines

\* An execution begins where the machine is.
LEMMA ExecutionBegins ==
  ASSUME NEW start \in Machines, program \in Contents, Execute(start, <<>>)
  PROVE  /\ Executed(start, execution') /\ execution'.done = 0
         /\ execution'.vm = start /\ execution'.hotEvents = <<>> /\ pc' = "execute"
<1>1. PICK calls \in program.calls :
        execution' = [vm |-> start, calls |-> <<Entry>> \o calls, done |-> 0,
                      hotEvents |-> <<>>, work |-> <<>>]
  BY DEF Execute
<1>2. calls \in Seq(Functions)
  BY DEF Contents
<1>3. /\ <<Entry>> \o calls \in Seq(Functions) /\ Len(<<Entry>> \o calls) = 1 + Len(calls)
      /\ (<<Entry>> \o calls)[1] = Entry /\ Len(calls) \in Nat
  <2>1. <<Entry>> \in Seq(Functions) /\ Len(<<Entry>>) = 1 /\ <<Entry>>[1] = Entry
    BY EntryAssumption
  <2>2. Len(calls) \in Nat
    BY <1>2, LenProperties
  <2> QED BY <1>2, <2>1, <2>2, ConcatProperties
<1>4. <<Entry>> \o calls # <<>> /\ 0 <= Len(<<Entry>> \o calls)
  BY <1>3, EmptySeq
<1>5. /\ execution'.vm = start /\ execution'.calls = <<Entry>> \o calls /\ execution'.done = 0
      /\ execution'.hotEvents = <<>> /\ execution'.work = <<>>
  BY <1>1
<1>6. execution' \in Executions
  <2>1. <<>> \in Seq(Events) /\ <<>> \in Seq(Items)
    OBVIOUS
  <2> HIDE DEF Machines, Events, Items
  <2> QED BY <1>1, <1>3, <2>1 DEF Executions
<1>7. SameOptions(start, start) /\ Grown(start, start)
  BY DEF SameOptions, Grown
<1>8. CompiledOf(start, start, <<>>) /\ NativeOf(start, <<>>) /\ CodeOf(start, start, <<>>)
  BY DEF CompiledOf, NativeOf, CodeOf
<1>9. Begun(start, execution')
  BY <1>5 DEF Begun
<1> QED BY <1>3, <1>4, <1>5, <1>6, <1>7, <1>8, <1>9 DEF Executed, Execute

\* Nothing is counted or reported before the first invocation of run.
LEMMA RunIsTraced ==
  ASSUME parsed.options.hotThreshold \in 0 .. MaxCount, parsed.options.jitEnabled \in BOOLEAN,
         parsed' = parsed, program \in Contents, Execute(RunMachine, <<>>)
  PROVE  Traced(execution)'
<1>1. /\ RunMachine \in Machines /\ RunMachine.profilingEnabled
      /\ RunMachine.hotThreshold = parsed.options.hotThreshold
      /\ \A f \in Functions : RunMachine.profile[f] = NeverInvoked
  BY RunMachineIsOne
<1>2. /\ Executed(RunMachine, execution') /\ execution'.done = 0
      /\ execution'.vm = RunMachine /\ execution'.hotEvents = <<>>
  BY <1>1, ExecutionBegins
<1>3. RunMachine' = RunMachine
  BY DEF RunMachine
<1>4. \A f \in Functions : Cardinality(CallsOf(execution', f)) = 0
  <2>1. \A f \in Functions : CallsOf(execution', f) = {}
    BY <1>2 DEF CallsOf
  <2> QED BY <2>1, FS_EmptySet
<1>5. Counted(execution')
  <2>1. RunMachine.hotThreshold \in 0 .. MaxCount
    BY <1>1
  <2> HIDE DEF RunMachine
  <2> QED BY <1>1, <1>2, <1>4, <2>1 DEF Counted, NeverInvoked
<1>6. Reported(execution')
  BY <1>1, <1>2 DEF Reported, NeverInvoked
<1> QED BY <1>1, <1>2, <1>3, <1>5, <1>6 DEF Traced

LEMMA WorkFacts ==
  ASSUME NEW start, NEW e, Executed(start, e)
  PROVE  /\ e.vm \in Machines /\ e.work \in Seq(Items)
         /\ \A k \in DOMAIN e.work :
              e.work[k].what \in {"compile", "native", "vm"} /\ e.work[k].function \in Functions
<1>1. e.vm \in Machines /\ e.work \in Seq(Items)
  BY DEF Executed, Executions
<1>2. \A k \in DOMAIN e.work : e.work[k] \in Items
  BY <1>1, ElementOfSeq, LenProperties
<1> QED BY <1>1, <1>2 DEF Items

LEMMA PlainExecution ==
  ASSUME NEW start, NEW e, Executed(start, e), Plain(start)
  PROVE  Plain(e.vm) /\ InterpretedOnly(e.work)
<1>1. /\ e.vm \in Machines
      /\ \A k \in DOMAIN e.work : e.work[k].what \in {"compile", "native", "vm"}
  BY WorkFacts
<1>2. \A k \in DOMAIN e.work : e.work[k].what # "compile"
  BY DEF Executed, CompiledOf, Plain
<1>3. \A j \in DOMAIN e.work : \A f : e.work[j] # Did("compile", f)
  BY <1>2 DEF Did
<1>4. \A k \in DOMAIN e.work : e.work[k].what # "native"
  <2> SUFFICES ASSUME NEW k \in DOMAIN e.work, e.work[k].what = "native" PROVE FALSE
    OBVIOUS
  <2>1. \/ e.work[k].function \in start.native
        \/ \E j \in 1 .. k - 1 : e.work[j] = Did("compile", e.work[k].function)
    BY DEF Executed, NativeOf
  <2>2. 1 .. k - 1 \subseteq DOMAIN e.work
    <3>1. DOMAIN e.work = 1 .. Len(e.work) /\ Len(e.work) \in Nat
      BY WorkFacts, LenProperties
    <3> QED BY <3>1
  <2> QED BY <1>3, <2>1, <2>2 DEF Plain
<1>5. e.vm.native = {} /\ ~e.vm.profilingEnabled
  BY <1>3 DEF Executed, CodeOf, SameOptions, Plain
<1> QED BY <1>1, <1>2, <1>4, <1>5 DEF Plain, InterpretedOnly

LEMMA ColdExecution ==
  ASSUME NEW e, Executed(JitMachine, e), e.done > 0
  PROVE  /\ FromCold(e.work) /\ CompiledOnce(<<e.work>>)
         /\ Entry \in e.vm.native => Warmed(e.vm)
<1>1. JitMachine.native = {} /\ Compiles(JitMachine, Entry)
      /\ JitMachine.jitEnabled /\ JitMachine.profilingEnabled
  BY NewMachines
<1>2. e.work # <<>> /\ e.work[1] = Did("compile", Entry)
  BY <1>1 DEF Executed, Begun, First, Executions
<1>3. /\ CompiledOf(JitMachine, e.vm, e.work) /\ NativeOf(JitMachine, e.work)
      /\ SameOptions(JitMachine, e.vm) /\ e.vm \in Machines
  BY DEF Executed, Executions
<1>4. FromCold(e.work)
  BY <1>1, <1>2, <1>3 DEF FromCold, NativeOf
<1>5. CompiledOnce(<<e.work>>)
  <2>1. DOMAIN <<e.work>> = {1} /\ <<e.work>>[1] = e.work
    OBVIOUS
  <2>2. \A m, n \in DOMAIN e.work : e.work[m].what = "compile" /\ e.work[m] = e.work[n] => m = n
    BY <1>3 DEF CompiledOf
  <2> QED BY <2>1, <2>2 DEF CompiledOnce
<1>6. e.vm.profile[Entry].isHot
  <2>1. 1 \in DOMAIN e.work
    <3>1. e.work \in Seq(Items)
      BY WorkFacts
    <3>2. Len(e.work) \in Nat \ {0} /\ DOMAIN e.work = 1 .. Len(e.work)
      BY <1>2, <3>1, LenProperties, EmptySeq
    <3> QED BY <3>2
  <2>2. e.work[1].what = "compile" /\ e.work[1].function = Entry
    BY <1>2 DEF Did
  <2> QED BY <1>3, <2>1, <2>2 DEF CompiledOf
<1>7. e.vm.jitEnabled /\ e.vm.profilingEnabled
  BY <1>1, <1>3 DEF SameOptions
<1> QED BY <1>3, <1>4, <1>5, <1>6, <1>7 DEF Warmed

LEMMA WarmExecution ==
  ASSUME NEW start, NEW e, Executed(start, e), Warmed(start)
  PROVE  Warmed(e.vm) /\ (e.done > 0 => FromWarm(e.work))
<1>1. /\ start \in Machines /\ start.jitEnabled /\ start.profilingEnabled
      /\ Entry \in start.native /\ start.profile[Entry].isHot
  BY DEF Warmed
<1>2. /\ e.vm \in Machines /\ SameOptions(start, e.vm) /\ Grown(start, e.vm)
      /\ CompiledOf(start, e.vm, e.work) /\ Begun(start, e)
  BY DEF Executed, Executions
<1>3. Warmed(e.vm)
  BY <1>1, <1>2, EntryAssumption DEF Warmed, SameOptions, Grown
<1>4. First(start) = Did("native", Entry)
  BY <1>1 DEF First, Compiles, Hot, BecomesHot, SelectExecutionTier
<1>5. \A k \in DOMAIN e.work : e.work[k] # Did("compile", Entry)
  BY <1>1, <1>2 DEF CompiledOf, Did
<1> QED BY <1>2, <1>3, <1>4, <1>5 DEF Begun, FromWarm

LEMMA RoundsCompileOnce ==
  ASSUME NEW start, NEW e, Executed(start, e), NEW rounds \in Seq(Seq(Items)),
         CompiledOnce(rounds), HotSince(rounds, start)
  PROVE  CompiledOnce(Append(rounds, e.work)) /\ HotSince(Append(rounds, e.work), e.vm)
<1> DEFINE after == Append(rounds, e.work)
           n == Len(rounds) + 1
<1>1. /\ CompiledOf(start, e.vm, e.work) /\ Grown(start, e.vm) /\ e.work \in Seq(Items)
      /\ \A k \in DOMAIN e.work : e.work[k].function \in Functions
  BY WorkFacts DEF Executed
<1>2. /\ DOMAIN after = DOMAIN rounds \cup {n} /\ n \notin DOMAIN rounds
      /\ \A k \in DOMAIN rounds : after[k] = rounds[k]
      /\ after[n] = e.work
  <2>1. /\ Len(rounds) \in Nat /\ DOMAIN rounds = 1 .. Len(rounds)
        /\ DOMAIN after = 1 .. Len(rounds) + 1
        /\ \A k \in DOMAIN rounds : after[k] = rounds[k]
        /\ after[Len(rounds) + 1] = e.work
    BY <1>1, Extended
  <2> HIDE DEF after
  <2> QED BY <2>1
<1>3. \A j \in DOMAIN rounds : \A k \in DOMAIN rounds[j] : rounds[j][k].function \in Functions
  <2>1. \A j \in DOMAIN rounds : rounds[j] \in Seq(Items)
    BY ElementOfSeq, LenProperties
  <2>2. \A j \in DOMAIN rounds : \A k \in DOMAIN rounds[j] : rounds[j][k] \in Items
    BY <2>1, ElementOfSeq, LenProperties
  <2> QED BY <2>2 DEF Items
<1> HIDE DEF after, n
<1>4. \A j \in DOMAIN rounds : \A k \in DOMAIN rounds[j], m \in DOMAIN e.work :
        rounds[j][k].what = "compile" => rounds[j][k] # e.work[m]
  <2> SUFFICES ASSUME NEW j \in DOMAIN rounds, NEW k \in DOMAIN rounds[j], NEW m \in DOMAIN e.work,
                      rounds[j][k].what = "compile", rounds[j][k] = e.work[m]
               PROVE  FALSE
    OBVIOUS
  <2>1. start.profile[rounds[j][k].function].isHot
    BY DEF HotSince
  <2>2. ~start.profile[e.work[m].function].isHot
    BY <1>1 DEF CompiledOf
  <2> QED BY <2>1, <2>2
<1>5. CompiledOnce(after)
  <2> SUFFICES ASSUME NEW j \in DOMAIN after, NEW k \in DOMAIN after,
                      NEW m \in DOMAIN after[j], NEW l \in DOMAIN after[k],
                      after[j][m].what = "compile", after[j][m] = after[k][l]
               PROVE  j = k /\ m = l
    BY DEF CompiledOnce
  <2>1. CASE j = n /\ k = n
    BY <1>1, <1>2, <2>1 DEF CompiledOf
  <2>2. CASE j = n /\ k \in DOMAIN rounds
    BY <1>2, <1>4, <2>2
  <2>3. CASE j \in DOMAIN rounds /\ k = n
    BY <1>2, <1>4, <2>3
  <2>4. CASE j \in DOMAIN rounds /\ k \in DOMAIN rounds
    BY <1>2, <2>4 DEF CompiledOnce
  <2> QED BY <1>2, <2>1, <2>2, <2>3, <2>4
<1>6. HotSince(after, e.vm)
  <2> SUFFICES ASSUME NEW j \in DOMAIN after, NEW k \in DOMAIN after[j], after[j][k].what = "compile"
               PROVE  e.vm.profile[after[j][k].function].isHot
    BY DEF HotSince
  <2>1. CASE j = n
    BY <1>1, <1>2, <2>1 DEF CompiledOf
  <2>2. CASE j \in DOMAIN rounds
    <3>1. start.profile[rounds[j][k].function].isHot
      BY <1>2, <2>2 DEF HotSince
    <3> QED BY <1>1, <1>2, <1>3, <2>2, <3>1 DEF Grown
  <2> QED BY <1>2, <2>1, <2>2
<1> QED BY <1>5, <1>6 DEF after

-----------------------------------------------------------------------------
(* The streams, and how every run ends.                                    *)

LEMMA EmptyBefore ==
  ASSUME NEW S, NEW s \in Seq(S)
  PROVE  <<>> \o s = s /\ s \o <<>> = s
BY ConcatEmptySeq

LEMMA OneMore ==
  ASSUME NEW x, NEW s \in Seq({x})
  PROVE  s \o <<x>> \in Seq({x}) /\ s \o <<x>> # <<>>
<1>1. s \o <<x>> = Append(s, x)
  BY AppendIsConcat
<1>2. Append(s, x) \in Seq({x}) /\ Append(s, x) # <<>>
  BY AppendProperties
<1> QED BY <1>1, <1>2

\* An end of a run that has written nothing before it.
LEMMA EndWith ==
  ASSUME NEW S, NEW T, NEW code, NEW out \in Seq(S), NEW err \in Seq(T),
         stdout = <<>>, stderr = <<>>, Exit(code, out, err)
  PROVE  /\ pc' = "done" /\ exitCode' = code /\ stderr' = err
         /\ stdout' = IF silenced THEN <<>> ELSE out
<1>1. stdout' = stdout \o (IF silenced THEN <<>> ELSE out) /\ stderr' = stderr \o err
  BY DEF Exit, Shown
<1>2. <<>> \o out = out /\ <<>> \o err = err
  BY EmptyBefore
<1>3. <<>> \o <<>> = <<>>
  BY EmptyBefore, EmptySeq
<1> QED BY <1>1, <1>2, <1>3 DEF Exit

LEMMA FailureEnds ==
  ASSUME NEW message, stdout = <<>>, stderr = <<>>, NEW code, Exit(code, <<>>, <<message>>)
  PROVE  pc' = "done" /\ exitCode' = code /\ stdout' = <<>> /\ stderr' = <<message>>
<1>1. <<message>> \in Seq({message}) /\ <<>> \in Seq({message})
  BY EmptySeq
<1> QED BY <1>1, EndWith

\* The trace of a run that has invoked nothing, or was not asked for one.
LEMMA NoTrace ==
  ASSUME NEW text, text # "hot", stderr' \in Seq({Message(text)}), ~TraceAsked' \/ execution'.done = 0
  PROVE  TraceExact'
<1>1. \A k \in DOMAIN stderr' : stderr'[k].text # "hot"
  <2>1. \A k \in DOMAIN stderr' : stderr'[k] \in {Message(text)}
    BY ElementOfSeq, LenProperties
  <2>2. Message(text).text # "hot"
    BY DEF Message
  <2> QED BY <2>1, <2>2
<1>2. TraceAsked' => HotFunctions' = {}
  <2>1. execution'.done = 0 => 1 .. execution'.done = {}
    OBVIOUS
  <2> QED BY <2>1 DEF HotFunctions, Invoked
<1> QED BY <1>1, <1>2 DEF TraceExact

\* What a failure has to say; the other commands write only when they succeed.
LEMMA FailureExplained ==
  ASSUME pc' = "done", ~silenced', exitCode' # 0, TraceExact',
         \E k \in DOMAIN stderr' : stderr'[k].text # "hot",
         \/ stdout' = <<>>
         \/ Command' = "run"
         \/ Command' = "dump-ir" /\ stderr' = <<Message("optimization")>>
  PROVE  EveryEndIsExplained'
BY DEF EveryEndIsExplained

LEMMA SuccessExplained ==
  ASSUME pc' = "done", ~silenced', exitCode' = 0,
         TraceExact',
         \/ AsksForHelp' /\ stdout' = <<"help">>
         \/ /\ ~AsksForHelp'
            /\ \/ Command' = "--version" /\ stdout' = <<"version">>
               \/ Command' = "run" /\ stdout' = <<"program">>
               \/ Command' = "benchmark" /\ stdout' = <<"table">>
               \/ Command' = "dump-ir" /\ stdout' = [k \in DOMAIN program'.functions |-> "dump"]
               \/ Command' \in DumpCommands \ {"dump-ir"} /\ stdout' = <<"dump">>
  PROVE  EveryEndIsExplained'
<1>1. CASE AsksForHelp' /\ stdout' = <<"help">>
  BY <1>1 DEF EveryEndIsExplained
<1>2. CASE ~AsksForHelp'
  <2>1. CASE Command' = "--version" /\ stdout' = <<"version">>
    BY <1>2, <2>1 DEF EveryEndIsExplained
  <2>2. CASE Command' = "run" /\ stdout' = <<"program">>
    BY <1>2, <2>2 DEF EveryEndIsExplained
  <2>3. CASE Command' = "benchmark" /\ stdout' = <<"table">>
    BY <1>2, <2>3 DEF EveryEndIsExplained
  <2>4. CASE Command' = "dump-ir" /\ stdout' = [k \in DOMAIN program'.functions |-> "dump"]
    BY <1>2, <2>4 DEF EveryEndIsExplained
  <2>5. CASE Command' \in DumpCommands \ {"dump-ir"} /\ stdout' = <<"dump">>
    <3>1. /\ Command' # "--version" /\ Command' # "run" /\ Command' # "benchmark" /\ Command' # "dump-ir"
      BY <2>5 DEF DumpCommands
    <3> QED BY <1>2, <2>5, <3>1 DEF EveryEndIsExplained
  <2> QED BY <1>2, <2>1, <2>2, <2>3, <2>4, <2>5
<1> QED BY <1>1, <1>2

\* What holds before the file's program is executed.
LEMMA BeforeRunning ==
  ASSUME ReadingInv, StreamsInv, pc \in {"command", "options", "read", "stages"}
  PROVE  stdout = <<>> /\ stderr = <<>> /\ silenced = FALSE /\ exitCode = Running
BY DEF StreamsInv

\* The options of a line that has a meaning.
LEMMA OptionsAsMeant ==
  ASSUME ReadingInv, StreamsInv, pc \in {"read", "stages", "execute", "warm", "measure", "report"},
         Command \in {"run", "benchmark"}, ~AsksForHelp
  PROVE  parsed.options = Meant /\ Iterations \in 1 .. MaxIterations
<1>1. exitCode # 2
  <2>1. exitCode = Running
    BY DEF StreamsInv
  <2> QED BY <2>1 DEF Running
<1>2. parsed.options = Meant
  BY <1>1 DEF ReadingInv, UsageExact
<1>3. parsed.options.iterations \in 1 .. MaxIterations
  BY DEF ReadingInv, Parsed, Options
<1> QED BY <1>2, <1>3 DEF Iterations

\* Nothing is executed before the program runs.
LEMMA NothingExecuted ==
  ASSUME BenchmarkInv, pc \in Early, execution' = execution
  PROVE  execution'.done = 0
BY DEF BenchmarkInv, NoExecution

\* One message, of something other than a hot function.
LEMMA OneMessage ==
  ASSUME NEW text, text # "hot", stderr' = <<Message(text)>>
  PROVE  stderr' \in Seq({Message(text)}) /\ \E k \in DOMAIN stderr' : stderr'[k].text # "hot"
<1>1. stderr' \in Seq({Message(text)}) /\ 1 \in DOMAIN stderr' /\ stderr'[1] = Message(text)
  OBVIOUS
<1> QED BY <1>1 DEF Message

LEMMA HelpEnds ==
  ASSUME ReadingInv, StreamsInv, BenchmarkInv, ShowHelp
  PROVE  StreamsInv' /\ EveryEndIsExplained'
<1>1. stdout = <<>> /\ stderr = <<>> /\ ~silenced /\ pc = "command" /\ AsksForHelp
  BY BeforeRunning DEF ShowHelp
<1>2. <<"help">> \in Seq({"help"}) /\ <<>> \in Seq({"help"})
  BY EmptySeq
<1>3. pc' = "done" /\ exitCode' = 0 /\ stderr' = <<>> /\ stdout' = <<"help">>
  BY <1>1, <1>2, EndWith DEF ShowHelp
<1>4. ~silenced' /\ arguments' = arguments
  BY <1>1 DEF ShowHelp, benchmark
<1>5. TraceExact'
  <2>1. stderr' \in Seq({Message("usage")})
    BY <1>3, EmptySeq
  <2>2. execution'.done = 0
    BY <1>1, NothingExecuted DEF ShowHelp, benchmark, Early
  <2> QED BY <2>1, <2>2, NoTrace
<1>6. EveryEndIsExplained'
  BY <1>1, <1>3, <1>4, <1>5, SameLine, SuccessExplained
<1> QED BY <1>1, <1>3, <1>4, <1>6 DEF StreamsInv, ShowHelp, benchmark

LEMMA VersionEnds ==
  ASSUME ReadingInv, StreamsInv, BenchmarkInv, ShowVersion
  PROVE  StreamsInv' /\ EveryEndIsExplained'
<1>1. /\ stdout = <<>> /\ stderr = <<>> /\ ~silenced /\ pc = "command"
      /\ Command = "--version" /\ Len(arguments) = 1
  BY BeforeRunning DEF ShowVersion
<1>2. ~AsksForHelp
  BY <1>1 DEF AsksForHelp, Command
<1>3. <<"version">> \in Seq({"version"}) /\ <<>> \in Seq({"version"})
  BY EmptySeq
<1>4. pc' = "done" /\ exitCode' = 0 /\ stderr' = <<>> /\ stdout' = <<"version">>
  BY <1>1, <1>3, EndWith DEF ShowVersion
<1>5. silenced' = silenced /\ arguments' = arguments
  BY DEF ShowVersion, benchmark
<1>6. TraceExact'
  <2>1. stderr' \in Seq({Message("usage")})
    BY <1>4, EmptySeq
  <2>2. execution'.done = 0
    BY <1>1, NothingExecuted DEF ShowVersion, benchmark, Early
  <2> QED BY <2>1, <2>2, NoTrace
<1>7. EveryEndIsExplained'
  BY <1>1, <1>2, <1>4, <1>5, <1>6, SameLine, SuccessExplained
<1> QED BY <1>1, <1>4, <1>5, <1>7 DEF StreamsInv

\* What ends before the program is executed, with a message.
LEMMA RefusalEnds ==
  ASSUME ReadingInv, StreamsInv, BenchmarkInv, pc \in Early,
         NEW code \in {1, 2}, NEW text, text # "hot", Exit(code, <<>>, <<Message(text)>>),
         UNCHANGED <<arguments, benchmark>>
  PROVE  StreamsInv' /\ EveryEndIsExplained'
<1>1. stdout = <<>> /\ stderr = <<>> /\ silenced = FALSE
  BY BeforeRunning DEF Early
<1>2. pc' = "done" /\ exitCode' = code /\ stdout' = <<>> /\ stderr' = <<Message(text)>>
  BY <1>1, FailureEnds
<1>3. silenced' = FALSE /\ execution' = execution
  BY <1>1 DEF benchmark
<1>4. /\ stderr' \in Seq({Message(text)})
      /\ \E k \in DOMAIN stderr' : stderr'[k].text # "hot"
  BY <1>2, OneMessage
<1>5. TraceExact'
  BY <1>3, <1>4, NothingExecuted, NoTrace
<1>6. EveryEndIsExplained'
  BY <1>2, <1>3, <1>4, <1>5, FailureExplained
<1> QED BY <1>2, <1>3, <1>6 DEF StreamsInv

\* What leads on without writing.
LEMMA SilentStep ==
  ASSUME ReadingInv, StreamsInv, pc \in {"command", "options", "read", "stages"},
         Silent, UNCHANGED <<arguments, silenced>>,
         \/ pc' \in {"command", "options"}
         \/ pc' \in {"read", "stages"} /\ Command \in Commands /\ ~AsksForHelp,
         pc' = "stages" => program' \in Contents
  PROVE  StreamsInv' /\ EveryEndIsExplained'
<1>1. stdout' = <<>> /\ stderr' = <<>> /\ silenced' = FALSE /\ exitCode' = Running
  BY BeforeRunning DEF Silent
<1>2. Command' = Command /\ AsksForHelp' = AsksForHelp
  BY SameLine
<1>3. pc' # "done" /\ pc' \notin {"execute", "warm", "measure", "report"}
  OBVIOUS
<1>4. StreamsInv'
  BY <1>1, <1>2, <1>3 DEF StreamsInv
<1> QED BY <1>3, <1>4 DEF EveryEndIsExplained

LEMMA DumpEnds ==
  ASSUME ReadingInv, StreamsInv, BenchmarkInv, Dump
  PROVE  StreamsInv' /\ EveryEndIsExplained'
<1>1. /\ stdout = <<>> /\ stderr = <<>> /\ silenced = FALSE /\ pc = "stages"
      /\ Command \in DumpCommands /\ ~AsksForHelp /\ program \in Contents
      /\ arguments' = arguments /\ program' = program /\ silenced' = FALSE
  BY BeforeRunning DEF Dump, StagesPassed, StreamsInv, files, benchmark
<1>2. Command' = Command /\ AsksForHelp' = AsksForHelp
  BY <1>1, SameLine
<1>3. execution'.done = 0
  BY <1>1, NothingExecuted DEF Dump, benchmark, Early
<1>4. CASE Command # "dump-ir"
  <2>1. <<"dump">> \in Seq({"dump"}) /\ <<>> \in Seq({"dump"})
    BY EmptySeq
  <2>2. Exit(0, <<"dump">>, <<>>)
    BY <1>4 DEF Dump
  <2>3. pc' = "done" /\ exitCode' = 0 /\ stderr' = <<>> /\ stdout' = <<"dump">>
    BY <1>1, <2>1, <2>2, EndWith
  <2>4. TraceExact'
    <3>1. stderr' \in Seq({Message("usage")})
      BY <2>3, EmptySeq
    <3> QED BY <1>3, <3>1, NoTrace
  <2>5. EveryEndIsExplained'
    BY <1>1, <1>2, <1>4, <2>3, <2>4, SuccessExplained
  <2> QED BY <1>1, <2>3, <2>5 DEF StreamsInv
<1>5. CASE Command = "dump-ir" /\ LoweringFails
  <2>1. Exit(1, <<>>, <<Message("lowering")>>)
    BY <1>5 DEF Dump, Failure
  <2>2. UNCHANGED <<arguments, benchmark>>
    BY DEF Dump
  <2> QED BY <1>1, <2>1, <2>2, RefusalEnds DEF Early
<1>6. CASE Command = "dump-ir" /\ ~LoweringFails
  <2> DEFINE n == Optimizable
             complete == n = Len(program.functions)
             out == [k \in 1 .. n |-> "dump"]
             err == IF complete THEN <<>> ELSE <<Message("optimization")>>
  <2>1. Exit(IF complete THEN 0 ELSE 1, out, err)
    BY <1>6 DEF Dump
  <2>2. CASE complete
    <3>1. Len(program.functions) \in Nat /\ DOMAIN program.functions = 1 .. Len(program.functions)
      BY <1>1, LenProperties DEF Contents
    <3>2. out \in Seq({"dump"}) /\ err = <<>> /\ <<>> \in Seq({"dump"})
      <4>1. n \in Nat
        BY <2>2, <3>1
      <4> HIDE DEF n
      <4> QED BY <2>2, <4>1, EmptySeq
    <3> HIDE DEF err
    <3>3. pc' = "done" /\ exitCode' = 0 /\ stderr' = <<>> /\ stdout' = out
      <4> HIDE DEF out
      <4>1. Exit(0, out, <<>>)
        BY <2>1, <2>2, <3>2
      <4> QED BY <1>1, <3>2, <4>1, EndWith
    <3>4. TraceExact'
      <4>1. stderr' \in Seq({Message("usage")})
        BY <3>3, EmptySeq
      <4> QED BY <1>3, <4>1, NoTrace
    <3>5. stdout' = [k \in DOMAIN program'.functions |-> "dump"]
      BY <1>1, <2>2, <3>1, <3>3
    <3>6. EveryEndIsExplained'
      BY <1>1, <1>2, <1>6, <3>3, <3>4, <3>5, SuccessExplained
    <3> QED BY <1>1, <3>3, <3>6 DEF StreamsInv
  <2>3. CASE ~complete
    <3>1. Exit(1, out, <<Message("optimization")>>)
      BY <2>1, <2>3
    <3>2. pc' = "done" /\ exitCode' = 1 /\ stderr' = <<>> \o <<Message("optimization")>>
      BY <1>1, <3>1 DEF Exit
    <3>3. stderr' = <<Message("optimization")>>
      BY <3>2
    <3>4. /\ stderr' \in Seq({Message("optimization")})
          /\ \E k \in DOMAIN stderr' : stderr'[k].text # "hot"
      BY <3>3, OneMessage
    <3>5. TraceExact'
      BY <1>3, <3>4, NoTrace
    <3>6. EveryEndIsExplained'
      BY <1>1, <1>2, <1>6, <3>2, <3>3, <3>4, <3>5, FailureExplained
    <3> QED BY <1>1, <3>2, <3>6 DEF StreamsInv
  <2> QED BY <2>2, <2>3
<1> QED BY <1>4, <1>5, <1>6

\* What the trace has to name is what became hot.
LEMMA HotOnes ==
  ASSUME Traced(execution), parsed.options = Meant
  PROVE  /\ execution.hotEvents \in Seq(Events)
         /\ \A k \in DOMAIN execution.hotEvents :
              /\ execution.hotEvents[k].invocationCount = Meant.hotThreshold
              /\ \A j \in DOMAIN execution.hotEvents :
                   execution.hotEvents[j].functionId = execution.hotEvents[k].functionId => j = k
         /\ {execution.hotEvents[k].functionId : k \in DOMAIN execution.hotEvents} =
              IF Meant.hotThreshold # 0 THEN HotFunctions ELSE {}
<1> DEFINE T == Meant.hotThreshold
           events == execution.hotEvents
           profile == execution.vm.profile
<1>1. /\ events \in Seq(Events) /\ execution.vm.hotThreshold = T /\ T \in 0 .. MaxCount
      /\ execution.calls \in Seq(Functions) /\ execution.done \in Nat
      /\ execution.done <= Len(execution.calls)
  BY DEF Traced, Executed, Executions, Machines
<1>2. /\ \A k \in DOMAIN events :
           /\ events[k].invocationCount = T
           /\ profile[events[k].functionId].isHot
           /\ \A j \in DOMAIN events : events[j].functionId = events[k].functionId => j = k
      /\ \A f \in Functions : profile[f].isHot => \E k \in DOMAIN events : events[k].functionId = f
  BY <1>1 DEF Traced, Reported
<1>3. \A k \in DOMAIN events : events[k].functionId \in Functions
  <2>1. \A k \in DOMAIN events : events[k] \in Events
    BY <1>1, ElementOfSeq, LenProperties
  <2> QED BY <2>1 DEF Events
<1>4. \A f \in Functions :
        profile[f].isHot <=> T # 0 /\ Cardinality(CallsOf(execution, f)) >= T
  BY <1>1 DEF Traced, Counted
<1>5. \A f : Invocations(f) = Cardinality(CallsOf(execution, f))
  BY DEF Invocations, CallsOf
<1>6. Invoked \subseteq Functions
  <2>1. Len(execution.calls) \in Nat
    BY <1>1, LenProperties
  <2>2. 1 .. execution.done \subseteq 1 .. Len(execution.calls)
    BY <1>1, <2>1
  <2>3. \A k \in 1 .. execution.done : execution.calls[k] \in Functions
    BY <1>1, <2>2, ElementOfSeq
  <2> QED BY <2>3 DEF Invoked
<1>7. ASSUME NEW f \in Functions, T # 0, Cardinality(CallsOf(execution, f)) >= T
      PROVE  f \in Invoked
  <2>1. CallsOf(execution, f) # {}
    <3>1. Cardinality({}) = 0 /\ ~(0 >= T)
      BY <1>1, <1>7, FS_EmptySet
    <3> HIDE DEF T
    <3> QED BY <1>7, <3>1
  <2> QED BY <2>1 DEF CallsOf, Invoked
<1> HIDE DEF T, events, profile
<1>8. CASE T # 0
  <2>1. \A f \in Functions : profile[f].isHot <=> f \in HotFunctions
    BY <1>4, <1>5, <1>7, <1>8 DEF HotFunctions, T
  <2>2. HotFunctions \subseteq Functions
    BY <1>6 DEF HotFunctions
  <2> HIDE DEF HotFunctions
  <2>3. {events[k].functionId : k \in DOMAIN events} = HotFunctions
    BY <1>2, <1>3, <2>1, <2>2
  <2> QED BY <1>1, <1>2, <1>8, <2>3 DEF T, events
<1>9. CASE T = 0
  <2>1. \A k \in DOMAIN events : FALSE
    BY <1>2, <1>3, <1>4, <1>9
  <2>2. {events[k].functionId : k \in DOMAIN events} = {}
    BY <2>1
  <2> QED BY <1>1, <1>2, <1>9, <2>2 DEF T, events
<1> QED BY <1>8, <1>9

HotLines == {HotLine(event) : event \in Events}

\* The trace, and an error behind it.
LEMMA OneBehind ==
  ASSUME NEW S, NEW s \in Seq(S), NEW x
  PROVE  /\ DOMAIN (s \o <<x>>) = DOMAIN s \cup {Len(s) + 1} /\ Len(s) + 1 \notin DOMAIN s
         /\ \A k \in DOMAIN s : (s \o <<x>>)[k] = s[k]
         /\ (s \o <<x>>)[Len(s) + 1] = x
         /\ <<>> \o (s \o <<x>>) = s \o <<x>>
<1> DEFINE R == S \cup {x}
<1>1. s \in Seq(R)
  <2>1. s \in [1 .. Len(s) -> S] /\ Len(s) \in Nat
    BY LenProperties
  <2>2. s \in [1 .. Len(s) -> R]
    BY <2>1
  <2> HIDE DEF R
  <2> QED BY <2>1, <2>2, SeqDef
<1>2. x \in R
  OBVIOUS
<1> HIDE DEF R
<1>3. s \o <<x>> = Append(s, x)
  BY <1>1, <1>2, AppendIsConcat
<1> DEFINE after == Append(s, x)
<1>4. /\ after \in Seq(R) /\ Len(s) \in Nat /\ DOMAIN s = 1 .. Len(s)
      /\ DOMAIN after = 1 .. Len(s) + 1
      /\ \A k \in DOMAIN s : after[k] = s[k]
      /\ after[Len(s) + 1] = x
  BY <1>1, <1>2, Extended
<1> HIDE DEF after
<1>5. DOMAIN after = DOMAIN s \cup {Len(s) + 1} /\ Len(s) + 1 \notin DOMAIN s
  BY <1>4
<1>6. <<>> \o after = after
  BY <1>4, EmptyBefore
<1> QED BY <1>3, <1>4, <1>5, <1>6 DEF after

\* What run writes when its execution is over.
LEMMA RunTraced ==
  ASSUME Traced(execution), parsed.options = Meant, UNCHANGED <<arguments, execution>>,
         Command = "run", ~AsksForHelp, NEW failed \in BOOLEAN,
         stderr' = <<>> \o (JitTrace \o ErrorOf(failed))
  PROVE  /\ TraceExact'
         /\ failed => \E k \in DOMAIN stderr' : stderr'[k].text # "hot"
<1> DEFINE T == Meant.hotThreshold
           events == execution.hotEvents
<1>1. /\ events \in Seq(Events)
      /\ \A k \in DOMAIN events :
           /\ events[k].invocationCount = T
           /\ \A j \in DOMAIN events : events[j].functionId = events[k].functionId => j = k
      /\ {events[k].functionId : k \in DOMAIN events} = IF T # 0 THEN HotFunctions ELSE {}
  BY HotOnes
<1>2. /\ HotFunctions' = HotFunctions /\ TraceAsked' = TraceAsked /\ Meant' = Meant
  <2>1. Meant' = Meant /\ Command' = Command /\ AsksForHelp' = AsksForHelp
    BY SameLine
  <2>2. Invoked' = Invoked /\ \A f : Invocations(f)' = Invocations(f)
    BY DEF Invoked, Invocations
  <2> QED BY <2>1, <2>2 DEF HotFunctions, TraceAsked
<1>3. TraceAsked <=> Meant.traceJit /\ T # 0
  BY DEF TraceAsked
<1>4. /\ JitTrace \in Seq(HotLines)
      /\ DOMAIN JitTrace = IF Meant.traceJit THEN DOMAIN events ELSE {}
      /\ \A k \in DOMAIN JitTrace : JitTrace[k] = HotLine(events[k])
  <2>1. Len(events) \in Nat /\ DOMAIN events = 1 .. Len(events)
        /\ \A k \in DOMAIN events : events[k] \in Events
    BY <1>1, ElementOfSeq, LenProperties
  <2>2. CASE Meant.traceJit
    <3>1. JitTrace = [k \in DOMAIN events |-> HotLine(events[k])]
      BY <2>2 DEF JitTrace
    <3> HIDE DEF events
    <3>2. JitTrace \in [1 .. Len(events) -> HotLines]
      BY <2>1, <3>1 DEF HotLines
    <3>3. JitTrace \in Seq(HotLines)
      BY <2>1, <3>2, SeqDef
    <3> QED BY <2>2, <3>1, <3>3
  <2>3. CASE ~Meant.traceJit
    BY <2>3, EmptySeq DEF JitTrace
  <2> QED BY <2>2, <2>3
<1>5. /\ DOMAIN JitTrace \subseteq DOMAIN stderr'
      /\ \A k \in DOMAIN JitTrace : stderr'[k] = JitTrace[k]
      /\ \A k \in DOMAIN stderr' : stderr'[k].text = "hot" <=> k \in DOMAIN JitTrace
      /\ failed => \E k \in DOMAIN stderr' : stderr'[k].text # "hot"
  <2>1. JitTrace \in Seq(HotLines)
    BY <1>4
  <2>2. \A k \in DOMAIN JitTrace : JitTrace[k].text = "hot"
    <3>1. \A event : HotLine(event).text = "hot"
      BY DEF HotLine
    <3> QED BY <1>4, <3>1
  <2> DEFINE error == Message("runtime error")
             n == Len(JitTrace) + 1
  <2>3. error.text # "hot"
    BY DEF Message
  <2>4. CASE failed
    <3>1. stderr' = <<>> \o (JitTrace \o <<error>>)
      BY <2>4 DEF ErrorOf
    <3> HIDE DEF error, n
    <3>2. /\ DOMAIN stderr' = DOMAIN JitTrace \cup {n} /\ n \notin DOMAIN JitTrace
          /\ \A k \in DOMAIN JitTrace : stderr'[k] = JitTrace[k]
          /\ stderr'[n] = error
      BY <2>1, <3>1, OneBehind DEF n
    <3> QED BY <2>2, <2>3, <3>2
  <2>5. CASE ~failed
    <3>1. stderr' = JitTrace
      <4>1. ErrorOf(failed) = <<>>
        BY <2>5 DEF ErrorOf
      <4>2. JitTrace \o <<>> = JitTrace /\ <<>> \o JitTrace = JitTrace
        BY <2>1, EmptyBefore
      <4> QED BY <4>1, <4>2
    <3> QED BY <2>2, <2>5, <3>1
  <2> QED BY <2>4, <2>5
<1> HIDE DEF events, T
<1>6. \A k \in DOMAIN JitTrace :
        /\ k \in DOMAIN events /\ stderr'[k].function = events[k].functionId
        /\ stderr'[k].calls = events[k].invocationCount
  <2> SUFFICES ASSUME NEW k \in DOMAIN JitTrace
               PROVE  /\ k \in DOMAIN events /\ stderr'[k].function = events[k].functionId
                      /\ stderr'[k].calls = events[k].invocationCount
    OBVIOUS
  <2>1. k \in DOMAIN events
    BY <1>4
  <2>2. stderr'[k] = HotLine(events[k])
    BY <1>4, <1>5
  <2> QED BY <2>1, <2>2 DEF HotLine
<1>7. {stderr'[k].function : k \in DOMAIN JitTrace} = IF TraceAsked THEN HotFunctions ELSE {}
  <2>1. CASE Meant.traceJit
    <3>1. {stderr'[k].function : k \in DOMAIN JitTrace} = {events[k].functionId : k \in DOMAIN events}
      BY <1>4, <1>6, <2>1
    <3> QED BY <1>1, <1>3, <2>1, <3>1
  <2>2. CASE ~Meant.traceJit
    BY <1>3, <1>4, <2>2
  <2> QED BY <2>1, <2>2
<1>8. TraceExact'
  <2> DEFINE lines == {k \in DOMAIN stderr' : stderr'[k].text = "hot"}
  <2>1. lines = DOMAIN JitTrace
    BY <1>5
  <2> HIDE DEF lines
  <2>2. /\ {stderr'[k].function : k \in lines} = IF TraceAsked' THEN HotFunctions' ELSE {}
        /\ \A k \in lines : stderr'[k].calls = Meant'.hotThreshold
        /\ \A j, k \in lines : stderr'[j].function = stderr'[k].function => j = k
    <3>1. {stderr'[k].function : k \in lines} = IF TraceAsked' THEN HotFunctions' ELSE {}
      BY <1>2, <1>7, <2>1
    <3>2. \A k \in lines : stderr'[k].calls = Meant'.hotThreshold
      BY <1>1, <1>2, <1>6, <2>1 DEF T
    <3>3. \A j, k \in lines : stderr'[j].function = stderr'[k].function => j = k
      BY <1>1, <1>6, <2>1
    <3> QED BY <3>1, <3>2, <3>3
  <2> QED BY <2>2 DEF TraceExact, lines
<1> QED BY <1>5, <1>8

LEMMA RunEnds ==
  ASSUME ReadingInv, StreamsInv, BenchmarkInv, EndRun
  PROVE  StreamsInv' /\ EveryEndIsExplained'
<1>1. PICK failed \in BOOLEAN :
        Ends(failed) /\ Exit(IF failed THEN 1 ELSE 0, Output, JitTrace \o ErrorOf(failed))
  BY DEF EndRun
<1>2. /\ pc = "execute" /\ Command = "run" /\ ~AsksForHelp /\ bench.mode = "none"
      /\ stdout = <<>> /\ stderr = <<>> /\ silenced = FALSE
      /\ UNCHANGED <<arguments, execution, parsed>> /\ silenced' = FALSE
      /\ Traced(execution)
  <2>1. pc = "execute" /\ Command = "run" /\ UNCHANGED <<arguments, parsed, benchmark>>
    BY <1>1 DEF EndRun, Ends
  <2>2. bench.mode = "none" /\ Traced(execution)
    BY <2>1 DEF BenchmarkInv, Idle
  <2>3. ~AsksForHelp /\ stdout = <<>> /\ stderr = <<>> /\ silenced = FALSE
    BY <2>1, <2>2 DEF StreamsInv, Modes
  <2> QED BY <2>1, <2>2, <2>3 DEF benchmark
<1>3. parsed.options = Meant
  BY <1>2, OptionsAsMeant
<1>4. Command' = Command /\ AsksForHelp' = AsksForHelp
  BY <1>2, SameLine
<1>5. /\ pc' = "done" /\ exitCode' = (IF failed THEN 1 ELSE 0)
      /\ stderr' = <<>> \o (JitTrace \o ErrorOf(failed)) /\ stdout' = <<>> \o Output
  BY <1>1, <1>2 DEF Exit, Shown
<1>6. stdout' = Output
  <2>1. Output \in Seq({"program"})
    BY DEF Output
  <2> QED BY <1>5, <2>1, EmptyBefore
<1>7. /\ TraceExact' /\ (failed => \E k \in DOMAIN stderr' : stderr'[k].text # "hot")
  BY <1>2, <1>3, <1>5, RunTraced
<1>8. CASE failed
  <2>1. exitCode' = 1 /\ \E k \in DOMAIN stderr' : stderr'[k].text # "hot"
    BY <1>5, <1>7, <1>8
  <2>2. EveryEndIsExplained'
    BY <1>2, <1>4, <1>5, <1>7, <2>1, FailureExplained
  <2> QED BY <1>2, <1>5, <2>1, <2>2 DEF StreamsInv
<1>9. CASE ~failed
  <2>1. exitCode' = 0
    BY <1>5, <1>9
  <2>2. EveryEndIsExplained'
    BY <1>2, <1>4, <1>5, <1>6, <1>7, <2>1, SuccessExplained DEF Output
  <2> QED BY <1>2, <1>5, <2>1, <2>2 DEF StreamsInv
<1> QED BY <1>8, <1>9

-----------------------------------------------------------------------------
(* What was measured.                                                      *)

LEMMA LabelFacts ==
  /\ \A m \in Modes : Labels[m] \subseteq Seq(Items)
  /\ \A work \in Seq(Items) : work \in Labels["VM"] <=> InterpretedOnly(work)
  /\ \A work \in Seq(Items) : work \in Labels["cold"] <=> FromCold(work) /\ CompiledOnce(<<work>>)
  /\ \A work \in Seq(Items) : work \in Labels["warmed"] <=> FromWarm(work)
<1>1. Labels["VM"] = {work \in Seq(Items) : InterpretedOnly(work)}
  BY DEF Labels, Modes
<1>2. Labels["cold"] = {work \in Seq(Items) : FromCold(work) /\ CompiledOnce(<<work>>)}
  BY DEF Labels, Modes
<1>3. Labels["warmed"] = {work \in Seq(Items) : FromWarm(work)}
  BY DEF Labels, Modes
<1> QED BY <1>1, <1>2, <1>3 DEF Modes

LEMMA MadeKept ==
  ASSUME NEW m, Made(m), measured'[m] = measured[m], Iterations' = Iterations,
         stderr' = stderr \/ stderr' # <<>>
  PROVE  Made(m)'
BY DEF Made

\* What MeasureInv says, one fact at a time.
LEMMA MeasureFacts ==
  ASSUME MeasureInv
  PROVE  /\ bench.mode \in Modes \cup {"report"} /\ bench.round \in Nat
         /\ bench.clock \in BOOLEAN /\ bench.timed = <<>> /\ bench.created \in BOOLEAN
         /\ bench.vm \in Machines /\ bench.warmed \in Machines /\ Warmed(bench.warmed)
         /\ DOMAIN bench = {"mode", "round", "clock", "timed", "created", "vm", "warmed"}
         /\ measured \in [Modes -> Seq(Seq(Items))] /\ CompiledOnce(measured["warmed"])
BY DEF MeasureInv, Benches, Modes

\* Nothing of the measurements changes.
LEMMA MeasureKept ==
  ASSUME MeasureInv, UNCHANGED <<bench, measured, parsed, stderr>>
  PROVE  MeasureInv'
<1>1. \A m : Made(m) => Made(m)'
  BY DEF Made, Iterations
<1>2. MachineReady => MachineReady'
  BY DEF MachineReady
<1> QED BY <1>1, <1>2 DEF MeasureInv, Iterations

LEMMA NextMeasurement ==
  ASSUME MeasureInv, NEW mode \in Modes, bench.mode = mode, bench' = BeginNext, Iterations' = Iterations,
         measured' \in [Modes -> Seq(Seq(Items))],
         \A m \in Modes \ {bench.mode} : measured'[m] = measured[m],
         stderr' = stderr \/ stderr' # <<>>,
         CompiledOnce(measured'["warmed"]), Made(mode)', Iterations \in Nat
  PROVE  MeasureInv'
<1> DEFINE next == NextMode
<1>1. next \in {"cold", "warmed", "report"} /\ Past(next) = Past(bench.mode) \cup {bench.mode}
      /\ next \notin Past(bench.mode) \cup {bench.mode}
  BY DEF NextMode, Past, Modes
<1>2. /\ bench'.mode = next /\ bench'.round = 0 /\ bench'.clock = FALSE /\ bench'.timed = <<>>
      /\ bench'.created = (next = "warmed") /\ bench'.warmed = bench.warmed
      /\ bench'.vm = (IF next = "warmed" THEN bench.warmed ELSE NoMachine)
      /\ DOMAIN bench' = DOMAIN bench
  <2> HIDE DEF next
  <2>1. bench' = [bench EXCEPT !.mode = next, !.round = 0, !.clock = FALSE, !.timed = <<>>,
                !.created = (next = "warmed"),
                !.vm = IF next = "warmed" THEN bench.warmed ELSE NoMachine]
    BY DEF BeginNext, next
  <2> QED BY <2>1, MeasureFacts
<1>3. bench' \in Benches
  <2>1. bench'.vm \in Machines /\ bench'.warmed \in Machines
    BY <1>2, MeasureFacts, NewMachines
  <2>2. bench'.mode \in {"VM", "cold", "warmed", "report"} /\ bench'.round \in Nat
        /\ bench'.clock \in BOOLEAN /\ bench'.timed \in {<<>>} /\ bench'.created \in BOOLEAN
    <3>1. next \in {"VM", "cold", "warmed", "report"}
      BY <1>1
    <3>2. bench'.created \in BOOLEAN
      <4>1. CASE next = "warmed"
        BY <1>2, <4>1
      <4>2. CASE next # "warmed"
        BY <1>2, <4>2
      <4> QED BY <4>1, <4>2
    <3>3. bench'.mode = next /\ bench'.round = 0 /\ bench'.clock = FALSE /\ bench'.timed = <<>>
      BY <1>2
    <3> HIDE DEF next
    <3>4. bench'.mode \in {"VM", "cold", "warmed", "report"} /\ bench'.round \in Nat
      BY <3>1, <3>3
    <3>5. bench'.clock \in BOOLEAN /\ bench'.timed \in {<<>>}
      BY <3>3
    <3> QED BY <3>2, <3>4, <3>5
  <2>3. bench' = [mode |-> bench'.mode, round |-> bench'.round, clock |-> bench'.clock,
                  timed |-> bench'.timed, created |-> bench'.created,
                  vm |-> bench'.vm, warmed |-> bench'.warmed]
    BY DEF BeginNext, MeasureInv, Benches
  <2> QED BY <2>1, <2>2, <2>3 DEF Benches
<1>4. \A m \in Past(bench.mode) : Made(m)'
  <2>1. \A m \in Past(bench.mode) : m \in Modes \ {bench.mode} /\ Made(m)
    BY DEF Past, Modes, MeasureInv
  <2> QED BY <2>1, MadeKept
<1>5. \A m \in Past(next) : Made(m)'
  BY <1>1, <1>4
<1>6. \A m \in Modes \ (Past(bench.mode) \cup {bench.mode}) : measured[m] = <<>>
  BY DEF MeasureInv, Modes
<1>7. ASSUME next # "report"
      PROVE  measured'[next] = <<>>
             /\ \A m \in Modes \ (Past(next) \cup {next}) : measured'[m] = <<>>
  <2>1. next \in Modes
    BY <1>1, <1>7 DEF Modes
  <2> HIDE DEF next
  <2> QED BY <1>1, <1>6, <2>1
<1>8. ASSUME next # "report" PROVE MachineReady'
  <2>1. Warmed(bench.warmed)
    BY MeasureFacts
  <2> HIDE DEF next
  <2>2. CASE next = "cold"
    BY <1>2, <2>2 DEF MachineReady
  <2>3. CASE next = "warmed"
    <3>1. bench'.created /\ bench'.vm = bench.warmed
      BY <1>2, <2>3
    <3> QED BY <1>2, <2>1, <2>3, <3>1 DEF MachineReady
  <2> QED BY <1>1, <1>8, <2>2, <2>3
<1>9. next = "warmed" => HotSince(measured'["warmed"], bench'.vm)
  BY <1>7 DEF HotSince
<1>10. <<>> \in Seq(Labels[next]) /\ Len(<<>>) = 0 /\ 0 <= Iterations
  BY EmptySeq
<1>11. Past(bench'.mode) = Past(next) /\ Warmed(bench'.warmed)
  BY <1>2, MeasureFacts
<1>12. bench'.mode # "report" =>
         /\ MachineReady' /\ bench'.round <= Iterations'
         /\ bench'.clock => bench'.created
         /\ measured'[bench'.mode] \in Seq(Labels[bench'.mode])
         /\ Len(measured'[bench'.mode]) = bench'.round
         /\ \A m \in Modes \ (Past(bench'.mode) \cup {bench'.mode}) : measured'[m] = <<>>
  <2> HIDE DEF next
  <2> QED BY <1>2, <1>7, <1>8, <1>10
<1> HIDE DEF next
<1> QED BY <1>2, <1>3, <1>5, <1>9, <1>11, <1>12 DEF MeasureInv

LEMMA NotDone ==
  ASSUME pc' # "done", exitCode' = Running
  PROVE  EveryEndIsExplained' /\ MeasuredAsLabelled'
BY DEF EveryEndIsExplained, MeasuredAsLabelled, Running

\* Which of the invariant's parts speak of a step of a benchmark.
BenchmarkStep == StreamsInv' /\ BenchmarkInv' /\ EveryEndIsExplained' /\ MeasuredAsLabelled'

\* A step to or within an execution.
LEMMA Executes ==
  ASSUME ReadingInv, StreamsInv, pc # "done", pc' = "execute",
         UNCHANGED <<arguments, program, silenced, stdout, stderr, exitCode, bench>>,
         Command \in {"run", "benchmark"}, ~AsksForHelp, program \in Contents,
         Command = "run" => silenced = FALSE, Command = "benchmark" => silenced = TRUE,
         bench.mode \notin Modes => stderr = <<>>,
         bench.mode \in Modes => stderr \in Seq({Message("runtime error")}),
         BenchmarkInv'
  PROVE  BenchmarkStep
<1>1. Command' = Command /\ AsksForHelp' = AsksForHelp
  BY SameLine
<1>2. exitCode' = Running /\ stdout' = <<>>
  BY DEF StreamsInv
<1>3. StreamsInv'
  BY <1>1, <1>2 DEF StreamsInv
<1> QED BY <1>2, <1>3, NotDone DEF BenchmarkStep

LEMMA RunBegins ==
  ASSUME ReadingInv, StreamsInv, BenchmarkInv, RunVm
  PROVE  BenchmarkStep
<1>1. /\ pc = "stages" /\ Command = "run" /\ Execute(RunMachine, <<>>) /\ pc' = "execute"
      /\ UNCHANGED <<arguments, parsed, program, silenced, stdout, stderr, exitCode, bench, measured>>
  BY DEF RunVm, EntryFound, StagesPassed, Silent, files, Execute
<1>2. /\ stderr = <<>> /\ program \in Contents /\ ~AsksForHelp /\ silenced = FALSE
      /\ NoMeasurement /\ Idle("none", NoMachine)
  BY <1>1 DEF StreamsInv, BenchmarkInv, Early
<1>3. parsed.options.hotThreshold \in 0 .. MaxCount /\ parsed.options.jitEnabled \in BOOLEAN
  BY DEF ReadingInv, Parsed, Options
<1>4. Traced(execution)'
  BY <1>1, <1>2, <1>3, RunIsTraced
<1>5. NoMeasurement' /\ Idle("none", NoMachine)' /\ Command' = Command
  BY <1>1, <1>2, SameLine DEF NoMeasurement, Idle
<1>6. BenchmarkInv'
  BY <1>1, <1>4, <1>5 DEF BenchmarkInv, Early
<1>7. bench.mode \notin Modes
  BY <1>2 DEF Idle, Modes
<1> QED BY <1>1, <1>2, <1>6, <1>7, Executes

LEMMA RunsOn ==
  ASSUME ReadingInv, StreamsInv, BenchmarkInv, Invoke
  PROVE  BenchmarkStep
<1>1. /\ pc = "execute" /\ pc' = "execute" /\ Executing
      /\ UNCHANGED <<arguments, parsed, program, silenced, stdout, stderr, exitCode, bench, measured>>
  BY DEF Invoke, Executing, Silent, files
<1>2. PICK code \in NewCode(execution.vm, Callee) :
        \E tier \in Tiers(Dispatched(execution.vm, Callee, code), Callee) : Invokes(code, tier)
  BY DEF Invoke, Invokes
<1>3. PICK tier \in Tiers(Dispatched(execution.vm, Callee, code), Callee) : Invokes(code, tier)
  BY <1>2
<1>4. /\ Command \in {"run", "benchmark"} /\ ~AsksForHelp /\ program \in Contents
      /\ Command = "run" => silenced = FALSE
      /\ Command = "benchmark" => silenced = TRUE
      /\ bench.mode \notin Modes => stderr = <<>>
      /\ bench.mode \in Modes => stderr \in Seq({Message("runtime error")})
  BY <1>1 DEF StreamsInv
<1>5. Command' = Command
  BY <1>1, SameLine
<1>6. \A start : Executed(start, execution) => Executed(start, execution')
  BY <1>1, <1>3, InvokedOn
<1>7. BenchmarkInv'
  <2>1. CASE Command = "run"
    <3>1. NoMeasurement /\ Idle("none", NoMachine) /\ Traced(execution)
      BY <1>1, <2>1 DEF BenchmarkInv
    <3>2. Traced(execution)'
      BY <1>1, <1>3, <3>1, InvokedInRun
    <3>3. NoMeasurement' /\ Idle("none", NoMachine)'
      BY <1>1, <3>1 DEF NoMeasurement, Idle
    <3> QED BY <1>1, <1>5, <2>1, <3>2, <3>3 DEF BenchmarkInv, Early
  <2>2. CASE Command = "benchmark"
    <3>1. \/ NoMeasurement /\ Idle("warming", JitMachine) /\ Executed(JitMachine, execution)
          \/ /\ MeasureInv /\ bench.mode \in Modes /\ bench.created /\ bench.round < Iterations
             /\ Executed(bench.vm, execution)
      BY <1>1, <2>2 DEF BenchmarkInv
    <3>2. CASE NoMeasurement /\ Idle("warming", JitMachine) /\ Executed(JitMachine, execution)
      <4>1. NoMeasurement' /\ Idle("warming", JitMachine)' /\ Executed(JitMachine, execution')
        BY <1>1, <1>6, <3>2 DEF NoMeasurement, Idle
      <4> QED BY <1>1, <1>5, <2>2, <4>1 DEF BenchmarkInv, Early
    <3>3. CASE /\ MeasureInv /\ bench.mode \in Modes /\ bench.created /\ bench.round < Iterations
               /\ Executed(bench.vm, execution)
      <4>1. /\ MeasureInv' /\ bench'.mode \in Modes /\ bench'.created /\ bench'.round < Iterations'
            /\ Executed(bench'.vm, execution')
        BY <1>1, <1>6, <3>3, MeasureKept DEF Iterations
      <4> QED BY <1>1, <1>5, <2>2, <4>1 DEF BenchmarkInv, Early
    <3> QED BY <3>1, <3>2, <3>3
  <2> QED BY <1>4, <2>1, <2>2
<1> QED BY <1>1, <1>4, <1>7, Executes

LEMMA BenchmarkBegins ==
  ASSUME ReadingInv, StreamsInv, BenchmarkInv, BeginBenchmark
  PROVE  BenchmarkStep
<1>1. /\ pc = "stages" /\ Command = "benchmark" /\ pc' = "warm"
      /\ bench' = [bench EXCEPT !.mode = "warming", !.warmed = JitMachine]
      /\ silenced' = TRUE /\ stdout' = stdout /\ stderr' = stderr /\ exitCode' = exitCode
      /\ arguments' = arguments /\ program' = program /\ measured' = measured
  BY DEF BeginBenchmark, EntryFound, StagesPassed, Silent, files
<1>2. stdout = <<>> /\ stderr = <<>> /\ exitCode = Running /\ program \in Contents /\ ~AsksForHelp
  BY <1>1 DEF StreamsInv
<1>3. StreamsInv'
  BY <1>1, <1>2, SameLine DEF StreamsInv
<1>4. NoMeasurement'
  BY <1>1 DEF BenchmarkInv, NoMeasurement, Early
<1>5. Idle("warming", JitMachine)'
  <2>1. bench = [mode |-> "none", round |-> 0, clock |-> FALSE, timed |-> <<>>, created |-> FALSE,
                 vm |-> NoMachine, warmed |-> NoMachine]
    BY <1>1 DEF BenchmarkInv, Idle, Early
  <2>2. bench' = [bench EXCEPT !.mode = "warming", !.warmed = JitMachine]
    BY <1>1
  <2> QED BY <2>1, <2>2 DEF Idle
<1>6. BenchmarkInv'
  BY <1>1, <1>2, <1>4, <1>5 DEF BenchmarkInv, Early
<1> QED BY <1>1, <1>2, <1>3, <1>6, NotDone DEF BenchmarkStep

\* The program's output is kept back.
LEMMA OutputKept ==
  ASSUME silenced = TRUE
  PROVE  Shown(Output) = <<>> /\ <<>> \o Shown(Output) = <<>>
<1>1. <<>> \o <<>> = <<>>
  BY EmptyBefore, EmptySeq
<1> QED BY <1>1 DEF Shown

LEMMA WarmUpBegins ==
  ASSUME ReadingInv, StreamsInv, BenchmarkInv, WarmUp
  PROVE  BenchmarkStep
<1>1. /\ pc = "warm" /\ Execute(bench.warmed, <<>>) /\ pc' = "execute"
      /\ UNCHANGED <<arguments, parsed, program, silenced, stdout, stderr, exitCode, bench, measured>>
  BY DEF WarmUp, Silent, files, Execute
<1>2. /\ Command = "benchmark" /\ ~AsksForHelp /\ program \in Contents
      /\ silenced = TRUE /\ stderr = <<>>
      /\ NoMeasurement /\ Idle("warming", JitMachine)
  BY <1>1 DEF StreamsInv, BenchmarkInv
<1>3. bench.warmed = JitMachine /\ bench.mode \notin Modes
  BY <1>2 DEF Idle, Modes
<1>4. Executed(JitMachine, execution')
  BY <1>1, <1>2, <1>3, NewMachines, ExecutionBegins
<1>5. NoMeasurement' /\ Idle("warming", JitMachine)' /\ Command' = Command
  BY <1>1, <1>2, SameLine DEF NoMeasurement, Idle
<1>6. BenchmarkInv'
  BY <1>1, <1>2, <1>4, <1>5 DEF BenchmarkInv, Early
<1> QED BY <1>1, <1>2, <1>3, <1>6, Executes

LEMMA WarmUpEnds ==
  ASSUME ReadingInv, StreamsInv, BenchmarkInv, EndWarmUp
  PROVE  BenchmarkStep
<1>1. /\ bench.mode = "warming"
      /\ UNCHANGED <<arguments, parsed, program, execution, measured>>
  BY DEF EndWarmUp, files
<1>2. PICK failed \in BOOLEAN :
        /\ Ends(failed)
        /\ IF failed \/ Entry \notin execution.vm.native
           THEN /\ Exit(1, Output, <<Message(IF failed THEN "runtime error" ELSE "not native")>>)
                /\ RestoreOutput
                /\ UNCHANGED bench
           ELSE /\ bench' = [bench EXCEPT !.warmed = execution.vm, !.mode = "VM"]
                /\ pc' = "measure" /\ stdout' = stdout \o Shown(Output)
                /\ UNCHANGED <<silenced, stderr, exitCode>>
  BY DEF EndWarmUp
<1>3. pc = "execute" /\ execution.done > 0
  BY <1>2 DEF Ends
<1>4. /\ Command = "benchmark" /\ ~AsksForHelp /\ program \in Contents
      /\ silenced = TRUE /\ stdout = <<>> /\ stderr = <<>> /\ exitCode = Running
      /\ NoMeasurement /\ Idle("warming", JitMachine) /\ Executed(JitMachine, execution)
  <2>1. Command = "benchmark"
    <3>1. Command \in {"run", "benchmark"}
      BY <1>3 DEF StreamsInv
    <3>2. Command = "run" => bench.mode = "none"
      BY <1>3 DEF BenchmarkInv, Idle
    <3> QED BY <1>1, <3>1, <3>2
  <2>2. bench.mode \notin Modes
    BY <1>1 DEF Modes
  <2>3. NoMeasurement /\ Idle("warming", JitMachine) /\ Executed(JitMachine, execution)
    BY <1>3, <2>1, <2>2 DEF BenchmarkInv
  <2> QED BY <1>3, <2>1, <2>2, <2>3 DEF StreamsInv
<1>5. Command' = Command /\ AsksForHelp' = AsksForHelp
  BY <1>1, SameLine
<1>6. CASE failed \/ Entry \notin execution.vm.native
  <2> DEFINE text == IF failed THEN "runtime error" ELSE "not native"
  <2>1. Exit(1, Output, <<Message(text)>>) /\ silenced' = FALSE
    BY <1>2, <1>6 DEF RestoreOutput
  <2>2. text # "hot"
    OBVIOUS
  <2> HIDE DEF text
  <2>3. <<Message(text)>> \in Seq({Message(text)}) /\ Output \in Seq({"program"})
    BY DEF Output
  <2>4. pc' = "done" /\ exitCode' = 1 /\ stderr' = <<Message(text)>> /\ stdout' = <<>>
    BY <1>4, <2>1, <2>3, EndWith
  <2>5. StreamsInv'
    BY <2>1, <2>4 DEF StreamsInv
  <2>6. /\ stderr' \in Seq({Message(text)})
        /\ \E k \in DOMAIN stderr' : stderr'[k].text # "hot"
    BY <2>2, <2>4, OneMessage
  <2>7. TraceExact'
    <3>1. ~TraceAsked'
      BY <1>4, <1>5 DEF TraceAsked
    <3> QED BY <2>2, <2>6, <3>1, NoTrace
  <2>8. exitCode' # 0
    BY <2>4
  <2>9. EveryEndIsExplained'
    BY <2>1, <2>4, <2>6, <2>7, <2>8, FailureExplained
  <2>10. BenchmarkInv' /\ MeasuredAsLabelled'
    BY <2>4, <2>8 DEF BenchmarkInv, MeasuredAsLabelled, Early
  <2> QED BY <2>5, <2>9, <2>10 DEF BenchmarkStep
<1>7. CASE ~(failed \/ Entry \notin execution.vm.native)
  <2>1. /\ bench' = [bench EXCEPT !.warmed = execution.vm, !.mode = "VM"]
        /\ pc' = "measure" /\ stdout' = <<>>
        /\ silenced' = TRUE /\ stderr' = <<>> /\ exitCode' = Running
    BY <1>2, <1>4, <1>7, OutputKept
  <2>2. execution.vm \in Machines /\ Warmed(execution.vm)
    BY <1>3, <1>4, <1>7, ColdExecution DEF Warmed
  <2>3. bench' = [mode |-> "VM", round |-> 0, clock |-> FALSE, timed |-> <<>>, created |-> FALSE,
                  vm |-> NoMachine, warmed |-> execution.vm]
    BY <1>4, <2>1 DEF Idle
  <2>4. bench' \in Benches
    BY <2>2, <2>3, NewMachines DEF Benches
  <2>5. \A m \in Modes : measured'[m] = <<>> /\ measured'[m] \in Seq(Labels[m])
    BY <1>1, <1>4, EmptySeq DEF Modes, NoMeasurement
  <2>6. measured' \in [Modes -> Seq(Seq(Items))]
    BY <1>1, <1>4, EmptySeq DEF Modes, NoMeasurement
  <2>7. Past(bench'.mode) = {} /\ MachineReady' /\ Warmed(bench'.warmed)
    BY <2>2, <2>3 DEF Past, MachineReady
  <2>8. Iterations' \in 1 .. MaxIterations
    <3>1. Iterations' = Iterations
      BY <1>1 DEF Iterations
    <3> QED BY <1>3, <1>4, <3>1, OptionsAsMeant
  <2>9. bench'.round <= Iterations' /\ bench'.mode \in Modes /\ bench'.mode # "warmed"
        /\ Len(measured'[bench'.mode]) = bench'.round /\ (bench'.clock => bench'.created)
    BY <2>3, <2>5, <2>8 DEF Modes
  <2>10. CompiledOnce(measured'["warmed"])
    BY <2>5 DEF Modes, CompiledOnce
  <2>11. MeasureInv'
    BY <2>4, <2>5, <2>6, <2>7, <2>9, <2>10 DEF MeasureInv
  <2>12. BenchmarkInv'
    BY <1>1, <1>4, <2>1, <2>11 DEF BenchmarkInv, Early
  <2>13. StreamsInv'
    BY <1>4, <1>5, <2>1, EmptySeq DEF StreamsInv
  <2> QED BY <2>1, <2>12, <2>13, NotDone DEF BenchmarkStep
<1> QED BY <1>6, <1>7

\* A step within the measurements.
LEMMA Measures ==
  ASSUME ReadingInv, StreamsInv, Command = "benchmark", ~AsksForHelp, program \in Contents,
         pc \in {"execute", "measure"}, silenced = TRUE, pc' = "measure",
         UNCHANGED <<arguments, program, silenced, exitCode>>,
         stdout' = <<>>, stderr' \in Seq({Message("runtime error")}), MeasureInv'
  PROVE  BenchmarkStep
<1>1. exitCode = Running
  BY DEF StreamsInv
<1>2. StreamsInv'
  <2>1. arguments' = arguments /\ silenced' = silenced /\ exitCode' = exitCode
    OBVIOUS
  <2>2. Command' = Command /\ AsksForHelp' = AsksForHelp
    BY <2>1, SameLine
  <2> QED BY <1>1, <2>1, <2>2 DEF StreamsInv
<1>3. BenchmarkInv'
  BY <1>1 DEF BenchmarkInv, Early
<1> QED BY <1>1, <1>2, <1>3, NotDone DEF BenchmarkStep

\* A change of the machine, of the clock or of the round.
LEMMA RoundGoesOn ==
  ASSUME MeasureInv, bench' \in Benches, bench.mode \in Modes, bench'.mode = bench.mode,
         bench'.warmed = bench.warmed, measured' = measured, bench'.round = bench.round,
         Iterations' = Iterations, stderr' = stderr, MachineReady', bench'.clock => bench'.created,
         bench.mode = "warmed" => bench'.vm = bench.vm
  PROVE  MeasureInv'
<1>1. \A m \in Past(bench.mode) : Made(m)'
  BY DEF MeasureInv, Made
<1> QED BY <1>1 DEF MeasureInv, Modes

\* What a step of the measurements starts from.
LEMMA MeasuringFacts ==
  ASSUME ReadingInv, StreamsInv, BenchmarkInv, pc = "measure"
  PROVE  /\ MeasureInv /\ stdout = <<>> /\ stderr \in Seq({Message("runtime error")})
         /\ silenced = TRUE /\ Iterations \in 1 .. MaxIterations /\ Iterations \in Nat
<1>1. Command = "benchmark" /\ ~AsksForHelp
  BY DEF StreamsInv
<1>2. Iterations \in 1 .. MaxIterations
  BY <1>1, OptionsAsMeant
<1>3. Iterations \in Nat
  BY <1>2
<1>4. MeasureInv /\ stdout = <<>> /\ stderr \in Seq({Message("runtime error")}) /\ silenced = TRUE
  BY DEF StreamsInv, BenchmarkInv
<1> QED BY <1>2, <1>3, <1>4

LEMMA MachineCreated ==
  ASSUME ReadingInv, StreamsInv, BenchmarkInv, CreateMachine
  PROVE  BenchmarkStep
<1>1. /\ pc = "measure" /\ pc' = "measure" /\ bench.mode # "report" /\ ~bench.created
      /\ bench' = [bench EXCEPT !.created = TRUE, !.vm = MachineFor(bench.mode),
                     !.timed = IF bench.clock THEN <<Did("create", Entry)>> ELSE <<>>]
      /\ UNCHANGED <<arguments, parsed, program, silenced, exitCode, stdout, stderr, measured>>
  BY DEF CreateMachine, Measuring, Silent, files
<1>2. MeasureInv /\ stdout = <<>> /\ stderr \in Seq({Message("runtime error")})
  BY <1>1 DEF BenchmarkInv, StreamsInv
<1>3. ~bench.clock /\ MachineReady /\ bench.mode \in Modes /\ bench \in Benches
  BY <1>1, <1>2, MeasureFacts DEF MeasureInv
<1>4. bench.mode \in {"VM", "cold"}
  BY <1>1, <1>3 DEF MachineReady, Modes
<1>5. MachineFor(bench.mode) \in Machines
      /\ (bench.mode = "VM" => Plain(MachineFor(bench.mode)))
      /\ (bench.mode = "cold" => MachineFor(bench.mode) = JitMachine)
  BY <1>4, NewMachines DEF MachineFor, NoMachine
<1>6. (IF bench.clock THEN <<Did("create", Entry)>> ELSE <<>>) = <<>>
  BY <1>3
<1>7. bench' = [bench EXCEPT !.created = TRUE, !.vm = MachineFor(bench.mode), !.timed = <<>>]
  BY <1>1, <1>6
<1>8. bench' \in Benches /\ bench'.mode = bench.mode /\ bench'.warmed = bench.warmed
      /\ bench'.round = bench.round /\ bench'.created = TRUE /\ bench'.vm = MachineFor(bench.mode)
  BY <1>3, <1>5, <1>7 DEF Benches
<1>9. MachineReady'
  <2>1. CASE bench.mode = "VM"
    BY <1>5, <1>8, <2>1 DEF MachineReady
  <2>2. CASE bench.mode = "cold"
    BY <1>5, <1>8, <2>2 DEF MachineReady
  <2> QED BY <1>4, <2>1, <2>2
<1>10. MeasureInv'
  <2>1. Iterations' = Iterations
    BY <1>1 DEF Iterations
  <2> QED BY <1>1, <1>2, <1>3, <1>4, <1>8, <1>9, <2>1, RoundGoesOn
<1> QED BY <1>1, <1>2, <1>10, MeasuringFacts, Measures DEF StreamsInv, BenchmarkInv

LEMMA ClockStarted ==
  ASSUME ReadingInv, StreamsInv, BenchmarkInv, StartClock
  PROVE  BenchmarkStep
<1>1. /\ pc = "measure" /\ pc' = "measure" /\ bench.mode # "report" /\ bench.created
      /\ bench' = [bench EXCEPT !.clock = TRUE]
      /\ UNCHANGED <<arguments, parsed, program, silenced, exitCode, stdout, stderr, measured>>
  BY DEF StartClock, Measuring, Silent, files
<1>2. MeasureInv /\ stdout = <<>> /\ stderr \in Seq({Message("runtime error")})
  BY <1>1 DEF BenchmarkInv, StreamsInv
<1>3. MachineReady /\ bench.mode \in Modes /\ bench \in Benches
  BY <1>1, <1>2, MeasureFacts DEF MeasureInv
<1>4. bench' \in Benches /\ bench'.mode = bench.mode /\ bench'.warmed = bench.warmed
      /\ bench'.round = bench.round /\ bench'.created = bench.created /\ bench'.vm = bench.vm
  BY <1>1, <1>3 DEF Benches
<1>5. MachineReady'
  BY <1>3, <1>4 DEF MachineReady
<1>6. MeasureInv'
  <2>1. Iterations' = Iterations
    BY <1>1 DEF Iterations
  <2> QED BY <1>1, <1>2, <1>3, <1>4, <1>5, <2>1, RoundGoesOn
<1> QED BY <1>1, <1>2, <1>6, MeasuringFacts, Measures DEF StreamsInv, BenchmarkInv

LEMMA RoundBegins ==
  ASSUME ReadingInv, StreamsInv, BenchmarkInv, Iterate
  PROVE  BenchmarkStep
<1>1. /\ pc = "measure" /\ pc' = "execute" /\ bench.mode # "report" /\ bench.created
      /\ bench.round < Iterations /\ Execute(bench.vm, bench.timed)
      /\ UNCHANGED <<arguments, parsed, program, silenced, stdout, stderr, exitCode, bench, measured>>
  BY DEF Iterate, Measuring, Silent, files, Execute
<1>2. /\ MeasureInv /\ stderr \in Seq({Message("runtime error")}) /\ silenced = TRUE
      /\ Command = "benchmark" /\ ~AsksForHelp /\ program \in Contents
  BY <1>1, MeasuringFacts DEF StreamsInv, BenchmarkInv
<1>3. bench.mode \in Modes /\ bench.vm \in Machines /\ bench.timed = <<>>
  BY <1>1, <1>2, MeasureFacts
<1>4. Executed(bench'.vm, execution')
  <2>1. Executed(bench.vm, execution')
    BY <1>1, <1>2, <1>3, ExecutionBegins
  <2> QED BY <1>1, <2>1
<1>5. /\ MeasureInv' /\ bench'.mode \in Modes /\ bench'.created /\ bench'.round < Iterations'
      /\ Command' = Command
  BY <1>1, <1>2, <1>3, MeasureKept, SameLine DEF Iterations
<1>6. BenchmarkInv'
  BY <1>1, <1>2, <1>4, <1>5 DEF BenchmarkInv, Early
<1> QED BY <1>1, <1>2, <1>3, <1>6, Executes

\* What a finished execution has made of its machine, and done in its round.
LEMMA RoundDone ==
  ASSUME MeasureInv, bench.mode \in Modes, bench.created, Executed(bench.vm, execution),
         execution.done > 0
  PROVE  /\ execution.work \in Labels[bench.mode] /\ execution.vm \in Machines
         /\ execution.work \in Seq(Items)
         /\ bench.mode = "VM" => Plain(execution.vm)
         /\ bench.mode = "warmed" =>
              /\ Warmed(execution.vm)
              /\ CompiledOnce(Append(measured["warmed"], execution.work))
              /\ HotSince(Append(measured["warmed"], execution.work), execution.vm)
<1>1. MachineReady /\ execution.vm \in Machines /\ execution.work \in Seq(Items)
  <2>1. MachineReady
    BY DEF MeasureInv, Modes
  <2> QED BY <2>1, WorkFacts
<1>2. CASE bench.mode = "VM"
  <2>1. Plain(bench.vm)
    BY <1>1, <1>2 DEF MachineReady
  <2> QED BY <1>1, <1>2, <2>1, PlainExecution, LabelFacts
<1>3. CASE bench.mode = "cold"
  <2>1. Executed(JitMachine, execution)
    BY <1>1, <1>3 DEF MachineReady
  <2> QED BY <1>1, <1>3, <2>1, ColdExecution, LabelFacts
<1>4. CASE bench.mode = "warmed"
  <2>1. Warmed(bench.vm)
    BY <1>1, <1>4 DEF MachineReady
  <2>2. Warmed(execution.vm) /\ FromWarm(execution.work)
    BY <2>1, WarmExecution
  <2>3. measured["warmed"] \in Seq(Seq(Items)) /\ CompiledOnce(measured["warmed"])
        /\ HotSince(measured["warmed"], bench.vm)
    BY <1>4 DEF MeasureInv, Modes
  <2>4. /\ CompiledOnce(Append(measured["warmed"], execution.work))
        /\ HotSince(Append(measured["warmed"], execution.work), execution.vm)
    BY <2>3, RoundsCompileOnce
  <2> QED BY <1>1, <1>4, <2>2, <2>4, LabelFacts
<1> QED BY <1>2, <1>3, <1>4 DEF Modes

\* One round of a measurement.
LEMMA RoundAdded ==
  ASSUME MeasureInv, NEW mode \in Modes, bench.mode = mode, bench.created,
         Executed(bench.vm, execution), execution.done > 0,
         bench.round < Iterations, bench' = AfterRound(execution.vm),
         measured' = [measured EXCEPT ![mode] = Append(measured[mode], execution.work)],
         Iterations' = Iterations, Iterations \in Nat, stderr' = stderr
  PROVE  MeasureInv'
<1> DEFINE vm == execution.vm
           work == execution.work
<1>1. /\ bench \in Benches /\ MachineReady /\ bench.timed = <<>> /\ bench.round \in Nat
      /\ measured \in [Modes -> Seq(Seq(Items))]
      /\ measured[mode] \in Seq(Labels[mode]) /\ Len(measured[mode]) = bench.round
  BY MeasureFacts DEF MeasureInv, Modes
<1>2. /\ work \in Labels[mode] /\ vm \in Machines /\ work \in Seq(Items)
      /\ mode = "VM" => Plain(vm)
      /\ mode = "warmed" =>
           /\ Warmed(vm) /\ CompiledOnce(Append(measured["warmed"], work))
           /\ HotSince(Append(measured["warmed"], work), vm)
  BY RoundDone
<1> HIDE DEF vm, work
<1>3. measured' = [measured EXCEPT ![mode] = Append(measured[mode], work)] /\ bench' = AfterRound(vm)
  BY DEF vm, work
<1>4. /\ Append(measured[mode], work) \in Seq(Labels[mode])
      /\ Len(Append(measured[mode], work)) = bench.round + 1
  <2> DEFINE before == measured[mode]
  <2>1. before \in Seq(Labels[mode]) /\ work \in Labels[mode] /\ Len(before) = bench.round
    BY <1>1, <1>2
  <2> HIDE DEF before
  <2>2. ASSUME NEW S, NEW s \in Seq(S), NEW x \in S
        PROVE  Append(s, x) \in Seq(S) /\ Len(Append(s, x)) = Len(s) + 1
    OBVIOUS
  <2>3. Append(before, work) \in Seq(Labels[mode]) /\ Len(Append(before, work)) = Len(before) + 1
    BY <2>1, <2>2
  <2> QED BY <2>1, <2>3 DEF before
<1>5. /\ measured'[mode] \in Seq(Labels[mode]) /\ Len(measured'[mode]) = bench.round + 1
      /\ measured'[mode] = Append(measured[mode], work)
      /\ \A m \in Modes \ {mode} : measured'[m] = measured[m]
  BY <1>1, <1>3, <1>4
<1>6. measured' \in [Modes -> Seq(Seq(Items))]
  <2>1. Append(measured[mode], work) \in Seq(Seq(Items))
    <3>1. measured[mode] \in Seq(Seq(Items))
      BY <1>1
    <3> QED BY <1>2, <3>1, AppendProperties
  <2> QED BY <1>1, <1>3, <2>1
<1>7. bench' \in Benches /\ bench'.mode = mode /\ bench'.warmed = bench.warmed
      /\ bench'.round = bench.round + 1
      /\ (bench'.clock => bench'.created)
      /\ (mode = "cold" => bench'.created = FALSE)
      /\ (mode # "cold" => bench'.vm = vm /\ bench'.created = bench.created)
  <2>1. bench.clock \in BOOLEAN /\ bench.created \in BOOLEAN /\ bench.round + 1 \in Nat
    BY <1>1 DEF Benches
  <2>2. NoMachine \in Machines
    BY NewMachines
  <2>3. CASE mode = "cold"
    BY <1>1, <1>2, <1>3, <2>1, <2>2, <2>3 DEF AfterRound, Benches
  <2>4. CASE mode # "cold"
    <3>1. bench' = [bench EXCEPT !.round = bench.round + 1, !.vm = vm, !.timed = <<>>]
      BY <1>3, <2>4 DEF AfterRound
    <3> QED BY <1>1, <1>2, <2>1, <2>4, <3>1 DEF Benches
  <2> QED BY <2>3, <2>4
<1>8. MachineReady'
  <2>1. CASE mode = "VM"
    BY <1>2, <1>7, <2>1 DEF MachineReady
  <2>2. CASE mode = "cold"
    BY <1>7, <2>2 DEF MachineReady
  <2>3. CASE mode = "warmed"
    BY <1>1, <1>2, <1>7, <2>3 DEF MachineReady
  <2> QED BY <2>1, <2>2, <2>3 DEF Modes
<1>9. \A m \in Past(mode) : Made(m)'
  <2>1. \A m \in Past(mode) : m \in Modes \ {mode} /\ Made(m)
    BY DEF Past, Modes, MeasureInv
  <2> QED BY <1>5, <2>1, MadeKept
<1>10. \A m \in Modes \ (Past(mode) \cup {mode}) : measured'[m] = <<>>
  <2>1. \A m \in Modes \ (Past(mode) \cup {mode}) : measured[m] = <<>>
    BY DEF MeasureInv, Modes
  <2> QED BY <1>5, <2>1
<1>11. CompiledOnce(measured'["warmed"]) /\ (mode = "warmed" => HotSince(measured'["warmed"], bench'.vm))
  <2>1. CASE mode = "warmed"
    BY <1>2, <1>5, <1>7, <2>1
  <2>2. CASE mode # "warmed"
    <3>1. measured'["warmed"] = measured["warmed"]
      BY <1>5, <2>2 DEF Modes
    <3> QED BY <2>2, <3>1, MeasureFacts
  <2> QED BY <2>1, <2>2
<1>12. bench'.round <= Iterations' /\ Warmed(bench'.warmed)
  BY <1>1, <1>7, MeasureFacts
<1> QED BY <1>5, <1>6, <1>7, <1>8, <1>9, <1>10, <1>11, <1>12 DEF MeasureInv

LEMMA RoundEnds ==
  ASSUME ReadingInv, StreamsInv, BenchmarkInv, EndRound
  PROVE  BenchmarkStep
<1>1. /\ bench.mode \in DOMAIN measured /\ pc' = "measure"
      /\ UNCHANGED <<arguments, parsed, program, silenced, execution, exitCode>>
  BY DEF EndRound, files
<1>2. PICK failed \in BOOLEAN :
        /\ Ends(failed)
        /\ stdout' = stdout \o Shown(Output) /\ stderr' = stderr \o ErrorOf(failed)
        /\ IF failed
           THEN /\ bench' = BeginNext
                /\ measured' = [measured EXCEPT ![bench.mode] = <<>>]
           ELSE /\ bench' = AfterRound(execution.vm)
                /\ measured' = [measured EXCEPT ![bench.mode] = Append(@, execution.work)]
  BY DEF EndRound
<1>3. pc = "execute" /\ execution.done > 0
  BY <1>2 DEF Ends
<1>4. /\ Command = "benchmark" /\ ~AsksForHelp /\ program \in Contents
      /\ MeasureInv /\ bench.mode \in Modes /\ bench.created /\ bench.round < Iterations
      /\ Executed(bench.vm, execution)
      /\ silenced = TRUE /\ stdout = <<>> /\ stderr \in Seq({Message("runtime error")})
      /\ exitCode = Running
  <2>1. Command \in {"run", "benchmark"} /\ ~AsksForHelp
    BY <1>3 DEF StreamsInv
  <2>2. ASSUME NoMeasurement, NEW mode, NEW warmed, Idle(mode, warmed), mode \notin Modes PROVE FALSE
    BY <1>1, <2>2 DEF NoMeasurement, Idle, Modes
  <2>3. Command = "benchmark"
    <3>1. Command # "run"
      BY <1>3, <2>2 DEF BenchmarkInv, Modes
    <3> QED BY <2>1, <3>1
  <2>4. /\ MeasureInv /\ bench.mode \in Modes /\ bench.created /\ bench.round < Iterations
        /\ Executed(bench.vm, execution)
    BY <1>3, <2>2, <2>3 DEF BenchmarkInv, Modes
  <2> QED BY <1>3, <2>1, <2>3, <2>4 DEF StreamsInv
<1>5. stdout' = <<>>
  BY <1>2, <1>4, OutputKept
<1>6. Iterations' = Iterations /\ Iterations \in Nat
  <2>1. Iterations' = Iterations
    BY <1>1 DEF Iterations
  <2>2. Iterations \in 1 .. MaxIterations
    BY <1>3, <1>4, OptionsAsMeant
  <2> QED BY <2>1, <2>2
<1>7. PICK mode \in Modes : mode = bench.mode
  BY <1>4
<1>8. measured \in [Modes -> Seq(Seq(Items))] /\ CompiledOnce(measured["warmed"])
  BY <1>4, MeasureFacts
<1>9. CASE failed
  <2>1. stderr' = stderr \o <<Message("runtime error")>>
    BY <1>2, <1>9 DEF ErrorOf
  <2>2. stderr' \in Seq({Message("runtime error")}) /\ stderr' # <<>>
    <3>1. stderr \in Seq({Message("runtime error")})
      BY <1>4
    <3> QED BY <2>1, <3>1, OneMore
  <2>3. measured' = [measured EXCEPT ![mode] = <<>>] /\ bench' = BeginNext
    BY <1>2, <1>7, <1>9
  <2>4. measured' \in [Modes -> Seq(Seq(Items))] /\ measured'[mode] = <<>>
        /\ \A m \in Modes \ {mode} : measured'[m] = measured[m]
    BY <1>8, <2>3, EmptySeq
  <2>5. Made(mode)'
    BY <2>2, <2>4 DEF Made
  <2>6. CompiledOnce(measured'["warmed"])
    <3>1. CompiledOnce(<<>>)
      BY DEF CompiledOnce
    <3>2. measured'["warmed"] = measured["warmed"] \/ measured'["warmed"] = <<>>
      BY <2>4 DEF Modes
    <3> QED BY <1>8, <3>1, <3>2
  <2>7. MeasureInv'
    BY <1>4, <1>6, <1>7, <2>2, <2>3, <2>4, <2>5, <2>6, NextMeasurement
  <2> QED BY <1>1, <1>3, <1>4, <1>5, <2>2, <2>7, Measures
<1>10. CASE ~failed
  <2>1. stderr' = stderr
    BY <1>2, <1>4, <1>10, EmptyBefore DEF ErrorOf
  <2>2. bench' = AfterRound(execution.vm)
        /\ measured' = [measured EXCEPT ![mode] = Append(measured[mode], execution.work)]
    BY <1>2, <1>7, <1>10
  <2>3. MeasureInv'
    BY <1>3, <1>4, <1>6, <1>7, <2>1, <2>2, RoundAdded
  <2> QED BY <1>1, <1>3, <1>4, <1>5, <2>1, <2>3, Measures
<1> QED BY <1>9, <1>10

LEMMA MeasurementEnded ==
  ASSUME ReadingInv, StreamsInv, BenchmarkInv, EndMeasurement
  PROVE  BenchmarkStep
<1>1. /\ pc = "measure" /\ pc' = "measure" /\ bench.mode # "report"
      /\ bench.round = Iterations /\ bench' = BeginNext /\ measured' = measured
      /\ UNCHANGED <<arguments, parsed, program, silenced, exitCode, stdout, stderr>>
  BY DEF EndMeasurement, Measuring, Silent, files
<1>2. /\ MeasureInv /\ stdout = <<>> /\ stderr \in Seq({Message("runtime error")}) /\ Iterations \in Nat
  BY <1>1, MeasuringFacts
<1>3. PICK mode \in Modes : mode = bench.mode
  BY <1>1, <1>2, MeasureFacts
<1>4. Iterations' = Iterations
  BY <1>1 DEF Iterations
<1>5. Made(mode)'
  <2>1. measured[mode] \in Seq(Labels[mode]) /\ Len(measured[mode]) = Iterations
    BY <1>1, <1>2, <1>3 DEF MeasureInv
  <2> QED BY <1>1, <1>4, <2>1 DEF Made
<1>6. /\ measured' \in [Modes -> Seq(Seq(Items))] /\ stderr' = stderr
      /\ CompiledOnce(measured'["warmed"])
  BY <1>1, <1>2, MeasureFacts
<1>7. MeasureInv'
  BY <1>1, <1>2, <1>3, <1>4, <1>5, <1>6, NextMeasurement
<1> QED BY <1>1, <1>2, <1>7, MeasuringFacts, Measures DEF StreamsInv, BenchmarkInv

LEMMA SilenceEnds ==
  ASSUME ReadingInv, StreamsInv, BenchmarkInv, EndSilence
  PROVE  BenchmarkStep
<1>1. /\ pc = "measure" /\ pc' = "report" /\ bench.mode = "report" /\ silenced' = FALSE
      /\ arguments' = arguments /\ parsed' = parsed /\ bench' = bench /\ measured' = measured
      /\ exitCode' = exitCode /\ stdout' = stdout /\ stderr' = stderr
  BY DEF EndSilence, RestoreOutput, Silent, files
<1>2. /\ MeasureInv /\ stdout = <<>> /\ stderr \in Seq({Message("runtime error")}) /\ exitCode = Running
      /\ Command = "benchmark" /\ ~AsksForHelp
  BY <1>1 DEF StreamsInv, BenchmarkInv
<1>3. Command' = Command /\ AsksForHelp' = AsksForHelp
  BY <1>1, SameLine
<1>4. StreamsInv'
  BY <1>1, <1>2, <1>3 DEF StreamsInv
<1>5. MeasureInv'
  <2>1. \A m \in Past(bench.mode) : Made(m)'
    BY <1>1, <1>2 DEF MeasureInv, Made, Iterations
  <2> QED BY <1>1, <1>2, <2>1 DEF MeasureInv
<1>6. BenchmarkInv'
  BY <1>1, <1>5 DEF BenchmarkInv, Early
<1> QED BY <1>1, <1>2, <1>4, <1>6, NotDone DEF BenchmarkStep

LEMMA ReportMade ==
  ASSUME ReadingInv, StreamsInv, BenchmarkInv, Report
  PROVE  BenchmarkStep
<1>1. /\ pc = "report" /\ arguments' = arguments /\ parsed' = parsed /\ measured' = measured
      /\ silenced' = silenced
  BY DEF Report, benchmark
<1>2. /\ MeasureInv /\ bench.mode = "report" /\ silenced = FALSE
      /\ stdout = <<>> /\ stderr \in Seq({Message("runtime error")}) /\ exitCode = Running
      /\ Command = "benchmark" /\ ~AsksForHelp
  BY <1>1 DEF StreamsInv, BenchmarkInv
<1>3. Command' = Command /\ AsksForHelp' = AsksForHelp /\ Meant' = Meant
  BY <1>1, SameLine
<1>4. parsed.options = Meant /\ Iterations \in 1 .. MaxIterations
  BY <1>1, <1>2, OptionsAsMeant
<1>5. \A m \in Modes : Made(m)
  BY <1>2 DEF MeasureInv, Past, Modes
<1>6. DOMAIN measured = Modes
  BY <1>2, MeasureFacts
<1> DEFINE full == \A m \in DOMAIN measured : measured[m] # <<>>
<1>7. stderr \o <<>> = stderr /\ <<>> \o <<>> = <<>>
  BY <1>2, EmptyBefore, EmptySeq
<1>8. CASE full
  <2>1. Exit(0, <<"table">>, <<>>)
    BY <1>8 DEF Report
  <2>2. <<>> \o <<"table">> = <<"table">>
    <3>1. <<"table">> \in Seq({"table"})
      OBVIOUS
    <3> QED BY <3>1, EmptyBefore
  <2>3. pc' = "done" /\ exitCode' = 0 /\ stderr' = stderr /\ stdout' = <<"table">>
    BY <1>2, <1>7, <2>1, <2>2 DEF Exit, Shown
  <2>4. TraceExact'
    <3>1. ~TraceAsked'
      BY <1>2, <1>3 DEF TraceAsked
    <3> QED BY <1>2, <2>3, <3>1, NoTrace
  <2>5. EveryEndIsExplained'
    BY <1>1, <1>2, <1>3, <2>3, <2>4, SuccessExplained
  <2>6. \A m \in Modes : measured[m] \in Seq(Labels[m]) /\ Len(measured[m]) = Iterations
    BY <1>5, <1>6, <1>8 DEF Made
  <2>7. Iterations = Meant.iterations
    BY <1>4 DEF Iterations
  <2>8. ASSUME NEW m \in Modes, NEW k \in 1 .. Iterations PROVE measured[m][k] \in Labels[m]
    BY <2>6, ElementOfSeq
  <2>9. MeasuredAsLabelled'
    <3>1. \A m \in DOMAIN measured' : Len(measured'[m]) = Meant'.iterations
      BY <1>1, <1>3, <1>6, <2>6, <2>7
    <3>2. ASSUME NEW k \in 1 .. Meant'.iterations
          PROVE  /\ InterpretedOnly(measured'["VM"][k])
                 /\ FromCold(measured'["cold"][k]) /\ CompiledOnce(<<measured'["cold"][k]>>)
                 /\ FromWarm(measured'["warmed"][k])
                 /\ \A m \in DOMAIN measured' : \A j \in DOMAIN measured'[m][k] :
                      measured'[m][k][j].what # "create"
      <4>1. k \in 1 .. Iterations /\ "VM" \in Modes /\ "cold" \in Modes /\ "warmed" \in Modes
        BY <1>3, <2>7 DEF Modes
      <4>2. /\ measured["VM"][k] \in Labels["VM"] /\ measured["cold"][k] \in Labels["cold"]
            /\ measured["warmed"][k] \in Labels["warmed"]
        BY <2>8, <4>1
      <4>3. \A m \in Modes : measured[m][k] \in Seq(Items)
        BY <2>8, <4>1, LabelFacts
      <4>4. /\ InterpretedOnly(measured["VM"][k])
            /\ FromCold(measured["cold"][k]) /\ CompiledOnce(<<measured["cold"][k]>>)
            /\ FromWarm(measured["warmed"][k])
        BY <4>1, <4>2, <4>3, LabelFacts
      <4>5. \A m \in Modes : \A j \in DOMAIN measured[m][k] : measured[m][k][j].what # "create"
        <5> SUFFICES ASSUME NEW m \in Modes, NEW j \in DOMAIN measured[m][k]
                     PROVE  measured[m][k][j].what # "create"
          OBVIOUS
        <5>1. measured[m][k][j] \in Items
          BY <4>3, ElementOfSeq, LenProperties
        <5> QED BY <5>1 DEF Items
      <4> QED BY <1>1, <1>6, <4>4, <4>5
    <3>3. CompiledOnce(measured'["warmed"])
      BY <1>1, <1>2, MeasureFacts
    <3> QED BY <3>1, <3>2, <3>3 DEF MeasuredAsLabelled
  <2>10. StreamsInv' /\ BenchmarkInv'
    BY <1>1, <1>2, <2>3 DEF StreamsInv, BenchmarkInv, Early
  <2> QED BY <2>5, <2>9, <2>10 DEF BenchmarkStep
<1>9. CASE ~full
  <2>1. Exit(1, <<>>, <<>>)
    BY <1>9 DEF Report
  <2>2. pc' = "done" /\ exitCode' = 1 /\ stderr' = stderr /\ stdout' = <<>>
    BY <1>2, <1>7, <2>1 DEF Exit, Shown
  <2>3. stderr # <<>>
    <3>1. PICK m \in Modes : measured[m] = <<>>
      BY <1>6, <1>9
    <3>2. Made(m)
      BY <1>5
    <3>3. Len(measured[m]) # Iterations
      BY <1>4, <3>1
    <3> QED BY <3>2, <3>3 DEF Made
  <2>4. exitCode' # 0 /\ TraceExact' /\ \E k \in DOMAIN stderr' : stderr'[k].text # "hot"
    <3>1. ~TraceAsked'
      BY <1>2, <1>3 DEF TraceAsked
    <3>2. TraceExact'
      BY <1>2, <2>2, <3>1, NoTrace
    <3>3. 1 \in DOMAIN stderr /\ stderr[1] \in {Message("runtime error")}
      <4>1. Len(stderr) \in Nat \ {0} /\ DOMAIN stderr = 1 .. Len(stderr)
        BY <1>2, <2>3, LenProperties, EmptySeq
      <4>2. 1 \in 1 .. Len(stderr)
        BY <4>1
      <4> QED BY <1>2, <4>1, <4>2, ElementOfSeq
    <3>4. stderr[1].text # "hot"
      <4>1. stderr[1] = Message("runtime error")
        BY <3>3
      <4>2. Message("runtime error").text # "hot"
        BY DEF Message
      <4> QED BY <4>1, <4>2
    <3>5. \E k \in DOMAIN stderr : stderr[k].text # "hot"
      BY <3>3, <3>4
    <3> QED BY <2>2, <3>2, <3>5
  <2>5. EveryEndIsExplained'
    BY <1>1, <1>2, <2>2, <2>4, FailureExplained
  <2>6. StreamsInv' /\ BenchmarkInv' /\ MeasuredAsLabelled'
    BY <1>1, <1>2, <2>2, <2>4 DEF StreamsInv, BenchmarkInv, MeasuredAsLabelled, Early
  <2> QED BY <2>5, <2>6 DEF BenchmarkStep
<1> QED BY <1>8, <1>9

-----------------------------------------------------------------------------
(* The whole of a run.                                                     *)

LEMMA BeforeBenchmark ==
  ASSUME BenchmarkInv, pc \in Early, UNCHANGED benchmark, pc' \in Early \cup {"done"}
  PROVE  BenchmarkInv'
<1>1. NoMeasurement /\ Idle("none", NoMachine) /\ execution = NoExecution
  BY DEF BenchmarkInv
<1>2. measured' = measured /\ bench' = bench /\ execution' = execution
  BY DEF benchmark
<1>3. NoMeasurement' /\ Idle("none", NoMachine)' /\ execution' = NoExecution
  BY <1>1, <1>2 DEF NoMeasurement, Idle
<1> QED BY <1>3 DEF BenchmarkInv, Early

LEMMA NotZero ==
  ASSUME NEW code \in {1, 2}, NEW err, Exit(code, <<>>, err)
  PROVE  pc' = "done" /\ exitCode' # 0
<1>1. pc' = "done" /\ exitCode' = code
  BY DEF Exit
<1>2. code # 0
  OBVIOUS
<1> QED BY <1>1, <1>2

\* What refuses the line or the file.
Refusals ==
  \/ RefuseCommand \/ RefuseArgument \/ (EndOptions /\ parsed.path = "")
  \/ ReadFileFails \/ FailStage \/ FindEntryFails

LEMMA Refuses ==
  ASSUME ReadingInv, StreamsInv, BenchmarkInv, Refusals
  PROVE  BenchmarkStep
<1>1. \E code \in {1, 2}, text \in {"usage", "unable to read", "diagnostic", "E5001"} :
        Exit(code, <<>>, <<Message(text)>>)
  BY DEF Refusals, RefuseCommand, RefuseArgument, EndOptions, ReadFileFails, FailStage, FindEntryFails,
         UsageError, Failure
<1>2. pc \in Early /\ UNCHANGED <<arguments, benchmark>>
  BY DEF Refusals, RefuseCommand, RefuseArgument, EndOptions, ReadFileFails, FailStage, FindEntryFails,
         AtArgument, AtStage, EntryFound, StagesPassed, Early
<1>3. PICK code \in {1, 2}, text \in {"usage", "unable to read", "diagnostic", "E5001"} :
        Exit(code, <<>>, <<Message(text)>>)
  BY <1>1
<1>4. StreamsInv' /\ EveryEndIsExplained'
  <2>1. text # "hot"
    OBVIOUS
  <2> QED BY <1>2, <1>3, <2>1, RefusalEnds
<1>5. pc' = "done" /\ exitCode' # 0
  BY <1>3, NotZero
<1>6. BenchmarkInv'
  BY <1>2, <1>5, BeforeBenchmark
<1>7. MeasuredAsLabelled'
  BY <1>5 DEF MeasuredAsLabelled
<1> QED BY <1>4, <1>6, <1>7 DEF BenchmarkStep

\* What goes on with the line or the file.
Continuations ==
  \/ BeginInspection \/ BeginOptions \/ TakeOption \/ TakePath
  \/ (EndOptions /\ parsed.path # "") \/ ReadFile \/ PassStage

LEMMA GoesOn ==
  ASSUME ReadingInv, StreamsInv, BenchmarkInv, Continuations
  PROVE  BenchmarkStep
<1>1. pc \in Early /\ pc' \in Early /\ Silent /\ UNCHANGED <<arguments, benchmark>>
  BY DEF Continuations, BeginInspection, BeginOptions, TakeOption, TakePath, EndOptions, ReadFile, PassStage,
         AtArgument, AtStage, Early
<1>2. \/ pc' \in {"command", "options"}
      \/ pc' \in {"read", "stages"} /\ Command \in Commands /\ ~AsksForHelp
  <2>1. CASE BeginInspection
    BY <2>1 DEF BeginInspection, Commands
  <2>2. CASE BeginOptions \/ TakeOption \/ TakePath
    BY <2>2 DEF BeginOptions, TakeOption, TakePath, AtArgument
  <2>3. CASE EndOptions /\ parsed.path # ""
    <3>1. pc = "options" /\ pc' = "read"
      BY <2>3 DEF EndOptions
    <3>2. Command \in {"run", "benchmark"} /\ ~AsksForHelp
      BY <3>1 DEF ReadingInv
    <3> QED BY <3>1, <3>2, CommandNames
  <2>4. CASE ReadFile \/ PassStage
    <3>1. pc \in {"read", "stages"} /\ pc' \in {"read", "stages"}
      BY <2>4 DEF ReadFile, PassStage, AtStage
    <3> QED BY <3>1 DEF StreamsInv
  <2> QED BY <2>1, <2>2, <2>3, <2>4 DEF Continuations
<1>3. pc' = "stages" => program' \in Contents
  <2>1. CASE ReadFile
    BY <2>1, InputsAssumption DEF ReadFile
  <2>2. CASE PassStage
    BY <2>2 DEF PassStage, AtStage, StreamsInv
  <2>3. CASE BeginInspection \/ BeginOptions \/ TakeOption \/ TakePath \/ EndOptions
    BY <2>3 DEF BeginInspection, BeginOptions, TakeOption, TakePath, EndOptions, AtArgument,
                UsageError, Exit
  <2> QED BY <2>1, <2>2, <2>3 DEF Continuations
<1>4. silenced' = silenced /\ arguments' = arguments
  BY <1>1 DEF benchmark
<1>5. StreamsInv' /\ EveryEndIsExplained'
  BY <1>1, <1>2, <1>3, <1>4, SilentStep DEF Early
<1>6. BenchmarkInv'
  BY <1>1, BeforeBenchmark
<1>7. MeasuredAsLabelled'
  <2>1. exitCode' = Running
    BY <1>1, BeforeRunning DEF Silent, Early
  <2>2. exitCode' # 0
    BY <2>1 DEF Running
  <2> QED BY <2>2 DEF MeasuredAsLabelled
<1> QED BY <1>5, <1>6, <1>7 DEF BenchmarkStep

\* What ends with something printed, without a benchmark.
LEMMA Prints ==
  ASSUME ReadingInv, StreamsInv, BenchmarkInv, ShowHelp \/ ShowVersion \/ Dump \/ EndRun
  PROVE  BenchmarkStep
<1>1. StreamsInv' /\ EveryEndIsExplained'
  BY HelpEnds, VersionEnds, DumpEnds, RunEnds
<1>2. pc' = "done" /\ UNCHANGED <<arguments, benchmark>>
  BY DEF ShowHelp, ShowVersion, Dump, EndRun, Exit, Failure
<1>3. BenchmarkInv'
  BY <1>2 DEF BenchmarkInv, Early
<1>4. AsksForHelp \/ Command # "benchmark"
  <2>1. CASE ShowHelp
    BY <2>1 DEF ShowHelp
  <2>2. CASE ShowVersion
    BY <2>2 DEF ShowVersion
  <2>3. CASE Dump
    BY <2>3, CommandNames DEF Dump
  <2>4. CASE EndRun
    BY <2>4 DEF EndRun
  <2> QED BY <2>1, <2>2, <2>3, <2>4
<1>5. MeasuredAsLabelled'
  BY <1>2, <1>4, SameLine DEF MeasuredAsLabelled
<1> QED BY <1>1, <1>3, <1>5 DEF BenchmarkStep

LEMMA Stutters ==
  ASSUME StreamsInv, BenchmarkInv, EveryEndIsExplained, MeasuredAsLabelled, UNCHANGED vars
  PROVE  BenchmarkStep
<1>1. /\ arguments' = arguments /\ parsed' = parsed /\ pc' = pc /\ program' = program
      /\ stdout' = stdout /\ stderr' = stderr /\ exitCode' = exitCode
      /\ silenced' = silenced /\ bench' = bench /\ measured' = measured /\ execution' = execution
  BY DEF vars, files, benchmark
<1>2. Command' = Command /\ AsksForHelp' = AsksForHelp /\ Meant' = Meant
  BY <1>1, SameLine
<1>3. StreamsInv'
  BY <1>1, <1>2 DEF StreamsInv
<1>4. MeasureInv => MeasureInv'
  BY <1>1, MeasureKept
<1>5. NoMeasurement' = NoMeasurement /\ Idle("none", NoMachine)' = Idle("none", NoMachine)
      /\ Idle("warming", JitMachine)' = Idle("warming", JitMachine)
  BY <1>1 DEF NoMeasurement, Idle
<1>6. BenchmarkInv'
  <2>1. Traced(execution)' = Traced(execution)
    BY <1>1 DEF Traced, RunMachine
  <2>2. /\ Executed(JitMachine, execution)' = Executed(JitMachine, execution)
        /\ Executed(bench.vm, execution)' = Executed(bench.vm, execution)
        /\ Iterations' = Iterations
    BY <1>1 DEF Iterations
  <2> QED BY <1>1, <1>2, <1>4, <1>5, <2>1, <2>2 DEF BenchmarkInv
<1>7. EveryEndIsExplained'
  <2>1. TraceExact' = TraceExact
    BY <1>1, <1>2 DEF TraceExact, TraceAsked, HotFunctions, Invoked, Invocations
  <2> QED BY <1>1, <1>2, <2>1 DEF EveryEndIsExplained
<1>8. MeasuredAsLabelled'
  BY <1>1, <1>2 DEF MeasuredAsLabelled
<1> QED BY <1>3, <1>6, <1>7, <1>8 DEF BenchmarkStep

LEMMA CommandStart ==
  ASSUME Init
  PROVE  CommandInv
<1>1. ReadingInv
  BY ReadingStart
<1>2. pc = "command" /\ exitCode = Running /\ stdout = <<>> /\ stderr = <<>> /\ silenced = FALSE
  BY DEF Init
<1>3. StreamsInv
  BY <1>2 DEF StreamsInv
<1>4. BenchmarkInv
  <2>1. NoMeasurement /\ Idle("none", NoMachine) /\ execution = NoExecution
    BY DEF Init, NoMeasurement, Idle
  <2> QED BY <1>2, <2>1 DEF BenchmarkInv
<1>5. EveryEndIsExplained /\ MeasuredAsLabelled
  BY <1>2 DEF EveryEndIsExplained, MeasuredAsLabelled, Running
<1> QED BY <1>1, <1>3, <1>4, <1>5 DEF CommandInv

LEMMA CommandStep ==
  ASSUME CommandInv, [Next]_vars
  PROVE  CommandInv'
<1>1. ReadingInv /\ StreamsInv /\ BenchmarkInv /\ EveryEndIsExplained /\ MeasuredAsLabelled
  BY DEF CommandInv
<1>2. ReadingInv'
  BY <1>1, ReadingStep
<1>3. BenchmarkStep
  <2>1. CASE RefuseCommand \/ RefuseArgument \/ ReadFileFails \/ FailStage \/ FindEntryFails
    BY <1>1, <2>1, Refuses DEF Refusals
  <2>2. CASE EndOptions
    BY <1>1, <2>2, Refuses, GoesOn DEF Refusals, Continuations
  <2>3. CASE BeginInspection \/ BeginOptions \/ TakeOption \/ TakePath \/ ReadFile \/ PassStage
    BY <1>1, <2>3, GoesOn DEF Continuations
  <2>4. CASE ShowHelp \/ ShowVersion \/ Dump \/ EndRun
    BY <1>1, <2>4, Prints
  <2>5. CASE RunVm
    BY <1>1, <2>5, RunBegins
  <2>6. CASE Invoke
    BY <1>1, <2>6, RunsOn
  <2>7. CASE BeginBenchmark
    BY <1>1, <2>7, BenchmarkBegins
  <2>8. CASE WarmUp \/ EndWarmUp
    BY <1>1, <2>8, WarmUpBegins, WarmUpEnds
  <2>9. CASE CreateMachine \/ StartClock
    BY <1>1, <2>9, MachineCreated, ClockStarted
  <2>10. CASE Iterate \/ EndRound
    BY <1>1, <2>10, RoundBegins, RoundEnds
  <2>11. CASE EndMeasurement
    BY <1>1, <2>11, MeasurementEnded
  <2>12. CASE EndSilence \/ Report
    BY <1>1, <2>12, SilenceEnds, ReportMade
  <2>13. CASE UNCHANGED vars
    BY <1>1, <2>13, Stutters
  <2> QED BY <2>1, <2>2, <2>3, <2>4, <2>5, <2>6, <2>7, <2>8, <2>9, <2>10, <2>11, <2>12, <2>13 DEF Next
<1> QED BY <1>2, <1>3 DEF CommandInv, BenchmarkStep

\* The invariant of a run of main: what it has read, what it has written and what
\* its executions have done.
THEOREM CommandInductive == Spec => []CommandInv
<1>1. Init => CommandInv
  BY CommandStart
<1>2. CommandInv /\ [Next]_vars => CommandInv'
  BY CommandStep
<1> QED BY <1>1, <1>2, PTL DEF Spec

\* Code 2 is given to the lines without a meaning and to no other, and what is
\* done with any other goes by what all its arguments say.
THEOREM UsageIsExact == Spec => []UsageExact
<1>1. CommandInv => UsageExact
  BY DEF CommandInv, ReadingInv
<1> QED BY <1>1, CommandInductive, PTL

\* However main ends, its code is explained by what it has written, and a trace
\* names exactly the functions, entry or callee, that the execution invoked as often
\* as its threshold, whatever their number and whatever the execution called.
THEOREM EndsAreExplained == Spec => []EveryEndIsExplained
<1>1. CommandInv => EveryEndIsExplained
  BY DEF CommandInv
<1> QED BY <1>1, CommandInductive, PTL

\* A table that is printed is of what its labels say, in the invocations of every
\* function a timed round has called.
THEOREM TablesAreLabelled == Spec => []MeasuredAsLabelled
<1>1. CommandInv => MeasuredAsLabelled
  BY DEF CommandInv
<1> QED BY <1>1, CommandInductive, PTL
=============================================================================
