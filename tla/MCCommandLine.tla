--------------------------- MODULE MCCommandLine ---------------------------
(***************************************************************************)
(* Every line of up to four arguments after "run", of up to three after    *)
(* "benchmark", and of up to two words otherwise; a program for every way  *)
(* out of main, and for what an execution can do: no calls, a callee that  *)
(* is called three times, main called again, a callee that only some       *)
(* executions call, and calls beyond the limit of the bridge.  Counts are  *)
(* 0 to 4, the default threshold is 2, and a benchmark has one iteration   *)
(* if it is not given two.                                                 *)
(***************************************************************************)
EXTENDS CommandLine

Upto(n, parts) == UNION {[1 .. m -> parts] : m \in 0 .. n}
Number(name, value) == [name |-> name, value |-> value]

PathsTried == {Word("a.ember"), Word("b.ember"), Word("")}
RunArguments ==
  {Word("--no-jit"), Word("--trace-jit"), Word("-x"), Number("--iterations=", 1)}
    \cup {Number("--jit-threshold=", n) : n \in {Malformed, 0, 1, 3, MaxCount + 1}} \cup PathsTried
BenchmarkArguments ==
  {Word("--no-jit"), Word("--help")} \cup PathsTried
    \cup {Number("--iterations=", n) : n \in {Malformed, 0, MaxIterations, MaxIterations + 1}}
Others ==
  {Word(c) : c \in DumpCommands \cup {"run", "benchmark", "--help", "help", "--version", "-x", "other", ""}}

MCLines ==
  {<<Word("run")>> \o rest : rest \in Upto(4, RunArguments)}
    \cup {<<Word("benchmark")>> \o rest : rest \in Upto(3, BenchmarkArguments)}
    \cup Upto(2, Others)
    \cup {<<Word("dump-ir"), Word("a.ember"), a>> : a \in Others}

MCFunctions == {"main", "f"}

Sound ==
  [fails |-> "none", callsBuiltin |-> TRUE, main |-> "suitable", functions |-> <<"optimized", "unsupported">>,
   calls |-> {<<"f", "f", "f">>}, compilable |-> MCFunctions, nests |-> FALSE, raises |-> "never"]

MCPrograms ==
  {Sound, [Sound EXCEPT !.callsBuiltin = FALSE]}
    \cup {[Sound EXCEPT !.fails = s] : s \in {"lex", "parse", "analyze", "compile", "verify"}}
    \cup {[Sound EXCEPT !.main = m] : m \in {"missing", "parameters", "returns f64"}}
    \cup {[Sound EXCEPT !.functions = f] :
            f \in {<<"optimized", "lowering failed">>, <<"optimized", "optimization failed">>}}
    \cup {[Sound EXCEPT !.calls = c] : c \in {{<<>>}, {<<"f", "main", "f">>}, {<<>>, <<"f", "f">>}}}
    \cup {[Sound EXCEPT !.compilable = c] : c \in {{}, {"main"}}}
    \cup {[Sound EXCEPT !.raises = r, !.calls = {<<"f", "f">>}] : r \in {"sometimes", "always"}}
    \cup {[Sound EXCEPT !.calls = {<<"f", "main">>}, !.nests = TRUE]}
=============================================================================
