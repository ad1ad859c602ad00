----------------------------- MODULE EmberCalls -----------------------------
(***************************************************************************)
(* What an Ember program may observe of calls: one chain of live user      *)
(* invocations with a budget of MaxFrames, an outcome for the execution,   *)
(* and a profile that counts every invocation.  There are no tiers here:   *)
(* no native code, no call bridge, no C++ stack.  TieredRuntime is the     *)
(* machine that has them, and it implements this specification.            *)
(***************************************************************************)
EXTENDS Profiling

CONSTANTS
  Fns,        \* the user functions of the verified program
  MaxFrames   \* maximumFrameCount: live user invocations of one execution

VARIABLES
  options,    \* RuntimeOptions of the virtual machine; jitEnabled is not read
  calls,      \* the functions invoked and not yet returned, oldest first
  profile,    \* [Fns -> ProfilingCounters], kept from execution to execution
  hotEvents,  \* hotEvents of the execution report
  outcome     \* of the current or the last execution

vars == <<options, calls, profile, hotEvents, outcome>>

Init ==
  /\ options \in RuntimeOptions
  /\ calls = <<>>
  /\ profile = [f \in Fns |-> NeverInvoked]
  /\ hotEvents = <<>>
  /\ outcome = "idle"

\* One invocation of f is counted, and reported if it makes f hot.
Counted(f, events) ==
  IF options.profilingEnabled
  THEN /\ profile' = [profile EXCEPT ![f] = RecordInvocation(@, options.hotThreshold)]
       /\ hotEvents' = IF BecomesHot(profile[f], options.hotThreshold)
                       THEN Append(events, HotEvent(f, profile'[f]))
                       ELSE events
  ELSE profile' = profile /\ hotEvents' = events

Running == outcome = "running"

Begin(f) ==
  /\ ~Running
  /\ Counted(f, <<>>)
  /\ calls' = <<f>>
  /\ outcome' = "running"
  /\ UNCHANGED options

\* The embedder names no user function, or passes arguments of a wrong type.
Reject ==
  /\ ~Running
  /\ outcome' = "R5002"
  /\ hotEvents' = <<>>
  /\ UNCHANGED <<options, calls, profile>>

Call(f) ==
  /\ Running
  /\ Len(calls) < MaxFrames
  /\ Counted(f, hotEvents)
  /\ calls' = Append(calls, f)
  /\ UNCHANGED <<options, outcome>>

Fail(error) ==
  /\ calls' = <<>>
  /\ outcome' = error

\* The call that exceeds the budget fails before it is counted.
Overflow ==
  /\ Running
  /\ Len(calls) = MaxFrames
  /\ Fail("R5006")
  /\ UNCHANGED <<options, profile, hotEvents>>

InvalidDivision ==
  /\ Running
  /\ Fail("R5004")
  /\ UNCHANGED <<options, profile, hotEvents>>

Return ==
  /\ Running
  /\ calls' = SubSeq(calls, 1, Len(calls) - 1)
  /\ outcome' = IF Len(calls) = 1 THEN "ok" ELSE "running"
  /\ UNCHANGED <<options, profile, hotEvents>>

\* The invocation is counted, but memory runs out before its event is recorded.
Unreported(f, events) ==
  /\ options.profilingEnabled
  /\ BecomesHot(profile[f], options.hotThreshold)
  /\ profile' = [profile EXCEPT ![f] = RecordInvocation(@, options.hotThreshold)]
  /\ hotEvents' = events

\* Memory runs out while the first invocation is made ...
AbortBegin(f) ==
  /\ ~Running
  /\ Fail("aborted")
  /\ Counted(f, <<>>) \/ Unreported(f, <<>>)
  /\ UNCHANGED options

\* ... or later, between two calls or in the call that is being made.
Abort ==
  /\ Running
  /\ Fail("aborted")
  /\ \/ UNCHANGED <<profile, hotEvents>>
     \/ \E f \in Fns : Counted(f, hotEvents) \/ Unreported(f, hotEvents)
  /\ UNCHANGED options

Next ==
  \/ \E f \in Fns : Begin(f) \/ AbortBegin(f) \/ Call(f)
  \/ Reject
  \/ Overflow
  \/ InvalidDivision
  \/ Return
  \/ Abort

Spec == Init /\ [][Next]_vars
=============================================================================
