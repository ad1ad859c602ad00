----------------------------- MODULE Profiling -----------------------------
(***************************************************************************)
(* Invocation profiling of one user function (ProfilingCounters and        *)
(* RuntimeFunction::recordInvocation).  The counter is a saturating        *)
(* uint64_t, and a function becomes hot at most once.                      *)
(***************************************************************************)
EXTENDS Integers, Sequences

CONSTANT MaxCount   \* numeric_limits<uint64_t>::max(): the counter saturates

ASSUME MaxCountAssumption == MaxCount \in Nat \ {0}

ProfilingCounters == [invocationCount : 0 .. MaxCount, isHot : BOOLEAN]

NeverInvoked == [invocationCount |-> 0, isHot |-> FALSE]

Saturated(n) == IF n # MaxCount THEN n + 1 ELSE n

\* Seeded fault: one invocation too many before a function is hot.
BecomesHotLate(p, threshold) ==
  threshold # 0 /\ ~p.isHot /\ Saturated(p.invocationCount) > threshold

BecomesHot(p, threshold) ==
  threshold # 0 /\ ~p.isHot /\ Saturated(p.invocationCount) >= threshold

RecordInvocation(p, threshold) ==
  [invocationCount |-> Saturated(p.invocationCount),
   isHot           |-> p.isHot \/ BecomesHot(p, threshold)]

\* HotFunctionEvent: reported by the dispatcher when a function becomes hot.
HotEvent(f, p) == [functionId |-> f, invocationCount |-> p.invocationCount]

RuntimeOptions ==
  [hotThreshold : 0 .. MaxCount, jitEnabled : BOOLEAN, profilingEnabled : BOOLEAN]
=============================================================================
