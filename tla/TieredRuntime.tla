--------------------------- MODULE TieredRuntime ---------------------------
(***************************************************************************)
(* The tiered execution of calls: VirtualMachine::execute, executeInternal *)
(* and nativeCallBridge, the dispatcher they share, and the budgets they   *)
(* pass around in NativeCallState.                                         *)
(*                                                                         *)
(* acts is the stack of live user invocations.  Each one was made in one   *)
(* of three ways: as the "entry" of an execution, by a "vmCall" (a call    *)
(* instruction interpreted by the VM, in the same executeInternal), or by  *)
(* the "bridge" (native code calling back into a nested executeInternal).  *)
(* What a function computes is abstracted away: a running invocation may   *)
(* call anything, return, or divide by zero; host calls touch none of this *)
(* state.  Compilation is one atomic choice here (NativePublication has    *)
(* its steps): execution is single-threaded and nothing runs meanwhile.    *)
(***************************************************************************)
EXTENDS Profiling, FiniteSets

CONSTANTS
  Fns,         \* the user functions of the verified program
  MaxFrames,   \* maximumFrameCount (4096)
  MaxBridge    \* maximumNativeBridgeDepth (64)

ASSUME BudgetAssumption == MaxFrames \in Nat \ {0} /\ MaxBridge \in Nat

VARIABLES
  options,            \* RuntimeOptions, fixed when the machine is created
  profile,            \* profiling_ of every function
  nativeCode,         \* the functions with published code: tier_ and nativeCode_
  acts,               \* live user invocations, oldest first
  dynamicFrameCount,  \* NativeCallState of the current or last execution
  nativeBridgeDepth,
  hotEvents,          \* events reported by the current or last execution
  raised,             \* the failure now travelling down the C++ stack, or "none"
  report              \* how the last execution ended; "none" while one runs

vars == <<options, profile, nativeCode, acts, dynamicFrameCount,
          nativeBridgeDepth, hotEvents, raised, report>>

counters == <<dynamicFrameCount, nativeBridgeDepth>>

Activation ==
  [fn : Fns, tier : {"vm", "native"}, via : {"entry", "vmCall", "bridge"},
   forced : BOOLEAN]

Errors == {"R5003", "R5004", "R5006", "badAlloc"}

Init ==
  /\ options \in RuntimeOptions
  /\ profile = [f \in Fns |-> NeverInvoked]
  /\ nativeCode = {}
  /\ acts = <<>>
  /\ dynamicFrameCount = 0
  /\ nativeBridgeDepth = 0
  /\ hotEvents = <<>>
  /\ raised = "none"
  /\ report = "none"

Top == acts[Len(acts)]
Idle == acts = <<>>
Runs(tier) == acts # <<>> /\ raised = "none" /\ Top.tier = tier

-----------------------------------------------------------------------------
(* RuntimeDispatcher::dispatch.                                            *)

BecameHot(f) ==
  options.profilingEnabled /\ BecomesHot(profile[f], options.hotThreshold)

ProfileAfter(f) ==
  IF options.profilingEnabled
  THEN [profile EXCEPT ![f] = RecordInvocation(@, options.hotThreshold)]
  ELSE profile

\* Seeded fault: every call of a hot function tries to compile it again.
CompilationAfterRetried(f) ==
  IF ProfileAfter(f)[f].isHot /\ options.jitEnabled
  THEN {nativeCode, nativeCode \cup {f}}
  ELSE {nativeCode}

\* Only the invocation that makes f hot tries to compile it; any failure
\* leaves the function as it was.
CompilationAfter(f) ==
  IF BecameHot(f) /\ options.jitEnabled
  THEN {nativeCode, nativeCode \cup {f}}
  ELSE {nativeCode}

Dispatch(f, events) ==
  /\ profile' = ProfileAfter(f)
  /\ hotEvents' = IF BecameHot(f)
                  THEN Append(events, HotEvent(f, ProfileAfter(f)[f]))
                  ELSE events
  /\ nativeCode' \in CompilationAfter(f)

\* Recording the event throws: f is already marked hot, and is not compiled.
DispatchThrows(f, events) ==
  /\ BecameHot(f)
  /\ profile' = ProfileAfter(f)
  /\ hotEvents' = events
  /\ UNCHANGED nativeCode

SelectExecutionTier(f, published) ==
  IF options.jitEnabled /\ f \in published THEN "native" ELSE "vm"

\* Seeded fault: a forced invocation still enters native code.
InvocationUnforced(f, via, forced, published) ==
  [fn |-> f, via |-> via, forced |-> forced,
   tier |-> SelectExecutionTier(f, published)]

Invocation(f, via, forced, published) ==
  [fn |-> f, via |-> via, forced |-> forced,
   tier |-> IF forced THEN "vm" ELSE SelectExecutionTier(f, published)]

-----------------------------------------------------------------------------
(* VirtualMachine::execute, called by the embedder again and again.        *)

Execute(f) ==
  /\ Idle
  /\ Dispatch(f, <<>>)
  /\ acts' = <<Invocation(f, "entry", FALSE, nativeCode')>>
  /\ dynamicFrameCount' = 1
  /\ nativeBridgeDepth' = 0
  /\ report' = "none"
  /\ UNCHANGED <<options, raised>>

NothingEntered ==
  /\ dynamicFrameCount' = 0
  /\ nativeBridgeDepth' = 0
  /\ UNCHANGED <<options, acts, raised>>

\* dispatch refuses the entry function or its arguments, and counts nothing.
ExecuteRejected ==
  /\ Idle
  /\ report' = "R5002"
  /\ hotEvents' = <<>>
  /\ NothingEntered
  /\ UNCHANGED <<profile, nativeCode>>

\* Memory runs out before the entry function starts.
ExecuteThrows(f) ==
  /\ Idle
  /\ report' = "badAlloc"
  /\ NothingEntered
  /\ Dispatch(f, <<>>) \/ DispatchThrows(f, <<>>)

-----------------------------------------------------------------------------
(* Calls made by interpreted and by native code.                           *)

Raise(error) ==
  /\ raised' = error
  /\ UNCHANGED <<options, acts, report>>

\* Seeded fault: a VM-to-native transition reserves no frame.
FramesAfterVmCallUnreserved(callee) ==
  IF callee.tier = "native" THEN dynamicFrameCount ELSE dynamicFrameCount + 1

\* Both a new VM frame and a VM-to-native transition reserve one frame.
FramesAfterVmCall(callee) == dynamicFrameCount + 1

VmCall(f) ==
  /\ Runs("vm")
  /\ dynamicFrameCount < MaxFrames
  /\ Dispatch(f, hotEvents)
  /\ LET callee == Invocation(f, "vmCall", Top.forced, nativeCode')
     IN /\ acts' = Append(acts, callee)
        /\ dynamicFrameCount' = FramesAfterVmCall(callee)
  /\ UNCHANGED <<options, nativeBridgeDepth, raised, report>>

VmCallOverflow ==
  /\ Runs("vm")
  /\ dynamicFrameCount >= MaxFrames
  /\ Raise("R5006")
  /\ UNCHANGED <<profile, nativeCode, hotEvents, counters>>

\* Memory runs out in the VM: between calls, in dispatch, or after it.  There
\* the reserved frame of a VM callee is not given back (no guard owns it yet);
\* the one of a native callee is.
VmThrows ==
  /\ Runs("vm")
  /\ Raise("badAlloc")
  /\ \/ UNCHANGED <<profile, nativeCode, hotEvents, counters>>
     \/ \E f \in Fns :
          /\ dynamicFrameCount < MaxFrames
          /\ DispatchThrows(f, hotEvents)
          /\ UNCHANGED counters
     \/ \E f \in Fns :
          /\ dynamicFrameCount < MaxFrames
          /\ Dispatch(f, hotEvents)
          /\ dynamicFrameCount' =
               IF Invocation(f, "vmCall", Top.forced, nativeCode').tier = "vm"
               THEN dynamicFrameCount + 1
               ELSE dynamicFrameCount
          /\ UNCHANGED nativeBridgeDepth

\* Seeded fault: one native nesting level too many.
ForceVmLate == nativeBridgeDepth > MaxBridge

\* Past this depth the bridge runs its callee, and all it calls, in the VM.
ForceVm == nativeBridgeDepth >= MaxBridge

NativeCall(f) ==
  /\ Runs("native")
  /\ dynamicFrameCount < MaxFrames
  /\ Dispatch(f, hotEvents)
  /\ acts' = Append(acts, Invocation(f, "bridge", ForceVm, nativeCode'))
  /\ dynamicFrameCount' = dynamicFrameCount + 1
  /\ nativeBridgeDepth' = IF ForceVm THEN nativeBridgeDepth ELSE nativeBridgeDepth + 1
  /\ UNCHANGED <<options, raised, report>>

\* executeInternal refuses; the bridge restores its depth and fails the caller.
NativeCallOverflow ==
  /\ Runs("native")
  /\ dynamicFrameCount >= MaxFrames
  /\ Raise("R5006")
  /\ UNCHANGED <<profile, nativeCode, hotEvents, counters>>

\* The bridge catches every exception: the caller sees an invalid call.
NativeCallThrows ==
  /\ Runs("native")
  /\ Raise("R5003")
  /\ UNCHANGED counters
  /\ \/ UNCHANGED <<profile, nativeCode, hotEvents>>
     \/ \E f \in Fns :
          /\ dynamicFrameCount < MaxFrames
          /\ Dispatch(f, hotEvents) \/ DispatchThrows(f, hotEvents)

InvalidDivision ==
  /\ \E tier \in {"vm", "native"} : Runs(tier)
  /\ Raise("R5004")
  /\ UNCHANGED <<profile, nativeCode, hotEvents, counters>>

-----------------------------------------------------------------------------
(* The end of an invocation.                                               *)

StartsExecution(a) == a.via \in {"entry", "bridge"}

\* Seeded fault: the depth is given back by the forced call that never took it.
BridgeDepthAfterUnbalanced(a) ==
  IF a.via = "bridge" THEN nativeBridgeDepth - 1 ELSE nativeBridgeDepth

\* The nesting level is given back by exactly the calls that took one.
BridgeDepthAfter(a) ==
  IF a.via = "bridge" /\ ~a.forced THEN nativeBridgeDepth - 1 ELSE nativeBridgeDepth

Return ==
  /\ Runs("vm") \/ Runs("native")
  /\ acts' = SubSeq(acts, 1, Len(acts) - 1)
  /\ dynamicFrameCount' = dynamicFrameCount - 1
  /\ nativeBridgeDepth' = BridgeDepthAfter(Top)
  /\ report' = IF Top.via = "entry" THEN "ok" ELSE report
  /\ UNCHANGED <<options, profile, nativeCode, hotEvents, raised>>

\* Seeded fault: the bridge loses the class of the error.
RaisedByBridgeUntyped(error) == "R5003"

\* The bridge folds every error but these two into an invalid call.
RaisedByBridge(error) == IF error \in {"R5004", "R5006"} THEN error ELSE "R5003"

\* Seeded fault: the VM does not look at the error of the native code it called.
UnwindNativeCallIgnored ==
  /\ acts # <<>> /\ raised # "none" /\ ~StartsExecution(Top) /\ Top.tier = "native"
  /\ acts' = SubSeq(acts, 1, Len(acts) - 1)
  /\ dynamicFrameCount' = dynamicFrameCount - 1
  /\ raised' = "none"
  /\ UNCHANGED <<options, profile, nativeCode, hotEvents, nativeBridgeDepth, report>>

\* Native code called by the VM returns its error; its frame guard runs.
UnwindNativeCall ==
  /\ acts # <<>> /\ raised # "none" /\ ~StartsExecution(Top) /\ Top.tier = "native"
  /\ acts' = SubSeq(acts, 1, Len(acts) - 1)
  /\ dynamicFrameCount' = dynamicFrameCount - 1
  /\ UNCHANGED <<options, profile, nativeCode, hotEvents, nativeBridgeDepth, raised, report>>

\* The invocation that the innermost executeInternal started with.
IsExecutionBase(i) ==
  /\ StartsExecution(acts[i])
  /\ \A j \in DOMAIN acts : j > i => ~StartsExecution(acts[j])

\* executeInternal fails: its VM frames are dropped all at once, and only the
\* frame it reserved itself is given back.  Below it is either the embedder or
\* the bridge, which reports the error to its native caller.
UnwindExecution ==
  /\ acts # <<>> /\ raised # "none" /\ (StartsExecution(Top) \/ Top.tier = "vm")
  /\ \E base \in DOMAIN acts :
        /\ IsExecutionBase(base)
        /\ acts' = SubSeq(acts, 1, base - 1)
        /\ nativeBridgeDepth' = BridgeDepthAfter(acts[base])
        /\ IF acts[base].via = "entry"
           THEN report' = raised /\ raised' = "none"
           ELSE report' = report /\ raised' = RaisedByBridge(raised)
  /\ dynamicFrameCount' = dynamicFrameCount - 1
  /\ UNCHANGED <<options, profile, nativeCode, hotEvents>>

Unwind == UnwindNativeCall \/ UnwindExecution

Next ==
  \/ \E f \in Fns : Execute(f) \/ ExecuteThrows(f) \/ VmCall(f) \/ NativeCall(f)
  \/ ExecuteRejected
  \/ VmCallOverflow \/ VmThrows
  \/ NativeCallOverflow \/ NativeCallThrows
  \/ InvalidDivision
  \/ Return
  \/ Unwind

Spec == Init /\ [][Next]_vars

\* C++ unwinding is straight-line code: once an error is on its way, the steps
\* that carry it are taken.  Nothing makes a program call or return.
FairSpec == Spec /\ WF_vars(Unwind)
-----------------------------------------------------------------------------
(* Properties.                                                             *)

\* The values the state takes.
TypeOK ==
  /\ options \in RuntimeOptions
  /\ profile \in [Fns -> ProfilingCounters]
  /\ nativeCode \subseteq Fns
  /\ acts \in Seq(Activation)
  /\ dynamicFrameCount \in 0 .. MaxFrames
  /\ nativeBridgeDepth \in 0 .. MaxBridge
  /\ hotEvents \in Seq([functionId : Fns, invocationCount : 0 .. MaxCount])
  /\ raised \in Errors \cup {"none"}
  /\ report \in Errors \cup {"none", "ok", "R5002"}

\* Every live user invocation holds exactly one slot of the shared budget,
\* whichever way it was called and whichever tier runs it (the claim of the
\* comment in executeInternal at the VM-to-native transition); an execution
\* that succeeds gives all of them back.
FrameBudgetExact ==
  raised = "none" /\ report \in {"none", "ok"} => dynamicFrameCount = Len(acts)

\* The live calls form one chain that the budgets can be read from: native code
\* is left only over the bridge, interpreted code never over it; a forced call
\* and everything above it stays in the VM; an error travels over live calls
\* only, and never finds fewer reserved frames than there are calls.
Chained(s) ==
  /\ \A i \in DOMAIN s :
       /\ s[i].via = "entry" <=> i = 1
       /\ i = 1 => ~s[i].forced
       /\ s[i].forced => s[i].tier = "vm"
  /\ \A i, j \in DOMAIN s :
       /\ j = i + 1 => (s[j].via = "bridge" <=> s[i].tier = "native")
       /\ i < j /\ s[i].forced => s[j].forced

CallChain ==
  /\ Chained(acts)
  /\ acts = <<>> => raised = "none"
  /\ acts # <<>> => report = "none"
  /\ Len(acts) <= dynamicFrameCount

CountedBridges(s) == {i \in DOMAIN s : s[i].via = "bridge" /\ ~s[i].forced}
Bridges(s) == {i \in DOMAIN s : s[i].via = "bridge"}
NativeActs(s) == {i \in DOMAIN s : s[i].tier = "native"}

\* The nesting depth counts the bridge calls that took a level, on the error
\* and exception paths of nativeCallBridge as on the normal one.
BridgeDepthExact == nativeBridgeDepth = Cardinality(CountedBridges(acts))

\* The C++ stack is bounded whatever the program does: at most MaxBridge + 1
\* native activations are live, and at most MaxBridge + 2 executeInternal.
NativeNestingBounded ==
  /\ Cardinality(NativeActs(acts)) <= MaxBridge + 1
  /\ Cardinality({i \in DOMAIN acts : StartsExecution(acts[i])}) <= MaxBridge + 2

\* A function is reported hot once in an execution, by exactly the invocation
\* that reaches the threshold, also when it is reached across executions.
HotExactlyAtThreshold ==
  /\ \A i \in DOMAIN hotEvents : hotEvents[i].invocationCount = options.hotThreshold
  /\ \A i, j \in DOMAIN hotEvents :
       hotEvents[i].functionId = hotEvents[j].functionId => i = j

\* Compilation has one chance: a function that is hot and has no native code
\* (the compilation failed, or recording its event threw) never gets any.
FailedCompilationIsFinal ==
  [][\A f \in Fns : profile[f].isHot /\ f \notin nativeCode => f \notin nativeCode']_vars

\* An error on its way is never dropped: it travels down to the embedder.
ErrorsReachTheEmbedder == raised # "none" ~> raised = "none" /\ acts = <<>>

\* Tiering is not observable: with the live invocations as the abstract call
\* chain, and an error taking effect where it is raised, every step is a step
\* of EmberCalls or changes nothing there.  So the budget, the error class,
\* the counts and the hot events are those of a machine without tiers.
OutcomeOf(e) == IF e \in {"R5003", "badAlloc"} THEN "aborted" ELSE e

AbstractCalls == IF raised = "none" THEN [i \in DOMAIN acts |-> acts[i].fn] ELSE <<>>

AbstractOutcome ==
  IF raised # "none" THEN OutcomeOf(raised)
  ELSE IF acts # <<>> THEN "running"
  ELSE IF report = "none" THEN "idle"
  ELSE OutcomeOf(report)

Ember == INSTANCE EmberCalls WITH calls <- AbstractCalls, outcome <- AbstractOutcome

RefinesEmberCalls == Ember!Spec
=============================================================================
