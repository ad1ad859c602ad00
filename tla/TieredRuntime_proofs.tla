----------------------- MODULE TieredRuntime_proofs -----------------------
(***************************************************************************)
(* Proofs about TieredRuntime, for every set of functions and all budgets: *)
(* the inductive invariant, the bounds it gives, the fate of a failed      *)
(* compilation, and the implementation of EmberCalls.                      *)
(***************************************************************************)
EXTENDS TieredRuntime, TLAPS, FiniteSetTheorems, SequenceTheorems

USE MaxCountAssumption, BudgetAssumption

-----------------------------------------------------------------------------
(* The call chain under a push and a pop.                                  *)

\* The levels taken by a chain are finitely many.
LEMMA FiniteChain ==
  ASSUME NEW s \in Seq(Activation)
  PROVE  /\ DOMAIN s = 1 .. Len(s) /\ Len(s) \in Nat
         /\ \A i \in DOMAIN s : s[i] \in Activation
         /\ IsFiniteSet(DOMAIN s)
         /\ CountedBridges(s) \subseteq DOMAIN s
         /\ IsFiniteSet(CountedBridges(s))
         /\ Cardinality(CountedBridges(s)) \in Nat
PROOF
  <1>1. DOMAIN s = 1 .. Len(s) /\ Len(s) \in Nat
    BY LenProperties
  <1>2. IsFiniteSet(DOMAIN s)
    BY <1>1, FS_Interval
  <1>3. CountedBridges(s) \in SUBSET DOMAIN s
    BY DEF CountedBridges
  <1>4. IsFiniteSet(CountedBridges(s))
    BY <1>2, <1>3, FS_Subset
  <1> QED
    BY <1>1, <1>2, <1>3, <1>4, FS_CardinalityType, ElementOfSeq

\* A push keeps the chain when the call is made the way its caller's tier
\* makes calls, and takes a level when it is a bridge call not forced to the VM.
LEMMA Push ==
  ASSUME NEW s \in Seq(Activation), NEW a \in Activation, Chained(s), s # <<>>,
         a.via # "entry",
         a.via = "bridge" <=> s[Len(s)].tier = "native",
         s[Len(s)].forced => a.forced,
         a.forced => a.tier = "vm"
  PROVE  /\ Append(s, a) \in Seq(Activation) /\ Append(s, a) # <<>>
         /\ Len(Append(s, a)) = Len(s) + 1
         /\ Chained(Append(s, a))
         /\ Cardinality(CountedBridges(Append(s, a))) =
              IF a.via = "bridge" /\ ~a.forced
              THEN Cardinality(CountedBridges(s)) + 1
              ELSE Cardinality(CountedBridges(s))
PROOF
  <1> DEFINE t == Append(s, a)
             n == Len(s)
  <1>1. n \in Nat \ {0} /\ DOMAIN s = 1 .. n
    BY EmptySeq, LenProperties
  <1>2. /\ t \in Seq(Activation) /\ t # <<>> /\ Len(t) = n + 1
        /\ \A i \in 1 .. n : t[i] = s[i]
        /\ t[n + 1] = a
    BY AppendProperties
  <1>3. DOMAIN t = 1 .. n + 1
    BY <1>2, LenProperties
  <1> HIDE DEF t, n
  <1>4. Chained(t)
    <2>1. \A i \in DOMAIN t : /\ t[i].via = "entry" <=> i = 1
                              /\ i = 1 => ~t[i].forced
                              /\ t[i].forced => t[i].tier = "vm"
      BY <1>1, <1>2, <1>3 DEF Chained
    <2>2. ASSUME NEW i \in DOMAIN t, NEW j \in DOMAIN t, j = i + 1
          PROVE  t[j].via = "bridge" <=> t[i].tier = "native"
      <3>1. CASE j = n + 1
        BY <1>1, <1>2, <1>3, <2>2, <3>1 DEF n
      <3>2. CASE j # n + 1
        BY <1>1, <1>2, <1>3, <2>2, <3>2 DEF Chained
      <3> QED
        BY <3>1, <3>2
    <2>3. ASSUME NEW i \in DOMAIN t, NEW j \in DOMAIN t, i < j, t[i].forced
          PROVE  t[j].forced
      <3>1. i \in 1 .. n /\ s[i].forced
        BY <1>1, <1>2, <1>3, <2>3
      <3>2. s[n].forced
        BY <1>1, <3>1 DEF Chained
      <3>3. CASE j = n + 1
        BY <1>2, <3>2, <3>3 DEF n
      <3>4. CASE j # n + 1
        BY <1>1, <1>2, <1>3, <2>3, <3>1, <3>4 DEF Chained
      <3> QED
        BY <3>3, <3>4
    <2> QED
      BY <2>1, <2>2, <2>3 DEF Chained
  <1>5. CountedBridges(t) = IF a.via = "bridge" /\ ~a.forced
                            THEN CountedBridges(s) \cup {n + 1}
                            ELSE CountedBridges(s)
    BY <1>1, <1>2, <1>3 DEF CountedBridges
  <1>6. n + 1 \notin CountedBridges(s)
    BY <1>1 DEF CountedBridges
  <1>7. IsFiniteSet(CountedBridges(s))
    BY FiniteChain
  <1>8. Cardinality(CountedBridges(s) \cup {n + 1}) = Cardinality(CountedBridges(s)) + 1
    BY <1>6, <1>7, FS_AddElement
  <1> QED
    BY <1>2, <1>4, <1>5, <1>8 DEF t, n

\* The calls below any point form a chain, whose levels are those below it.
LEMMA Prefix ==
  ASSUME NEW s \in Seq(Activation), Chained(s), NEW n \in 0 .. Len(s)
  PROVE  /\ SubSeq(s, 1, n) \in Seq(Activation)
         /\ Len(SubSeq(s, 1, n)) = n
         /\ DOMAIN SubSeq(s, 1, n) = 1 .. n
         /\ \A i \in 1 .. n : SubSeq(s, 1, n)[i] = s[i]
         /\ Chained(SubSeq(s, 1, n))
         /\ CountedBridges(SubSeq(s, 1, n)) = CountedBridges(s) \cap (1 .. n)
PROOF
  <1> DEFINE t == SubSeq(s, 1, n)
  <1>1. DOMAIN s = 1 .. Len(s) /\ Len(s) \in Nat /\ \A i \in DOMAIN s : s[i] \in Activation
    BY FiniteChain
  <1>2. \A i \in 1 .. n : i \in DOMAIN s
    BY <1>1
  <1>3. t \in Seq(Activation) /\ Len(t) = n /\ \A i \in 1 .. n : t[i] = s[i]
    <2>1. n \in Nat /\ n \in Int
      BY <1>1
    <2>2. \A i \in 1 .. n : s[i] \in Activation
      BY <1>1, <1>2
    <2>3. /\ t \in Seq(Activation)
          /\ Len(t) = IF 1 <= n THEN n - 1 + 1 ELSE 0
          /\ \A i \in 1 .. n - 1 + 1 : t[i] = s[1 + i - 1]
      BY <2>1, <2>2, SubSeqProperties
    <2> HIDE DEF t
    <2> QED
      BY <2>1, <2>3
  <1>4. DOMAIN t = 1 .. n
    BY <1>3, LenProperties
  <1> HIDE DEF t
  <1>5. Chained(t)
    BY <1>1, <1>2, <1>3, <1>4 DEF Chained
  <1>6. CountedBridges(t) = CountedBridges(s) \cap (1 .. n)
    BY <1>1, <1>2, <1>3, <1>4 DEF CountedBridges
  <1> QED
    BY <1>3, <1>4, <1>5, <1>6 DEF t

-----------------------------------------------------------------------------
(* One dispatch: what it does to the profile and to the reported events.   *)

Events == Seq([functionId : Fns, invocationCount : 0 .. MaxCount])

\* Events reported so far, under profile p: one per function, of hot functions
\* only, each with the count of the invocation that reached the threshold.
Reported(events, p) ==
  /\ events \in Events
  /\ \A i \in DOMAIN events : /\ events[i].invocationCount = options.hotThreshold
                              /\ p[events[i].functionId].isHot
  /\ \A i, j \in DOMAIN events : events[i].functionId = events[j].functionId => i = j

\* Under a threshold, a function not hot yet has been called less often.
ColdBelowThreshold(p) ==
  options.hotThreshold # 0 =>
    \A f \in Fns : ~p[f].isHot => p[f].invocationCount < options.hotThreshold

ProfileInv == Reported(hotEvents, profile) /\ ColdBelowThreshold(profile)

ProfileType ==
  options \in RuntimeOptions /\ profile \in [Fns -> ProfilingCounters] /\ nativeCode \subseteq Fns

LEMMA ProfileStep ==
  ASSUME ProfileType, ColdBelowThreshold(profile), NEW f \in Fns
  PROVE  /\ ProfileAfter(f) \in [Fns -> ProfilingCounters]
         /\ ColdBelowThreshold(ProfileAfter(f))
         /\ \A g \in Fns : profile[g].isHot => ProfileAfter(f)[g].isHot
         /\ BecameHot(f) => /\ ~profile[f].isHot /\ ProfileAfter(f)[f].isHot
                            /\ HotEvent(f, ProfileAfter(f)[f]) \in [functionId : Fns, invocationCount : 0 .. MaxCount]
                            /\ HotEvent(f, ProfileAfter(f)[f]).functionId = f
                            /\ HotEvent(f, ProfileAfter(f)[f]).invocationCount = options.hotThreshold
PROOF
  <1> DEFINE r == RecordInvocation(profile[f], options.hotThreshold)
  <1>1. /\ options.hotThreshold \in 0 .. MaxCount
        /\ profile[f] \in ProfilingCounters
        /\ profile[f].invocationCount \in 0 .. MaxCount
        /\ profile[f].isHot \in BOOLEAN
    BY DEF ProfileType, RuntimeOptions, ProfilingCounters
  <1>2. /\ r = [invocationCount |-> Saturated(profile[f].invocationCount),
                isHot |-> profile[f].isHot \/ BecomesHot(profile[f], options.hotThreshold)]
        /\ BecomesHot(profile[f], options.hotThreshold) \in BOOLEAN
    BY DEF RecordInvocation, BecomesHot
  <1>3. Saturated(profile[f].invocationCount) \in 0 .. MaxCount
    BY <1>1 DEF Saturated
  <1>4. r \in ProfilingCounters
    BY <1>1, <1>2, <1>3 DEF ProfilingCounters
  <1>a. r.invocationCount = Saturated(profile[f].invocationCount)
    BY <1>2
  <1>b. r.isHot = (profile[f].isHot \/ BecomesHot(profile[f], options.hotThreshold))
    BY <1>2
  <1> HIDE DEF r
  <1>5. profile[f].isHot => r.isHot
    BY <1>b
  <1>6. options.hotThreshold # 0 /\ ~r.isHot => r.invocationCount < options.hotThreshold
    <2> SUFFICES ASSUME options.hotThreshold # 0, ~r.isHot
                 PROVE  r.invocationCount < options.hotThreshold
      OBVIOUS
    <2>1. ~profile[f].isHot /\ ~BecomesHot(profile[f], options.hotThreshold)
      BY <1>b
    <2>2. ~(Saturated(profile[f].invocationCount) >= options.hotThreshold)
      BY <2>1 DEF BecomesHot
    <2> QED
      BY <1>1, <1>3, <1>a, <2>2
  <1>7. BecomesHot(profile[f], options.hotThreshold) =>
          ~profile[f].isHot /\ r.isHot /\ r.invocationCount = options.hotThreshold
    <2> SUFFICES ASSUME BecomesHot(profile[f], options.hotThreshold)
                 PROVE  ~profile[f].isHot /\ r.isHot /\ r.invocationCount = options.hotThreshold
      OBVIOUS
    <2>1. ~profile[f].isHot /\ r.isHot
      BY <1>b DEF BecomesHot
    <2>2. profile[f].invocationCount < options.hotThreshold
      BY <2>1 DEF ColdBelowThreshold, BecomesHot
    <2>3. r.invocationCount = options.hotThreshold
      BY <1>1, <1>a, <2>2 DEF BecomesHot, Saturated
    <2> QED
      BY <2>1, <2>3
  <1>8. CASE options.profilingEnabled
    <2>1. ProfileAfter(f) = [profile EXCEPT ![f] = r]
      BY <1>8 DEF ProfileAfter, r
    <2>2. /\ ProfileAfter(f) \in [Fns -> ProfilingCounters]
          /\ ProfileAfter(f)[f] = r
          /\ \A g \in Fns : g # f => ProfileAfter(f)[g] = profile[g]
      BY <2>1, <1>4 DEF ProfileType
    <2>3. r.invocationCount \in 0 .. MaxCount
      BY <1>4 DEF ProfilingCounters
    <2> QED
      BY <2>2, <2>3, <1>5, <1>6, <1>7 DEF ColdBelowThreshold, BecameHot, HotEvent
  <1>9. CASE ~options.profilingEnabled
    BY <1>9 DEF ProfileAfter, BecameHot, ProfileType
  <1> QED
    BY <1>8, <1>9

LEMMA DispatchStep ==
  ASSUME ProfileType, ColdBelowThreshold(profile), options' = options,
         NEW f \in Fns, NEW events, Reported(events, profile),
         Dispatch(f, events) \/ DispatchThrows(f, events)
  PROVE  /\ ProfileType' /\ ProfileInv'
         /\ \A g \in Fns : profile[g].isHot /\ g \notin nativeCode => g \notin nativeCode'
PROOF
  <1>1. profile' = ProfileAfter(f)
    BY DEF Dispatch, DispatchThrows
  <1>2. nativeCode' \in CompilationAfter(f)
    BY DEF Dispatch, DispatchThrows, CompilationAfter
  <1>3. ProfileType' /\ ColdBelowThreshold(profile)'
    BY <1>1, <1>2, ProfileStep DEF ProfileType, CompilationAfter, ColdBelowThreshold
  <1>4. Reported(events, profile')
    <2>1. \A i \in DOMAIN events : events[i].functionId \in Fns
      <3>1. events \in Seq([functionId : Fns, invocationCount : 0 .. MaxCount])
        BY DEF Reported, Events
      <3>2. \A i \in DOMAIN events : events[i] \in [functionId : Fns, invocationCount : 0 .. MaxCount]
        BY <3>1, ElementOfSeq, LenProperties
      <3> QED
        BY <3>2
    <2> QED
      BY <1>1, <2>1, ProfileStep DEF Reported
  <1>5. Reported(hotEvents, profile)'
    <2>1. CASE hotEvents' = events
      BY <2>1, <1>4 DEF Reported
    <2>2. CASE /\ BecameHot(f)
               /\ hotEvents' = Append(events, HotEvent(f, ProfileAfter(f)[f]))
      <3> DEFINE e == HotEvent(f, ProfileAfter(f)[f])
      <3>1. /\ e \in [functionId : Fns, invocationCount : 0 .. MaxCount]
            /\ e.functionId = f /\ e.invocationCount = options.hotThreshold
            /\ ~profile[f].isHot /\ profile'[f].isHot
        BY <1>1, <2>2, ProfileStep
      <3> HIDE DEF e
      <3>2. \A i \in DOMAIN events : events[i].functionId # f
        BY <3>1 DEF Reported
      <3>3. /\ hotEvents' \in Events /\ Len(hotEvents') = Len(events) + 1
            /\ \A i \in 1 .. Len(events) : hotEvents'[i] = events[i]
            /\ hotEvents'[Len(events) + 1] = e
        BY <2>2, <3>1, AppendProperties DEF Reported, Events, e
      <3>4. /\ DOMAIN events = 1 .. Len(events) /\ Len(events) \in Nat
            /\ DOMAIN hotEvents' = 1 .. Len(events) + 1
        BY <3>3, LenProperties DEF Reported, Events
      <3>5. \A i \in DOMAIN hotEvents' : /\ hotEvents'[i].invocationCount = options.hotThreshold
                                         /\ profile'[hotEvents'[i].functionId].isHot
        BY <1>4, <3>1, <3>3, <3>4 DEF Reported
      <3>6. \A i, j \in DOMAIN hotEvents' :
              hotEvents'[i].functionId = hotEvents'[j].functionId => i = j
        BY <1>4, <3>1, <3>2, <3>3, <3>4 DEF Reported
      <3> QED
        BY <3>3, <3>5, <3>6 DEF Reported, Events
    <2> QED
      BY <2>1, <2>2 DEF Dispatch, DispatchThrows
  <1>6. \A g \in Fns : profile[g].isHot /\ g \notin nativeCode => g \notin nativeCode'
    BY <1>2, ProfileStep DEF CompilationAfter
  <1> QED
    BY <1>3, <1>5, <1>6 DEF ProfileInv

-----------------------------------------------------------------------------
(* The inductive invariant.                                                *)

ChainType ==
  /\ acts \in Seq(Activation)
  /\ dynamicFrameCount \in 0 .. MaxFrames
  /\ nativeBridgeDepth \in 0 .. MaxBridge
  /\ raised \in Errors \cup {"none"}
  /\ report \in Errors \cup {"none", "ok", "R5002"}

ChainInv == ChainType /\ CallChain /\ FrameBudgetExact /\ BridgeDepthExact

IInv == ProfileType /\ ProfileInv /\ ChainInv

LEMMA Initially == Init => IInv
PROOF
  <1> SUFFICES ASSUME Init PROVE IInv
    OBVIOUS
  <1>1. ProfileType /\ ColdBelowThreshold(profile)
    BY DEF Init, ProfileType, ProfilingCounters, NeverInvoked, ColdBelowThreshold, RuntimeOptions
  <1>2. Reported(hotEvents, profile)
    BY DEF Init, Reported, Events
  <1>3. ChainType /\ CallChain /\ FrameBudgetExact
    BY DEF Init, ChainType, CallChain, Chained, FrameBudgetExact
  <1>4. CountedBridges(acts) = {}
    BY DEF Init, CountedBridges
  <1>5. BridgeDepthExact
    BY <1>4, FS_EmptySet DEF Init, BridgeDepthExact
  <1> QED
    BY <1>1, <1>2, <1>3, <1>5 DEF IInv, ProfileInv, ChainInv

LEMMA Invoked ==
  ASSUME NEW f \in Fns, NEW via \in {"entry", "vmCall", "bridge"},
         NEW forced \in BOOLEAN, NEW published
  PROVE  LET a == Invocation(f, via, forced, published)
         IN  /\ a \in Activation /\ a.fn = f /\ a.via = via /\ a.forced = forced
             /\ a.forced => a.tier = "vm"
PROOF BY DEF Invocation, SelectExecutionTier, Activation

LEMMA ExecuteChain ==
  ASSUME IInv, NEW f \in Fns, Execute(f)
  PROVE  ChainInv'
PROOF
  <1> DEFINE a == Invocation(f, "entry", FALSE, nativeCode')
  <1>1. a \in Activation /\ a.via = "entry" /\ ~a.forced
    BY DEF Invocation, SelectExecutionTier, Activation
  <1> HIDE DEF a
  <1>2. acts' = <<a>> /\ dynamicFrameCount' = 1 /\ nativeBridgeDepth' = 0 /\ report' = "none"
        /\ raised' = raised /\ raised = "none" /\ acts = <<>>
    BY DEF Execute, Idle, IInv, ChainInv, CallChain, a
  <1>3. acts' \in Seq(Activation) /\ Len(acts') = 1 /\ DOMAIN acts' = {1} /\ acts'[1] = a
    BY <1>1, <1>2
  <1>4. ChainType'
    BY <1>2, <1>3 DEF ChainType
  <1>5. Chained(acts')
    BY <1>1, <1>3 DEF Chained
  <1>6. CallChain' /\ FrameBudgetExact'
    BY <1>2, <1>3, <1>5 DEF CallChain, FrameBudgetExact
  <1>7. CountedBridges(acts') = {}
    BY <1>1, <1>3 DEF CountedBridges
  <1>8. BridgeDepthExact'
    BY <1>2, <1>7, FS_EmptySet DEF BridgeDepthExact
  <1> QED
    BY <1>4, <1>6, <1>8 DEF ChainInv

LEMMA VmCallChain ==
  ASSUME IInv, NEW f \in Fns, VmCall(f)
  PROVE  ChainInv'
PROOF
  <1> DEFINE a == Invocation(f, "vmCall", Top.forced, nativeCode')
  <1>1. /\ acts \in Seq(Activation) /\ acts # <<>> /\ Chained(acts)
        /\ dynamicFrameCount \in 0 .. MaxFrames /\ dynamicFrameCount < MaxFrames
        /\ dynamicFrameCount = Len(acts) /\ report = "none" /\ raised = "none"
        /\ Top.tier = "vm" /\ Top \in Activation
    BY EmptySeq, ElementOfSeq
       DEF VmCall, Runs, Top, IInv, ChainInv, ChainType, CallChain, FrameBudgetExact
  <1>2. a \in Activation /\ a.via = "vmCall" /\ a.forced = Top.forced /\ (a.forced => a.tier = "vm")
    <2>1. Top.forced \in BOOLEAN
      BY <1>1 DEF Activation
    <2> QED
      BY <2>1, Invoked
  <1> HIDE DEF a
  <1>3. /\ acts' = Append(acts, a) /\ dynamicFrameCount' = dynamicFrameCount + 1
        /\ nativeBridgeDepth' = nativeBridgeDepth /\ raised' = raised /\ report' = report
    BY DEF VmCall, FramesAfterVmCall, a
  <1>4. /\ acts' \in Seq(Activation) /\ acts' # <<>> /\ Len(acts') = Len(acts) + 1 /\ Chained(acts')
        /\ Cardinality(CountedBridges(acts')) = Cardinality(CountedBridges(acts))
    BY <1>1, <1>2, <1>3, Push DEF Top
  <1> QED
    BY <1>1, <1>3, <1>4
       DEF IInv, ChainInv, ChainType, CallChain, FrameBudgetExact, BridgeDepthExact

LEMMA NativeCallChain ==
  ASSUME IInv, NEW f \in Fns, NativeCall(f)
  PROVE  ChainInv'
PROOF
  <1> DEFINE a == Invocation(f, "bridge", ForceVm, nativeCode')
  <1>1. /\ acts \in Seq(Activation) /\ acts # <<>> /\ Chained(acts) /\ Len(acts) \in DOMAIN acts
        /\ dynamicFrameCount \in 0 .. MaxFrames /\ dynamicFrameCount < MaxFrames
        /\ nativeBridgeDepth \in 0 .. MaxBridge
        /\ dynamicFrameCount = Len(acts) /\ report = "none" /\ raised = "none"
        /\ Top.tier = "native"
    BY EmptySeq, LenProperties
       DEF NativeCall, Runs, IInv, ChainInv, ChainType, CallChain, FrameBudgetExact
  <1>2. ~Top.forced
    BY <1>1 DEF Chained, Top
  <1>3. ForceVm \in BOOLEAN /\ (ForceVm <=> nativeBridgeDepth >= MaxBridge)
    BY DEF ForceVm
  <1>4. a \in Activation /\ a.via = "bridge" /\ a.forced = ForceVm /\ (a.forced => a.tier = "vm")
    BY <1>3, Invoked
  <1> HIDE DEF a
  <1>5. /\ acts' = Append(acts, a) /\ dynamicFrameCount' = dynamicFrameCount + 1
        /\ nativeBridgeDepth' = IF ForceVm THEN nativeBridgeDepth ELSE nativeBridgeDepth + 1
        /\ raised' = raised /\ report' = report
    BY DEF NativeCall, a
  <1>6. /\ acts' \in Seq(Activation) /\ acts' # <<>> /\ Len(acts') = Len(acts) + 1 /\ Chained(acts')
        /\ Cardinality(CountedBridges(acts')) =
             IF ~a.forced THEN Cardinality(CountedBridges(acts)) + 1
             ELSE Cardinality(CountedBridges(acts))
    BY <1>1, <1>2, <1>4, <1>5, Push DEF Top
  <1>7. nativeBridgeDepth' = Cardinality(CountedBridges(acts')) /\ nativeBridgeDepth' \in 0 .. MaxBridge
    BY <1>1, <1>3, <1>4, <1>5, <1>6 DEF IInv, ChainInv, BridgeDepthExact
  <1> QED
    BY <1>1, <1>5, <1>6, <1>7
       DEF IInv, ChainInv, ChainType, CallChain, FrameBudgetExact, BridgeDepthExact

\* Dropping a call, and those above it that took no level, gives its level back.
LEMMA Pop ==
  ASSUME NEW s \in Seq(Activation), Chained(s), NEW base \in DOMAIN s,
         \A j \in DOMAIN s : j > base => j \notin CountedBridges(s)
  PROVE  LET t == SubSeq(s, 1, base - 1)
         IN  /\ t \in Seq(Activation) /\ Len(t) = base - 1 /\ Chained(t)
             /\ (t = <<>>) <=> (base = 1)
             /\ Cardinality(CountedBridges(t)) =
                  IF s[base].via = "bridge" /\ ~s[base].forced
                  THEN Cardinality(CountedBridges(s)) - 1
                  ELSE Cardinality(CountedBridges(s))
PROOF
  <1> DEFINE t == SubSeq(s, 1, base - 1)
  <1>1. /\ DOMAIN s = 1 .. Len(s) /\ Len(s) \in Nat
        /\ IsFiniteSet(CountedBridges(s)) /\ CountedBridges(s) \subseteq DOMAIN s
    BY FiniteChain
  <1>2. base - 1 \in 0 .. Len(s)
    BY <1>1
  <1>3. /\ t \in Seq(Activation) /\ Len(t) = base - 1 /\ Chained(t)
        /\ CountedBridges(t) = CountedBridges(s) \cap (1 .. (base - 1))
    BY <1>2, Prefix
  <1> HIDE DEF t
  <1>4. (t = <<>>) <=> (base = 1)
    BY <1>1, <1>3, EmptySeq
  <1>5. CountedBridges(t) = CountedBridges(s) \ {base}
    BY <1>1, <1>3
  <1>6. base \in CountedBridges(s) <=> s[base].via = "bridge" /\ ~s[base].forced
    BY DEF CountedBridges
  <1>7. Cardinality(CountedBridges(t)) =
          IF base \in CountedBridges(s) THEN Cardinality(CountedBridges(s)) - 1
          ELSE Cardinality(CountedBridges(s))
    BY <1>1, <1>5, FS_RemoveElement
  <1> QED
    BY <1>3, <1>4, <1>6, <1>7 DEF t

\* The two forms of giving back the depth agree with the calls that are left.
LEMMA DepthAfterPop ==
  ASSUME ChainInv, NEW base \in DOMAIN acts,
         \A j \in DOMAIN acts : j > base => j \notin CountedBridges(acts),
         acts' = SubSeq(acts, 1, base - 1),
         nativeBridgeDepth' = BridgeDepthAfter(acts[base])
  PROVE  /\ BridgeDepthExact' /\ nativeBridgeDepth' \in 0 .. MaxBridge
         /\ acts' \in Seq(Activation) /\ Len(acts') = base - 1 /\ Chained(acts')
         /\ (acts' = <<>>) <=> (base = 1)
PROOF
  <1>1. acts \in Seq(Activation) /\ Chained(acts) /\ nativeBridgeDepth \in 0 .. MaxBridge
        /\ nativeBridgeDepth = Cardinality(CountedBridges(acts))
    BY DEF ChainInv, ChainType, CallChain, BridgeDepthExact
  <1>2. /\ acts' \in Seq(Activation) /\ Len(acts') = base - 1 /\ Chained(acts')
        /\ (acts' = <<>>) <=> (base = 1)
        /\ Cardinality(CountedBridges(acts')) =
             IF acts[base].via = "bridge" /\ ~acts[base].forced
             THEN Cardinality(CountedBridges(acts)) - 1
             ELSE Cardinality(CountedBridges(acts))
    BY <1>1, Pop
  <1>3. Cardinality(CountedBridges(acts')) \in Nat
    BY <1>2, FiniteChain
  <1>4. nativeBridgeDepth' = Cardinality(CountedBridges(acts'))
    BY <1>1, <1>2 DEF BridgeDepthAfter
  <1> QED
    BY <1>1, <1>2, <1>3, <1>4 DEF BridgeDepthExact, BridgeDepthAfter

LEMMA LiveCalls ==
  ASSUME IInv, acts # <<>>
  PROVE  /\ Len(acts) \in DOMAIN acts /\ DOMAIN acts = 1 .. Len(acts)
         /\ Len(acts) \in Nat \ {0} /\ Top \in Activation
         /\ dynamicFrameCount \in 1 .. MaxFrames
         /\ Len(acts) <= dynamicFrameCount
         /\ report = "none"
         /\ Top.via = "entry" <=> Len(acts) = 1
PROOF
  <1>1. acts \in Seq(Activation) /\ Chained(acts)
    BY DEF IInv, ChainInv, ChainType, CallChain
  <1>2. Len(acts) \in Nat \ {0} /\ DOMAIN acts = 1 .. Len(acts)
    BY <1>1, EmptySeq, LenProperties
  <1>3. Top \in Activation /\ (Top.via = "entry" <=> Len(acts) = 1)
    BY <1>1, <1>2, ElementOfSeq DEF Top, Chained
  <1> QED
    BY <1>2, <1>3 DEF IInv, ChainInv, ChainType, CallChain

LEMMA TopOnly ==
  ASSUME IInv, acts # <<>>
  PROVE  /\ Len(acts) \in DOMAIN acts
         /\ \A j \in DOMAIN acts : j > Len(acts) => j \notin CountedBridges(acts)
PROOF
  <1>1. Len(acts) \in DOMAIN acts /\ DOMAIN acts = 1 .. Len(acts) /\ Len(acts) \in Nat
    BY LiveCalls
  <1> QED
    BY <1>1

LEMMA ReturnChain ==
  ASSUME IInv, Return
  PROVE  ChainInv'
PROOF
  <1>1. /\ acts # <<>> /\ raised = "none" /\ raised' = "none"
        /\ acts' = SubSeq(acts, 1, Len(acts) - 1)
        /\ dynamicFrameCount' = dynamicFrameCount - 1
        /\ nativeBridgeDepth' = BridgeDepthAfter(acts[Len(acts)])
        /\ report' = IF Top.via = "entry" THEN "ok" ELSE report
    BY DEF Return, Runs, Top
  <1>2. dynamicFrameCount = Len(acts)
    BY <1>1, LiveCalls DEF IInv, ChainInv, FrameBudgetExact
  <1>3. /\ BridgeDepthExact' /\ nativeBridgeDepth' \in 0 .. MaxBridge
        /\ acts' \in Seq(Activation) /\ Len(acts') = Len(acts) - 1 /\ Chained(acts')
        /\ (acts' = <<>>) <=> (Len(acts) = 1)
    BY <1>1, TopOnly, DepthAfterPop DEF IInv
  <1> QED
    BY <1>1, <1>2, <1>3, LiveCalls DEF ChainInv, ChainType, CallChain, FrameBudgetExact

LEMMA UnwindNativeCallChain ==
  ASSUME IInv, UnwindNativeCall
  PROVE  ChainInv'
PROOF
  <1>1. /\ acts # <<>> /\ raised # "none" /\ raised' = raised /\ report' = report
        /\ acts' = SubSeq(acts, 1, Len(acts) - 1)
        /\ dynamicFrameCount' = dynamicFrameCount - 1
        /\ nativeBridgeDepth' = nativeBridgeDepth
        /\ ~StartsExecution(Top)
    BY DEF UnwindNativeCall
  <1>2. nativeBridgeDepth' = BridgeDepthAfter(acts[Len(acts)]) /\ Len(acts) # 1
    BY <1>1, LiveCalls DEF StartsExecution, BridgeDepthAfter, Top
  <1>3. /\ BridgeDepthExact' /\ nativeBridgeDepth' \in 0 .. MaxBridge
        /\ acts' \in Seq(Activation) /\ Len(acts') = Len(acts) - 1 /\ Chained(acts')
        /\ acts' # <<>>
    BY <1>1, <1>2, TopOnly, DepthAfterPop DEF IInv
  <1> QED
    BY <1>1, <1>2, <1>3, LiveCalls
       DEF IInv, ChainInv, ChainType, CallChain, FrameBudgetExact

LEMMA UnwindExecutionChain ==
  ASSUME IInv, UnwindExecution
  PROVE  ChainInv'
PROOF
  <1>1. PICK base \in DOMAIN acts :
          /\ IsExecutionBase(base)
          /\ acts' = SubSeq(acts, 1, base - 1)
          /\ nativeBridgeDepth' = BridgeDepthAfter(acts[base])
          /\ IF acts[base].via = "entry"
             THEN report' = raised /\ raised' = "none"
             ELSE report' = report /\ raised' = RaisedByBridge(raised)
    BY DEF UnwindExecution
  <1>2. /\ acts # <<>> /\ raised # "none" /\ raised \in Errors
        /\ dynamicFrameCount' = dynamicFrameCount - 1
    BY DEF UnwindExecution, IInv, ChainInv, ChainType
  <1>3. \A j \in DOMAIN acts : j > base => j \notin CountedBridges(acts)
    BY <1>1 DEF IsExecutionBase, StartsExecution, CountedBridges
  <1>4. /\ BridgeDepthExact' /\ nativeBridgeDepth' \in 0 .. MaxBridge
        /\ acts' \in Seq(Activation) /\ Len(acts') = base - 1 /\ Chained(acts')
        /\ (acts' = <<>>) <=> (base = 1)
    BY <1>1, <1>3, DepthAfterPop DEF IInv
  <1>5. acts[base].via = "entry" <=> base = 1
    BY DEF IInv, ChainInv, CallChain, Chained
  <1>6. RaisedByBridge(raised) \in Errors
    BY <1>2 DEF RaisedByBridge, Errors
  <1>7. dynamicFrameCount' \in 0 .. MaxFrames /\ Len(acts') <= dynamicFrameCount'
    BY <1>2, <1>4, LiveCalls
  <1>8. base = 1 => report' \in Errors /\ raised' = "none"
    BY <1>1, <1>2, <1>5
  <1>9. base # 1 => report' = "none" /\ raised' \in Errors
    BY <1>1, <1>2, <1>5, <1>6, LiveCalls
  <1> QED
    BY <1>4, <1>7, <1>8, <1>9
       DEF ChainInv, ChainType, CallChain, FrameBudgetExact, Errors

\* An error is raised over the live calls; the frame that is lost when memory
\* runs out in dispatch only makes the count larger than the number of calls.
LEMMA RaiseChain ==
  ASSUME IInv, acts # <<>>, raised' \in Errors,
         UNCHANGED <<acts, report, nativeBridgeDepth>>,
         \/ dynamicFrameCount' = dynamicFrameCount
         \/ dynamicFrameCount < MaxFrames /\ dynamicFrameCount' = dynamicFrameCount + 1
  PROVE  ChainInv'
PROOF
  <1>1. ChainType'
    BY LiveCalls DEF IInv, ChainInv, ChainType
  <1>2. CallChain'
    BY LiveCalls DEF IInv, ChainInv, CallChain, Chained
  <1>3. FrameBudgetExact' /\ BridgeDepthExact'
    BY DEF IInv, ChainInv, FrameBudgetExact, BridgeDepthExact, Errors
  <1> QED
    BY <1>1, <1>2, <1>3 DEF ChainInv

LEMMA RefusedChain ==
  ASSUME IInv, Idle, NothingEntered, report' \in {"R5002", "badAlloc"}
  PROVE  ChainInv'
PROOF
  <1>1. /\ acts = <<>> /\ acts' = <<>> /\ raised' = "none"
        /\ dynamicFrameCount' = 0 /\ nativeBridgeDepth' = 0
    BY DEF Idle, NothingEntered, IInv, ChainInv, CallChain
  <1>2. ChainType' /\ CallChain' /\ FrameBudgetExact'
    BY <1>1 DEF ChainType, CallChain, Chained, FrameBudgetExact, Errors
  <1>3. CountedBridges(acts') = {}
    BY <1>1 DEF CountedBridges
  <1> QED
    BY <1>1, <1>2, <1>3, FS_EmptySet DEF ChainInv, BridgeDepthExact

\* Steps that do not dispatch leave the profiling state to the report alone.
LEMMA ProfileUnchanged ==
  ASSUME IInv, UNCHANGED <<options, profile, nativeCode>>,
         hotEvents' = hotEvents \/ hotEvents' = <<>>
  PROVE  /\ ProfileType' /\ ProfileInv'
         /\ \A g \in Fns : profile[g].isHot /\ g \notin nativeCode => g \notin nativeCode'
PROOF
  <1>1. ProfileType' /\ ColdBelowThreshold(profile)'
    BY DEF IInv, ProfileInv, ProfileType, ColdBelowThreshold
  <1>2. Reported(<<>>, profile')
    BY DEF Reported, Events
  <1>3. Reported(hotEvents, profile)'
    BY <1>2 DEF IInv, ProfileInv, Reported
  <1> QED
    BY <1>1, <1>3 DEF ProfileInv

LEMMA ProfileDispatched ==
  ASSUME IInv, options' = options, NEW f \in Fns, NEW events \in {hotEvents, <<>>},
         Dispatch(f, events) \/ DispatchThrows(f, events)
  PROVE  /\ ProfileType' /\ ProfileInv'
         /\ \A g \in Fns : profile[g].isHot /\ g \notin nativeCode => g \notin nativeCode'
PROOF
  <1>1. Reported(<<>>, profile)
    BY DEF Reported, Events
  <1> QED
    BY <1>1, DispatchStep DEF IInv, ProfileInv

\* What every step keeps, and that none gives code to a hot function without.
LEMMA Preserved ==
  ASSUME IInv, [Next]_vars
  PROVE  /\ IInv'
         /\ \A g \in Fns : profile[g].isHot /\ g \notin nativeCode => g \notin nativeCode'
PROOF
  <1> USE DEF IInv
  <1>1. ASSUME NEW f \in Fns, Execute(f)
        PROVE  /\ IInv'
               /\ \A g \in Fns : profile[g].isHot /\ g \notin nativeCode => g \notin nativeCode'
    BY <1>1, ExecuteChain, ProfileDispatched DEF Execute
  <1>2. ASSUME NEW f \in Fns, ExecuteThrows(f)
        PROVE  /\ IInv'
               /\ \A g \in Fns : profile[g].isHot /\ g \notin nativeCode => g \notin nativeCode'
    <2>1. ChainInv'
      BY <1>2, RefusedChain DEF ExecuteThrows
    <2> QED
      BY <1>2, <2>1, ProfileDispatched DEF ExecuteThrows, NothingEntered
  <1>3. ASSUME NEW f \in Fns, VmCall(f)
        PROVE  /\ IInv'
               /\ \A g \in Fns : profile[g].isHot /\ g \notin nativeCode => g \notin nativeCode'
    BY <1>3, VmCallChain, ProfileDispatched DEF VmCall
  <1>4. ASSUME NEW f \in Fns, NativeCall(f)
        PROVE  /\ IInv'
               /\ \A g \in Fns : profile[g].isHot /\ g \notin nativeCode => g \notin nativeCode'
    BY <1>4, NativeCallChain, ProfileDispatched DEF NativeCall
  <1>5. CASE ExecuteRejected
    <2>1. ChainInv'
      BY <1>5, RefusedChain DEF ExecuteRejected
    <2> QED
      BY <1>5, <2>1, ProfileUnchanged DEF ExecuteRejected, NothingEntered
  <1>6. CASE VmCallOverflow \/ NativeCallOverflow \/ InvalidDivision
    <2>1. ChainInv'
      BY <1>6, RaiseChain
         DEF VmCallOverflow, NativeCallOverflow, InvalidDivision, Runs, Raise, counters, Errors
    <2> QED
      BY <1>6, <2>1, ProfileUnchanged
         DEF VmCallOverflow, NativeCallOverflow, InvalidDivision, Raise
  <1>7. CASE VmThrows
    <2>1. ChainInv'
      BY <1>7, RaiseChain DEF VmThrows, Runs, Raise, counters, Errors
    <2>2. CASE UNCHANGED <<profile, nativeCode, hotEvents>>
      BY <1>7, <2>1, <2>2, ProfileUnchanged DEF VmThrows, Raise
    <2>3. CASE \E f \in Fns : Dispatch(f, hotEvents) \/ DispatchThrows(f, hotEvents)
      BY <1>7, <2>1, <2>3, ProfileDispatched DEF VmThrows, Raise
    <2> QED
      BY <1>7, <2>2, <2>3 DEF VmThrows
  <1>8. CASE NativeCallThrows
    <2>1. ChainInv'
      BY <1>8, RaiseChain DEF NativeCallThrows, Runs, Raise, counters, Errors
    <2>2. CASE UNCHANGED <<profile, nativeCode, hotEvents>>
      BY <1>8, <2>1, <2>2, ProfileUnchanged DEF NativeCallThrows, Raise
    <2>3. CASE \E f \in Fns : Dispatch(f, hotEvents) \/ DispatchThrows(f, hotEvents)
      BY <1>8, <2>1, <2>3, ProfileDispatched DEF NativeCallThrows, Raise
    <2> QED
      BY <1>8, <2>2, <2>3 DEF NativeCallThrows
  <1>9. CASE Return
    BY <1>9, ReturnChain, ProfileUnchanged DEF Return
  <1>10. CASE UnwindNativeCall
    BY <1>10, UnwindNativeCallChain, ProfileUnchanged DEF UnwindNativeCall
  <1>11. CASE UnwindExecution
    BY <1>11, UnwindExecutionChain, ProfileUnchanged DEF UnwindExecution
  <1>12. CASE UNCHANGED vars
    <2>1. ChainInv'
      BY <1>12 DEF vars, ChainInv, ChainType, CallChain, Chained, FrameBudgetExact,
                   BridgeDepthExact, CountedBridges
    <2> QED
      BY <1>12, <2>1, ProfileUnchanged DEF vars
  <1> QED
    BY <1>1, <1>2, <1>3, <1>4, <1>5, <1>6, <1>7, <1>8, <1>9, <1>10, <1>11, <1>12
       DEF Next, Unwind

THEOREM Invariance == Spec => []IInv
PROOF
  <1>1. IInv /\ [Next]_vars => IInv'
    BY Preserved
  <1> QED
    BY Initially, <1>1, PTL DEF Spec

-----------------------------------------------------------------------------
(* What the invariant gives.                                               *)

\* Type correctness of the runtime state: in particular the two counters of
\* NativeCallState never leave their bounds, on any error path.
THEOREM TypeCorrect == Spec => []TypeOK
PROOF
  <1>1. IInv => TypeOK
    BY DEF IInv, ProfileType, ProfileInv, Reported, Events, ChainInv, ChainType, TypeOK
  <1> QED
    BY Invariance, <1>1, PTL

\* The live calls form the chain that the budgets are read from.
THEOREM ChainCorrect == Spec => []CallChain
PROOF
  <1>1. IInv => CallChain
    BY DEF IInv, ChainInv
  <1> QED
    BY Invariance, <1>1, PTL

\* Every live invocation holds exactly one slot of the shared frame budget.
THEOREM FrameBudgetCorrect == Spec => []FrameBudgetExact
PROOF
  <1>1. IInv => FrameBudgetExact
    BY DEF IInv, ChainInv
  <1> QED
    BY Invariance, <1>1, PTL

\* The bridge depth is exact on every path through nativeCallBridge.
THEOREM BridgeDepthCorrect == Spec => []BridgeDepthExact
PROOF
  <1>1. IInv => BridgeDepthExact
    BY DEF IInv, ChainInv
  <1> QED
    BY Invariance, <1>1, PTL

\* A function is reported hot once, at exactly the threshold.
THEOREM HotCorrect == Spec => []HotExactlyAtThreshold
PROOF
  <1>1. IInv => HotExactlyAtThreshold
    BY DEF IInv, ProfileInv, Reported, HotExactlyAtThreshold
  <1> QED
    BY Invariance, <1>1, PTL

\* A hot function that has no native code never gets any.
THEOREM OneCompilation == Spec => FailedCompilationIsFinal
PROOF
  <1> DEFINE A == \A f \in Fns : profile[f].isHot /\ f \notin nativeCode => f \notin nativeCode'
  <1>1. IInv /\ [Next]_vars => [A]_vars
    BY Preserved
  <1>2. Spec => [][A]_vars
    BY Invariance, <1>1, PTL DEF Spec
  <1> QED
    BY <1>2 DEF FailedCompilationIsFinal

-----------------------------------------------------------------------------
(* The bound on the C++ stack.  Every native invocation but the newest one *)
(* is followed by the bridge call it makes, so native invocations inject   *)
(* into the bridge calls and the top; of the bridge calls at most one is   *)
(* forced, because nothing native lives above it.                          *)

ForcedBridges(s) == {i \in DOMAIN s : s[i].via = "bridge" /\ s[i].forced}

LEMMA ForcedBridgeIsLast ==
  ASSUME NEW s \in Seq(Activation), Chained(s), NEW k \in ForcedBridges(s)
  PROVE  /\ \A i \in DOMAIN s : i >= k => s[i].tier # "native"
         /\ ForcedBridges(s) = {k}
PROOF
  <1>1. DOMAIN s = 1 .. Len(s) /\ Len(s) \in Nat /\ k \in DOMAIN s
    BY FiniteChain DEF ForcedBridges
  <1>2. \A i \in DOMAIN s : i >= k => s[i].forced
    BY <1>1 DEF ForcedBridges, Chained
  <1>3. \A i \in DOMAIN s : i >= k => s[i].tier # "native"
    BY <1>2 DEF Chained
  <1>4. ASSUME NEW i \in ForcedBridges(s), i < k
        PROVE  FALSE
    <2>1. k - 1 \in DOMAIN s /\ i <= k - 1 /\ i \in DOMAIN s /\ k = (k - 1) + 1
      BY <1>1, <1>4 DEF ForcedBridges
    <2>2. s[k - 1].tier = "native"
      BY <1>1, <2>1 DEF Chained, ForcedBridges
    <2>3. s[k - 1].forced
      BY <2>1, <1>1 DEF Chained, ForcedBridges
    <2> QED
      BY <2>1, <2>2, <2>3 DEF Chained
  <1>5. ASSUME NEW i \in ForcedBridges(s), i > k
        PROVE  FALSE
    <2>1. i - 1 \in DOMAIN s /\ i - 1 >= k /\ i \in DOMAIN s /\ i = (i - 1) + 1
      BY <1>1, <1>5 DEF ForcedBridges
    <2>2. s[i - 1].tier = "native"
      BY <1>1, <2>1 DEF Chained, ForcedBridges
    <2> QED
      BY <2>1, <2>2, <1>3
  <1>6. \A i \in ForcedBridges(s) : i \in Int
    BY <1>1 DEF ForcedBridges
  <1> QED
    BY <1>1, <1>3, <1>4, <1>5, <1>6

LEMMA OneMore ==
  ASSUME NEW S, NEW x, IsFiniteSet(S)
  PROVE  /\ IsFiniteSet(S \cup {x}) /\ Cardinality(S \cup {x}) \in Nat
         /\ Cardinality(S \cup {x}) <= Cardinality(S) + 1
PROOF
  <1>1. /\ IsFiniteSet(S \cup {x})
        /\ Cardinality(S \cup {x}) = IF x \in S THEN Cardinality(S) ELSE Cardinality(S) + 1
    BY FS_AddElement
  <1>2. Cardinality(S) \in Nat /\ Cardinality(S \cup {x}) \in Nat
    BY <1>1, FS_CardinalityType
  <1> QED
    BY <1>1, <1>2

LEMMA NativeNesting ==
  ASSUME NEW s \in Seq(Activation), Chained(s)
  PROVE  /\ Cardinality(NativeActs(s)) <= Cardinality(CountedBridges(s)) + 1
         /\ Cardinality({i \in DOMAIN s : StartsExecution(s[i])})
              <= Cardinality(CountedBridges(s)) + 2
PROOF
  <1> DEFINE n == Len(s)
             B == CountedBridges(s)
             F == ForcedBridges(s)
             N == NativeActs(s)
             E == {i \in DOMAIN s : StartsExecution(s[i])}
  <1>1. /\ DOMAIN s = 1 .. n /\ n \in Nat /\ IsFiniteSet(DOMAIN s)
        /\ IsFiniteSet(B) /\ Cardinality(B) \in Nat
    BY FiniteChain
  <1>2. IsFiniteSet(N) /\ IsFiniteSet(E)
    <2>1. N \in SUBSET DOMAIN s /\ E \in SUBSET DOMAIN s
      BY DEF NativeActs
    <2> QED
      BY <1>1, <2>1, FS_Subset
  <1>3. Cardinality(N) \in Nat /\ Cardinality(E) \in Nat
    BY <1>2, FS_CardinalityType
  <1>4. Cardinality(N) <= Cardinality(B) + 1
    <2> DEFINE f == [i \in N \ {n} |-> i + 1]
               C == B \cup F
    <2>1. \A i \in N \ {n} : i + 1 \in C
      <3> SUFFICES ASSUME NEW i \in N \ {n} PROVE i + 1 \in C
        OBVIOUS
      <3>1. i \in DOMAIN s /\ i + 1 \in DOMAIN s /\ s[i].tier = "native"
        BY <1>1 DEF NativeActs
      <3>2. s[i + 1].via = "bridge"
        BY <3>1 DEF Chained
      <3> QED
        BY <3>1, <3>2 DEF CountedBridges, ForcedBridges
    <2>2. \A i, j \in N \ {n} : i + 1 = j + 1 => i = j
      BY <1>1 DEF NativeActs
    <2>3. IsFiniteSet(N \ {n})
          /\ Cardinality(N \ {n}) = IF n \in N THEN Cardinality(N) - 1 ELSE Cardinality(N)
      BY <1>2, FS_RemoveElement
    <2>4. CASE F = {}
      <3>1. f \in Injection(N \ {n}, B)
        BY <2>1, <2>2, <2>4 DEF Injection, IsInjective
      <3>2. Cardinality(N \ {n}) <= Cardinality(B)
        BY <3>1, <1>1, FS_Injection
      <3> QED
        BY <3>2, <2>3, <1>1, <1>3
    <2>5. CASE F # {}
      <3>1. PICK k \in F : TRUE
        BY <2>5
      <3>2. F = {k} /\ n \notin N
        BY <1>1, <3>1, ForcedBridgeIsLast DEF NativeActs, ForcedBridges
      <3>3. k \notin B
        BY <3>1 DEF CountedBridges, ForcedBridges
      <3>4. C = B \cup {k}
        BY <3>2
      <3>5. IsFiniteSet(C) /\ Cardinality(C) = Cardinality(B) + 1
        BY <1>1, <3>3, <3>4, FS_AddElement
      <3> HIDE DEF C
      <3>6. f \in Injection(N \ {n}, C)
        BY <2>1, <2>2 DEF Injection, IsInjective
      <3>7. Cardinality(N \ {n}) <= Cardinality(C)
        BY <3>5, <3>6, FS_Injection
      <3> QED
        BY <3>2, <3>5, <3>7, <2>3, <1>1, <1>3
    <2> QED
      BY <2>4, <2>5
  <1>5. Cardinality(E) <= Cardinality(B) + 2
    <2>1. E \subseteq (B \cup {1}) \cup F
      BY <1>1 DEF StartsExecution, Chained, CountedBridges, ForcedBridges
    <2>2. PICK k : F \subseteq {k}
      <3>1. CASE F = {}
        BY <3>1
      <3>2. CASE F # {}
        BY <3>2, ForcedBridgeIsLast
      <3> QED
        BY <3>1, <3>2
    <2>3. IsFiniteSet(B \cup {1}) /\ Cardinality(B \cup {1}) \in Nat
          /\ Cardinality(B \cup {1}) <= Cardinality(B) + 1
      BY <1>1, OneMore
    <2>4. /\ IsFiniteSet((B \cup {1}) \cup {k})
          /\ Cardinality((B \cup {1}) \cup {k}) \in Nat
          /\ Cardinality((B \cup {1}) \cup {k}) <= Cardinality(B \cup {1}) + 1
      <3> HIDE DEF B
      <3> QED
        BY <2>3, OneMore
    <2>5. E \in SUBSET ((B \cup {1}) \cup {k})
      BY <2>1, <2>2
    <2>6. Cardinality(E) <= Cardinality((B \cup {1}) \cup {k})
      BY <2>4, <2>5, FS_Subset
    <2> QED
      BY <2>3, <2>4, <2>6, <1>1, <1>3
  <1> QED
    BY <1>4, <1>5

\* However the program recurses through native code, the C++ stack holds at
\* most MaxBridge + 1 native invocations and MaxBridge + 2 executeInternal.
THEOREM NativeNestingCorrect == Spec => []NativeNestingBounded
PROOF
  <1>1. IInv => NativeNestingBounded
    <2> SUFFICES ASSUME IInv PROVE NativeNestingBounded
      OBVIOUS
    <2>1. /\ acts \in Seq(Activation) /\ Chained(acts)
          /\ Cardinality(CountedBridges(acts)) \in 0 .. MaxBridge
      BY DEF IInv, ChainInv, ChainType, CallChain, BridgeDepthExact
    <2>2. IsFiniteSet(NativeActs(acts)) /\ IsFiniteSet({i \in DOMAIN acts : StartsExecution(acts[i])})
      <3>1. /\ NativeActs(acts) \in SUBSET DOMAIN acts
            /\ {i \in DOMAIN acts : StartsExecution(acts[i])} \in SUBSET DOMAIN acts
        BY DEF NativeActs
      <3> QED
        BY <2>1, <3>1, FiniteChain, FS_Subset
    <2>3. /\ Cardinality(NativeActs(acts)) \in Nat
          /\ Cardinality({i \in DOMAIN acts : StartsExecution(acts[i])}) \in Nat
      BY <2>2, FS_CardinalityType
    <2> QED
      BY <2>1, <2>3, NativeNesting DEF NativeNestingBounded
  <1> QED
    BY Invariance, <1>1, PTL

-----------------------------------------------------------------------------
(* TieredRuntime implements EmberCalls: every step of the tiered machine   *)
(* is a step of the machine without tiers, or changes nothing there.       *)


Names(s) == [i \in DOMAIN s |-> s[i].fn]

LEMMA NamesSeq ==
  ASSUME NEW s \in Seq(Activation)
  PROVE  /\ Names(s) \in Seq(Fns) /\ Len(Names(s)) = Len(s)
         /\ DOMAIN Names(s) = 1 .. Len(s)
         /\ \A i \in 1 .. Len(s) : Names(s)[i] = s[i].fn
         /\ Names(s) = <<>> <=> s = <<>>
PROOF
  <1>1. DOMAIN s = 1 .. Len(s) /\ Len(s) \in Nat /\ \A i \in DOMAIN s : s[i] \in Activation
    BY FiniteChain
  <1>2. Names(s) \in [1 .. Len(s) -> Fns]
    BY <1>1 DEF Names, Activation
  <1>3. Names(s) \in Seq(Fns)
    BY <1>1, <1>2, SeqDef
  <1>4. Len(Names(s)) = Len(s)
    BY <1>1, <1>2, <1>3, LenProperties
  <1> QED
    BY <1>1, <1>2, <1>3, <1>4, EmptySeq DEF Names

LEMMA NamesAppend ==
  ASSUME NEW s \in Seq(Activation), NEW a \in Activation
  PROVE  Names(Append(s, a)) = Append(Names(s), a.fn)
PROOF
  <1>1. a.fn \in Fns
    BY DEF Activation
  <1> DEFINE t == Append(s, a)
             u == Append(Names(s), a.fn)
  <1>2. /\ t \in Seq(Activation) /\ Len(t) = Len(s) + 1
        /\ \A i \in 1 .. Len(s) : t[i] = s[i]
        /\ t[Len(s) + 1] = a
    BY AppendProperties
  <1>3. /\ u \in Seq(Fns) /\ Len(u) = Len(Names(s)) + 1
        /\ \A i \in 1 .. Len(Names(s)) : u[i] = Names(s)[i]
        /\ u[Len(Names(s)) + 1] = a.fn
    BY <1>1, NamesSeq, AppendProperties
  <1>4. /\ Names(s) \in Seq(Fns) /\ Len(Names(s)) = Len(s) /\ Len(s) \in Nat
        /\ \A i \in 1 .. Len(s) : Names(s)[i] = s[i].fn
    BY NamesSeq, FiniteChain
  <1> HIDE DEF t, u
  <1>5. /\ Names(t) \in Seq(Fns) /\ Len(Names(t)) = Len(t)
        /\ \A i \in 1 .. Len(t) : Names(t)[i] = t[i].fn
    BY <1>2, NamesSeq
  <1>6. Len(Names(t)) = Len(u) /\ \A i \in 1 .. Len(Names(t)) : Names(t)[i] = u[i]
    <2>1. Len(Names(t)) = Len(s) + 1 /\ Len(u) = Len(s) + 1
      BY <1>2, <1>3, <1>4, <1>5
    <2>2. ASSUME NEW i \in 1 .. Len(s)
          PROVE  Names(t)[i] = u[i]
      <3>1. i \in 1 .. Len(t) /\ i \in 1 .. Len(Names(s))
        BY <1>2, <1>4
      <3>2. Names(t)[i] = s[i].fn
        BY <1>2, <1>5, <3>1
      <3> QED
        BY <1>3, <1>4, <3>1, <3>2
    <2>3. Names(t)[Len(s) + 1] = u[Len(s) + 1]
      <3>1. Len(s) + 1 \in 1 .. Len(t)
        BY <1>2, <1>4
      <3> QED
        BY <1>2, <1>3, <1>4, <1>5, <3>1
    <2>4. \A i \in 1 .. Len(s) + 1 : i \in 1 .. Len(s) \/ i = Len(s) + 1
      BY <1>4
    <2> QED
      BY <2>1, <2>2, <2>3, <2>4
  <1>7. Names(t) = u
    BY <1>3, <1>5, <1>6, SeqEqual
  <1> QED
    BY <1>7 DEF t, u

LEMMA NamesPrefix ==
  ASSUME NEW s \in Seq(Activation), Chained(s), s # <<>>
  PROVE  Names(SubSeq(s, 1, Len(s) - 1)) = SubSeq(Names(s), 1, Len(Names(s)) - 1)
PROOF
  <1> DEFINE n == Len(s) - 1
             t == SubSeq(s, 1, n)
             u == SubSeq(Names(s), 1, n)
  <1>1. n \in 0 .. Len(s) /\ n \in Nat /\ n \in Int /\ Len(s) = n + 1
    BY EmptySeq
  <1>2. /\ Names(s) \in Seq(Fns) /\ Len(Names(s)) = Len(s)
        /\ \A i \in 1 .. Len(s) : Names(s)[i] = s[i].fn
    BY NamesSeq
  <1> HIDE DEF n
  <1>3. t \in Seq(Activation) /\ Len(t) = n /\ \A i \in 1 .. n : t[i] = s[i]
    BY <1>1, Prefix
  <1>4. \A i \in 1 .. n : Names(s)[i] \in Fns
    BY <1>1, <1>2, ElementOfSeq
  <1>5. /\ u \in Seq(Fns)
        /\ Len(u) = IF 1 <= n THEN n - 1 + 1 ELSE 0
        /\ \A i \in 1 .. n - 1 + 1 : u[i] = Names(s)[1 + i - 1]
    BY <1>1, <1>4, SubSeqProperties
  <1> HIDE DEF t, u
  <1>6. /\ Names(t) \in Seq(Fns) /\ Len(Names(t)) = n
        /\ \A i \in 1 .. n : Names(t)[i] = t[i].fn
    BY <1>3, NamesSeq
  <1>7. Len(Names(t)) = Len(u) /\ \A i \in 1 .. Len(Names(t)) : Names(t)[i] = u[i]
    <2>1. Len(u) = n
      BY <1>1, <1>5
    <2>2. ASSUME NEW i \in 1 .. n
          PROVE  Names(t)[i] = u[i]
      <3>1. i \in 1 .. Len(s) /\ i \in 1 .. n - 1 + 1 /\ 1 + i - 1 = i
        BY <1>1
      <3>2. Names(t)[i] = s[i].fn
        BY <1>3, <1>6
      <3>3. u[i] = Names(s)[i]
        BY <1>5, <3>1
      <3> QED
        BY <1>2, <3>1, <3>2, <3>3
    <2> QED
      BY <1>6, <2>1, <2>2
  <1>8. Names(t) = u
    BY <1>5, <1>6, <1>7, SeqEqual
  <1> QED
    BY <1>2, <1>8 DEF t, u, n

-----------------------------------------------------------------------------
LEMMA Mapping ==
  /\ AbstractCalls = IF raised = "none" THEN Names(acts) ELSE <<>>
  /\ AbstractCalls' = IF raised' = "none" THEN Names(acts') ELSE <<>>
PROOF BY DEF AbstractCalls, Names

LEMMA InitMaps == Init => Ember!Init
PROOF
  <1> SUFFICES ASSUME Init PROVE Ember!Init
    OBVIOUS
  <1>1. AbstractCalls = <<>>
    BY DEF Init, AbstractCalls
  <1>2. AbstractOutcome = "idle"
    BY DEF Init, AbstractOutcome
  <1> QED
    BY <1>1, <1>2 DEF Init, Ember!Init, RuntimeOptions, Ember!RuntimeOptions,
                      NeverInvoked, Ember!NeverInvoked

\* A dispatch counts the invocation as the abstract machine does; when it
\* throws, the invocation is counted and its event is lost.
LEMMA DispatchMaps ==
  ASSUME NEW f, NEW events
  PROVE  /\ Dispatch(f, events) => Ember!Counted(f, events)
         /\ DispatchThrows(f, events) => Ember!Unreported(f, events)
PROOF
  <1>1. /\ \A p, t : Ember!RecordInvocation(p, t) = RecordInvocation(p, t)
        /\ \A p, t : Ember!BecomesHot(p, t) = BecomesHot(p, t)
        /\ \A p : Ember!HotEvent(f, p) = HotEvent(f, p)
    BY DEF Ember!RecordInvocation, RecordInvocation, Ember!BecomesHot, BecomesHot,
           Ember!HotEvent, HotEvent, Ember!Saturated, Saturated
  <1>2. ProfileAfter(f) = IF options.profilingEnabled
                          THEN [profile EXCEPT ![f] = Ember!RecordInvocation(@, options.hotThreshold)]
                          ELSE profile
    BY <1>1 DEF ProfileAfter
  <1>3. CASE options.profilingEnabled
    BY <1>1, <1>2, <1>3 DEF Dispatch, DispatchThrows, Ember!Counted, Ember!Unreported, BecameHot
  <1>4. CASE ~options.profilingEnabled
    BY <1>1, <1>2, <1>4 DEF Dispatch, DispatchThrows, Ember!Counted, Ember!Unreported, BecameHot
  <1> QED
    BY <1>3, <1>4

\* An error takes effect where it is raised: all calls are gone at once.
LEMMA Running ==
  ASSUME IInv, acts # <<>>, raised = "none"
  PROVE  /\ AbstractOutcome = "running" /\ AbstractCalls = Names(acts)
         /\ Len(AbstractCalls) = Len(acts) /\ dynamicFrameCount = Len(acts)
         /\ acts \in Seq(Activation) /\ Chained(acts) /\ Names(acts) \in Seq(Fns)
PROOF
  <1>1. acts \in Seq(Activation) /\ Chained(acts)
    BY DEF IInv, ChainInv, ChainType, CallChain
  <1>2. dynamicFrameCount = Len(acts)
    BY LiveCalls DEF IInv, ChainInv, FrameBudgetExact
  <1> QED
    BY <1>1, <1>2, Mapping, NamesSeq DEF AbstractOutcome

LEMMA Raised ==
  ASSUME raised' # "none"
  PROVE  AbstractCalls' = <<>> /\ AbstractOutcome' = OutcomeOf(raised')
PROOF BY Mapping DEF AbstractOutcome

LEMMA NotRunning ==
  ASSUME IInv, Idle
  PROVE  /\ AbstractOutcome # "running" /\ AbstractCalls = <<>>
         /\ raised = "none" /\ acts = <<>>
PROOF
  <1>1. acts = <<>> /\ raised = "none" /\ report \in Errors \cup {"none", "ok", "R5002"}
    BY DEF Idle, IInv, ChainInv, ChainType, CallChain
  <1>2. AbstractOutcome # "running"
    BY <1>1 DEF AbstractOutcome, OutcomeOf, Errors
  <1>3. AbstractCalls = <<>>
    BY <1>1 DEF AbstractCalls
  <1> QED
    BY <1>1, <1>2, <1>3

LEMMA ExecuteMaps ==
  ASSUME IInv, NEW f \in Fns, Execute(f)
  PROVE  Ember!Begin(f)
PROOF
  <1> DEFINE a == Invocation(f, "entry", FALSE, nativeCode')
  <1>1. a \in Activation /\ a.fn = f
    BY DEF Invocation, SelectExecutionTier, Activation
  <1> HIDE DEF a
  <1>2. /\ acts' = <<a>> /\ raised' = raised /\ report' = "none" /\ Idle /\ options' = options
        /\ Dispatch(f, <<>>)
    BY DEF Execute, a
  <1>3. AbstractCalls' = <<f>>
    <2>1. AbstractCalls' = Names(acts')
      BY <1>2, NotRunning, Mapping
    <2>2. Names(<<a>>) = <<a.fn>>
      BY DEF Names
    <2> QED
      BY <1>1, <1>2, <2>1, <2>2
  <1>4. AbstractOutcome' = "running"
    BY <1>2, NotRunning DEF AbstractOutcome
  <1> QED
    BY <1>2, <1>3, <1>4, NotRunning, DispatchMaps DEF Ember!Begin, Ember!Running

LEMMA CallMaps ==
  ASSUME IInv, NEW f \in Fns, VmCall(f) \/ NativeCall(f)
  PROVE  Ember!Call(f)
PROOF
  <1>1. /\ acts # <<>> /\ raised = "none" /\ dynamicFrameCount < MaxFrames
        /\ raised' = "none" /\ Dispatch(f, hotEvents) /\ options' = options
    BY DEF VmCall, NativeCall, Runs
  <1>2. PICK a \in Activation : a.fn = f /\ acts' = Append(acts, a)
    <2>1. Top.forced \in BOOLEAN /\ ForceVm \in BOOLEAN
      BY <1>1, LiveCalls DEF Activation, ForceVm
    <2>2. CASE VmCall(f)
      <3>1. acts' = Append(acts, Invocation(f, "vmCall", Top.forced, nativeCode'))
        BY <2>2 DEF VmCall
      <3> QED
        BY <2>1, <3>1, Invoked
    <2>3. CASE NativeCall(f)
      <3>1. acts' = Append(acts, Invocation(f, "bridge", ForceVm, nativeCode'))
        BY <2>3 DEF NativeCall
      <3> QED
        BY <2>1, <3>1, Invoked
    <2> QED
      BY <2>2, <2>3
  <1>3. AbstractCalls' = Append(AbstractCalls, f)
    BY <1>1, <1>2, Running, NamesAppend, Mapping
  <1>4. AbstractOutcome' = "running"
    <2>1. acts' # <<>>
      BY <1>1, <1>2, Running, AppendProperties
    <2> QED
      BY <1>1, <2>1 DEF AbstractOutcome
  <1> QED
    BY <1>1, <1>3, <1>4, Running, DispatchMaps DEF Ember!Call, Ember!Running

LEMMA ReturnMaps ==
  ASSUME IInv, Return
  PROVE  Ember!Return
PROOF
  <1>1. /\ acts # <<>> /\ raised = "none" /\ raised' = "none"
        /\ acts' = SubSeq(acts, 1, Len(acts) - 1)
        /\ report' = IF Top.via = "entry" THEN "ok" ELSE report
        /\ UNCHANGED <<options, profile, nativeCode, hotEvents>>
    BY DEF Return, Runs
  <1>2. AbstractCalls' = SubSeq(AbstractCalls, 1, Len(AbstractCalls) - 1)
    BY <1>1, Running, NamesPrefix, Mapping
  <1>3. acts' = <<>> <=> Len(acts) = 1
    BY <1>1, Running, TopOnly, LiveCalls, Pop
  <1>4. AbstractOutcome' = IF Len(AbstractCalls) = 1 THEN "ok" ELSE "running"
    BY <1>1, <1>3, Running, LiveCalls DEF AbstractOutcome, OutcomeOf
  <1> QED
    BY <1>1, <1>2, <1>4, Running DEF Ember!Return, Ember!Running

\* Errors of the program: the call budget and the division.
LEMMA ErrorMaps ==
  ASSUME IInv
  PROVE  /\ VmCallOverflow \/ NativeCallOverflow => Ember!Overflow
         /\ InvalidDivision => Ember!InvalidDivision
PROOF
  <1>1. ASSUME VmCallOverflow \/ NativeCallOverflow PROVE Ember!Overflow
    <2>1. /\ acts # <<>> /\ raised = "none" /\ dynamicFrameCount >= MaxFrames
          /\ raised' = "R5006" /\ UNCHANGED <<options, profile, hotEvents>>
      BY <1>1 DEF VmCallOverflow, NativeCallOverflow, Runs, Raise
    <2>2. dynamicFrameCount = MaxFrames
      BY <2>1, LiveCalls, BudgetAssumption
    <2>3. AbstractCalls' = <<>> /\ AbstractOutcome' = "R5006"
      BY <2>1, Raised DEF OutcomeOf
    <2> QED
      BY <2>1, <2>2, <2>3, Running DEF Ember!Overflow, Ember!Fail, Ember!Running
  <1>2. ASSUME InvalidDivision PROVE Ember!InvalidDivision
    <2>1. /\ acts # <<>> /\ raised = "none" /\ raised' = "R5004"
          /\ UNCHANGED <<options, profile, hotEvents>>
      BY <1>2 DEF InvalidDivision, Runs, Raise
    <2>2. AbstractCalls' = <<>> /\ AbstractOutcome' = "R5004"
      BY <2>1, Raised DEF OutcomeOf
    <2> QED
      BY <2>1, <2>2, Running DEF Ember!InvalidDivision, Ember!Fail, Ember!Running
  <1> QED
    BY <1>1, <1>2

\* Running out of memory: while the first invocation is made, or later.
LEMMA AbortBeginMaps ==
  ASSUME IInv, NEW f \in Fns, ExecuteThrows(f)
  PROVE  Ember!AbortBegin(f)
PROOF
  <1>1. /\ acts' = <<>> /\ raised' = "none" /\ report' = "badAlloc" /\ options' = options
        /\ Idle
        /\ Dispatch(f, <<>>) \/ DispatchThrows(f, <<>>)
    BY NotRunning DEF ExecuteThrows, NothingEntered
  <1>2. AbstractOutcome' = "aborted" /\ AbstractCalls' = <<>>
    BY <1>1 DEF AbstractOutcome, AbstractCalls, OutcomeOf
  <1>3. Ember!Counted(f, <<>>) \/ Ember!Unreported(f, <<>>)
    BY <1>1, DispatchMaps
  <1> QED
    BY <1>1, <1>2, <1>3, NotRunning DEF Ember!AbortBegin, Ember!Fail, Ember!Running

LEMMA AbortMaps ==
  ASSUME IInv, VmThrows \/ NativeCallThrows
  PROVE  Ember!Abort
PROOF
  <1>1. /\ acts # <<>> /\ raised = "none" /\ raised' \in {"R5003", "badAlloc"}
        /\ options' = options
    BY DEF VmThrows, NativeCallThrows, Raise, Runs
  <1>2. AbstractOutcome' = "aborted" /\ AbstractCalls' = <<>>
    BY <1>1, Raised DEF OutcomeOf
  <1>3. \/ UNCHANGED <<profile, hotEvents>>
        \/ \E f \in Fns : Dispatch(f, hotEvents) \/ DispatchThrows(f, hotEvents)
    BY DEF VmThrows, NativeCallThrows
  <1>4. \/ UNCHANGED <<profile, hotEvents>>
        \/ \E f \in Fns : Ember!Counted(f, hotEvents) \/ Ember!Unreported(f, hotEvents)
    BY <1>3, DispatchMaps
  <1> QED
    BY <1>1, <1>2, <1>4, Running DEF Ember!Abort, Ember!Fail, Ember!Running

LEMMA RejectMaps ==
  ASSUME IInv, ExecuteRejected
  PROVE  Ember!Reject
PROOF
  <1>1. /\ Idle /\ acts' = <<>> /\ raised' = "none" /\ report' = "R5002" /\ hotEvents' = <<>>
        /\ UNCHANGED <<options, profile>>
    BY NotRunning DEF ExecuteRejected, NothingEntered
  <1>2. AbstractOutcome' = "R5002" /\ AbstractCalls' = <<>>
    BY <1>1 DEF AbstractOutcome, AbstractCalls, OutcomeOf
  <1> QED
    BY <1>1, <1>2, NotRunning DEF Ember!Reject, Ember!Running

\* Unwinding is invisible: the error has already taken effect.
LEMMA UnwindMaps ==
  ASSUME IInv, Unwind
  PROVE  UNCHANGED Ember!vars
PROOF
  <1>1. /\ acts # <<>> /\ raised # "none" /\ raised \in Errors
        /\ UNCHANGED <<options, profile, hotEvents>>
    BY DEF Unwind, UnwindNativeCall, UnwindExecution, IInv, ChainInv, ChainType
  <1>2. AbstractCalls = <<>> /\ AbstractOutcome = OutcomeOf(raised)
    BY <1>1 DEF AbstractCalls, AbstractOutcome
  <1>3. AbstractCalls' = <<>> /\ AbstractOutcome' = OutcomeOf(raised)
    <2>1. CASE UnwindNativeCall
      BY <1>1, <2>1, Raised DEF UnwindNativeCall
    <2>2. CASE UnwindExecution
      <3>1. PICK base \in DOMAIN acts :
              /\ acts' = SubSeq(acts, 1, base - 1)
              /\ IF acts[base].via = "entry"
                 THEN report' = raised /\ raised' = "none"
                 ELSE report' = report /\ raised' = RaisedByBridge(raised)
        BY <2>2 DEF UnwindExecution
      <3>2. CASE acts[base].via = "entry"
        <4>1. base = 1
          BY <3>2 DEF IInv, ChainInv, CallChain, Chained
        <4>2. acts' = <<>>
          BY <3>1, <4>1, SubSeqEmpty
        <4> QED
          BY <1>1, <3>1, <3>2, <4>2 DEF AbstractCalls, AbstractOutcome, Errors
      <3>3. CASE acts[base].via # "entry"
        <4>1. raised' = RaisedByBridge(raised)
          BY <3>1, <3>3
        <4>2. raised' # "none" /\ OutcomeOf(raised') = OutcomeOf(raised)
          BY <1>1, <4>1 DEF RaisedByBridge, OutcomeOf, Errors
        <4> QED
          BY <4>2, Raised
      <3> QED
        BY <3>2, <3>3
    <2> QED
      BY <2>1, <2>2 DEF Unwind
  <1> QED
    BY <1>1, <1>2, <1>3 DEF Ember!vars

LEMMA StepMaps ==
  ASSUME IInv, [Next]_vars
  PROVE  [Ember!Next]_(Ember!vars)
PROOF
  <1>1. CASE UNCHANGED vars
    BY <1>1 DEF vars, Ember!vars, AbstractCalls, AbstractOutcome
  <1>2. CASE Next
    BY <1>2, ExecuteMaps, CallMaps, ReturnMaps, ErrorMaps, AbortBeginMaps, AbortMaps, RejectMaps, UnwindMaps
       DEF Next, Ember!Next
  <1> QED
    BY <1>1, <1>2

\* Tiering is not observable: the tiered runtime implements EmberCalls.
THEOREM Refinement == Spec => RefinesEmberCalls
PROOF
  <1>1. IInv /\ [Next]_vars => [Ember!Next]_(Ember!vars)
    BY StepMaps
  <1> QED
    BY InitMaps, Invariance, <1>1, PTL DEF Spec, RefinesEmberCalls, Ember!Spec
=============================================================================
