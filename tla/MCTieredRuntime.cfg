SPECIFICATION FairSpec
CONSTANTS
  Fns = {f1, f2}
  f1 = f1
  f2 = f2
  MaxCount = 3
  MaxFrames = 5
  MaxBridge = 2
INVARIANTS
  TypeOK
  FrameBudgetExact
  CallChain
  BridgeDepthExact
  NativeNestingBounded
  HotExactlyAtThreshold
PROPERTIES
  FailedCompilationIsFinal
  ErrorsReachTheEmbedder
  RefinesEmberCalls
CHECK_DEADLOCK TRUE
