SPECIFICATION FrontSpec
CONSTANTS
  Sources <- MCSources
  Hosts <- MCHosts
  Programs = {}
  Target = "main"
  Samples <- MCSamples
  CallErrors = {"R5006"}
  MaxCalls = 4
  Bits = 4
  MaxSlots = 65536
INVARIANTS
  AnalyzedIsRunnable
  SourceMeaning
CHECK_DEADLOCK FALSE
