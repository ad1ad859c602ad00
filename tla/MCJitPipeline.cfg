SPECIFICATION FairSpec
CONSTANTS
  Programs <- MCPrograms
  Target = "main"
  Samples <- MCSamples
  CallErrors = {"R5004", "R5006"}
  MaxCalls = 5
  Bits = 4
  MaxSlots = 65536
INVARIANTS
  AbandonedForOperands
  SameBehaviour
  ConventionRespected
PROPERTIES
  NativeTerminates
CHECK_DEADLOCK FALSE
