SPECIFICATION HistorySpec
CONSTANTS
  Instructions <- Samples
  Vocabulary <- AllInstructions
  Conditions <- SampleConditions
  MaxCodeSize = 16
  MaxLabels = 2
INVARIANTS ReadAsWritten FinalizeIsSafe
PROPERTY RefinesAssembly
