SPECIFICATION Spec
CONSTANTS
  MaxCount = 4
  DefaultThreshold = 2
  DefaultIterations = 1
  MaxIterations = 2
  Lines <- MCLines
  Programs <- MCPrograms
  Functions <- MCFunctions
INVARIANTS UsageExact EveryEndIsExplained MeasuredAsLabelled
\* main has returned.
CHECK_DEADLOCK FALSE
