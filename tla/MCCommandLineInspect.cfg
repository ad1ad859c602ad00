SPECIFICATION Spec
CONSTANTS
  MaxCount = 4
  DefaultThreshold = 2
  DefaultIterations = 1
  MaxIterations = 2
  Lines <- MCLines
  Programs <- MCPrograms
  Functions <- MCFunctions
INVARIANT InspectableAtEveryStage
CHECK_DEADLOCK FALSE
