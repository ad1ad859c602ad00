SPECIFICATION Spec
CONSTANTS
  Functions <- MCFunctions
  MaxId = 7
INVARIANTS ReadsAreDefined DominanceExact
PROPERTY SsaVerifierConcludes
\* A rejected function is not executed, and an accepted one may return.
CHECK_DEADLOCK FALSE
