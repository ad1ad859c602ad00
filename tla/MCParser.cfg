SPECIFICATION Spec
CONSTANT Inputs <- MCInputs
INVARIANTS DiagnosticExact TreeReadsBack
\* A program has been read, or refused.
CHECK_DEADLOCK FALSE
