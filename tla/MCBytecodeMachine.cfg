SPECIFICATION FairSpec
CONSTANTS
  Programs <- MCPrograms
  MaxFrames = 3
  Unset = Unset
INVARIANTS
  VerifiedNeverFaults
  NoUninitializedLoad
  SegmentsAsPredicted
PROPERTIES
  IncomingDescends
  ResultsAreTyped
  VerifierConcludes
CHECK_DEADLOCK FALSE
