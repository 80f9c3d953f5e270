CONSTANTS
  Runs = {r1, r2}
  None = None
SPECIFICATION FairSpec
INVARIANTS ExitTruthful EvidenceFirst PreflightHolds
PROPERTIES Ends
CHECK_DEADLOCK FALSE
