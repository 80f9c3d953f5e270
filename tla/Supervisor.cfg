CONSTANTS
  MaxSessions = 2
  Fresh = TRUE
  CancelStops = TRUE
SPECIFICATION FairSpec
INVARIANTS NotRunningMeansGone StopLeavesNoChild NoResidue
PROPERTIES EndNoticed CallsReturn
CHECK_DEADLOCK FALSE
