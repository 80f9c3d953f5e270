CONSTANTS
  V4 = {1, 2}
  V6 = {3}
  Supported = {1, 3}
  Responses <- MCResponses
  MaxRecords = 3
  MaxCandidates = 2
  MaxLifetime = 2
  MaxTime = 3
  MaxBinding = 3
  None = None
SPECIFICATION FairSpec
INVARIANTS HandoffSound
PROPERTIES Settles
