SPECIFICATION FairSpec
CONSTANTS
  MaxSequence = 3
  MaxSessions = 2
  MaxId = 3
INVARIANTS AcceptedInOrder DisconnectedMeansDown ConnectedIsThis
PROPERTIES CommandsAccepted
