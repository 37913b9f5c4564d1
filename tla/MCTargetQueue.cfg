\* Four camera commands and four GPS updates against two CMD_DISCONNECTs.
SPECIFICATION FairSpec
CONSTANTS
  QueueLength = 3
  Backlog = 3
  MaxCommands = 4
  MaxUpdates = 4
  MaxTells = 2
INVARIANT Counted
INVARIANT IdleMeansDone
INVARIANT DisconnectIsNext
PROPERTY ToldStops
