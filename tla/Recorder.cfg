SPECIFICATION RecorderSpec
CONSTANTS
  MaxIds = 2
  Sessions = {1, 2}
  Ending = {1}
  MaxAsks = 1
  MaxFaults = 2
  None = None
INVARIANTS SavedIsWhole TempHasOwner
PROPERTIES ToldOnce
CHECK_DEADLOCK FALSE
