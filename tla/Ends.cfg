SPECIFICATION Spec
CONSTANTS
  Ids <- MCOne
  Motions = {home, reset}
  home = home
  reset = reset
  Kinds <- MCKinds
  Starts <- MCStarts
  Legs = 1
  MaxFaults = 0
  MaxGotos = 1
  MaxAsks = 2
  MaxFailures = 1
  None = None
  RecIds = 1
  RecSessions <- MCTwo
  Ending = {1, 2}
  RecAsks = 1
  RecFaults = 2
PROPERTIES WorkersEnd SavingEnds
CHECK_DEADLOCK FALSE
