SPECIFICATION ScopedSpec
CONSTANTS
  Ids <- MCIds
  Motions = {home}
  home = home
  Kinds <- MCKinds
  Starts <- MCStarts
  Legs = 1
  MaxFaults = 1
  MaxGotos = 1
  MaxAsks = 1
  MaxFailures = 1
  None = None
INVARIANTS RigOwned StartSettled
CHECK_DEADLOCK FALSE
