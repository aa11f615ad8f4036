SPECIFICATION Spec
CONSTANTS
  Arms = {1, 2}
  Watched = {1}
  Grips = {closed}
  None = None
  MaxPos = 2
  Pairs <- MCPairs
  Dist <- MCDist
  Delta = 1
  Hyst = 3
  MaxStep = 1
  MaxFaults = 1
  MaxGrips = 1
PROPERTY PrefaultNeverSent
