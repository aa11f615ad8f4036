SPECIFICATION FaultsSpec
CONSTANTS
  Arms = {1, 2}
  DefaultArm = 2
  Grippers = {}
  MaxPos = 1
  HoldLimit = 1
  MaxMotions = 1
  MaxInputs = 1
  MaxEpisodes = 0
  MaxGotos = 1
  MaxFaults = 1
  Rows = 1
  None = None
  Paths <- MCRailPaths
  Recorded <- MCOneArm
INVARIANTS RecoveringHolds OneArmPerPlan
PROPERTIES PlanTerminates
