SPECIFICATION ScopedSpec
CONSTANTS
  Arms = {1, 2}
  DefaultArm = 1
  Grippers = {1}
  MaxPos = 1
  HoldLimit = 1
  MaxMotions = 2
  MaxInputs = 1
  MaxEpisodes = 1
  MaxGotos = 1
  MaxFaults = 0
  Rows = 1
  None = None
  Paths <- MCShortPaths
  Recorded <- MCRecorded
INVARIANTS ExecutorMatchesState InputWins
PROPERTIES EndsAtGoalOrSaysWhy
