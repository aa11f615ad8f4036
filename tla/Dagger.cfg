SPECIFICATION ScopedSpec
CONSTANTS
  Arms = {1, 2}
  Versions <- MCVersions
  MaxNans = 1
  MaxEpisodes = 2
  MaxToggles = 1
  StrikeLimit = 1
  None = None
INVARIANTS OneBoundaryEach
PROPERTIES WeightsStandDuringAct VersionsKept
CHECK_DEADLOCK FALSE
