SPECIFICATION Spec
CONSTANTS
  MaxVersions = 2
  MaxRequests = 2
  MaxInbox = 1
  WaitForReady = TRUE
  PauseWhileTraining = TRUE
  MaxSessions = 2
  MaxStatuses = 3
  MaxRollouts = 2
  None = None
  Nobody = Nobody
INVARIANTS LatestIsWhole NothingUntold PhaseIsNewest
PROPERTIES NeverRewritten NoneLeftBehind
CHECK_DEADLOCK FALSE
