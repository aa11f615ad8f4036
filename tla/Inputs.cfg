SPECIFICATION Spec
CONSTANTS
  Browsers = {b1, b2}
  MaxMade = 2
  MaxStamps = 1
  Timeout = 2
  Ramp = 2
  NoTime = NoTime
  MaxKeys = 3
  MaxStalls = 1
  Posts = {q1}
  YawPoints = 1
  MaxFlows = 2
  MaxJobs = 2
  EdgeHistory = 2
  StaleAfter = 1
  MaxEdges = 3
  Settings <- Chosen
  Leash = 1
  Rate = 1
  Reach = 1
INVARIANTS GuardsExclude OneContext EdgesFireOnce StillHandStays
PROPERTIES AbandonedEnds SilenceStops
CHECK_DEADLOCK FALSE
