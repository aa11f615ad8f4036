SPECIFICATION Spec
CONSTANTS
  HwArms = {h1, h2}
  Requests = {r1, r2}
  Plans = {p1, p2}
  NoPlan = NoPlan
  NoArm = NoArm
  MaxSessions = 1
  MaxAsks = 3
  Rails = {s1, s2}
  Pairs = {k1}
  Distances = {0, 1, 2, 3, 9}
  Inflation = 5
  Tol = 1
  NoRef = NoRef
  MaxWalk = 3
  c1 = c1
  c2 = c2
  Candidates <- Order
  NoCand = NoCand
  Postures <- Stances
  m1 = m1
  m2 = m2
  guest = guest
  Players = {m1, m2}
  Tapes <- Episodes
  Drifts <- Strays
  JointCap = 12
  RailCap = 4
  PerFrame = 1
  ActionsAdmitted = TRUE
  StartTol = 24
  MaxHolds = 1
  MaxDrifts = 1
  MaxPlays = 1
  Crew = {m1, m2}
  NoBlock = NoBlock
  MaxColumns = 6
INVARIANTS OneOwner VerdictIsSafe HomesSafely ReplayIsTheRecording
PROPERTIES MonitorFollows
CHECK_DEADLOCK FALSE
