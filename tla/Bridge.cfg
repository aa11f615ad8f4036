SPECIFICATION Spec
CONSTANTS
  None = None
  NoGoal = NoGoal
  NoSnap = NoSnap
  Machines = {m1, m2}
  EVENT_FIFO = 1
  MaxSaid = 2
  MaxFaults = 1
  MaxJoins = 2
  Arms = {a1, a2, a3}
  Driven = {a1, a2}
  MaxObs = 3
  MaxResets = 1
  MaxSnaps = 3
  NodeSessions = {s1, s2}
  NodeEpisodes = {e1, e2}
  every = 2
  MaxJobs = 4
INVARIANTS BoxesAreFree StatusSettles
PROPERTIES FeedKept BusRecovers
CHECK_DEADLOCK FALSE
