SPECIFICATION FairSpec
CONSTANTS
  a = a  b = b  g1 = g1  g2 = g2
  h1 = h1  h2 = h2  w1 = w1  w2 = w2  c1 = c1
  GameIds = {g1}
  Moves = {a, b}
  Positions <- SmallPositions
  Outcome <- SmallOutcome
  Absent = Absent
  NoRow = NoRow
  NotStarted = NotStarted
  Gone = Gone
  MaxReceive = 2
  MaxBatch = 2
  Faults = {"workerCrash", "redisDown", "sqsDelete", "slow", "engine", "expiry", "pg"}
  Handlers = {h1}
  Workers = {w1}
  Watchers = {}
  Requests = {"create", "move", "resign"}
INVARIANTS HandoffNotLost ArchiveAgrees
PROPERTIES EngineReplies RuledIsFinal
CHECK_DEADLOCK FALSE
