SPECIFICATION FairSpec
CONSTANTS
  a = a  b = b  g1 = g1  g2 = g2
  h1 = h1  h2 = h2  w1 = w1  w2 = w2  c1 = c1
  GameIds = {g1}
  Moves = {a, b}
  Positions <- SmallPositions
  Outcome <- SmallOutcome
  Absent = Absent
  NoRow = NoRow
  NotStarted = NotStarted
  Gone = Gone
  MaxReceive = 2
  MaxBatch = 1
  Faults = {}
  Handlers = {h1}
  Workers = {w1}
  Watchers = {c1}
  Requests = {"create", "move"}
PROPERTIES BrowserCatchesUp
CHECK_DEADLOCK FALSE
