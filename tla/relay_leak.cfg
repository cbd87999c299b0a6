SPECIFICATION FairSpec
CONSTANTS
  a = a  b = b
  GameIds = {g1}
  Moves = {a, b}
  Positions <- SmallPositions
  Outcome <- SmallOutcome
  Absent = Absent
  Faults = {"wsClose"}
  Watchers = {c1}
  Capacity = 1
  Calls = {k1}
  Sides = {"white", "black"}
  Played = {g1}
  Overlap = {}
  Conceded = {}
PROPERTIES CancelUnsubscribes
CHECK_DEADLOCK FALSE
