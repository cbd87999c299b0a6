SPECIFICATION FairSpec
CONSTANTS
  a = a  b = b
  GameIds = {g1, g2}
  Moves = {a}
  Positions <- ShortPositions
  Outcome <- ShortOutcome
  Absent = Absent
  Faults = {"wsClose", "redisDown", "redisLost"}
  Watchers = {c1, c2}
  Capacity = 1
  Calls = {k1, k2}
  Sides = {"white"}
  Played = {g2}
  Overlap = {"create"}
  Conceded = {1}
INVARIANTS ListensToItsGame
PROPERTIES MoveFitsScreen ScreenGrows ImplementsFanout SocketsEnd
CHECK_DEADLOCK FALSE
