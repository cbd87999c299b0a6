SPECIFICATION Spec
CONSTANTS
  Boards <- KnightMates
  PawnSquares <- SmallPawns
  Scores <- SmallScores
  Budgets = {1, 3}
  Horizon = 3
  Pending = Pending
  Failed = Failed
INVARIANTS MateNotOverlooked
CHECK_DEADLOCK FALSE
