SPECIFICATION Spec
CONSTANTS
  Boards <- SmallBoards
  PawnSquares <- SmallPawns
  Scores <- SmallScores
  Budgets = {1, 3}
  Horizon = 3
  Pending = Pending
  Failed = Failed
INVARIANTS ReplyIsLegal MateNotOverlooked TreeConsistent MaterialPlaysMaximin
CHECK_DEADLOCK FALSE
