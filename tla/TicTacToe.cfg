SPECIFICATION FairSpec
CONSTANTS
  u1 = u1
  u2 = u2
  u3 = u3
  Users = {u1, u2}
  aiUserId = aiUserId
  Droppers <- SecondUser
  AiModes = {TRUE, FALSE}
  None = None
  Cells <- SmallBoard
  winningPositions <- TwoLines
  Beyond = Beyond
  MoreOpCodes = {"INVITE_AI"}
  Predictions = {0}
  turnTicks = 2
  nextGameTicks = 1
  maxEmptyTicks = 1
  MaxJoins = 1
  MaxMessages = 2
CHECK_DEADLOCK FALSE
INVARIANTS TypeOK MarksAlternate ResultsAreTrue
PROPERTIES ClosesOnlyEmpty RoundsGoOn EmptyCloses
