SPECIFICATION FairSpec
CONSTANTS
  u1 = u1
  u2 = u2
  u3 = u3
  Users = {u1, u2, u3}
  aiUserId = aiUserId
  Droppers = {}
  AiModes = {FALSE}
  None = None
  Cells <- SmallBoard
  winningPositions <- TwoLines
  Beyond = Beyond
  MoreOpCodes = {}
  Predictions = {0}
  turnTicks = 2
  nextGameTicks = 1
  maxEmptyTicks = 1
  MaxJoins = 2
  MaxMessages = 0
CHECK_DEADLOCK FALSE
PROPERTY ListedAdmits
