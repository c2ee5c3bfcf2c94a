SPECIFICATION FairSpec
CONSTANTS
  c1 = c1
  c2 = c2
  c3 = c3
  c4 = c4
  Calls <- FourCalls
  Points <- Requests
  maxPoints = 2
  Stored <- Returning
  Failing = {"StorageRead"}
CHECK_DEADLOCK FALSE
INVARIANTS TypeOK NothingLost AnswersDistinct
PROPERTY SomebodyWins
