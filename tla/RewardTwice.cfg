SPECIFICATION Spec
CONSTANTS
  c1 = c1
  c2 = c2
  c3 = c3
  Calls <- TwoCalls
  Starts <- Clients
  DayLength = 2
  MaxTime = 4
  Failing = {}
CHECK_DEADLOCK FALSE
SYMMETRY Symmetry
INVARIANT OnePerDay
