SPECIFICATION Spec
CONSTANTS
  c1 = c1
  c2 = c2
  c3 = c3
  m1 = m1
  m2 = m2
  m3 = m3
  NoMatch = NoMatch
  NoClient = NoClient
  maxPlayers = 2
  Users <- ThreeClients
  Clients <- ThreeClients
  UserOf <- Own
  Creators <- Nobody
  Matches <- TwoMatches
  EnvValues = {""}
  seatTTL = 1
  sweepThreshold = 1
  ListLimit = 2
  Failing = {}
  MaxTime = 0
  MaxCalls = 4
CHECK_DEADLOCK FALSE
SYMMETRY Symmetry
PROPERTY NoSeatedRejection
