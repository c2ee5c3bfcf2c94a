SPECIFICATION FairSpec
CONSTANTS
  c1 = c1
  c2 = c2
  c3 = c3
  m1 = m1
  m2 = m2
  m3 = m3
  NoMatch = NoMatch
  NoClient = NoClient
  maxPlayers = 2
  Users <- TwoClients
  Clients <- TwoClients
  UserOf <- Own
  Creators <- TwoClients
  Matches <- ThreeMatches
  EnvValues = {"", "naive", "serialized", "bogus"}
  seatTTL = 1
  sweepThreshold = 1
  ListLimit = 3
  Failing = {"MatchList", "MatchCreate"}
  MaxTime = 0
  MaxCalls = 3
CHECK_DEADLOCK FALSE
INVARIANT NoTwinMatches
PROPERTY CallsReturn
