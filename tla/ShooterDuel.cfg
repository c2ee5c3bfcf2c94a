SPECIFICATION FairSpec
CONSTANTS
  u1 = u1
  u2 = u2
  u3 = u3
  s1 = s1
  s2 = s2
  s3 = s3
  s4 = s4
  NoUser = NoUser
  Users <- TwoUsers
  Sessions <- TwoSessions
  UserOf <- Owner
  maxPlayers = 2
  startingHealth = 3
  maxDamage = 2
  cooldownTicks = 2
  idleTicks = 2
  graceTicks = 2
  JoinBatch = 2
  MaxTick = 8
  MaxMessages = 2
CHECK_DEADLOCK FALSE
INVARIANTS TypeOK CooldownPaced ClientsInSync GraceBounded
PROPERTIES AbandonedCloses LeaverForfeits LastStandingDecides DecidedCloses
