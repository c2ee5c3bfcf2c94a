SPECIFICATION Spec
CONSTANTS
  u1 = u1
  u2 = u2
  u3 = u3
  s1 = s1
  s2 = s2
  s3 = s3
  s4 = s4
  NoUser = NoUser
  Users <- ThreeUsers
  Sessions <- FourSessions
  UserOf <- Owner
  maxPlayers = 2
  startingHealth = 2
  maxDamage = 2
  cooldownTicks = 2
  idleTicks = 2
  graceTicks = 1
  JoinBatch = 1
  MaxTick = 5
  MaxMessages = 1
CHECK_DEADLOCK FALSE
INVARIANTS VerdictStands FullMeansStarted OpenMeansRoom
PROPERTIES SettledNeverRecovers NeverTornDownEarly ImplementsLobby
