SPECIFICATION FairSpec
CONSTANTS
  s1 = s1
  s2 = s2
  s3 = s3
  Sessions <- ThreeSessions
  NoSession = NoSession
  Failing = {"StreamUserList", "NotificationsSend", "SessionDisconnect"}
CHECK_DEADLOCK FALSE
INVARIANTS TypeOK OnlyOneSettled KickedAreTold
PROPERTY OneIsLeft
