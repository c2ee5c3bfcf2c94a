SPECIFICATION Spec
CONSTANTS
  Accounts = {a1, a2, a3}
  NoName = NoName
  Pool = {n1, n2}
  shortID <- OwnShort
  Failing = {"UserId", "AccountUpdateId", "Server"}
CHECK_DEADLOCK FALSE
INVARIANTS TypeOK EveryoneNamed
