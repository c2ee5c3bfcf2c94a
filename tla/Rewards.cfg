SPECIFICATION Spec
CONSTANTS
  c1 = c1
  c2 = c2
  c3 = c3
  Calls <- ThreeCalls
  Starts <- Returning
  DayLength = 2
  MaxTime = 5
  Failing = {"StorageRead", "WalletUpdate", "NotificationsSend", "StorageWrite"}
CHECK_DEADLOCK FALSE
SYMMETRY Symmetry
INVARIANTS TypeOK RecordCounts DeniedOnlyAfterClaim
