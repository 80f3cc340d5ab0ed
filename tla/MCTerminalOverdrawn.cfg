SPECIFICATION Spec
CONSTANTS
  s1 = s1
  s2 = s2
  s3 = s3
  s4 = s4
  Secret = {s1, s2, s3, s4}
  Locked = {s3}
  Denom = {1, 2}
  Device = {"d"}
  SeqNo = {1}
  Merchant = {"me", "other"}
  Unlabeled = "(unlabeled)"
  Ref = {"r1"}
  Amount = {1, 2, 3, 4}
  MaxSwapCache = 2
  Me = "me"
  Elsewhere = "other"
  Nobody = Nobody
  Environments <- OnlyReceiving
  ClaimKeys = {TRUE}
  MaxRejected = 1
INVARIANT PendingIsNotNegative
CHECK_DEADLOCK FALSE
