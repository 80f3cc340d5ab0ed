\* A topup, a swap whose first request is late, a refused retry, and then
\* recover --abandon and a payment.
SPECIFICATION Spec
CONSTANTS
  s1 = s1
  s2 = s2
  s3 = s3
  s4 = s4
  s5 = s5
  o1 = o1
  o2 = o2
  me = me
  other = other
  Secret = {s1, s2, s3, o1, o2}
  Mine = {s1, s2, s3}
  Locked = {}
  Denom = {1, 2}
  Device = {me, other}
  Me = me
  SeqNo = {1, 2}
  Merchant = {"m1"}
  Unlabeled = "(unlabeled)"
  Ref = {"r1", "r2"}
  Amount = {1, 2, 3}
  MaxSwapCache = 3
  None = None
  Quota = 2
  Foreign <- OneCoin
  MaxSeq = 2
  MaxTarget = 2
  MaxSplitProofs = 3
INVARIANT SpentByPayee
CHECK_DEADLOCK FALSE
