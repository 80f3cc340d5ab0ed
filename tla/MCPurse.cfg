\* Five secrets of this vault, one of them locked, two denominations, two
\* requests for quota; another vault makes change with one coin.  The kiosk
\* keeps one answer, so that swaps of either vault evict answers.
SPECIFICATION FairSpec
CONSTANTS
  s1 = s1
  s2 = s2
  s3 = s3
  s4 = s4
  s5 = s5
  o1 = o1
  o2 = o2
  me = me
  other = other
  Secret = {s1, s2, s3, s4, s5, o1, o2}
  Mine = {s1, s2, s3, s4, s5}
  Locked = {s5}
  Denom = {1, 2}
  Device = {me, other}
  Me = me
  SeqNo = {1, 2}
  Merchant = {"m1"}
  Unlabeled = "(unlabeled)"
  Ref = {"r1", "r2"}
  Amount = {1, 2, 3}
  MaxSwapCache = 1
  None = None
  Quota = 2
  Foreign <- OneCoin
  MaxSeq = 2
  MaxTarget = 2
  MaxSplitProofs = 3
INVARIANTS NothingLost NoDeadCoins BalanceIsCovered NeverSpentTwice SeqNeverReused ChangeSuffices SwapRecoverable
PROPERTY PendingEnds
CHECK_DEADLOCK FALSE
