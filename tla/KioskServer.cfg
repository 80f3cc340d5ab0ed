\* Failed saves, crashes and restarts around every operation.
CONSTANTS
  Secret = {s1, s2}
  Locked = {}
  Denom = {1}
  Device = {d1}
  SeqNo = {1, 2}
  Merchant = {m1}
  Unlabeled = Unlabeled
  Ref = {r1, r2}
  Amount = {1, 2}
  MaxSwapCache = 1
  LegacyRef = legacy
SPECIFICATION Spec
INVARIANTS
  MemoryIsDisk
PROPERTIES
  ImplementsKiosk
CHECK_DEADLOCK FALSE
