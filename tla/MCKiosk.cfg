\* Every operation of the kiosk: a locked secret, two denominations, one
\* device with two requests, two payees, a swap cache of two answers (the
\* run of KioskServer evicts);
\* with and without anonymous issuance.
CONSTANTS
  s1 = s1
  s2 = s2
  s3 = s3
  m1 = m1
  Secret = {s1, s2, s3}
  Locked = {s3}
  Denom = {1, 2}
  Device = {d1}
  SeqNo = {1, 2}
  Merchant = {m1}
  Unlabeled = Unlabeled
  Ref = {r1, r2}
  Amount = {1, 3}
  MaxSwapCache = 2
SPECIFICATION Spec
CONSTRAINT FewAnonymous
INVARIANTS
  TypeOK
  LiveCovered
  Backed
  LedgerConsistent
  NeverOverpaid
  RedeemedOnce
  LockedOnlySettled
  QuotaRespected
  LoadedIsIssuedOrSettled
  AllocatedWasDeposited
\* The environment runs out of references, secrets and sequence numbers.
CHECK_DEADLOCK FALSE
