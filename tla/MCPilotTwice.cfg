\* As MCPilot.cfg: is a payment credited twice that the operator enters with
\* its UTR only?
CONSTANTS
  Secret = {s1, s2}
  Locked = {}
  Denom = {1}
  Device = {d1}
  SeqNo = {1, 2}
  Merchant = {m1}
  Unlabeled = Unlabeled
  Ref = {r1, r2}
  Amount = {1}
  MaxSwapCache = 1
  Thread = {t1, t2}
SPECIFICATION PilotSpec
SYMMETRY Symmetry
CONSTRAINT CheckWithoutRail
INVARIANT OneTransferOneRef
CHECK_DEADLOCK FALSE
