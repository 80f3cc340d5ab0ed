\* Two references for payments and transfers of one unit: two payments, or
\* one that the gateway and the operator name differently, or one that the
\* operator enters under a new reference each time; two coins, one device,
\* one merchant (and the payee without a label), two threads of the rail.
CONSTANTS
  Secret = {s1, s2}
  Locked = {}
  Denom = {1}
  Device = {d1}
  SeqNo = {1, 2}
  Merchant = {m1}
  Unlabeled = Unlabeled
  Ref = {r1, r2}
  Amount = {1}
  MaxSwapCache = 1
  Thread = {t1, t2}
SPECIFICATION PilotSpec
SYMMETRY Symmetry
CONSTRAINT CheckWithoutRail
INVARIANTS BankMatches AnsweredIsCredited PayoutGoesThrough FailMeansSomething
PROPERTY NeverLooksRolledBack
CHECK_DEADLOCK FALSE
