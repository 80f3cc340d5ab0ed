SPECIFICATION Spec
CONSTANTS
  v1 = v1
  v2 = v2
  v3 = v3
  Value <- States
  Nothing = Nothing
  Absent = Absent
  Empty = Empty
  Corrupt = Corrupt
  FaultModels <- AllFaultModels
INVARIANTS KioskStartsAgain VaultStartsAgain VaultWipes
PROPERTY ImplementsAtomicStore
CHECK_DEADLOCK FALSE
