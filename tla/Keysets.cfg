SPECIFICATION Spec
CONSTANTS
  Kiosk = {a, b}
  Denom = {1, 2}
  Legacy = 1
  DeviceKey = {x}
  None = None
INVARIANTS HeldIsPinned DeviceKeySaved
PROPERTY OnlyForceReplaces
CHECK_DEADLOCK FALSE
