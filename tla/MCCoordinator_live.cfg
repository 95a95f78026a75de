SPECIFICATION FairSpec
CONSTANTS
  None = None
  Caller = {c1, c2}
  Key = {k1}
  Request = {r1}
  Slot = {i1, i2}
  MaxRuntime = 1
  MaxPanics = 1
  MaxErrors = 0
  MaxCrashes = 0
CHECK_DEADLOCK FALSE
PROPERTIES WaitsEnd
