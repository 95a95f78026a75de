SPECIFICATION FairSpec
CONSTANTS
  a = a
  b = b
  login = login
  None = None
  Origin <- MCOrigin
  Config <- MCConfig
  FloatingId = {1}
  MaxWindows = 1
  MaxEvents = 3
  MaxFaults = 1
CHECK_DEADLOCK FALSE
INVARIANTS ShellIsTrue NoStalePages
PROPERTIES WaitsEnd
