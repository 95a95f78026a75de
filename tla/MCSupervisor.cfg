SPECIFICATION FairSpec
CONSTANTS
  Key = {k1, k2}
  Second = k2
  Call = {c1, c2}
  Host = {h1, h2, h3}
  None = None
  IdSpace = 4
  MaxFaults = 1
ACTION_CONSTRAINT Explored
CHECK_DEADLOCK FALSE
INVARIANTS HostsAreAccountedFor
PROPERTIES OutcomesAreOwn CallsEnd
