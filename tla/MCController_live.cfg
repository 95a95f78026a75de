SPECIFICATION FairSpec
CONSTANTS
  p1 = p1
  p2 = p2
  Plugin = {p1}
  Global = Global
  Call = {c1, c2}
  Maintainer = {m1}
  Version = {v1}
  None = None
  MaxInFlight = 1
  Scopes = {p1, Global}
  MaxRounds = 1
  MaxExits = 1
CHECK_DEADLOCK FALSE
INVARIANTS HostsAreQuiet
PROPERTIES EverythingEnds
