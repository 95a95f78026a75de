SPECIFICATION Spec
CONSTANTS
  p1 = p1
  p2 = p2
  Plugin = {p1}
  Global = Global
  Call = {c1}
  Maintainer = {m1}
  Version = {v1, v2}
  None = None
  MaxInFlight = 1
  Scopes = {p1}
  MaxRounds = 1
  MaxExits = 0
CHECK_DEADLOCK FALSE
INVARIANT NoCallCrossesVersions
