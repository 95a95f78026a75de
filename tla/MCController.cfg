SPECIFICATION Spec
CONSTANTS
  p1 = p1
  p2 = p2
  Plugin = {p1, p2}
  Global = Global
  Call = {c1}
  Maintainer = {m1, m2}
  Version = {v1, v2}
  None = None
  MaxInFlight = 1
  Scopes = {p1, p2, Global}
  MaxRounds = 2
  MaxExits = 1
SYMMETRY Symmetry
CHECK_DEADLOCK FALSE
INVARIANTS MaintenanceIsExclusive SettledCallsStayInTheirVersion
PROPERTIES UnrelatedPluginsAreServed
