SPECIFICATION Spec
CONSTANTS
  k1 = k1
  k2 = k2
  k3 = k3
  s1 = s1
  s2 = s2
  r1 = r1
  r2 = r2
  None = None
  Key <- Keys
  Scope = {s1, s2}
  ScopeOf <- Scopes
  Request = {r1, r2}
  MaxOperations = 2
  MaxPerScope = 1
  CompactAt = 3
  MaxJournal = 4
  AcceptedRetention = 2
  CompletedRetention = 1
  MaxTime = 3
  MaxErrors = 1
  MaxRestarts = 2
CONSTRAINT Explored
SYMMETRY Symmetry
CHECK_DEADLOCK FALSE
INVARIANTS EvidenceIsKept RecoveryIsSound CapacityIsIsolated
PROPERTIES StartsAtMostOnce
