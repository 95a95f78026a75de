SPECIFICATION Spec
CONSTANTS
  p = p
  q = q
  Signed = {p}
  Local = {q}
  Version = {v1, v2}
  Config = {g1, g2}
  None = None
  MaxFaults = 2
  MaxCrashes = 2
  MaxTasks = 3
CONSTRAINT Unbroken
SYMMETRY Symmetry
CHECK_DEADLOCK FALSE
INVARIANTS AnswersMatchDisk
PROPERTIES SwitchesAtomically
