SPECIFICATION Spec
CONSTANTS
  None = None
  Caller = {c1, c2}
  Key = {k1}
  Request = {r1, r2}
  Slot = {i1, i2}
  MaxRuntime = 1
  MaxPanics = 1
  MaxErrors = 1
  MaxCrashes = 1
SYMMETRY Symmetry
CHECK_DEADLOCK FALSE
INVARIANTS TypeOK EvidencePrecedesExecution DrainIsQuiet ExecutedAtMostOnce
PROPERTIES AnswersAreTrue
