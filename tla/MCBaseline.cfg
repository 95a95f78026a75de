SPECIFICATION Spec
CONSTANTS
  Plugin = {p, q}
  Api = {1, 2}
  Runtime = {1}
  Cases = {1, 2}
  None = None
  Schemas = {2, 3, 4}
  SyncsDirectories = TRUE
  MaxChanges = 2
  MaxFaults = 1
  MaxCrashes = 1
SYMMETRY Symmetry
CHECK_DEADLOCK FALSE
INVARIANTS OnlyApprovedRuns BaselineIsServed
PROPERTIES AcceptedContractsAreKept
