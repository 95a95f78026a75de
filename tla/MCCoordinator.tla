--------------------------- MODULE MCCoordinator ---------------------------
\* Instances of the coordinator for TLC.
EXTENDS Coordinator, TLC

Symmetry == Permutations(Caller) \cup Permutations(Request)
              \cup Permutations(Key) \cup Permutations(Slot)

=============================================================================
