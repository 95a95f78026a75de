---------------------------- MODULE MCController ----------------------------
\* Instances of the controller's lifecycle for TLC.
EXTENDS Controller, TLC

CONSTANTS p1, p2

Symmetry == Permutations(Call) \cup Permutations(Version)

=============================================================================
