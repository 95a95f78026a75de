------------------------------ MODULE MCProject ------------------------------
\* Instances of the project activation for TLC.
EXTENDS ProjectActivation, TLC

CONSTANTS p, q

\* Nothing is claimed after a failure that the code does not answer for.
Unbroken == ~broken

Symmetry == Permutations(Version) \cup Permutations(Config)

=============================================================================
