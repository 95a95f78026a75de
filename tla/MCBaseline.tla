----------------------------- MODULE MCBaseline -----------------------------
\* Instances of the capability baseline for TLC.
EXTENDS CapabilityBaseline, TLC

Symmetry == Permutations(Plugin)

=============================================================================
