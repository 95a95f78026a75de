------------------------------ MODULE MCLedger ------------------------------
\* Instances of the ledger for TLC: two operation ids of one business origin and
\* one of another.
EXTENDS Ledger, TLC

CONSTANTS k1, k2, k3, s1, s2, r1, r2

Keys == {k1, k2, k3}
Scopes == [k \in Key |-> IF k = k3 THEN s2 ELSE s1]

\* Bound: the second origin's operation is recorded at time 0 and explored without
\* I/O errors and undone renames, for two restarts or ticks and with one request.
Explored ==
  LET other == Mentioned(disk, k3)
      all   == UNION {Mentioned(disk, k) : k \in Key}
  IN other # {} =>
       /\ errors = 0 /\ restarts + now <= 2 /\ ~undone
       /\ \A op \in other : op.at = 0
       /\ \A op1 \in all, op2 \in other : op1.request = op2.request

Symmetry == Permutations({k1, k2}) \cup Permutations(Request)

=============================================================================
