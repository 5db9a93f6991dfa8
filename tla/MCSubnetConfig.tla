----------------------------- MODULE MCSubnetConfig -----------------------------
(* SubnetConfig on small instances: see the MCSubnetConfig_*.cfg files. *)
EXTENDS SubnetConfig, TLC

CONSTANTS n1, n2, m1, m2, i1, i2

\* Two small subnets, and one around both.
SomeCidrs  == {{1, 2}, {3, 4}, {1, 2, 3, 4}}
SomeRanges == {{1, 2}, {3, 4}}

\* n2 is n1 with a blank after it.
Stripped == [n \in {n1, n2, None} |-> IF n = n2 THEN n1 ELSE n]

Symmetry == Permutations({m1, m2}) \cup Permutations({i1, i2})
=============================================================================
