------------------------------ MODULE MCSeeding ------------------------------
(***************************************************************************)
(* The instances of Seeding that TLC checks.                               *)
(***************************************************************************)
EXTENDS Seeding, TLC

CONSTANTS a, b, r, n1, n2

\* Files a and b; r is the path of a relative to the working directory.
Absolute == [p \in Path |-> IF p = r THEN a ELSE p]
OneName  == [p \in Path |-> n1]
TwoNames == [p \in Path |-> IF p = b THEN n2 ELSE n1]

Symmetry == Permutations(Content) \cup Permutations(Seeder)
              \cup Permutations(SeedLoop) \cup Permutations(EventLoop)

=============================================================================
