-------------------------- MODULE MCPasswordTable --------------------------
(***************************************************************************)
(* Instances of PasswordTable for TLC.                                     *)
(***************************************************************************)
EXTENDS PasswordTable, TLC

CONSTANTS r1, r2, r3, n1, n2, d, p1, p2

ThreeRequests == {r1, r2, r3}
TwoNodes      == {n1, n2}

\* One process opens the document twice, another one once.
OneDoc       == r1 :> d @@ r2 :> d @@ r3 :> d
TwoProcesses == r1 :> p1 @@ r2 :> p1 @@ r3 :> p2

Symmetry == Permutations({r1, r2}) \cup Permutations(TwoNodes)
=============================================================================
