--------------------------- MODULE MCProcessTable ---------------------------
(***************************************************************************)
(* Instances of ProcessTable for TLC.                                      *)
(***************************************************************************)
EXTENDS ProcessTable, TLC

CONSTANTS p1, p2, f1, f2, d1, n1, n2, w1, page, whole

TwoPids   == {p1, p2}
FirstPid  == {p1}
TwoFiles  == {f1, f2}
OneDoc    == {d1}
TwoNodes  == {n1, n2}
OneWalker == {w1}

\* The two rights stand for the bits that START gives and those it does not.
TwoRights == {page, whole}
FewGrants == {{whole}, {page, whole}}
OnlyPage  == {page}

\* The second id keeps its process.
LivesOf == p1 :> 2 @@ p2 :> 1

Symmetry == Permutations(TwoFiles) \cup Permutations(TwoNodes)
=============================================================================
