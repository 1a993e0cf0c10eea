-------------------------- MODULE MCFileObjectList --------------------------
(***************************************************************************)
(* Instances of FileObjectList for TLC.                                    *)
(***************************************************************************)
EXTENDS FileObjectList, TLC

CONSTANTS t1, t2, t3, f1, f2, f3, o1, o2, o3

TwoThreads   == {t1, t2}
ThreeThreads == {t1, t2, t3}
TwoFiles     == {f1, f2}
ThreeFiles   == {f1, f2, f3}
TwoObjects   == {o1, o2}
ThreeObjects == {o1, o2, o3}

WalkSymmetry == Permutations(Threads) \cup Permutations(Files) \cup Permutations(Objects)
=============================================================================
