------------------------- MODULE MCEncryptedIoQueue -------------------------
(***************************************************************************)
(* Instances of EncryptedIoQueue for TLC.                                  *)
(***************************************************************************)
EXTENDS EncryptedIoQueue, TLC

CONSTANTS r1, r2, r3   \* IRPs

TwoIrps   == {r1, r2}
ThreeIrps == {r1, r2, r3}
IrpSymmetry == Permutations(Irps)

NoFaults  == {}
AllFaults == FaultKinds
NoMemory  == {"noMemory"}
=============================================================================
