-------------------------- MODULE MCControlDevice --------------------------
(***************************************************************************)
(* Instances of ControlDevice for TLC.                                     *)
(***************************************************************************)
EXTENDS ControlDevice

CONSTANTS s1, s2, b1, b2, g1, g2

OneService  == {s1}
TwoServices == {s1, s2}
OneTool     == {b1}
TwoTools    == {b1, b2}
OneGate     == {g1}
NoGate      == {}
=============================================================================
