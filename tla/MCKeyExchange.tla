--------------------------- MODULE MCKeyExchange ---------------------------
(***************************************************************************)
(* Instances of KeyExchange for TLC.                                       *)
(***************************************************************************)
EXTENDS KeyExchange

CONSTANTS q1, q2, q3

TwoQueues   == {q1, q2}
ThreeQueues == {q1, q2, q3}

AllFaults == {"start", "memory", "badBuffer", "malloc", "thread"}
NoFaults  == {}
=============================================================================
