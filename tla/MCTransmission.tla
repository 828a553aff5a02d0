---------------------------- MODULE MCTransmission ----------------------------
(* Instances of Transmission for TLC.                                       *)
EXTENDS Transmission, TLC

(* Of three cells, the payload of the second message equals the end marker  *)
(* in the middle and that of the third at the end.                          *)
SomeLookLikeEnd == {<<2, 2>>, <<3, 3>>}
=============================================================================
