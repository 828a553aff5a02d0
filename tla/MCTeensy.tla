------------------------------- MODULE MCTeensy -------------------------------
(* Instances of TeensyLink for TLC.                                         *)
EXTENDS TeensyLink, TLC

AllKinds == <<"toggle", "output", "direction">>
=============================================================================
