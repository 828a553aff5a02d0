------------------------------- MODULE MCSismo --------------------------------
(* Instances of SismoCards for TLC.                                         *)
EXTENDS SismoCards, TLC

ThreeInputs == <<"toggle", "encoder", "button">>
TwoBanks == <<0, 0, 1>>

OneButton == <<"button">>
FirstBank == <<0>>

(* -5 without a point; 0.4, which needs the zero before the point; -0.4 and *)
(* 123.4, which are not Showable; 12                                        *)
SomeNumbers ==
    {[val |-> -5, dp |-> -1], [val |-> 4, dp |-> 1],
     [val |-> -4, dp |-> 1], [val |-> 1234, dp |-> 1], [val |-> 12, dp |-> -1]}
=============================================================================
