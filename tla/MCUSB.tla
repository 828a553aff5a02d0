-------------------------------- MODULE MCUSB ---------------------------------
(* Instances of USBCards for TLC.                                           *)
EXTENDS USBCards, TLC

(* First and last inputs of the slots of card 0; the last input of card 1,  *)
(* which is connected but not defined.                                      *)
SomeInputs == {<<0, 0>>, <<0, 2>>, <<1, 2>>, <<2, 2>>}
TwoRead == (<<0, 0>> :> "toggle") @@ (<<1, 2>> :> "button")
FirstAndLast == {<<0, 0>>, <<0, 4>>}
SomeNumbers == {0, -7, 12}

None == <<>>
=============================================================================
