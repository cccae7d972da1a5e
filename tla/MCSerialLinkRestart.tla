------------------------- MODULE MCSerialLinkRestart -------------------------
(* SerialLinkRestart with four packets one way and one the other.          *)
EXTENDS SerialLinkRestart, TLC

InputOne == (0 :> <<1, 2, 3, 4>>) @@ (1 :> <<>>)
==============================================================================
