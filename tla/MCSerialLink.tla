---------------------------- MODULE MCSerialLink -----------------------------
(* SerialLink with every byte of the input distinct.                       *)
EXTENDS SerialLink, TLC

\* The host of node 0 sends 1 .. 4, the host of node 1 sends 5: packets that
\* cross, a buffer that overflows and sequence numbers that wrap.
InputCrossing == (0 :> <<1, 2, 3, 4>>) @@ (1 :> <<5>>)
==============================================================================
