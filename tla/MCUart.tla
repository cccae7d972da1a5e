------------------------------- MODULE MCUart --------------------------------
(* Uart with three short lines.                                            *)
EXTENDS Uart

Lines == <<<<1, CR, LF>>, <<2, CR>>, <<CR>>>>

ASSUME ShortLines == LinesFit
==============================================================================
