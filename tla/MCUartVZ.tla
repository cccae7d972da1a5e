------------------------------ MODULE MCUartVZ -------------------------------
(* UartVZ with one line of the host and two impulses.                      *)
EXTENDS UartVZ

Lines == <<<<1, CR>>>>
Reports == <<65, CR, LF>>
==============================================================================
