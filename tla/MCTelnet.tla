------------------------------ MODULE MCTelnet -------------------------------
(* Telnet with small buffers: one short command, one that fills the        *)
(* slots, and the end of the session.                                      *)
EXTENDS Telnet

MCOutput == [help |-> 3, rtc |-> 1, quit |-> 1]
==============================================================================
