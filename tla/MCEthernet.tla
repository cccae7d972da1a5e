----------------------------- MODULE MCEthernet ------------------------------
(* Ethernet with small numbers of frames.                                  *)
EXTENDS Ethernet
==============================================================================
