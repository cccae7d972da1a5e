------------------------------ MODULE MCRingbuf ------------------------------
(* Ringbuf on a four-slot buffer and three byte values.                    *)
EXTENDS Ringbuf
==============================================================================
