------------------------------ MODULE MCS0Meter ------------------------------
(* S0Meter with counts of two digits.                                      *)
EXTENDS S0Meter
==============================================================================
