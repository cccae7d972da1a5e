------------------------------- MODULE MCFT12 --------------------------------
(* FT12 with a host, a TPUART and one other device on the bus.             *)
EXTENDS FT12

CONSTANTS t1, t2, s1

Msg(c, a) == [cmd |-> c, arg |-> a]

\* Two mishaps or repeats around a telegram and an answer in two parts; one
\* around two telegrams; none while the host sends one of each.
Scenarios == {
  [todo |-> {Msg("L_Data.req", t1), Msg("T_Data.req", s1)}, faults |-> 2],
  [todo |-> {Msg("L_Data.req", t1), Msg("L_Data.req", t2)}, faults |-> 1],
  [todo |-> Request \ {Msg("L_Data.req", t2)}, faults |-> 0]}
==============================================================================
