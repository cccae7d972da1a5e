----------------------------- MODULE ByteStream ------------------------------
(***************************************************************************)
(* What one direction of the radio serial link promises: the bytes taken   *)
(* over by the receiving side are a growing prefix of the bytes accepted   *)
(* by the sending side - none lost, none twice, none out of order on the   *)
(* air.  The only loss it allows is the one the code allows: of a batch    *)
(* taken over in one go, the receiver may keep just a leading part,        *)
(* because its buffer is full.                                             *)
(***************************************************************************)
EXTENDS Naturals, Sequences

CONSTANT Byte

VARIABLES
  sent,    \* the bytes accepted from the sending host, in order
  taken,   \* the bytes the receiving side acknowledged, in order
  got      \* the bytes the receiving host has or can still read, in order

vars == <<sent, taken, got>>

Init == sent = <<>> /\ taken = <<>> /\ got = <<>>

Send(c) ==
  /\ sent' = Append(sent, c)
  /\ UNCHANGED <<taken, got>>

\* Take over the next k bytes and keep the first j of them.
Deliver(k, j) ==
  /\ Len(taken) + k <= Len(sent)
  /\ taken' = SubSeq(sent, 1, Len(taken) + k)
  /\ got' = got \o SubSeq(sent, Len(taken) + 1, Len(taken) + j)
  /\ UNCHANGED sent

Next ==
  \/ \E c \in Byte : Send(c)
  \/ \E k \in 1 .. Len(sent) - Len(taken) : \E j \in 0 .. k : Deliver(k, j)

Spec == Init /\ [][Next]_vars
==============================================================================
