-------------------------- MODULE SerialLinkRestart --------------------------
(***************************************************************************)
(* SerialLink with ends that lose power, or are unplugged, one at a time.  *)
(* A restart runs slink_init again: sequence numbers, buffers and the      *)
(* packet in the air start over, the chip is reset, and the other end is   *)
(* not told.  Nothing in the protocol brings the two ends together again,  *)
(* so the exactly-once stream of SerialLink is gone; this module states    *)
(* what is left of it.                                                     *)
(***************************************************************************)
EXTENDS SerialLink, FiniteSets

CONSTANT MaxRestarts   \* bound: restarts of each end

VARIABLE restarts      \* restarts[n]: how often n has restarted

rvars == <<vars, restarts>>

RInit == Init /\ restarts = [n \in Node |-> 0]

\* Power off and on, from any point of the loop, also out of a hang.
Restart(n) ==
  /\ restarts[n] < MaxRestarts
  /\ restarts' = [restarts EXCEPT ![n] = @ + 1]
  /\ pc' = [pc EXCEPT ![n] = "put"]
  /\ txbuf' = [txbuf EXCEPT ![n] = <<>>]
  /\ rxbuf' = [rxbuf EXCEPT ![n] = <<>>]
  /\ txseq' = [txseq EXCEPT ![n] = 1]
  /\ rxseq' = [rxseq EXCEPT ![n] = 0]
  /\ txpkt' = [txpkt EXCEPT ![n] = NoPacket]
  /\ radio' = [radio EXCEPT ![n] = "IDLE"]
  /\ fifo' = [fifo EXCEPT ![n] = <<>>]
  /\ UNCHANGED <<host, history>>

RNext ==
  \/ Next /\ UNCHANGED restarts
  \/ \E n \in Node : Restart(n)

RSpec == RInit /\ [][RNext]_rvars

------------------------------------------------------------------------------
(* Properties; the bytes of every input are distinct and ascending         *)

Bytes(s) == {s[i] : i \in 1 .. Len(s)}

Ascending(s) == \A i, j \in 1 .. Len(s) : i < j => s[i] < s[j]

\* A receiver that stays up gets no byte twice and none out of order,
\* whatever the sender forgets: restarts of the sender only lose bytes.
SenderRestartOnlyLoses ==
  \A n \in Node : restarts[Peer(n)] = 0 => Ascending(taken[Peer(n)])

\* A receiver that restarts may take a packet over again, once per restart.
OncePerLife ==
  \A n \in Node : \A c \in Bytes(taken[n]) :
    Cardinality({i \in 1 .. Len(taken[n]) : taken[n][i] = c}) <= 1 + restarts[n]

\* An acknowledgement may be false after a restart - the peer takes the new
\* packet for a copy of one it has - but only for the packet with which one
\* of the lives begins: number 1 of a new sender, number 0 for a new receiver.
FalseAckOnlyAtStart ==
  \A n \in Node :
    txpkt[n].timeout = 0 /\ txpkt[n].cseq \notin {0, 1} =>
      Bytes(txpkt[n].data) \subseteq Bytes(taken[Peer(n)])

\* n sends a packet its peer will not take: out of sequence, with nothing
\* older on the way that could still move either end.
Deaf(n) ==
  /\ txpkt[n].timeout # 0
  /\ txpkt[n].cseq \notin {rxseq[Peer(n)], SuccSeq(rxseq[Peer(n)])}
  /\ \A i \in 1 .. Len(fifo[Peer(n)]) :
       ~IsAck(fifo[Peer(n)][i]) => fifo[Peer(n)][i].seq = txpkt[n].cseq
  /\ \A i \in 1 .. Len(fifo[n]) :
       IsAck(fifo[n][i]) => fifo[n][i].seq # txpkt[n].cseq

\* The rejection at seriallink.c:436 is for good: only another restart helps,
\* and until then the sender repeats the packet and no byte passes.
DeafForGood ==
  [][\A n \in Node :
       Deaf(n) /\ restarts' = restarts =>
         Deaf(n)' /\ taken'[Peer(n)] = taken[Peer(n)]]_rvars
==============================================================================
