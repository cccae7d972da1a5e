--------------------------- MODULE SerialLinkProofs ---------------------------
(***************************************************************************)
(* Proofs about SerialLink and SerialLinkRestart for every input, buffer   *)
(* size, payload, FIFO size and sequence number width.  Ends that started  *)
(* together: the link delivers exactly once and in order what it           *)
(* acknowledges, and each direction implements ByteStream.  For any number *)
(* of restarts: what is left of the stream when either end starts over     *)
(* while the other goes on.                                                *)
(***************************************************************************)
EXTENDS SerialLinkRestart, SequenceTheorems, FiniteSetTheorems, TLAPS

\* What n has in the air towards its peer: the receiver is at the packet of
\* txpkt[n] or one behind it, an idle sender has been taken over, and a
\* packet still to be taken over is not mistaken for an acknowledgement.
Window(n) ==
  /\ txseq[n] = SuccSeq(txpkt[n].cseq)
  /\ \/ rxseq[Peer(n)] = txpkt[n].cseq
     \/ SuccSeq(rxseq[Peer(n)]) = txpkt[n].cseq
  /\ txpkt[n].timeout = 0 => rxseq[Peer(n)] = txpkt[n].cseq
  /\ txpkt[n].timeout # 0 => txpkt[n].data # <<>>

\* A packet waiting at n is expected: a data packet is an old one or the one
\* the peer has in the air; an acknowledgement is one of what was taken over,
\* or of the packet before, which finds n waiting for the next.
ExpectedData(n, p) ==
  \/ p.seq = rxseq[n]
  \/ /\ p.seq = txpkt[Peer(n)].cseq
     /\ p.data = txpkt[Peer(n)].data
     /\ rxseq[n] # txpkt[Peer(n)].cseq

ExpectedAck(n, p) ==
  \/ p.seq = txpkt[n].cseq /\ rxseq[Peer(n)] = txpkt[n].cseq
  \/ SuccSeq(p.seq) = txpkt[n].cseq /\ txpkt[n].timeout # 0

Expected(n, p) ==
  /\ IsAck(p) => ExpectedAck(n, p)
  /\ ~IsAck(p) => ExpectedData(n, p)

InFlight(n) == \A i \in 1 .. Len(fifo[n]) : Expected(n, fifo[n][i])

\* What is true between any two steps.
IInv ==
  /\ TypeOK
  /\ \A n \in Node : Window(n)
  /\ \A n \in Node : InFlight(n)
  /\ \A n \in Node : pc[n] = "get" => rxbuf[n] # <<>>

------------------------------------------------------------------------------
(* Nodes, sequence numbers and what a transmission changes                 *)

LEMMA Nodes ==
  \A n \in Node : /\ Peer(n) \in Node
                  /\ Peer(n) # n
                  /\ Peer(Peer(n)) = n
                  /\ \A m \in Node : m = n \/ m = Peer(n)
  BY DEF Node, Peer

LEMMA SuccSeqRange ==
  ASSUME NEW s \in 0 .. SeqMod - 1
  PROVE  SuccSeq(s) \in 0 .. SeqMod - 1 /\ SuccSeq(s) # s
  BY ConstantAssumption DEF SuccSeq

\* A transmission leaves the own FIFO alone, and adds at most the packet,
\* perhaps damaged, to the peer's.
Transmitted(n, p, f, next) ==
  /\ radio' \in [Node -> {"IDLE", "RX", "OVERFLOW"}]
  /\ fifo' \in [Node -> Seq(Packet)]
  /\ fifo'[n] = f[n]
  /\ \/ fifo'[Peer(n)] = f[Peer(n)]
     \/ \E q \in Packet :
          /\ q.seq = p.seq /\ q.data = p.data
          /\ fifo'[Peer(n)] = Append(f[Peer(n)], q)
  /\ pc' = [pc EXCEPT ![n] = pc'[n]]
  /\ pc'[n] \in {"hung", next}

LEMMA SendEffect ==
  ASSUME TypeOK,
         NEW n \in Node, NEW p \in Packet, NEW f \in [Node -> Seq(Packet)],
         NEW next \in {"put", "get", "flush"},
         slink_send(n, p, radio, f, next)
  PROVE  Transmitted(n, p, f, next)
  <1> USE Nodes DEF Transmitted
  <1>1. radio' \in [Node -> {"IDLE", "RX", "OVERFLOW"}]
    <2>1. \/ radio' = radio
          \/ radio' = [radio EXCEPT ![n] = "RX"]
          \/ radio' = [radio EXCEPT ![n] = "RX", ![Peer(n)] = "OVERFLOW"]
      BY DEF slink_send
    <2> QED
      BY <2>1 DEF TypeOK
  <1>2. pc' = [pc EXCEPT ![n] = pc'[n]] /\ pc'[n] \in {"hung", next}
    <2>1. pc' = [pc EXCEPT ![n] = "hung"] \/ pc' = [pc EXCEPT ![n] = next]
      BY DEF slink_send
    <2> QED
      BY <2>1 DEF TypeOK
  <1>3. \/ fifo' = f
        \/ \E ok \in BOOLEAN :
             fifo' = [f EXCEPT ![Peer(n)] = Append(@, [p EXCEPT !.crc = ok])]
    BY DEF slink_send
  <1>4. CASE fifo' = f
    BY <1>1, <1>2, <1>4
  <1>5. CASE \E ok \in BOOLEAN :
               fifo' = [f EXCEPT ![Peer(n)] = Append(@, [p EXCEPT !.crc = ok])]
    <2>1. PICK ok \in BOOLEAN :
            fifo' = [f EXCEPT ![Peer(n)] = Append(@, [p EXCEPT !.crc = ok])]
      BY <1>5
    <2> DEFINE q == [p EXCEPT !.crc = ok]
    <2>2. q \in Packet /\ q.seq = p.seq /\ q.data = p.data
      BY DEF Packet
    <2>3. fifo' = [f EXCEPT ![Peer(n)] = Append(f[Peer(n)], q)]
      BY <2>1
    <2> HIDE DEF q
    <2>4. Append(f[Peer(n)], q) \in Seq(Packet)
      BY <2>2, AppendProperties
    <2>5. /\ fifo' \in [Node -> Seq(Packet)] /\ fifo'[n] = f[n]
          /\ fifo'[Peer(n)] = Append(f[Peer(n)], q)
      BY <2>3, <2>4
    <2> QED
      BY <1>1, <1>2, <2>2, <2>5
  <1> QED
    BY <1>3, <1>4, <1>5

------------------------------------------------------------------------------
(* What slink_flush changes                                                *)

\* The peer's FIFO gains nothing, or a copy of n's packet in the air.
MaySend(n) ==
  \/ fifo'[Peer(n)] = fifo[Peer(n)]
  \/ \E q \in Packet :
       /\ q.seq = txpkt'[n].cseq /\ q.data = txpkt'[n].data
       /\ fifo'[Peer(n)] = Append(fifo[Peer(n)], q)

\* The packet in the air stays, perhaps sent again ...
KeepsPacket(n, buf) ==
  /\ txseq'[n] = txseq[n]
  /\ txpkt'[n].cseq = txpkt[n].cseq
  /\ txpkt'[n].data = txpkt[n].data
  /\ txpkt'[n].timeout = 0 <=> txpkt[n].timeout = 0
  /\ txbuf'[n] = buf
  /\ fifo'[Peer(n)] # fifo[Peer(n)] => txpkt[n].timeout # 0
  
\* ... or, acknowledged, makes room for the next.
NewPacket(n, buf) ==
  /\ txpkt[n].timeout = 0
  /\ txseq'[n] = SuccSeq(txseq[n])
  /\ txpkt'[n].cseq = txseq[n]
  /\ txpkt'[n].timeout # 0
  /\ txpkt'[n].data # <<>>
  /\ txpkt'[n].data \o txbuf'[n] = buf

FlushTypes ==
  /\ txbuf' \in [Node -> Seq(Byte)]
  /\ \A m \in Node : Len(txbuf'[m]) < BufSize
  /\ txseq' \in [Node -> 0 .. SeqMod - 1]
  /\ txpkt' \in [Node -> [cseq : 0 .. SeqMod - 1, data : Seq(Byte),
                          timeout : 0 .. ResendAfter]]
  /\ radio' \in [Node -> {"IDLE", "RX", "OVERFLOW"}]
  /\ fifo' \in [Node -> Seq(Packet)]

FlushLocal(n, next) ==
  /\ txbuf'[Peer(n)] = txbuf[Peer(n)]
  /\ txseq'[Peer(n)] = txseq[Peer(n)]
  /\ txpkt'[Peer(n)] = txpkt[Peer(n)]
  /\ fifo'[n] = fifo[n]
  /\ pc' = [pc EXCEPT ![n] = pc'[n]]
  /\ pc'[n] \in {"hung", next}

LEMMA DataPacketType ==
  ASSUME NEW t \in [cseq : 0 .. SeqMod - 1, data : Seq(Byte), timeout : 0 .. ResendAfter]
  PROVE  /\ DataPacket(t) \in Packet
         /\ DataPacket(t).seq = t.cseq
         /\ DataPacket(t).data = t.data
  BY DEF DataPacket, Packet

InTheAir == [cseq : 0 .. SeqMod - 1, data : Seq(Byte), timeout : 0 .. ResendAfter]

LEMMA TimeoutSet ==
  ASSUME NEW f \in [Node -> InTheAir], NEW n \in Node,
         NEW k \in 0 .. ResendAfter,
         NEW g, g = [f EXCEPT ![n].timeout = k]
  PROVE  /\ g \in [Node -> InTheAir]
         /\ g[n].cseq = f[n].cseq
         /\ g[n].data = f[n].data
         /\ g[n].timeout = k
         /\ \A m \in Node : m # n => g[m] = f[m]
  <1> DEFINE u == [f[n] EXCEPT !.timeout = k]
  <1>1. /\ u \in InTheAir
        /\ u.cseq = f[n].cseq /\ u.data = f[n].data /\ u.timeout = k
    BY DEF InTheAir
  <1>2. g = [f EXCEPT ![n] = u]
    OBVIOUS
  <1> HIDE DEF u
  <1> QED
    BY <1>1, <1>2

LEMMA FlushEffect ==
  ASSUME TypeOK, NEW n \in Node,
         NEW buf \in Seq(Byte), Len(buf) < BufSize,
         NEW next \in {"put", "get"},
         slink_flush(n, buf, next)
  PROVE  /\ FlushTypes
         /\ FlushLocal(n, next)
         /\ MaySend(n)
         /\ KeepsPacket(n, buf) \/ NewPacket(n, buf)
  <1> USE Nodes
  <1>0. txpkt \in [Node -> InTheAir]
    BY DEF TypeOK, InTheAir
  <1>1. CASE AwaitAck(n, buf, next)
    <2>1. /\ txpkt[n].timeout > 1
          /\ txpkt' = [txpkt EXCEPT ![n].timeout = txpkt[n].timeout - 1]
          /\ txbuf' = [txbuf EXCEPT ![n] = buf]
          /\ pc' = [pc EXCEPT ![n] = next]
          /\ UNCHANGED <<txseq, radio, fifo>>
      BY <1>1 DEF AwaitAck, air
    <2>0. /\ txpkt[n].timeout \in 1 .. ResendAfter
          /\ txpkt[n].timeout - 1 \in 0 .. ResendAfter
      BY <1>0, <2>1, ConstantAssumption DEF InTheAir
    <2>2. /\ txpkt' \in [Node -> InTheAir]
          /\ txpkt'[n].cseq = txpkt[n].cseq
          /\ txpkt'[n].data = txpkt[n].data
          /\ txpkt'[n].timeout = txpkt[n].timeout - 1
          /\ txpkt'[Peer(n)] = txpkt[Peer(n)]
      BY <1>0, <2>0, <2>1, TimeoutSet, SMTT(45)
    <2>6. txpkt'[n].timeout # 0 /\ txpkt[n].timeout # 0
      BY <2>0, <2>1, <2>2, ConstantAssumption
    <2>7. txbuf'[n] = buf
      BY <2>1 DEF TypeOK
    <2>3. KeepsPacket(n, buf)
      BY <2>1, <2>2, <2>6, <2>7 DEF KeepsPacket
    <2>4. FlushTypes
      BY <2>1, <2>2 DEF FlushTypes, TypeOK, InTheAir
    <2>5. FlushLocal(n, next) /\ MaySend(n)
      BY <2>1, <2>2 DEF FlushLocal, MaySend, TypeOK
    <2> QED
      BY <2>3, <2>4, <2>5
  <1>2. CASE NothingToSend(n, buf, next)
    <2>1. /\ txpkt[n].timeout = 0
          /\ txbuf' = [txbuf EXCEPT ![n] = buf]
          /\ pc' = [pc EXCEPT ![n] = next]
          /\ UNCHANGED <<txseq, txpkt, radio, fifo>>
      BY <1>2 DEF NothingToSend, air
    <2>2. KeepsPacket(n, buf)
      BY <2>1 DEF KeepsPacket, TypeOK
    <2>3. FlushTypes
      BY <2>1 DEF FlushTypes, TypeOK
    <2>4. FlushLocal(n, next) /\ MaySend(n)
      BY <2>1 DEF FlushLocal, MaySend, TypeOK
    <2> QED
      BY <2>2, <2>3, <2>4
  <1>3. CASE Resend(n, buf, next)
    <2>1. /\ txpkt' = [txpkt EXCEPT ![n].timeout = ResendAfter]
          /\ txbuf' = [txbuf EXCEPT ![n] = buf]
          /\ txseq' = txseq
          /\ txpkt[n].timeout = 1
          /\ slink_send(n, DataPacket(txpkt[n]), radio, fifo, next)
      BY <1>3 DEF Resend
    <2>2. /\ txpkt[n] \in [cseq : 0 .. SeqMod - 1, data : Seq(Byte),
                           timeout : 0 .. ResendAfter]
          /\ ResendAfter \in 0 .. ResendAfter
      BY <1>0, ConstantAssumption DEF InTheAir
    <2> DEFINE p == DataPacket(txpkt[n])
    <2>3. /\ p \in Packet /\ p.seq = txpkt[n].cseq /\ p.data = txpkt[n].data
      BY <2>2, DataPacketType
    <2>4. /\ txpkt' \in [Node -> InTheAir]
          /\ txpkt'[n].cseq = txpkt[n].cseq
          /\ txpkt'[n].data = txpkt[n].data
          /\ txpkt'[n].timeout = ResendAfter
          /\ txpkt'[Peer(n)] = txpkt[Peer(n)]
      BY <1>0, <2>1, <2>2, TimeoutSet
    <2>5. fifo \in [Node -> Seq(Packet)]
      BY DEF TypeOK
    <2> HIDE DEF p
    <2>6. slink_send(n, p, radio, fifo, next) /\ next \in {"put", "get", "flush"}
      BY <2>1 DEF p
    <2>7. /\ radio' \in [Node -> {"IDLE", "RX", "OVERFLOW"}]
          /\ fifo' \in [Node -> Seq(Packet)]
          /\ fifo'[n] = fifo[n]
          /\ \/ fifo'[Peer(n)] = fifo[Peer(n)]
             \/ \E q \in Packet :
                  /\ q.seq = p.seq /\ q.data = p.data
                  /\ fifo'[Peer(n)] = Append(fifo[Peer(n)], q)
          /\ pc' = [pc EXCEPT ![n] = pc'[n]]
          /\ pc'[n] \in {"hung", next}
      <3>1. Transmitted(n, p, fifo, next)
        BY <2>3, <2>5, <2>6, SendEffect
      <3> QED
        BY <3>1 DEF Transmitted
    <2>8. MaySend(n)
      BY <2>3, <2>4, <2>7 DEF MaySend
    <2>9. KeepsPacket(n, buf)
      BY <2>1, <2>4, ConstantAssumption DEF KeepsPacket, TypeOK
    <2>10. FlushTypes
      BY <2>1, <2>4, <2>7 DEF FlushTypes, TypeOK, InTheAir
    <2>11. FlushLocal(n, next)
      BY <2>1, <2>4, <2>7 DEF FlushLocal, TypeOK
    <2> QED
      BY <2>8, <2>9, <2>10, <2>11
  <1>4. CASE SendNew(n, buf, next)
    <2> DEFINE k == IF Len(buf) < MaxPayload THEN Len(buf) ELSE MaxPayload
               t == [cseq |-> txseq[n], data |-> SubSeq(buf, 1, k),
                     timeout |-> ResendAfter]
               rest == SubSeq(buf, k + 1, Len(buf))
               p == DataPacket(t)
    <2>1. /\ txpkt' = [txpkt EXCEPT ![n] = t]
          /\ txbuf' = [txbuf EXCEPT ![n] = rest]
          /\ txseq' = [txseq EXCEPT ![n] = SuccSeq(txseq[n])]
          /\ txpkt[n].timeout = 0
          /\ buf # <<>>
          /\ slink_send(n, p, radio, fifo, next)
      BY <1>4 DEF SendNew
    <2>2. k \in 1 .. Len(buf)
      BY <2>1, ConstantAssumption
    <2>3. /\ SubSeq(buf, 1, k) \in Seq(Byte) /\ Len(SubSeq(buf, 1, k)) = k
          /\ rest \in Seq(Byte) /\ Len(rest) < BufSize
      <3>1. \A i \in 1 .. Len(buf) : buf[i] \in Byte
        OBVIOUS
      <3>2. SubSeq(buf, 1, k) \in Seq(Byte) /\ Len(SubSeq(buf, 1, k)) = k
        BY <2>2, <3>1, SubSeqProperties
      <3>3. /\ rest \in Seq(Byte)
            /\ Len(rest) = IF k + 1 <= Len(buf) THEN Len(buf) - k ELSE 0
        BY <2>2, <3>1, SubSeqProperties
      <3>4. Len(buf) \in Nat
        OBVIOUS
      <3> HIDE DEF k, rest
      <3> QED
        BY <2>2, <3>2, <3>3, <3>4, ConstantAssumption
    <2>4. SubSeq(buf, 1, k) \o rest = buf
      BY SMTT(20), <2>2, ConcatAdjacentSubSeq
    <2>5. txseq[n] \in 0 .. SeqMod - 1 /\ SuccSeq(txseq[n]) \in 0 .. SeqMod - 1
      BY SuccSeqRange DEF TypeOK
    <2>6. /\ t \in InTheAir /\ t.cseq = txseq[n] /\ t.data = SubSeq(buf, 1, k)
          /\ t.timeout = ResendAfter
      BY <2>3, <2>5, ConstantAssumption DEF InTheAir
    <2>7. t.data # <<>>
      BY <2>2, <2>3, <2>6
    <2> HIDE DEF k, t, rest, p
    <2>8. p \in Packet /\ p.seq = t.cseq /\ p.data = t.data
      BY <2>6, DataPacketType DEF p, InTheAir
    <2>9. fifo \in [Node -> Seq(Packet)]
      BY DEF TypeOK
    <2>10. /\ radio' \in [Node -> {"IDLE", "RX", "OVERFLOW"}]
           /\ fifo' \in [Node -> Seq(Packet)]
           /\ fifo'[n] = fifo[n]
           /\ \/ fifo'[Peer(n)] = fifo[Peer(n)]
              \/ \E q \in Packet :
                   /\ q.seq = p.seq /\ q.data = p.data
                   /\ fifo'[Peer(n)] = Append(fifo[Peer(n)], q)
           /\ pc' = [pc EXCEPT ![n] = pc'[n]]
           /\ pc'[n] \in {"hung", next}
      BY <2>1, <2>8, <2>9, SendEffect DEF Transmitted
    <2>11. /\ txpkt' \in [Node -> InTheAir] /\ txpkt'[n] = t
           /\ txpkt'[Peer(n)] = txpkt[Peer(n)]
      BY <1>0, <2>1, <2>6
    <2>12. /\ txbuf' \in [Node -> Seq(Byte)] /\ txbuf'[n] = rest
           /\ txbuf'[Peer(n)] = txbuf[Peer(n)]
           /\ \A m \in Node : Len(txbuf'[m]) < BufSize
      BY <2>1, <2>3 DEF TypeOK
    <2>13. MaySend(n)
      BY <2>8, <2>10, <2>11 DEF MaySend
    <2>14. NewPacket(n, buf)
      <3>1. txseq'[n] = SuccSeq(txseq[n])
        BY <2>1, <2>5 DEF TypeOK
      <3>2. t.data \o rest = buf
        BY <2>4, <2>6
      <3>3. t.timeout # 0
        BY <2>6, ConstantAssumption
      <3> QED
        BY <2>1, <2>6, <2>7, <2>11, <2>12, <3>1, <3>2, <3>3 DEF NewPacket
    <2>15. FlushTypes
      BY <2>1, <2>5, <2>10, <2>11, <2>12 DEF FlushTypes, TypeOK, InTheAir
    <2>16. FlushLocal(n, next)
      BY <2>1, <2>10, <2>11, <2>12 DEF FlushLocal, TypeOK
    <2> QED
      BY <2>13, <2>14, <2>15, <2>16
  <1> QED
    BY <1>1, <1>2, <1>3, <1>4 DEF slink_flush

------------------------------------------------------------------------------
(* What slink_receive changes                                              *)

LEMMA FirstPacket ==
  ASSUME TypeOK, NEW n \in Node, Received(n)
  PROVE  /\ First(n) \in Packet
         /\ First(n) = fifo[n][1]
         /\ 1 \in 1 .. Len(fifo[n])
         /\ Emptied(n) \in [Node -> Seq(Packet)]
         /\ Emptied(n)[n] = <<>>
         /\ Emptied(n)[Peer(n)] = fifo[Peer(n)]
  <1>1. fifo[n] \in Seq(Packet) /\ fifo[n] # <<>>
    BY DEF TypeOK, Received
  <1>2. First(n) \in Packet /\ First(n) = fifo[n][1] /\ 1 \in 1 .. Len(fifo[n])
    BY <1>1 DEF First
  <1> QED
    BY <1>2, Nodes DEF TypeOK, Emptied

\* The peer's FIFO gains nothing, or an acknowledgement of s.
MayAck(n, s) ==
  \/ fifo'[Peer(n)] = fifo[Peer(n)]
  \/ \E q \in Packet :
       /\ q.seq = s /\ q.data = <<>>
       /\ fifo'[Peer(n)] = Append(fifo[Peer(n)], q)

LEMMA AckSent ==
  ASSUME TypeOK, NEW n \in Node, Received(n),
         slink_send(n, Ack(First(n)), radio, Emptied(n), "flush")
  PROVE  /\ radio' \in [Node -> {"IDLE", "RX", "OVERFLOW"}]
         /\ fifo' \in [Node -> Seq(Packet)]
         /\ fifo'[n] = <<>>
         /\ MayAck(n, First(n).seq)
         /\ pc' = [pc EXCEPT ![n] = pc'[n]]
         /\ pc'[n] \in {"hung", "flush"}
  <1> DEFINE p == Ack(First(n))
             f == Emptied(n)
  <1>1. p \in Packet /\ p.seq = First(n).seq /\ p.data = <<>>
    <2>1. First(n) \in Packet
      BY FirstPacket
    <2> QED
      BY <2>1, EmptySeq DEF Ack, Packet
  <1>2. /\ f \in [Node -> Seq(Packet)] /\ f[n] = <<>>
        /\ f[Peer(n)] = fifo[Peer(n)]
    BY FirstPacket
  <1>3. slink_send(n, p, radio, f, "flush")
    OBVIOUS
  <1> HIDE DEF p, f
  <1>4. /\ radio' \in [Node -> {"IDLE", "RX", "OVERFLOW"}]
        /\ fifo' \in [Node -> Seq(Packet)]
        /\ fifo'[n] = f[n]
        /\ \/ fifo'[Peer(n)] = f[Peer(n)]
           \/ \E q \in Packet :
                /\ q.seq = p.seq /\ q.data = p.data
                /\ fifo'[Peer(n)] = Append(f[Peer(n)], q)
        /\ pc' = [pc EXCEPT ![n] = pc'[n]]
        /\ pc'[n] \in {"hung", "flush"}
    BY <1>1, <1>2, <1>3, SendEffect DEF Transmitted
  <1> QED
    BY <1>1, <1>2, <1>4 DEF MayAck

\* What fits of a packet is a leading part of it.
LEMMA FittingProperties ==
  ASSUME TypeOK, NEW n \in Node, NEW d \in Seq(Byte)
  PROVE  /\ Fitting(n, d) \in Seq(Byte)
         /\ Len(Fitting(n, d)) \in 0 .. Len(d)
         /\ Fitting(n, d) = SubSeq(d, 1, Len(Fitting(n, d)))
         /\ Len(Fitting(n, d)) = Len(d) => Fitting(n, d) = d
         /\ Len(rxbuf[n]) + Len(Fitting(n, d)) < BufSize
  <1> DEFINE room == BufSize - 1 - Len(rxbuf[n])
             kept == IF Len(d) < room THEN Len(d) ELSE room
  <1>1. /\ rxbuf[n] \in Seq(Byte) /\ Len(rxbuf[n]) < BufSize
        /\ Len(rxbuf[n]) \in Nat /\ Len(d) \in Nat /\ BufSize \in Nat
    BY SMTT(20), ConstantAssumption DEF TypeOK
  <1>2. kept \in 0 .. Len(d) /\ Len(rxbuf[n]) + kept < BufSize
    <2>1. room \in Nat /\ Len(rxbuf[n]) + room < BufSize
      BY <1>1
    <2> HIDE DEF room
    <2>2. CASE Len(d) < room
      <3>1. kept = Len(d)
        BY <2>2
      <3> QED
        BY <1>1, <2>1, <2>2, <3>1
    <2>3. CASE ~(Len(d) < room)
      <3>1. kept = room
        BY <2>3
      <3> QED
        BY <1>1, <2>1, <2>3, <3>1
    <2> QED
      BY <2>2, <2>3
  <1>3. Fitting(n, d) = SubSeq(d, 1, kept)
    BY DEF Fitting
  <1> HIDE DEF kept
  <1>4. /\ SubSeq(d, 1, kept) \in Seq(Byte)
        /\ Len(SubSeq(d, 1, kept)) = kept
        /\ \A i \in 1 .. kept : SubSeq(d, 1, kept)[i] = d[i]
    BY <1>2, SubSeqProperties
  <1>5. kept = Len(d) => SubSeq(d, 1, kept) = d
    BY <1>4, SeqEqual
  <1> QED
    BY <1>2, <1>3, <1>4, <1>5

------------------------------------------------------------------------------
(* Types                                                                   *)

LEMMA PcType ==
  ASSUME TypeOK, NEW n \in Node, pc' = [pc EXCEPT ![n] = pc'[n]],
         pc'[n] \in {"put", "receive", "flush", "get", "hung"}
  PROVE  pc' \in [Node -> {"put", "receive", "flush", "get", "hung"}]
  BY DEF TypeOK

LEMMA TypeStep ==
  ASSUME TypeOK, NEW n \in Node, pc[n] = "get" => rxbuf[n] # <<>>, Loop(n)
  PROVE  TypeOK'
  <1> USE Nodes
  <1>1. CASE PutByte(n)
    <2> DEFINE room == Len(txbuf[n]) < BufSize - 1
               c == Head(host[n])
               buf == IF room THEN Append(txbuf[n], c) ELSE txbuf[n]
    <2>1. /\ host[n] \in Seq(Byte) /\ host[n] # <<>>
          /\ host' = [host EXCEPT ![n] = Tail(host[n])]
          /\ accepted' = IF room THEN [accepted EXCEPT ![n] = Append(accepted[n], c)]
                                 ELSE accepted
          /\ UNCHANGED <<rxbuf, rxseq, taken, out, dropped>>
      BY <1>1 DEF PutByte, TypeOK
    <2>2. c \in Byte /\ Tail(host[n]) \in Seq(Byte)
      BY <2>1
    <2>3. buf \in Seq(Byte) /\ Len(buf) < BufSize
      <3>1. txbuf[n] \in Seq(Byte) /\ Len(txbuf[n]) < BufSize
        BY DEF TypeOK
      <3>2. Append(txbuf[n], c) \in Seq(Byte)
            /\ Len(Append(txbuf[n], c)) = Len(txbuf[n]) + 1
        BY <2>2, <3>1, AppendProperties
      <3> QED
        BY <3>1, <3>2, ConstantAssumption
    <2>4. FlushTypes /\ pc' \in [Node -> {"put", "receive", "flush", "get", "hung"}]
      <3>1. CASE slink_flush(n, buf, "put")
        <4> HIDE DEF buf
        <4>1. FlushTypes /\ FlushLocal(n, "put")
          BY <3>1, <2>3, FlushEffect
        <4> QED
          BY <4>1, PcType DEF FlushLocal
      <3>2. CASE /\ txbuf' = [txbuf EXCEPT ![n] = buf]
                 /\ UNCHANGED <<pc, txseq, txpkt, radio, fifo>>
        BY <3>2, <2>3 DEF FlushTypes, TypeOK
      <3> QED
        BY <1>1, <3>1, <3>2 DEF PutByte, air
    <2>5. accepted' \in [Node -> Seq(Byte)]
      BY <2>1, <2>2 DEF TypeOK
    <2> QED
      BY <2>1, <2>2, <2>4, <2>5 DEF TypeOK, FlushTypes
  <1>2. CASE HostPauses(n)
    BY <1>2 DEF HostPauses, link, air, history, TypeOK
  <1>3. CASE ReceiverOn(n)
    <2>1. fifo' \in [Node -> Seq(Packet)]
      BY <1>3, EmptySeq DEF ReceiverOn, TypeOK
    <2> QED
      BY <1>3, <2>1 DEF ReceiverOn, link, history, TypeOK
  <1>4. CASE NothingReceived(n)
    BY <1>4 DEF NothingReceived, link, air, history, TypeOK
  <1>5. CASE Reject(n)
    <2>1. Received(n) /\ TurnOff(n)
      BY <1>5 DEF Reject
    <2>2. fifo' \in [Node -> Seq(Packet)]
      BY <2>1, FirstPacket DEF TurnOff
    <2> QED
      BY <2>1, <2>2 DEF TurnOff, link, history, TypeOK
  <1>6. CASE ReceiveAck(n)
    <2>1. txpkt \in [Node -> InTheAir] /\ 0 \in 0 .. ResendAfter
      BY ConstantAssumption DEF TypeOK, InTheAir
    <2>2. txpkt' = txpkt \/ txpkt' = [txpkt EXCEPT ![n].timeout = 0]
      BY <1>6 DEF ReceiveAck
    <2>3. txpkt' \in [Node -> InTheAir]
      BY <2>1, <2>2, TimeoutSet
    <2> QED
      BY <1>6, <2>3, FirstPacket DEF ReceiveAck, history, TypeOK, InTheAir
  <1>7. CASE ReceiveDuplicate(n)
    <2>1. /\ radio' \in [Node -> {"IDLE", "RX", "OVERFLOW"}]
          /\ fifo' \in [Node -> Seq(Packet)]
          /\ pc' = [pc EXCEPT ![n] = pc'[n]] /\ pc'[n] \in {"hung", "flush"}
      BY <1>7, AckSent DEF ReceiveDuplicate
    <2> QED
      BY <1>7, <2>1, PcType DEF ReceiveDuplicate, link, history, TypeOK
  <1>8. CASE ReceiveData(n)
    <2>1. /\ radio' \in [Node -> {"IDLE", "RX", "OVERFLOW"}]
          /\ fifo' \in [Node -> Seq(Packet)]
          /\ pc' = [pc EXCEPT ![n] = pc'[n]] /\ pc'[n] \in {"hung", "flush"}
      BY <1>8, AckSent DEF ReceiveData
    <2>2. First(n) \in Packet /\ First(n).seq \in 0 .. SeqMod - 1
      BY <1>8, FirstPacket DEF ReceiveData, Packet
    <2> DEFINE d == First(n).data
    <2>3. /\ rxbuf' = [rxbuf EXCEPT ![n] = rxbuf[n] \o Fitting(n, d)]
          /\ taken' = [taken EXCEPT ![n] = taken[n] \o d]
          /\ dropped' = [dropped EXCEPT ![n] = dropped[n]
                                              + (Len(d) - Len(Fitting(n, d)))]
          /\ rxseq' = [rxseq EXCEPT ![n] = First(n).seq]
      BY <1>8 DEF ReceiveData
    <2>4. d \in Seq(Byte)
      BY <2>2 DEF Packet
    <2> HIDE DEF d
    <2>5. /\ rxbuf[n] \o Fitting(n, d) \in Seq(Byte)
          /\ Len(rxbuf[n] \o Fitting(n, d)) < BufSize
          /\ Len(d) - Len(Fitting(n, d)) \in Nat
      <3>1. /\ Fitting(n, d) \in Seq(Byte)
            /\ Len(Fitting(n, d)) \in 0 .. Len(d)
            /\ Len(rxbuf[n]) + Len(Fitting(n, d)) < BufSize
        BY <2>4, FittingProperties
      <3>2. rxbuf[n] \in Seq(Byte) /\ Len(d) \in Nat
        BY <2>4 DEF TypeOK
      <3>3. /\ rxbuf[n] \o Fitting(n, d) \in Seq(Byte)
            /\ Len(rxbuf[n] \o Fitting(n, d)) = Len(rxbuf[n]) + Len(Fitting(n, d))
        BY <3>1, <3>2, ConcatProperties
      <3> QED
        BY <3>1, <3>2, <3>3
    <2>6. taken[n] \o d \in Seq(Byte)
      BY <2>4, ConcatProperties DEF TypeOK
    <2>7. /\ rxbuf' \in [Node -> Seq(Byte)]
          /\ \A m \in Node : Len(rxbuf'[m]) < BufSize
      BY <2>3, <2>5 DEF TypeOK
    <2>8. /\ taken' \in [Node -> Seq(Byte)]
          /\ dropped' \in [Node -> Nat]
          /\ rxseq' \in [Node -> 0 .. SeqMod - 1]
      <3>1. dropped[n] + (Len(d) - Len(Fitting(n, d))) \in Nat
        BY SMTT(20), <2>5 DEF TypeOK
      <3> QED
        BY <2>2, <2>3, <2>6, <3>1 DEF TypeOK
    <2>9. UNCHANGED <<host, txbuf, txseq, txpkt, accepted, out>>
      BY <1>8 DEF ReceiveData
    <2> QED
      BY <2>1, <2>7, <2>8, <2>9, PcType DEF TypeOK
  <1>9. CASE FlushOnPoll(n)
    <2> DEFINE next == IF rxbuf[n] # <<>> THEN "get" ELSE "put"
    <2>1. slink_flush(n, txbuf[n], next) /\ next \in {"put", "get"}
      BY <1>9 DEF FlushOnPoll
    <2>2. txbuf[n] \in Seq(Byte) /\ Len(txbuf[n]) < BufSize
      BY DEF TypeOK
    <2> HIDE DEF next
    <2>3. FlushTypes /\ FlushLocal(n, next)
      BY <2>1, <2>2, FlushEffect
    <2> QED
      <3>1. pc' \in [Node -> {"put", "receive", "flush", "get", "hung"}]
        BY <2>1, <2>3, PcType DEF FlushLocal
      <3>2. UNCHANGED <<host, rxbuf, rxseq, accepted, taken, out, dropped>>
        BY <1>9 DEF FlushOnPoll, history
      <3> QED
        BY <2>3, <3>1, <3>2 DEF FlushTypes, TypeOK
  <1>10. CASE GetByte(n)
    <2>1. /\ rxbuf[n] \in Seq(Byte) /\ rxbuf[n] # <<>> /\ Len(rxbuf[n]) < BufSize
      BY <1>10 DEF GetByte, TypeOK
    <2>2. /\ Head(rxbuf[n]) \in Byte /\ Tail(rxbuf[n]) \in Seq(Byte)
          /\ Len(Tail(rxbuf[n])) < BufSize
      BY <2>1, HeadTailProperties, ConstantAssumption
    <2>3. /\ out' = [out EXCEPT ![n] = Append(out[n], Head(rxbuf[n]))]
          /\ rxbuf' = [rxbuf EXCEPT ![n] = Tail(rxbuf[n])]
          /\ pc' = [pc EXCEPT ![n] = "receive"]
          /\ UNCHANGED <<host, txbuf, txseq, rxseq, txpkt, radio, fifo,
                          accepted, taken, dropped>>
      BY <1>10 DEF GetByte, air
    <2>4. out' \in [Node -> Seq(Byte)]
      BY <2>2, <2>3, AppendProperties DEF TypeOK
    <2>5. /\ rxbuf' \in [Node -> Seq(Byte)]
          /\ \A m \in Node : Len(rxbuf'[m]) < BufSize
      BY <2>2, <2>3 DEF TypeOK
    <2> QED
      BY <2>3, <2>4, <2>5 DEF TypeOK
  <1> QED
    BY <1>1, <1>2, <1>3, <1>4, <1>5, <1>6, <1>7, <1>8, <1>9, <1>10
    DEF Loop, slink_receive

------------------------------------------------------------------------------
(* The sliding window of size one                                          *)

LEMMA Associative ==
  \A s, t, u \in Seq(Byte) : (s \o t) \o u = s \o (t \o u)
  BY ConcatAssociative

LEMMA AppendByte ==
  ASSUME NEW s \in Seq(Byte), NEW c \in Byte
  PROVE  Append(s, c) = s \o <<c>> /\ <<c>> \in Seq(Byte)
  <1>1. Append(s, c) = s \o <<c>>
    BY AppendIsConcat
  <1>2. <<c>> \in Seq(Byte)
    OBVIOUS
  <1> QED
    BY <1>1, <1>2

\* A step that may flush: at most one byte of the host is accepted, and the
\* bytes of the buffer stay there or move on into a new packet.
LEMMA SendStep ==
  ASSUME TypeOK, NEW n \in Node, PutByte(n) \/ FlushOnPoll(n)
  PROVE  /\ UNCHANGED <<rxseq, rxbuf, taken, out, dropped>>
         /\ txseq'[Peer(n)] = txseq[Peer(n)]
         /\ txpkt'[Peer(n)] = txpkt[Peer(n)]
         /\ txbuf'[Peer(n)] = txbuf[Peer(n)]
         /\ fifo'[n] = fifo[n]
         /\ MaySend(n)
         /\ \/ /\ accepted' = accepted
               /\ KeepsPacket(n, txbuf[n]) \/ NewPacket(n, txbuf[n])
            \/ \E c \in Byte :
                 /\ accepted' = [accepted EXCEPT ![n] = Append(accepted[n], c)]
                 /\ \/ KeepsPacket(n, Append(txbuf[n], c))
                    \/ NewPacket(n, Append(txbuf[n], c))
         /\ pc' = [pc EXCEPT ![n] = pc'[n]]
         /\ pc'[n] = "get" => rxbuf[n] # <<>>
  <1> USE Nodes
  <1>1. CASE PutByte(n)
    <2> DEFINE room == Len(txbuf[n]) < BufSize - 1
               c == Head(host[n])
               buf == IF room THEN Append(txbuf[n], c) ELSE txbuf[n]
    <2>1. /\ host[n] \in Seq(Byte) /\ host[n] # <<>>
          /\ accepted' = IF room THEN [accepted EXCEPT ![n] = Append(accepted[n], c)]
                                 ELSE accepted
          /\ UNCHANGED <<rxbuf, rxseq, taken, out, dropped>>
      BY <1>1 DEF PutByte, TypeOK
    <2>2. c \in Byte
      BY <2>1
    <2>3. buf \in Seq(Byte) /\ Len(buf) < BufSize
      <3>1. txbuf[n] \in Seq(Byte) /\ Len(txbuf[n]) < BufSize
        BY DEF TypeOK
      <3>2. Append(txbuf[n], c) \in Seq(Byte)
            /\ Len(Append(txbuf[n], c)) = Len(txbuf[n]) + 1
        BY <2>2, <3>1, AppendProperties
      <3> QED
        BY <3>1, <3>2, ConstantAssumption
    <2>4. /\ txseq'[Peer(n)] = txseq[Peer(n)]
          /\ txpkt'[Peer(n)] = txpkt[Peer(n)]
          /\ txbuf'[Peer(n)] = txbuf[Peer(n)]
          /\ fifo'[n] = fifo[n]
          /\ MaySend(n)
          /\ KeepsPacket(n, buf) \/ NewPacket(n, buf)
          /\ pc' = [pc EXCEPT ![n] = pc'[n]]
          /\ pc'[n] # "get"
      <3> HIDE DEF buf
      <3>1. CASE slink_flush(n, buf, "put")
        <4>1. /\ FlushLocal(n, "put") /\ MaySend(n)
              /\ KeepsPacket(n, buf) \/ NewPacket(n, buf)
          BY <2>3, <3>1, FlushEffect
        <4> QED
          BY <4>1 DEF FlushLocal
      <3>2. CASE /\ txbuf' = [txbuf EXCEPT ![n] = buf]
                 /\ UNCHANGED <<pc, txseq, txpkt, radio, fifo>>
        <4>1. pc[n] = "put" /\ pc' = [pc EXCEPT ![n] = pc'[n]]
          BY <1>1, <3>2 DEF PutByte, TypeOK
        <4>2. txbuf'[n] = buf /\ txbuf'[Peer(n)] = txbuf[Peer(n)]
          BY <3>2 DEF TypeOK
        <4>3. KeepsPacket(n, buf) /\ MaySend(n)
          BY <3>2, <4>2 DEF KeepsPacket, MaySend
        <4> QED
          BY <3>2, <4>1, <4>2, <4>3
      <3> QED
        BY <1>1, <3>1, <3>2 DEF PutByte, air, buf
    <2> HIDE DEF c
    <2>5. CASE room
      BY <2>1, <2>2, <2>4, <2>5
    <2>6. CASE ~room
      BY <2>1, <2>4, <2>6
    <2> QED
      BY <2>5, <2>6
  <1>2. CASE FlushOnPoll(n)
    <2> DEFINE next == IF rxbuf[n] # <<>> THEN "get" ELSE "put"
    <2>1. /\ slink_flush(n, txbuf[n], next) /\ next \in {"put", "get"}
          /\ next = "get" => rxbuf[n] # <<>>
      BY <1>2 DEF FlushOnPoll
    <2>2. txbuf[n] \in Seq(Byte) /\ Len(txbuf[n]) < BufSize
      BY DEF TypeOK
    <2> HIDE DEF next
    <2>3. /\ FlushLocal(n, next) /\ MaySend(n)
          /\ KeepsPacket(n, txbuf[n]) \/ NewPacket(n, txbuf[n])
      BY <2>1, <2>2, FlushEffect
    <2>4. UNCHANGED <<rxseq, rxbuf, accepted, taken, out, dropped>>
      BY <1>2 DEF FlushOnPoll, history
    <2> QED
      BY <2>1, <2>3, <2>4 DEF FlushLocal
  <1> QED
    BY <1>1, <1>2

\* What a received packet says.
LEMMA ReceivedExpected ==
  ASSUME IInv, NEW n \in Node, Received(n)
  PROVE  Expected(n, First(n))
  <1>1. /\ First(n) = fifo[n][1] /\ 1 \in 1 .. Len(fifo[n])
    BY FirstPacket DEF IInv
  <1> QED
    BY <1>1 DEF IInv, InFlight

LEMMA AckReceived ==
  ASSUME IInv, NEW n \in Node, Received(n), IsAck(First(n)),
         First(n).seq = txpkt[n].cseq
  PROVE  rxseq[Peer(n)] = txpkt[n].cseq
  <1>1. ExpectedAck(n, First(n))
    BY ReceivedExpected DEF Expected
  <1>2. txpkt[n].cseq \in 0 .. SeqMod - 1
    BY DEF IInv, TypeOK
  <1> QED
    BY <1>1, <1>2, SuccSeqRange DEF ExpectedAck

\* What ReceiveData takes over is the packet the peer has in the air.
LEMMA NextReceived ==
  ASSUME IInv, NEW n \in Node, ReceiveData(n)
  PROVE  /\ First(n).seq = txpkt[Peer(n)].cseq
         /\ First(n).data = txpkt[Peer(n)].data
         /\ rxseq[n] # txpkt[Peer(n)].cseq
         /\ rxseq' = [rxseq EXCEPT ![n] = txpkt[Peer(n)].cseq]
         /\ taken' = [taken EXCEPT ![n] = taken[n] \o txpkt[Peer(n)].data]
  <1>1. ExpectedData(n, First(n))
    BY ReceivedExpected DEF ReceiveData, Expected
  <1>2. First(n).seq # rxseq[n]
    BY DEF ReceiveData
  <1>3. /\ First(n).seq = txpkt[Peer(n)].cseq
        /\ First(n).data = txpkt[Peer(n)].data
        /\ rxseq[n] # txpkt[Peer(n)].cseq
    BY <1>1, <1>2 DEF ExpectedData
  <1> QED
    BY <1>3 DEF ReceiveData

LEMMA WindowStep ==
  ASSUME IInv, NEW n \in Node, Loop(n)
  PROVE  Window(n)' /\ Window(Peer(n))'
  <1> USE Nodes
  <1>0. Window(n) /\ Window(Peer(n)) /\ TypeOK
    BY DEF IInv
  <1>1. CASE PutByte(n) \/ FlushOnPoll(n)
    <2>1. /\ rxseq' = rxseq
          /\ txseq'[Peer(n)] = txseq[Peer(n)]
          /\ txpkt'[Peer(n)] = txpkt[Peer(n)]
      BY <1>0, <1>1, SendStep
    <2>2. \E buf : KeepsPacket(n, buf) \/ NewPacket(n, buf)
      BY <1>0, <1>1, SendStep
    <2>3. Window(Peer(n))'
      BY <1>0, <2>1 DEF Window
    <2>4. Window(n)'
      <3>1. CASE \E buf : KeepsPacket(n, buf)
        BY <1>0, <2>1, <3>1 DEF Window, KeepsPacket
      <3>2. CASE \E buf : NewPacket(n, buf)
        BY <1>0, <2>1, <3>2 DEF Window, NewPacket
      <3> QED
        BY <2>2, <3>1, <3>2
    <2> QED
      BY <2>3, <2>4
  <1>2. CASE ReceiveAck(n)
    <2>1. UNCHANGED <<txseq, rxseq>>
      BY <1>2 DEF ReceiveAck
    <2>2. CASE txpkt[n].cseq = First(n).seq
      <3>1. rxseq[Peer(n)] = txpkt[n].cseq
        BY <1>2, <2>2, AckReceived DEF ReceiveAck
      <3>2. txpkt' = [txpkt EXCEPT ![n].timeout = 0]
        BY <1>2, <2>2 DEF ReceiveAck
      <3>3. txpkt \in [Node -> InTheAir] /\ 0 \in 0 .. ResendAfter
        BY <1>0, ConstantAssumption DEF TypeOK, InTheAir
      <3>4. /\ txpkt'[n].cseq = txpkt[n].cseq /\ txpkt'[n].timeout = 0
            /\ txpkt'[Peer(n)] = txpkt[Peer(n)]
        BY <3>2, <3>3, TimeoutSet
      <3> QED
        BY <1>0, <2>1, <3>1, <3>4 DEF Window
    <2>3. CASE txpkt[n].cseq # First(n).seq
      <3>1. txpkt' = txpkt
        BY <1>2, <2>3 DEF ReceiveAck
      <3> QED
        BY <1>0, <2>1, <3>1 DEF Window
    <2> QED
      BY <2>2, <2>3
  <1>3. CASE ReceiveData(n)
    <2>1. /\ UNCHANGED <<txseq, txpkt>>
          /\ rxseq' = [rxseq EXCEPT ![n] = txpkt[Peer(n)].cseq]
      BY <1>3, NextReceived DEF ReceiveData
    <2>2. rxseq'[n] = txpkt[Peer(n)].cseq /\ rxseq'[Peer(n)] = rxseq[Peer(n)]
      BY <1>0, <2>1 DEF TypeOK
    <2> QED
      BY <1>0, <2>1, <2>2 DEF Window
  <1>4. CASE UNCHANGED <<txseq, rxseq, txpkt>>
    BY <1>0, <1>4 DEF Window
  <1> QED
    BY <1>1, <1>2, <1>3, <1>4
    DEF Loop, slink_receive, HostPauses, ReceiverOn, NothingReceived,
        Reject, TurnOff, ReceiveDuplicate, GetByte, link

\* The packets of a FIFO stay expected when it is emptied, left alone, or
\* gains one that is.
LEMMA Carried ==
  ASSUME TypeOK, NEW m \in Node, InFlight(m),
         \A q \in Packet : Expected(m, q) => Expected(m, q)',
         \/ fifo'[m] = <<>>
         \/ fifo'[m] = fifo[m]
         \/ \E q \in Packet : Expected(m, q)' /\ fifo'[m] = Append(fifo[m], q)
  PROVE  InFlight(m)'
  <1>1. fifo[m] \in Seq(Packet)
    BY DEF TypeOK
  <1>2. ASSUME NEW i \in 1 .. Len(fifo[m]), NEW q, q = fifo[m][i]
        PROVE  Expected(m, q)'
    BY <1>1, <1>2 DEF InFlight
  <1>3. CASE fifo'[m] = <<>>
    BY <1>3 DEF InFlight
  <1>4. CASE fifo'[m] = fifo[m]
    BY <1>2, <1>4 DEF InFlight
  <1>5. CASE \E q \in Packet : Expected(m, q)' /\ fifo'[m] = Append(fifo[m], q)
    <2>1. PICK q \in Packet : Expected(m, q)' /\ fifo'[m] = Append(fifo[m], q)
      BY <1>5
    <2>2. /\ Len(fifo'[m]) = Len(fifo[m]) + 1 /\ Len(fifo[m]) \in Nat
          /\ fifo'[m][Len(fifo[m]) + 1] = q
          /\ \A i \in 1 .. Len(fifo[m]) : fifo'[m][i] = fifo[m][i]
      BY <1>1, <2>1, AppendProperties
    <2>3. ASSUME NEW i \in 1 .. Len(fifo'[m]), NEW r, r = fifo'[m][i]
          PROVE  Expected(m, r)'
      <3>1. i \in 1 .. Len(fifo[m]) \/ i = Len(fifo[m]) + 1
        BY <2>2
      <3> QED
        BY <1>2, <2>1, <2>2, <2>3, <3>1
    <2> QED
      BY <2>3 DEF InFlight
  <1> QED
    BY <1>3, <1>4, <1>5

LEMMA InFlightStep ==
  ASSUME IInv, NEW n \in Node, Loop(n)
  PROVE  InFlight(n)' /\ InFlight(Peer(n))'
  <1> USE Nodes
  <1> DEFINE p == Peer(n)
  <1>0. /\ InFlight(n) /\ InFlight(p) /\ Window(n) /\ Window(p) /\ TypeOK
        /\ p \in Node /\ Peer(p) = n /\ p # n
    BY DEF IInv
  <1>1. CASE PutByte(n) \/ FlushOnPoll(n)
    <2>1. /\ rxseq' = rxseq
          /\ txpkt'[p] = txpkt[p]
          /\ fifo'[n] = fifo[n]
          /\ MaySend(n)
          /\ \E buf : KeepsPacket(n, buf) \/ NewPacket(n, buf)
      BY <1>0, <1>1, SendStep
    <2>2. ASSUME NEW q \in Packet
          PROVE  /\ Expected(n, q) => Expected(n, q)'
                 /\ Expected(p, q) => Expected(p, q)'
      <3>1. CASE \E buf : KeepsPacket(n, buf)
        BY <1>0, <2>1, <3>1 DEF Expected, ExpectedAck, ExpectedData, KeepsPacket
      <3>2. CASE \E buf : NewPacket(n, buf)
        BY <1>0, <2>1, <3>2
        DEF Expected, ExpectedAck, ExpectedData, NewPacket, Window
      <3> QED
        BY <2>1, <3>1, <3>2
    <2>3. ASSUME NEW q \in Packet, q.seq = txpkt'[n].cseq, q.data = txpkt'[n].data,
                 fifo'[p] # fifo[p]
          PROVE  Expected(p, q)'
      <3>1. CASE \E buf : KeepsPacket(n, buf)
        BY <1>0, <2>1, <2>3, <3>1
        DEF Expected, ExpectedData, KeepsPacket, Window, IsAck
      <3>2. CASE \E buf : NewPacket(n, buf)
        BY <1>0, <2>1, <2>3, <3>2
        DEF Expected, ExpectedData, NewPacket, Window, IsAck
      <3> QED
        BY <2>1, <3>1, <3>2
    <2>4. InFlight(n)'
      BY <1>0, <2>1, <2>2, Carried
    <2>5. InFlight(p)'
      BY <1>0, <2>1, <2>2, <2>3, Carried DEF MaySend
    <2> QED
      BY <2>4, <2>5
  <1>2. CASE ReceiveAck(n)
    <2>1. /\ fifo'[n] = <<>> /\ fifo'[p] = fifo[p] /\ rxseq' = rxseq
      BY <1>0, <1>2, FirstPacket DEF ReceiveAck
    <2>2. txpkt' = txpkt \/ txpkt' = [txpkt EXCEPT ![n].timeout = 0]
      BY <1>2 DEF ReceiveAck
    <2>3. txpkt \in [Node -> InTheAir] /\ 0 \in 0 .. ResendAfter
      BY <1>0, ConstantAssumption DEF TypeOK, InTheAir
    <2>4. /\ txpkt'[n].cseq = txpkt[n].cseq
          /\ txpkt'[n].data = txpkt[n].data
          /\ txpkt'[p] = txpkt[p]
      BY <1>0, <2>2, <2>3, TimeoutSet
    <2>5. ASSUME NEW q \in Packet
          PROVE  Expected(p, q) => Expected(p, q)'
      BY <1>0, <2>1, <2>4 DEF Expected, ExpectedAck, ExpectedData
    <2>6. InFlight(n)'
      BY <2>1 DEF InFlight
    <2>7. InFlight(p)'
      BY <1>0, <2>1, <2>5, Carried
    <2> QED
      BY <2>6, <2>7
  <1>3. CASE ReceiveDuplicate(n)
    <2>1. /\ Received(n) /\ First(n).seq = rxseq[n]
          /\ UNCHANGED <<txpkt, rxseq>>
      BY <1>3 DEF ReceiveDuplicate, link
    <2>2. fifo'[n] = <<>> /\ MayAck(n, First(n).seq)
      BY <1>0, <1>3, AckSent DEF ReceiveDuplicate
    <2>3. ASSUME NEW q \in Packet
          PROVE  /\ Expected(p, q) => Expected(p, q)'
                 /\ q.data = <<>> /\ q.seq = rxseq[n] => Expected(p, q)'
      BY <1>0, <2>1 DEF Expected, ExpectedAck, ExpectedData, IsAck, Window
    <2>4. InFlight(n)'
      BY <2>2 DEF InFlight
    <2>5. InFlight(p)'
      BY <1>0, <2>1, <2>2, <2>3, Carried DEF MayAck
    <2> QED
      BY <2>4, <2>5
  <1>4. CASE ReceiveData(n)
    <2>1. Received(n) /\ txpkt' = txpkt
      BY <1>4 DEF ReceiveData
    <2>2. fifo'[n] = <<>> /\ MayAck(n, First(n).seq)
      BY <1>0, <1>4, AckSent DEF ReceiveData
    <2>3. /\ First(n).seq = txpkt[p].cseq
          /\ rxseq' = [rxseq EXCEPT ![n] = txpkt[p].cseq]
      BY <1>4, NextReceived
    <2>4. rxseq'[n] = txpkt[p].cseq /\ rxseq'[p] = rxseq[p]
      BY <1>0, <2>3 DEF TypeOK
    <2>5. ASSUME NEW q \in Packet
          PROVE  /\ Expected(p, q) => Expected(p, q)'
                 /\ q.data = <<>> /\ q.seq = txpkt[p].cseq => Expected(p, q)'
      BY <1>0, <2>1, <2>4 DEF Expected, ExpectedAck, ExpectedData, IsAck
    <2>6. InFlight(n)'
      BY <2>2 DEF InFlight
    <2>7. InFlight(p)'
      BY <1>0, <2>2, <2>3, <2>5, Carried DEF MayAck
    <2> QED
      BY <2>6, <2>7
  <1>5. CASE ReceiverOn(n) \/ Reject(n)
    <2>1. /\ fifo' = [fifo EXCEPT ![n] = <<>>]
          /\ UNCHANGED <<rxseq, txpkt>>
      BY <1>5 DEF ReceiverOn, Reject, TurnOff, Emptied, link
    <2>2. fifo'[n] = <<>> /\ fifo'[p] = fifo[p]
      BY <1>0, <2>1 DEF TypeOK
    <2>3. InFlight(n)'
      BY <2>2 DEF InFlight
    <2>4. InFlight(p)'
      BY <1>0, <2>1, <2>2 DEF InFlight, Expected, ExpectedAck, ExpectedData
    <2> QED
      BY <2>3, <2>4
  <1>6. CASE UNCHANGED <<rxseq, txpkt, fifo>>
    BY <1>0, <1>6 DEF InFlight, Expected, ExpectedAck, ExpectedData
  <1> QED
    BY <1>1, <1>2, <1>3, <1>4, <1>5, <1>6
    DEF Loop, slink_receive, HostPauses, NothingReceived, GetByte, link, air

LEMMA GetStep ==
  ASSUME TypeOK, \A m \in Node : pc[m] = "get" => rxbuf[m] # <<>>, NEW n \in Node, Loop(n)
  PROVE  \A m \in Node : pc'[m] = "get" => rxbuf'[m] # <<>>
  <1> USE Nodes
  <1> DEFINE p == Peer(n)
  <1>0. /\ TypeOK /\ p \in Node /\ p # n
        /\ \A m \in Node : pc[m] = "get" => rxbuf[m] # <<>>
    OBVIOUS
  <1>1. CASE PutByte(n) \/ FlushOnPoll(n)
    <2>1. /\ rxbuf' = rxbuf
          /\ pc' = [pc EXCEPT ![n] = pc'[n]]
          /\ pc'[n] = "get" => rxbuf[n] # <<>>
      BY <1>0, <1>1, SendStep
    <2>2. pc'[p] = pc[p]
      BY <1>0, <2>1 DEF TypeOK
    <2> QED
      BY <1>0, <2>1, <2>2
  <1>2. CASE ReceiveDuplicate(n)
    <2>1. pc' = [pc EXCEPT ![n] = pc'[n]] /\ pc'[n] # "get" /\ rxbuf' = rxbuf
      BY <1>0, <1>2, AckSent DEF ReceiveDuplicate, link
    <2> QED
      BY <1>0, <2>1 DEF TypeOK
  <1>3. CASE ReceiveData(n)
    <2>1. pc' = [pc EXCEPT ![n] = pc'[n]] /\ pc'[n] # "get"
      BY <1>0, <1>3, AckSent DEF ReceiveData
    <2>2. rxbuf'[p] = rxbuf[p]
      BY <1>0, <1>3 DEF ReceiveData, TypeOK
    <2>3. pc'[n] # "get" /\ pc'[p] = pc[p]
      BY <1>0, <2>1 DEF TypeOK
    <2>4. \A m \in Node : m \in {n, p}
      BY DEF Node, Peer
    <2> QED
      BY <1>0, <2>2, <2>3, <2>4
  <1>4. CASE GetByte(n)
    <2>1. pc'[n] = "receive" /\ pc'[p] = pc[p] /\ rxbuf'[p] = rxbuf[p]
      BY <1>0, <1>4 DEF GetByte, TypeOK
    <2> QED
      BY <1>0, <2>1
  <1>5. CASE /\ rxbuf' = rxbuf
             /\ pc' = [pc EXCEPT ![n] = "receive"] \/ pc' = [pc EXCEPT ![n] = "flush"]
    BY <1>0, <1>5 DEF TypeOK
  <1> QED
    BY <1>1, <1>2, <1>3, <1>4, <1>5
    DEF Loop, slink_receive, HostPauses, ReceiverOn, NothingReceived, ReceiveAck,
        Reject, TurnOff, link

------------------------------------------------------------------------------
(* The invariant, and what follows from it                                 *)

LEMMA Initially ==
  ASSUME Init
  PROVE  IInv
  <1>1. TypeOK
    <2>1. NoPacket \in [cseq : 0 .. SeqMod - 1, data : Seq(Byte),
                        timeout : 0 .. ResendAfter]
      BY ConstantAssumption, EmptySeq DEF NoPacket
    <2>2. /\ 1 \in 0 .. SeqMod - 1 /\ 0 \in 0 .. SeqMod - 1 /\ 0 < BufSize
          /\ <<>> \in Seq(Byte) /\ <<>> \in Seq(Packet) /\ Len(<<>>) = 0
      BY ConstantAssumption, EmptySeq
    <2> QED
      BY <2>1, <2>2, ConstantAssumption DEF Init, TypeOK
  <1>2. \A n \in Node : Window(n)
    <2>1. SuccSeq(0) = 1
      BY ConstantAssumption DEF SuccSeq
    <2>2. \A n \in Node : /\ txpkt[n].cseq = 0 /\ txpkt[n].timeout = 0
                          /\ txseq[n] = 1 /\ rxseq[n] = 0
      BY DEF Init, NoPacket
    <2> QED
      BY <2>1, <2>2, Nodes DEF Window
  <1>3. \A n \in Node : InFlight(n)
    <2>1. \A n \in Node : 1 .. Len(fifo[n]) = {}
      BY DEF Init
    <2> QED
      BY <2>1 DEF InFlight
  <1>4. \A n \in Node : pc[n] = "get" => rxbuf[n] # <<>>
    BY DEF Init
  <1> QED
    BY <1>1, <1>2, <1>3, <1>4 DEF IInv

LEMMA Inductive ==
  ASSUME IInv, [Next]_vars
  PROVE  IInv'
  <1>1. ASSUME NEW n \in Node, Loop(n)
        PROVE  IInv'
    <2>1. TypeOK'
      BY <1>1, TypeStep DEF IInv
    <2>2. \A m \in Node : Window(m)'
      BY <1>1, WindowStep, Nodes
    <2>3. \A m \in Node : InFlight(m)'
      BY <1>1, InFlightStep, Nodes
    <2>4. \A m \in Node : pc'[m] = "get" => rxbuf'[m] # <<>>
      BY <1>1, GetStep DEF IInv
    <2> QED
      BY <2>1, <2>2, <2>3, <2>4 DEF IInv
  <1>2. CASE UNCHANGED vars
    BY <1>2 DEF vars, link, air, history, IInv, TypeOK, Window, InFlight,
                Expected, ExpectedAck, ExpectedData
  <1> QED
    BY <1>1, <1>2 DEF Next

\* The strengthened invariant holds for every input and every constant.
LEMMA Invariant == Spec => []IInv
  BY Initially, Inductive, PTL DEF Spec

\* Buffers stay within bounds, sequence numbers and timeouts within their
\* widths, and no byte is read from an empty receive buffer.
THEOREM TypeCorrect == Spec => []TypeOK
  <1>1. IInv => TypeOK
    BY DEF IInv
  <1> QED
    BY <1>1, Invariant, PTL

\* A timeout of zero - the sender's licence to build the next packet - means
\* that the receiver has taken the last one over.
THEOREM NoFalseAck == Spec => []AckedMeansTaken
  <1>1. IInv => AckedMeansTaken
    BY DEF IInv, Window, AckedMeansTaken
  <1> QED
    BY <1>1, Invariant, PTL

\* The sequence check of slink_receive never fails between two ends that
\* started together, whatever is lost and however often numbers wrap.
THEOREM NoMismatch == Spec => []InSequence
  <1>1. ASSUME IInv, NEW n \in Node, Received(n), ~IsAck(First(n))
        PROVE  First(n).seq \in {rxseq[n], SuccSeq(rxseq[n])}
    <2>1. ExpectedData(n, First(n))
      BY <1>1, ReceivedExpected DEF Expected
    <2>2. Window(Peer(n)) /\ Peer(Peer(n)) = n
      BY <1>1, Nodes DEF IInv
    <2> QED
      BY <2>1, <2>2 DEF ExpectedData, Window
  <1>2. IInv => InSequence
    BY <1>1 DEF InSequence
  <1> QED
    BY <1>2, Invariant, PTL

------------------------------------------------------------------------------
(* The streams                                                             *)

LEMMA StreamStep ==
  ASSUME IInv, StreamIntact, NEW n \in Node, Loop(n)
  PROVE  StreamIntact'
  <1> USE Nodes
  <1> DEFINE p == Peer(n)
  <1>0. /\ TypeOK /\ Window(n) /\ Window(p)
        /\ p \in Node /\ Peer(p) = n /\ p # n
        /\ accepted[n] = taken[p] \o InAir(n) \o txbuf[n]
        /\ accepted[p] = taken[n] \o InAir(p) \o txbuf[p]
    BY DEF IInv, StreamIntact
  <1>1. /\ \A m \in Node : /\ accepted[m] \in Seq(Byte) /\ taken[m] \in Seq(Byte)
                           /\ txbuf[m] \in Seq(Byte) /\ InAir(m) \in Seq(Byte)
                           /\ txpkt[m].data \in Seq(Byte)
    BY <1>0, EmptySeq DEF TypeOK, InAir
  <1>2. SUFFICES /\ accepted'[n] = taken'[p] \o InAir(n)' \o txbuf'[n]
                 /\ accepted'[p] = taken'[n] \o InAir(p)' \o txbuf'[p]
    BY <1>0 DEF StreamIntact
  <1>3. CASE PutByte(n) \/ FlushOnPoll(n)
    <2>1. /\ rxseq' = rxseq /\ taken' = taken
          /\ txpkt'[p] = txpkt[p] /\ txbuf'[p] = txbuf[p]
      BY <1>0, <1>3, SendStep
    <2>2. PICK x \in Seq(Byte) :
            /\ accepted'[n] = accepted[n] \o x
            /\ accepted'[p] = accepted[p]
            /\ KeepsPacket(n, txbuf[n] \o x) \/ NewPacket(n, txbuf[n] \o x)
      <3>1. CASE /\ accepted' = accepted
                 /\ KeepsPacket(n, txbuf[n]) \/ NewPacket(n, txbuf[n])
        <4>1. /\ <<>> \in Seq(Byte) /\ accepted[n] \o <<>> = accepted[n]
              /\ txbuf[n] \o <<>> = txbuf[n]
          BY <1>1, EmptySeq, ConcatEmptySeq
        <4> QED
          BY <3>1, <4>1
      <3>2. CASE \E c \in Byte :
                   /\ accepted' = [accepted EXCEPT ![n] = Append(accepted[n], c)]
                   /\ \/ KeepsPacket(n, Append(txbuf[n], c))
                      \/ NewPacket(n, Append(txbuf[n], c))
        <4>1. PICK c \in Byte :
                   /\ accepted' = [accepted EXCEPT ![n] = Append(accepted[n], c)]
                   /\ \/ KeepsPacket(n, Append(txbuf[n], c))
                      \/ NewPacket(n, Append(txbuf[n], c))
          BY <3>2
        <4>2. /\ <<c>> \in Seq(Byte)
              /\ Append(accepted[n], c) = accepted[n] \o <<c>>
              /\ Append(txbuf[n], c) = txbuf[n] \o <<c>>
          <5>1. accepted[n] \in Seq(Byte) /\ txbuf[n] \in Seq(Byte)
            BY <1>1
          <5> QED
            BY <5>1, AppendByte
        <4>3. accepted'[n] = Append(accepted[n], c) /\ accepted'[p] = accepted[p]
          BY <1>0, <4>1 DEF TypeOK
        <4> QED
          BY <4>1, <4>2, <4>3
      <3> QED
        BY <1>0, <1>3, <3>1, <3>2, SendStep
    <2>3. accepted'[p] = taken'[n] \o InAir(p)' \o txbuf'[p]
      BY <1>0, <2>1, <2>2 DEF InAir
    <2>4. accepted'[n] = taken'[p] \o InAir(n)' \o txbuf'[n]
      <3>1. accepted'[n] = (taken[p] \o InAir(n)) \o (txbuf[n] \o x)
        <4> DEFINE a == taken[p] \o InAir(n)
        <4>1. a \in Seq(Byte) /\ txbuf[n] \in Seq(Byte)
          BY <1>0, <1>1, ConcatProperties
        <4>2. accepted'[n] = (a \o txbuf[n]) \o x
          BY <1>0, <2>2
        <4> HIDE DEF a
        <4>3. (a \o txbuf[n]) \o x = a \o (txbuf[n] \o x)
          BY <4>1, <2>2, Associative, ZenonT(40)
        <4>4. accepted'[n] = a \o (txbuf[n] \o x)
          BY <4>2, <4>3
        <4> QED
          BY <4>4 DEF a
      <3>2. CASE KeepsPacket(n, txbuf[n] \o x)
        <4>1. InAir(n)' = InAir(n) /\ txbuf'[n] = txbuf[n] \o x
          BY <2>1, <3>2 DEF KeepsPacket, InAir
        <4> QED
          BY <2>1, <3>1, <4>1
      <3>3. CASE NewPacket(n, txbuf[n] \o x)
        <4>1. InAir(n) = <<>>
          BY <1>0, <3>3 DEF NewPacket, Window, InAir
        <4>2. txpkt[n].cseq \in 0 .. SeqMod - 1
          BY <1>0 DEF TypeOK
        <4>3. InAir(n)' = txpkt'[n].data /\ txpkt'[n].data \o txbuf'[n] = txbuf[n] \o x
          BY <1>0, <2>1, <3>3, <4>2, SuccSeqRange DEF NewPacket, Window, InAir
        <4>4. txpkt'[n].data \in Seq(Byte) /\ txbuf'[n] \in Seq(Byte)
          BY <1>0, <1>3, TypeStep DEF TypeOK, IInv, Loop
        <4>5. accepted'[n] = taken[p] \o (txpkt'[n].data \o txbuf'[n])
          BY <1>0, <1>1, <3>1, <4>1, <4>3, ConcatEmptySeq
        <4>6. taken[p] \in Seq(Byte) /\ taken'[p] = taken[p]
          BY <1>0, <1>1, <2>1
        <4>7. taken[p] \o (txpkt'[n].data \o txbuf'[n])
                = (taken[p] \o txpkt'[n].data) \o txbuf'[n]
          BY <4>4, <4>6, Associative, ZenonT(40)
        <4> QED
          BY <4>3, <4>5, <4>6, <4>7
      <3> QED
        BY <2>2, <3>2, <3>3
    <2> QED
      BY <2>3, <2>4
  <1>4. CASE ReceiveData(n)
    <2>1. /\ rxseq[n] # txpkt[p].cseq
          /\ rxseq' = [rxseq EXCEPT ![n] = txpkt[p].cseq]
          /\ taken' = [taken EXCEPT ![n] = taken[n] \o txpkt[p].data]
          /\ UNCHANGED <<txpkt, txbuf, accepted>>
      BY <1>4, NextReceived DEF ReceiveData
    <2>2. /\ rxseq'[n] = txpkt[p].cseq /\ rxseq'[p] = rxseq[p]
          /\ taken'[n] = taken[n] \o txpkt[p].data /\ taken'[p] = taken[p]
      BY <1>0, <2>1 DEF TypeOK
    <2>3. InAir(n)' = InAir(n) /\ InAir(p)' = <<>> /\ InAir(p) = txpkt[p].data
      BY <1>0, <2>1, <2>2 DEF InAir
    <2>4. taken'[n] \in Seq(Byte) /\ taken'[n] \o <<>> = taken'[n]
      BY <1>0, <1>1, <2>2, ConcatProperties, ConcatEmptySeq
    <2>5. accepted'[p] = taken'[n] \o InAir(p)' \o txbuf'[p]
      <3>1. accepted'[p] = accepted[p] /\ txbuf'[p] = txbuf[p]
        BY <2>1
      <3>2. accepted[p] = (taken[n] \o txpkt[p].data) \o txbuf[p]
        BY <1>0, <2>3
      <3> QED
        BY <2>2, <2>3, <2>4, <3>1, <3>2, Zenon
    <2>6. accepted'[n] = taken'[p] \o InAir(n)' \o txbuf'[n]
      BY <1>0, <2>1, <2>2, <2>3
    <2> QED
      BY <2>5, <2>6
  <1>5. CASE /\ UNCHANGED <<txbuf, rxseq, accepted, taken>>
             /\ \A m \in Node : /\ txpkt'[m].cseq = txpkt[m].cseq
                               /\ txpkt'[m].data = txpkt[m].data
    BY <1>0, <1>5 DEF InAir
  <1>6. CASE ReceiveAck(n)
    <2>1. txpkt' = txpkt \/ txpkt' = [txpkt EXCEPT ![n].timeout = 0]
      BY <1>6 DEF ReceiveAck
    <2>2. txpkt \in [Node -> InTheAir] /\ 0 \in 0 .. ResendAfter
      BY <1>0, ConstantAssumption DEF TypeOK, InTheAir
    <2>3. \A m \in Node : /\ txpkt'[m].cseq = txpkt[m].cseq
                          /\ txpkt'[m].data = txpkt[m].data
      BY <2>1, <2>2, TimeoutSet
    <2> QED
      BY <1>5, <1>6, <2>3 DEF ReceiveAck, history
  <1> QED
    BY <1>3, <1>4, <1>5, <1>6
    DEF Loop, slink_receive, HostPauses, ReceiverOn, NothingReceived,
        Reject, TurnOff, ReceiveDuplicate, GetByte, link, history

\* Exactly once and in order: every byte accepted from a host is either
\* taken over by the peer, in the packet it lacks, or in the transmit buffer.
THEOREM ExactlyOnce == Spec => []StreamIntact
  <1>1. Init => StreamIntact
    <2>1. /\ <<>> \in Seq(Byte) /\ <<>> \o <<>> = <<>>
      BY EmptySeq, ConcatEmptySeq
    <2>2. ASSUME Init, NEW n \in Node
          PROVE  accepted[n] = taken[Peer(n)] \o InAir(n) \o txbuf[n]
      <3>1. /\ accepted[n] = <<>> /\ taken[Peer(n)] = <<>> /\ txbuf[n] = <<>>
            /\ InAir(n) = <<>>
        BY <2>2, Nodes DEF Init, NoPacket, InAir
      <3> QED
        BY <2>1, <3>1
    <2> QED
      BY <2>2 DEF StreamIntact
  <1>2. IInv /\ StreamIntact /\ [Next]_vars => StreamIntact'
    <2>1. ASSUME UNCHANGED vars, StreamIntact
          PROVE  StreamIntact'
      BY <2>1 DEF vars, link, air, history, StreamIntact, InAir
    <2> QED
      BY <2>1, StreamStep DEF Next
  <1> QED
    BY <1>1, <1>2, Invariant, PTL DEF Spec

------------------------------------------------------------------------------
(* The receive buffer                                                      *)

\* What the receiving host of n has, or can still read.
Got(n) == out[n] \o rxbuf[n]

\* Handing the first byte of the receive buffer out changes neither.
LEMMA HandedOut ==
  ASSUME NEW s \in Seq(Byte), NEW t \in Seq(Byte), t # <<>>
  PROVE  /\ Append(s, Head(t)) \o Tail(t) = s \o t
         /\ Len(Append(s, Head(t))) + Len(Tail(t)) = Len(s) + Len(t)
  <1>1. /\ Head(t) \in Byte /\ Head(t) = t[1] /\ Tail(t) \in Seq(Byte)
        /\ Len(Tail(t)) = Len(t) - 1 /\ Len(t) \in Nat \ {0}
        /\ \A i \in 1 .. Len(Tail(t)) : Tail(t)[i] = t[i + 1]
    BY HeadTailProperties
  <1>2. /\ <<Head(t)>> \in Seq(Byte)
        /\ Append(s, Head(t)) = s \o <<Head(t)>>
    BY <1>1, AppendByte
  <1>3. <<Head(t)>> \o Tail(t) = t
    <2> DEFINE h == <<Head(t)>>
               u == Tail(t)
    <2>1. /\ h \in Seq(Byte) /\ Len(h) = 1 /\ h[1] = t[1]
          /\ u \in Seq(Byte) /\ Len(u) \in Nat /\ Len(t) = 1 + Len(u)
          /\ \A i \in 1 .. Len(u) : u[i] = t[i + 1]
      BY <1>1, <1>2
    <2> HIDE DEF h, u
    <2>2. /\ h \o u \in Seq(Byte) /\ Len(h \o u) = Len(t)
          /\ \A i \in 1 .. Len(h) + Len(u) :
               (h \o u)[i] = IF i <= Len(h) THEN h[i] ELSE u[i - Len(h)]
      <3>1. /\ h \o u \in Seq(Byte) /\ Len(h \o u) = Len(h) + Len(u)
            /\ \A i \in 1 .. Len(h) + Len(u) :
                 (h \o u)[i] = IF i <= Len(h) THEN h[i] ELSE u[i - Len(h)]
        BY <2>1, ConcatProperties, Zenon
      <3> QED
        BY <2>1, <3>1
    <2>3. \A i \in 1 .. Len(t) : (h \o u)[i] = t[i]
      <3> TAKE i \in 1 .. Len(t)
      <3>1. CASE i = 1
        BY <2>1, <2>2, <3>1
      <3>2. CASE i # 1
        <4>1. /\ i - 1 \in 1 .. Len(u) /\ i \in 1 .. Len(h) + Len(u)
              /\ ~(i <= Len(h)) /\ i - Len(h) = i - 1 /\ (i - 1) + 1 = i
          BY <2>1, <3>2
        <4>2. (h \o u)[i] = u[i - 1]
          BY <2>2, <4>1
        <4>3. u[i - 1] = t[(i - 1) + 1]
          BY <2>1, <4>1
        <4> QED
          BY <4>1, <4>2, <4>3
      <3> QED
        BY <3>1, <3>2
    <2> QED
      BY <2>2, <2>3, SeqEqual DEF h, u
  <1>4. (s \o <<Head(t)>>) \o Tail(t) = s \o (<<Head(t)>> \o Tail(t))
    BY <1>1, <1>2, Associative, Zenon
  <1>5. Append(s, Head(t)) \o Tail(t) = s \o t
    BY <1>2, <1>3, <1>4
  <1>6. Len(Append(s, Head(t))) = Len(s) + 1 /\ Len(s) \in Nat
    BY <1>1, AppendProperties
  <1> QED
    BY <1>1, <1>5, <1>6

\* A packet taken over: what fits follows what the host has.
LEMMA GotGrows ==
  ASSUME TypeOK, NEW n \in Node, ReceiveData(n)
  PROVE  /\ out' = out
         /\ rxbuf'[n] = rxbuf[n] \o Fitting(n, First(n).data)
         /\ Got(n)' = Got(n) \o Fitting(n, First(n).data)
         /\ Len(rxbuf'[n]) = Len(rxbuf[n]) + Len(Fitting(n, First(n).data))
         /\ taken'[n] = taken[n] \o First(n).data
         /\ dropped'[n] = dropped[n]
                           + (Len(First(n).data) - Len(Fitting(n, First(n).data)))
         /\ rxbuf'[Peer(n)] = rxbuf[Peer(n)]
         /\ taken'[Peer(n)] = taken[Peer(n)]
         /\ dropped'[Peer(n)] = dropped[Peer(n)]
         /\ First(n).data \in Seq(Byte) /\ First(n).data # <<>>
  <1> DEFINE d == First(n).data
             f == Fitting(n, d)
  <1>1. First(n) \in Packet /\ ~IsAck(First(n))
    BY FirstPacket DEF ReceiveData
  <1>2. d \in Seq(Byte) /\ d # <<>>
    BY <1>1 DEF Packet, IsAck
  <1>3. f \in Seq(Byte)
    BY <1>2, FittingProperties
  <1>4. /\ rxbuf' = [rxbuf EXCEPT ![n] = rxbuf[n] \o f]
        /\ taken' = [taken EXCEPT ![n] = taken[n] \o d]
        /\ dropped' = [dropped EXCEPT ![n] = dropped[n] + (Len(d) - Len(f))]
        /\ out' = out
    BY DEF ReceiveData
  <1> HIDE DEF f, d
  <1>5. /\ rxbuf'[n] = rxbuf[n] \o f /\ rxbuf'[Peer(n)] = rxbuf[Peer(n)]
        /\ taken'[n] = taken[n] \o d /\ taken'[Peer(n)] = taken[Peer(n)]
        /\ dropped'[n] = dropped[n] + (Len(d) - Len(f))
        /\ dropped'[Peer(n)] = dropped[Peer(n)]
    BY <1>4, Nodes DEF TypeOK
  <1>6. /\ out[n] \in Seq(Byte) /\ rxbuf[n] \in Seq(Byte)
    BY DEF TypeOK
  <1>7. (out[n] \o rxbuf[n]) \o f = out[n] \o (rxbuf[n] \o f)
    BY <1>3, <1>6, Associative, Zenon
  <1>8. Len(rxbuf'[n]) = Len(rxbuf[n]) + Len(f)
    BY <1>3, <1>5, <1>6, ConcatProperties
  <1> QED
    BY <1>2, <1>4, <1>5, <1>7, <1>8 DEF Got, d, f

\* The other steps leave what the host has alone.
LEMMA GotStays ==
  ASSUME IInv, NEW n \in Node, Loop(n)
  PROVE  \/ ReceiveData(n)
         \/ /\ UNCHANGED <<taken, dropped>>
            /\ \A m \in Node : /\ Got(m)' = Got(m)
                              /\ Len(out'[m]) + Len(rxbuf'[m])
                                   = Len(out[m]) + Len(rxbuf[m])
  <1>1. TypeOK
    BY DEF IInv
  <1>2. CASE PutByte(n) \/ FlushOnPoll(n)
    BY <1>1, <1>2, SendStep DEF Got
  <1>3. CASE GetByte(n)
    <2>1. /\ out[n] \in Seq(Byte) /\ rxbuf[n] \in Seq(Byte) /\ rxbuf[n] # <<>>
      BY <1>1, <1>3 DEF GetByte, IInv, TypeOK
    <2>2. /\ out'[n] = Append(out[n], Head(rxbuf[n])) /\ rxbuf'[n] = Tail(rxbuf[n])
          /\ out'[Peer(n)] = out[Peer(n)] /\ rxbuf'[Peer(n)] = rxbuf[Peer(n)]
          /\ UNCHANGED <<taken, dropped>>
      BY <1>1, <1>3, Nodes DEF GetByte, TypeOK
    <2>3. /\ Append(out[n], Head(rxbuf[n])) \o Tail(rxbuf[n]) = out[n] \o rxbuf[n]
          /\ Len(Append(out[n], Head(rxbuf[n]))) + Len(Tail(rxbuf[n]))
               = Len(out[n]) + Len(rxbuf[n])
      BY <2>1, HandedOut
    <2>4. \A m \in {n, Peer(n)} : /\ Got(m)' = Got(m)
                                 /\ Len(out'[m]) + Len(rxbuf'[m])
                                      = Len(out[m]) + Len(rxbuf[m])
      BY <2>2, <2>3 DEF Got
    <2> QED
      BY <2>2, <2>4, Nodes
  <1>4. CASE UNCHANGED <<out, rxbuf, taken, dropped>>
    BY <1>4 DEF Got
  <1> QED
    BY <1>2, <1>3, <1>4
    DEF Loop, slink_receive, HostPauses, ReceiverOn, NothingReceived, ReceiveAck,
        Reject, TurnOff, ReceiveDuplicate, link, history

\* The only loss after an acknowledgement is overflow of the receive buffer,
\* byte for byte.
THEOREM OnlyOverflowLoses == Spec => []LossIsOverflow
  <1>1. Init => LossIsOverflow
    BY EmptySeq, ConcatEmptySeq DEF Init, LossIsOverflow
  <1>2. ASSUME IInv, LossIsOverflow, NEW n \in Node, Loop(n)
        PROVE  LossIsOverflow'
    <2>1. CASE ReceiveData(n)
      <3> DEFINE d == First(n).data
                 f == Fitting(n, d)
      <3>1. TypeOK
        BY <1>2 DEF IInv
      <3>2. /\ out' = out /\ Got(n)' = Got(n) \o f
            /\ Len(rxbuf'[n]) = Len(rxbuf[n]) + Len(f)
            /\ taken'[n] = taken[n] \o d
            /\ dropped'[n] = dropped[n] + (Len(d) - Len(f))
            /\ rxbuf'[Peer(n)] = rxbuf[Peer(n)]
            /\ taken'[Peer(n)] = taken[Peer(n)]
            /\ dropped'[Peer(n)] = dropped[Peer(n)]
            /\ d \in Seq(Byte)
        BY <2>1, <3>1, GotGrows
      <3>3. Len(f) \in 0 .. Len(d) /\ (Len(f) = Len(d) => f = d)
        BY <3>1, <3>2, FittingProperties
      <3> HIDE DEF d, f
      <3>4. /\ Len(out[n]) \in Nat /\ Len(rxbuf[n]) \in Nat /\ dropped[n] \in Nat
            /\ Len(d) \in Nat /\ taken[n] \in Seq(Byte)
            /\ Len(taken[n] \o d) = Len(taken[n]) + Len(d)
        <4>1. /\ out[n] \in Seq(Byte) /\ rxbuf[n] \in Seq(Byte)
              /\ taken[n] \in Seq(Byte) /\ dropped[n] \in Nat
          BY <3>1 DEF TypeOK
        <4> QED
          BY <3>2, <4>1, ConcatProperties
      <3>5. /\ Len(out[n]) + Len(rxbuf[n]) + dropped[n] = Len(taken[n])
            /\ dropped[n] = 0 => Got(n) = taken[n]
        BY <1>2 DEF LossIsOverflow, Got
      <3>6. /\ Len(out'[n]) + Len(rxbuf'[n]) + dropped'[n] = Len(taken'[n])
            /\ dropped'[n] = 0 => Got(n)' = taken'[n]
        <4>1. dropped'[n] = 0 => dropped[n] = 0 /\ Len(f) = Len(d)
          BY <3>2, <3>3, <3>4
        <4>2. Len(out'[n]) + Len(rxbuf'[n]) + dropped'[n] = Len(taken'[n])
          <5>1. /\ Len(taken'[n]) = Len(taken[n]) + Len(d)
                /\ Len(f) \in Nat /\ Len(taken[n]) \in Nat
            BY <3>2, <3>3, <3>4
          <5>2. Len(out'[n]) = Len(out[n])
            BY <3>2
          <5> DEFINE o == Len(out[n])
                     r == Len(rxbuf[n])
                     t == Len(taken[n])
                     w == Len(d)
                     v == Len(f)
                     x == dropped[n]
          <5>3. /\ o \in Nat /\ r \in Nat /\ t \in Nat /\ w \in Nat /\ v \in Nat
                /\ x \in Nat /\ o + r + x = t
            BY <3>4, <3>5, <5>1
          <5>4. /\ Len(out'[n]) = o /\ Len(rxbuf'[n]) = r + v
                /\ dropped'[n] = x + (w - v) /\ Len(taken'[n]) = t + w
            BY <3>2, <5>1, <5>2
          <5> HIDE DEF o, r, t, w, v, x
          <5> QED
            BY <5>3, <5>4
        <4> QED
          BY <3>2, <3>3, <3>5, <4>1, <4>2
      <3>7. LET m == Peer(n)
            IN  /\ Len(out'[m]) + Len(rxbuf'[m]) + dropped'[m] = Len(taken'[m])
                /\ dropped'[m] = 0 => out'[m] \o rxbuf'[m] = taken'[m]
        BY <1>2, <3>2, Nodes DEF LossIsOverflow
      <3>8. /\ Len(out'[n]) + Len(rxbuf'[n]) + dropped'[n] = Len(taken'[n])
            /\ dropped'[n] = 0 => out'[n] \o rxbuf'[n] = taken'[n]
        BY <3>6 DEF Got
      <3> QED
        BY <3>7, <3>8, Nodes DEF LossIsOverflow
    <2>2. CASE /\ UNCHANGED <<taken, dropped>>
               /\ \A m \in Node : /\ Got(m)' = Got(m)
                                 /\ Len(out'[m]) + Len(rxbuf'[m])
                                      = Len(out[m]) + Len(rxbuf[m])
      BY <1>2, <2>2 DEF LossIsOverflow, Got
    <2> QED
      BY <1>2, <2>1, <2>2, GotStays
  <1>3. LossIsOverflow /\ UNCHANGED vars => LossIsOverflow'
    BY DEF vars, link, air, history, LossIsOverflow
  <1>4. IInv /\ LossIsOverflow /\ [Next]_vars => LossIsOverflow'
    BY <1>2, <1>3 DEF Next
  <1> QED
    BY <1>1, <1>4, Invariant, PTL DEF Spec

------------------------------------------------------------------------------
(* Each direction is a byte stream                                         *)

\* A batch taken over in one go is the next part of what was sent.
LEMMA NextBatch ==
  ASSUME NEW t \in Seq(Byte), NEW d \in Seq(Byte), NEW b \in Seq(Byte),
         NEW s, s = (t \o d) \o b, NEW j \in 0 .. Len(d)
  PROVE  /\ Len(t) + Len(d) <= Len(s)
         /\ SubSeq(s, 1, Len(t) + Len(d)) = t \o d
         /\ SubSeq(s, Len(t) + 1, Len(t) + j) = SubSeq(d, 1, j)
  <1> DEFINE u == t \o d
  <1>1. /\ Len(t) \in Nat /\ Len(d) \in Nat /\ Len(b) \in Nat
        /\ \A i \in 1 .. Len(d) : d[i] \in Byte
    OBVIOUS
  <1>2. /\ u \in Seq(Byte) /\ Len(u) = Len(t) + Len(d)
        /\ \A i \in 1 .. Len(t) + Len(d) :
             u[i] = IF i <= Len(t) THEN t[i] ELSE d[i - Len(t)]
    BY ConcatProperties, Zenon
  <1> HIDE DEF u
  <1>3. /\ s \in Seq(Byte) /\ Len(s) = Len(u) + Len(b)
        /\ \A i \in 1 .. Len(u) + Len(b) :
             s[i] = IF i <= Len(u) THEN u[i] ELSE b[i - Len(u)]
    <2>1. s = u \o b
      BY DEF u
    <2>2. /\ u \o b \in Seq(Byte) /\ Len(u \o b) = Len(u) + Len(b)
          /\ \A i \in 1 .. Len(u) + Len(b) :
               (u \o b)[i] = IF i <= Len(u) THEN u[i] ELSE b[i - Len(u)]
      <3>1. u \in Seq(Byte)
        BY <1>2
      <3> QED
        BY <3>1, ConcatProperties, Zenon
    <2> QED
      BY <2>1, <2>2
  <1>4. \A i \in 1 .. Len(s) : s[i] \in Byte
    BY <1>3
  <1>5. SubSeq(s, 1, Len(u)) = u
    <2>1. \A i \in 1 .. Len(u) : s[i] \in Byte
      BY <1>1, <1>2, <1>3, <1>4
    <2> DEFINE v == SubSeq(s, 1, Len(u))
    <2>2. /\ v \in Seq(Byte)
          /\ Len(v) = IF 1 <= Len(u) THEN Len(u) - 1 + 1 ELSE 0
          /\ \A i \in 1 .. Len(u) - 1 + 1 : v[i] = s[1 + i - 1]
      BY <1>1, <1>2, <2>1, SubSeqProperties
    <2> HIDE DEF v
    <2>3. Len(v) = Len(u) /\ \A i \in 1 .. Len(u) : v[i] = u[i]
      BY <1>1, <1>2, <1>3, <2>2
    <2>4. v = u
      BY <1>2, <2>2, <2>3, SeqEqual
    <2> QED
      BY <2>4 DEF v
  <1>6. SubSeq(s, Len(t) + 1, Len(t) + j) = SubSeq(d, 1, j)
    <2> DEFINE v == SubSeq(s, Len(t) + 1, Len(t) + j)
               w == SubSeq(d, 1, j)
    <2>1. \A i \in Len(t) + 1 .. Len(t) + j : s[i] \in Byte
      BY <1>1, <1>2, <1>3, <1>4
    <2>2. /\ v \in Seq(Byte)
          /\ Len(v) = IF Len(t) + 1 <= Len(t) + j
                      THEN (Len(t) + j) - (Len(t) + 1) + 1 ELSE 0
          /\ \A i \in 1 .. (Len(t) + j) - (Len(t) + 1) + 1 :
               v[i] = s[Len(t) + 1 + i - 1]
      BY <1>1, <2>1, SubSeqProperties, SMTT(45)
    <2>3. /\ w \in Seq(Byte)
          /\ Len(w) = IF 1 <= j THEN j - 1 + 1 ELSE 0
          /\ \A i \in 1 .. j - 1 + 1 : w[i] = d[1 + i - 1]
      BY <1>1, SubSeqProperties
    <2> HIDE DEF v, w
    <2>4. Len(v) = j /\ Len(w) = j /\ j \in Nat
      BY <1>1, <2>2, <2>3
    <2>5. \A i \in 1 .. j : v[i] = w[i]
      <3> TAKE i \in 1 .. j
      <3>0. /\ (Len(t) + j) - (Len(t) + 1) + 1 = j
            /\ Len(t) + 1 + i - 1 = Len(t) + i
        BY <1>1
      <3>1. v[i] = s[Len(t) + i]
        BY <2>2, <3>0
      <3>2. w[i] = d[i]
        BY <1>1, <2>3
      <3>3. /\ Len(t) + i \in 1 .. Len(u) + Len(b) /\ Len(t) + i <= Len(u)
            /\ Len(t) + i \in 1 .. Len(t) + Len(d)
            /\ ~(Len(t) + i <= Len(t)) /\ (Len(t) + i) - Len(t) = i
        BY <1>1, <1>2
      <3>4. s[Len(t) + i] = u[Len(t) + i]
        BY <1>3, <3>3
      <3>5. u[Len(t) + i] = d[i]
        BY <1>2, <3>3
      <3> QED
        BY <3>1, <3>2, <3>4, <3>5
    <2>6. v = w
      BY <2>2, <2>3, <2>4, <2>5, SeqEqual
    <2> QED
      BY <2>6 DEF v, w
  <1> QED
    BY <1>1, <1>2, <1>3, <1>5, <1>6, SMTT(45) DEF u

\* One step of the stream from s, as ByteStream!Next has it.
StreamSend(s) ==
  \E c \in Byte : /\ accepted'[s] = Append(accepted[s], c)
                  /\ taken'[Peer(s)] = taken[Peer(s)]
                  /\ Got(Peer(s))' = Got(Peer(s))

StreamDeliver(s, k, j) ==
  LET r == Peer(s)
  IN  /\ Len(taken[r]) + k <= Len(accepted[s])
      /\ taken'[r] = SubSeq(accepted[s], 1, Len(taken[r]) + k)
      /\ Got(r)' = Got(r) \o SubSeq(accepted[s], Len(taken[r]) + 1, Len(taken[r]) + j)
      /\ accepted'[s] = accepted[s]

StreamStays(s) ==
  /\ accepted'[s] = accepted[s]
  /\ taken'[Peer(s)] = taken[Peer(s)]
  /\ Got(Peer(s))' = Got(Peer(s))

StreamNext(s) ==
  \/ StreamSend(s)
  \/ \E k \in 1 .. Len(accepted[s]) - Len(taken[Peer(s)]) :
       \E j \in 0 .. k : StreamDeliver(s, k, j)
  \/ StreamStays(s)

\* A step of either loop is a step, or a stutter, of both streams.
LEMMA StreamsStep ==
  ASSUME IInv, StreamIntact, NEW n \in Node, Loop(n)
  PROVE  StreamNext(n) /\ StreamNext(Peer(n))
  <1> USE Nodes
  <1> DEFINE p == Peer(n)
  <1>0. TypeOK /\ p \in Node /\ Peer(p) = n /\ p # n
    BY DEF IInv
  <1>1. CASE PutByte(n) \/ FlushOnPoll(n)
    <2>1. UNCHANGED <<rxbuf, taken, out>>
      BY <1>0, <1>1, SendStep
    <2>2. \A m \in Node : Got(m)' = Got(m)
      BY <2>1 DEF Got
    <2>3. /\ accepted'[p] = accepted[p]
          /\ \/ accepted'[n] = accepted[n]
             \/ \E c \in Byte : accepted'[n] = Append(accepted[n], c)
      <3>1. \/ accepted' = accepted
            \/ \E c \in Byte :
                 accepted' = [accepted EXCEPT ![n] = Append(accepted[n], c)]
        BY <1>0, <1>1, SendStep
      <3>2. accepted \in [Node -> Seq(Byte)]
        BY <1>0 DEF TypeOK
      <3> QED
        BY <1>0, <3>1, <3>2
    <2>4. StreamStays(p)
      BY <1>0, <2>1, <2>2, <2>3 DEF StreamStays
    <2>5. StreamSend(n) \/ StreamStays(n)
      BY <1>0, <2>1, <2>2, <2>3 DEF StreamSend, StreamStays
    <2> QED
      BY <2>4, <2>5 DEF StreamNext
  <1>2. CASE ReceiveData(n)
    <2> DEFINE d == First(n).data
               k == Len(d)
               j == Len(Fitting(n, d))
    <2>1. /\ rxbuf'[p] = rxbuf[p] /\ out' = out /\ taken'[p] = taken[p]
          /\ taken'[n] = taken[n] \o d /\ d \in Seq(Byte) /\ d # <<>>
          /\ Got(n)' = Got(n) \o Fitting(n, d)
      BY <1>0, <1>2, GotGrows
    <2>2. accepted' = accepted
      BY <1>2 DEF ReceiveData
    <2>3. StreamNext(n)
      <3>1. Got(p)' = Got(p)
        BY <2>1 DEF Got
      <3> QED
        BY <1>0, <2>1, <2>2, <3>1 DEF StreamNext, StreamStays
    <2>4. Fitting(n, d) = SubSeq(d, 1, j) /\ j \in 0 .. k
      BY <1>0, <2>1, FittingProperties
    <2>5. InAir(p) = d
      BY <1>0, <1>2, NextReceived DEF InAir
    <2>6. accepted[p] = (taken[n] \o d) \o txbuf[p]
      BY <1>0, <2>5 DEF StreamIntact
    <2>7. /\ taken[n] \in Seq(Byte) /\ txbuf[p] \in Seq(Byte)
          /\ accepted[p] \in Seq(Byte)
      BY <1>0 DEF TypeOK
    <2> HIDE DEF d
    <2>8. /\ Len(taken[n]) + k <= Len(accepted[p])
          /\ SubSeq(accepted[p], 1, Len(taken[n]) + k) = taken[n] \o d
          /\ SubSeq(accepted[p], Len(taken[n]) + 1, Len(taken[n]) + j) = SubSeq(d, 1, j)
      <3> DEFINE t == taken[n]
                 b == txbuf[p]
                 s == accepted[p]
      <3>1. t \in Seq(Byte) /\ b \in Seq(Byte) /\ s = (t \o d) \o b
        BY <2>6, <2>7
      <3>2. d \in Seq(Byte) /\ j \in 0 .. Len(d)
        BY <2>1, <2>4
      <3> HIDE DEF t, b, s, j
      <3>3. /\ Len(t) + Len(d) <= Len(s)
            /\ SubSeq(s, 1, Len(t) + Len(d)) = t \o d
            /\ SubSeq(s, Len(t) + 1, Len(t) + j) = SubSeq(d, 1, j)
        BY SMTT(20), <3>1, <3>2, NextBatch
      <3> QED
        BY <3>3 DEF t, s
    <2>9. k \in 1 .. Len(accepted[p]) - Len(taken[n])
      BY <2>1, <2>7, <2>8
    <2>10. Got(n)' = Got(n) \o SubSeq(d, 1, j)
      BY <2>1, <2>4
    <2> HIDE DEF k, j
    <2>11. StreamDeliver(p, k, j)
      BY <1>0, <2>1, <2>2, <2>8, <2>10 DEF StreamDeliver
    <2>12. StreamNext(p)
      BY <1>0, <2>4, <2>9, <2>11 DEF StreamNext
    <2> QED
      BY <2>3, <2>12
  <1>3. CASE /\ UNCHANGED <<accepted, taken>>
             /\ \A m \in Node : Got(m)' = Got(m)
    BY <1>0, <1>3 DEF StreamNext, StreamStays
  <1>4. CASE UNCHANGED accepted
    BY <1>0, <1>2, <1>3, <1>4, GotStays
  <1> QED
    BY <1>1, <1>2, <1>4
    DEF Loop, slink_receive, HostPauses, ReceiverOn, NothingReceived, ReceiveAck,
        Reject, TurnOff, ReceiveDuplicate, GetByte, history

\* What node 1 receives from node 0 is a byte stream.
THEOREM StreamTo1 == Spec => StreamFrom0
  <1>1. Init => From0!Init
    BY EmptySeq, ConcatEmptySeq DEF Init, From0!Init, Node
  <1>2. IInv /\ StreamIntact /\ [Next]_vars => [From0!Next]_From0!vars
    <2>1. ASSUME IInv, StreamIntact, NEW n \in Node, Loop(n)
          PROVE  [From0!Next]_From0!vars
      <3>1. StreamNext(0)
        BY <2>1, StreamsStep, Nodes DEF Node
      <3>2. Peer(0) = 1
        BY DEF Peer
      <3>3. CASE StreamSend(0)
        BY <3>2, <3>3 DEF StreamSend, Got, From0!Next, From0!Send
      <3>4. CASE StreamStays(0)
        BY <3>2, <3>4 DEF StreamStays, Got, From0!vars
      <3>5. ASSUME NEW k \in 1 .. Len(accepted[0]) - Len(taken[1]),
                   NEW j \in 0 .. k, StreamDeliver(0, k, j)
            PROVE  From0!Next
        <4>1. From0!Deliver(k, j)
          BY <3>2, <3>5 DEF StreamDeliver, Got, From0!Deliver
        <4> QED
          BY <4>1 DEF From0!Next
      <3> QED
        BY <3>1, <3>2, <3>3, <3>4, <3>5 DEF StreamNext
    <2>2. ASSUME UNCHANGED vars
          PROVE  [From0!Next]_From0!vars
      BY <2>2 DEF vars, link, air, history, From0!vars
    <2> QED
      BY <2>1, <2>2 DEF Next
  <1> QED
    BY <1>1, <1>2, Invariant, ExactlyOnce, PTL DEF Spec, StreamFrom0, From0!Spec

\* And so is what node 0 receives from node 1.
THEOREM StreamTo0 == Spec => StreamFrom1
  <1>1. Init => From1!Init
    BY EmptySeq, ConcatEmptySeq DEF Init, From1!Init, Node
  <1>2. IInv /\ StreamIntact /\ [Next]_vars => [From1!Next]_From1!vars
    <2>1. ASSUME IInv, StreamIntact, NEW n \in Node, Loop(n)
          PROVE  [From1!Next]_From1!vars
      <3>1. StreamNext(1)
        BY <2>1, StreamsStep, Nodes DEF Node
      <3>2. Peer(1) = 0
        BY DEF Peer
      <3>3. CASE StreamSend(1)
        BY <3>2, <3>3 DEF StreamSend, Got, From1!Next, From1!Send
      <3>4. CASE StreamStays(1)
        BY <3>2, <3>4 DEF StreamStays, Got, From1!vars
      <3>5. ASSUME NEW k \in 1 .. Len(accepted[1]) - Len(taken[0]),
                   NEW j \in 0 .. k, StreamDeliver(1, k, j)
            PROVE  From1!Next
        <4>1. From1!Deliver(k, j)
          BY <3>2, <3>5 DEF StreamDeliver, Got, From1!Deliver
        <4> QED
          BY <4>1 DEF From1!Next
      <3> QED
        BY <3>1, <3>2, <3>3, <3>4, <3>5 DEF StreamNext
    <2>2. ASSUME UNCHANGED vars
          PROVE  [From1!Next]_From1!vars
      BY <2>2 DEF vars, link, air, history, From1!vars
    <2> QED
      BY <2>1, <2>2 DEF Next
  <1> QED
    BY <1>1, <1>2, Invariant, ExactlyOnce, PTL DEF Spec, StreamFrom1, From1!Spec

\* Both directions at once, for every input and every size of the buffers.
THEOREM Streams == Spec => ByteStreams
  BY StreamTo1, StreamTo0 DEF ByteStreams

------------------------------------------------------------------------------
(* Restarts of either end (SerialLinkRestart)                              *)


\* The packets of the FIFO f.
Packets(f) == {f[i] : i \in 1 .. Len(f)}

\* n has sent nothing since it started.
NoneSent(n) == txpkt[n].data = <<>>

\* Data packets on their way from n are copies of the one in txpkt[n].
Copies(n) ==
  \A q \in Packets(fifo[Peer(n)]) :
    ~IsAck(q) => q.seq = txpkt[n].cseq /\ q.data = txpkt[n].data

\* The packet of txpkt[n] was taken over, in whatever life of either end.
TakenOver(n) == Bytes(txpkt[n].data) \subseteq Bytes(taken[Peer(n)])

\* The number of the next packet follows that of the last; an end that has
\* sent nothing waits for nothing.
Numbers(n) ==
  /\ txseq[n] = SuccSeq(txpkt[n].cseq)
  /\ NoneSent(n) => txpkt[n].cseq = 0 /\ txpkt[n].timeout = 0

\* An acknowledgement on its way to n that n would believe was sent after the
\* peer had read its FIFO: what waits there now is a copy of n's last packet,
\* and the peer has the number of the acknowledgement or has started over.
Answered(n) ==
  \A a \in Packets(fifo[n]) : IsAck(a) =>
    /\ NoneSent(n) => rxseq[Peer(n)] \in {a.seq, 0} /\ Copies(n)
    /\ ~NoneSent(n) /\ a.seq = txpkt[n].cseq =>
         rxseq[Peer(n)] \in {a.seq, 0} /\ Copies(n)

\* So it is while n has its acknowledgement and does not send.
Idle(n) ==
  txpkt[n].timeout = 0 /\ ~NoneSent(n) =>
    /\ rxseq[Peer(n)] \in {txpkt[n].cseq, 0}
    /\ Copies(n)
    /\ \A a \in Packets(fifo[n]) : IsAck(a) => a.seq = txpkt[n].cseq

\* After the first packets of a life a number means what it says.
Later(n) ==
  txpkt[n].cseq \notin {0, 1} =>
    /\ txpkt[n].timeout = 0 => TakenOver(n)
    /\ rxseq[Peer(n)] = txpkt[n].cseq => TakenOver(n)
    /\ \A a \in Packets(fifo[n]) : IsAck(a) /\ a.seq = txpkt[n].cseq => TakenOver(n)
    /\ \A q \in Packets(fifo[Peer(n)]) :
         ~IsAck(q) /\ q.seq = txpkt[n].cseq => q.data = txpkt[n].data

Sane ==
  /\ TypeOK
  /\ restarts \in [Node -> Nat]
  /\ \A n \in Node : pc[n] = "get" => rxbuf[n] # <<>>

RIInv == Sane /\ \A n \in Node : Numbers(n) /\ Answered(n) /\ Idle(n) /\ Later(n)

------------------------------------------------------------------------------
(* What a step of one end changes                                          *)

LEMMA PacketsAppended ==
  ASSUME NEW f \in Seq(Packet), NEW q \in Packet
  PROVE  Packets(Append(f, q)) = Packets(f) \cup {q}
<1>1. /\ Append(f, q) \in Seq(Packet) /\ Len(Append(f, q)) = Len(f) + 1 /\ Len(f) \in Nat
      /\ Append(f, q)[Len(f) + 1] = q
      /\ \A i \in 1 .. Len(f) : Append(f, q)[i] = f[i]
  BY AppendProperties
<1>2. 1 .. Len(f) + 1 = (1 .. Len(f)) \cup {Len(f) + 1}
  BY <1>1
<1> QED
  BY <1>1, <1>2 DEF Packets

LEMMA PacketsNone == Packets(<<>>) = {}
  BY DEF Packets

LEMMA PacketsType == ASSUME NEW f \in Seq(Packet) PROVE Packets(f) \subseteq Packet
  BY DEF Packets

LEMMA BytesOfConcat ==
  ASSUME NEW s \in Seq(Byte), NEW t \in Seq(Byte)
  PROVE  Bytes(s \o t) = Bytes(s) \cup Bytes(t)
<1>1. /\ Len(s \o t) = Len(s) + Len(t) /\ Len(s) \in Nat /\ Len(t) \in Nat
      /\ \A i \in 1 .. Len(s) + Len(t) :
           (s \o t)[i] = IF i <= Len(s) THEN s[i] ELSE t[i - Len(s)]
  BY ConcatProperties
<1>2. \A i \in 1 .. Len(s) : i \in 1 .. Len(s) + Len(t) /\ (s \o t)[i] = s[i]
  BY <1>1
<1>3. \A i \in 1 .. Len(t) :
        i + Len(s) \in 1 .. Len(s) + Len(t) /\ (s \o t)[i + Len(s)] = t[i]
  BY <1>1
<1>4. \A i \in 1 .. Len(s) + Len(t) :
        i \in 1 .. Len(s) \/ (i - Len(s) \in 1 .. Len(t) /\ i = (i - Len(s)) + Len(s))
  BY <1>1
<1>5. Bytes(s \o t) \subseteq Bytes(s) \cup Bytes(t)
  BY <1>1, <1>4 DEF Bytes
<1>6. Bytes(s) \subseteq Bytes(s \o t) /\ Bytes(t) \subseteq Bytes(s \o t)
  BY SMTT(20), <1>1, <1>2, <1>3 DEF Bytes
<1> QED
  BY <1>5, <1>6

\* What n puts into its transmit buffer is there, or comes from the host.
FromHost(n, buf) ==
  \/ buf = txbuf[n] /\ host'[n] = host[n]
  \/ /\ host[n] # <<>>
     /\ host'[n] = Tail(host[n])
     /\ buf \in {txbuf[n], Append(txbuf[n], Head(host[n]))}

Sends(n) ==
  /\ UNCHANGED <<rxseq, taken>>
  /\ txseq'[Peer(n)] = txseq[Peer(n)] /\ txpkt'[Peer(n)] = txpkt[Peer(n)]
  /\ txbuf'[Peer(n)] = txbuf[Peer(n)] /\ host'[Peer(n)] = host[Peer(n)]
  /\ fifo'[n] = fifo[n]
  /\ \/ fifo'[Peer(n)] = fifo[Peer(n)]
     \/ \E q \in Packet :
          /\ q.seq = txpkt'[n].cseq /\ q.data = txpkt'[n].data /\ txpkt'[n].timeout # 0
          /\ Packets(fifo'[Peer(n)]) = Packets(fifo[Peer(n)]) \cup {q}
  /\ \E buf \in Seq(Byte) :
       FromHost(n, buf) /\ (KeepsPacket(n, buf) \/ NewPacket(n, buf))

HearsAck(n) ==
  /\ UNCHANGED <<rxseq, taken, txseq, txbuf, host>>
  /\ txpkt'[Peer(n)] = txpkt[Peer(n)]
  /\ txpkt'[n].cseq = txpkt[n].cseq /\ txpkt'[n].data = txpkt[n].data
  /\ Packets(fifo'[n]) = {} /\ fifo'[Peer(n)] = fifo[Peer(n)]
  /\ \E a \in Packets(fifo[n]) :
       /\ IsAck(a)
       /\ \/ a.seq = txpkt[n].cseq /\ txpkt'[n].timeout = 0
          \/ a.seq # txpkt[n].cseq /\ txpkt'[n].timeout = txpkt[n].timeout

Answers(n) ==
  /\ UNCHANGED <<txseq, txpkt, txbuf, host>>
  /\ rxseq'[Peer(n)] = rxseq[Peer(n)] /\ taken'[Peer(n)] = taken[Peer(n)]
  /\ Packets(fifo'[n]) = {}
  /\ \E p \in Packets(fifo[n]) :
       /\ ~IsAck(p)
       /\ rxseq'[n] = p.seq
       /\ \/ p.seq = rxseq[n] /\ taken'[n] = taken[n]
          \/ /\ p.seq # rxseq[n] /\ taken'[n] = taken[n] \o p.data
             /\ p.seq = SuccSeq(rxseq[n])
       /\ \/ fifo'[Peer(n)] = fifo[Peer(n)]
          \/ \E q \in Packet :
               /\ q.seq = p.seq /\ q.data = <<>>
               /\ Packets(fifo'[Peer(n)]) = Packets(fifo[Peer(n)]) \cup {q}

Rests(n) ==
  /\ UNCHANGED <<rxseq, taken, txseq, txpkt, txbuf, host>>
  /\ Packets(fifo'[n]) \in {{}, Packets(fifo[n])}
  /\ fifo'[Peer(n)] = fifo[Peer(n)]

LEMMA SendsEffect ==
  ASSUME TypeOK, NEW n \in Node, PutByte(n) \/ FlushOnPoll(n)
  PROVE  Sends(n)
<1> USE Nodes
<1> DEFINE p == Peer(n)
<1>1. /\ UNCHANGED <<rxseq, rxbuf, taken, out, dropped>>
      /\ txseq'[p] = txseq[p] /\ txpkt'[p] = txpkt[p] /\ txbuf'[p] = txbuf[p]
      /\ fifo'[n] = fifo[n]
      /\ MaySend(n)
  BY SendStep
<1>2. /\ host[n] \in Seq(Byte) /\ txbuf[n] \in Seq(Byte) /\ accepted[n] \in Seq(Byte)
      /\ fifo[p] \in Seq(Packet)
  BY DEF TypeOK
<1>3. /\ host'[p] = host[p]
      /\ \E buf \in Seq(Byte) :
           FromHost(n, buf) /\ (KeepsPacket(n, buf) \/ NewPacket(n, buf))
  <2>1. CASE accepted' = accepted /\ (KeepsPacket(n, txbuf[n]) \/ NewPacket(n, txbuf[n]))
    <3>1. host' = host \/ (host[n] # <<>> /\ host' = [host EXCEPT ![n] = Tail(host[n])])
      BY DEF PutByte, FlushOnPoll
    <3>2. host'[p] = host[p] /\ FromHost(n, txbuf[n])
      BY <3>1 DEF TypeOK, FromHost
    <3> QED
      BY <1>2, <2>1, <3>2
  <2>2. ASSUME NEW c \in Byte, accepted' = [accepted EXCEPT ![n] = Append(accepted[n], c)],
               KeepsPacket(n, Append(txbuf[n], c)) \/ NewPacket(n, Append(txbuf[n], c))
        PROVE  /\ host'[p] = host[p]
               /\ \E buf \in Seq(Byte) :
                    FromHost(n, buf) /\ (KeepsPacket(n, buf) \/ NewPacket(n, buf))
    <3>1. accepted'[n] = Append(accepted[n], c)
      BY <2>2 DEF TypeOK
    <3>2. /\ Len(Append(accepted[n], c)) = Len(accepted[n]) + 1 /\ Len(accepted[n]) \in Nat
          /\ Append(accepted[n], c)[Len(accepted[n]) + 1] = c
      BY <1>2, AppendProperties
    <3>3. accepted'[n] # accepted[n]
      BY <3>1, <3>2
    <3>4. PutByte(n)
      BY <3>3 DEF FlushOnPoll, history
    <3>5. /\ host[n] # <<>> /\ host' = [host EXCEPT ![n] = Tail(host[n])]
          /\ accepted' = accepted \/
             accepted' = [accepted EXCEPT ![n] = Append(accepted[n], Head(host[n]))]
      BY <3>4 DEF PutByte
    <3>6. accepted'[n] = Append(accepted[n], Head(host[n])) /\ Head(host[n]) \in Byte
      <4>1. Head(host[n]) \in Byte
        BY <1>2, <3>5
      <4>2. accepted \in [Node -> Seq(Byte)]
        BY DEF TypeOK
      <4> QED
        BY <3>3, <3>5, <4>1, <4>2
    <3>7. Append(accepted[n], Head(host[n]))[Len(accepted[n]) + 1] = Head(host[n])
      BY <1>2, <3>6, AppendProperties
    <3>8. c = Head(host[n])
      BY <3>1, <3>2, <3>6, <3>7
    <3>9. host'[p] = host[p] /\ FromHost(n, Append(txbuf[n], c))
      BY <3>5, <3>8 DEF TypeOK, FromHost
    <3>10. Append(txbuf[n], c) \in Seq(Byte)
      BY <1>2, <2>2, AppendProperties
    <3> QED
      BY <2>2, <3>9, <3>10
  <2> QED
    BY <2>1, <2>2, SendStep
<1>4. \/ fifo'[p] = fifo[p]
      \/ \E q \in Packet :
           /\ q.seq = txpkt'[n].cseq /\ q.data = txpkt'[n].data /\ txpkt'[n].timeout # 0
           /\ Packets(fifo'[p]) = Packets(fifo[p]) \cup {q}
  <2>1. CASE fifo'[p] # fifo[p]
    <3>1. PICK q \in Packet : /\ q.seq = txpkt'[n].cseq /\ q.data = txpkt'[n].data
                              /\ fifo'[p] = Append(fifo[p], q)
      BY <1>1, <2>1 DEF MaySend
    <3>2. txpkt'[n].timeout # 0
      BY <1>3, <2>1 DEF KeepsPacket, NewPacket
    <3> QED
      BY <1>2, <3>1, <3>2, PacketsAppended
  <2> QED
    BY <2>1
<1> QED
  BY <1>1, <1>3, <1>4 DEF Sends

\* The packet and the buffer are made of bytes.
LEMMA SendsTypes ==
  ASSUME TypeOK', NEW n \in Node
  PROVE  txpkt'[n].data \in Seq(Byte) /\ txbuf'[n] \in Seq(Byte)
  BY DEF TypeOK

LEMMA LoopEffect ==
  ASSUME TypeOK, NEW n \in Node, Loop(n)
  PROVE  Sends(n) \/ HearsAck(n) \/ Answers(n) \/ Rests(n)
<1> USE Nodes
<1> DEFINE p == Peer(n)
<1>0. Packets(<<>>) = {} /\ fifo[p] \in Seq(Packet)
  BY PacketsNone DEF TypeOK
<1>1. CASE PutByte(n) \/ FlushOnPoll(n)
  BY <1>1, SendsEffect
<1>2. CASE Received(n)
  <2>1. First(n) \in Packets(fifo[n])
    BY <1>2, FirstPacket DEF Packets
  <2>2. Emptied(n)[n] = <<>> /\ Emptied(n)[p] = fifo[p]
    BY <1>2, FirstPacket
  <2>3. CASE ReceiveAck(n)
    <3>1. /\ UNCHANGED <<rxseq, taken, txseq, txbuf, host>>
          /\ fifo' = Emptied(n) /\ IsAck(First(n))
      BY <2>3 DEF ReceiveAck, history
    <3>2. txpkt \in [Node -> InTheAir] /\ 0 \in 0 .. ResendAfter
      BY ConstantAssumption DEF TypeOK, InTheAir
    <3>3. /\ txpkt'[p] = txpkt[p]
          /\ txpkt'[n].cseq = txpkt[n].cseq /\ txpkt'[n].data = txpkt[n].data
          /\ \/ First(n).seq = txpkt[n].cseq /\ txpkt'[n].timeout = 0
             \/ First(n).seq # txpkt[n].cseq /\ txpkt'[n].timeout = txpkt[n].timeout
      <4>1. CASE txpkt[n].cseq = First(n).seq
        <5>1. txpkt' = [txpkt EXCEPT ![n].timeout = 0]
          BY <2>3, <4>1 DEF ReceiveAck
        <5> QED
          BY <3>2, <4>1, <5>1, TimeoutSet
      <4>2. CASE txpkt[n].cseq # First(n).seq
        BY <2>3, <4>2 DEF ReceiveAck
      <4> QED
        BY <4>1, <4>2
    <3> QED
      BY <1>0, <2>1, <2>2, <3>1, <3>3 DEF HearsAck
  <2>4. CASE ReceiveDuplicate(n) \/ ReceiveData(n)
    <3>1. /\ UNCHANGED <<txseq, txpkt, txbuf, host>> /\ ~IsAck(First(n))
          /\ slink_send(n, Ack(First(n)), radio, Emptied(n), "flush")
      BY <2>4 DEF ReceiveDuplicate, ReceiveData, link
    <3>2. fifo'[n] = <<>> /\ MayAck(n, First(n).seq)
      BY <1>2, <3>1, AckSent
    <3>3. \/ fifo'[p] = fifo[p]
          \/ \E q \in Packet : /\ q.seq = First(n).seq /\ q.data = <<>>
                               /\ Packets(fifo'[p]) = Packets(fifo[p]) \cup {q}
      <4>1. CASE \E q \in Packet : /\ q.seq = First(n).seq /\ q.data = <<>>
                                   /\ fifo'[p] = Append(fifo[p], q)
        <5>1. PICK q \in Packet : /\ q.seq = First(n).seq /\ q.data = <<>>
                                 /\ fifo'[p] = Append(fifo[p], q)
          BY <4>1
        <5>2. Packets(fifo'[p]) = Packets(fifo[p]) \cup {q}
          BY <1>0, <5>1, PacketsAppended
        <5> QED
          BY <5>1, <5>2
      <4> QED
        BY <3>2, <4>1 DEF MayAck
    <3>4. /\ rxseq'[p] = rxseq[p] /\ taken'[p] = taken[p] /\ rxseq'[n] = First(n).seq
          /\ \/ First(n).seq = rxseq[n] /\ taken'[n] = taken[n]
             \/ /\ First(n).seq # rxseq[n] /\ taken'[n] = taken[n] \o First(n).data
                /\ First(n).seq = SuccSeq(rxseq[n])
      <4>1. rxseq \in [Node -> 0 .. SeqMod - 1] /\ taken \in [Node -> Seq(Byte)]
        BY DEF TypeOK
      <4>2. CASE ReceiveDuplicate(n)
        BY <4>2 DEF ReceiveDuplicate, link, history
      <4>3. CASE ReceiveData(n)
        <5>1. /\ rxseq' = [rxseq EXCEPT ![n] = First(n).seq]
              /\ taken' = [taken EXCEPT ![n] = taken[n] \o First(n).data]
              /\ First(n).seq # rxseq[n] /\ First(n).seq = SuccSeq(rxseq[n])
          BY <4>3 DEF ReceiveData
        <5> QED
          BY <4>1, <5>1
      <4> QED
        BY <2>4, <4>2, <4>3
    <3> QED
      BY <1>0, <2>1, <3>1, <3>2, <3>3, <3>4 DEF Answers
  <2>5. CASE Reject(n)
    BY <1>0, <2>2, <2>5 DEF Reject, TurnOff, link, history, Rests
  <2> QED
    BY <1>1, <1>2, <2>3, <2>4, <2>5
    DEF Loop, slink_receive, HostPauses, ReceiverOn, NothingReceived, GetByte, Received, TypeOK
<1>3. CASE HostPauses(n) \/ ReceiverOn(n) \/ NothingReceived(n) \/ GetByte(n)
  <2>1. /\ UNCHANGED <<rxseq, taken, txseq, txpkt, txbuf, host>>
        /\ fifo' = fifo \/ fifo' = [fifo EXCEPT ![n] = <<>>]
    BY <1>3 DEF HostPauses, ReceiverOn, NothingReceived, GetByte, link, air, history
  <2>2. fifo'[p] = fifo[p] /\ fifo'[n] \in {<<>>, fifo[n]}
    BY <2>1 DEF TypeOK
  <2> QED
    BY <1>0, <2>1, <2>2 DEF Rests
<1> QED
  BY <1>1, <1>2, <1>3
  DEF Loop, slink_receive, Reject, ReceiveAck, ReceiveDuplicate, ReceiveData

------------------------------------------------------------------------------
(* The numbers of packets and acknowledgements                             *)

\* A step of the sender.
LEMMA SenderKeeps ==
  ASSUME TypeOK, NEW n \in Node, Numbers(n), Answered(n), Idle(n), Later(n),
         Sends(n) \/ HearsAck(n) \/ Answers(n) \/ Rests(n)
  PROVE  Numbers(n)' /\ Answered(n)' /\ Idle(n)' /\ Later(n)'
<1> USE Nodes
<1> DEFINE p == Peer(n)
<1>0. /\ txpkt[n].cseq \in 0 .. SeqMod - 1 /\ SuccSeq(txpkt[n].cseq) # txpkt[n].cseq
      /\ SuccSeq(0) = 1
  <2>1. txpkt[n].cseq \in 0 .. SeqMod - 1
    BY DEF TypeOK
  <2>2. SuccSeq(0) = 1
    BY ConstantAssumption DEF SuccSeq
  <2> QED
    BY <2>1, <2>2, SuccSeqRange
<1>1. CASE Sends(n)
  <2>1. /\ UNCHANGED <<rxseq, taken>> /\ fifo'[n] = fifo[n]
        /\ \/ Packets(fifo'[p]) = Packets(fifo[p])
           \/ \E q \in Packet : /\ q.seq = txpkt'[n].cseq /\ q.data = txpkt'[n].data
                                /\ Packets(fifo'[p]) = Packets(fifo[p]) \cup {q}
    BY <1>1 DEF Sends
  <2>2. PICK buf \in Seq(Byte) : KeepsPacket(n, buf) \/ NewPacket(n, buf)
    BY <1>1 DEF Sends
  <2>3. CASE KeepsPacket(n, buf)
    <3>1. /\ txseq'[n] = txseq[n]
          /\ txpkt'[n].cseq = txpkt[n].cseq /\ txpkt'[n].data = txpkt[n].data
          /\ txpkt'[n].timeout = 0 <=> txpkt[n].timeout = 0
      BY <2>3 DEF KeepsPacket
    <3>2. Copies(n) => Copies(n)'
      BY <2>1, <3>1 DEF Copies
    <3>3. Numbers(n)'
      BY <3>1 DEF Numbers, NoneSent
    <3>4. Answered(n)' /\ Idle(n)'
      BY <2>1, <3>1, <3>2 DEF Answered, Idle, NoneSent
    <3>5. Later(n)'
      BY <2>1, <3>1 DEF Later, TakenOver
    <3> QED
      BY <3>3, <3>4, <3>5
  <2>4. CASE NewPacket(n, buf)
    <3>1. /\ txpkt[n].timeout = 0 /\ txseq'[n] = SuccSeq(txseq[n])
          /\ txpkt'[n].cseq = SuccSeq(txpkt[n].cseq) /\ txpkt'[n].cseq # txpkt[n].cseq
          /\ txpkt'[n].timeout # 0 /\ txpkt'[n].data # <<>>
          /\ txpkt'[n].cseq = txseq[n]
      BY <1>0, <2>4 DEF NewPacket, Numbers
    <3>2. Numbers(n)'
      BY <3>1 DEF Numbers, NoneSent
    <3>3. Idle(n)'
      BY <3>1 DEF Idle
    <3>4. CASE NoneSent(n)
      <4>1. txpkt'[n].cseq = 1
        BY <1>0, <3>1, <3>4 DEF Numbers
      <4>2. Copies(n) => Copies(n)'
        BY <2>1, <3>4 DEF Copies, NoneSent, IsAck
      <4>3. Answered(n)'
        BY <2>1, <3>1, <3>4, <4>2 DEF Answered, NoneSent
      <4>4. Later(n)'
        BY <4>1 DEF Later
      <4> QED
        BY <3>2, <3>3, <4>3, <4>4
    <3>5. CASE ~NoneSent(n)
      <4>1. /\ rxseq[p] \in {txpkt[n].cseq, 0}
            /\ \A q \in Packets(fifo[p]) : ~IsAck(q) => q.seq = txpkt[n].cseq
            /\ \A a \in Packets(fifo[n]) : IsAck(a) => a.seq = txpkt[n].cseq
        BY <3>1, <3>5 DEF Idle, Copies
      <4>2. Answered(n)'
        BY <2>1, <3>1, <4>1 DEF Answered, NoneSent
      <4>3. Later(n)'
        BY <2>1, <3>1, <4>1 DEF Later
      <4> QED
        BY <3>2, <3>3, <4>2, <4>3
    <3> QED
      BY <3>4, <3>5
  <2> QED
    BY <2>2, <2>3, <2>4
<1>2. CASE HearsAck(n)
  <2>1. /\ UNCHANGED <<rxseq, taken, txseq>>
        /\ txpkt'[n].cseq = txpkt[n].cseq /\ txpkt'[n].data = txpkt[n].data
        /\ Packets(fifo'[n]) = {} /\ fifo'[p] = fifo[p]
    BY <1>2 DEF HearsAck
  <2>2. PICK a \in Packets(fifo[n]) :
          /\ IsAck(a)
          /\ \/ a.seq = txpkt[n].cseq /\ txpkt'[n].timeout = 0
             \/ a.seq # txpkt[n].cseq /\ txpkt'[n].timeout = txpkt[n].timeout
    BY <1>2 DEF HearsAck
  <2>3. Copies(n)' <=> Copies(n)
    BY <2>1 DEF Copies
  <2>4. Numbers(n)' /\ Answered(n)'
    BY <2>1, <2>2 DEF Numbers, Answered, NoneSent
  <2>5. Idle(n)'
    BY <2>1, <2>2, <2>3 DEF Idle, Answered, NoneSent
  <2>6. Later(n)'
    BY <2>1, <2>2 DEF Later, TakenOver
  <2> QED
    BY <2>4, <2>5, <2>6
<1>3. CASE Answers(n)
  <2>1. /\ UNCHANGED <<txseq, txpkt>> /\ rxseq'[p] = rxseq[p] /\ taken'[p] = taken[p]
        /\ Packets(fifo'[n]) = {}
        /\ \/ fifo'[p] = fifo[p]
           \/ \E q \in Packet : q.data = <<>> /\ Packets(fifo'[p]) = Packets(fifo[p]) \cup {q}
    BY <1>3 DEF Answers
  <2>2. Copies(n)' <=> Copies(n)
    BY <2>1 DEF Copies, IsAck
  <2>3. Numbers(n)' /\ Answered(n)' /\ Idle(n)'
    BY <2>1, <2>2 DEF Numbers, Answered, Idle, NoneSent
  <2>4. Later(n)'
    BY <2>1 DEF Later, TakenOver, IsAck
  <2> QED
    BY <2>3, <2>4
<1>4. CASE Rests(n)
  <2>1. /\ UNCHANGED <<rxseq, taken, txseq, txpkt>>
        /\ Packets(fifo'[n]) \subseteq Packets(fifo[n]) /\ fifo'[p] = fifo[p]
    BY <1>4 DEF Rests
  <2>2. Copies(n)' <=> Copies(n)
    BY <2>1 DEF Copies
  <2>3. Numbers(n)' /\ Answered(n)' /\ Idle(n)'
    BY <2>1, <2>2 DEF Numbers, Answered, Idle, NoneSent
  <2>4. Later(n)'
    BY <2>1 DEF Later, TakenOver
  <2> QED
    BY <2>3, <2>4
<1> QED
  BY <1>1, <1>2, <1>3, <1>4

\* A step of the receiver n, for what its peer has sent.
LEMMA ReceiverKeeps ==
  ASSUME TypeOK, NEW n \in Node,
         NEW p, p = Peer(n), Numbers(p), Answered(p), Idle(p), Later(p), Numbers(n),
         Sends(n) \/ HearsAck(n) \/ Answers(n) \/ Rests(n)
  PROVE  Numbers(p)' /\ Answered(p)' /\ Idle(p)' /\ Later(p)'
<1>0. p \in Node /\ Peer(p) = n /\ p # n
  BY Nodes
<1>1. CASE Sends(n)
  <2>1. /\ UNCHANGED <<rxseq, taken>> /\ txseq'[p] = txseq[p] /\ txpkt'[p] = txpkt[p]
        /\ fifo'[n] = fifo[n]
    BY <1>1 DEF Sends
  <2>2. \A a \in Packets(fifo'[p]) : IsAck(a) => a \in Packets(fifo[p])
    <3>1. CASE fifo'[p] = fifo[p]
      BY <3>1
    <3>2. ASSUME NEW q \in Packet,
                 q.data = txpkt'[n].data, txpkt'[n].timeout # 0,
                 Packets(fifo'[p]) = Packets(fifo[p]) \cup {q}
          PROVE  \A a \in Packets(fifo'[p]) : IsAck(a) => a \in Packets(fifo[p])
      <4>1. PICK buf \in Seq(Byte) : KeepsPacket(n, buf) \/ NewPacket(n, buf)
        BY <1>1 DEF Sends
      <4>2. txpkt'[n].data # <<>>
        BY <3>2, <4>1 DEF KeepsPacket, NewPacket, Numbers, NoneSent
      <4> QED
        BY <3>2, <4>2 DEF IsAck
    <3> QED
      BY <1>1, <3>1, <3>2 DEF Sends
  <2>3. Copies(p)' <=> Copies(p)
    BY <1>0, <2>1 DEF Copies
  <2>4. Numbers(p)' /\ Answered(p)' /\ Idle(p)'
    BY <1>0, <2>1, <2>2, <2>3 DEF Numbers, Answered, Idle, NoneSent
  <2>5. Later(p)'
    BY <1>0, <2>1, <2>2 DEF Later, TakenOver
  <2> QED
    BY <2>4, <2>5
<1>2. CASE HearsAck(n) \/ Rests(n)
  <2>1. /\ UNCHANGED <<rxseq, taken, txseq>> /\ txpkt'[p] = txpkt[p]
        /\ Packets(fifo'[n]) \subseteq Packets(fifo[n]) /\ fifo'[p] = fifo[p]
    BY <1>2 DEF HearsAck, Rests
  <2>2. Copies(p) => Copies(p)'
    BY <1>0, <2>1 DEF Copies
  <2>3. Numbers(p)' /\ Answered(p)' /\ Idle(p)'
    BY <1>0, <2>1, <2>2 DEF Numbers, Answered, Idle, NoneSent
  <2>4. Later(p)'
    BY <1>0, <2>1 DEF Later, TakenOver
  <2> QED
    BY <2>3, <2>4
<1>3. CASE Answers(n)
  <2>1. /\ UNCHANGED <<txseq, txpkt>> /\ rxseq'[p] = rxseq[p] /\ taken'[p] = taken[p]
        /\ Packets(fifo'[n]) = {}
    BY <1>0, <1>3 DEF Answers
  <2>2. PICK d \in Packets(fifo[n]) :
          /\ ~IsAck(d) /\ rxseq'[n] = d.seq
          /\ \/ d.seq = rxseq[n] /\ taken'[n] = taken[n]
             \/ /\ d.seq # rxseq[n] /\ taken'[n] = taken[n] \o d.data
                /\ d.seq = SuccSeq(rxseq[n])
          /\ \/ fifo'[p] = fifo[p]
             \/ \E q \in Packet : /\ q.seq = d.seq /\ q.data = <<>>
                                  /\ Packets(fifo'[p]) = Packets(fifo[p]) \cup {q}
    BY <1>3 DEF Answers
  <2>3. Copies(p)'
    BY <1>0, <2>1 DEF Copies
  <2>4. \A a \in Packets(fifo'[p]) : a \in Packets(fifo[p]) \/ a.seq = d.seq
    BY <2>2
  <2>5. Copies(p) => d.seq = txpkt[p].cseq /\ ~NoneSent(p)
    BY <1>0, <2>2 DEF Copies, NoneSent, IsAck
  <2>6. Numbers(p)'
    BY <2>1 DEF Numbers, NoneSent
  <2>7. Answered(p)'
    BY <1>0, <2>1, <2>2, <2>3, <2>4, <2>5 DEF Answered, NoneSent
  <2>8. Idle(p)'
    BY <1>0, <2>1, <2>2, <2>3, <2>4, <2>5 DEF Idle, NoneSent
  <2>9. Later(p)'
    <3>1. /\ taken[n] \in Seq(Byte) /\ d.data \in Seq(Byte)
      <4>1. taken[n] \in Seq(Byte) /\ fifo[n] \in Seq(Packet)
        BY DEF TypeOK
      <4>2. d \in Packet
        BY <2>2, <4>1, PacketsType
      <4> QED
        BY <4>1, <4>2 DEF Packet
    <3>2. /\ Bytes(taken[n]) \subseteq Bytes(taken'[n])
          /\ d.seq # rxseq[n] => Bytes(d.data) \subseteq Bytes(taken'[n])
      BY <2>2, <3>1, BytesOfConcat
    <3>3. TakenOver(p) => TakenOver(p)'
      BY <1>0, <2>1, <3>2 DEF TakenOver
    <3>4. d.seq = txpkt[p].cseq /\ txpkt[p].cseq \notin {0, 1} => TakenOver(p)'
      BY <1>0, <2>1, <2>2, <3>2, <3>3 DEF TakenOver, Later
    <3> QED
      BY <1>0, <2>1, <2>2, <2>4, <3>3, <3>4 DEF Later
  <2> QED
    BY <2>6, <2>7, <2>8, <2>9
<1> QED
  BY <1>1, <1>2, <1>3

\* A restart of n, for what n has sent - nothing - and what its peer has.
LEMMA RestartKeeps ==
  ASSUME RIInv, NEW n \in Node, Restart(n)
  PROVE  RIInv'
<1> DEFINE p == Peer(n)
<1>0. p \in Node /\ Peer(p) = n /\ p # n /\ \A m \in Node : m \in {n, p}
  BY Nodes
<1>1. TypeOK /\ restarts \in [Node -> Nat] /\ \A m \in Node : pc[m] = "get" => rxbuf[m] # <<>>
  BY DEF RIInv, Sane
<1>2. /\ txseq'[n] = 1 /\ rxseq'[n] = 0 /\ fifo'[n] = <<>>
      /\ txpkt'[n].cseq = 0 /\ txpkt'[n].data = <<>> /\ txpkt'[n].timeout = 0
      /\ txseq'[p] = txseq[p] /\ rxseq'[p] = rxseq[p] /\ fifo'[p] = fifo[p]
      /\ txpkt'[p] = txpkt[p] /\ taken' = taken
  BY <1>0, <1>1 DEF Restart, NoPacket, history, TypeOK
<1>3. Packets(fifo'[n]) = {}
  BY <1>2, PacketsNone
<1>4. TypeOK'
  <2>1. NoPacket \in [cseq : 0 .. SeqMod - 1, data : Seq(Byte), timeout : 0 .. ResendAfter]
    BY ConstantAssumption, EmptySeq DEF NoPacket
  <2>2. /\ 1 \in 0 .. SeqMod - 1 /\ 0 \in 0 .. SeqMod - 1 /\ 0 < BufSize
        /\ <<>> \in Seq(Byte) /\ <<>> \in Seq(Packet) /\ Len(<<>>) = 0
    BY ConstantAssumption, EmptySeq
  <2>3. UNCHANGED <<host, accepted, taken, out, dropped>>
    BY DEF Restart, history
  <2>4. pc' \in [Node -> {"put", "receive", "flush", "get", "hung"}]
    BY <1>1 DEF Restart, TypeOK
  <2>5. /\ txbuf' \in [Node -> Seq(Byte)] /\ rxbuf' \in [Node -> Seq(Byte)]
        /\ \A m \in Node : Len(txbuf'[m]) < BufSize /\ Len(rxbuf'[m]) < BufSize
    BY <1>1, <2>2 DEF Restart, TypeOK
  <2>6. /\ txseq' \in [Node -> 0 .. SeqMod - 1] /\ rxseq' \in [Node -> 0 .. SeqMod - 1]
        /\ radio' \in [Node -> {"IDLE", "RX", "OVERFLOW"}] /\ fifo' \in [Node -> Seq(Packet)]
    BY <1>1, <2>2 DEF Restart, TypeOK
  <2>7. txpkt' \in [Node -> [cseq : 0 .. SeqMod - 1, data : Seq(Byte),
                             timeout : 0 .. ResendAfter]]
    BY <1>1, <2>1 DEF Restart, TypeOK
  <2> QED
    BY <1>1, <2>3, <2>4, <2>5, <2>6, <2>7 DEF TypeOK
<1>5. Sane'
  <2>1. restarts' \in [Node -> Nat]
    BY <1>1 DEF Restart
  <2>2. \A m \in Node : pc'[m] = "get" => rxbuf'[m] # <<>>
    <3>1. pc'[n] = "put" /\ pc'[p] = pc[p] /\ rxbuf'[p] = rxbuf[p]
      BY <1>0, <1>1 DEF Restart, TypeOK
    <3> QED
      BY <1>0, <1>1, <3>1
  <2> QED
    BY <1>4, <2>1, <2>2 DEF Sane
<1>6. Numbers(n)' /\ Answered(n)' /\ Idle(n)' /\ Later(n)'
  <2>1. SuccSeq(0) = 1
    BY ConstantAssumption DEF SuccSeq
  <2> QED
    BY <1>2, <1>3, <2>1 DEF Numbers, Answered, Idle, Later, NoneSent
<1>7. Numbers(p)' /\ Answered(p)' /\ Idle(p)' /\ Later(p)'
  <2>1. Numbers(p) /\ Answered(p) /\ Idle(p) /\ Later(p)
    BY <1>0 DEF RIInv
  <2>2. Copies(p)'
    BY <1>0, <1>3 DEF Copies
  <2>3. Numbers(p)' /\ Answered(p)' /\ Idle(p)'
    BY <1>0, <1>2, <2>1, <2>2 DEF Numbers, Answered, Idle, NoneSent
  <2>4. Later(p)'
    BY <1>0, <1>2, <1>3, <2>1 DEF Later, TakenOver
  <2> QED
    BY <2>3, <2>4
<1> QED
  BY <1>0, <1>5, <1>6, <1>7 DEF RIInv

LEMMA RInitially ==
  ASSUME RInit
  PROVE  RIInv
<1>1. TypeOK /\ \A n \in Node : pc[n] = "get" => rxbuf[n] # <<>>
  BY Initially DEF RInit, IInv
<1>2. restarts \in [Node -> Nat]
  BY DEF RInit
<1>3. \A n \in Node : /\ txpkt[n].cseq = 0 /\ txpkt[n].data = <<>> /\ txpkt[n].timeout = 0
                      /\ txseq[n] = 1 /\ fifo[n] = <<>>
  BY DEF RInit, Init, NoPacket
<1>4. \A n \in Node : Packets(fifo[n]) = {}
  BY <1>3, PacketsNone
<1>5. SuccSeq(0) = 1
  BY ConstantAssumption DEF SuccSeq
<1>6. \A n \in Node : Numbers(n) /\ Answered(n) /\ Idle(n) /\ Later(n)
  BY <1>3, <1>4, <1>5 DEF Numbers, Answered, Idle, Later, NoneSent
<1> QED
  BY <1>1, <1>2, <1>6 DEF RIInv, Sane

LEMMA RInductive ==
  ASSUME RIInv, [RNext]_rvars
  PROVE  RIInv'
<1>1. ASSUME NEW n \in Node, Loop(n), restarts' = restarts
      PROVE  RIInv'
  <2> DEFINE p == Peer(n)
  <2>0. p \in Node /\ \A m \in Node : m \in {n, p}
    BY Nodes
  <2>1. Sane
    BY DEF RIInv
  <2>2. Sane'
    BY <1>1, <2>1, TypeStep, GetStep DEF Sane
  <2>3. Sends(n) \/ HearsAck(n) \/ Answers(n) \/ Rests(n)
    BY <1>1, <2>1, LoopEffect DEF Sane
  <2>4. /\ Numbers(n) /\ Answered(n) /\ Idle(n) /\ Later(n)
        /\ Numbers(p) /\ Answered(p) /\ Idle(p) /\ Later(p)
    BY <2>0 DEF RIInv
  <2>5. Numbers(n)' /\ Answered(n)' /\ Idle(n)' /\ Later(n)'
    BY <2>1, <2>3, <2>4, SenderKeeps DEF Sane
  <2>6. Numbers(p)' /\ Answered(p)' /\ Idle(p)' /\ Later(p)'
    BY <2>1, <2>3, <2>4, ReceiverKeeps DEF Sane
  <2> QED
    BY <2>0, <2>2, <2>5, <2>6 DEF RIInv
<1>2. CASE UNCHANGED rvars
  <2>1. Sane'
    BY <1>2 DEF rvars, vars, link, air, history, RIInv, Sane, TypeOK
  <2>2. UNCHANGED <<txpkt, txseq, rxseq, fifo, taken>>
    BY <1>2 DEF rvars, vars, link, air, history
  <2>3. ASSUME NEW n \in Node
        PROVE  Numbers(n)' /\ Answered(n)' /\ Idle(n)' /\ Later(n)'
    <3>1. Numbers(n) /\ Answered(n) /\ Idle(n) /\ Later(n)
      BY DEF RIInv
    <3> QED
      BY <2>2, <3>1, SMTT(45) DEF Numbers, Answered, Idle, Later, NoneSent, Copies, TakenOver
  <2> QED
    BY <2>1, <2>3 DEF RIInv
<1> QED
  BY <1>1, <1>2, RestartKeeps DEF RNext, Next

LEMMA RInvariant == RSpec => []RIInv
  BY RInitially, RInductive, PTL DEF RSpec

\* Buffers stay within bounds, and numbers within their widths, whenever
\* either end starts over.
THEOREM RestartTypeCorrect == RSpec => []TypeOK
<1>1. RIInv => TypeOK
  BY DEF RIInv, Sane
<1> QED
  BY <1>1, RInvariant, PTL

\* An acknowledgement that slink_receive believes is true, from the second
\* packet of a life on, whichever end was restarted and when.
THEOREM FalseAckBounded == RSpec => []FalseAckOnlyAtStart
<1>1. RIInv => FalseAckOnlyAtStart
  BY DEF RIInv, Later, TakenOver, FalseAckOnlyAtStart
<1> QED
  BY <1>1, RInvariant, PTL

------------------------------------------------------------------------------
(* An end that is out of sequence                                          *)

\* Deaf, with sets of packets.
LEMMA DeafIs ==
  ASSUME NEW n \in Node
  PROVE  /\ Deaf(n) <=>
              /\ txpkt[n].timeout # 0
              /\ txpkt[n].cseq \notin {rxseq[Peer(n)], SuccSeq(rxseq[Peer(n)])}
              /\ \A q \in Packets(fifo[Peer(n)]) : ~IsAck(q) => q.seq = txpkt[n].cseq
              /\ \A a \in Packets(fifo[n]) : IsAck(a) => a.seq # txpkt[n].cseq
         /\ Deaf(n)' <=>
              /\ txpkt'[n].timeout # 0
              /\ txpkt'[n].cseq \notin {rxseq'[Peer(n)], SuccSeq(rxseq'[Peer(n)])}
              /\ \A q \in Packets(fifo'[Peer(n)]) : ~IsAck(q) => q.seq = txpkt'[n].cseq
              /\ \A a \in Packets(fifo'[n]) : IsAck(a) => a.seq # txpkt'[n].cseq
  BY DEF Deaf, Packets

LEMMA DeafStep ==
  ASSUME RIInv, NEW n \in Node, Deaf(n), NEW m \in Node, Loop(m)
  PROVE  Deaf(n)' /\ taken'[Peer(n)] = taken[Peer(n)]
<1> DEFINE p == Peer(n)
<1>0. p \in Node /\ Peer(p) = n /\ m \in {n, p} /\ TypeOK
  BY Nodes DEF RIInv, Sane
<1>1. /\ txpkt[n].timeout # 0
      /\ txpkt[n].cseq \notin {rxseq[p], SuccSeq(rxseq[p])}
      /\ \A q \in Packets(fifo[p]) : ~IsAck(q) => q.seq = txpkt[n].cseq
      /\ \A a \in Packets(fifo[n]) : IsAck(a) => a.seq # txpkt[n].cseq
  BY DeafIs
<1>2. Sends(m) \/ HearsAck(m) \/ Answers(m) \/ Rests(m)
  BY <1>0, LoopEffect
<1>3. SUFFICES /\ taken'[p] = taken[p]
               /\ txpkt'[n].timeout # 0
               /\ txpkt'[n].cseq \notin {rxseq'[p], SuccSeq(rxseq'[p])}
               /\ \A q \in Packets(fifo'[p]) : ~IsAck(q) => q.seq = txpkt'[n].cseq
               /\ \A a \in Packets(fifo'[n]) : IsAck(a) => a.seq # txpkt'[n].cseq
  BY DeafIs
<1>4. CASE m = n
  <2>1. CASE Sends(n)
    <3>1. PICK buf \in Seq(Byte) : KeepsPacket(n, buf) \/ NewPacket(n, buf)
      BY <2>1 DEF Sends
    <3>2. txpkt'[n].cseq = txpkt[n].cseq /\ txpkt'[n].timeout # 0
      BY <1>1, <3>1 DEF KeepsPacket, NewPacket
    <3>3. \A q \in Packets(fifo'[p]) : ~IsAck(q) => q.seq = txpkt'[n].cseq
      BY <1>1, <2>1, <3>2 DEF Sends
    <3> QED
      BY <1>1, <2>1, <3>2, <3>3 DEF Sends
  <2>2. CASE HearsAck(n)
    BY <1>1, <2>2 DEF HearsAck
  <2>3. CASE Answers(n)
    BY <1>1, <2>3 DEF Answers, IsAck
  <2>4. CASE Rests(n)
    BY <1>1, <2>4 DEF Rests
  <2> QED
    BY <1>2, <1>4, <2>1, <2>2, <2>3, <2>4
<1>5. CASE m = p
  <2>1. CASE Sends(p)
    <3>1. PICK buf \in Seq(Byte) : KeepsPacket(p, buf) \/ NewPacket(p, buf)
      BY <2>1 DEF Sends
    <3>2. txpkt'[p].timeout # 0 => txpkt'[p].data # <<>>
      BY <1>0, <3>1 DEF KeepsPacket, NewPacket, RIInv, Numbers, NoneSent
    <3>3. \A a \in Packets(fifo'[n]) : IsAck(a) => a \in Packets(fifo[n])
      BY <1>0, <2>1, <3>2 DEF Sends, IsAck
    <3> QED
      BY <1>0, <1>1, <2>1, <3>3 DEF Sends
  <2>2. CASE HearsAck(p)
    BY <1>0, <1>1, <2>2 DEF HearsAck
  <2>3. CASE Answers(p)
    BY <1>1, <2>3 DEF Answers
  <2>4. CASE Rests(p)
    BY <1>0, <1>1, <2>4 DEF Rests
  <2> QED
    BY <1>2, <1>5, <2>1, <2>2, <2>3, <2>4
<1> QED
  BY <1>0, <1>4, <1>5

\* After the rejection of seriallink.c:436 no byte passes and nothing changes,
\* until one of the ends is restarted.
THEOREM StaysDeaf == RSpec => DeafForGood
<1>1. RIInv /\ [RNext]_rvars =>
        [\A n \in Node : Deaf(n) /\ restarts' = restarts =>
           Deaf(n)' /\ taken'[Peer(n)] = taken[Peer(n)]]_rvars
  <2> SUFFICES ASSUME RIInv, RNext, NEW n \in Node, Deaf(n), restarts' = restarts
               PROVE  Deaf(n)' /\ taken'[Peer(n)] = taken[Peer(n)]
    OBVIOUS
  <2>1. ASSUME NEW m \in Node, Restart(m) PROVE FALSE
    BY <2>1 DEF Restart, RIInv, Sane
  <2> QED
    BY <2>1, DeafStep DEF RNext, Next
<1> QED
  BY <1>1, RInvariant, PTL DEF RSpec, DeafForGood

------------------------------------------------------------------------------
(* Order: the bytes of every input are distinct and ascending              *)

InputsAscend == Byte \subseteq Int /\ \A n \in Node : Ascending(Input[n])

Below(S, T) == \A x \in S, y \in T : x < y

\* What n has still to send.
Behind(n) == Bytes(txbuf[n]) \cup Bytes(host[n])

\* What n sends goes out in the order in which it came from the host, and a
\* packet on its way is a copy of the one in txpkt[n] or older.
Queued(n) ==
  /\ Ascending(txbuf[n]) /\ Ascending(host[n]) /\ Ascending(txpkt[n].data)
  /\ Below(Bytes(txbuf[n]), Bytes(host[n]))
  /\ Below(Bytes(txpkt[n].data), Behind(n))
  /\ \A q \in Packets(fifo[Peer(n)]) : ~IsAck(q) =>
       /\ Ascending(q.data)
       /\ Below(Bytes(q.data), Behind(n))
       /\ \/ q.seq = txpkt[n].cseq /\ q.data = txpkt[n].data
          \/ Below(Bytes(q.data), Bytes(txpkt[n].data))

\* The places of the byte c in s.
Places(s, c) == {i \in 1 .. Len(s) : s[i] = c}

\* Of what p has taken over from n, since was taken over after the last restart
\* of p.  It is in order, and what p would take over now comes after it.
InOrder(n, p, since) ==
  /\ Ascending(since)
  /\ Below(Bytes(since), Behind(n))
  /\ rxseq[p] = txpkt[n].cseq \/ Below(Bytes(since), Bytes(txpkt[n].data))
  /\ \A q \in Packets(fifo[p]) :
       ~IsAck(q) /\ q.seq # rxseq[p] => Below(Bytes(since), Bytes(q.data))

\* Each life of p before that has taken over a byte at most once.
Lives(n) ==
  LET p == Peer(n)
  IN  \E before, since \in Seq(Byte) :
        /\ taken[p] = before \o since
        /\ \A c \in Byte : Cardinality(Places(before, c)) <= restarts[p]
        /\ InOrder(n, p, since)

OrderInv == \A n \in Node : Queued(n) /\ Lives(n)

LEMMA AscendingConcat ==
  ASSUME NEW s \in Seq(Byte), NEW t \in Seq(Byte)
  PROVE  Ascending(s \o t) <=>
           Ascending(s) /\ Ascending(t) /\ Below(Bytes(s), Bytes(t))
<1>1. /\ Len(s \o t) = Len(s) + Len(t) /\ Len(s) \in Nat /\ Len(t) \in Nat
      /\ \A i \in 1 .. Len(s) + Len(t) :
           (s \o t)[i] = IF i <= Len(s) THEN s[i] ELSE t[i - Len(s)]
  BY ConcatProperties
<1>2. \A i \in 1 .. Len(s) : i \in 1 .. Len(s) + Len(t) /\ (s \o t)[i] = s[i]
  BY <1>1
<1>3. \A i \in 1 .. Len(t) :
        i + Len(s) \in 1 .. Len(s) + Len(t) /\ (s \o t)[i + Len(s)] = t[i]
  BY <1>1
<1>4. ASSUME Ascending(s \o t)
      PROVE  Ascending(s) /\ Ascending(t) /\ Below(Bytes(s), Bytes(t))
  <2>1. \A i, j \in 1 .. Len(s) + Len(t) : i < j => (s \o t)[i] < (s \o t)[j]
    BY <1>1, <1>4 DEF Ascending
  <2> HIDE <1>4
  <2>2. Ascending(s)
    BY <1>2, <2>1 DEF Ascending
  <2>3. Ascending(t)
    <3> SUFFICES ASSUME NEW i \in 1 .. Len(t), NEW j \in 1 .. Len(t), i < j
                 PROVE  t[i] < t[j]
      BY DEF Ascending
    <3>1. i + Len(s) < j + Len(s)
      BY <1>1
    <3> QED
      BY <1>3, <2>1, <3>1
  <2>4. Below(Bytes(s), Bytes(t))
    <3> SUFFICES ASSUME NEW i \in 1 .. Len(s), NEW j \in 1 .. Len(t)
                 PROVE  s[i] < t[j]
      BY DEF Below, Bytes
    <3>1. i < j + Len(s)
      BY <1>1
    <3> QED
      BY <1>2, <1>3, <2>1, <3>1
  <2> QED
    BY <2>2, <2>3, <2>4
<1>5. ASSUME Ascending(s), Ascending(t), Below(Bytes(s), Bytes(t))
      PROVE  Ascending(s \o t)
  <2> SUFFICES ASSUME NEW i \in 1 .. Len(s) + Len(t), NEW j \in 1 .. Len(s) + Len(t), i < j
               PROVE  (s \o t)[i] < (s \o t)[j]
    BY <1>1 DEF Ascending
  <2>1. CASE j <= Len(s)
    <3>1. i \in 1 .. Len(s) /\ j \in 1 .. Len(s)
      BY <1>1, <2>1
    <3> QED
      BY <1>2, <1>5, <3>1 DEF Ascending
  <2>2. CASE i <= Len(s) /\ j > Len(s)
    <3>1. i \in 1 .. Len(s) /\ j - Len(s) \in 1 .. Len(t)
      BY <1>1, <2>2
    <3>2. s[i] \in Bytes(s) /\ t[j - Len(s)] \in Bytes(t)
      BY <3>1 DEF Bytes
    <3>3. s[i] < t[j - Len(s)]
      BY <1>5, <3>2 DEF Below
    <3> QED
      BY <1>1, <2>2, <3>3
  <2>3. CASE i > Len(s)
    <3>1. i - Len(s) \in 1 .. Len(t) /\ j - Len(s) \in 1 .. Len(t) /\ i - Len(s) < j - Len(s)
          /\ ~(i <= Len(s)) /\ ~(j <= Len(s))
      BY <1>1, <2>3
    <3>2. t[i - Len(s)] < t[j - Len(s)]
      BY <1>5, <3>1 DEF Ascending
    <3> QED
      BY <1>1, <3>1, <3>2
  <2> QED
    BY <1>1, <2>1, <2>2, <2>3
<1> QED
  BY <1>4, <1>5

LEMMA NoBytes == Bytes(<<>>) = {} /\ Ascending(<<>>)
  BY DEF Bytes, Ascending

LEMMA OneByte == ASSUME NEW c \in Byte PROVE Bytes(<<c>>) = {c} /\ Ascending(<<c>>)
<1>1. Len(<<c>>) = 1 /\ <<c>>[1] = c
  OBVIOUS
<1>2. 1 .. 1 = {1}
  OBVIOUS
<1> QED
  BY <1>1, <1>2 DEF Bytes, Ascending

LEMMA BytesType == ASSUME NEW s \in Seq(Byte) PROVE Bytes(s) \subseteq Byte
  BY DEF Bytes

\* The head of an ascending sequence comes before the rest.
LEMMA HeadFirst ==
  ASSUME NEW s \in Seq(Byte), s # <<>>
  PROVE  /\ Head(s) \in Byte /\ Tail(s) \in Seq(Byte)
         /\ Bytes(s) = {Head(s)} \cup Bytes(Tail(s))
         /\ Ascending(s) => Ascending(Tail(s)) /\ Below({Head(s)}, Bytes(Tail(s)))
<1>1. Head(s) \in Byte /\ Tail(s) \in Seq(Byte)
  OBVIOUS
<1>2. <<Head(s)>> \in Seq(Byte) /\ s = <<Head(s)>> \o Tail(s)
  BY <1>1
<1>3. Bytes(<<Head(s)>>) = {Head(s)}
  BY <1>1, OneByte
<1>4. PICK h \in Seq(Byte), t \in Seq(Byte) :
        h = <<Head(s)>> /\ t = Tail(s) /\ s = h \o t
  BY <1>1, <1>2
<1>5. Bytes(h \o t) = Bytes(h) \cup Bytes(t)
  BY BytesOfConcat
<1>6. Ascending(h \o t) => Ascending(t) /\ Below(Bytes(h), Bytes(t))
  BY AscendingConcat
<1>7. Bytes(h) = {Head(s)} /\ t = Tail(s) /\ s = h \o t
  BY <1>3, <1>4
<1> QED
  BY <1>1, <1>5, <1>6, <1>7, Zenon

\* Whatever is put into the transmit buffer keeps the order.
LEMMA StillInOrder ==
  ASSUME TypeOK, NEW n \in Node, Queued(n), NEW buf \in Seq(Byte), FromHost(n, buf)
  PROVE  /\ host'[n] \in Seq(Byte) /\ Ascending(buf) /\ Ascending(host'[n])
         /\ Below(Bytes(buf), Bytes(host'[n]))
         /\ Bytes(buf) \cup Bytes(host'[n]) \subseteq Behind(n)
<1>1. txbuf[n] \in Seq(Byte) /\ host[n] \in Seq(Byte)
  BY DEF TypeOK
<1>2. CASE buf = txbuf[n] /\ host'[n] = host[n]
  BY <1>1, <1>2 DEF Queued, Behind
<1>3. CASE /\ host[n] # <<>> /\ host'[n] = Tail(host[n])
           /\ buf \in {txbuf[n], Append(txbuf[n], Head(host[n]))}
  <2>1. /\ Head(host[n]) \in Byte /\ Tail(host[n]) \in Seq(Byte)
        /\ Bytes(host[n]) = {Head(host[n])} \cup Bytes(Tail(host[n]))
        /\ Ascending(Tail(host[n])) /\ Below({Head(host[n])}, Bytes(Tail(host[n])))
    BY <1>1, <1>3, HeadFirst DEF Queued
  <2>2. CASE buf = txbuf[n]
    BY <1>3, <2>1, <2>2 DEF Queued, Behind, Below
  <2>3. CASE buf = Append(txbuf[n], Head(host[n]))
    <3> DEFINE c == Head(host[n])
    <3>1. PICK t \in Seq(Byte) :
            buf = txbuf[n] \o t /\ Bytes(t) = {c} /\ Ascending(t)
      BY <1>1, <2>1, <2>3, AppendByte, OneByte
    <3> HIDE DEF c
    <3>3. Bytes(buf) = Bytes(txbuf[n]) \cup {c}
      BY <1>1, <3>1, BytesOfConcat
    <3>4. Ascending(buf)
      BY <1>1, <2>1, <3>1, AscendingConcat DEF Queued, Below, c
    <3>5. Below(Bytes(buf), Bytes(Tail(host[n])))
      BY <2>1, <3>3 DEF Queued, Below, c
    <3> QED
      BY <1>3, <2>1, <3>3, <3>4, <3>5 DEF Behind, c
  <2> QED
    BY <1>3, <2>2, <2>3
<1> QED
  BY <1>2, <1>3 DEF FromHost

\* One more life adds a byte once at most.
LEMMA OnceMore ==
  ASSUME Byte \subseteq Int, NEW s \in Seq(Byte), NEW t \in Seq(Byte), Ascending(t),
         NEW c, NEW r \in Nat, Cardinality(Places(s, c)) <= r
  PROVE  Cardinality(Places(s \o t, c)) <= r + 1
<1>1. /\ Len(s \o t) = Len(s) + Len(t) /\ Len(s) \in Nat /\ Len(t) \in Nat
      /\ \A i \in 1 .. Len(s) + Len(t) :
           (s \o t)[i] = IF i <= Len(s) THEN s[i] ELSE t[i - Len(s)]
  BY ConcatProperties
<1>2. IsFiniteSet(Places(s, c)) /\ Cardinality(Places(s, c)) \in Nat
  <2>1. IsFiniteSet(1 .. Len(s))
    BY <1>1, FS_Interval
  <2>3. Places(s, c) \subseteq 1 .. Len(s)
    BY DEF Places
  <2> QED
    BY <2>1, <2>3, FS_Subset, FS_CardinalityType
<1>3. \A i, j \in 1 .. Len(t) : t[i] = c /\ t[j] = c => i = j
  <2> SUFFICES ASSUME NEW i \in 1 .. Len(t), NEW j \in 1 .. Len(t), t[i] = c, t[j] = c, i < j
               PROVE  FALSE
    BY <1>1
  <2>1. t[i] \in Byte
    OBVIOUS
  <2>2. c \in Int
    BY <2>1
  <2>3. c < c
    BY DEF Ascending
  <2> QED
    BY <2>2, <2>3
<1>4. PICK x : Places(s \o t, c) \subseteq Places(s, c) \cup {x}
  <2>1. CASE \E j \in 1 .. Len(t) : t[j] = c
    <3>1. PICK j \in 1 .. Len(t) : t[j] = c
      BY <2>1
    <3>2. \A i \in 1 .. Len(s) + Len(t) :
            (s \o t)[i] = c => (i \in 1 .. Len(s) /\ s[i] = c) \/ i = j + Len(s)
      <4> SUFFICES ASSUME NEW i \in 1 .. Len(s) + Len(t), (s \o t)[i] = c, i > Len(s)
                   PROVE  i = j + Len(s)
        BY <1>1
      <4>1. i - Len(s) \in 1 .. Len(t) /\ t[i - Len(s)] = c
        BY <1>1
      <4>2. i - Len(s) = j
        BY <1>3, <3>1, <4>1
      <4> QED
        BY <1>1, <4>2
    <3> QED
      BY <1>1, <3>2 DEF Places
  <2>2. CASE ~ \E j \in 1 .. Len(t) : t[j] = c
    <3>1. \A i \in 1 .. Len(s) + Len(t) :
            (s \o t)[i] = c => i \in 1 .. Len(s) /\ s[i] = c
      <4> SUFFICES ASSUME NEW i \in 1 .. Len(s) + Len(t), (s \o t)[i] = c, i > Len(s)
                   PROVE  FALSE
        BY <1>1
      <4>1. i - Len(s) \in 1 .. Len(t) /\ t[i - Len(s)] = c
        BY <1>1
      <4> QED
        BY <2>2, <4>1
    <3> QED
      BY <1>1, <3>1 DEF Places
  <2> QED
    BY <2>1, <2>2
<1> DEFINE S == Places(s, c)
           U == S \cup {x}
<1>5. IsFiniteSet(U) /\ Cardinality(U) <= Cardinality(S) + 1 /\ Cardinality(U) \in Nat
  <2> HIDE DEF S
  <2>1. /\ IsFiniteSet(S) /\ Cardinality(S) \in Nat
    BY <1>2 DEF S
  <2>2. IsFiniteSet(U) /\ Cardinality(U) = IF x \in S THEN Cardinality(S) ELSE Cardinality(S) + 1
    BY <2>1, FS_AddElement
  <2> QED
    BY <2>1, <2>2
<1> HIDE DEF U
<1>6. Cardinality(Places(s \o t, c)) \in Nat /\ Cardinality(Places(s \o t, c)) <= Cardinality(U)
  <2>1. Places(s \o t, c) \subseteq U
    BY <1>4 DEF U
  <2>2. IsFiniteSet(Places(s \o t, c)) /\ Cardinality(Places(s \o t, c)) <= Cardinality(U)
    BY <1>5, <2>1, FS_Subset
  <2> QED
    BY <2>2, FS_CardinalityType
<1> QED
  BY <1>2, <1>5, <1>6 DEF S

\* A step of the sender keeps both.
LEMMA SenderInOrder ==
  ASSUME TypeOK, TypeOK', NEW n \in Node, Queued(n), Lives(n), restarts' = restarts,
         Sends(n) \/ HearsAck(n) \/ Answers(n) \/ Rests(n)
  PROVE  Queued(n)' /\ Lives(n)'
<1> DEFINE p == Peer(n)
<1>0. p \in Node /\ p # n
  BY Nodes
<1>1. PICK before \in Seq(Byte), since \in Seq(Byte) :
        /\ taken[p] = before \o since
        /\ \A c \in Byte : Cardinality(Places(before, c)) <= restarts[p]
        /\ InOrder(n, p, since)
  BY DEF Lives
<1>2. rxseq'[p] = rxseq[p] /\ taken'[p] = taken[p]
  BY <1>0 DEF Sends, HearsAck, Answers, Rests
<1>3. InOrder(n, p, since)' => Lives(n)'
  BY <1>1, <1>2 DEF Lives
<1>4. CASE Sends(n)
  <2>1. /\ \/ Packets(fifo'[p]) = Packets(fifo[p])
           \/ \E q \in Packet : /\ q.seq = txpkt'[n].cseq /\ q.data = txpkt'[n].data
                                /\ Packets(fifo'[p]) = Packets(fifo[p]) \cup {q}
    BY <1>4 DEF Sends
  <2>2. PICK buf \in Seq(Byte) : FromHost(n, buf) /\ (KeepsPacket(n, buf) \/ NewPacket(n, buf))
    BY <1>4 DEF Sends
  <2>3. /\ host'[n] \in Seq(Byte) /\ Ascending(buf) /\ Ascending(host'[n])
        /\ Below(Bytes(buf), Bytes(host'[n]))
        /\ Bytes(buf) \cup Bytes(host'[n]) \subseteq Behind(n)
    BY <2>2, StillInOrder
  <2>4. CASE KeepsPacket(n, buf)
    <3>1. txpkt'[n].cseq = txpkt[n].cseq /\ txpkt'[n].data = txpkt[n].data /\ txbuf'[n] = buf
      BY <2>4 DEF KeepsPacket
    <3>2. Behind(n)' \subseteq Behind(n)
      BY <2>3, <3>1 DEF Behind
    <3>3. Queued(n)'
      BY <2>1, <2>3, <3>1, <3>2 DEF Queued, Below
    <3>4. InOrder(n, p, since)'
      BY <1>1, <1>2, <2>1, <3>1, <3>2 DEF InOrder, Below
    <3> QED
      BY <1>3, <3>3, <3>4
  <2>5. CASE NewPacket(n, buf)
    <3> DEFINE d == txpkt'[n].data
    <3>1. d \o txbuf'[n] = buf
      BY <2>5 DEF NewPacket
    <3>2. d \in Seq(Byte) /\ txbuf'[n] \in Seq(Byte)
      BY <1>4, SendsTypes
    <3> HIDE DEF d
    <3>3. /\ Ascending(d) /\ Ascending(txbuf'[n]) /\ Below(Bytes(d), Bytes(txbuf'[n]))
          /\ Bytes(buf) = Bytes(d) \cup Bytes(txbuf'[n])
      BY <2>3, <3>1, <3>2, AscendingConcat, BytesOfConcat
    <3>4. Behind(n)' \subseteq Behind(n) /\ Bytes(d) \subseteq Behind(n)
      BY <2>3, <3>3 DEF Behind
    <3>5. Below(Bytes(d), Behind(n)')
      BY <2>3, <3>3 DEF Behind, Below
    <3>6. Queued(n)'
      <4>1. \A q \in Packets(fifo[p]) : ~IsAck(q) =>
              Ascending(q.data) /\ Below(Bytes(q.data), Behind(n)') /\ Below(Bytes(q.data), Bytes(d))
        BY <3>4 DEF Queued, Below
      <4>2. Below(Bytes(txbuf'[n]), Bytes(host'[n]))
        BY <2>3, <3>3 DEF Below
      <4> QED
        BY <2>1, <2>3, <3>3, <3>5, <4>1, <4>2 DEF Queued, d
    <3>7. InOrder(n, p, since)'
      <4>1. Below(Bytes(since), Behind(n)') /\ Below(Bytes(since), Bytes(d))
        BY <1>1, <3>4 DEF InOrder, Below
      <4> QED
        BY <1>1, <1>2, <2>1, <4>1 DEF InOrder, d
    <3> QED
      BY <1>3, <3>6, <3>7
  <2> QED
    BY <2>2, <2>4, <2>5
<1>5. CASE HearsAck(n) \/ Answers(n) \/ Rests(n)
  <2>1. /\ UNCHANGED <<txbuf, host>>
        /\ txpkt'[n].cseq = txpkt[n].cseq /\ txpkt'[n].data = txpkt[n].data
        /\ \A q \in Packets(fifo'[p]) : ~IsAck(q) => q \in Packets(fifo[p])
    BY <1>5 DEF HearsAck, Answers, Rests, IsAck
  <2>2. Behind(n)' = Behind(n)
    BY <2>1 DEF Behind
  <2>3. Queued(n)'
    BY <2>1, <2>2 DEF Queued
  <2>4. InOrder(n, p, since)'
    BY <1>1, <1>2, <2>1, <2>2 DEF InOrder
  <2> QED
    BY <1>3, <2>3, <2>4
<1> QED
  BY <1>4, <1>5

\* A step of the receiver n, for what its peer has sent.
LEMMA ReceiverInOrder ==
  ASSUME Byte \subseteq Int, TypeOK, NEW n \in Node, NEW p, p = Peer(n),
         Queued(p), Lives(p), restarts' = restarts,
         Sends(n) \/ HearsAck(n) \/ Answers(n) \/ Rests(n)
  PROVE  Queued(p)' /\ Lives(p)'
<1>0. p \in Node /\ Peer(p) = n /\ p # n
  BY Nodes
<1>1. PICK before \in Seq(Byte), since \in Seq(Byte) :
        /\ taken[n] = before \o since
        /\ \A c \in Byte : Cardinality(Places(before, c)) <= restarts[n]
        /\ InOrder(p, n, since)
  BY <1>0 DEF Lives
<1>2. /\ txbuf'[p] = txbuf[p] /\ host'[p] = host[p] /\ txpkt'[p] = txpkt[p]
      /\ Packets(fifo'[n]) \subseteq Packets(fifo[n])
  BY <1>0 DEF Sends, HearsAck, Answers, Rests
<1>3. Behind(p)' = Behind(p)
  BY <1>2 DEF Behind
<1>4. Queued(p)'
  BY <1>0, <1>2, <1>3 DEF Queued
<1>5. CASE taken'[n] = taken[n] /\ rxseq'[n] = rxseq[n]
  <2>1. InOrder(p, n, since)'
    BY <1>1, <1>2, <1>3, <1>5 DEF InOrder
  <2>2. Lives(p)'
    BY <1>0, <1>1, <1>5, <2>1 DEF Lives
  <2> QED
    BY <1>4, <2>2
<1>6. ASSUME NEW d \in Packets(fifo[n]), ~IsAck(d), d.seq # rxseq[n],
             rxseq'[n] = d.seq, taken'[n] = taken[n] \o d.data, Packets(fifo'[n]) = {}
      PROVE  Lives(p)'
  <2>1. fifo[n] \in Seq(Packet) /\ Packets(fifo[n]) \subseteq Packet
    BY PacketsType DEF TypeOK
  <2>2. d.data \in Seq(Byte) /\ d.data # <<>>
    BY <1>6, <2>1 DEF Packet, IsAck
  <2>3. /\ Ascending(d.data) /\ Below(Bytes(d.data), Behind(p))
        /\ \/ d.seq = txpkt[p].cseq
           \/ Below(Bytes(d.data), Bytes(txpkt[p].data))
        /\ Below(Bytes(since), Bytes(d.data))
    BY <1>0, <1>1, <1>6 DEF Queued, InOrder
  <2> DEFINE more == since \o d.data
  <2>4. /\ more \in Seq(Byte) /\ Ascending(more) /\ Bytes(more) = Bytes(since) \cup Bytes(d.data)
        /\ taken'[n] = before \o more
    <3>1. Ascending(since)
      BY <1>1 DEF InOrder
    <3>2. more \in Seq(Byte) /\ taken'[n] = before \o more
      <4>1. more \in Seq(Byte)
        BY <1>1, <2>2, ConcatProperties
      <4>2. d.data \in Seq(Byte)
        BY <2>2
      <4> DEFINE dd == d.data
      <4> HIDE DEF dd
      <4>3. (before \o since) \o dd = before \o (since \o dd)
        BY <1>1, <4>2, Associative DEF dd
      <4> QED
        BY <1>1, <1>6, <4>1, <4>3 DEF dd
    <3> QED
      BY <2>2, <2>3, <3>1, <3>2, AscendingConcat, BytesOfConcat
  <2> HIDE DEF more
  <2>5. Below(Bytes(more), Behind(p))
    BY <1>1, <2>3, <2>4 DEF Below, InOrder
  <2>6. d.seq = txpkt[p].cseq \/ Below(Bytes(more), Bytes(txpkt[p].data))
    <3>1. CASE Below(Bytes(d.data), Bytes(txpkt[p].data))
      <4>1. PICK y : y \in Bytes(d.data)
        <5>1. Len(d.data) \in Nat /\ Len(d.data) # 0
          BY <2>2
        <5>2. 1 \in 1 .. Len(d.data)
          BY <5>1
        <5> QED
          BY <5>2 DEF Bytes
      <4>2. txpkt[p].data \in Seq(Byte)
        BY <1>0 DEF TypeOK
      <4>3. Bytes(since) \subseteq Int /\ Bytes(d.data) \subseteq Int /\ Bytes(txpkt[p].data) \subseteq Int
        BY <2>2, <4>2, BytesType
      <4>4. Below(Bytes(since), Bytes(txpkt[p].data))
        <5> SUFFICES ASSUME NEW x \in Bytes(since), NEW z \in Bytes(txpkt[p].data)
                     PROVE  x < z
          BY DEF Below
        <5>1. x < y /\ y < z
          BY <2>3, <3>1, <4>1 DEF Below
        <5>2. x \in Int /\ y \in Int /\ z \in Int
          BY <4>1, <4>3
        <5> QED
          BY <5>1, <5>2
      <4> QED
        BY <2>4, <3>1, <4>4 DEF Below
    <3> QED
      BY <2>3, <3>1
  <2>7. InOrder(p, n, more)'
    BY <1>2, <1>3, <1>6, <2>4, <2>5, <2>6 DEF InOrder
  <2> QED
    BY <1>0, <1>1, <2>4, <2>7 DEF Lives
<1>7. CASE Answers(n)
  BY <1>4, <1>5, <1>6, <1>7 DEF Answers
<1>8. CASE Sends(n) \/ HearsAck(n) \/ Rests(n)
  BY <1>4, <1>5, <1>8 DEF Sends, HearsAck, Rests
<1> QED
  BY <1>7, <1>8

\* After a restart of n, it has less to send, and its peer's packets are gone.
LEMMA RestartInOrder ==
  ASSUME Byte \subseteq Int, Sane, OrderInv, NEW n \in Node, Restart(n)
  PROVE  OrderInv'
<1> DEFINE p == Peer(n)
<1>0. p \in Node /\ Peer(p) = n /\ p # n /\ (\A m \in Node : m \in {n, p}) /\ TypeOK
      /\ restarts \in [Node -> Nat]
  BY Nodes DEF Sane
<1>1. /\ rxseq'[n] = 0 /\ fifo'[n] = <<>>
      /\ txpkt'[n].data = <<>> /\ txbuf'[n] = <<>>
      /\ rxseq'[p] = rxseq[p] /\ fifo'[p] = fifo[p] /\ txbuf'[p] = txbuf[p]
      /\ txpkt'[p] = txpkt[p] /\ taken' = taken /\ host' = host
      /\ restarts'[n] = restarts[n] + 1 /\ restarts'[p] = restarts[p]
  BY <1>0 DEF Restart, NoPacket, history, TypeOK
<1>2. Packets(fifo'[n]) = {} /\ Bytes(<<>>) = {} /\ Ascending(<<>>)
  BY <1>1, PacketsNone, NoBytes
<1>3. Behind(n)' \subseteq Behind(n) /\ Behind(p)' = Behind(p)
  BY <1>1, <1>2 DEF Behind
<1>4. Queued(n)'
  BY <1>0, <1>1, <1>2, <1>3 DEF OrderInv, Queued, Below
<1>5. Queued(p)'
  BY <1>0, <1>1, <1>2, <1>3 DEF OrderInv, Queued
<1>6. Lives(n)'
  <2>1. PICK before \in Seq(Byte), since \in Seq(Byte) :
          /\ taken[p] = before \o since
          /\ \A c \in Byte : Cardinality(Places(before, c)) <= restarts[p]
          /\ InOrder(n, p, since)
    BY DEF OrderInv, Lives
  <2>2. InOrder(n, p, since)'
    BY <1>1, <1>2, <1>3, <2>1 DEF InOrder, Below
  <2> QED
    BY <1>1, <2>1, <2>2 DEF Lives
<1>7. Lives(p)'
  <2>1. PICK before \in Seq(Byte), since \in Seq(Byte) :
          /\ taken[n] = before \o since
          /\ \A c \in Byte : Cardinality(Places(before, c)) <= restarts[n]
          /\ InOrder(p, n, since)
    BY <1>0 DEF OrderInv, Lives
  <2>2. taken[n] \in Seq(Byte) /\ taken[n] = taken[n] \o <<>> /\ <<>> \in Seq(Byte)
    BY <1>0, ConcatEmptySeq, EmptySeq DEF TypeOK
  <2>3. \A c \in Byte : Cardinality(Places(taken[n], c)) <= restarts'[n]
    <3>1. Ascending(since) /\ restarts[n] \in Nat
      BY <1>0, <2>1 DEF InOrder
    <3> QED
      BY <1>1, <2>1, <3>1, OnceMore
  <2>4. InOrder(p, n, <<>>)'
    BY <1>2 DEF InOrder, Below
  <2> QED
    BY <1>0, <1>1, <2>2, <2>3, <2>4 DEF Lives
<1> QED
  BY <1>0, <1>4, <1>5, <1>6, <1>7 DEF OrderInv

LEMMA OrderInitially ==
  ASSUME InputsAscend, RInit
  PROVE  OrderInv
<1> SUFFICES ASSUME NEW n \in Node PROVE Queued(n) /\ Lives(n)
  BY DEF OrderInv
<1> DEFINE p == Peer(n)
<1>0. p \in Node
  BY Nodes
<1>1. /\ host[n] = Input[n] /\ txbuf[n] = <<>> /\ txpkt[n].data = <<>>
      /\ fifo[p] = <<>> /\ taken[p] = <<>> /\ restarts[p] = 0
  BY <1>0 DEF RInit, Init, NoPacket
<1>2. Bytes(<<>>) = {} /\ Ascending(<<>>) /\ Packets(fifo[p]) = {}
  BY <1>1, NoBytes, PacketsNone
<1>3. Queued(n)
  BY <1>1, <1>2 DEF InputsAscend, Queued, Below
<1>4. Lives(n)
  <2>1. InOrder(n, p, <<>>)
    BY <1>2 DEF InOrder, Below
  <2>2. <<>> \in Seq(Byte) /\ <<>> = <<>> \o <<>>
    BY EmptySeq, ConcatEmptySeq
  <2>3. \A c \in Byte : Cardinality(Places(<<>>, c)) <= 0
    <3>1. \A c \in Byte : Places(<<>>, c) = {}
      BY DEF Places
    <3>2. Cardinality({}) <= 0
      BY FS_EmptySet
    <3> QED
      BY <3>1, <3>2
  <2> QED
    BY <1>1, <2>1, <2>2, <2>3 DEF Lives
<1> QED
  BY <1>3, <1>4

LEMMA OrderInductive ==
  ASSUME Byte \subseteq Int, RIInv, RIInv', OrderInv, [RNext]_rvars
  PROVE  OrderInv'
<1>0. Sane /\ TypeOK /\ TypeOK'
  BY DEF RIInv, Sane
<1>1. ASSUME NEW n \in Node, Loop(n), restarts' = restarts
      PROVE  OrderInv'
  <2> DEFINE p == Peer(n)
  <2>0. p \in Node /\ \A m \in Node : m \in {n, p}
    BY Nodes
  <2>1. Sends(n) \/ HearsAck(n) \/ Answers(n) \/ Rests(n)
    BY <1>0, <1>1, LoopEffect
  <2>2. Queued(n) /\ Lives(n) /\ Queued(p) /\ Lives(p)
    BY <2>0 DEF OrderInv
  <2>3. Queued(n)' /\ Lives(n)'
    BY <1>0, <1>1, <2>1, <2>2, SenderInOrder
  <2>4. Queued(p)' /\ Lives(p)'
    BY <1>0, <1>1, <2>1, <2>2, ReceiverInOrder
  <2> QED
    BY <2>0, <2>3, <2>4 DEF OrderInv
<1>2. CASE UNCHANGED rvars
  BY <1>2 DEF rvars, vars, link, air, history, OrderInv, Queued, Lives, InOrder, Behind
<1> QED
  BY <1>0, <1>1, <1>2, RestartInOrder DEF RNext, Next

LEMMA OrderInvariant == ASSUME InputsAscend PROVE RSpec => []OrderInv
<1>1. RInit => OrderInv
  BY OrderInitially
<1>2. RIInv /\ RIInv' /\ OrderInv /\ [RNext]_rvars => OrderInv'
  BY OrderInductive DEF InputsAscend
<1> QED
  BY <1>1, <1>2, RInvariant, PTL DEF RSpec

\* Whatever a sender forgets when it restarts - a packet in the air, its
\* buffer, its numbers - a receiver that stays up passes no byte twice and none
\* out of order.
THEOREM SenderRestarts ==
  ASSUME InputsAscend
  PROVE  RSpec => []SenderRestartOnlyLoses
<1>1. RIInv /\ OrderInv => SenderRestartOnlyLoses
  <2> SUFFICES ASSUME RIInv, OrderInv, NEW n \in Node, restarts[Peer(n)] = 0
               PROVE  Ascending(taken[Peer(n)])
    BY DEF SenderRestartOnlyLoses
  <2>1. PICK before \in Seq(Byte), since \in Seq(Byte) :
          /\ taken[Peer(n)] = before \o since
          /\ \A c \in Byte : Cardinality(Places(before, c)) <= 0
          /\ Ascending(since)
    BY DEF OrderInv, Lives, InOrder
  <2>2. before = <<>>
    <3> SUFFICES ASSUME before # <<>> PROVE FALSE
      OBVIOUS
    <3>1. 1 \in 1 .. Len(before) /\ before[1] \in Byte /\ Len(before) \in Nat
      OBVIOUS
    <3> DEFINE P == Places(before, before[1])
    <3>2. 1 \in P /\ P \subseteq 1 .. Len(before)
      BY <3>1 DEF Places
    <3>3. IsFiniteSet(1 .. Len(before))
      BY <3>1, FS_Interval
    <3>4. IsFiniteSet(P) /\ Cardinality(P) \in Nat
      <4> HIDE DEF P
      <4> QED
        BY <3>2, <3>3, FS_Subset, FS_CardinalityType
    <3>5. Cardinality(P) <= 0
      BY <2>1, <3>1
    <3> HIDE DEF P
    <3>6. P = {}
      BY <3>4, <3>5, FS_EmptySet
    <3> QED
      BY <3>2, <3>6
  <2>3. <<>> \o since = since
    BY <2>1, ConcatEmptySeq
  <2> QED
    BY <2>1, <2>2, <2>3
<1> QED
  BY <1>1, RInvariant, OrderInvariant, PTL

\* A receiver passes a byte once in each of its lives, at most: the copy of a
\* packet it had before a restart is taken over again, and never a second time.
THEOREM OnceEachLife ==
  ASSUME InputsAscend
  PROVE  RSpec => []OncePerLife
<1>1. RIInv /\ OrderInv => OncePerLife
  <2> SUFFICES ASSUME RIInv, OrderInv, NEW n \in Node, NEW c \in Bytes(taken[n])
               PROVE  Cardinality(Places(taken[n], c)) <= 1 + restarts[n]
    BY DEF OncePerLife, Places
  <2>1. Peer(n) \in Node /\ Peer(Peer(n)) = n
    BY Nodes
  <2>2. taken[n] \in Seq(Byte) /\ restarts[n] \in Nat
    BY DEF RIInv, Sane, TypeOK
  <2>3. PICK before \in Seq(Byte), since \in Seq(Byte) :
          /\ taken[n] = before \o since
          /\ \A b \in Byte : Cardinality(Places(before, b)) <= restarts[n]
          /\ Ascending(since)
    BY <2>1 DEF OrderInv, Lives, InOrder
  <2>4. c \in Byte
    BY <2>2, BytesType
  <2>5. Cardinality(Places(taken[n], c)) <= restarts[n] + 1
    BY <2>2, <2>3, <2>4, OnceMore DEF InputsAscend
  <2> QED
    BY <2>2, <2>5
<1> QED
  BY <1>1, RInvariant, OrderInvariant, PTL
==============================================================================
