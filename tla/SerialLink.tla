----------------------------- MODULE SerialLink ------------------------------
(***************************************************************************)
(* lib/seriallink/seriallink.c on both ends of a radio link, each end      *)
(* driven by the USB bridge loop of CUL/SerialLink/SerialLink.c.           *)
(*                                                                         *)
(* The link is a stop-and-wait ARQ: slink_flush keeps one packet in the    *)
(* air (txpkt) and sends it again when its timeout has been counted down,  *)
(* slink_receive takes data packets over in sequence and answers each with *)
(* an empty packet of the same sequence number.  Between the ends lies the *)
(* radio: the CC1101 receive FIFO of the other node, reached or not.       *)
(*                                                                         *)
(* Ring buffers are sequences here; module Ringbuf shows that they are.    *)
(***************************************************************************)
EXTENDS Integers, Sequences

CONSTANTS
  Byte,         \* the values of a byte
  Input,        \* Input[n]: what the USB host of node n sends, in order
  BufSize,      \* BUFSIZE, the size of RXBUF and TXBUF
  MaxPayload,   \* CC1101_MAX_PAYLOAD, data bytes per packet
  SeqMod,       \* sequence numbers are uint8_t: 256
  ResendAfter,  \* RESEND_AFTER, polls before a packet is sent again
  FifoBytes,    \* size of the receive FIFO of the CC1101: 64
  Crypt         \* do_crypt: packets are padded to AES blocks

Node == {0, 1}
Peer(n) == 1 - n

ASSUME ConstantAssumption ==
  /\ Input \in [Node -> Seq(Byte)]
  /\ BufSize \in Nat \ {0, 1}
  /\ MaxPayload \in Nat \ {0}
  /\ SeqMod \in Nat \ {0, 1}
  /\ ResendAfter \in Nat \ {0}
  /\ FifoBytes \in Nat
  /\ Crypt \in BOOLEAN

VARIABLES
  host,      \* host[n]: bytes the USB host of n has still to send
  pc,        \* pc[n]: where the main loop of n is
  txbuf,     \* txbuf[n], rxbuf[n]: the ring buffers
  rxbuf,
  txseq,     \* txseq[n]: the next sequence number to send
  rxseq,     \* rxseq[n]: the sequence number taken over last
  txpkt,     \* txpkt[n]: the packet sent last, its timeout in polls
  radio,     \* radio[n]: the MARCSTATE of the CC1101 between calls
  fifo,      \* fifo[n]: packets waiting in the receive FIFO
  accepted,  \* history: bytes ringbuf_put took into txbuf[n]
  taken,     \* history: bytes of the packets n took over
  out,       \* history: bytes n passed to its USB host
  dropped    \* history: bytes of taken[n] that found rxbuf[n] full

link == <<txbuf, rxbuf, txseq, rxseq, txpkt>>
air == <<radio, fifo>>
history == <<accepted, taken, out, dropped>>
vars == <<host, pc, link, air, history>>

------------------------------------------------------------------------------
(* Packets and the radio                                                   *)

Packet == [seq : 0 .. SeqMod - 1, data : Seq(Byte), crc : BOOLEAN]

\* The bytes a packet takes in the receive FIFO: its length byte, sequence
\* number and data - or the AES blocks of len, seq and data - and the two
\* status bytes the chip appends.
AirBytes(p) ==
  IF Crypt THEN 16 * ((Len(p.data) + 17) \div 16) + 3
           ELSE Len(p.data) + 4

Used(f) ==
  LET upto[i \in 0 .. Len(f)] ==
        IF i = 0 THEN 0 ELSE upto[i - 1] + AirBytes(f[i])
  IN  upto[Len(f)]

SuccSeq(s) == (s + 1) % SeqMod

IsAck(p) == p.data = <<>>

\* slink_send: the packet p of node n goes out while radio and fifo are r
\* and f; n continues at next.  STX does not take the chip out of
\* RXFIFO_OVERFLOW, so there the wait for MARCSTATE_RX never ends.
\* Otherwise the packet is lost, or reaches the peer if that is receiving:
\* intact or damaged, in the FIFO or by overflowing it.
slink_send(n, p, r, f, next) ==
  \/ /\ r[n] = "OVERFLOW"
     /\ pc' = [pc EXCEPT ![n] = "hung"]
     /\ radio' = r
     /\ fifo' = f
  \/ /\ r[n] # "OVERFLOW"
     /\ pc' = [pc EXCEPT ![n] = next]
     /\ radio' = [r EXCEPT ![n] = "RX"]
     /\ fifo' = f
  \/ /\ r[n] # "OVERFLOW"
     /\ r[Peer(n)] = "RX"
     /\ pc' = [pc EXCEPT ![n] = next]
     /\ IF Used(f[Peer(n)]) + AirBytes(p) <= FifoBytes
        THEN /\ \E ok \in BOOLEAN :
                  fifo' = [f EXCEPT ![Peer(n)] = Append(@, [p EXCEPT !.crc = ok])]
             /\ radio' = [r EXCEPT ![n] = "RX"]
        ELSE /\ fifo' = f
             /\ radio' = [r EXCEPT ![n] = "RX", ![Peer(n)] = "OVERFLOW"]

------------------------------------------------------------------------------
(* slink_init                                                              *)

NoPacket == [cseq |-> 0, data |-> <<>>, timeout |-> 0]

Init ==
  /\ host = Input
  /\ pc = [n \in Node |-> "put"]
  /\ txbuf = [n \in Node |-> <<>>]
  /\ rxbuf = [n \in Node |-> <<>>]
  /\ txseq = [n \in Node |-> 1]
  /\ rxseq = [n \in Node |-> 0]
  /\ txpkt = [n \in Node |-> NoPacket]
  /\ radio = [n \in Node |-> "IDLE"]
  /\ fifo = [n \in Node |-> <<>>]
  /\ accepted = [n \in Node |-> <<>>]
  /\ taken = [n \in Node |-> <<>>]
  /\ out = [n \in Node |-> <<>>]
  /\ dropped = [n \in Node |-> 0]

------------------------------------------------------------------------------
(* slink_flush(n), with buf in the transmit buffer, continuing at next     *)

DataPacket(t) == [seq |-> t.cseq, data |-> t.data, crc |-> TRUE]

\* The last packet is not acknowledged: count a poll, or send it again.
AwaitAck(n, buf, next) ==
  /\ txpkt[n].timeout > 1
  /\ txpkt' = [txpkt EXCEPT ![n].timeout = @ - 1]
  /\ txbuf' = [txbuf EXCEPT ![n] = buf]
  /\ pc' = [pc EXCEPT ![n] = next]
  /\ UNCHANGED <<txseq, air>>

\* Mistaken variant: the copy gets a sequence number of its own.
ResendFresh(n, buf, next) ==
  LET t == [txpkt[n] EXCEPT !.cseq = txseq[n], !.timeout = ResendAfter]
  IN  /\ txpkt[n].timeout = 1
      /\ txpkt' = [txpkt EXCEPT ![n] = t]
      /\ txseq' = [txseq EXCEPT ![n] = SuccSeq(@)]
      /\ txbuf' = [txbuf EXCEPT ![n] = buf]
      /\ slink_send(n, DataPacket(t), radio, fifo, next)

Resend(n, buf, next) ==
  /\ txpkt[n].timeout = 1
  /\ txpkt' = [txpkt EXCEPT ![n].timeout = ResendAfter]
  /\ txbuf' = [txbuf EXCEPT ![n] = buf]
  /\ slink_send(n, DataPacket(txpkt[n]), radio, fifo, next)
  /\ UNCHANGED txseq

NothingToSend(n, buf, next) ==
  /\ txpkt[n].timeout = 0
  /\ buf = <<>>
  /\ txbuf' = [txbuf EXCEPT ![n] = buf]
  /\ pc' = [pc EXCEPT ![n] = next]
  /\ UNCHANGED <<txseq, txpkt, air>>

\* A fresh packet takes what the buffer holds, up to the maximum payload.
SendNew(n, buf, next) ==
  LET k == IF Len(buf) < MaxPayload THEN Len(buf) ELSE MaxPayload
      t == [cseq |-> txseq[n], data |-> SubSeq(buf, 1, k), timeout |-> ResendAfter]
  IN  /\ txpkt[n].timeout = 0
      /\ buf # <<>>
      /\ txpkt' = [txpkt EXCEPT ![n] = t]
      /\ txseq' = [txseq EXCEPT ![n] = SuccSeq(@)]
      /\ txbuf' = [txbuf EXCEPT ![n] = SubSeq(buf, k + 1, Len(buf))]
      /\ slink_send(n, DataPacket(t), radio, fifo, next)

slink_flush(n, buf, next) ==
  \/ AwaitAck(n, buf, next)
  \/ Resend(n, buf, next)
  \/ NothingToSend(n, buf, next)
  \/ SendNew(n, buf, next)

------------------------------------------------------------------------------
(* The main loop: bytes from the USB host                                  *)

slink_avail(n) == BufSize - Len(txbuf[n])

\* slink_put: a byte for which there is no room is lost, the caller does
\* not look at the result; a full packet's worth of bytes starts a flush.
PutByte(n) ==
  LET room == Len(txbuf[n]) < BufSize - 1
      c == Head(host[n])
      buf == IF room THEN Append(txbuf[n], c) ELSE txbuf[n]
  IN  /\ pc[n] = "put"
      /\ slink_avail(n) > 0
      /\ host[n] # <<>>
      /\ host' = [host EXCEPT ![n] = Tail(@)]
      /\ accepted' = IF room THEN [accepted EXCEPT ![n] = Append(@, c)] ELSE accepted
      /\ \/ /\ Len(buf) >= MaxPayload
            /\ slink_flush(n, buf, "put")
         \/ /\ Len(buf) < MaxPayload
            /\ txbuf' = [txbuf EXCEPT ![n] = buf]
            /\ UNCHANGED <<pc, txseq, txpkt, air>>
      /\ UNCHANGED <<rxbuf, rxseq, taken, out, dropped>>

\* The host has no byte right now (or never again): poll the link.
HostPauses(n) ==
  /\ pc[n] = "put"
  /\ pc' = [pc EXCEPT ![n] = "receive"]
  /\ UNCHANGED <<host, link, air, history>>

------------------------------------------------------------------------------
(* slink_elements, first half: slink_receive                               *)

\* on(): out of RX, the chip is switched back to it and its FIFO flushed.
ReceiverOn(n) ==
  /\ pc[n] = "receive"
  /\ radio[n] # "RX"
  /\ radio' = [radio EXCEPT ![n] = "RX"]
  /\ fifo' = [fifo EXCEPT ![n] = <<>>]
  /\ pc' = [pc EXCEPT ![n] = "flush"]
  /\ UNCHANGED <<host, link, history>>

NothingReceived(n) ==
  /\ pc[n] = "receive"
  /\ radio[n] = "RX"
  /\ fifo[n] = <<>>
  /\ pc' = [pc EXCEPT ![n] = "flush"]
  /\ UNCHANGED <<host, link, air, history>>

\* slink_recv reads the first packet and throws the rest of the FIFO away.
Received(n) ==
  /\ pc[n] = "receive"
  /\ radio[n] = "RX"
  /\ fifo[n] # <<>>

First(n) == Head(fifo[n])
Emptied(n) == [fifo EXCEPT ![n] = <<>>]

\* A data packet that is neither the next one nor a copy of the last one.
OutOfSequence(n) ==
  /\ First(n).crc
  /\ ~IsAck(First(n))
  /\ First(n).seq \notin {rxseq[n], SuccSeq(rxseq[n])}

TurnOff(n) ==
  /\ radio' = [radio EXCEPT ![n] = "IDLE"]
  /\ fifo' = Emptied(n)
  /\ pc' = [pc EXCEPT ![n] = "flush"]
  /\ UNCHANGED <<host, link, history>>

\* Mistaken variant: a packet out of sequence makes the receiver follow it.
RejectOrFollow(n) ==
  /\ Received(n)
  /\ \/ ~First(n).crc /\ TurnOff(n)
     \/ /\ OutOfSequence(n)
        /\ rxseq' = [rxseq EXCEPT ![n] = First(n).seq]
        /\ slink_send(n, [First(n) EXCEPT !.data = <<>>], radio, Emptied(n), "flush")
        /\ UNCHANGED <<host, txbuf, rxbuf, txseq, txpkt, history>>

\* A damaged packet, or one out of sequence, is not answered, and the receiver
\* is off until the next poll.
Reject(n) ==
  /\ Received(n)
  /\ ~First(n).crc \/ OutOfSequence(n)
  /\ TurnOff(n)

\* Mistaken variants: the number is compared with that of the next packet,
\* or any empty packet counts as the acknowledgement.
ReceiveAckNext(n) ==
  /\ Received(n)
  /\ First(n).crc
  /\ IsAck(First(n))
  /\ txpkt' = IF txseq[n] = First(n).seq
              THEN [txpkt EXCEPT ![n].timeout = 0] ELSE txpkt
  /\ fifo' = Emptied(n)
  /\ pc' = [pc EXCEPT ![n] = "flush"]
  /\ UNCHANGED <<host, txbuf, rxbuf, txseq, rxseq, radio, history>>

ReceiveAckAny(n) ==
  /\ Received(n)
  /\ First(n).crc
  /\ IsAck(First(n))
  /\ txpkt' = [txpkt EXCEPT ![n].timeout = 0]
  /\ fifo' = Emptied(n)
  /\ pc' = [pc EXCEPT ![n] = "flush"]
  /\ UNCHANGED <<host, txbuf, rxbuf, txseq, rxseq, radio, history>>

\* An empty packet acknowledges the packet in the air, or is out of date.
ReceiveAck(n) ==
  /\ Received(n)
  /\ First(n).crc
  /\ IsAck(First(n))
  /\ txpkt' = IF txpkt[n].cseq = First(n).seq
              THEN [txpkt EXCEPT ![n].timeout = 0] ELSE txpkt
  /\ fifo' = Emptied(n)
  /\ pc' = [pc EXCEPT ![n] = "flush"]
  /\ UNCHANGED <<host, txbuf, rxbuf, txseq, rxseq, radio, history>>

Ack(p) == [p EXCEPT !.data = <<>>]

\* Mistaken variant: the copy is taken over once more.
DuplicateTakenOver(n) ==
  /\ Received(n)
  /\ First(n).crc
  /\ ~IsAck(First(n))
  /\ First(n).seq = rxseq[n]
  /\ Len(rxbuf[n]) + Len(First(n).data) < BufSize
  /\ rxbuf' = [rxbuf EXCEPT ![n] = @ \o First(n).data]
  /\ taken' = [taken EXCEPT ![n] = @ \o First(n).data]
  /\ slink_send(n, Ack(First(n)), radio, Emptied(n), "flush")
  /\ UNCHANGED <<host, txbuf, txseq, rxseq, txpkt, accepted, out, dropped>>

\* The same packet again: our acknowledgement was lost, send it again.
ReceiveDuplicate(n) ==
  /\ Received(n)
  /\ First(n).crc
  /\ ~IsAck(First(n))
  /\ First(n).seq = rxseq[n]
  /\ slink_send(n, Ack(First(n)), radio, Emptied(n), "flush")
  /\ UNCHANGED <<host, link, history>>

\* Mistaken variant: the spare slot of the ring buffer is counted as room.
FittingFull(n, d) ==
  LET room == BufSize - Len(rxbuf[n])
  IN  SubSeq(d, 1, IF Len(d) < room THEN Len(d) ELSE room)

\* Each byte goes to ringbuf_put, whose result is ignored: the bytes of d
\* for which the receive buffer has room.
Fitting(n, d) ==
  LET room == BufSize - 1 - Len(rxbuf[n])
  IN  SubSeq(d, 1, IF Len(d) < room THEN Len(d) ELSE room)

\* The next packet is taken over, what does not fit is lost, and the whole
\* of it is acknowledged.
ReceiveData(n) ==
  LET d == First(n).data
  IN  /\ Received(n)
      /\ First(n).crc
      /\ ~IsAck(First(n))
      /\ First(n).seq # rxseq[n]
      /\ First(n).seq = SuccSeq(rxseq[n])
      /\ rxbuf' = [rxbuf EXCEPT ![n] = @ \o Fitting(n, d)]
      /\ rxseq' = [rxseq EXCEPT ![n] = First(n).seq]
      /\ slink_send(n, Ack(First(n)), radio, Emptied(n), "flush")
      /\ taken' = [taken EXCEPT ![n] = @ \o d]
      /\ dropped' = [dropped EXCEPT ![n] = @ + (Len(d) - Len(Fitting(n, d)))]
      /\ UNCHANGED <<host, txbuf, txseq, txpkt, accepted, out>>

slink_receive(n) ==
  \/ ReceiverOn(n)
  \/ NothingReceived(n)
  \/ Reject(n)
  \/ ReceiveAck(n)
  \/ ReceiveDuplicate(n)
  \/ ReceiveData(n)

------------------------------------------------------------------------------
(* slink_elements, second half, and the byte it announces                  *)

FlushOnPoll(n) ==
  /\ pc[n] = "flush"
  /\ slink_flush(n, txbuf[n], IF rxbuf[n] # <<>> THEN "get" ELSE "put")
  /\ UNCHANGED <<host, rxbuf, rxseq, history>>

\* Mistaken variant: the byte is read but stays in the buffer.
GetBytePeek(n) ==
  /\ pc[n] = "get"
  /\ out' = [out EXCEPT ![n] = Append(@, Head(rxbuf[n]))]
  /\ pc' = [pc EXCEPT ![n] = "receive"]
  /\ UNCHANGED <<host, link, air, accepted, taken, dropped>>

\* CDC_Device_SendByte(slink_get()): one byte for each call of
\* slink_elements, so one byte for each packet that may have come in.
GetByte(n) ==
  /\ pc[n] = "get"
  /\ out' = [out EXCEPT ![n] = Append(@, Head(rxbuf[n]))]
  /\ rxbuf' = [rxbuf EXCEPT ![n] = Tail(@)]
  /\ pc' = [pc EXCEPT ![n] = "receive"]
  /\ UNCHANGED <<host, txbuf, txseq, rxseq, txpkt, air, accepted, taken, dropped>>

Loop(n) ==
  \/ PutByte(n)
  \/ HostPauses(n)
  \/ slink_receive(n)
  \/ FlushOnPoll(n)
  \/ GetByte(n)

Next == \E n \in Node : Loop(n)

Spec == Init /\ [][Next]_vars

------------------------------------------------------------------------------
(* Fairness                                                                *)

\* The step hands a packet to the radio: a fresh or repeated data packet, or
\* an acknowledgement.
Transmits(n) ==
  \/ txpkt[n].timeout <= 1 /\ txpkt'[n].timeout = ResendAfter
  \/ ReceiveData(n)
  \/ ReceiveDuplicate(n)

\* What is transmitted to a listening peer arrives intact, and the peer has
\* read what came before.
Undisturbed ==
  \A n \in Node :
    Transmits(n) /\ radio[Peer(n)] = "RX" =>
      /\ fifo[Peer(n)] = <<>>
      /\ Len(fifo'[Peer(n)]) = 1
      /\ fifo'[Peer(n)][1].crc

\* Both main loops keep running.  The air may lose, damage and bunch packets
\* any number of times, but not for ever: a packet takes milliseconds, a
\* poll microseconds, and RESEND_AFTER is 10000 polls.
Fairness ==
  /\ \A n \in Node : WF_vars(Loop(n))
  /\ <>[][Undisturbed]_vars

FairSpec == Spec /\ Fairness

------------------------------------------------------------------------------
(* Properties                                                              *)

TypeOK ==
  /\ host \in [Node -> Seq(Byte)]
  /\ pc \in [Node -> {"put", "receive", "flush", "get", "hung"}]
  /\ txbuf \in [Node -> Seq(Byte)]
  /\ rxbuf \in [Node -> Seq(Byte)]
  /\ \A n \in Node : Len(txbuf[n]) < BufSize /\ Len(rxbuf[n]) < BufSize
  /\ txseq \in [Node -> 0 .. SeqMod - 1]
  /\ rxseq \in [Node -> 0 .. SeqMod - 1]
  /\ txpkt \in [Node -> [cseq : 0 .. SeqMod - 1, data : Seq(Byte),
                         timeout : 0 .. ResendAfter]]
  /\ radio \in [Node -> {"IDLE", "RX", "OVERFLOW"}]
  /\ fifo \in [Node -> Seq(Packet)]
  /\ accepted \in [Node -> Seq(Byte)]
  /\ taken \in [Node -> Seq(Byte)]
  /\ out \in [Node -> Seq(Byte)]
  /\ dropped \in [Node -> Nat]

\* The bytes of the packet in the air, as long as the peer lacks them.
InAir(n) ==
  IF rxseq[Peer(n)] = txpkt[n].cseq THEN <<>> ELSE txpkt[n].data

\* Exactly once and in order, over lost and damaged packets, lost
\* acknowledgements, retransmissions and wrapped sequence numbers: what the
\* peer took over, followed by the packet it still lacks and by the transmit
\* buffer, is what was accepted from the host.
StreamIntact ==
  \A n \in Node : accepted[n] = taken[Peer(n)] \o InAir(n) \o txbuf[n]

\* A packet counts as acknowledged only when the peer took it over.
AckedMeansTaken ==
  \A n \in Node : txpkt[n].timeout = 0 => rxseq[Peer(n)] = txpkt[n].cseq

\* Between two ends that started together no packet is ever out of sequence:
\* the rejection at seriallink.c:436, which nothing recovers from, is dead.
InSequence ==
  \A n \in Node :
    Received(n) /\ ~IsAck(First(n)) =>
      First(n).seq \in {rxseq[n], SuccSeq(rxseq[n])}

\* Bytes disappear after the acknowledgement only in a full receive buffer,
\* and each such byte is accounted for.
LossIsOverflow ==
  \A n \in Node :
    /\ Len(out[n]) + Len(rxbuf[n]) + dropped[n] = Len(taken[n])
    /\ dropped[n] = 0 => out[n] \o rxbuf[n] = taken[n]

\* Each direction implements a byte stream.
From0 == INSTANCE ByteStream WITH
  sent <- accepted[0], taken <- taken[1], got <- out[1] \o rxbuf[1]
From1 == INSTANCE ByteStream WITH
  sent <- accepted[1], taken <- taken[0], got <- out[0] \o rxbuf[0]

StreamFrom0 == From0!Spec
StreamFrom1 == From1!Spec

\* Both do, at the same time: acknowledgements of one direction cross the
\* packets of the other.
ByteStreams == StreamFrom0 /\ StreamFrom1

\* Everything accepted is taken over and leaves through the peer's USB port,
\* unless a node hangs in a radio whose FIFO has overflowed.
Delivered ==
  \A n \in Node : accepted[n] = taken[Peer(n)] /\ rxbuf[Peer(n)] = <<>>

NobodyHangs == \A n \in Node : pc[n] # "hung"

EventuallyDelivered == []NobodyHangs => <>[]Delivered
==============================================================================
