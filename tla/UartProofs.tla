----------------------------- MODULE UartProofs ------------------------------
(***************************************************************************)
(* Proofs about Uart for every size of the rings and of the line buffer,   *)
(* every list of lines and every size of an answer: both rings hand on     *)
(* what they were given, in order, wherever the interrupts fall, and no    *)
(* byte stays in the transmit ring with the interrupt off.                 *)
(***************************************************************************)
EXTENDS Uart, SequenceTheorems, WellFoundedInduction, TLAPS

------------------------------------------------------------------------------
(* The ring as a sequence                                                  *)

\* Up to twice the size the remainder is a subtraction.
LEMMA Wrap ==
  ASSUME NEW x \in 0 .. 2 * Size - 1
  PROVE  x % Size = (IF x < Size THEN x ELSE x - Size) /\ x % Size \in Slot
  BY ConstantAssumption DEF Slot

LEMMA WrapSum ==
  ASSUME NEW a \in Slot, NEW k \in 0 .. Size
  PROVE  /\ (a + k) % Size = IF a + k < Size THEN a + k ELSE a + k - Size
         /\ (a + k) % Size \in Slot
  BY ConstantAssumption DEF Slot

LEMMA SizeIsNat == Size \in Nat /\ Size >= 2
  BY ConstantAssumption

LEMMA FollowingSlot ==
  ASSUME NEW i \in Slot
  PROVE  /\ Following(i) \in Slot
         /\ Following(i) = IF i + 1 < Size THEN i + 1 ELSE 0
<1>1. i + 1 \in 0 .. 2 * Size - 1
  BY SizeIsNat DEF Slot
<1> QED
  BY <1>1, Wrap, SizeIsNat DEF Following, Slot

LEMMA FollowingApart ==
  ASSUME NEW i \in Slot, NEW j \in Slot, i # j
  PROVE  Following(i) # Following(j)
<1>1. /\ Following(i) = IF i + 1 < Size THEN i + 1 ELSE 0
      /\ Following(j) = IF j + 1 < Size THEN j + 1 ELSE 0
  BY FollowingSlot
<1> QED
  BY <1>1, SizeIsNat DEF Slot

\* How many bytes a ring holds.
Count(head, tail) == (head + Size - tail) % Size

LEMMA CountIs ==
  ASSUME NEW h \in Slot, NEW t \in Slot
  PROVE  /\ Count(h, t) = IF h >= t THEN h - t ELSE h + Size - t
         /\ Count(h, t) \in 0 .. Size - 1
<1>1. h + Size - t \in 0 .. 2 * Size - 1
  BY SizeIsNat DEF Slot
<1> QED
  BY <1>1, Wrap, SizeIsNat DEF Count, Slot

LEMMA RingIsSeq ==
  ASSUME NEW S, NEW buf \in [Slot -> S], NEW h \in Slot, NEW t \in Slot
  PROVE  Ring(buf, h, t) \in Seq(S) /\ Len(Ring(buf, h, t)) = Count(h, t)
<1>1. Count(h, t) \in 0 .. Size - 1
  BY CountIs
<1>2. ASSUME NEW i \in 1 .. Count(h, t)
      PROVE  (t + i) % Size \in Slot
  <2>1. i \in 0 .. Size
    BY <1>1, SizeIsNat
  <2> QED
    BY <2>1, WrapSum
<1>3. Ring(buf, h, t) = [i \in 1 .. Count(h, t) |-> buf[(t + i) % Size]]
  BY DEF Ring, Count
<1>4. Count(h, t) \in Nat
  BY <1>1, SizeIsNat
<1> QED
  BY <1>2, <1>3, <1>4

LEMMA RingAt ==
  ASSUME NEW buf, NEW h, NEW t, NEW i \in 1 .. Count(h, t)
  PROVE  Ring(buf, h, t)[i] = buf[(t + i) % Size]
  BY DEF Ring, Count

\* A store into the slot after the head is outside the ring.
LEMMA StoreOutside ==
  ASSUME NEW buf, DOMAIN buf = Slot, NEW h \in Slot, NEW t \in Slot,
         NEW c, Following(h) # t
  PROVE  Ring([buf EXCEPT ![Following(h)] = c], h, t) = Ring(buf, h, t)
<1>1. Count(h, t) \in 0 .. Size - 1
  BY CountIs
<1>2. ASSUME NEW i \in 1 .. Count(h, t)
      PROVE  [buf EXCEPT ![Following(h)] = c][(t + i) % Size] = buf[(t + i) % Size]
  <2>1. i \in 0 .. Size
    BY <1>1, SizeIsNat
  <2>2. /\ (t + i) % Size = (IF t + i < Size THEN t + i ELSE t + i - Size)
        /\ (t + i) % Size \in Slot
    BY <2>1, WrapSum
  <2>3. Following(h) = IF h + 1 < Size THEN h + 1 ELSE 0
    BY FollowingSlot
  <2>4. Count(h, t) = IF h >= t THEN h - t ELSE h + Size - t
    BY CountIs
  <2>5. (t + i) % Size # Following(h)
    BY <1>1, <2>2, <2>3, <2>4, SizeIsNat DEF Slot
  <2> QED
    BY <2>2, <2>5
<1> QED
  BY <1>2 DEF Ring, Count

\* A new head takes the byte behind it into the ring.
LEMMA PublishAppends ==
  ASSUME NEW S, NEW buf \in [Slot -> S], NEW h \in Slot, NEW t \in Slot,
         Following(h) # t
  PROVE  Ring(buf, Following(h), t) = Append(Ring(buf, h, t), buf[Following(h)])
<1> DEFINE n == Count(h, t)
           f == Following(h)
           old == Ring(buf, h, t)
           new == Ring(buf, f, t)
<1>1. f \in Slot /\ f = IF h + 1 < Size THEN h + 1 ELSE 0
  BY FollowingSlot
<1>2. n \in 0 .. Size - 1 /\ n = IF h >= t THEN h - t ELSE h + Size - t
  BY CountIs
<1>3. Count(f, t) = n + 1
  <2>1. Count(f, t) = IF f >= t THEN f - t ELSE f + Size - t
    BY <1>1, CountIs
  <2> QED
    BY <1>1, <1>2, <2>1, SizeIsNat DEF Slot
<1>4. (t + (n + 1)) % Size = f
  <2>1. n + 1 \in 0 .. Size
    BY <1>2, SizeIsNat
  <2>2. (t + (n + 1)) % Size = IF t + (n + 1) < Size THEN t + (n + 1)
                                                     ELSE t + (n + 1) - Size
    BY <2>1, WrapSum
  <2> QED
    BY <1>1, <1>2, <2>2, SizeIsNat DEF Slot
<1>5. old \in Seq(S) /\ Len(old) = n
  BY RingIsSeq
<1>5a. \A i \in 1 .. n : old[i] = buf[(t + i) % Size]
  BY RingAt
<1>6. /\ new \in Seq(S) /\ Len(new) = n + 1
      /\ \A i \in 1 .. n + 1 : new[i] = buf[(t + i) % Size]
  <2>1. new \in Seq(S) /\ Len(new) = Count(f, t)
    BY <1>1, RingIsSeq
  <2>2. \A i \in 1 .. Count(f, t) : new[i] = buf[(t + i) % Size]
    BY RingAt
  <2> QED
    BY <1>3, <2>1, <2>2
<1>7. buf[f] \in S
  BY <1>1
<1>8. /\ Append(old, buf[f]) \in Seq(S)
      /\ Len(Append(old, buf[f])) = n + 1
      /\ \A i \in 1 .. n : Append(old, buf[f])[i] = old[i]
      /\ Append(old, buf[f])[n + 1] = buf[f]
  BY <1>5, <1>7, AppendProperties
<1>9. \A i \in 1 .. n + 1 : new[i] = Append(old, buf[f])[i]
  BY <1>2, <1>4, <1>5a, <1>6, <1>8, SizeIsNat
<1> HIDE DEF n, f, old, new
<1>10. new = Append(old, buf[f])
  BY <1>6, <1>8, <1>9, SeqEqual
<1> QED
  BY <1>10 DEF f, old, new

\* A new tail gives up the oldest byte.
LEMMA AdvanceRemoves ==
  ASSUME NEW S, NEW buf \in [Slot -> S], NEW h \in Slot, NEW t \in Slot, h # t
  PROVE  Ring(buf, h, t) = <<buf[Following(t)]>> \o Ring(buf, h, Following(t))
<1> DEFINE n == Count(h, t)
           f == Following(t)
           old == Ring(buf, h, t)
           new == Ring(buf, h, f)
<1>1. f \in Slot /\ f = IF t + 1 < Size THEN t + 1 ELSE 0
  BY FollowingSlot
<1>2. n \in 1 .. Size - 1 /\ n = IF h >= t THEN h - t ELSE h + Size - t
  <2>1. n \in 0 .. Size - 1 /\ n = IF h >= t THEN h - t ELSE h + Size - t
    BY CountIs
  <2> QED
    BY <2>1, SizeIsNat DEF Slot
<1>3. Count(h, f) = n - 1
  <2>1. Count(h, f) = IF h >= f THEN h - f ELSE h + Size - f
    BY <1>1, CountIs
  <2> QED
    BY <1>1, <1>2, <2>1, SizeIsNat DEF Slot
<1>4. old \in Seq(S) /\ Len(old) = n
  BY RingIsSeq
<1>4a. \A i \in 1 .. n : old[i] = buf[(t + i) % Size]
  BY RingAt
<1>5. /\ new \in Seq(S) /\ Len(new) = n - 1
      /\ \A i \in 1 .. n - 1 : new[i] = buf[(f + i) % Size]
  <2>1. new \in Seq(S) /\ Len(new) = Count(h, f)
    BY <1>1, RingIsSeq
  <2>2. \A i \in 1 .. Count(h, f) : new[i] = buf[(f + i) % Size]
    BY RingAt
  <2> QED
    BY <1>3, <2>1, <2>2
<1>6. ASSUME NEW i \in 1 .. n - 1
      PROVE  (f + i) % Size = (t + (i + 1)) % Size
  <2>1. i \in 0 .. Size /\ i + 1 \in 0 .. Size
    BY <1>2, SizeIsNat
  <2>2. /\ (f + i) % Size = (IF f + i < Size THEN f + i ELSE f + i - Size)
        /\ (t + (i + 1)) % Size =
             (IF t + (i + 1) < Size THEN t + (i + 1) ELSE t + (i + 1) - Size)
    BY <1>1, <2>1, WrapSum
  <2> QED
    BY <1>1, <1>2, <2>2, SizeIsNat DEF Slot
<1>7. buf[f] \in S
  BY <1>1
<1>8. /\ <<buf[f]>> \o new \in Seq(S)
      /\ Len(<<buf[f]>> \o new) = n
      /\ (<<buf[f]>> \o new)[1] = buf[f]
      /\ \A i \in 2 .. n : (<<buf[f]>> \o new)[i] = new[i - 1]
  BY <1>2, <1>5, <1>7, SizeIsNat
<1>9. old[1] = buf[f]
  BY <1>2, <1>4a DEF Following
<1>10. ASSUME NEW i \in 2 .. n
       PROVE  old[i] = new[i - 1]
  <2>1. i - 1 \in 1 .. n - 1 /\ (i - 1) + 1 = i /\ i \in 1 .. n
    BY <1>2, SizeIsNat
  <2>2. (f + (i - 1)) % Size = (t + i) % Size
    BY <1>6, <2>1
  <2> QED
    BY <1>4a, <1>5, <2>1, <2>2
<1>11. \A i \in 1 .. n : old[i] = (<<buf[f]>> \o new)[i]
  BY <1>2, <1>8, <1>9, <1>10, SizeIsNat
<1> HIDE DEF n, f, old, new
<1>12. old = <<buf[f]>> \o new
  BY <1>4, <1>8, <1>11, SeqEqual
<1> QED
  BY <1>12 DEF f, old, new

------------------------------------------------------------------------------
(* The inductive invariant                                                 *)

HistoryType ==
  /\ host \in Seq(Seq(Byte) \ {<<>>})
  /\ stored \in Seq(Byte) /\ fetched \in Seq(Byte)
  /\ put \in Seq(Nat) /\ sent \in Seq(Nat)

\* What uart_putc knows between its steps: the slot it goes for is the one
\* after the head and, from its test for room to its new head, not the tail.
PutInv ==
  /\ pc \in {"store", "publish", "enable"} => printing # <<>>
  /\ pc \in {"store", "publish"} => tmphead = Following(UART_TxHead)
  /\ pc = "publish" => tmphead # UART_TxTail /\ UART_TxBuf[tmphead] = Head(printing)

IInv == TypeOK /\ HistoryType /\ PutInv /\ ReceivedInOrder /\ SentInOrder /\ NothingStranded

LEMMA EmptyRing ==
  ASSUME NEW S, NEW buf \in [Slot -> S]
  PROVE  Ring(buf, 0, 0) = <<>>
<1>1. 0 \in Slot
  BY SizeIsNat DEF Slot
<1>2. Count(0, 0) = 0
  BY <1>1, CountIs, SizeIsNat
<1>3. Ring(buf, 0, 0) \in Seq(S) /\ Len(Ring(buf, 0, 0)) = 0
  BY <1>1, <1>2, RingIsSeq
<1> QED
  BY <1>3, EmptySeq

LEMMA InitIInv == Init => IInv
<1> SUFFICES ASSUME Init
             PROVE  IInv
  OBVIOUS
<1>1. 0 \in Slot
  BY SizeIsNat DEF Slot
<1>2. TypeOK
  BY <1>1, ConstantAssumption DEF Init, TypeOK
<1>3. HistoryType /\ PutInv /\ NothingStranded
  BY LineAssumption DEF Init, HistoryType, PutInv, NothingStranded
<1>4. RxRing = <<>> /\ TxRing = <<>>
  BY <1>2, EmptyRing DEF Init, RxRing, TxRing, TypeOK
<1>5. ReceivedInOrder /\ SentInOrder
  BY <1>4 DEF Init, ReceivedInOrder, SentInOrder, Getting, Putting
<1> QED
  BY <1>2, <1>3, <1>5 DEF IInv

------------------------------------------------------------------------------
(* Sequences                                                               *)

LEMMA AppendConcat ==
  ASSUME NEW S, NEW s \in Seq(S), NEW r \in Seq(S), NEW e \in S
  PROVE  s \o Append(r, e) = Append(s \o r, e)
  OBVIOUS

LEMMA MoveOne ==
  ASSUME NEW S, NEW s \in Seq(S), NEW r \in Seq(S), NEW e \in S
  PROVE  Append(s, e) \o r = s \o (<<e>> \o r)
  OBVIOUS

LEMMA GettingType ==
  ASSUME TypeOK
  PROVE  Getting \in Seq(Byte \cup {0})
<1> DEFINE T == Byte \cup {0}
<1>1. UART_RxBuf[UART_RxTail] \in T /\ data \in T
  BY DEF TypeOK
<1> HIDE DEF T
<1>2. <<UART_RxBuf[UART_RxTail]>> \in Seq(T) /\ <<data>> \in Seq(T) /\ <<>> \in Seq(T)
  BY <1>1
<1>3. Getting \in Seq(T)
  BY <1>2 DEF Getting
<1> QED
  BY <1>3 DEF T

------------------------------------------------------------------------------
(* The host and the receive interrupt                                      *)

LEMMA LongTail ==
  ASSUME NEW S, NEW q \in Seq(S) \ {<<>>}, Len(q) # 1
  PROVE  Tail(q) \in Seq(S) \ {<<>>}
<1>1. Len(q) \in Nat /\ Len(q) # 0
  BY EmptySeq
<1>2. Tail(q) \in Seq(S) /\ Len(Tail(q)) = Len(q) - 1
  BY HeadTailProperties
<1>3. Len(Tail(q)) # 0
  BY <1>1, <1>2
<1> QED
  BY <1>2, <1>3, EmptySeq

LEMMA HostByte ==
  ASSUME HistoryType, host # <<>>
  PROVE  Head(Head(host)) \in Byte /\ RestOfHost \in Seq(Seq(Byte) \ {<<>>})
<1>1. /\ Head(host) \in Seq(Byte) \ {<<>>}
      /\ Tail(host) \in Seq(Seq(Byte) \ {<<>>})
  BY DEF HistoryType
<1>2. Head(Head(host)) \in Byte
  BY <1>1
<1>3. CASE Len(Head(host)) = 1
  BY <1>1, <1>2, <1>3 DEF RestOfHost
<1>4. CASE Len(Head(host)) # 1
  <2>1. Tail(Head(host)) \in Seq(Byte) \ {<<>>}
    BY <1>1, <1>4, LongTail
  <2>2. <<Tail(Head(host))>> \in Seq(Seq(Byte) \ {<<>>})
    BY <2>1
  <2>3. <<Tail(Head(host))>> \o Tail(host) \in Seq(Seq(Byte) \ {<<>>})
    BY <1>1, <2>2
  <2> QED
    BY <1>2, <1>4, <2>3 DEF RestOfHost
<1> QED
  BY <1>3, <1>4

LEMMA RxInterruptStep ==
  ASSUME IInv, NEW e \in {"none", "frame"}, RxInterrupt(e)
  PROVE  IInv'
<1> DEFINE c == Head(Head(host))
           next == Following(UART_RxHead)
<1>1. c \in Byte /\ host' \in Seq(Seq(Byte) \ {<<>>})
  BY HostByte DEF RxInterrupt, IInv
<1>2. next \in Slot
  BY FollowingSlot DEF IInv, TypeOK
<1>3. UNCHANGED <<UART_RxTail, tx, main, fetched, answers, put, sent>>
  BY DEF RxInterrupt
<1>4. TypeOK'
  <2>1. /\ UART_RxBuf' \in [Slot -> Byte \cup {0}]
        /\ UART_RxHead' \in Slot
        /\ UART_LastRxError' \in {"none", "frame", "overflow"}
    BY <1>1, <1>2 DEF RxInterrupt, IInv, TypeOK
  <2> QED
    BY <1>3, <2>1 DEF tx, main, IInv, TypeOK
<1>5. HistoryType'
  <2>1. stored' \in Seq(Byte)
    <3>1. stored' = stored \/ stored' = Append(stored, c)
      BY DEF RxInterrupt
    <3>2. stored \in Seq(Byte)
      BY DEF IInv, HistoryType
    <3>3. Append(stored, c) \in Seq(Byte)
      BY <1>1, <3>2, AppendProperties
    <3> QED
      BY <3>1, <3>2, <3>3
  <2> QED
    BY <1>1, <1>3, <2>1 DEF IInv, HistoryType
<1>6. PutInv' /\ NothingStranded'
  BY <1>3 DEF tx, main, IInv, PutInv, NothingStranded
<1>7. SentInOrder'
  BY <1>3 DEF tx, main, IInv, SentInOrder, TxRing, Putting
<1>8. ReceivedInOrder'
  <2>1. CASE next = UART_RxTail
    BY <1>3, <2>1 DEF RxInterrupt, main, IInv, ReceivedInOrder, RxRing, Getting
  <2>2. CASE next # UART_RxTail
    <3>1. /\ UART_RxHead' = next
          /\ UART_RxBuf' = [UART_RxBuf EXCEPT ![next] = c]
          /\ stored' = Append(stored, c)
      BY <2>2 DEF RxInterrupt
    <3>2. /\ UART_RxBuf \in [Slot -> Byte \cup {0}] /\ UART_RxBuf' \in [Slot -> Byte \cup {0}]
          /\ UART_RxHead \in Slot /\ UART_RxTail \in Slot
          /\ c \in Byte \cup {0}
      BY <1>1, <1>4 DEF IInv, TypeOK
    <3>3. RxRing' = Append(RxRing, c)
      <4>1. Ring(UART_RxBuf', UART_RxHead, UART_RxTail) = RxRing
        <5>1. DOMAIN UART_RxBuf = Slot /\ Following(UART_RxHead) = next
              /\ Following(UART_RxHead) # UART_RxTail
          BY <2>2, <3>2
        <5>2. Ring([UART_RxBuf EXCEPT ![Following(UART_RxHead)] = c],
                   UART_RxHead, UART_RxTail) = Ring(UART_RxBuf, UART_RxHead, UART_RxTail)
          BY <3>2, <5>1, StoreOutside, ZenonT(60)
        <5> QED
          BY <3>1, <5>1, <5>2 DEF RxRing
      <4>2. Ring(UART_RxBuf', next, UART_RxTail) =
              Append(Ring(UART_RxBuf', UART_RxHead, UART_RxTail), UART_RxBuf'[next])
        BY <2>2, <3>2, PublishAppends
      <4>3. UART_RxBuf'[next] = c
        BY <1>2, <3>1, <3>2
      <4> QED
        BY <1>3, <3>1, <4>1, <4>2, <4>3 DEF RxRing
    <3>4. Getting' = Getting
      BY <1>3, <2>2, <3>1, <3>2 DEF Getting, main
    <3>5. /\ fetched \o Getting \in Seq(Byte \cup {0})
          /\ RxRing \in Seq(Byte \cup {0})
      <4>1. RxRing \in Seq(Byte \cup {0})
        BY <3>2, RingIsSeq DEF RxRing
      <4>2. Getting \in Seq(Byte \cup {0})
        BY GettingType DEF IInv
      <4>3. fetched \in Seq(Byte \cup {0})
        BY DEF IInv, HistoryType
      <4> QED
        BY <4>1, <4>2, <4>3
    <3>6. (fetched \o Getting) \o Append(RxRing, c) = Append((fetched \o Getting) \o RxRing, c)
      BY <3>2, <3>5, AppendConcat
    <3> QED
      BY <1>3, <3>1, <3>3, <3>4, <3>6 DEF IInv, ReceivedInOrder
  <2> QED
    BY <2>1, <2>2
<1> QED
  BY <1>4, <1>5, <1>6, <1>7, <1>8 DEF IInv

------------------------------------------------------------------------------
(* The transmit interrupt                                                  *)

\* The types of the sequences about the transmit ring.
LEMMA TxTypes ==
  ASSUME IInv
  PROVE  /\ UART_TxBuf \in [Slot -> Nat] /\ DOMAIN UART_TxBuf = Slot
         /\ UART_TxHead \in Slot /\ UART_TxTail \in Slot
         /\ TxRing \in Seq(Nat)
         /\ put \in Seq(Nat) /\ sent \in Seq(Nat) /\ printing \in Seq(Nat)
  BY RingIsSeq DEF IInv, TypeOK, HistoryType, TxRing

LEMMA TxInterruptStep ==
  ASSUME IInv, TxInterrupt
  PROVE  IInv'
<1> DEFINE tmptail == Following(UART_TxTail)
<1>1. UNCHANGED <<UART_TxBuf, UART_TxHead, rx, main, line, stored, fetched, answers, put>>
  BY DEF TxInterrupt
<1>2. tmptail \in Slot
  BY FollowingSlot, TxTypes
<1>3. TypeOK'
  <2>1. UART_TxTail' \in Slot /\ UDRIE' \in BOOLEAN
    BY <1>2 DEF TxInterrupt, IInv, TypeOK
  <2> QED
    BY <1>1, <2>1 DEF rx, main, IInv, TypeOK
<1>4. ReceivedInOrder'
  BY <1>1 DEF rx, main, IInv, ReceivedInOrder, RxRing, Getting
<1>5. CASE UART_TxHead = UART_TxTail
  <2>1. UNCHANGED <<UART_TxTail, sent>> /\ UDRIE' = FALSE
    BY <1>5 DEF TxInterrupt
  <2>2. HistoryType' /\ PutInv' /\ SentInOrder'
    BY <1>1, <2>1 DEF main, line, IInv, HistoryType, PutInv, SentInOrder, TxRing, Putting
  <2>3. NothingStranded'
    BY <1>1, <1>5, <2>1 DEF NothingStranded
  <2> QED
    BY <1>3, <1>4, <2>2, <2>3 DEF IInv
<1>6. CASE UART_TxHead # UART_TxTail
  <2>1. /\ UART_TxTail' = tmptail
        /\ sent' = Append(sent, UART_TxBuf[tmptail])
        /\ UDRIE' = UDRIE
    BY <1>6 DEF TxInterrupt
  <2>2. UART_TxBuf[tmptail] \in Nat
    BY <1>2, TxTypes
  <2>3. HistoryType'
    <3>1. sent' \in Seq(Nat)
      BY <2>1, <2>2, TxTypes, AppendProperties
    <3> QED
      BY <1>1, <3>1 DEF line, IInv, HistoryType
  <2>4. PutInv'
    <3>1. pc = "publish" => tmphead # tmptail
      <4>1. Following(UART_TxHead) # tmptail
        BY <1>6, TxTypes, FollowingApart
      <4> QED
        BY <4>1 DEF IInv, PutInv
    <3> QED
      BY <1>1, <2>1, <3>1 DEF main, IInv, PutInv
  <2>5. SentInOrder'
    <3>1. TxRing = <<UART_TxBuf[tmptail]>> \o TxRing'
      BY <1>1, <1>6, <2>1, TxTypes, AdvanceRemoves DEF TxRing
    <3>2. TxRing' \in Seq(Nat)
      BY <1>1, <1>2, <2>1, TxTypes, RingIsSeq DEF TxRing
    <3>3. sent' \o TxRing' = sent \o TxRing
      BY ZenonT(90), <2>1, <2>2, <3>1, <3>2, TxTypes, MoveOne
    <3> QED
      BY <1>1, <3>3 DEF main, IInv, SentInOrder, Putting
  <2>6. NothingStranded'
    BY <1>1, <1>6, <2>1 DEF main, IInv, NothingStranded
  <2> QED
    BY <1>3, <1>4, <2>3, <2>4, <2>5, <2>6 DEF IInv
<1> QED
  BY <1>5, <1>6

------------------------------------------------------------------------------
(* uart_getc and serial_periodic                                           *)

\* The byte in hand came in: it is not what the ring held at the start.
LEMMA InHandCameIn ==
  ASSUME IInv, pc = "status"
  PROVE  data \in Byte
<1> DEFINE T == Byte \cup {0}
<1>1. stored = fetched \o <<data>> \o RxRing
  BY DEF IInv, ReceivedInOrder, Getting
<1>2. fetched \in Seq(T) /\ data \in T /\ stored \in Seq(Byte)
  BY DEF IInv, HistoryType, TypeOK
<1>3. RxRing \in Seq(T)
  BY RingIsSeq DEF IInv, TypeOK, RxRing
<1> HIDE DEF T
<1>4. /\ Len(fetched) + 1 \in 1 .. Len(stored)
      /\ stored[Len(fetched) + 1] = data
  BY <1>1, <1>2, <1>3
<1> QED
  BY <1>2, <1>4, ElementOfSeq

\* What the steps of the receiving side leave alone.
LEMMA TransmitSideKept ==
  ASSUME IInv, UNCHANGED <<tx, tmphead, printing, put, sent>>,
         pc' = pc \/ {pc, pc'} \subseteq {"getc", "load", "status"}
  PROVE  PutInv' /\ SentInOrder' /\ NothingStranded'
  BY DEF tx, IInv, PutInv, SentInOrder, NothingStranded, TxRing, Putting

LEMMA GetAdvanceStep ==
  ASSUME IInv, GetAdvance
  PROVE  IInv'
<1>1. TypeOK'
  BY FollowingSlot DEF GetAdvance, tx, IInv, TypeOK
<1>2. HistoryType'
  BY DEF GetAdvance, line, IInv, HistoryType
<1>3. PutInv' /\ SentInOrder' /\ NothingStranded'
  BY TransmitSideKept DEF GetAdvance
<1>4. ReceivedInOrder'
  <2> DEFINE c == UART_RxBuf[Following(UART_RxTail)]
  <2>1. UART_RxBuf \in [Slot -> Byte \cup {0}] /\ UART_RxHead \in Slot /\ UART_RxTail \in Slot
    BY DEF IInv, TypeOK
  <2>2. RxRing = <<c>> \o RxRing'
    BY <2>1, AdvanceRemoves DEF GetAdvance, RxRing
  <2>3. Getting = <<>> /\ Getting' = <<c>>
    BY DEF GetAdvance, Getting
  <2>4. RxRing' \in Seq(Byte \cup {0}) /\ c \in Byte \cup {0}
    BY <2>1, FollowingSlot, RingIsSeq DEF GetAdvance, RxRing
  <2>5. fetched \in Seq(Byte \cup {0})
    BY DEF IInv, HistoryType
  <2>6. (fetched \o <<>>) \o (<<c>> \o RxRing') = (fetched \o <<c>>) \o RxRing'
    BY <2>4, <2>5
  <2> QED
    BY <2>2, <2>3, <2>6 DEF GetAdvance, IInv, ReceivedInOrder
<1> QED
  BY <1>1, <1>2, <1>3, <1>4 DEF IInv

LEMMA GetLoadStep ==
  ASSUME IInv, GetLoad
  PROVE  IInv'
<1>1. TypeOK'
  BY DEF GetLoad, rx, tx, IInv, TypeOK
<1>2. HistoryType'
  BY DEF GetLoad, line, IInv, HistoryType
<1>3. PutInv' /\ SentInOrder' /\ NothingStranded'
  BY TransmitSideKept DEF GetLoad
<1>4. ReceivedInOrder'
  BY DEF GetLoad, rx, IInv, ReceivedInOrder, RxRing, Getting
<1> QED
  BY <1>1, <1>2, <1>3, <1>4 DEF IInv

LEMMA GetStatusStep ==
  ASSUME IInv, GetStatus
  PROVE  IInv'
<1>1. data \in Byte
  BY InHandCameIn DEF GetStatus
<1>2. TypeOK'
  <2>1. buffer \in Seq(Byte) /\ Len(buffer) < LineSize /\ LineSize \in Nat \ {0}
    BY ConstantAssumption DEF IInv, TypeOK
  <2>2. Append(buffer, data) \in Seq(Byte) /\ Len(Append(buffer, data)) = Len(buffer) + 1
    BY <1>1, <2>1, AppendProperties
  <2>3. buffer' \in Seq(Byte) /\ Len(buffer') < LineSize
    <3>1. \/ buffer' = buffer
          \/ buffer' = <<>>
          \/ Len(buffer) + 1 # LineSize /\ buffer' = Append(buffer, data)
      BY DEF GetStatus
    <3>2. CASE buffer' = <<>>
      BY <2>1, <3>2
    <3>3. CASE Len(buffer) + 1 # LineSize /\ buffer' = Append(buffer, data)
      BY <2>1, <2>2, <3>3
    <3> QED
      BY <2>1, <3>1, <3>2, <3>3
  <2> QED
    BY <2>3 DEF GetStatus, rx, tx, IInv, TypeOK
<1>3. HistoryType'
  <2>1. fetched' \in Seq(Byte)
    BY <1>1, AppendProperties DEF GetStatus, IInv, HistoryType
  <2> QED
    BY <2>1 DEF GetStatus, line, IInv, HistoryType
<1>4. PutInv' /\ SentInOrder' /\ NothingStranded'
  BY TransmitSideKept DEF GetStatus
<1>5. ReceivedInOrder'
  <2>1. Getting = <<data>> /\ Getting' = <<>> /\ RxRing' = RxRing
    BY DEF GetStatus, Getting, rx, RxRing
  <2>2. fetched \in Seq(Byte)
    BY DEF IInv, HistoryType
  <2>3. fetched \o <<data>> = Append(fetched, data) \o <<>>
    BY <1>1, <2>2
  <2> QED
    BY <2>1, <2>3 DEF GetStatus, IInv, ReceivedInOrder
<1> QED
  BY <1>2, <1>3, <1>4, <1>5 DEF IInv

LEMMA ParseLineStep ==
  ASSUME IInv, ParseLine
  PROVE  IInv'
<1>1. printing' \in Seq(Nat) /\ answers' \in Nat
  <2>1. answers \in Nat /\ AnswerSize \in Nat
    BY ConstantAssumption DEF IInv, TypeOK
  <2>2. Answer(answers + 1) = [i \in 1 .. AnswerSize |-> answers * AnswerSize + i]
    BY <2>1 DEF Answer
  <2>3. answers * AnswerSize \in Nat
    BY <2>1
  <2>4. [i \in 1 .. AnswerSize |-> answers * AnswerSize + i] \in Seq(Nat)
    BY <2>1, <2>3
  <2> QED
    BY <2>1, <2>2, <2>4 DEF ParseLine
<1>2. TypeOK'
  BY <1>1 DEF ParseLine, rx, tx, IInv, TypeOK
<1>3. HistoryType' /\ PutInv' /\ NothingStranded'
  BY DEF ParseLine, rx, tx, line, IInv, HistoryType, PutInv, NothingStranded
<1>4. ReceivedInOrder' /\ SentInOrder'
  BY DEF ParseLine, rx, tx, IInv, ReceivedInOrder, SentInOrder, RxRing, TxRing,
         Getting, Putting
<1> QED
  BY <1>2, <1>3, <1>4 DEF IInv

------------------------------------------------------------------------------
(* uart_putc                                                               *)

\* What uart_putc leaves alone.
LEMMA ReceiveSideKept ==
  ASSUME IInv, UNCHANGED <<rx, data, line, stored, fetched>>,
         {pc, pc'} \cap {"load", "status"} = {}
  PROVE  ReceivedInOrder'
<1>1. Getting' = Getting
  BY DEF Getting
<1> QED
  BY <1>1 DEF rx, IInv, ReceivedInOrder, RxRing

LEMMA PutEnterStep ==
  ASSUME IInv, PutEnter
  PROVE  IInv'
<1>1. TypeOK'
  BY TxTypes, FollowingSlot DEF PutEnter, rx, tx, IInv, TypeOK
<1>2. HistoryType' /\ PutInv' /\ NothingStranded' /\ SentInOrder'
  BY DEF PutEnter, tx, line, IInv, HistoryType, PutInv, NothingStranded, SentInOrder,
         TxRing, Putting
<1>3. ReceivedInOrder'
  BY ReceiveSideKept DEF PutEnter
<1> QED
  BY <1>1, <1>2, <1>3 DEF IInv

LEMMA PutStoreStep ==
  ASSUME IInv, PutStore
  PROVE  IInv'
<1>1. /\ tmphead = Following(UART_TxHead) /\ tmphead # UART_TxTail /\ tmphead \in Slot
      /\ printing # <<>>
  BY DEF PutStore, IInv, PutInv, TypeOK
<1>2. Head(printing) \in Nat
  BY <1>1, TxTypes
<1>3. TypeOK'
  <2>1. UART_TxBuf' \in [Slot -> Nat]
    BY <1>2, TxTypes DEF PutStore
  <2> QED
    BY <2>1 DEF PutStore, rx, IInv, TypeOK
<1>4. UART_TxBuf'[tmphead] = Head(printing)
  BY <1>1, TxTypes DEF PutStore
<1>5. HistoryType' /\ PutInv' /\ NothingStranded'
  BY <1>1, <1>4 DEF PutStore, line, IInv, HistoryType, PutInv, NothingStranded
<1>6. SentInOrder'
  <2>1. TxRing' = TxRing
    <3>1. UART_TxBuf' = [UART_TxBuf EXCEPT ![Following(UART_TxHead)] = Head(printing)]
      BY <1>1 DEF PutStore
    <3>2. Ring([UART_TxBuf EXCEPT ![Following(UART_TxHead)] = Head(printing)],
               UART_TxHead, UART_TxTail) = Ring(UART_TxBuf, UART_TxHead, UART_TxTail)
      <4>1. Following(UART_TxHead) # UART_TxTail
        BY <1>1
      <4>2. DOMAIN UART_TxBuf = Slot /\ UART_TxHead \in Slot /\ UART_TxTail \in Slot
        BY TxTypes
      <4> QED
        BY <4>1, <4>2, StoreOutside, ZenonT(40)
    <3> QED
      BY <3>1, <3>2 DEF PutStore, TxRing
  <2> QED
    BY <2>1 DEF PutStore, IInv, SentInOrder, Putting
<1>7. ReceivedInOrder'
  BY ReceiveSideKept DEF PutStore
<1> QED
  BY <1>3, <1>5, <1>6, <1>7 DEF IInv

LEMMA PutPublishStep ==
  ASSUME IInv, PutPublish
  PROVE  IInv'
<1> DEFINE c == Head(printing)
<1>1. /\ tmphead = Following(UART_TxHead) /\ tmphead # UART_TxTail /\ tmphead \in Slot
      /\ UART_TxBuf[tmphead] = c /\ printing # <<>>
  BY DEF PutPublish, IInv, PutInv, TypeOK
<1>2. c \in Nat
  BY <1>1, TxTypes
<1>3. TypeOK'
  BY DEF PutPublish, rx, IInv, TypeOK
<1>4. HistoryType' /\ PutInv' /\ NothingStranded'
  BY DEF PutPublish, line, IInv, HistoryType, PutInv, NothingStranded
<1>5. SentInOrder'
  <2>1. TxRing' = Append(TxRing, c)
    BY <1>1, TxTypes, PublishAppends DEF PutPublish, TxRing
  <2>2. Putting = <<>> /\ Putting' = <<c>>
    BY DEF PutPublish, Putting
  <2>3. sent \o Append(TxRing, c) = Append(sent \o TxRing, c)
    BY SMTT(45), <1>2, TxTypes, AppendConcat
  <2>4. sent \o TxRing = put \o <<>>
    BY <2>2 DEF IInv, SentInOrder
  <2>5. Append(put \o <<>>, c) = put \o <<c>>
    BY <1>2, TxTypes
  <2> QED
    BY <2>1, <2>2, <2>3, <2>4, <2>5 DEF PutPublish, SentInOrder
<1>6. ReceivedInOrder'
  BY ReceiveSideKept DEF PutPublish
<1> QED
  BY <1>3, <1>4, <1>5, <1>6 DEF IInv

LEMMA PutEnableStep ==
  ASSUME IInv, PutEnable
  PROVE  IInv'
<1> DEFINE c == Head(printing)
<1>1. printing # <<>>
  BY DEF PutEnable, IInv, PutInv
<1>2. c \in Nat /\ Tail(printing) \in Seq(Nat)
  BY <1>1, TxTypes
<1>3. TypeOK'
  BY <1>2 DEF PutEnable, rx, IInv, TypeOK
<1>4. HistoryType' /\ PutInv' /\ NothingStranded'
  <2>1. put' \in Seq(Nat)
    BY <1>2, TxTypes, AppendProperties DEF PutEnable
  <2> QED
    BY <2>1 DEF PutEnable, line, IInv, HistoryType, PutInv, NothingStranded
<1>5. SentInOrder'
  <2>1. Putting = <<c>> /\ Putting' = <<>>
    BY DEF PutEnable, Putting
  <2>2. put \o <<c>> = Append(put, c) \o <<>>
    BY <1>2, TxTypes
  <2> QED
    BY <2>1, <2>2 DEF PutEnable, IInv, SentInOrder, TxRing
<1>6. ReceivedInOrder'
  BY ReceiveSideKept DEF PutEnable
<1> QED
  BY <1>3, <1>4, <1>5, <1>6 DEF IInv

LEMMA LineDoneStep ==
  ASSUME IInv, LineDone
  PROVE  IInv'
<1>1. TypeOK'
  BY ConstantAssumption DEF LineDone, rx, tx, IInv, TypeOK
<1>2. HistoryType' /\ PutInv' /\ NothingStranded' /\ SentInOrder'
  BY DEF LineDone, tx, line, IInv, HistoryType, PutInv, NothingStranded, SentInOrder,
         TxRing, Putting
<1>3. ReceivedInOrder'
  BY ReceiveSideKept DEF LineDone
<1> QED
  BY <1>1, <1>2, <1>3 DEF IInv

------------------------------------------------------------------------------
(* Theorems                                                                *)

LEMMA StutterStep ==
  ASSUME IInv, UNCHANGED vars
  PROVE  IInv'
<1>1. UNCHANGED <<rx, tx, main, line, stored, fetched, answers, put, sent>>
  BY DEF vars
<1>2. TypeOK'
  BY <1>1 DEF rx, tx, main, IInv, TypeOK
<1>3. HistoryType' /\ PutInv' /\ NothingStranded'
  BY <1>1 DEF tx, main, line, IInv, HistoryType, PutInv, NothingStranded
<1>4. ReceivedInOrder' /\ SentInOrder'
  BY <1>1 DEF rx, tx, main, IInv, ReceivedInOrder, SentInOrder, RxRing, TxRing,
              Getting, Putting
<1> QED
  BY <1>2, <1>3, <1>4 DEF IInv

LEMMA NextIInv == IInv /\ [Next]_vars => IInv'
<1>1. ASSUME IInv, Interrupt
      PROVE  IInv'
  BY <1>1, RxInterruptStep, TxInterruptStep DEF Interrupt
<1>2. ASSUME IInv, Main
      PROVE  IInv'
  <2>1. NoLine => UNCHANGED vars
    BY DEF NoLine
  <2> QED
    BY <1>2, <2>1, GetAdvanceStep, GetLoadStep, GetStatusStep, ParseLineStep, PutEnterStep,
       PutStoreStep, PutPublishStep, PutEnableStep, LineDoneStep, StutterStep DEF Main
<1> QED
  BY <1>1, <1>2, StutterStep DEF Next

\* Main program and both interrupts keep the two rings at every single access.
THEOREM Invariant == Spec => []IInv
  BY InitIInv, NextIInv, PTL DEF Spec

\* The indices stay inside the rings and the line inside its buffer.
THEOREM TypeCorrect == Spec => []TypeOK
  BY Invariant, PTL DEF IInv

\* uart_getc returns what the receive interrupt has stored, in order, although
\* it gives up the slot before it has read it.
THEOREM ReceiveIsFifo == Spec => []ReceivedInOrder
  BY Invariant, PTL DEF IInv

\* The transmit interrupt sends what uart_putc was given, in order, wherever
\* it falls between the four steps of uart_putc.
THEOREM TransmitIsFifo == Spec => []SentInOrder
  BY Invariant, PTL DEF IInv

\* The interrupt is never off while a byte waits in the ring, except when
\* uart_putc is about to turn it on.
THEOREM NoneStranded == Spec => []NothingStranded
  BY Invariant, PTL DEF IInv

------------------------------------------------------------------------------
(* What is kept of a line: by induction over its bytes                     *)

\* Induction: a set of numbers that has 0 and, with a number below the bound,
\* the next one has all of them.
LEMMA LessIsWellFounded == IsWellFoundedOn({p \in Nat \X Nat : p[1] < p[2]}, Nat)
  BY NatLessThanWellFounded DEF OpToRel

LEMMA LeastElement ==
  ASSUME NEW T, T \subseteq Nat, T # {}
  PROVE  \E x \in T : \A y \in T : x <= y
<1>1. PICK x \in T : \A y \in T : <<y, x>> \notin {p \in Nat \X Nat : p[1] < p[2]}
  BY LessIsWellFounded, WFMin, Zenon
<1>2. ASSUME NEW y \in T PROVE x <= y
  <2>1. x \in Nat /\ y \in Nat
    OBVIOUS
  <2>2. <<y, x>> \in Nat \X Nat /\ <<y, x>>[1] = y /\ <<y, x>>[2] = x
    BY <2>1
  <2>3. ~(y < x)
    BY <1>1, <2>2
  <2> QED
    BY <2>1, <2>3
<1> QED
  BY <1>2

LEMMA UpTo ==
  ASSUME NEW N \in Nat, NEW T, 0 \in T,
         \A k \in 0 .. N : k \in T /\ k < N => k + 1 \in T
  PROVE  \A k \in 0 .. N : k \in T
<1> DEFINE Missing == {k \in 0 .. N : k \notin T}
<1>1. SUFFICES ASSUME Missing # {} PROVE FALSE
  OBVIOUS
<1>2. Missing \subseteq Nat
  OBVIOUS
<1>3. PICK x \in Missing : \A y \in Missing : x <= y
  BY <1>1, <1>2, LeastElement
<1>4. x \in 0 .. N /\ x \notin T /\ x # 0
  BY <1>3
<1>5. x - 1 \in 0 .. N /\ x - 1 < N /\ (x - 1) + 1 = x /\ ~(x <= x - 1)
  BY <1>4
<1>6. x - 1 \in T
  BY <1>3, <1>5
<1> QED
  BY <1>4, <1>5, <1>6

\* f is what Stripped keeps of the bytes s, byte by byte.
Keeps(s, f) ==
  f = [n \in 0 .. Len(s) |->
         IF n = 0 THEN <<>>
         ELSE IF s[n] = LF THEN f[n - 1] ELSE Append(f[n - 1], s[n])]

LEMMA KeepsExists ==
  ASSUME NEW s, Len(s) \in Nat
  PROVE  \E f : Keeps(s, f)
<1> DEFINE Val(k, x) == IF s[k] = LF THEN x ELSE Append(x, s[k])
           Def(n, f) == f = [k \in 0 .. n |-> IF k = 0 THEN <<>> ELSE Val(k, f[k - 1])]
           T == {n \in 0 .. Len(s) : \E f : Def(n, f)}
<1>1. 0 \in T
  <2> DEFINE f == [k \in 0 .. 0 |-> <<>>]
  <2>1. Def(0, f)
    OBVIOUS
  <2>2. \E g : Def(0, g)
    BY <2>1
  <2> QED
    BY <2>2
<1>2. ASSUME NEW n \in 0 .. Len(s), n \in T, n < Len(s) PROVE n + 1 \in T
  <2>1. PICK f : Def(n, f)
    BY <1>2
  <2> HIDE DEF Val
  <2> DEFINE g == [k \in 0 .. n + 1 |-> IF k = n + 1 THEN Val(k, f[n]) ELSE f[k]]
  <2>2. ASSUME NEW k \in 0 .. n + 1
        PROVE  g[k] = IF k = 0 THEN <<>> ELSE Val(k, g[k - 1])
    <3>1. CASE k = n + 1
      BY <3>1
    <3>2. CASE k # n + 1
      <4>1. k \in 0 .. n /\ (k # 0 => k - 1 \in 0 .. n /\ k - 1 # n + 1)
        BY <3>2
      <4> QED
        BY <2>1, <4>1
    <3> QED
      BY <3>1, <3>2
  <2>3. Def(n + 1, g)
    BY <2>2
  <2>4. \E h : Def(n + 1, h)
    BY <2>3
  <2>5. n + 1 \in 0 .. Len(s)
    BY <1>2
  <2> QED
    BY <2>4, <2>5
<1>3. \A n \in 0 .. Len(s) : n \in T
  <2> HIDE DEF T
  <2> QED
    BY <1>1, <1>2, UpTo
<1>4. Len(s) \in T
  BY <1>3
<1>5. PICK f : Def(Len(s), f)
  BY <1>4
<1>6. Keeps(s, f)
  BY <1>5 DEF Keeps
<1> QED
  BY <1>6

LEMMA StrippedIs ==
  ASSUME NEW s, Len(s) \in Nat
  PROVE  \E f : Keeps(s, f) /\ Stripped(s) = f[Len(s)]
<1> DEFINE kept == CHOOSE f : Keeps(s, f)
<1>1. Keeps(s, kept)
  BY KeepsExists, Zenon
<1>2. Stripped(s) = kept[Len(s)]
  BY Zenon DEF Stripped, Keeps
<1> QED
  BY <1>1, <1>2

LEMMA KeepsRule ==
  ASSUME NEW s, Len(s) \in Nat, NEW f, Keeps(s, f)
  PROVE  /\ f[0] = <<>>
         /\ \A k \in 0 .. Len(s) - 1 :
              f[k + 1] = IF s[k + 1] = LF THEN f[k] ELSE Append(f[k], s[k + 1])
<1>1. 0 \in 0 .. Len(s) /\ \A k \in 0 .. Len(s) - 1 :
        k + 1 \in 0 .. Len(s) /\ k + 1 # 0 /\ (k + 1) - 1 = k
  OBVIOUS
<1>2. \A k \in 0 .. Len(s) :
        f[k] = IF k = 0 THEN <<>>
               ELSE IF s[k] = LF THEN f[k - 1] ELSE Append(f[k - 1], s[k])
  BY Zenon DEF Keeps
<1> QED
  BY <1>1, <1>2

\* Bytes are kept, and no more than there are.
LEMMA KeepsType ==
  ASSUME NEW s \in Seq(Byte), NEW f, Keeps(s, f)
  PROVE  \A k \in 0 .. Len(s) : f[k] \in Seq(Byte) /\ Len(f[k]) <= k
<1> DEFINE T == {k \in 0 .. Len(s) : f[k] \in Seq(Byte) /\ Len(f[k]) <= k}
<1>0. Len(s) \in Nat /\ \A k \in 1 .. Len(s) : s[k] \in Byte
  OBVIOUS
<1>1. 0 \in T
  <2>1. f[0] = <<>> /\ 0 \in 0 .. Len(s)
    BY <1>0, KeepsRule
  <2>2. <<>> \in Seq(Byte) /\ Len(<<>>) = 0 /\ 0 <= 0
    BY EmptySeq
  <2>3. f[0] \in Seq(Byte) /\ Len(f[0]) <= 0
    BY <2>1, <2>2, Zenon
  <2> QED
    BY <2>1, <2>3
<1>2. ASSUME NEW k \in 0 .. Len(s), k \in T, k < Len(s) PROVE k + 1 \in T
  <2>1. k \in 0 .. Len(s) - 1 /\ k + 1 \in 1 .. Len(s)
    BY <1>0, <1>2
  <2>2. f[k + 1] = IF s[k + 1] = LF THEN f[k] ELSE Append(f[k], s[k + 1])
    BY <1>0, <2>1, KeepsRule
  <2>3. f[k] \in Seq(Byte) /\ Len(f[k]) \in Nat /\ Len(f[k]) <= k /\ s[k + 1] \in Byte
    BY <1>0, <1>2, <2>1
  <2>4. /\ Append(f[k], s[k + 1]) \in Seq(Byte)
        /\ Len(Append(f[k], s[k + 1])) = Len(f[k]) + 1
    BY <2>3, AppendProperties
  <2>5. f[k + 1] \in Seq(Byte) /\ Len(f[k + 1]) <= k + 1
    BY <2>1, <2>2, <2>3, <2>4
  <2>6. k + 1 \in 0 .. Len(s)
    BY <2>1
  <2> QED
    BY <2>5, <2>6
<1>3. \A k \in 0 .. Len(s) : k \in T
  <2> HIDE DEF T
  <2> QED
    BY <1>0, <1>1, <1>2, UpTo
<1> QED
  BY <1>3

LEMMA StrippedType ==
  ASSUME NEW s \in Seq(Byte)
  PROVE  Stripped(s) \in Seq(Byte) /\ Len(Stripped(s)) \in Nat /\ Len(Stripped(s)) <= Len(s)
<1>1. Len(s) \in Nat /\ Len(s) \in 0 .. Len(s)
  OBVIOUS
<1>2. PICK f : Keeps(s, f) /\ Stripped(s) = f[Len(s)]
  BY <1>1, StrippedIs
<1>3. Stripped(s) \in Seq(Byte) /\ Len(Stripped(s)) <= Len(s)
  BY <1>1, <1>2, KeepsType
<1> QED
  BY <1>3

LEMMA StrippedNone == Stripped(<<>>) = <<>>
<1>1. Len(<<>>) = 0 /\ 0 \in Nat
  OBVIOUS
<1>2. PICK f : Keeps(<<>>, f) /\ Stripped(<<>>) = f[Len(<<>>)]
  BY <1>1, StrippedIs
<1>3. f[0] = <<>>
  BY <1>1, <1>2, KeepsRule
<1> QED
  BY <1>1, <1>2, <1>3

\* One byte more at the end.
Kept(c) == IF c = LF THEN <<>> ELSE <<c>>

LEMMA KeptType ==
  ASSUME NEW c \in Byte
  PROVE  Kept(c) \in Seq(Byte) /\ Len(Kept(c)) = IF c = LF THEN 0 ELSE 1
  BY DEF Kept

LEMMA StrippedAppend ==
  ASSUME NEW s \in Seq(Byte), NEW c \in Byte
  PROVE  Stripped(Append(s, c)) = Stripped(s) \o Kept(c)
<1> DEFINE t == Append(s, c)
<1>1. /\ t \in Seq(Byte) /\ Len(s) \in Nat /\ Len(t) = Len(s) + 1
      /\ \A i \in 1 .. Len(s) : t[i] = s[i]
      /\ t[Len(s) + 1] = c
  BY AppendProperties
<1> HIDE DEF t
<1>2. PICK f : Keeps(s, f) /\ Stripped(s) = f[Len(s)]
  BY <1>1, StrippedIs
<1>3. PICK g : Keeps(t, g) /\ Stripped(t) = g[Len(t)]
  BY <1>1, StrippedIs
<1> DEFINE T == {k \in 0 .. Len(s) : f[k] = g[k]}
<1>4. 0 \in T
  BY <1>1, <1>2, <1>3, KeepsRule
<1>5. ASSUME NEW k \in 0 .. Len(s), k \in T, k < Len(s) PROVE k + 1 \in T
  <2>1. k \in 0 .. Len(s) - 1 /\ k \in 0 .. Len(t) - 1 /\ k + 1 \in 1 .. Len(s)
    BY <1>1, <1>5
  <2>2. f[k + 1] = IF s[k + 1] = LF THEN f[k] ELSE Append(f[k], s[k + 1])
    BY <1>1, <1>2, <2>1, KeepsRule
  <2>3. g[k + 1] = IF t[k + 1] = LF THEN g[k] ELSE Append(g[k], t[k + 1])
    BY <1>1, <1>3, <2>1, KeepsRule
  <2>4. f[k] = g[k] /\ s[k + 1] = t[k + 1]
    BY <1>1, <1>5, <2>1
  <2> QED
    BY <2>1, <2>2, <2>3, <2>4
<1>6. \A k \in 0 .. Len(s) : k \in T
  <2> HIDE DEF T
  <2> QED
    BY <1>1, <1>4, <1>5, UpTo
<1>7. g[Len(s)] = Stripped(s)
  BY <1>1, <1>2, <1>6
<1>8. g[Len(s) + 1] = IF c = LF THEN g[Len(s)] ELSE Append(g[Len(s)], c)
  <2>1. Len(s) \in 0 .. Len(t) - 1 /\ Len(t) \in Nat
    BY <1>1
  <2> QED
    BY <1>1, <1>3, <2>1, KeepsRule
<1>9. Stripped(s) \in Seq(Byte)
  BY StrippedType
<1>10. /\ Stripped(s) \o <<>> = Stripped(s)
       /\ Stripped(s) \o <<c>> = Append(Stripped(s), c)
  BY <1>9, ConcatEmptySeq, AppendIsConcat
<1> QED
  BY <1>1, <1>3, <1>7, <1>8, <1>10 DEF Kept, t

\* One byte more at the beginning.
LEMMA StrippedFirst ==
  ASSUME NEW s \in Seq(Byte), NEW c \in Byte
  PROVE  Stripped(<<c>> \o s) = Kept(c) \o Stripped(s)
<1> DEFINE t == <<c>> \o s
<1>1. /\ t \in Seq(Byte) /\ Len(s) \in Nat /\ Len(t) = Len(s) + 1
      /\ t[1] = c
      /\ \A i \in 1 .. Len(s) : t[i + 1] = s[i] /\ s[i] \in Byte
  OBVIOUS
<1> HIDE DEF t
<1>2. PICK f : Keeps(s, f) /\ Stripped(s) = f[Len(s)]
  BY <1>1, StrippedIs
<1>3. PICK g : Keeps(t, g) /\ Stripped(t) = g[Len(t)]
  BY <1>1, StrippedIs
<1> DEFINE T == {k \in 0 .. Len(s) : g[k + 1] = Kept(c) \o f[k]}
<1>4. 0 \in T
  <2>1. f[0] = <<>> /\ g[0] = <<>>
    BY <1>1, <1>2, <1>3, KeepsRule
  <2>2. g[0 + 1] = IF t[0 + 1] = LF THEN g[0] ELSE Append(g[0], t[0 + 1])
    <3>1. 0 \in 0 .. Len(t) - 1 /\ Len(t) \in Nat
      BY <1>1
    <3> QED
      BY <1>3, <3>1, KeepsRule
  <2>3. g[1] = Kept(c)
    BY <1>1, <2>1, <2>2 DEF Kept
  <2>4. Kept(c) \o <<>> = Kept(c)
    BY KeptType, ConcatEmptySeq
  <2>5. g[0 + 1] = Kept(c) \o f[0]
    <3>1. 0 + 1 = 1
      OBVIOUS
    <3> QED
      BY <2>1, <2>3, <2>4, <3>1, Zenon
  <2>6. 0 \in 0 .. Len(s)
    BY <1>1
  <2> QED
    BY <2>5, <2>6
<1>5. ASSUME NEW k \in 0 .. Len(s), k \in T, k < Len(s) PROVE k + 1 \in T
  <2>1. /\ k \in 0 .. Len(s) - 1 /\ k + 1 \in 0 .. Len(t) - 1 /\ k + 1 \in 1 .. Len(s)
        /\ k + 1 \in 0 .. Len(s) /\ Len(t) \in Nat
    BY <1>1, <1>5
  <2> DEFINE x == s[k + 1]
  <2>2. f[k + 1] = IF x = LF THEN f[k] ELSE Append(f[k], x)
    BY <1>1, <1>2, <2>1, KeepsRule
  <2>3. g[(k + 1) + 1] = IF x = LF THEN g[k + 1] ELSE Append(g[k + 1], x)
    <3>1. g[(k + 1) + 1] = IF t[(k + 1) + 1] = LF THEN g[k + 1]
                           ELSE Append(g[k + 1], t[(k + 1) + 1])
      BY <1>3, <2>1, KeepsRule
    <3> QED
      BY <1>1, <2>1, <3>1
  <2>4. g[k + 1] = Kept(c) \o f[k]
    BY <1>5
  <2>5. f[k] \in Seq(Byte) /\ Kept(c) \in Seq(Byte) /\ x \in Byte
    BY <1>1, <1>2, <2>1, KeepsType, KeptType
  <2> HIDE DEF x
  <2>6. Kept(c) \o Append(f[k], x) = Append(Kept(c) \o f[k], x)
    BY <2>5, AppendConcat
  <2>7. g[(k + 1) + 1] = Kept(c) \o f[k + 1]
    BY <2>2, <2>3, <2>4, <2>6
  <2> QED
    BY <2>1, <2>7
<1>6. \A k \in 0 .. Len(s) : k \in T
  <2> HIDE DEF T
  <2> QED
    BY <1>1, <1>4, <1>5, UpTo
<1>7. g[Len(s) + 1] = Kept(c) \o f[Len(s)]
  BY <1>1, <1>6
<1> QED
  BY <1>1, <1>2, <1>3, <1>7 DEF t
------------------------------------------------------------------------------
(* Line by line                                                            *)

\* What the interrupt has stored and serial_periodic not yet seen.
Arrived == Getting \o RxRing

Collecting == pc \in {"getc", "load", "status"}

\* What has come of the line being collected.
Collected == (IF Collecting THEN buffer ELSE <<>>) \o Stripped(Arrived)

\* The line the host is at, for what it has still to send: one behind the last
\* when it has sent all.
At(rest) == Len(Line) + 1 - Len(rest)

\* What the host has still to send is the end of a line and the lines after it.
EndOf(r, s) == Len(r) <= Len(s) /\ (Len(r) = Len(s) => r = s) /\ Feeds(r) <= Feeds(s)
Ends(rest) ==
  /\ Len(rest) <= Len(Line)
  /\ \A i \in 2 .. Len(rest) : rest[i] = Line[At(rest) - 1 + i]
  /\ rest # <<>> => EndOf(Head(rest), Line[At(rest)])

Before(i) == IF i = 1 THEN 0 ELSE Feeds(Line[i - 1])

\* The host still has line feeds of the line answered last; it has sent all;
\* it is at the next line; it has sent that one as well, and waits.
FeedsLeft ==
  /\ host # <<>> /\ At(host) = answers
  /\ Collected = <<>> /\ Stripped(Head(host)) = <<>>
  /\ Len(Arrived) + Len(Head(host)) <= Feeds(Line[answers])
AllSent == host = <<>> /\ At(host) = answers + 1 /\ Collected = <<>>
Sending ==
  /\ host # <<>> /\ At(host) = answers + 1
  /\ Collected \o Stripped(Head(host)) = Stripped(Line[At(host)])
  /\ Len(Arrived) + Len(Head(host)) <= Before(At(host)) + Len(Line[At(host)])
Waiting ==
  /\ At(host) = answers + 2
  /\ host # <<>> => Len(Head(host)) = Len(Line[At(host)])
  /\ Collected = Stripped(Line[answers + 1])

Serving ==
  ~Collecting => answers \in 1 .. Len(Line) /\ buffer = Stripped(Line[answers])

Undisturbed ==
  /\ UART_LastRxError = "none"
  /\ Ends(host)
  /\ FeedsLeft \/ AllSent \/ Sending \/ Waiting
  /\ Serving

\* The bytes of the answers so far are put or still to be put.
Printed ==
  /\ Collecting => printing = <<>>
  /\ Len(put) + Len(printing) = AnswerSize * answers

LInv == errors \in Nat /\ Printed /\ (patient /\ errors = 0 => Undisturbed)

\* Sequences of bytes.
LEMMA Concatenate ==
  ASSUME NEW s \in Seq(Byte), NEW t \in Seq(Byte)
  PROVE  s \o t \in Seq(Byte) /\ Len(s \o t) = Len(s) + Len(t)
  BY ConcatProperties

LEMMA Cancel ==
  ASSUME NEW s \in Seq(Byte), NEW t \in Seq(Byte), NEW u \in Seq(Byte), s \o t = s \o u
  PROVE  t = u
  BY ConcatSimplifications

LEMMA Associate ==
  ASSUME NEW s \in Seq(Byte), NEW t \in Seq(Byte), NEW u \in Seq(Byte)
  PROVE  (s \o t) \o u = s \o (t \o u)
  BY ConcatAssociative

LEMMA Nothing ==
  ASSUME NEW s \in Seq(Byte)
  PROVE  s \o <<>> = s /\ <<>> \o s = s /\ <<>> \in Seq(Byte) /\ Len(<<>>) = 0
  BY ConcatEmptySeq, EmptySeq

LEMMA FeedsNat ==
  ASSUME NEW s \in Seq(Byte)
  PROVE  Feeds(s) \in Nat /\ Feeds(s) <= Len(s)
<1>1. Len(s) \in Nat /\ Len(Stripped(s)) \in Nat /\ Len(Stripped(s)) <= Len(s)
  BY StrippedType
<1> QED
  BY <1>1 DEF Feeds

\* What has been stored has been seen or has arrived.
ArrivedOK ==
  /\ Arrived \in Seq(Byte)
  /\ stored = fetched \o Arrived
  /\ Len(RxRing) \in Nat /\ Len(RxRing) <= Len(Arrived)

LEMMA ArrivedIs == IInv => ArrivedOK
<1> SUFFICES ASSUME IInv PROVE ArrivedOK
  OBVIOUS
<1> DEFINE T == Byte \cup {0}
<1>1. Getting \in Seq(T) /\ RxRing \in Seq(T)
  BY GettingType, RingIsSeq DEF IInv, TypeOK, RxRing
<1>2. fetched \in Seq(T) /\ fetched \in Seq(Byte) /\ stored \in Seq(Byte)
  BY DEF IInv, HistoryType
<1>3. stored = (fetched \o Getting) \o RxRing
  BY DEF IInv, ReceivedInOrder
<1> HIDE DEF T
<1>4. stored = fetched \o Arrived /\ Arrived \in Seq(T)
  BY <1>1, <1>2, <1>3, ConcatAssociative, ConcatProperties DEF Arrived
<1>5. Len(Arrived) = Len(Getting) + Len(RxRing) /\ Len(Getting) \in Nat /\ Len(RxRing) \in Nat
  BY <1>1, ConcatProperties DEF Arrived
<1>6. \A i \in 1 .. Len(Arrived) : Arrived[i] \in Byte
  <2> SUFFICES ASSUME NEW i \in 1 .. Len(Arrived) PROVE Arrived[i] \in Byte
    OBVIOUS
  <2>1. /\ Len(fetched) \in Nat /\ Len(Arrived) \in Nat
        /\ Len(stored) = Len(fetched) + Len(Arrived)
        /\ \A j \in 1 .. Len(fetched) + Len(Arrived) :
             stored[j] = IF j <= Len(fetched) THEN fetched[j] ELSE Arrived[j - Len(fetched)]
    BY <1>2, <1>4, ConcatProperties
  <2>2. /\ Len(fetched) + i \in 1 .. Len(stored) /\ ~(Len(fetched) + i <= Len(fetched))
        /\ (Len(fetched) + i) - Len(fetched) = i
    BY <2>1
  <2>3. stored[Len(fetched) + i] = Arrived[i]
    BY <2>1, <2>2
  <2> QED
    BY <1>2, <2>2, <2>3, ElementOfSeq
<1>7. Arrived \in Seq(Byte)
  BY <1>4, <1>6
<1> QED
  BY <1>4, <1>5, <1>7 DEF ArrivedOK

LEMMA ArrivedIsNext == IInv' => ArrivedOK'
  BY ArrivedIs, PTL

LEMMA ArrivedKept ==
  ASSUME IInv, IInv', UNCHANGED <<stored, fetched>>
  PROVE  Arrived' = Arrived
<1>1. /\ Arrived \in Seq(Byte) /\ Arrived' \in Seq(Byte) /\ fetched \in Seq(Byte)
      /\ fetched \o Arrived = fetched \o Arrived'
  BY ArrivedIs, ArrivedIsNext DEF ArrivedOK, IInv, HistoryType
<1> QED
  BY <1>1, Cancel, Zenon

LEMMA ArrivedSeen ==
  ASSUME IInv, IInv', GetStatus
  PROVE  data \in Byte /\ Arrived = <<data>> \o Arrived'
<1>1. data \in Byte
  BY InHandCameIn DEF GetStatus
<1>0. stored' = stored /\ fetched' = Append(fetched, data)
  BY DEF GetStatus
<1>2. /\ Arrived \in Seq(Byte) /\ Arrived' \in Seq(Byte) /\ fetched \in Seq(Byte)
      /\ <<data>> \in Seq(Byte)
      /\ fetched \o Arrived = Append(fetched, data) \o Arrived'
  <2>1. stored = fetched \o Arrived /\ stored' = fetched' \o Arrived'
    BY ArrivedIs, ArrivedIsNext DEF ArrivedOK
  <2>2. Arrived \in Seq(Byte) /\ Arrived' \in Seq(Byte) /\ fetched \in Seq(Byte)
    BY ArrivedIs, ArrivedIsNext DEF ArrivedOK, IInv, HistoryType
  <2>3. fetched \o Arrived = Append(fetched, data) \o Arrived'
    BY <1>0, <2>1, Zenon
  <2> QED
    BY <1>1, <2>2, <2>3
<1>3. Append(fetched, data) \o Arrived' = fetched \o (<<data>> \o Arrived')
  BY <1>1, <1>2, MoveOne
<1>4. <<data>> \o Arrived' \in Seq(Byte)
  BY <1>2, Concatenate
<1>5. fetched \o Arrived = fetched \o (<<data>> \o Arrived')
  BY <1>2, <1>3
<1> QED
  BY <1>1, <1>2, <1>4, <1>5, Cancel, Zenon

LEMMA ArrivedGrows ==
  ASSUME IInv, IInv', NEW c \in Byte, stored' = Append(stored, c), fetched' = fetched
  PROVE  Arrived' = Append(Arrived, c)
<1>1. /\ Arrived \in Seq(Byte) /\ Arrived' \in Seq(Byte) /\ fetched \in Seq(Byte)
      /\ Append(fetched \o Arrived, c) = fetched \o Arrived'
  BY ArrivedIs, ArrivedIsNext DEF ArrivedOK, IInv, HistoryType
<1>2. fetched \o Append(Arrived, c) = Append(fetched \o Arrived, c)
  BY SMTT(45), <1>1, AppendConcat
<1>3. Append(Arrived, c) \in Seq(Byte)
  BY <1>1, AppendProperties
<1>4. fetched \o Arrived' = fetched \o Append(Arrived, c)
  BY <1>1, <1>2
<1> QED
  BY <1>1, <1>3, <1>4, Cancel, Zenon

\* A ring that is full or empty, in numbers.
LEMMA RingNumbers ==
  ASSUME IInv
  PROVE  /\ Following(UART_RxHead) = UART_RxTail => Len(RxRing) = Size - 1
         /\ UART_RxHead = UART_RxTail => RxRing = <<>>
<1>1. UART_RxBuf \in [Slot -> Byte \cup {0}] /\ UART_RxHead \in Slot /\ UART_RxTail \in Slot
  BY DEF IInv, TypeOK
<1>2. RxRing \in Seq(Byte \cup {0}) /\ Len(RxRing) = Count(UART_RxHead, UART_RxTail)
  <2> DEFINE S == Byte \cup {0}
             buf == UART_RxBuf
             h == UART_RxHead
             t == UART_RxTail
  <2>1. buf \in [Slot -> S] /\ h \in Slot /\ t \in Slot /\ RxRing = Ring(buf, h, t)
    BY <1>1 DEF RxRing
  <2> HIDE DEF S, buf, h, t
  <2>2. Ring(buf, h, t) \in Seq(S) /\ Len(Ring(buf, h, t)) = Count(h, t)
    BY <2>1, RingIsSeq
  <2> QED
    BY <2>1, <2>2 DEF S, h, t
<1>3. Count(UART_RxHead, UART_RxTail) =
        IF UART_RxHead >= UART_RxTail THEN UART_RxHead - UART_RxTail
        ELSE UART_RxHead + Size - UART_RxTail
  BY <1>1, CountIs
<1>4. Following(UART_RxHead) = IF UART_RxHead + 1 < Size THEN UART_RxHead + 1 ELSE 0
  BY <1>1, FollowingSlot
<1>5. ASSUME Following(UART_RxHead) = UART_RxTail PROVE Len(RxRing) = Size - 1
  BY <1>1, <1>2, <1>3, <1>4, <1>5, SizeIsNat DEF Slot
<1>6. ASSUME UART_RxHead = UART_RxTail PROVE RxRing = <<>>
  <2>1. Len(RxRing) = 0
    BY <1>1, <1>2, <1>3, <1>6, SizeIsNat DEF Slot
  <2> QED
    BY <1>2, <2>1, EmptySeq
<1> QED
  BY <1>5, <1>6

\* No answer is sent that was not begun.
LEMMA SentBound ==
  ASSUME IInv, Printed
  PROVE  Len(sent) \in Nat /\ Len(sent) <= AnswerSize * answers
<1>1. /\ sent \in Seq(Nat) /\ TxRing \in Seq(Nat) /\ put \in Seq(Nat)
      /\ printing \in Seq(Nat)
  BY TxTypes
<1>2. Putting \in Seq(Nat) /\ Len(Putting) <= Len(printing)
  <2>1. CASE pc = "enable"
    <3>1. printing # <<>>
      BY <2>1 DEF IInv, PutInv
    <3>2. Head(printing) \in Nat /\ Len(printing) >= 1
      BY <1>1, <3>1
    <3> QED
      BY <2>1, <3>2 DEF Putting
  <2>2. CASE pc # "enable"
    <3>1. <<>> \in Seq(Nat) /\ Len(<<>>) = 0 /\ Len(printing) \in Nat
      BY <1>1
    <3> QED
      BY <2>2, <3>1 DEF Putting
  <2> QED
    BY <2>1, <2>2
<1>3. sent \o TxRing = put \o Putting
  BY DEF IInv, SentInOrder
<1>4. Len(sent) + Len(TxRing) = Len(put) + Len(Putting)
  BY <1>1, <1>2, <1>3, ConcatProperties
<1>5. Len(put) + Len(printing) = AnswerSize * answers
  BY DEF Printed
<1>6. /\ Len(sent) \in Nat /\ Len(TxRing) \in Nat /\ Len(put) \in Nat
      /\ Len(Putting) \in Nat /\ Len(printing) \in Nat
  BY <1>1, <1>2
<1> QED
  BY ONLY <1>2, <1>4, <1>5, <1>6

LEMMA LinesType ==
  ASSUME NEW i \in 1 .. Len(Line)
  PROVE  /\ Line[i] \in Seq(Byte) /\ Line[i] # <<>>
         /\ Len(Line[i]) \in Nat /\ Feeds(Line[i]) \in Nat /\ Feeds(Line[i]) <= Len(Line[i])
         /\ Before(i) \in Nat
<1>1. \A j \in 1 .. Len(Line) : Line[j] \in Seq(Byte) /\ Line[j] # <<>>
  BY LineAssumption, ElementOfSeq
<1>2. \A j \in 1 .. Len(Line) : Feeds(Line[j]) \in Nat /\ Feeds(Line[j]) <= Len(Line[j])
  BY <1>1, FeedsNat
<1>3. Len(Line) \in Nat
  BY LineAssumption
<1>4. i # 1 => i - 1 \in 1 .. Len(Line)
  BY <1>3
<1> QED
  BY <1>1, <1>2, <1>4 DEF Before

\* Where the host is.
LEMMA AtType ==
  ASSUME HistoryType, Ends(host)
  PROVE  /\ Len(Line) \in Nat /\ Len(host) \in Nat /\ At(host) \in Nat \ {0}
         /\ At(host) <= Len(Line) + 1
         /\ host # <<>> => /\ At(host) \in 1 .. Len(Line)
                           /\ Head(host) \in Seq(Byte) /\ Head(host) # <<>>
                           /\ Len(Head(host)) \in Nat \ {0}
<1>1. host \in Seq(Seq(Byte) \ {<<>>}) /\ Len(host) \in Nat /\ Len(Line) \in Nat
  BY LineAssumption DEF HistoryType
<1>2. At(host) = Len(Line) + 1 - Len(host) /\ Len(host) <= Len(Line)
  BY DEF At, Ends
<1>3. ASSUME host # <<>>
      PROVE  Len(host) # 0 /\ Head(host) \in Seq(Byte) /\ Head(host) # <<>>
  <2>1. Len(host) # 0
    BY <1>1, <1>3, EmptySeq
  <2>2. Head(host) \in Seq(Byte) \ {<<>>}
    BY <1>1, <1>3, HeadTailProperties
  <2> QED
    BY <2>1, <2>2
<1>4. ASSUME host # <<>> PROVE Len(Head(host)) \in Nat \ {0}
  <2>1. Head(host) \in Seq(Byte) /\ Head(host) # <<>>
    BY <1>3, <1>4
  <2> QED
    BY <2>1, EmptySeq
<1> QED
  BY <1>1, <1>2, <1>3, <1>4

LEMMA EndsAt ==
  \A rest : /\ rest \in Seq(Seq(Byte) \ {<<>>}) /\ rest # <<>> /\ Ends(rest)
           => At(rest) \in 1 .. Len(Line)
<1> SUFFICES ASSUME NEW rest \in Seq(Seq(Byte) \ {<<>>}), rest # <<>>, Ends(rest)
             PROVE  At(rest) \in 1 .. Len(Line)
  OBVIOUS
<1>1. Len(rest) \in Nat /\ Len(rest) # 0 /\ Len(Line) \in Nat
  BY LineAssumption, EmptySeq
<1> QED
  BY <1>1 DEF At, Ends

LEMMA CollectedType ==
  ASSUME IInv
  PROVE  /\ Collected \in Seq(Byte) /\ Stripped(Arrived) \in Seq(Byte)
         /\ Collected = IF Collecting THEN buffer \o Stripped(Arrived) ELSE Stripped(Arrived)
<1>1. Stripped(Arrived) \in Seq(Byte)
  BY ArrivedIs, StrippedType DEF ArrivedOK
<1>2. buffer \in Seq(Byte)
  BY DEF IInv, TypeOK
<1>3. CASE Collecting
  BY <1>1, <1>2, <1>3, Concatenate DEF Collected
<1>4. CASE ~Collecting
  <2>1. <<>> \o Stripped(Arrived) = Stripped(Arrived)
    BY <1>1, Nothing
  <2> QED
    BY <1>1, <1>4, <2>1 DEF Collected
<1> QED
  BY <1>3, <1>4

\* What has come of a line is a beginning of it.
LEMMA Beginning ==
  ASSUME IInv, Undisturbed, Collected # <<>>
  PROVE  /\ answers + 1 \in 1 .. Len(Line)
         /\ \E t \in Seq(Byte) : Collected \o t = Stripped(Line[answers + 1])
<1>0. /\ HistoryType /\ Ends(host) /\ answers \in Nat
  BY DEF IInv, TypeOK, Undisturbed
<1>1. Sending \/ Waiting
  BY DEF Undisturbed, FeedsLeft, AllSent
<1>2. CASE Sending
  <2>1. At(host) \in 1 .. Len(Line) /\ Head(host) \in Seq(Byte)
    BY <1>0, <1>2, AtType DEF Sending
  <2>2. Stripped(Head(host)) \in Seq(Byte)
    BY <2>1, StrippedType
  <2> QED
    BY <1>2, <2>1, <2>2 DEF Sending
<1>3. CASE Waiting
  <2>1. answers + 1 \in 1 .. Len(Line)
    BY <1>0, <1>3, AtType DEF Waiting
  <2>2. Collected \o <<>> = Stripped(Line[answers + 1]) /\ <<>> \in Seq(Byte)
    BY <1>3, CollectedType, Nothing DEF Waiting
  <2> QED
    BY <2>1, <2>2
<1> QED
  BY <1>1, <1>2, <1>3

LEMMA Short ==
  ASSUME LinesFit, IInv, Undisturbed
  PROVE  Len(Collected) \in Nat /\ Len(Collected) < LineSize
<1>1. Collected \in Seq(Byte) /\ Len(Collected) \in Nat /\ LineSize \in Nat \ {0}
  BY CollectedType, ConstantAssumption
<1>2. CASE Collected = <<>>
  BY <1>1, <1>2
<1>3. CASE Collected # <<>>
  <2>1. answers + 1 \in 1 .. Len(Line)
    BY <1>3, Beginning
  <2>2. PICK t \in Seq(Byte) : Collected \o t = Stripped(Line[answers + 1])
    BY <1>3, Beginning
  <2>3. Len(Collected \o t) = Len(Collected) + Len(t) /\ Len(t) \in Nat
    BY <1>1, Concatenate
  <2>4. Len(Stripped(Line[answers + 1])) < LineSize
    BY <2>1 DEF LinesFit
  <2>5. Len(Collected) + Len(t) < LineSize
    BY <2>2, <2>3, <2>4
  <2> QED
    BY ONLY <1>1, <2>3, <2>5
<1> QED
  BY <1>2, <1>3

\* A beginning of a line that ends with CR is the whole line.
LEMMA WholeLine ==
  ASSUME LinesFit, IInv, Undisturbed, Collected # <<>>, Collected[Len(Collected)] = CR
  PROVE  answers + 1 \in 1 .. Len(Line) /\ Collected = Stripped(Line[answers + 1])
<1>1. answers + 1 \in 1 .. Len(Line)
  BY Beginning
<1>2. PICK t \in Seq(Byte) : Collected \o t = Stripped(Line[answers + 1])
  BY Beginning
<1> DEFINE s == Stripped(Line[answers + 1])
<1>3. \A j \in 1 .. Len(s) : s[j] = CR <=> j = Len(s)
  BY <1>1 DEF LinesFit
<1>4. Collected \in Seq(Byte) /\ Len(Collected) \in Nat \ {0} /\ Len(t) \in Nat
  BY CollectedType, EmptySeq
<1> HIDE DEF s
<1>5. /\ Len(s) = Len(Collected) + Len(t)
      /\ s[Len(Collected)] = Collected[Len(Collected)]
  <2>1. \A i \in 1 .. Len(Collected) + Len(t) : (Collected \o t)[i] =
          IF i <= Len(Collected) THEN Collected[i] ELSE t[i - Len(Collected)]
    BY <1>4, ConcatProperties
  <2>2. Len(Collected \o t) = Len(Collected) + Len(t)
    BY <1>4, Concatenate
  <2>3. Len(Collected) \in 1 .. Len(Collected) + Len(t) /\ Len(Collected) <= Len(Collected)
    BY <1>4
  <2> QED
    BY <1>2, <2>1, <2>2, <2>3 DEF s
<1>6. Len(Collected) \in 1 .. Len(s)
  BY <1>4, <1>5
<1>7. Len(Collected) = Len(s)
  BY <1>3, <1>5, <1>6
<1>8. Len(t) = 0
  BY <1>4, <1>5, <1>7
<1>9. t = <<>>
  BY <1>8, EmptySeq
<1> QED
  BY <1>1, <1>2, <1>4, <1>9, Nothing

\* Steps that move nothing between the host and the line.
LEMMA Unmoved ==
  ASSUME LInv, UNCHANGED <<line, answers, UART_LastRxError, buffer>>, Arrived' = Arrived,
         Collecting' <=> Collecting, Printed'
  PROVE  LInv'
<1>1. UNCHANGED <<patient, host, errors>>
  BY DEF line
<1>2. Collected' = Collected
  BY DEF Collected
<1>3. Undisturbed => Undisturbed'
  BY <1>1, <1>2 DEF Undisturbed, Ends, EndOf, At, FeedsLeft, AllSent, Sending, Waiting, Serving,
     Before
<1> QED
  BY <1>1, <1>3 DEF LInv

LEMMA TransmitLines ==
  ASSUME IInv, IInv', LInv, TxInterrupt
  PROVE  LInv'
<1>1. /\ UNCHANGED <<line, answers, UART_LastRxError, buffer, stored, fetched>>
      /\ UNCHANGED <<pc, printing, put>>
  BY DEF TxInterrupt, rx, main
<1>2. Arrived' = Arrived
  BY <1>1, ArrivedKept
<1>3. Printed' /\ (Collecting' <=> Collecting)
  BY <1>1 DEF LInv, Printed, Collecting
<1> QED
  BY <1>1, <1>2, <1>3, Unmoved

LEMMA StutterLines ==
  ASSUME IInv, IInv', LInv, UNCHANGED vars
  PROVE  LInv'
<1>1. /\ UNCHANGED <<line, answers, UART_LastRxError, buffer, stored, fetched>>
      /\ UNCHANGED <<pc, printing, put>>
  BY DEF vars, rx, main
<1>2. Arrived' = Arrived
  BY <1>1, ArrivedKept
<1>3. Printed' /\ (Collecting' <=> Collecting)
  BY <1>1 DEF LInv, Printed, Collecting
<1> QED
  BY <1>1, <1>2, <1>3, Unmoved

LEMMA GetLines ==
  ASSUME IInv, IInv', LInv, GetAdvance \/ GetLoad
  PROVE  LInv'
<1>1. /\ UNCHANGED <<line, answers, UART_LastRxError, buffer, stored, fetched>>
      /\ UNCHANGED <<printing, put>>
      /\ {pc, pc'} \subseteq {"getc", "load", "status"}
  BY DEF GetAdvance, GetLoad, rx
<1>2. Arrived' = Arrived
  BY <1>1, ArrivedKept
<1>3. Printed' /\ (Collecting' <=> Collecting)
  BY <1>1 DEF LInv, Printed, Collecting
<1> QED
  BY <1>1, <1>2, <1>3, Unmoved

LEMMA PutLines ==
  ASSUME IInv, IInv', LInv, PutEnter \/ PutStore \/ PutPublish \/ PutEnable
  PROVE  LInv'
<1>1. /\ UNCHANGED <<line, answers, UART_LastRxError, buffer, stored, fetched>>
      /\ {pc, pc'} \subseteq {"putc", "store", "publish", "enable"}
  BY DEF PutEnter, PutStore, PutPublish, PutEnable, rx
<1>2. Arrived' = Arrived
  BY <1>1, ArrivedKept
<1>3. ~Collecting /\ ~Collecting'
  BY <1>1 DEF Collecting
<1>4. Printed'
  <2>1. CASE PutEnter \/ PutStore \/ PutPublish
    <3>1. UNCHANGED <<put, printing>>
      BY <2>1 DEF PutEnter, PutStore, PutPublish
    <3> QED
      BY <1>1, <1>3, <3>1 DEF LInv, Printed
  <2>2. CASE PutEnable
    <3>1. put \in Seq(Nat) /\ printing \in Seq(Nat) /\ printing # <<>>
      BY <2>2, TxTypes DEF PutEnable, IInv, PutInv
    <3>2. Head(printing) \in Nat /\ Len(Tail(printing)) = Len(printing) - 1
          /\ Len(printing) \in Nat /\ Len(put) \in Nat
      BY <3>1
    <3>3. Len(put') = Len(put) + 1 /\ Len(printing') = Len(printing) - 1
      BY <2>2, <3>1, <3>2, AppendProperties DEF PutEnable
    <3>4. Len(put') + Len(printing') = Len(put) + Len(printing)
      BY ONLY <3>2, <3>3
    <3> QED
      BY <1>1, <1>3, <3>4 DEF LInv, Printed
  <2> QED
    BY <2>1, <2>2
<1> QED
  BY <1>1, <1>2, <1>3, <1>4, Unmoved

LEMMA OneLess ==
  \A l : \A m, k, n \in Nat : l = m + 1 /\ l + k <= n => m + k <= n
  OBVIOUS

\* The byte goes from what has arrived to the line, which has room for it.
LEMMA StatusLines ==
  ASSUME LinesFit, IInv, IInv', LInv, GetStatus
  PROVE  LInv'
<1>1. /\ UNCHANGED <<line, answers, UART_LastRxError, printing, put>>
      /\ pc = "status" /\ pc' = "getc"
  BY DEF GetStatus, rx
<1>2. UNCHANGED <<patient, host, errors>> /\ Collecting /\ Collecting'
  BY <1>1 DEF line, Collecting
<1>3. Printed'
  BY <1>1, <1>2 DEF LInv, Printed
<1>4. ASSUME Undisturbed PROVE Undisturbed'
  <2>0. UART_LastRxError = "none"
    BY <1>4 DEF Undisturbed
  <2>1. data \in Byte /\ Arrived = <<data>> \o Arrived'
    BY ArrivedSeen
  <2>2. /\ Arrived' \in Seq(Byte) /\ Len(Arrived') \in Nat
        /\ Len(Arrived) = Len(Arrived') + 1
    <3>1. Arrived' \in Seq(Byte) /\ <<data>> \in Seq(Byte) /\ Len(<<data>>) = 1
      BY <2>1, ArrivedIsNext DEF ArrivedOK
    <3> QED
      BY <2>1, <3>1, Concatenate
  <2> DEFINE s == Stripped(Arrived')
  <2>3. s \in Seq(Byte) /\ Kept(data) \in Seq(Byte) /\ buffer \in Seq(Byte)
    BY <2>1, <2>2, StrippedType, KeptType DEF IInv, TypeOK
  <2>4. Stripped(Arrived) = Kept(data) \o s
    BY <2>1, <2>2, StrippedFirst
  <2>5. Collected = buffer \o (Kept(data) \o s)
    BY <1>2, <2>4, CollectedType
  <2>6. Collected' = buffer' \o s
    BY <1>2 DEF Collected
  <2> HIDE DEF s
  <2>7. Collected' = Collected
    <3>1. CASE data = LF
      <4>1. buffer' = buffer
        BY <3>1 DEF GetStatus
      <4>2. Kept(data) \o s = s
        BY <2>3, <3>1, Nothing DEF Kept
      <4> QED
        BY <2>5, <2>6, <4>1, <4>2
    <3>2. CASE data # LF
      <4>1. Kept(data) = <<data>> /\ <<data>> \in Seq(Byte) /\ Len(<<data>>) = 1
        BY <2>1, <3>2 DEF Kept
      <4>2. Len(Collected) = Len(buffer) + (1 + Len(s))
        BY <2>3, <2>5, <4>1, Concatenate
      <4>3. Len(Collected) < LineSize /\ Len(buffer) \in Nat /\ Len(s) \in Nat
            /\ LineSize \in Nat
        BY <1>4, <2>3, Short, ConstantAssumption
      <4>4. Len(buffer) + 1 # LineSize
        BY ONLY <4>2, <4>3
      <4>5. buffer' = Append(buffer, data)
        BY <2>0, <3>2, <4>4 DEF GetStatus
      <4>6. Append(buffer, data) \o s = buffer \o (<<data>> \o s)
        BY <2>1, <2>3, MoveOne
      <4> QED
        BY <2>5, <2>6, <4>1, <4>5, <4>6
    <3> QED
      BY <3>1, <3>2
  <2>8. Ends(host)' /\ Serving' /\ UART_LastRxError' = "none"
    BY <1>1, <1>2, <1>4 DEF Undisturbed, Ends, EndOf, At, Serving
  <2>9. (FeedsLeft \/ AllSent \/ Sending \/ Waiting)'
    <3>1. FeedsLeft \/ AllSent \/ Sending \/ Waiting
      BY <1>4 DEF Undisturbed
    <3>2. HistoryType /\ Ends(host) /\ answers \in Nat
      BY <1>4 DEF IInv, TypeOK, Undisturbed
    <3>3. CASE FeedsLeft
      <4>1. At(host) \in 1 .. Len(Line) /\ Len(Head(host)) \in Nat
        BY <3>2, <3>3, AtType DEF FeedsLeft
      <4>2. Feeds(Line[answers]) \in Nat
        BY <3>3, <4>1, LinesType DEF FeedsLeft
      <4>3. Len(Arrived') + Len(Head(host)) <= Feeds(Line[answers])
        <5>1. Len(Arrived) + Len(Head(host)) <= Feeds(Line[answers])
          BY <3>3 DEF FeedsLeft
        <5> QED
          BY <2>2, <4>1, <4>2, <5>1, OneLess
      <4>4. FeedsLeft'
        BY <1>1, <1>2, <2>7, <3>3, <4>3 DEF FeedsLeft, At
      <4> QED
        BY <4>4
    <3>4. CASE AllSent
      BY <1>1, <1>2, <2>7, <3>4 DEF AllSent, At
    <3>5. CASE Sending
      <4> DEFINE i == At(host)
      <4>1. i \in 1 .. Len(Line) /\ Len(Head(host)) \in Nat
        BY <3>2, <3>5, AtType DEF Sending
      <4>2. Before(i) \in Nat /\ Len(Line[i]) \in Nat
        BY <4>1, LinesType
      <4>3. Len(Arrived') + Len(Head(host)) <= Before(i) + Len(Line[i])
        <5>1. Len(Arrived) + Len(Head(host)) <= Before(i) + Len(Line[i])
          BY <3>5 DEF Sending
        <5>2. Before(i) + Len(Line[i]) \in Nat
          BY <4>2
        <5> QED
          BY <2>2, <4>1, <5>1, <5>2, OneLess
      <4>4. Sending'
        BY <1>1, <1>2, <2>7, <3>5, <4>3 DEF Sending, At, Before
      <4> QED
        BY <4>4
    <3>6. CASE Waiting
      BY <1>1, <1>2, <2>7, <3>6 DEF Waiting, At
    <3> QED
      BY <3>1, <3>3, <3>4, <3>5, <3>6
  <2> QED
    BY <2>8, <2>9 DEF Undisturbed
<1> QED
  BY <1>2, <1>3, <1>4 DEF LInv

\* The ring is empty and the line complete: the host is at its line feeds, at
\* the next line, or at the end.
LEMMA ParseLines ==
  ASSUME LinesFit, IInv, IInv', LInv, ParseLine
  PROVE  LInv'
<1>1. /\ UNCHANGED <<line, UART_LastRxError, buffer, put, stored, fetched>>
      /\ pc = "getc" /\ pc' = "putc" /\ answers' = answers + 1
      /\ printing' = Answer(answers + 1)
      /\ EndOfLine /\ UART_RxHead = UART_RxTail
  BY DEF ParseLine, rx
<1>2. UNCHANGED <<patient, host, errors>> /\ Collecting /\ ~Collecting'
  BY <1>1 DEF line, Collecting
<1>3. Printed'
  <2>1. Len(printing') = AnswerSize /\ AnswerSize \in Nat /\ answers \in Nat
    BY <1>1, ConstantAssumption DEF Answer, IInv, TypeOK
  <2>2. printing = <<>> /\ Len(put) \in Nat
    BY <1>2, TxTypes DEF LInv, Printed
  <2>3. Len(put) = AnswerSize * answers
    <3>1. Len(put) + Len(printing) = AnswerSize * answers /\ Len(printing) = 0
      BY <2>2 DEF LInv, Printed
    <3> QED
      BY <2>2, <3>1
  <2>4. AnswerSize * (answers + 1) = AnswerSize * answers + AnswerSize
    BY ONLY <2>1
  <2>5. Len(put') + Len(printing') = AnswerSize * answers'
    BY <1>1, <2>1, <2>3, <2>4
  <2> QED
    BY <1>2, <2>5 DEF Printed
<1>4. ASSUME Undisturbed PROVE Undisturbed'
  <2>1. Arrived = <<>> /\ Arrived' = <<>>
    <3>1. RxRing = <<>> /\ Getting = <<>>
      BY <1>1, RingNumbers DEF Getting
    <3>2. Arrived = <<>>
      BY <3>1, Nothing DEF Arrived
    <3> QED
      BY <1>1, <3>2, ArrivedKept
  <2>2. Collected = buffer /\ Collected' = <<>>
    <3>1. buffer \in Seq(Byte)
      BY DEF IInv, TypeOK
    <3>2. Stripped(Arrived) = <<>> /\ Stripped(Arrived') = <<>>
      BY <2>1, StrippedNone
    <3>3. Collected = buffer \o <<>> /\ Collected' = <<>> \o <<>>
      BY <1>2, <3>2 DEF Collected
    <3>4. buffer \o <<>> = buffer /\ <<>> \o <<>> = <<>>
      BY <3>1, Nothing
    <3> QED
      BY <3>3, <3>4
  <2>3. answers + 1 \in 1 .. Len(Line) /\ buffer = Stripped(Line[answers + 1])
    BY <1>1, <1>4, <2>2, WholeLine DEF EndOfLine
  <2>4. Ends(host)' /\ Serving' /\ UART_LastRxError' = "none"
    BY <1>1, <1>2, <1>4, <2>3 DEF Undisturbed, Ends, EndOf, At, Serving
  <2>5. HistoryType /\ Ends(host) /\ answers \in Nat
    BY <1>4 DEF IInv, TypeOK, Undisturbed
  <2>6. Sending \/ Waiting
    BY <1>1, <1>4, <2>2 DEF Undisturbed, FeedsLeft, AllSent, EndOfLine
  <2>7. Len(Arrived') = 0
    BY <2>1, Nothing
  <2>8. CASE Sending
    <3> DEFINE i == At(host)
               r == Head(host)
    <3>1. i \in 1 .. Len(Line) /\ i = answers' /\ host # <<>>
          /\ r \in Seq(Byte) /\ Len(r) \in Nat
      BY <1>1, <2>5, <2>8, AtType DEF Sending
    <3>2. Stripped(r) = <<>>
      <4>1. Stripped(Line[i]) \o Stripped(r) = Stripped(Line[i])
        BY <2>2, <2>3, <2>8 DEF Sending
      <4>2. Stripped(Line[i]) \in Seq(Byte) /\ Stripped(r) \in Seq(Byte)
        BY <3>1, StrippedType, LinesType
      <4> QED
        BY <4>1, <4>2, ConcatEqualIffEmpty
    <3>3. Len(r) <= Feeds(Line[i])
      <4>1. Feeds(r) <= Feeds(Line[i])
        BY <2>5, <3>1 DEF Ends, EndOf
      <4>2. Feeds(r) = Len(r)
        <5>1. Feeds(r) = Len(r) - Len(<<>>) /\ Len(r) \in Nat
          BY <3>1, <3>2 DEF Feeds
        <5>2. Len(<<>>) = 0
          OBVIOUS
        <5> HIDE DEF r
        <5> QED
          BY <5>1, <5>2
      <4> QED
        BY <4>1, <4>2
    <3>4. Len(Arrived') + Len(r) = Len(r)
      BY <2>7, <3>1
    <3>5. FeedsLeft'
      <4>1. Len(Arrived') + Len(r) <= Feeds(Line[answers'])
        BY <3>1, <3>3, <3>4
      <4> QED
        BY <1>1, <1>2, <2>2, <3>1, <3>2, <4>1 DEF FeedsLeft, At
    <3> QED
      BY <2>4, <3>5 DEF Undisturbed
  <2>9. CASE Waiting
    <3> DEFINE i == At(host)
    <3>1. i = answers' + 1
      BY <1>1, <2>5, <2>9 DEF Waiting
    <3>2. CASE host = <<>>
      <4>1. AllSent'
        BY <1>2, <2>2, <3>1, <3>2 DEF AllSent, At
      <4> QED
        BY <2>4, <4>1 DEF Undisturbed
    <3>3. CASE host # <<>>
      <4>1. i \in 1 .. Len(Line) /\ Head(host) = Line[i]
        BY <2>5, <2>9, <3>3, AtType DEF Waiting, Ends, EndOf
      <4>2. Line[i] \in Seq(Byte) /\ Len(Line[i]) \in Nat /\ Before(i) \in Nat
        BY <4>1, LinesType
      <4>3. Len(Arrived') + Len(Line[i]) <= Before(i) + Len(Line[i])
        BY <2>7, <4>2
      <4>4. <<>> \o Stripped(Line[i]) = Stripped(Line[i])
        BY <4>2, StrippedType, Nothing
      <4>5. Sending'
        BY <1>2, <2>2, <3>1, <3>3, <4>1, <4>3, <4>4 DEF Sending, At, Before
      <4> QED
        BY <2>4, <4>5 DEF Undisturbed
    <3> QED
      BY <3>2, <3>3
  <2> QED
    BY <2>6, <2>8, <2>9
<1> QED
  BY <1>2, <1>3, <1>4 DEF LInv

\* The answered line is cleared; what has arrived belongs to the next one.
LEMMA DoneLines ==
  ASSUME IInv, IInv', LInv, LineDone
  PROVE  LInv'
<1>1. /\ UNCHANGED <<line, answers, UART_LastRxError, put, stored, fetched, printing>>
      /\ pc = "putc" /\ pc' = "getc" /\ printing = <<>> /\ buffer' = <<>>
  BY DEF LineDone, rx
<1>2. UNCHANGED <<patient, host, errors>> /\ ~Collecting /\ Collecting'
  BY <1>1 DEF line, Collecting
<1>3. Printed'
  BY <1>1, <1>2 DEF LInv, Printed
<1>4. Arrived' = Arrived
  BY <1>1, ArrivedKept
<1>5. Collected' = Collected
  BY <1>1, <1>2, <1>4 DEF Collected
<1>6. Undisturbed => Undisturbed'
  BY <1>1, <1>2, <1>4, <1>5 DEF Undisturbed, Ends, EndOf, At, FeedsLeft, AllSent, Sending,
     Waiting, Serving, Before
<1> QED
  BY <1>2, <1>3, <1>6 DEF LInv
LEMMA NothingBoth ==
  ASSUME NEW S, NEW s \in Seq(S), NEW t \in Seq(S), s \o t = <<>>
  PROVE  s = <<>> /\ t = <<>>
<1>1. Len(s) \in Nat /\ Len(t) \in Nat /\ Len(s \o t) = Len(s) + Len(t) /\ Len(s \o t) = 0
  BY ConcatProperties
<1>2. Len(s) = 0 /\ Len(t) = 0
  BY <1>1
<1> QED
  BY <1>2, EmptySeq

\* Arithmetic of the lengths, away from what they are the lengths of.
LEMMA Shorter ==
  \A n \in Nat \ {0}, k \in Nat :
     /\ n # 1 => n > 1
     /\ n <= k => n - 1 # k /\ n - 1 <= k
  OBVIOUS

LEMMA AddBoth == \A a, b, n \in Nat : a <= b => a + n <= b + n
  OBVIOUS

\* One byte more from the host: it is further in its line, or at the next one.
LEMMA HostStep ==
  ASSUME HistoryType, Ends(host), host # <<>>, host' = RestOfHost
  PROVE  /\ Ends(host')
         /\ \/ /\ Len(Head(host)) = 1 /\ At(host') = At(host) + 1
               /\ host' # <<>> => Head(host') = Line[At(host')]
            \/ /\ Len(Head(host)) > 1 /\ At(host') = At(host)
               /\ host' # <<>> /\ Head(host') = Tail(Head(host))
<1> DEFINE r == Head(host)
           i == At(host)
<1>1. /\ i \in 1 .. Len(Line) /\ r \in Seq(Byte) /\ r # <<>> /\ Len(r) \in Nat \ {0}
      /\ Len(Line) \in Nat /\ Len(host) \in Nat
  BY AtType
<1>2. /\ host \in Seq(Seq(Byte) \ {<<>>})
      /\ Tail(host) \in Seq(Seq(Byte) \ {<<>>}) /\ Len(Tail(host)) = Len(host) - 1
      /\ \A j \in 1 .. Len(Tail(host)) : Tail(host)[j] = host[j + 1]
  <2>1. host \in Seq(Seq(Byte) \ {<<>>})
    BY DEF HistoryType
  <2> QED
    BY <2>1, HeadTailProperties
<1>3. /\ i = Len(Line) + 1 - Len(host) /\ Len(host) <= Len(Line)
      /\ \A j \in 2 .. Len(host) : host[j] = Line[i - 1 + j]
      /\ EndOf(r, Line[i])
  BY DEF Ends, At
<1>4. Len(host) # 0
  BY <1>2, EmptySeq
<1>5. CASE Len(r) = 1
  <2>1. host' = Tail(host)
    BY <1>5 DEF RestOfHost
  <2>2. At(host') = i + 1 /\ Len(host') = Len(host) - 1
    BY <1>1, <1>2, <1>3, <2>1 DEF At
  <2>3. \A j \in 1 .. Len(host') : host'[j] = Line[At(host') - 1 + j]
    <3> SUFFICES ASSUME NEW j \in 1 .. Len(host') PROVE host'[j] = Line[At(host') - 1 + j]
      OBVIOUS
    <3>1. /\ j + 1 \in 2 .. Len(host) /\ i - 1 + (j + 1) = (i + 1) - 1 + j
      BY <1>1, <1>4, <2>2
    <3>2. host'[j] = host[j + 1]
      BY <1>2, <2>1
    <3> QED
      BY <1>3, <2>2, <3>1, <3>2
  <2>4. ASSUME host' # <<>>
        PROVE  Head(host') = Line[At(host')] /\ EndOf(Head(host'), Line[At(host')])
    <3>1. Len(host') # 0 /\ Len(host') \in Nat
      BY <1>2, <2>1, <2>4, EmptySeq
    <3>2. 1 \in 1 .. Len(host') /\ At(host') - 1 + 1 = At(host') /\ At(host') \in 1 .. Len(Line)
      BY <1>1, <1>3, <2>2, <3>1
    <3>3. host'[1] = Line[At(host')]
      BY <2>3, <3>2
    <3>4. Head(host') = host'[1]
      OBVIOUS
    <3>5. Line[At(host')] \in Seq(Byte) /\ Len(Line[At(host')]) \in Nat
          /\ Feeds(Line[At(host')]) \in Nat
      BY <3>2, LinesType
    <3> QED
      BY <3>3, <3>4, <3>5 DEF EndOf
  <2>5. Ends(host')
    <3>1. Len(host') <= Len(Line)
      BY <1>1, <1>3, <2>2
    <3>2. \A j \in 2 .. Len(host') : j \in 1 .. Len(host')
      OBVIOUS
    <3> QED
      BY <2>3, <2>4, <3>1, <3>2 DEF Ends
  <2> QED
    BY <1>5, <2>2, <2>4, <2>5
<1>6. CASE Len(r) # 1
  <2>1. host' = <<Tail(r)>> \o Tail(host)
    BY <1>6 DEF RestOfHost
  <2>2. Tail(r) \in Seq(Byte) \ {<<>>}
    BY <1>1, <1>6, LongTail
  <2>3. <<Tail(r)>> \in Seq(Seq(Byte) \ {<<>>}) /\ Len(<<Tail(r)>>) = 1 /\ <<Tail(r)>>[1] = Tail(r)
    BY <2>2
  <2>0. Len(r) \in Nat \ {0} /\ Len(r) # 1
    BY <1>1, <1>6
  <2> HIDE DEF r
  <2>4. /\ Len(host') = Len(host)
        /\ host'[1] = Tail(r)
        /\ \A j \in 2 .. Len(host) : host'[j] = host[j]
    <3>1. /\ Len(host') = 1 + Len(Tail(host))
          /\ \A j \in 1 .. 1 + Len(Tail(host)) :
               host'[j] = IF j <= 1 THEN <<Tail(r)>>[j] ELSE Tail(host)[j - 1]
      BY <1>2, <2>1, <2>3, ConcatProperties
    <3>2. Len(host') = Len(host)
      BY <1>1, <1>2, <3>1
    <3>3. host'[1] = Tail(r)
      BY <1>1, <1>2, <1>4, <2>3, <3>1
    <3>4. ASSUME NEW j \in 2 .. Len(host) PROVE host'[j] = host[j]
      <4>1. /\ j \in 1 .. 1 + Len(Tail(host)) /\ ~(j <= 1)
            /\ j - 1 \in 1 .. Len(Tail(host)) /\ (j - 1) + 1 = j
        BY <1>1, <1>2, <3>4
      <4> QED
        BY <1>2, <3>1, <4>1
    <3> QED
      BY <3>2, <3>3, <3>4
  <2>5. host' # <<>> /\ Head(host') = Tail(r)
    <3>1. Len(<<>>) = 0
      OBVIOUS
    <3> QED
      BY <1>4, <2>4, <3>1
  <2>6. At(host') = i
    BY <2>4 DEF At
  <2>7. Len(Tail(r)) = Len(r) - 1
    BY <1>1, HeadTailProperties
  <2>8. EndOf(Tail(r), Line[i])
    <3>1. /\ Len(r) <= Len(Line[i]) /\ Feeds(r) <= Feeds(Line[i])
      BY <1>3 DEF EndOf, r
    <3>2. Feeds(Tail(r)) <= Feeds(r) /\ Feeds(Tail(r)) \in Nat /\ Feeds(r) \in Nat
      <4> DEFINE c == Head(r)
                 t == Tail(r)
      <4>1. c \in Byte /\ t \in Seq(Byte) /\ r = <<c>> \o t
        BY <1>1, <2>2
      <4> HIDE DEF c, t
      <4>2. Stripped(r) = Kept(c) \o Stripped(t)
        BY <4>1, StrippedFirst
      <4>3. /\ Kept(c) \in Seq(Byte) /\ Stripped(t) \in Seq(Byte)
            /\ Len(Kept(c)) <= 1 /\ Len(Kept(c)) \in Nat /\ Len(Stripped(t)) \in Nat
        <5>1. Kept(c) \in Seq(Byte) /\ Stripped(t) \in Seq(Byte)
          BY <4>1, KeptType, StrippedType
        <5>2. Kept(c) = <<c>> \/ Kept(c) = <<>>
          BY DEF Kept
        <5>3. Len(<<c>>) = 1 /\ Len(<<>>) = 0
          OBVIOUS
        <5>4. Len(Kept(c)) \in {0, 1}
          BY <5>2, <5>3
        <5>5. Len(Stripped(t)) \in Nat
          BY <5>1
        <5>6. \A k \in {0, 1} : k \in Nat /\ k <= 1
          OBVIOUS
        <5> QED
          BY <5>1, <5>4, <5>5, <5>6
      <4>4. Len(Stripped(r)) = Len(Kept(c)) + Len(Stripped(t))
        BY <4>2, <4>3, Concatenate
      <4>5. Len(t) = Len(r) - 1
        BY <2>7 DEF t
      <4>6. Feeds(t) <= Feeds(r) /\ Feeds(t) \in Nat /\ Feeds(r) \in Nat
        <5>1. Feeds(t) \in Nat /\ Feeds(r) \in Nat
          BY <1>1, <4>1, FeedsNat
        <5>2. Feeds(t) = Len(t) - Len(Stripped(t)) /\ Feeds(r) = Len(r) - Len(Stripped(r))
          BY DEF Feeds
        <5> QED
          BY <1>1, <4>3, <4>4, <4>5, <5>1, <5>2
      <4> QED
        BY <4>6 DEF t
    <3>3. Len(Line[i]) \in Nat /\ Feeds(Line[i]) \in Nat
      BY <1>1, LinesType
    <3>4. Len(Tail(r)) # Len(Line[i]) /\ Len(Tail(r)) <= Len(Line[i])
      <4>1. /\ Len(r) \in Nat \ {0} /\ Len(Line[i]) \in Nat /\ Len(r) <= Len(Line[i])
        BY <2>0, <3>1, <3>3
      <4>2. Len(r) - 1 # Len(Line[i]) /\ Len(r) - 1 <= Len(Line[i])
        BY <4>1, Shorter, Zenon
      <4> QED
        BY <2>7, <4>2
    <3>5. Feeds(Tail(r)) <= Feeds(Line[i])
      BY <3>1, <3>2, <3>3
    <3> QED
      BY <3>4, <3>5 DEF EndOf
  <2>9. Ends(host')
    <3>1. \A j \in 2 .. Len(host') : host'[j] = Line[At(host') - 1 + j]
      BY <1>3, <2>4, <2>6
    <3>2. Len(host') <= Len(Line)
      BY <1>3, <2>4
    <3> QED
      BY <2>5, <2>6, <2>8, <3>1, <3>2 DEF Ends
  <2>10. Len(r) > 1
    BY <2>0, Shorter
  <2> QED
    BY <2>5, <2>6, <2>9, <2>10 DEF r
<1> QED
  BY <1>5, <1>6

\* A patient host sends only what the ring has room for.
LEMMA RoomForIt ==
  ASSUME LinesFit, IInv, LInv, Undisturbed, patient, host # <<>>, MaySend
  PROVE  /\ FeedsLeft \/ Sending
         /\ Following(UART_RxHead) # UART_RxTail
<1>0. HistoryType /\ Ends(host) /\ answers \in Nat
  BY DEF IInv, TypeOK, Undisturbed
<1>1. /\ At(host) \in 1 .. Len(Line) /\ Len(Head(host)) \in Nat \ {0}
      /\ Len(Line) \in Nat /\ Len(host) \in Nat
  BY <1>0, AtType
<1>2. ~Waiting
  <2> SUFFICES ASSUME Waiting PROVE FALSE
    OBVIOUS
  <2>1. Len(Head(host)) = Len(Line[At(host)]) /\ At(host) = answers + 2
    BY DEF Waiting
  <2>2. Len(sent) = AnswerSize * (Len(Line) - Len(host))
    BY <1>1, <2>1 DEF MaySend, At
  <2>3. Len(Line) - Len(host) = answers + 1
    BY <1>0, <1>1, <2>1 DEF At
  <2>4. Len(sent) \in Nat /\ Len(sent) <= AnswerSize * answers
    BY SentBound DEF LInv
  <2>5. AnswerSize \in Nat \ {0}
    BY ConstantAssumption
  <2>6. AnswerSize * (answers + 1) = AnswerSize * answers + AnswerSize
        /\ AnswerSize * answers \in Nat
    BY <1>0, <2>5
  <2> QED
    BY <2>2, <2>3, <2>4, <2>5, <2>6
<1>3. FeedsLeft \/ Sending
  BY <1>2 DEF Undisturbed, AllSent
<1>4. Len(Arrived) + Len(Head(host)) < Size
  <2> DEFINE i == At(host)
  <2>1. /\ Len(Line[i]) \in Nat /\ Feeds(Line[i]) \in Nat /\ Feeds(Line[i]) <= Len(Line[i])
        /\ Before(i) \in Nat
    BY <1>1, LinesType
  <2>2. Before(i) + Len(Line[i]) < Size
    <3>1. Len(Line[i]) + (IF i = 1 THEN 0 ELSE Feeds(Line[i - 1])) < Size
      BY <1>1 DEF LinesFit
    <3>2. Len(Line[i]) + Before(i) < Size
      BY <3>1 DEF Before
    <3> QED
      BY <2>1, <3>2, SizeIsNat
  <2>3. Len(Arrived) \in Nat
    BY ArrivedIs DEF ArrivedOK
  <2>4. \/ Len(Arrived) + Len(Head(host)) <= Feeds(Line[i])
        \/ Len(Arrived) + Len(Head(host)) <= Before(i) + Len(Line[i])
    BY <1>3 DEF FeedsLeft, Sending
  <2> HIDE DEF i
  <2> QED
    BY <1>1, <2>1, <2>2, <2>3, <2>4, SizeIsNat
<1>5. Len(RxRing) # Size - 1
  <2>1. Len(RxRing) \in Nat /\ Len(RxRing) <= Len(Arrived) /\ Len(Arrived) \in Nat
    BY ArrivedIs DEF ArrivedOK
  <2> QED
    BY <1>1, <1>4, <2>1, SizeIsNat
<1> QED
  BY <1>3, <1>5, RingNumbers

LEMMA ReceiveLines ==
  ASSUME LinesFit, IInv, IInv', LInv, NEW e \in {"none", "frame"}, RxInterrupt(e)
  PROVE  LInv'
<1> DEFINE c == Head(Head(host))
           r == Head(host)
<1>1. /\ host # <<>> /\ MaySend /\ host' = RestOfHost /\ patient' = patient
      /\ e = "frame" => errors' = errors + 1
      /\ e # "frame" => errors' = errors
      /\ UNCHANGED <<UART_RxTail, main, fetched, answers, put>>
  BY DEF RxInterrupt
<1>2. UNCHANGED <<pc, buffer, printing>> /\ (Collecting' <=> Collecting)
  BY <1>1 DEF main, Collecting
<1>3. Printed' /\ errors' \in Nat
  BY <1>1, <1>2 DEF LInv, Printed
<1>4. ASSUME patient', errors' = 0 PROVE Undisturbed'
  <2>0. /\ patient /\ errors = 0 /\ e = "none" /\ Undisturbed
    BY <1>1, <1>4 DEF LInv
  <2>1. (FeedsLeft \/ Sending) /\ Following(UART_RxHead) # UART_RxTail
    BY <1>1, <2>0, RoomForIt
  <2>2. UART_LastRxError' = "none" /\ stored' = Append(stored, c)
    BY <2>0, <2>1 DEF RxInterrupt
  <2>3. HistoryType /\ Ends(host) /\ answers \in Nat
    BY <2>0 DEF IInv, TypeOK, Undisturbed
  <2>4. /\ At(host) \in 1 .. Len(Line) /\ r \in Seq(Byte) /\ r # <<>>
        /\ Len(r) \in Nat \ {0}
    BY <1>1, <2>3, AtType
  <2>5. /\ c \in Byte /\ Tail(r) \in Seq(Byte) /\ r = <<c>> \o Tail(r)
        /\ Len(Tail(r)) = Len(r) - 1
    BY <2>4
  <2>6. /\ Ends(host')
        /\ \/ /\ Len(r) = 1 /\ At(host') = At(host) + 1
              /\ host' # <<>> => Head(host') = Line[At(host')]
           \/ /\ Len(r) > 1 /\ At(host') = At(host)
              /\ host' # <<>> /\ Head(host') = Tail(r)
    BY <1>1, <2>3, HostStep
  <2>7. Arrived \in Seq(Byte) /\ Len(Arrived) \in Nat /\ Len(Arrived') = Len(Arrived) + 1
        /\ Arrived' = Append(Arrived, c)
    <3>1. Arrived \in Seq(Byte)
      BY ArrivedIs DEF ArrivedOK
    <3>2. Arrived' = Append(Arrived, c)
      BY <1>1, <2>2, <2>5, ArrivedGrows
    <3> QED
      BY <2>5, <3>1, <3>2, AppendProperties
  <2>8. Stripped(r) = Kept(c) \o Stripped(Tail(r))
    BY <2>5, StrippedFirst
  <2>9. /\ Kept(c) \in Seq(Byte) /\ Stripped(Tail(r)) \in Seq(Byte)
        /\ Collected \in Seq(Byte)
    BY <2>5, KeptType, StrippedType, CollectedType
  <2>10. Collected' = Collected \o Kept(c)
    <3> DEFINE b == IF Collecting THEN buffer ELSE <<>>
    <3>1. b \in Seq(Byte) /\ Stripped(Arrived) \in Seq(Byte)
      BY <2>7, StrippedType, Nothing DEF IInv, TypeOK
    <3>2. Stripped(Arrived') = Stripped(Arrived) \o Kept(c)
      BY <2>5, <2>7, StrippedAppend
    <3>3. Collected = b \o Stripped(Arrived) /\ Collected' = b \o Stripped(Arrived')
      BY <1>2 DEF Collected
    <3> HIDE DEF b
    <3>4. (b \o Stripped(Arrived)) \o Kept(c) = b \o (Stripped(Arrived) \o Kept(c))
      BY <2>9, <3>1, Associate
    <3> QED
      BY <3>2, <3>3, <3>4
  <2> HIDE DEF c, r
  <2>11. Serving'
    BY <1>1, <1>2, <2>0 DEF Undisturbed, Serving
  <2>12. Len(r) = 1 => Tail(r) = <<>> /\ Stripped(r) = Kept(c)
    <3> SUFFICES ASSUME Len(r) = 1 PROVE Tail(r) = <<>> /\ Stripped(r) = Kept(c)
      OBVIOUS
    <3>1. Tail(r) = <<>>
      BY <2>5, EmptySeq
    <3> QED
      BY <2>8, <2>9, <3>1, StrippedNone, Nothing
  <2>13. CASE FeedsLeft
    <3>1. /\ At(host) = answers /\ Collected = <<>> /\ Stripped(r) = <<>>
          /\ Len(Arrived) + Len(r) <= Feeds(Line[answers])
      BY <2>13 DEF FeedsLeft, r
    <3>2. Kept(c) = <<>> /\ Stripped(Tail(r)) = <<>>
      <4> DEFINE k == Kept(c)
                 t == Stripped(Tail(r))
      <4>1. k \in Seq(Byte) /\ t \in Seq(Byte) /\ k \o t = <<>>
        BY <2>8, <2>9, <3>1
      <4> HIDE DEF k, t
      <4>2. k = <<>> /\ t = <<>>
        BY <4>1, NothingBoth
      <4> QED
        BY <4>2 DEF k, t
    <3>3. Collected' = <<>>
      BY <2>9, <2>10, <3>1, <3>2, Nothing
    <3>4. Feeds(Line[answers]) \in Nat
      BY <2>4, <3>1, LinesType
    <3>5. CASE Len(r) = 1
      <4>1. At(host') = answers' + 1
        BY <1>1, <2>3, <2>6, <3>1, <3>5
      <4>2. CASE host' = <<>>
        <5>1. AllSent'
          BY <3>3, <4>1, <4>2 DEF AllSent, At
        <5> QED
          BY <2>2, <2>6, <2>11, <5>1 DEF Undisturbed, Ends, At
      <4>3. CASE host' # <<>>
        <5> DEFINE i == answers + 1
        <5>1. At(host') = i /\ Head(host') = Line[i]
          BY <1>1, <2>3, <2>6, <3>5, <4>1, <4>3
        <5>2. i \in 1 .. Len(Line)
          <6>1. host' \in Seq(Seq(Byte) \ {<<>>})
            BY DEF IInv, HistoryType
          <6> QED
            BY <2>6, <4>3, <5>1, <6>1, EndsAt
        <5>3. Line[i] \in Seq(Byte) /\ Len(Line[i]) \in Nat /\ Before(i) = Feeds(Line[answers])
          <6>1. i # 1 /\ i - 1 = answers
            BY <2>3, <2>4, <3>1
          <6> QED
            BY <5>2, <6>1, LinesType DEF Before
        <5>4. <<>> \o Stripped(Line[i]) = Stripped(Line[i])
          BY <5>3, StrippedType, Nothing
        <5>5. Len(Arrived') + Len(Line[i]) <= Before(i) + Len(Line[i])
          <6>1. /\ Len(Arrived') = Len(Arrived) + 1 /\ Len(Arrived) \in Nat
                /\ Len(Arrived) + 1 <= Feeds(Line[answers])
            BY <2>7, <3>1, <3>5
          <6>2. Len(Arrived') <= Before(i) /\ Len(Arrived') \in Nat /\ Before(i) \in Nat
            BY <3>4, <5>3, <6>1
          <6> QED
            BY <5>3, <6>2, AddBoth
        <5>6. Sending'
          BY <1>1, <3>3, <4>3, <5>1, <5>4, <5>5 DEF Sending, At, Before
        <5> QED
          BY <2>2, <2>6, <2>11, <5>6 DEF Undisturbed, Ends, At
      <4> QED
        BY <4>2, <4>3
    <3>6. CASE Len(r) # 1
      <4>1. At(host') = answers /\ host' # <<>> /\ Head(host') = Tail(r)
        BY <2>6, <3>1, <3>6
      <4>2. Len(Arrived') + Len(Tail(r)) <= Feeds(Line[answers])
        BY <2>4, <2>5, <2>7, <3>1, <3>4
      <4>3. FeedsLeft'
        BY <1>1, <3>2, <3>3, <4>1, <4>2 DEF FeedsLeft, At
      <4> QED
        BY <2>2, <2>6, <2>11, <4>3 DEF Undisturbed, Ends, At
    <3> QED
      BY <3>5, <3>6
  <2>14. CASE Sending
    <3> DEFINE i == At(host)
    <3>1. /\ i = answers + 1 /\ Collected \o Stripped(r) = Stripped(Line[i])
          /\ Len(Arrived) + Len(r) <= Before(i) + Len(Line[i])
      BY <2>14 DEF Sending, r
    <3>2. Len(Line[i]) \in Nat /\ Before(i) \in Nat
      BY <2>4, LinesType
    <3>3. CASE Len(r) = 1
      <4>1. At(host') = answers' + 2 /\ (host' # <<>> => Head(host') = Line[At(host')])
        BY <1>1, <2>3, <2>6, <3>1, <3>3
      <4>2. Collected' = Stripped(Line[answers' + 1])
        BY <1>1, <2>10, <2>12, <3>1, <3>3
      <4>3. Waiting'
        BY <4>1, <4>2 DEF Waiting, At
      <4> QED
        BY <2>2, <2>6, <2>11, <4>3 DEF Undisturbed, Ends, At
    <3>4. CASE Len(r) # 1
      <4>1. At(host') = i /\ host' # <<>> /\ Head(host') = Tail(r)
        BY <2>6, <3>4
      <4>2. Collected' \o Stripped(Tail(r)) = Stripped(Line[i])
        <5>1. (Collected \o Kept(c)) \o Stripped(Tail(r))
                = Collected \o (Kept(c) \o Stripped(Tail(r)))
          BY <2>9, Associate
        <5> QED
          BY <2>8, <2>10, <3>1, <5>1
      <4>3. Len(Arrived') + Len(Tail(r)) <= Before(i) + Len(Line[i])
        <5>1. Len(Arrived') + Len(Tail(r)) = Len(Arrived) + Len(r)
          BY <2>4, <2>5, <2>7
        <5> QED
          BY <3>1, <5>1
      <4>4. Sending'
        BY <1>1, <3>1, <4>1, <4>2, <4>3 DEF Sending, At, Before
      <4> QED
        BY <2>2, <2>6, <2>11, <4>4 DEF Undisturbed, Ends, At
    <3> QED
      BY <3>3, <3>4
  <2> QED
    BY <2>1, <2>13, <2>14
<1> QED
  BY <1>3, <1>4 DEF LInv

LEMMA InitLInv == Init => LInv
<1> SUFFICES ASSUME Init PROVE LInv
  OBVIOUS
<1>0. IInv
  BY InitIInv
<1>1. /\ host = Line /\ answers = 0 /\ put = <<>> /\ printing = <<>> /\ buffer = <<>>
      /\ UART_LastRxError = "none" /\ errors = 0 /\ pc = "getc"
      /\ UART_RxHead = UART_RxTail
  BY DEF Init
<1>2. Collecting
  BY <1>1 DEF Collecting
<1>3. Printed
  <2>1. Len(<<>>) = 0 /\ AnswerSize * 0 = 0
    BY ConstantAssumption
  <2> QED
    BY <1>1, <2>1 DEF Printed
<1>4. Arrived = <<>>
  <2>1. Getting = <<>> /\ RxRing = <<>>
    BY <1>0, <1>1, RingNumbers DEF Getting
  <2> QED
    BY <2>1, Nothing DEF Arrived
<1>5. Collected = <<>>
  BY <1>1, <1>2, <1>4, StrippedNone, Nothing DEF Collected
<1>6. Len(Line) \in Nat /\ At(host) = 1
  BY <1>1, LineAssumption DEF At
<1>7. Line # <<>> => 1 \in 1 .. Len(Line) /\ Head(Line) = Line[1]
  <2>1. Line \in Seq(Seq(Byte) \ {<<>>})
    BY LineAssumption
  <2>2. Line # <<>> => Len(Line) # 0
    BY <2>1, EmptySeq
  <2> QED
    BY <1>6, <2>2
<1>8. Ends(host)
  <2>1. \A j \in 2 .. Len(host) : At(host) - 1 + j = j
    BY <1>6
  <2>2. ASSUME Line # <<>> PROVE EndOf(Head(Line), Line[1])
    <3>1. Len(Line[1]) \in Nat /\ Feeds(Line[1]) \in Nat
      BY <1>7, <2>2, LinesType
    <3> QED
      BY <1>7, <2>2, <3>1 DEF EndOf
  <2>3. \A j \in 2 .. Len(host) : host[j] = Line[At(host) - 1 + j]
    BY <1>1, <2>1
  <2>4. Len(host) <= Len(Line)
    BY <1>1, <1>6
  <2> QED
    BY <1>1, <1>6, <2>2, <2>3, <2>4 DEF Ends
<1>9. AllSent \/ Sending
  <2>1. CASE Line = <<>>
    BY <1>1, <1>5, <1>6, <2>1 DEF AllSent
  <2>2. CASE Line # <<>>
    <3>1. Line[1] \in Seq(Byte) /\ Len(Line[1]) \in Nat /\ Before(1) = 0
      BY <1>7, <2>2, LinesType DEF Before
    <3>2. <<>> \o Stripped(Line[1]) = Stripped(Line[1])
      BY <3>1, StrippedType, Nothing
    <3>3. Len(Arrived) + Len(Line[1]) <= Before(1) + Len(Line[1])
      <4>1. Len(Arrived) = 0
        BY <1>4, Nothing
      <4> QED
        BY <3>1, <4>1
    <3> QED
      BY <1>1, <1>5, <1>6, <1>7, <2>2, <3>2, <3>3 DEF Sending
  <2> QED
    BY <2>1, <2>2
<1>10. Undisturbed
  BY <1>1, <1>2, <1>8, <1>9 DEF Undisturbed, Serving
<1> QED
  BY <1>1, <1>3, <1>10 DEF LInv

LEMMA NextLInv == LinesFit /\ IInv /\ IInv' /\ LInv /\ [Next]_vars => LInv'
<1>1. ASSUME LinesFit, IInv, IInv', LInv, Interrupt
      PROVE  LInv'
  BY <1>1, ReceiveLines, TransmitLines DEF Interrupt
<1>2. ASSUME LinesFit, IInv, IInv', LInv, Main
      PROVE  LInv'
  <2>1. NoLine => UNCHANGED vars
    BY DEF NoLine
  <2> QED
    BY <1>2, <2>1, GetLines, StatusLines, ParseLines, PutLines, DoneLines, StutterLines DEF Main
<1> QED
  BY <1>1, <1>2, StutterLines DEF Next

\* If lines fit, a host that waits for its answers has each line answered by
\* itself and whole, whenever the interrupts and the main program get to run.
THEOREM LineByLine ==
  ASSUME LinesFit
  PROVE  Spec => []AnsweredByItself
<1>1. Init => LInv
  BY InitLInv
<1>2. IInv /\ IInv' /\ LInv /\ [Next]_vars => LInv'
  BY NextLInv
<1>3. TypeOK /\ LInv => AnsweredByItself
  BY DEF LInv, Undisturbed, Serving, Collecting, AnsweredByItself
<1> QED
  BY <1>1, <1>2, <1>3, Invariant, PTL DEF Spec, IInv
==============================================================================
