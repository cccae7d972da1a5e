---------------------------- MODULE RingbufProofs ----------------------------
(***************************************************************************)
(* Proofs about Ringbuf for every buffer size and every set of bytes: the  *)
(* pointers stay in range, producer and consumer never meet on a slot, and *)
(* the interleaved buffer implements the atomic BoundedFifo.               *)
(***************************************************************************)
EXTENDS Ringbuf, SequenceTheorems, TLAPS

\* A difference of two slots masks to itself or to itself plus Size.
LEMMA MaskedDifference ==
  ASSUME NEW a \in Slot, NEW b \in Slot
  PROVE  Masked(a - b) = IF a >= b THEN a - b ELSE a - b + Size
  BY SizeAssumption DEF Slot, Masked

\* A pointer plus at most one lap masks to itself or to itself less Size.
LEMMA MaskedSum ==
  ASSUME NEW a \in Slot, NEW k \in 0 .. Size
  PROVE  /\ Masked(a + k) = IF a + k < Size THEN a + k ELSE a + k - Size
         /\ Masked(a + k) \in Slot
  BY SizeAssumption DEF Slot, Masked

\* What is true between any two steps: besides the types, a producer past
\* its test still has room and has stored its byte before publishing it, and
\* a consumer past its test still has a byte and has loaded the oldest one.
IInv ==
  /\ TypeOK
  /\ ppc \in {"store", "publish"} => Elements # mask /\ parg \in Byte
  /\ ppc = "publish" => data[put_ptr] = parg
  /\ gpc \in {"load", "advance"} => Elements > 0
  /\ gpc = "advance" => greg = data[get_ptr]

\* The number of elements changes by one, and only with the pointers.
LEMMA ElementsRange ==
  ASSUME TypeOK
  PROVE  Elements \in 0 .. mask
  <1>1. Elements = IF put_ptr >= get_ptr THEN put_ptr - get_ptr
                   ELSE put_ptr - get_ptr + Size
    BY MaskedDifference DEF TypeOK, Elements
  <1> QED
    BY <1>1, SizeAssumption DEF TypeOK, Slot, mask

LEMMA PutAdvances ==
  ASSUME TypeOK, TypeOK', put_ptr' = Masked(put_ptr + 1), get_ptr' = get_ptr,
         Elements # mask
  PROVE  Elements' = Elements + 1
  <1>1. Elements = IF put_ptr >= get_ptr THEN put_ptr - get_ptr
                   ELSE put_ptr - get_ptr + Size
    BY MaskedDifference DEF TypeOK, Elements
  <1>2. Elements' = IF put_ptr' >= get_ptr THEN put_ptr' - get_ptr
                    ELSE put_ptr' - get_ptr + Size
    BY MaskedDifference DEF TypeOK, Elements
  <1>3. put_ptr' = IF put_ptr + 1 < Size THEN put_ptr + 1
                   ELSE put_ptr + 1 - Size
    BY MaskedSum, SizeAssumption DEF TypeOK
  <1> QED
    BY <1>1, <1>2, <1>3, SizeAssumption DEF TypeOK, Slot, mask

LEMMA GetAdvances ==
  ASSUME TypeOK, TypeOK', get_ptr' = Masked(get_ptr + 1), put_ptr' = put_ptr,
         Elements > 0
  PROVE  Elements' = Elements - 1
  <1>1. Elements = IF put_ptr >= get_ptr THEN put_ptr - get_ptr
                   ELSE put_ptr - get_ptr + Size
    BY MaskedDifference DEF TypeOK, Elements
  <1>2. Elements' = IF put_ptr >= get_ptr' THEN put_ptr - get_ptr'
                    ELSE put_ptr - get_ptr' + Size
    BY MaskedDifference DEF TypeOK, Elements
  <1>3. get_ptr' = IF get_ptr + 1 < Size THEN get_ptr + 1
                   ELSE get_ptr + 1 - Size
    BY MaskedSum, SizeAssumption DEF TypeOK
  <1> QED
    BY <1>1, <1>2, <1>3, SizeAssumption DEF TypeOK, Slot, mask

\* The slot the producer writes is not the oldest one when there is one.
LEMMA PointersApart ==
  ASSUME TypeOK, Elements > 0
  PROVE  put_ptr # get_ptr
  <1>1. Elements = IF put_ptr >= get_ptr THEN put_ptr - get_ptr
                   ELSE put_ptr - get_ptr + Size
    BY MaskedDifference DEF TypeOK, Elements
  <1> QED
    BY <1>1 DEF TypeOK, Slot

LEMMA InvInit == Init => IInv
  <1> SUFFICES ASSUME Init PROVE IInv
    OBVIOUS
  <1>1. TypeOK
    BY SizeAssumption DEF Init, TypeOK, Slot
  <1> QED
    BY <1>1 DEF Init, IInv

LEMMA TypeNext == TypeOK /\ [Next]_vars => TypeOK'
  <1> SUFFICES ASSUME TypeOK, [Next]_vars PROVE TypeOK'
    OBVIOUS
  <1> USE DEF TypeOK
  <1>1. CASE PutFull
    BY <1>1 DEF PutFull, consumer
  <1>2. ASSUME NEW c \in Byte, PutCheck(c) PROVE TypeOK'
    BY <1>2 DEF PutCheck, consumer
  <1>3. CASE PutStore
    BY <1>3 DEF PutStore, consumer
  <1>4. CASE PutPublish
    <2>1. Masked(put_ptr + 1) \in Slot
      BY MaskedSum, SizeAssumption
    <2> QED
      BY <1>4, <2>1 DEF PutPublish, consumer
  <1>5. CASE GetEmpty
    BY <1>5 DEF GetEmpty, producer
  <1>6. CASE GetCheck
    BY <1>6 DEF GetCheck, producer
  <1>7. CASE GetLoad
    BY <1>7 DEF GetLoad, producer
  <1>8. CASE GetAdvance
    <2>1. Masked(get_ptr + 1) \in Slot
      BY MaskedSum, SizeAssumption
    <2> QED
      BY <1>8, <2>1 DEF GetAdvance, producer
  <1>9. CASE UNCHANGED vars
    BY <1>9 DEF vars, producer, consumer
  <1> QED
    BY <1>1, <1>2, <1>3, <1>4, <1>5, <1>6, <1>7, <1>8, <1>9
       DEF Next, Producer, Consumer

LEMMA InvNext == IInv /\ [Next]_vars => IInv'
  <1> SUFFICES ASSUME IInv, [Next]_vars PROVE IInv'
    OBVIOUS
  <1>0. TypeOK /\ TypeOK'
    BY TypeNext DEF IInv
  <1>e. Elements \in 0 .. mask
    BY <1>0, ElementsRange
  <1>m. mask \in Nat \ {0}
    BY SizeAssumption DEF mask
  <1>1. CASE PutFull
    BY <1>0, <1>1 DEF PutFull, consumer, IInv, Elements
  <1>2. ASSUME NEW c \in Byte, PutCheck(c) PROVE IInv'
    BY <1>0, <1>2 DEF PutCheck, consumer, IInv, Elements
  <1>3. CASE PutStore
    <2>1. gpc = "advance" => data'[get_ptr] = data[get_ptr]
      BY <1>0, <1>3, PointersApart DEF PutStore, IInv, TypeOK
    <2>2. data'[put_ptr] = parg
      BY <1>0, <1>3 DEF PutStore, TypeOK
    <2> QED
      BY <1>0, <1>3, <2>1, <2>2 DEF PutStore, consumer, IInv, Elements
  <1>4. CASE PutPublish
    <2>1. Elements' = Elements + 1
      BY <1>0, <1>4, PutAdvances DEF PutPublish, consumer, IInv
    <2> QED
      BY <1>0, <1>e, <1>4, <2>1 DEF PutPublish, consumer, IInv
  <1>5. CASE GetEmpty
    BY <1>0, <1>5 DEF GetEmpty, producer, IInv, Elements
  <1>6. CASE GetCheck
    BY <1>0, <1>6 DEF GetCheck, producer, IInv, Elements
  <1>7. CASE GetLoad
    BY <1>0, <1>7 DEF GetLoad, producer, IInv, Elements
  <1>8. CASE GetAdvance
    <2>1. Elements' = Elements - 1
      BY <1>0, <1>8, GetAdvances DEF GetAdvance, producer, IInv
    <2> QED
      BY <1>0, <1>e, <1>m, <1>8, <2>1 DEF GetAdvance, producer, IInv
  <1>9. CASE UNCHANGED vars
    BY <1>0, <1>9 DEF vars, producer, consumer, IInv, Elements
  <1> QED
    BY <1>1, <1>2, <1>3, <1>4, <1>5, <1>6, <1>7, <1>8, <1>9
       DEF Next, Producer, Consumer

LEMMA Invariance == Spec => []IInv
  BY InvInit, InvNext, PTL DEF Spec

\* Whatever the interleaving, both pointers stay inside the array.
THEOREM TypeCorrect == Spec => []TypeOK
  <1>1. IInv => TypeOK
    BY DEF IInv
  <1> QED
    BY <1>1, Invariance, PTL

\* The producer never touches the slot the consumer is reading.
THEOREM SlotsApart == Spec => []NoSlotRace
  <1>1. IInv => NoSlotRace
    BY PointersApart DEF IInv, NoSlotRace
  <1> QED
    BY <1>1, Invariance, PTL

------------------------------------------------------------------------------
(* The refinement: Contents changes exactly when a pointer moves.          *)

LEMMA ContentsIsSeq ==
  ASSUME TypeOK
  PROVE  /\ Contents \in Seq(Byte \cup {NoByte})
         /\ Len(Contents) = Elements
         /\ \A i \in 1 .. Elements :
              Contents[i] = data[Masked(get_ptr + i - 1)]
  <1>1. Elements \in Nat
    BY ElementsRange, SizeAssumption DEF mask
  <1>2. ASSUME NEW i \in 1 .. Elements
        PROVE  Masked(get_ptr + i - 1) \in Slot
    <2>1. i - 1 \in 0 .. Size /\ get_ptr \in Slot
      BY <1>1, ElementsRange, SizeAssumption DEF mask, TypeOK
    <2>2. get_ptr + i - 1 = get_ptr + (i - 1)
      BY <2>1, SizeAssumption DEF Slot
    <2> QED
      BY <2>1, <2>2, MaskedSum
  <1>3. \A i \in 1 .. Elements : data[Masked(get_ptr + i - 1)] \in Byte \cup {NoByte}
    BY <1>2 DEF TypeOK
  <1> QED
    BY <1>1, <1>3 DEF Contents

\* A store lands outside the queued bytes.
LEMMA StoreIsInvisible ==
  ASSUME IInv, IInv', PutStore
  PROVE  Contents' = Contents
  <1>1. Elements' = Elements /\ get_ptr' = get_ptr
    BY DEF PutStore, consumer, Elements
  <1>2. ASSUME NEW i \in 1 .. Elements
        PROVE  data'[Masked(get_ptr + i - 1)] = data[Masked(get_ptr + i - 1)]
    <2>1. Elements \in 0 .. mask /\ get_ptr \in Slot /\ put_ptr \in Slot
      BY ElementsRange DEF IInv, TypeOK
    <2>2. i - 1 \in 0 .. Size /\ get_ptr + i - 1 = get_ptr + (i - 1)
      BY <2>1, SizeAssumption DEF mask, Slot
    <2>3. /\ Masked(get_ptr + i - 1) = IF get_ptr + (i - 1) < Size
               THEN get_ptr + (i - 1) ELSE get_ptr + (i - 1) - Size
          /\ Masked(get_ptr + i - 1) \in Slot
      BY <2>1, <2>2, MaskedSum
    <2>4. Elements = IF put_ptr >= get_ptr THEN put_ptr - get_ptr
                     ELSE put_ptr - get_ptr + Size
      BY <2>1, MaskedDifference DEF Elements
    <2>5. Masked(get_ptr + i - 1) # put_ptr
      BY <2>1, <2>2, <2>3, <2>4, SizeAssumption DEF Slot, mask
    <2> QED
      BY <2>3, <2>5 DEF PutStore, IInv, TypeOK
  <1> QED
    BY <1>1, <1>2 DEF Contents

LEMMA PublishAppends ==
  ASSUME IInv, IInv', PutPublish
  PROVE  Contents' = Append(Contents, parg)
  <1>1. Elements' = Elements + 1
    BY PutAdvances DEF IInv, PutPublish, consumer
  <1>2. /\ Contents \in Seq(Byte \cup {NoByte})
        /\ Len(Contents) = Elements
        /\ Elements \in Nat
    BY ContentsIsSeq, ElementsRange, SizeAssumption DEF IInv, mask
  <1>3. Masked(get_ptr + Elements) = put_ptr
    <2>1. Elements \in 0 .. mask /\ get_ptr \in Slot /\ put_ptr \in Slot
      BY ElementsRange DEF IInv, TypeOK
    <2>2. Elements = IF put_ptr >= get_ptr THEN put_ptr - get_ptr
                     ELSE put_ptr - get_ptr + Size
      BY <2>1, MaskedDifference DEF Elements
    <2>3. Elements \in 0 .. Size
      BY <2>1, SizeAssumption DEF mask
    <2> QED
      BY <2>1, <2>2, <2>3, MaskedSum, SizeAssumption DEF Slot
  <1>4. data' = data /\ get_ptr' = get_ptr /\ data[put_ptr] = parg
    BY DEF PutPublish, consumer, IInv
  <1>5. \A i \in 1 .. Elements + 1 :
          data'[Masked(get_ptr' + i - 1)] =
            IF i = Elements + 1 THEN parg ELSE Contents[i]
    <2> SUFFICES ASSUME NEW i \in 1 .. Elements + 1
                 PROVE  data[Masked(get_ptr + i - 1)] =
                          IF i = Elements + 1 THEN parg ELSE Contents[i]
      BY <1>4
    <2>1. CASE i = Elements + 1
      <3>1. get_ptr + i - 1 = get_ptr + Elements
        BY <1>2, <2>1, SizeAssumption DEF IInv, TypeOK, Slot
      <3> QED
        BY <1>3, <1>4, <2>1, <3>1
    <2>2. CASE i # Elements + 1
      <3>1. i \in 1 .. Elements
        BY <1>2, <2>2
      <3> QED
        BY <2>2, <3>1, ContentsIsSeq DEF IInv
    <2> QED
      BY <2>1, <2>2
  <1>6. parg \in Byte \cup {NoByte}
    BY DEF IInv, TypeOK
  <1>7. /\ Contents' \in Seq(Byte \cup {NoByte})
        /\ Len(Contents') = Elements + 1
        /\ \A i \in 1 .. Elements + 1 : Contents'[i] =
             IF i = Elements + 1 THEN parg ELSE Contents[i]
    <2>1. Contents' = [i \in 1 .. Elements + 1 |->
                         IF i = Elements + 1 THEN parg ELSE Contents[i]]
      BY <1>1, <1>5 DEF Contents
    <2>2. \A i \in 1 .. Elements + 1 :
            (IF i = Elements + 1 THEN parg ELSE Contents[i]) \in Byte \cup {NoByte}
      BY <1>2, <1>6, ElementOfSeq
    <2> QED
      BY <1>2, <2>1, <2>2
  <1>8. /\ Append(Contents, parg) \in Seq(Byte \cup {NoByte})
        /\ Len(Append(Contents, parg)) = Elements + 1
        /\ \A i \in 1 .. Elements : Append(Contents, parg)[i] = Contents[i]
        /\ Append(Contents, parg)[Elements + 1] = parg
    BY <1>2, <1>6, AppendProperties
  <1>9. \A i \in 1 .. Elements + 1 : Contents'[i] = Append(Contents, parg)[i]
    BY <1>2, <1>7, <1>8
  <1> QED
    BY <1>7, <1>8, <1>9, SeqEqual

LEMMA AdvanceRemovesHead ==
  ASSUME IInv, IInv', GetAdvance
  PROVE  /\ Contents # <<>>
         /\ Contents' = Tail(Contents)
         /\ getRet' = Head(Contents)
  <1>1. Elements' = Elements - 1
    BY GetAdvances DEF IInv, GetAdvance, producer
  <1>2. /\ Contents \in Seq(Byte \cup {NoByte})
        /\ Len(Contents) = Elements
        /\ Elements \in Nat
        /\ Elements > 0
    BY ContentsIsSeq, ElementsRange, SizeAssumption DEF IInv, mask, GetAdvance
  <1>3. /\ get_ptr \in Slot
        /\ get_ptr' = Masked(get_ptr + 1)
        /\ data' = data
        /\ getRet' = data[get_ptr]
    BY DEF IInv, TypeOK, GetAdvance, producer
  <1>4. Contents[1] = data[get_ptr]
    <2>1. Contents[1] = data[Masked(get_ptr + 1 - 1)]
      BY <1>2, ContentsIsSeq DEF IInv
    <2>2. Masked(get_ptr + 1 - 1) = get_ptr
      <3>1. get_ptr + 1 - 1 = get_ptr + 0
        BY <1>3, SizeAssumption DEF Slot
      <3> QED
        BY <1>3, <3>1, MaskedSum, SizeAssumption DEF Slot
    <2> QED
      BY <2>1, <2>2
  <1>5. ASSUME NEW i \in 1 .. Elements - 1
        PROVE  data'[Masked(get_ptr' + i - 1)] = Contents[i + 1]
    <2>1. Contents[i + 1] = data[Masked(get_ptr + (i + 1) - 1)]
      BY <1>2, ContentsIsSeq DEF IInv
    <2>2. /\ i - 1 \in 0 .. Size
          /\ i \in 0 .. Size
          /\ i - 1 < Size - 1
      BY <1>2, ElementsRange, SizeAssumption DEF IInv, mask
    <2>3. get_ptr' = IF get_ptr + 1 < Size THEN get_ptr + 1
                     ELSE get_ptr + 1 - Size
      BY <1>3, MaskedSum, SizeAssumption
    <2>4. get_ptr' \in Slot
      BY DEF IInv, TypeOK
    <2>5. Masked(get_ptr' + (i - 1)) =
            IF get_ptr' + (i - 1) < Size THEN get_ptr' + (i - 1)
            ELSE get_ptr' + (i - 1) - Size
      BY <2>2, <2>4, MaskedSum
    <2>6. Masked(get_ptr + i) =
            IF get_ptr + i < Size THEN get_ptr + i ELSE get_ptr + i - Size
      BY <1>3, <2>2, MaskedSum
    <2>7. Masked(get_ptr' + (i - 1)) = Masked(get_ptr + i)
      BY <1>3, <2>2, <2>3, <2>4, <2>5, <2>6, SizeAssumption DEF Slot
    <2>8. /\ get_ptr' + i - 1 = get_ptr' + (i - 1)
          /\ get_ptr + (i + 1) - 1 = get_ptr + i
      BY <1>3, <2>4, SizeAssumption DEF Slot
    <2> QED
      BY <1>3, <2>1, <2>7, <2>8
  <1>6. Contents' = [i \in 1 .. Elements - 1 |-> Contents[i + 1]]
    BY <1>1, <1>5 DEF Contents
  <1>7. Contents # <<>>
    BY <1>2
  <1>8. Tail(Contents) = [i \in 1 .. Elements - 1 |-> Contents[i + 1]]
    <2>1. /\ Tail(Contents) \in Seq(Byte \cup {NoByte})
          /\ Len(Tail(Contents)) = Elements - 1
          /\ \A i \in 1 .. Elements - 1 : Tail(Contents)[i] = Contents[i + 1]
      BY <1>2, <1>7, HeadTailProperties
    <2>2. Tail(Contents) \in [1 .. Elements - 1 -> Byte \cup {NoByte}]
      BY <2>1, LenProperties
    <2> QED
      BY <2>1, <2>2
  <1>9. Head(Contents) = Contents[1]
    BY <1>2, <1>7
  <1> QED
    BY <1>3, <1>4, <1>6, <1>7, <1>8, <1>9

\* Steps that leave the pointers and the slots alone leave the queue alone.
LEMMA ContentsUnchanged ==
  ASSUME data' = data, put_ptr' = put_ptr, get_ptr' = get_ptr
  PROVE  Contents' = Contents
  BY DEF Contents, Elements

LEMMA RefinementInit == Init => Fifo!Init
  <1> SUFFICES ASSUME Init PROVE Fifo!Init
    OBVIOUS
  <1>1. TypeOK
    BY InvInit DEF IInv
  <1>2. Elements = 0
    BY <1>1, MaskedDifference DEF Init, Elements, TypeOK
  <1>3. Contents = <<>>
    BY <1>1, <1>2, ContentsIsSeq
  <1> QED
    BY <1>3 DEF Init, Fifo!Init

LEMMA RefinementNext ==
  IInv /\ IInv' /\ [Next]_vars => [Fifo!Next]_(Fifo!vars)
  <1> SUFFICES ASSUME IInv, IInv', [Next]_vars
               PROVE  Fifo!Next \/ UNCHANGED Fifo!vars
    OBVIOUS
  <1>0. /\ TypeOK
        /\ Len(Contents) = Elements
        /\ Contents \in Seq(Byte \cup {NoByte})
        /\ Elements \in 0 .. mask
        /\ mask \in Nat
    BY ContentsIsSeq, ElementsRange, SizeAssumption DEF IInv, mask
  <1>1. CASE PutFull
    <2>1. Contents' = Contents
      BY <1>1, ContentsUnchanged DEF PutFull, consumer
    <2>2. Fifo!PutRefused
      BY <1>0, <1>1, <2>1 DEF PutFull, consumer, Fifo!PutRefused
    <2> QED
      BY <2>2 DEF Fifo!Next
  <1>2. ASSUME NEW c \in Byte, PutCheck(c) PROVE UNCHANGED Fifo!vars
    BY <1>2, ContentsUnchanged DEF PutCheck, consumer, Fifo!vars
  <1>3. CASE PutStore
    BY <1>3, StoreIsInvisible DEF PutStore, consumer, Fifo!vars
  <1>4. CASE PutPublish
    <2>1. Contents' = Append(Contents, parg)
      BY <1>4, PublishAppends
    <2>2. Len(Contents) < mask /\ parg \in Byte
      BY <1>0, <1>4 DEF PutPublish, IInv
    <2>3. Fifo!Put(parg)
      BY <1>4, <2>1, <2>2 DEF PutPublish, consumer, Fifo!Put
    <2> QED
      BY <2>2, <2>3 DEF Fifo!Next
  <1>5. CASE GetEmpty
    <2>1. Contents' = Contents
      BY <1>5, ContentsUnchanged DEF GetEmpty, producer
    <2>2. Contents = <<>>
      BY <1>0, <1>5 DEF GetEmpty
    <2>3. Fifo!GetEmpty
      BY <1>5, <2>1, <2>2 DEF GetEmpty, producer, Fifo!GetEmpty
    <2> QED
      BY <2>3 DEF Fifo!Next
  <1>6. CASE GetCheck
    BY <1>6, ContentsUnchanged DEF GetCheck, producer, Fifo!vars
  <1>7. CASE GetLoad
    BY <1>7, ContentsUnchanged DEF GetLoad, producer, Fifo!vars
  <1>8. CASE GetAdvance
    <2>1. Fifo!Get
      BY <1>8, AdvanceRemovesHead DEF GetAdvance, producer, Fifo!Get
    <2> QED
      BY <2>1 DEF Fifo!Next
  <1>9. CASE UNCHANGED vars
    BY <1>9, ContentsUnchanged DEF vars, producer, consumer, Fifo!vars
  <1> QED
    BY <1>1, <1>2, <1>3, <1>4, <1>5, <1>6, <1>7, <1>8, <1>9
       DEF Next, Producer, Consumer

\* The interleaved ring buffer implements the atomic FIFO of Size - 1 bytes.
THEOREM RefinesFifo == Spec => FifoSpec
  <1>1. IInv /\ IInv' /\ [Next]_vars => [Fifo!Next]_(Fifo!vars)
    BY RefinementNext
  <1> QED
    BY <1>1, RefinementInit, Invariance, PTL DEF Spec, FifoSpec, Fifo!Spec
==============================================================================
