---------------------------- MODULE EthernetProofs ---------------------------
(***************************************************************************)
(* Proofs about Ethernet for every set of senders and every number of      *)
(* frames and changes of the link: the input task is woken, senders that   *)
(* wait are told, and the flag is what the events of the PHY say of the    *)
(* link, with the exceptions the properties name.                          *)
(***************************************************************************)
EXTENDS Ethernet, TLAPS

\* The receive side on its way to sleep.  From the moment it has seen an
\* empty FIFO a frame is noted in the raw status or by a token, and when the
\* task has enabled the interrupt nothing disables it but the interrupt and
\* a sender that was there when a switch was put off.
Armed ==
  /\ input \in {"load mask", "enable", "take", "asleep"} /\ fifo > 0 =>
       "RX" \in raw \/ rxSem
  /\ input \in {"take", "asleep"} /\ ~rxSem /\ ~masked => "RX" \in im
  /\ late \/ masked => putOff

\* Any other sender that is changing the mask has loaded it with receive
\* enabled.
LoadedArmed ==
  ~putOff => \A s \in Sender :
    output[s] \in {"enable", "disable"} => "RX" \in outputReg[s]

ReceiveInv == Armed /\ LoadedArmed

\* The transmit side: who waits, or is about to, will be told; and the input
\* task puts back the mask with transmit enabled if it comes in between.
TransmitInv ==
  /\ \A s \in Sender :
       /\ output[s] # "idle" => mutex = s
       /\ output[s] \in {"enable", "wait"} => newtx \/ "TX" \in raw \/ txSem
       /\ output[s] = "wait" => "TX" \in im
       /\ output[s] = "wait" /\ input = "enable" => "TX" \in inputReg

\* The interrupt of the PHY stays enabled, whoever stores the mask.
PhyInv ==
  /\ "PHY" \in im
  /\ input = "enable" => "PHY" \in inputReg
  /\ \A s \in Sender : output[s] \in {"enable", "disable"} => "PHY" \in outputReg[s]

\* What the latched events say of the link, and the flag once they have been
\* read, also when it has been loaded to be stored again.
LinkInv ==
  /\ phy # {} => "PHY" \in raw
  /\ ETH_LINK_UP \subseteq phy => link
  /\ ~torn =>
       /\ "LSCHG" \notin phy => (linkOk => link) /\ (link /\ ~split => linkOk)
       /\ input = "clear" => (("LINK_OK" \in inputReg) <=> linkOk)

IInv == TypeOK /\ ReceiveInv /\ TransmitInv /\ PhyInv /\ LinkInv

------------------------------------------------------------------------------
(* Initial states                                                          *)

LEMMA InitIInv == Init => IInv
<1> SUFFICES ASSUME Init
             PROVE  IInv
  OBVIOUS
<1>1. fifo \in 0 .. FifoFrames
  BY ConstantAssumption DEF Init
<1>2. TypeOK
  BY <1>1 DEF Init, TypeOK, ControllerType, InputType, SenderType, Interrupts
<1>3. ReceiveInv /\ TransmitInv
  BY DEF Init, ReceiveInv, Armed, LoadedArmed, TransmitInv
<1>4. PhyInv /\ LinkInv
  BY DEF Init, PhyInv, LinkInv, ETH_LINK_UP
<1> QED
  BY <1>2, <1>3, <1>4 DEF IInv

------------------------------------------------------------------------------
(* The controller and the handler                                          *)

\* What the steps of the FIFO need of TypeOK.
LEMMA FifoCount ==
  ASSUME TypeOK
  PROVE  fifo \in Nat /\ fifo <= FifoFrames /\ FifoFrames \in Nat
<1>1. fifo \in 0 .. FifoFrames
  BY DEF TypeOK, ControllerType
<1>2. FifoFrames \in Nat
  BY ConstantAssumption
<1> QED
  BY <1>1, <1>2

LEMMA OneMore ==
  ASSUME NEW f \in Nat, NEW n \in Nat, f < n
  PROVE  f + 1 \in 0 .. n
  OBVIOUS

LEMMA OneLess ==
  ASSUME NEW f \in Nat, NEW n \in Nat, f <= n, f > 0
  PROVE  f - 1 \in 0 .. n
  OBVIOUS

LEMMA ControllerStep ==
  ASSUME IInv, Arrive \/ Transmitted \/ LinkChanges
  PROVE  IInv'
<1> USE DEF IInv, hardware, cable, semaphores, inputTask, senders, history, flagHistory
<1>1. CASE Arrive
  <2>1. TypeOK'
    <3>1. fifo' \in {fifo, fifo + 1} /\ (fifo' = fifo + 1 => fifo < FifoFrames)
      BY <1>1, FifoCount DEF Arrive
    <3>2. fifo' \in 0 .. FifoFrames
      BY <3>1, FifoCount, OneMore
    <3>3. raw' \subseteq Interrupts
      BY <1>1 DEF Arrive, TypeOK, ControllerType, Interrupts
    <3>4. ControllerType'
      BY <1>1, <3>2, <3>3 DEF Arrive, TypeOK, ControllerType
    <3>5. InputType' /\ SenderType'
      BY <1>1 DEF Arrive, TypeOK, InputType, SenderType
    <3> QED
      BY <3>4, <3>5 DEF TypeOK
  <2>2. ReceiveInv'
    BY <1>1, ConstantAssumption DEF Arrive, ReceiveInv, Armed, LoadedArmed
  <2>3. TransmitInv'
    BY <1>1, ConstantAssumption DEF Arrive, TransmitInv
  <2>4. LinkInv'
    BY <1>1, ConstantAssumption DEF Arrive, LinkInv
  <2>5. PhyInv'
    BY <1>1, ConstantAssumption DEF Arrive, PhyInv
  <2> QED
    BY <2>1, <2>2, <2>3, <2>4, <2>5
<1>2. CASE Transmitted
  <2>1. TypeOK'
    <3>1. ControllerType'
      BY <1>2 DEF Transmitted, TypeOK, ControllerType, Interrupts
    <3>2. InputType'
      BY <1>2 DEF Transmitted, TypeOK, InputType
    <3>3. SenderType'
      BY <1>2 DEF Transmitted, TypeOK, SenderType
    <3> QED
      BY <3>1, <3>2, <3>3 DEF TypeOK
  <2>2. ReceiveInv'
    BY <1>2 DEF Transmitted, ReceiveInv, Armed, LoadedArmed
  <2>3. TransmitInv'
    BY <1>2 DEF Transmitted, TransmitInv
  <2>4. LinkInv'
    BY <1>2 DEF Transmitted, LinkInv
  <2>5. PhyInv'
    BY <1>2 DEF Transmitted, PhyInv
  <2> QED
    BY <2>1, <2>2, <2>3, <2>4, <2>5
<1>3. CASE LinkDown
  <2>1. TypeOK'
    <3>1. ControllerType'
      BY <1>3 DEF LinkDown, Latch, TypeOK, ControllerType, Interrupts
    <3>2. InputType'
      BY <1>3 DEF LinkDown, Latch, TypeOK, InputType
    <3>3. SenderType'
      BY <1>3 DEF LinkDown, Latch, TypeOK, SenderType
    <3> QED
      BY <3>1, <3>2, <3>3 DEF TypeOK
  <2>2. ReceiveInv'
    BY <1>3 DEF LinkDown, Latch, ReceiveInv, Armed, LoadedArmed
  <2>3. TransmitInv'
    BY <1>3 DEF LinkDown, Latch, TransmitInv
  <2>4. LinkInv'
    <3>1. phy = {}
      BY <1>3 DEF LinkDown, LinkInv
    <3>2. phy' = {"LSCHG"} /\ "PHY" \in raw'
      BY <1>3, <3>1 DEF LinkDown, Latch
    <3> QED
      BY <1>3, <3>2 DEF LinkDown, Latch, LinkInv, ETH_LINK_UP
  <2>5. PhyInv'
    BY <1>3 DEF LinkDown, Latch, PhyInv
  <2> QED
    BY <2>1, <2>2, <2>3, <2>4, <2>5
<1>4. CASE LinkUp
  <2>1. TypeOK'
    <3>1. ControllerType'
      BY <1>4 DEF LinkUp, Latch, TypeOK, ControllerType, Interrupts
    <3>2. InputType'
      BY <1>4 DEF LinkUp, Latch, TypeOK, InputType
    <3>3. SenderType'
      BY <1>4 DEF LinkUp, Latch, TypeOK, SenderType
    <3> QED
      BY <3>1, <3>2, <3>3 DEF TypeOK
  <2>2. ReceiveInv'
    <3>1. "RX" \in raw => "RX" \in raw'
      BY <1>4 DEF LinkUp, Latch
    <3>2. UNCHANGED <<fifo, im, rxSem, input, late, putOff, masked, output, outputReg>>
      BY <1>4 DEF LinkUp, Latch
    <3> QED
      BY <3>1, <3>2 DEF ReceiveInv, Armed, LoadedArmed
  <2>3. TransmitInv'
    BY <1>4 DEF LinkUp, Latch, TransmitInv
  <2>4. LinkInv'
    <3>1. "LSCHG" \in phy' /\ "PHY" \in raw' /\ link'
      BY <1>4 DEF LinkUp, Latch
    <3>2. (torn' <=> torn) /\ (linkOk' <=> linkOk) /\ input' = input /\ inputReg' = inputReg
      BY <1>4 DEF LinkUp, Latch
    <3> QED
      BY <3>1, <3>2 DEF LinkInv
  <2>5. PhyInv'
    BY <1>4 DEF LinkUp, Latch, PhyInv
  <2> QED
    BY <2>1, <2>2, <2>3, <2>4, <2>5
<1>5. CASE Negotiated
  <2>1. TypeOK'
    <3>1. ControllerType'
      BY <1>5 DEF Negotiated, Latch, TypeOK, ControllerType, Interrupts
    <3>2. InputType'
      BY <1>5 DEF Negotiated, Latch, TypeOK, InputType
    <3>3. SenderType'
      BY <1>5 DEF Negotiated, Latch, TypeOK, SenderType
    <3> QED
      BY <3>1, <3>2, <3>3 DEF TypeOK
  <2>2. ReceiveInv'
    BY <1>5 DEF Negotiated, Latch, ReceiveInv, Armed, LoadedArmed
  <2>3. TransmitInv'
    BY <1>5 DEF Negotiated, Latch, TransmitInv
  <2>4. LinkInv'
    <3>1. "PHY" \in raw' /\ ("LSCHG" \in phy' <=> "LSCHG" \in phy)
      BY <1>5 DEF Negotiated, Latch
    <3>2. ETH_LINK_UP \subseteq phy' => link'
      BY <1>5 DEF Negotiated, Latch, ETH_LINK_UP
    <3>3. UNCHANGED <<torn, split, link, linkOk, input, inputReg>>
      BY <1>5 DEF Negotiated, Latch
    <3> QED
      BY <3>1, <3>2, <3>3 DEF LinkInv
  <2>5. PhyInv'
    BY <1>5 DEF Negotiated, Latch, PhyInv
  <2> QED
    BY <2>1, <2>2, <2>3, <2>4, <2>5
<1> QED
  BY <1>1, <1>2, <1>3, <1>4, <1>5 DEF LinkChanges

\* How the handler decodes the events.
LEMMA Decoded ==
  ASSUME TypeOK
  PROVE  /\ "LSCHG" \notin phy => LinkFlag(phy) = linkOk
         /\ "LSCHG" \in phy /\ "ANEGCOMP" \in phy => LinkFlag(phy) = TRUE
         /\ "LSCHG" \in phy /\ "ANEGCOMP" \notin phy => LinkFlag(phy) = FALSE
<1>1. phy \subseteq {"LSCHG", "ANEGCOMP"}
  BY DEF TypeOK, ControllerType
<1>2. "LSCHG" \notin phy => phy # ETH_LINK_UP /\ phy # ETH_LINK_DOWN
  BY DEF ETH_LINK_UP, ETH_LINK_DOWN
<1>3. "LSCHG" \in phy /\ "ANEGCOMP" \in phy => phy = ETH_LINK_UP
  BY <1>1 DEF ETH_LINK_UP
<1>4. "LSCHG" \in phy /\ "ANEGCOMP" \notin phy => phy = ETH_LINK_DOWN
  BY <1>1 DEF ETH_LINK_DOWN
<1>5. ETH_LINK_UP # ETH_LINK_DOWN
  BY DEF ETH_LINK_UP, ETH_LINK_DOWN
<1> QED
  BY <1>2, <1>3, <1>4, <1>5 DEF LinkFlag

LEMMA InterruptStep ==
  ASSUME IInv, Interrupt
  PROVE  IInv'
<1> USE DEF IInv, hardware, cable, inputTask, senders, history, flagHistory
<1>1. CASE Interrupt
  <2>1. TypeOK'
    <3>1. LinkFlag(phy) \in BOOLEAN
      BY DEF LinkFlag, TypeOK, ControllerType
    <3>2. linkOk' \in BOOLEAN /\ torn' \in BOOLEAN /\ split' \in BOOLEAN
      BY <1>1, <3>1 DEF Interrupt, TypeOK, ControllerType
    <3>3. rxSem' \in BOOLEAN /\ txSem' \in BOOLEAN /\ late' \in BOOLEAN /\ putOff' \in BOOLEAN
      BY <1>1 DEF Interrupt, TypeOK, ControllerType
    <3>4. raw' \subseteq Interrupts /\ im' \subseteq Interrupts /\ phy' \subseteq {"LSCHG", "ANEGCOMP"}
      BY <1>1 DEF Interrupt, TypeOK, ControllerType
    <3>5. ControllerType'
      BY <1>1, <3>2, <3>3, <3>4 DEF Interrupt, TypeOK, ControllerType
    <3>6. InputType'
      BY <1>1 DEF Interrupt, TypeOK, InputType
    <3>7. SenderType'
      BY <1>1 DEF Interrupt, TypeOK, SenderType
    <3> QED
      BY <3>5, <3>6, <3>7 DEF TypeOK
  <2>2. ReceiveInv'
    <3>1. "RX" \in raw => rxSem'
      BY <1>1 DEF Interrupt
    <3>2. rxSem => rxSem'
      BY <1>1 DEF Interrupt
    <3>3. "RX" \notin raw => im' = im
      BY <1>1 DEF Interrupt
    <3>4. (late' => late \/ putOff') /\ (putOff => putOff')
      BY <1>1 DEF Interrupt
    <3>5. UNCHANGED <<fifo, input, output, outputReg, masked>>
      BY <1>1 DEF Interrupt
    <3>6. Armed'
      BY <3>1, <3>2, <3>3, <3>4, <3>5 DEF ReceiveInv, Armed
    <3>7. LoadedArmed'
      BY <3>4, <3>5 DEF ReceiveInv, LoadedArmed
    <3> QED
      BY <3>6, <3>7 DEF ReceiveInv
  <2>3. TransmitInv'
    <3>1. "TX" \in raw => txSem'
      BY <1>1 DEF Interrupt
    <3>2. txSem => txSem'
      BY <1>1 DEF Interrupt
    <3>3. "TX" \in im => "TX" \in im'
      BY <1>1 DEF Interrupt
    <3> QED
      BY <1>1, <3>1, <3>2, <3>3 DEF Interrupt, TransmitInv
  <2>4. LinkInv'
    <3>1. CASE "PHY" \notin raw
      BY <1>1, <3>1 DEF Interrupt, LinkInv, ETH_LINK_UP
    <3>2. CASE "PHY" \in raw /\ "LSCHG" \notin phy
      <4>1. phy' = {} /\ linkOk' = linkOk
        BY <1>1, <3>2, Decoded DEF Interrupt
      <4>2. UNCHANGED <<torn, split, link, input, inputReg>>
        BY <1>1, <3>2 DEF Interrupt
      <4> QED
        BY <3>2, <4>1, <4>2 DEF LinkInv, ETH_LINK_UP
    <3>3. CASE "PHY" \in raw /\ "LSCHG" \in phy
      <4>1. phy' = {} /\ linkOk' = LinkFlag(phy) /\ link' = link /\ input' = input
        BY <1>1, <3>3 DEF Interrupt
      <4>2. torn' = (input = "clear") /\ split' = (link /\ "ANEGCOMP" \notin phy)
        BY <1>1, <3>3 DEF Interrupt
      <4>3. CASE "ANEGCOMP" \in phy
        <5>1. link
          BY <3>3, <4>3 DEF LinkInv, ETH_LINK_UP
        <5>2. linkOk' = TRUE
          BY <3>3, <4>1, <4>3, Decoded
        <5> QED
          BY <4>1, <4>2, <5>1, <5>2 DEF LinkInv, ETH_LINK_UP
      <4>4. CASE "ANEGCOMP" \notin phy
        <5>1. linkOk' = FALSE
          BY <3>3, <4>1, <4>4, Decoded
        <5>2. link => split'
          BY <4>2, <4>4
        <5> QED
          BY <4>1, <4>2, <5>1, <5>2 DEF LinkInv, ETH_LINK_UP
      <4> QED
        BY <4>3, <4>4
    <3> QED
      BY <3>1, <3>2, <3>3
  <2>5. PhyInv'
    BY <1>1 DEF Interrupt, PhyInv
  <2> QED
    BY <2>1, <2>2, <2>3, <2>4, <2>5
<1> QED
  BY <1>1

------------------------------------------------------------------------------
(* The input task                                                          *)

LEMMA InputStep ==
  ASSUME IInv, InputTask \/ TimeOut
  PROVE  IInv'
<1> USE DEF IInv, InputOnly, cable, senders, flagHistory
<1>1. CASE NoFrame
  <2>1. TypeOK'
    <3>1. ControllerType'
      BY <1>1 DEF NoFrame, TypeOK, ControllerType
    <3>2. InputType'
      BY <1>1 DEF NoFrame, TypeOK, InputType
    <3>3. SenderType'
      BY <1>1 DEF NoFrame, TypeOK, SenderType
    <3> QED
      BY <3>1, <3>2, <3>3 DEF TypeOK
  <2>2. ReceiveInv'
    BY <1>1 DEF NoFrame, ReceiveInv, Armed, LoadedArmed
  <2>3. TransmitInv'
    BY <1>1 DEF NoFrame, TransmitInv
  <2>4. LinkInv'
    BY <1>1 DEF NoFrame, LinkInv
  <2>5. PhyInv'
    BY <1>1 DEF NoFrame, PhyInv
  <2> QED
    BY <2>1, <2>2, <2>3, <2>4, <2>5
<1>2. CASE ReadFrame
  <2>1. TypeOK'
    <3>1. fifo' \in 0 .. FifoFrames
      BY <1>2, FifoCount, OneLess DEF ReadFrame
    <3>2. ControllerType'
      BY <1>2, <3>1 DEF ReadFrame, TypeOK, ControllerType
    <3>3. InputType' /\ SenderType'
      BY <1>2 DEF ReadFrame, TypeOK, InputType, SenderType
    <3> QED
      BY <3>2, <3>3 DEF TypeOK
  <2>2. ReceiveInv'
    BY <1>2 DEF ReadFrame, ReceiveInv, Armed, LoadedArmed
  <2>3. TransmitInv'
    BY <1>2 DEF ReadFrame, TransmitInv
  <2>4. LinkInv'
    BY <1>2 DEF ReadFrame, LinkInv
  <2>5. PhyInv'
    BY <1>2 DEF ReadFrame, PhyInv
  <2> QED
    BY <2>1, <2>2, <2>3, <2>4, <2>5
<1>3. CASE HandOver
  <2>1. TypeOK'
    <3>1. ControllerType'
      BY <1>3 DEF HandOver, TypeOK, ControllerType
    <3>2. InputType'
      BY <1>3 DEF HandOver, TypeOK, InputType
    <3>3. SenderType'
      BY <1>3 DEF HandOver, TypeOK, SenderType
    <3> QED
      BY <3>1, <3>2, <3>3 DEF TypeOK
  <2>2. ReceiveInv'
    BY <1>3 DEF HandOver, ReceiveInv, Armed, LoadedArmed
  <2>3. TransmitInv'
    BY <1>3 DEF HandOver, TransmitInv
  <2>4. LinkInv'
    BY <1>3 DEF HandOver, LinkInv
  <2>5. PhyInv'
    BY <1>3 DEF HandOver, PhyInv
  <2> QED
    BY <2>1, <2>2, <2>3, <2>4, <2>5
<1>4. CASE LoadFlags
  <2>1. TypeOK'
    <3>1. ControllerType'
      BY <1>4 DEF LoadFlags, TypeOK, ControllerType
    <3>2. InputType'
      BY <1>4 DEF LoadFlags, TypeOK, ControllerType, InputType, Interrupts
    <3>3. SenderType'
      BY <1>4 DEF LoadFlags, TypeOK, SenderType
    <3> QED
      BY <3>1, <3>2, <3>3 DEF TypeOK
  <2>2. ReceiveInv'
    BY <1>4 DEF LoadFlags, ReceiveInv, Armed, LoadedArmed
  <2>3. TransmitInv'
    BY <1>4 DEF LoadFlags, TransmitInv
  <2>4. LinkInv'
    BY <1>4 DEF LoadFlags, LinkInv
  <2>5. PhyInv'
    BY <1>4 DEF LoadFlags, PhyInv
  <2> QED
    BY <2>1, <2>2, <2>3, <2>4, <2>5
<1>5. CASE ClearFlags
  <2>1. TypeOK'
    <3>1. linkOk' \in BOOLEAN
      BY <1>5 DEF ClearFlags
    <3>2. ControllerType'
      BY <1>5, <3>1 DEF ClearFlags, TypeOK, ControllerType
    <3>3. InputType' /\ SenderType'
      BY <1>5 DEF ClearFlags, TypeOK, InputType, SenderType
    <3> QED
      BY <3>2, <3>3 DEF TypeOK
  <2>2. ReceiveInv'
    BY <1>5 DEF ClearFlags, ReceiveInv, Armed, LoadedArmed
  <2>3. TransmitInv'
    BY <1>5 DEF ClearFlags, TransmitInv
  <2>4. LinkInv'
    <3>1. ASSUME "PHY" \notin raw, ~torn
          PROVE  linkOk' = linkOk
      <4>1. "LINK_OK" \in inputReg <=> linkOk
        BY <1>5, <3>1 DEF ClearFlags, LinkInv
      <4>2. linkOk' = ("LINK_OK" \in inputReg) /\ linkOk \in BOOLEAN
        BY <1>5 DEF ClearFlags, TypeOK, ControllerType
      <4> QED
        BY <4>1, <4>2
    <3> QED
      BY <1>5, <3>1 DEF ClearFlags, LinkInv
  <2>5. PhyInv'
    BY <1>5 DEF ClearFlags, PhyInv
  <2> QED
    BY <2>1, <2>2, <2>3, <2>4, <2>5
<1>6. CASE Available
  <2>1. TypeOK'
    <3>1. ControllerType'
      BY <1>6 DEF Available, TypeOK, ControllerType
    <3>2. InputType'
      BY <1>6 DEF Available, TypeOK, InputType
    <3>3. SenderType'
      BY <1>6 DEF Available, TypeOK, SenderType
    <3> QED
      BY <3>1, <3>2, <3>3 DEF TypeOK
  <2>2. ReceiveInv'
    <3>1. (input' = "load mask" /\ fifo = 0) \/ input' = "read"
      BY <1>6 DEF Available
    <3>2. fifo > 0 => fifo # 0
      BY FifoCount
    <3> QED
      BY <1>6, <3>1, <3>2 DEF Available, ReceiveInv, Armed, LoadedArmed
  <2>3. TransmitInv'
    BY <1>6 DEF Available, TransmitInv
  <2>4. LinkInv'
    BY <1>6 DEF Available, LinkInv
  <2>5. PhyInv'
    BY <1>6 DEF Available, PhyInv
  <2> QED
    BY <2>1, <2>2, <2>3, <2>4, <2>5
<1>7. CASE LoadMask
  <2>1. TypeOK'
    <3>1. ControllerType'
      BY <1>7 DEF LoadMask, TypeOK, ControllerType
    <3>2. InputType'
      BY <1>7 DEF LoadMask, TypeOK, ControllerType, InputType
    <3>3. SenderType'
      BY <1>7 DEF LoadMask, TypeOK, SenderType
    <3> QED
      BY <3>1, <3>2, <3>3 DEF TypeOK
  <2>2. ReceiveInv'
    BY <1>7 DEF LoadMask, ReceiveInv, Armed, LoadedArmed
  <2>3. TransmitInv'
    BY <1>7 DEF LoadMask, TransmitInv
  <2>4. LinkInv'
    BY <1>7 DEF LoadMask, LinkInv
  <2>5. PhyInv'
    BY <1>7 DEF LoadMask, PhyInv
  <2> QED
    BY <2>1, <2>2, <2>3, <2>4, <2>5
<1>8. CASE EnableReceive
  <2>1. TypeOK'
    <3>1. ControllerType'
      BY <1>8 DEF EnableReceive, TypeOK, ControllerType, InputType, Interrupts
    <3>2. InputType'
      BY <1>8 DEF EnableReceive, TypeOK, InputType
    <3>3. SenderType'
      BY <1>8 DEF EnableReceive, TypeOK, SenderType
    <3> QED
      BY <3>1, <3>2, <3>3 DEF TypeOK
  <2>2. ReceiveInv'
    BY <1>8 DEF EnableReceive, ReceiveInv, Armed, LoadedArmed
  <2>3. TransmitInv'
    BY <1>8 DEF EnableReceive, TransmitInv
  <2>4. LinkInv'
    BY <1>8 DEF EnableReceive, LinkInv
  <2>5. PhyInv'
    BY <1>8 DEF EnableReceive, PhyInv
  <2> QED
    BY <2>1, <2>2, <2>3, <2>4, <2>5
<1>9. CASE Take
  <2>1. TypeOK'
    <3>1. ControllerType'
      BY <1>9 DEF Take, TypeOK, ControllerType
    <3>2. InputType'
      BY <1>9 DEF Take, TypeOK, InputType
    <3>3. SenderType'
      BY <1>9 DEF Take, TypeOK, SenderType
    <3> QED
      BY <3>1, <3>2, <3>3 DEF TypeOK
  <2>2. ReceiveInv'
    BY <1>9 DEF Take, ReceiveInv, Armed, LoadedArmed
  <2>3. TransmitInv'
    BY <1>9 DEF Take, TransmitInv
  <2>4. LinkInv'
    BY <1>9 DEF Take, LinkInv
  <2>5. PhyInv'
    BY <1>9 DEF Take, PhyInv
  <2> QED
    BY <2>1, <2>2, <2>3, <2>4, <2>5
<1>10. CASE Taken
  <2>1. TypeOK'
    <3>1. ControllerType'
      BY <1>10 DEF Taken, TypeOK, ControllerType
    <3>2. InputType'
      BY <1>10 DEF Taken, TypeOK, InputType
    <3>3. SenderType'
      BY <1>10 DEF Taken, TypeOK, SenderType
    <3> QED
      BY <3>1, <3>2, <3>3 DEF TypeOK
  <2>2. ReceiveInv'
    BY <1>10 DEF Taken, ReceiveInv, Armed, LoadedArmed
  <2>3. TransmitInv'
    BY <1>10 DEF Taken, TransmitInv
  <2>4. LinkInv'
    BY <1>10 DEF Taken, LinkInv
  <2>5. PhyInv'
    BY <1>10 DEF Taken, PhyInv
  <2> QED
    BY <2>1, <2>2, <2>3, <2>4, <2>5
<1>11. CASE TimeOut
  <2>1. TypeOK'
    <3>1. ControllerType'
      BY <1>11 DEF TimeOut, TypeOK, ControllerType
    <3>2. InputType'
      BY <1>11 DEF TimeOut, TypeOK, InputType
    <3>3. SenderType'
      BY <1>11 DEF TimeOut, TypeOK, SenderType
    <3> QED
      BY <3>1, <3>2, <3>3 DEF TypeOK
  <2>2. ReceiveInv'
    BY <1>11 DEF TimeOut, ReceiveInv, Armed, LoadedArmed
  <2>3. TransmitInv'
    BY <1>11 DEF TimeOut, TransmitInv
  <2>4. LinkInv'
    BY <1>11 DEF TimeOut, LinkInv
  <2>5. PhyInv'
    BY <1>11 DEF TimeOut, PhyInv
  <2> QED
    BY <2>1, <2>2, <2>3, <2>4, <2>5
<1> QED
  BY <1>1, <1>2, <1>3, <1>4, <1>5, <1>6, <1>7, <1>8, <1>9, <1>10, <1>11 DEF InputTask

------------------------------------------------------------------------------
(* Senders                                                                 *)

LEMMA OutputStep ==
  ASSUME IInv, NEW s \in Sender, low_level_output(s)
  PROVE  IInv'
<1> USE DEF IInv, Output, InputBlocked, StoreMask, low_level_transmit, cable, inputTask,
            flagHistory
<1>1. CASE TakeMutex(s)
  <2>1. TypeOK'
    <3>1. ControllerType'
      <4>1. putOff' \in BOOLEAN
        BY <1>1 DEF TakeMutex
      <4> QED
        BY <1>1, <4>1, ConstantAssumption DEF TakeMutex, TypeOK, ControllerType
    <3>2. InputType'
      BY <1>1, ConstantAssumption DEF TakeMutex, TypeOK, InputType
    <3>3. SenderType'
      BY <1>1, ConstantAssumption DEF TakeMutex, TypeOK, SenderType
    <3> QED
      BY <3>1, <3>2, <3>3 DEF TypeOK
  <2>2. ReceiveInv'
    <3>1. \A t \in Sender : output[t] = "idle"
      BY <1>1, ConstantAssumption DEF TakeMutex, TransmitInv
    <3>2. \A t \in Sender : output'[t] \notin {"enable", "disable"}
      BY <1>1, <3>1 DEF TakeMutex, TypeOK, SenderType
    <3>3. LoadedArmed'
      BY <3>2 DEF LoadedArmed
    <3>4. Armed'
      BY <1>1 DEF TakeMutex, ReceiveInv, Armed
    <3> QED
      BY <3>3, <3>4 DEF ReceiveInv
  <2>3. TransmitInv'
    BY <1>1, ConstantAssumption DEF TakeMutex, TypeOK, SenderType, TransmitInv
  <2>4. LinkInv'
    BY <1>1, ConstantAssumption DEF TakeMutex, TypeOK, SenderType, LinkInv
  <2>5. PhyInv'
    BY <1>1, ConstantAssumption DEF TakeMutex, TypeOK, SenderType, PhyInv
  <2> QED
    BY <2>1, <2>2, <2>3, <2>4, <2>5
<1>2. CASE TransmitterIdle(s)
  <2>1. TypeOK'
    <3>1. ControllerType'
      BY <1>2, ConstantAssumption DEF TransmitterIdle, TypeOK, ControllerType
    <3>2. InputType'
      BY <1>2, ConstantAssumption DEF TransmitterIdle, TypeOK, InputType
    <3>3. SenderType'
      BY <1>2, ConstantAssumption DEF TransmitterIdle, TypeOK, SenderType
    <3> QED
      BY <3>1, <3>2, <3>3 DEF TypeOK
  <2>2. ReceiveInv'
    BY <1>2, ConstantAssumption DEF TransmitterIdle, TypeOK, SenderType, ReceiveInv, Armed, LoadedArmed
  <2>3. TransmitInv'
    BY <1>2, ConstantAssumption DEF TransmitterIdle, TypeOK, SenderType, TransmitInv
  <2>4. LinkInv'
    BY <1>2, ConstantAssumption DEF TransmitterIdle, TypeOK, SenderType, LinkInv
  <2>5. PhyInv'
    BY <1>2, ConstantAssumption DEF TransmitterIdle, TypeOK, SenderType, PhyInv
  <2> QED
    BY <2>1, <2>2, <2>3, <2>4, <2>5
<1>3. CASE TransmitterBusy(s)
  <2>1. TypeOK'
    <3>1. ControllerType'
      BY <1>3, ConstantAssumption DEF TransmitterBusy, TypeOK, ControllerType
    <3>2. InputType'
      BY <1>3, ConstantAssumption DEF TransmitterBusy, TypeOK, InputType
    <3>3. SenderType'
      BY <1>3, ConstantAssumption DEF TransmitterBusy, TypeOK, ControllerType, SenderType
    <3> QED
      BY <3>1, <3>2, <3>3 DEF TypeOK
  <2>2. ReceiveInv'
    BY <1>3, ConstantAssumption DEF TransmitterBusy, TypeOK, SenderType, ReceiveInv, Armed, LoadedArmed
  <2>3. TransmitInv'
    BY <1>3, ConstantAssumption DEF TransmitterBusy, TypeOK, SenderType, TransmitInv
  <2>4. LinkInv'
    BY <1>3, ConstantAssumption DEF TransmitterBusy, TypeOK, SenderType, LinkInv
  <2>5. PhyInv'
    BY <1>3, ConstantAssumption DEF TransmitterBusy, TypeOK, SenderType, PhyInv
  <2> QED
    BY <2>1, <2>2, <2>3, <2>4, <2>5
<1>4. CASE EnableTransmit(s)
  <2>1. TypeOK'
    <3>1. ControllerType'
      BY <1>4, ConstantAssumption DEF EnableTransmit, TypeOK, ControllerType, SenderType, Interrupts
    <3>2. InputType'
      BY <1>4, ConstantAssumption DEF EnableTransmit, TypeOK, InputType
    <3>3. SenderType'
      BY <1>4, ConstantAssumption DEF EnableTransmit, TypeOK, SenderType
    <3> QED
      BY <3>1, <3>2, <3>3 DEF TypeOK
  <2>2. ReceiveInv'
    BY <1>4, ConstantAssumption DEF EnableTransmit, TypeOK, SenderType, ReceiveInv, Armed, LoadedArmed
  <2>3. TransmitInv'
    BY <1>4, ConstantAssumption DEF EnableTransmit, TypeOK, SenderType, TransmitInv
  <2>4. LinkInv'
    BY <1>4, ConstantAssumption DEF EnableTransmit, TypeOK, SenderType, LinkInv
  <2>5. PhyInv'
    BY <1>4, ConstantAssumption DEF EnableTransmit, TypeOK, SenderType, PhyInv
  <2> QED
    BY <2>1, <2>2, <2>3, <2>4, <2>5
<1>5. CASE WaitForTransmitter(s)
  <2>1. TypeOK'
    <3>1. ControllerType'
      BY <1>5, ConstantAssumption DEF WaitForTransmitter, TypeOK, ControllerType
    <3>2. InputType'
      BY <1>5, ConstantAssumption DEF WaitForTransmitter, TypeOK, InputType
    <3>3. SenderType'
      BY <1>5, ConstantAssumption DEF WaitForTransmitter, TypeOK, SenderType
    <3> QED
      BY <3>1, <3>2, <3>3 DEF TypeOK
  <2>2. ReceiveInv'
    BY <1>5, ConstantAssumption DEF WaitForTransmitter, TypeOK, SenderType, ReceiveInv, Armed, LoadedArmed
  <2>3. TransmitInv'
    BY <1>5, ConstantAssumption DEF WaitForTransmitter, TypeOK, SenderType, TransmitInv
  <2>4. LinkInv'
    BY <1>5, ConstantAssumption DEF WaitForTransmitter, TypeOK, SenderType, LinkInv
  <2>5. PhyInv'
    BY <1>5, ConstantAssumption DEF WaitForTransmitter, TypeOK, SenderType, PhyInv
  <2> QED
    BY <2>1, <2>2, <2>3, <2>4, <2>5
<1>6. CASE TransmitIdle(s)
  <2>1. TypeOK'
    <3>1. ControllerType'
      BY <1>6, ConstantAssumption DEF TransmitIdle, TypeOK, ControllerType
    <3>2. InputType'
      BY <1>6, ConstantAssumption DEF TransmitIdle, TypeOK, InputType
    <3>3. SenderType'
      BY <1>6, ConstantAssumption DEF TransmitIdle, TypeOK, SenderType
    <3> QED
      BY <3>1, <3>2, <3>3 DEF TypeOK
  <2>2. ReceiveInv'
    BY <1>6, ConstantAssumption DEF TransmitIdle, TypeOK, SenderType, ReceiveInv, Armed, LoadedArmed
  <2>3. TransmitInv'
    BY <1>6, ConstantAssumption DEF TransmitIdle, TypeOK, SenderType, TransmitInv
  <2>4. LinkInv'
    BY <1>6, ConstantAssumption DEF TransmitIdle, TypeOK, SenderType, LinkInv
  <2>5. PhyInv'
    BY <1>6, ConstantAssumption DEF TransmitIdle, TypeOK, SenderType, PhyInv
  <2> QED
    BY <2>1, <2>2, <2>3, <2>4, <2>5
<1>7. CASE TransmitBusy(s)
  <2>1. TypeOK'
    <3>1. ControllerType'
      BY <1>7, ConstantAssumption DEF TransmitBusy, TypeOK, ControllerType
    <3>2. InputType'
      BY <1>7, ConstantAssumption DEF TransmitBusy, TypeOK, InputType
    <3>3. SenderType'
      BY <1>7, ConstantAssumption DEF TransmitBusy, TypeOK, SenderType
    <3> QED
      BY <3>1, <3>2, <3>3 DEF TypeOK
  <2>2. ReceiveInv'
    BY <1>7, ConstantAssumption DEF TransmitBusy, TypeOK, SenderType, ReceiveInv, Armed, LoadedArmed
  <2>3. TransmitInv'
    BY <1>7, ConstantAssumption DEF TransmitBusy, TypeOK, SenderType, TransmitInv
  <2>4. LinkInv'
    BY <1>7, ConstantAssumption DEF TransmitBusy, TypeOK, SenderType, LinkInv
  <2>5. PhyInv'
    BY <1>7, ConstantAssumption DEF TransmitBusy, TypeOK, SenderType, PhyInv
  <2> QED
    BY <2>1, <2>2, <2>3, <2>4, <2>5
<1>8. CASE LoadMaskAgain(s)
  <2>1. TypeOK'
    <3>1. ControllerType'
      BY <1>8, ConstantAssumption DEF LoadMaskAgain, TypeOK, ControllerType
    <3>2. InputType'
      BY <1>8, ConstantAssumption DEF LoadMaskAgain, TypeOK, InputType
    <3>3. SenderType'
      BY <1>8, ConstantAssumption DEF LoadMaskAgain, TypeOK, ControllerType, SenderType
    <3> QED
      BY <3>1, <3>2, <3>3 DEF TypeOK
  <2>2. ReceiveInv'
    BY <1>8, ConstantAssumption DEF LoadMaskAgain, TypeOK, SenderType, ReceiveInv, Armed, LoadedArmed
  <2>3. TransmitInv'
    BY <1>8, ConstantAssumption DEF LoadMaskAgain, TypeOK, SenderType, TransmitInv
  <2>4. LinkInv'
    BY <1>8, ConstantAssumption DEF LoadMaskAgain, TypeOK, SenderType, LinkInv
  <2>5. PhyInv'
    BY <1>8, ConstantAssumption DEF LoadMaskAgain, TypeOK, SenderType, PhyInv
  <2> QED
    BY <2>1, <2>2, <2>3, <2>4, <2>5
<1>9. CASE DisableTransmit(s)
  <2>1. TypeOK'
    <3>1. ControllerType'
      BY <1>9, ConstantAssumption DEF DisableTransmit, TypeOK, ControllerType, SenderType, Interrupts
    <3>2. InputType'
      BY <1>9, ConstantAssumption DEF DisableTransmit, TypeOK, InputType
    <3>3. SenderType'
      BY <1>9, ConstantAssumption DEF DisableTransmit, TypeOK, SenderType
    <3> QED
      BY <3>1, <3>2, <3>3 DEF TypeOK
  <2>2. ReceiveInv'
    BY <1>9, ConstantAssumption DEF DisableTransmit, TypeOK, SenderType, ReceiveInv, Armed, LoadedArmed
  <2>3. TransmitInv'
    BY <1>9, ConstantAssumption DEF DisableTransmit, TypeOK, SenderType, TransmitInv
  <2>4. LinkInv'
    BY <1>9, ConstantAssumption DEF DisableTransmit, TypeOK, SenderType, LinkInv
  <2>5. PhyInv'
    BY <1>9, ConstantAssumption DEF DisableTransmit, TypeOK, SenderType, PhyInv
  <2> QED
    BY <2>1, <2>2, <2>3, <2>4, <2>5
<1>10. CASE GiveMutex(s)
  <2>1. TypeOK'
    <3>1. ControllerType'
      BY <1>10, ConstantAssumption DEF GiveMutex, TypeOK, ControllerType
    <3>2. InputType'
      BY <1>10, ConstantAssumption DEF GiveMutex, TypeOK, InputType
    <3>3. SenderType'
      BY <1>10, ConstantAssumption DEF GiveMutex, TypeOK, SenderType
    <3> QED
      BY <3>1, <3>2, <3>3 DEF TypeOK
  <2>2. ReceiveInv'
    BY <1>10, ConstantAssumption DEF GiveMutex, TypeOK, SenderType, ReceiveInv, Armed, LoadedArmed
  <2>3. TransmitInv'
    BY <1>10, ConstantAssumption DEF GiveMutex, TypeOK, SenderType, TransmitInv
  <2>4. LinkInv'
    BY <1>10, ConstantAssumption DEF GiveMutex, TypeOK, SenderType, LinkInv
  <2>5. PhyInv'
    BY <1>10, ConstantAssumption DEF GiveMutex, TypeOK, SenderType, PhyInv
  <2> QED
    BY <2>1, <2>2, <2>3, <2>4, <2>5
<1> QED
  BY <1>1, <1>2, <1>3, <1>4, <1>5, <1>6, <1>7, <1>8, <1>9, <1>10 DEF low_level_output

------------------------------------------------------------------------------
(* Theorems                                                                *)

LEMMA StutterType ==
  ASSUME TypeOK, UNCHANGED vars
  PROVE  TypeOK'
<1>1. ControllerType'
  BY DEF vars, hardware, cable, semaphores, history, flagHistory, TypeOK, ControllerType
<1>2. InputType'
  BY DEF vars, inputTask, TypeOK, InputType
<1>3. SenderType'
  BY DEF vars, senders, TypeOK, SenderType
<1> QED
  BY <1>1, <1>2, <1>3 DEF TypeOK

LEMMA NextIInv == IInv /\ [Next]_vars => IInv'
<1>1. ASSUME IInv, UNCHANGED vars
      PROVE  IInv'
  <2> USE <1>1 DEF vars, hardware, cable, semaphores, inputTask, senders, history,
                   flagHistory, IInv
  <2>1. TypeOK'
    BY <1>1, StutterType
  <2>2. ReceiveInv'
    BY DEF ReceiveInv, Armed, LoadedArmed
  <2>3. TransmitInv' /\ PhyInv' /\ LinkInv'
    BY DEF TransmitInv, PhyInv, LinkInv
  <2> QED
    BY <2>1, <2>2, <2>3
<1> QED
  BY <1>1, ControllerStep, InterruptStep, InputStep, OutputStep DEF Next

THEOREM Invariant == Spec => []IInv
  BY InitIInv, NextIInv, PTL DEF Spec

\* Types, for the record of the other proofs.
THEOREM TypeCorrect == Spec => []TypeOK
  BY Invariant, PTL DEF IInv

\* The input task sleeps on no frame, unless a sender that was there when a
\* switch was put off has undone the enabling of the receive interrupt.
THEOREM InputWoken == Spec => []WakeupDue
<1>1. IInv => WakeupDue
  BY DEF IInv, ReceiveInv, Armed, WakeupDue
<1> QED
  BY <1>1, Invariant, PTL

\* One sender at a time, and the one that waits has something to wait for.
THEOREM SendersTold == Spec => []WaiterTold
<1>1. IInv => WaiterTold
  BY DEF IInv, TransmitInv, WaiterTold
<1> QED
  BY <1>1, Invariant, PTL

\* The flag is not up over a link that is down, and is up over one whose
\* events were read together, unless the change was served between the load
\* and the store of the flag.
THEOREM FlagTrue == Spec => []LinkFlagTrue
<1>1. IInv => LinkFlagTrue
  BY DEF IInv, PhyInv, LinkInv, LinkFlagTrue
<1> QED
  BY <1>1, Invariant, PTL
==============================================================================
