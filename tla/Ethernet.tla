------------------------------ MODULE Ethernet -------------------------------
(***************************************************************************)
(* The Ethernet driver of nux: the interrupt handler of nux/ETHIsr.c and   *)
(* the two sides of nux/LWIPStack.c, the task ETH_INPUT that empties the   *)
(* receive FIFO and low_level_output, which any task may call that sends.  *)
(*                                                                         *)
(* Handler and tasks share the interrupt mask of the controller and the    *)
(* word ETHDevice with the flag of the link.  Tasks change both with a     *)
(* load and a store, and the handler comes in between.  ETH_INPUT has the  *)
(* highest priority: a sender runs only while it is blocked - or between   *)
(* an interrupt that wakes it and the switch, when the handler has put     *)
(* the switch off to the next tick.                                        *)
(*                                                                         *)
(* What is in a frame is left out, and so are the error flags, which only  *)
(* statistics read, and transmission errors: the controller runs in full   *)
(* duplex, where only a frame longer than the MTU raises one.              *)
(***************************************************************************)
EXTENDS Naturals

CONSTANTS
  Sender,       \* the tasks that send: tcpip, and uIP while it starts DHCP
  None,         \* no task
  FifoFrames,   \* frames the receive FIFO holds
  MaxFrames,    \* bound: frames that arrive
  MaxOutputs,   \* bound: frames the senders send
  MaxChanges    \* bound: times the link goes down or up or is negotiated

ASSUME ConstantAssumption ==
  /\ None \notin Sender
  /\ FifoFrames \in Nat \ {0}
  /\ MaxFrames \in Nat /\ MaxOutputs \in Nat /\ MaxChanges \in Nat

VARIABLES
  fifo,        \* frames in the receive FIFO: MAC_O_NP
  newtx,       \* MAC_TR_NEWTX: a frame is being transmitted
  raw,         \* raw interrupt status: "RX", "TX", "RXOF", "PHY"
  phy,         \* events latched in MR17 of the PHY: "LSCHG", "ANEGCOMP"
  im,          \* interrupt mask: the interrupts that are enabled
  link,        \* the link is up
  negotiated,  \* negotiation has completed since the link went down
  linkOk,      \* ETH_LINK_OK in ETHDevice
  rxSem,       \* ETHRxBinSemaphore and ETHTxBinSemaphore have a token
  txSem,
  mutex,       \* the task that holds ETHTxAccessMutex
  input,       \* where ETH_INPUT is
  inputReg,    \* what it has loaded: the mask or the flag
  output,      \* output[s]: where s is in low_level_output
  outputReg,   \* outputReg[s]: the mask s has loaded
  late,        \* the switch to ETH_INPUT waits for the next tick
  frames, outputs, changes,   \* frames, outputs, changes of the link to come
  putOff,      \* history: a switch was put off since the mutex was taken
  masked,      \* history: the sender has disabled the receive interrupt after
               \* that, and the input task has not enabled it since
  torn,        \* history: the last change of the link was served while the
               \* flag was loaded
  split        \* history: the link came up and its LSCHG was read without
               \* the ANEGCOMP

cable == <<link, negotiated, changes>>
hardware == <<fifo, newtx, cable, frames>>
semaphores == <<rxSem, txSem>>
inputTask == <<input, inputReg>>
senders == <<mutex, output, outputReg, outputs>>
flagHistory == <<torn, split>>
history == <<putOff, masked, flagHistory>>
vars == <<hardware, raw, phy, im, linkOk, semaphores, inputTask, senders, late, history>>

Interrupts == {"RX", "TX", "RXOF", "PHY"}
ETH_LINK_DOWN == {"LSCHG"}
ETH_LINK_UP == {"LSCHG", "ANEGCOMP"}

\* ETHServiceTaskEnable: the input task, started before, is asleep.
Init ==
  /\ fifo = 0 /\ newtx = FALSE
  /\ raw = {} /\ phy = {}
  /\ im = {"RX", "RXOF", "PHY"}
  /\ link \in BOOLEAN /\ linkOk = link
  /\ negotiated \in BOOLEAN
  /\ rxSem = FALSE /\ txSem = FALSE
  /\ mutex = None
  /\ input = "asleep" /\ inputReg = {}
  /\ output = [s \in Sender |-> "idle"] /\ outputReg = [s \in Sender |-> {}]
  /\ late = FALSE
  /\ frames = MaxFrames /\ changes = MaxChanges
  /\ outputs = MaxOutputs
  /\ putOff = FALSE /\ masked = FALSE /\ torn = FALSE /\ split = FALSE

------------------------------------------------------------------------------
(* The controller (external)                                               *)

\* A frame arrives, or finds the FIFO full.
Arrive ==
  /\ frames > 0
  /\ frames' = frames - 1
  /\ IF fifo < FifoFrames
     THEN fifo' = fifo + 1 /\ raw' = raw \cup {"RX"}
     ELSE fifo' = fifo /\ raw' = raw \cup {"RXOF"}
  /\ UNCHANGED <<newtx, cable, phy, im, linkOk, semaphores, inputTask, senders,
                 late, history>>

Transmitted ==
  /\ newtx
  /\ newtx' = FALSE
  /\ raw' = raw \cup {"TX"}
  /\ UNCHANGED <<fifo, cable, frames, phy, im, linkOk, semaphores, inputTask,
                 senders, late, history>>

\* The PHY latches the events es and asks for an interrupt.  Links go up and
\* down slower than the handler answers: the events of the change before
\* have been read.
Latch(es) ==
  /\ phy' = phy \cup es
  /\ raw' = raw \cup {"PHY"}
  /\ UNCHANGED <<fifo, newtx, frames, im, linkOk, semaphores, inputTask, senders,
                 late, history>>

LinkDown ==
  /\ changes > 0
  /\ link
  /\ "PHY" \notin raw
  /\ changes' = changes - 1
  /\ link' = FALSE
  /\ negotiated' = FALSE
  /\ Latch({"LSCHG"})

\* Negotiation may complete in the same moment, earlier, later, or never.
LinkUp ==
  /\ changes > 0
  /\ ~link
  /\ "LSCHG" \notin phy
  /\ changes' = changes - 1
  /\ link' = TRUE
  /\ \/ negotiated' = negotiated /\ Latch({"LSCHG"})
     \/ ~negotiated /\ negotiated' = TRUE /\ Latch({"LSCHG", "ANEGCOMP"})

Negotiated ==
  /\ changes > 0
  /\ ~negotiated
  /\ link \/ "LSCHG" \notin phy
  /\ changes' = changes - 1
  /\ negotiated' = TRUE
  /\ UNCHANGED link
  /\ Latch({"ANEGCOMP"})

LinkChanges == LinkDown \/ LinkUp \/ Negotiated

------------------------------------------------------------------------------
(* ETH0IntHandler                                                          *)

\* Mistaken variant of LinkFlag: ANEGCOMP alone is taken for a link that is up.
LinkFlagNegotiated(events) ==
  IF "ANEGCOMP" \in events THEN TRUE
  ELSE IF events = ETH_LINK_DOWN THEN FALSE ELSE linkOk

\* The flag after the events were read: the link itself is not looked at.
LinkFlag(events) ==
  IF events = ETH_LINK_UP THEN TRUE
  ELSE IF events = ETH_LINK_DOWN THEN FALSE ELSE linkOk

\* Mistaken variant of Interrupt: the receive interrupt is disabled and
\* nobody told.
InterruptSilent ==
  /\ raw \cap im # {}
  /\ raw' = {}
  /\ im' = im \ {"RX"}
  /\ rxSem' = (rxSem \/ "RXOF" \in raw)
  /\ txSem' = (txSem \/ "TX" \in raw)
  /\ phy' = {}
  /\ linkOk' = LinkFlag(phy)
  /\ UNCHANGED <<hardware, inputTask, senders, late, history>>

\* All interrupts are read and cleared, also those that are not enabled, and
\* with that of the PHY its events.  After it nobody is switched to.
Interrupt ==
  /\ raw \cap im # {}
  /\ raw' = {}
  /\ im' = IF "RX" \in raw THEN im \ {"RX"} ELSE im
  /\ rxSem' = (rxSem \/ raw \cap {"RX", "RXOF"} # {})
  /\ txSem' = (txSem \/ "TX" \in raw)
  /\ phy' = IF "PHY" \in raw THEN {} ELSE phy
  /\ linkOk' = IF "PHY" \in raw THEN LinkFlag(phy) ELSE linkOk
  /\ late' = (late \/ ("PHY" \in raw /\ input = "asleep" /\ ~rxSem /\ rxSem'))
  /\ putOff' = (putOff \/ late')
  /\ IF "PHY" \in raw /\ "LSCHG" \in phy
     THEN torn' = (input = "clear") /\ split' = (link /\ "ANEGCOMP" \notin phy)
     ELSE UNCHANGED flagHistory
  /\ UNCHANGED <<hardware, inputTask, senders, masked>>

------------------------------------------------------------------------------
(* ethernetif_input, low_level_input                                       *)

InputOnly ==
  UNCHANGED <<newtx, cable, frames, raw, phy, txSem, senders, putOff, flagHistory>>

\* low_level_input finds no frame.
NoFrame ==
  /\ input = "read"
  /\ fifo = 0
  /\ input' = "flags"
  /\ UNCHANGED <<fifo, im, linkOk, rxSem, inputReg, late, masked>> /\ InputOnly

\* It moves one into a pbuf, or drops it when the pool has none.
ReadFrame ==
  /\ input = "read"
  /\ fifo > 0
  /\ fifo' = fifo - 1
  /\ input' \in {"hand over", "available"}
  /\ UNCHANGED <<im, linkOk, rxSem, inputReg, late, masked>> /\ InputOnly

\* netif->input: queued for tcpip, or freed when the queue takes no more.
HandOver ==
  /\ input = "hand over"
  /\ input' = "read"
  /\ UNCHANGED <<fifo, im, linkOk, rxSem, inputReg, late, masked>> /\ InputOnly

\* ETHServiceTaskLastError clears all flags but the link's by load and store.
LoadFlags ==
  /\ input = "flags"
  /\ inputReg' = IF linkOk THEN {"LINK_OK"} ELSE {}
  /\ input' = "clear"
  /\ UNCHANGED <<fifo, im, linkOk, rxSem, late, masked>> /\ InputOnly

ClearFlags ==
  /\ input = "clear"
  /\ linkOk' = ("LINK_OK" \in inputReg)
  /\ inputReg' = {}
  /\ input' = "available"
  /\ UNCHANGED <<fifo, im, rxSem, late, masked>> /\ InputOnly

\* ETHServiceTaskPacketAvail
Available ==
  /\ input = "available"
  /\ input' = IF fifo = 0 THEN "load mask" ELSE "read"
  /\ UNCHANGED <<fifo, im, linkOk, rxSem, inputReg, late, masked>> /\ InputOnly

\* ETHServiceTaskEnableReceive
LoadMask ==
  /\ input = "load mask"
  /\ inputReg' = im
  /\ input' = "enable"
  /\ UNCHANGED <<fifo, im, linkOk, rxSem, late, masked>> /\ InputOnly

EnableReceive ==
  /\ input = "enable"
  /\ im' = inputReg \cup {"RX"}
  /\ inputReg' = {}
  /\ masked' = FALSE
  /\ input' = "take"
  /\ UNCHANGED <<fifo, linkOk, rxSem, late>> /\ InputOnly

\* xSemaphoreTake
Take ==
  /\ input = "take"
  /\ ~rxSem
  /\ input' = "asleep"
  /\ UNCHANGED <<fifo, im, linkOk, rxSem, inputReg, late, masked>> /\ InputOnly

Taken ==
  /\ input \in {"take", "asleep"}
  /\ rxSem
  /\ rxSem' = FALSE
  /\ input' = "read"
  /\ late' = FALSE
  /\ UNCHANGED <<fifo, im, linkOk, inputReg, masked>> /\ InputOnly

\* Mistaken variant of TimeOut: the task waits without one.
WaitForEver == FALSE /\ UNCHANGED vars

\* ETH_BLOCK_TIME_WAITING_FOR_INPUT_MS have passed.
TimeOut ==
  /\ input = "asleep"
  /\ ~rxSem
  /\ input' = "read"
  /\ UNCHANGED <<fifo, im, linkOk, rxSem, inputReg, late, masked>> /\ InputOnly

InputTask ==
  \/ NoFrame \/ ReadFrame \/ HandOver \/ LoadFlags \/ ClearFlags \/ Available
  \/ LoadMask \/ EnableReceive \/ Take \/ Taken

------------------------------------------------------------------------------
(* low_level_output                                                        *)

InputBlocked == input = "asleep" /\ (~rxSem \/ late)

\* s goes from one place to another; what else is unchanged.
Output(s, from, to) ==
  /\ InputBlocked
  /\ output[s] = from
  /\ output' = [output EXCEPT ![s] = to]
  /\ UNCHANGED <<fifo, cable, frames, raw, phy, linkOk, rxSem, inputTask, late,
                 flagHistory>>

\* s stores a mask that it loaded before.
StoreMask(s, mask) ==
  /\ im' = mask
  /\ outputReg' = [outputReg EXCEPT ![s] = {}]
  /\ masked' = (masked \/ (putOff /\ "RX" \in im \ mask))

TakeMutex(s) ==
  /\ Output(s, "idle", "check")
  /\ outputs > 0
  /\ mutex = None
  /\ mutex' = s
  /\ outputs' = outputs - 1
  /\ putOff' = (late \/ masked)
  /\ UNCHANGED <<newtx, im, txSem, outputReg, masked>>

TransmitterIdle(s) ==
  /\ Output(s, "check", "transmit")
  /\ ~newtx
  /\ UNCHANGED <<newtx, im, txSem, mutex, outputReg, outputs, putOff, masked>>

\* EthernetIntEnable(ETH_INT_TX)
TransmitterBusy(s) ==
  /\ Output(s, "check", "enable")
  /\ newtx
  /\ outputReg' = [outputReg EXCEPT ![s] = im]
  /\ UNCHANGED <<newtx, im, txSem, mutex, outputs, putOff, masked>>

\* Mistaken variant of EnableTransmit: the interrupt stays disabled.
EnableNothing(s) ==
  /\ Output(s, "enable", "wait")
  /\ UNCHANGED <<newtx, im, txSem, mutex, outputReg, outputs, putOff, masked>>

EnableTransmit(s) ==
  /\ Output(s, "enable", "wait")
  /\ StoreMask(s, outputReg[s] \cup {"TX"})
  /\ UNCHANGED <<newtx, txSem, mutex, outputs, putOff>>

WaitForTransmitter(s) ==
  /\ Output(s, "wait", "transmit busy")
  /\ txSem
  /\ txSem' = FALSE
  /\ UNCHANGED <<newtx, im, mutex, outputReg, outputs, putOff, masked>>

\* low_level_transmit: nothing is written while the link is down.
low_level_transmit == newtx' = (newtx \/ linkOk)

TransmitIdle(s) ==
  /\ Output(s, "transmit", "give mutex")
  /\ low_level_transmit
  /\ UNCHANGED <<im, txSem, mutex, outputReg, outputs, putOff, masked>>

TransmitBusy(s) ==
  /\ Output(s, "transmit busy", "load mask")
  /\ low_level_transmit
  /\ UNCHANGED <<im, txSem, mutex, outputReg, outputs, putOff, masked>>

\* EthernetIntDisable(ETH_INT_TX)
LoadMaskAgain(s) ==
  /\ Output(s, "load mask", "disable")
  /\ outputReg' = [outputReg EXCEPT ![s] = im]
  /\ UNCHANGED <<newtx, im, txSem, mutex, outputs, putOff, masked>>

DisableTransmit(s) ==
  /\ Output(s, "disable", "give mutex")
  /\ StoreMask(s, outputReg[s] \ {"TX"})
  /\ UNCHANGED <<newtx, txSem, mutex, outputs, putOff>>

GiveMutex(s) ==
  /\ Output(s, "give mutex", "idle")
  /\ mutex' = None
  /\ UNCHANGED <<newtx, im, txSem, outputReg, outputs, putOff, masked>>

low_level_output(s) ==
  \/ TakeMutex(s) \/ TransmitterIdle(s) \/ TransmitterBusy(s) \/ EnableTransmit(s)
  \/ WaitForTransmitter(s) \/ TransmitIdle(s) \/ TransmitBusy(s) \/ LoadMaskAgain(s)
  \/ DisableTransmit(s) \/ GiveMutex(s)

Next ==
  \/ Arrive \/ Transmitted \/ LinkChanges
  \/ Interrupt
  \/ InputTask \/ TimeOut
  \/ \E s \in Sender : low_level_output(s)

Spec == Init /\ [][Next]_vars

\* The controller transmits what it was given and its interrupts are served;
\* the input task runs when it is ready, also when its wait has timed out; a
\* sender, again and again interrupted by it, gets its turn.
Fairness ==
  /\ WF_vars(Transmitted) /\ WF_vars(Interrupt)
  /\ WF_vars(InputTask) /\ WF_vars(TimeOut)
  /\ \A s \in Sender : SF_vars(low_level_output(s))

FairSpec == Spec /\ Fairness

------------------------------------------------------------------------------
(* Properties                                                              *)

ControllerType ==
  /\ fifo \in 0 .. FifoFrames
  /\ newtx \in BOOLEAN /\ link \in BOOLEAN /\ linkOk \in BOOLEAN
  /\ negotiated \in BOOLEAN /\ phy \subseteq {"LSCHG", "ANEGCOMP"}
  /\ raw \subseteq Interrupts /\ im \subseteq Interrupts
  /\ rxSem \in BOOLEAN /\ txSem \in BOOLEAN
  /\ late \in BOOLEAN /\ putOff \in BOOLEAN /\ masked \in BOOLEAN
  /\ torn \in BOOLEAN /\ split \in BOOLEAN

InputType ==
  /\ input \in {"read", "flags", "clear", "hand over", "available", "load mask",
                "enable", "take", "asleep"}
  /\ inputReg \subseteq Interrupts \cup {"LINK_OK"}
  /\ input = "enable" => inputReg \subseteq Interrupts

SenderType ==
  /\ mutex \in Sender \cup {None}
  /\ output \in [Sender -> {"idle", "check", "transmit", "enable", "wait",
                            "transmit busy", "load mask", "disable", "give mutex"}]
  /\ outputReg \in [Sender -> SUBSET Interrupts]

TypeOK == ControllerType /\ InputType /\ SenderType

\* ETH_INPUT is woken for a frame: when it sleeps and the FIFO is not empty,
\* a token or an enabled interrupt is there - the check of the FIFO, the
\* enabling and the sleep are three steps with the handler in between, and
\* senders write the mask too.  Only a sender that holds the mutex when a
\* switch is put off may undo the enabling, by storing a mask it loaded
\* before, and this lasts until ETH_INPUT enables the next time.
WakeupDue ==
  input = "asleep" /\ fifo > 0 /\ ~masked => rxSem \/ ("RX" \in raw /\ "RX" \in im)

\* Also then a frame leaves the FIFO in the end, because the wait times out.
FramesLeave == fifo > 0 ~> fifo = 0

\* Every low_level_output returns: whoever waits for the transmitter is
\* told, although the end of a transmission may have been cleared by an
\* interrupt that was about something else.
OutputReturns == \A s \in Sender : output[s] # "idle" ~> output[s] = "idle"

\* The fact behind it: one sender at a time is in low_level_output, and while
\* it waits the end of a transmission is still to come, pending or noted.
WaiterTold ==
  \A s \in Sender :
    /\ output[s] # "idle" => mutex = s
    /\ output[s] = "wait" => "TX" \in im /\ (newtx \/ "TX" \in raw \/ txSem)

\* When no interrupt is due the flag is not up over a link that is down, and
\* it is up over a link that came up with both its events read together: the
\* handler infers the link from the events.  The exception is a change that
\* was served between the load and the store with which the input task clears
\* the other flags; the flag is right again after the next change.
LinkFlagTrue ==
  raw \cap im = {} /\ ~torn =>
    /\ linkOk => link
    /\ link /\ ~split => linkOk

\* "Waiting for finishing transmitting from interrupt routine": no frame is
\* written into the transmit FIFO while another is being transmitted.
WrittenWhenIdle ==
  \A s \in Sender : output[s] \in {"transmit", "transmit busy"} /\ linkOk => ~newtx
==============================================================================
