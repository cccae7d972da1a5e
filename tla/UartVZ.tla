------------------------------- MODULE UartVZ --------------------------------
(***************************************************************************)
(* SD0/Firmware_VZ: the same serial port, but impuls_action prints a line  *)
(* for every impulse - inside the pin-change interrupt, with interrupts    *)
(* disabled, and at any point of what the main program is printing itself. *)
(***************************************************************************)
EXTENDS Uart

CONSTANTS
  Report,       \* the bytes of printf("%c\r\n", 'A'+ch)
  MaxImpulses   \* bound: impulses

VARIABLE impulses

vvars == <<vars, impulses>>

VInit == Init /\ impulses = 0

Room == Size - 1 - Len(TxRing)

\* uart_putc for every byte of the report.
Impulse ==
  /\ pc # "spinning"
  /\ impulses < MaxImpulses
  /\ impulses' = impulses + 1
  /\ Room >= Len(Report)
  /\ UART_TxBuf' = [i \in Slot |->
       LET k == (i + Size - UART_TxHead) % Size
       IN  IF k \in 1 .. Len(Report) THEN Report[k] ELSE UART_TxBuf[i]]
  /\ UART_TxHead' = (UART_TxHead + Len(Report)) % Size
  /\ UDRIE' = TRUE
  /\ put' = put \o Report
  /\ UNCHANGED <<rx, UART_TxTail, main, line, stored, fetched, answers, sent>>

\* The ring is full and the handler waits: nothing else runs any more, the
\* transmit interrupt that would make room neither.
ImpulseWaits ==
  /\ pc # "spinning"
  /\ impulses < MaxImpulses
  /\ impulses' = impulses + 1
  /\ Room < Len(Report)
  /\ pc' = "spinning"
  /\ UART_TxBuf' = [i \in Slot |->
       LET k == (i + Size - UART_TxHead) % Size
       IN  IF k \in 1 .. Room THEN Report[k] ELSE UART_TxBuf[i]]
  /\ UART_TxHead' = (UART_TxHead + Room) % Size
  /\ UDRIE' = (UDRIE \/ Room > 0)
  /\ put' = put \o SubSeq(Report, 1, Room)
  /\ UNCHANGED <<rx, UART_TxTail, data, tmphead, buffer, printing, line, stored, fetched,
                 answers, sent>>

\* One second later: everything starts over, and what was in the rings is gone.
WatchdogReset ==
  /\ pc = "spinning"
  /\ UART_RxHead' = 0 /\ UART_RxTail' = 0 /\ UART_LastRxError' = "none"
  /\ UART_RxBuf' = [i \in Slot |-> 0]
  /\ UART_TxHead' = 0 /\ UART_TxTail' = 0 /\ UDRIE' = FALSE
  /\ UART_TxBuf' = [i \in Slot |-> 0]
  /\ pc' = "getc" /\ data' = 0 /\ tmphead' = 0 /\ buffer' = <<>> /\ printing' = <<>>
  /\ stored' = <<>> /\ fetched' = <<>> /\ put' = <<>> /\ sent' = <<>>
  /\ UNCHANGED <<line, answers, impulses>>

VNext ==
  \/ pc # "spinning" /\ Next /\ UNCHANGED impulses
  \/ Impulse
  \/ ImpulseWaits
  \/ WatchdogReset

VSpec == VInit /\ [][VNext]_vvars

------------------------------------------------------------------------------
(* What the sources say                                                    *)

\* uart.h: "Put byte to ringbuffer for transmitting via UART".  Every byte
\* for which uart_putc has returned is in the ring or has been sent.
PutIsTransmitted == Len(put) <= Len(sent) + Len(TxRing)
==============================================================================
