-------------------------------- MODULE Uart ---------------------------------
(***************************************************************************)
(* SD0/Firmware_common/uart.c and serial.c: the serial port of the energy  *)
(* meter, from the byte that comes in to the line that goes out.           *)
(*                                                                         *)
(* The main program and two interrupt handlers share a receive ring and a  *)
(* transmit ring.  A handler runs to its end (the AVR disables interrupts  *)
(* meanwhile), so it is one step; the main program can be interrupted      *)
(* between any two of its accesses to the rings, so these are steps of     *)
(* their own.  The main program collects a line and answers it.            *)
(*                                                                         *)
(* What a command does is left out (module S0Meter has the commands that   *)
(* read the meter): a command is the bytes of its line, an answer a number *)
(* of bytes that no other answer has.                                      *)
(***************************************************************************)
EXTENDS Naturals, Sequences

CONSTANTS
  Line,        \* the lines the host sends, one after the other
  CR, LF,      \* the bytes 13 and 10
  Size,        \* UART_RX_BUFFER_SIZE and UART_TX_BUFFER_SIZE, powers of two
  LineSize,    \* size of the line buffer, which wraps with its counter: 256
  AnswerSize,  \* bytes of an answer
  MaxErrors    \* bound: bytes that come in with a framing error

Byte == {CR, LF} \cup UNION {{Line[i][j] : j \in 1 .. Len(Line[i])} : i \in 1 .. Len(Line)}

ASSUME ConstantAssumption ==
  /\ CR # LF
  /\ Size \in {2, 4, 8, 16, 32, 64, 128}
  /\ LineSize \in Nat \ {0}
  /\ AnswerSize \in Nat \ {0}
  /\ MaxErrors \in Nat

ASSUME LineAssumption == Line \in Seq(Seq(Byte) \ {<<>>})

VARIABLES
  UART_RxBuf, UART_RxHead, UART_RxTail,   \* the receive ring
  UART_LastRxError,                       \* "none", "frame", "overflow"
  UART_TxBuf, UART_TxHead, UART_TxTail,   \* the transmit ring
  UDRIE,       \* the transmit interrupt is enabled
  pc,          \* where the main program is
  data,        \* the byte uart_getc has loaded
  tmphead,     \* the local of uart_putc
  buffer,      \* the line collected so far
  printing,    \* bytes of the answer still to be put
  patient,     \* the host waits for an answer before it sends the next line
  host,        \* lines still to come, the first one perhaps in part
  errors,      \* bytes that came in damaged so far
  stored,      \* history: bytes the receive interrupt put into the ring
  fetched,     \* history: bytes uart_getc returned
  answers,     \* history: lines answered
  put,         \* history: bytes for which uart_putc has returned
  sent         \* history: bytes written to the data register

rx == <<UART_RxBuf, UART_RxHead, UART_RxTail, UART_LastRxError>>
tx == <<UART_TxBuf, UART_TxHead, UART_TxTail, UDRIE>>
main == <<pc, data, tmphead, buffer, printing>>
line == <<patient, host, errors>>
vars == <<rx, tx, main, line, stored, fetched, answers, put, sent>>

Slot == 0 .. Size - 1
Following(i) == (i + 1) % Size

\* The bytes of a ring, oldest first: a ring holds them behind its tail.
Ring(buf, head, tail) ==
  [i \in 1 .. (head + Size - tail) % Size |-> buf[(tail + i) % Size]]

RxRing == Ring(UART_RxBuf, UART_RxHead, UART_RxTail)
TxRing == Ring(UART_TxBuf, UART_TxHead, UART_TxTail)

Answer(k) == [i \in 1 .. AnswerSize |-> (k - 1) * AnswerSize + i]

Init ==
  /\ UART_RxBuf = [i \in Slot |-> 0] /\ UART_RxHead = 0 /\ UART_RxTail = 0
  /\ UART_LastRxError = "none"
  /\ UART_TxBuf = [i \in Slot |-> 0] /\ UART_TxHead = 0 /\ UART_TxTail = 0
  /\ UDRIE = FALSE
  /\ pc = "getc" /\ data = 0 /\ tmphead = 0
  /\ buffer = <<>> /\ printing = <<>>
  /\ patient \in BOOLEAN /\ host = Line /\ errors = 0
  /\ stored = <<>> /\ fetched = <<>>
  /\ answers = 0 /\ put = <<>> /\ sent = <<>>

------------------------------------------------------------------------------
(* The host (external) and the receive interrupt                           *)

\* A patient host begins a line when the last one has been answered.
MaySend ==
  patient =>
    \/ Len(Head(host)) < Len(Line[Len(Line) + 1 - Len(host)])
    \/ Len(sent) = AnswerSize * (Len(Line) - Len(host))

RestOfHost ==
  IF Len(Head(host)) = 1 THEN Tail(host) ELSE <<Tail(Head(host))>> \o Tail(host)

\* Mistaken variant: no test for a full ring.
RxInterruptUnguarded(e) ==
  LET next == Following(UART_RxHead)
  IN  /\ host # <<>>
      /\ MaySend
      /\ host' = RestOfHost /\ UNCHANGED patient
      /\ e = "frame" => errors < MaxErrors
      /\ errors' = IF e = "frame" THEN errors + 1 ELSE errors
      /\ UART_LastRxError' = e
      /\ UART_RxHead' = next
      /\ UART_RxBuf' = [UART_RxBuf EXCEPT ![next] = Head(Head(host))]
      /\ stored' = Append(stored, Head(Head(host)))
      /\ UNCHANGED <<UART_RxTail, tx, main, fetched, answers, put, sent>>

\* A byte comes in with status e.  The new head is published before the
\* byte is stored: nobody can look in between.
RxInterrupt(e) ==
  LET c == Head(Head(host))
      next == Following(UART_RxHead)
  IN  /\ host # <<>>
      /\ MaySend
      /\ host' = RestOfHost /\ UNCHANGED patient
      /\ e = "frame" => errors < MaxErrors
      /\ errors' = IF e = "frame" THEN errors + 1 ELSE errors
      /\ IF next = UART_RxTail
         THEN /\ UART_LastRxError' = "overflow"
              /\ UNCHANGED <<UART_RxBuf, UART_RxHead, stored>>
         ELSE /\ UART_LastRxError' = e
              /\ UART_RxHead' = next
              /\ UART_RxBuf' = [UART_RxBuf EXCEPT ![next] = c]
              /\ stored' = Append(stored, c)
      /\ UNCHANGED <<UART_RxTail, tx, main, fetched, answers, put, sent>>

------------------------------------------------------------------------------
(* The transmit interrupt: the data register is empty                      *)

\* Mistaken variant: the interrupt is disabled after every byte.
TxInterruptOnce ==
  LET tmptail == Following(UART_TxTail)
  IN  /\ UDRIE
      /\ UDRIE' = FALSE
      /\ IF UART_TxHead # UART_TxTail
         THEN UART_TxTail' = tmptail /\ sent' = Append(sent, UART_TxBuf[tmptail])
         ELSE UNCHANGED <<UART_TxTail, sent>>
      /\ UNCHANGED <<UART_TxBuf, UART_TxHead, rx, main, line, stored, fetched, answers, put>>

TxInterrupt ==
  LET tmptail == Following(UART_TxTail)
  IN  /\ UDRIE
      /\ IF UART_TxHead # UART_TxTail
         THEN /\ UART_TxTail' = tmptail
              /\ sent' = Append(sent, UART_TxBuf[tmptail])
              /\ UNCHANGED UDRIE
         ELSE /\ UDRIE' = FALSE
              /\ UNCHANGED <<UART_TxTail, sent>>
      /\ UNCHANGED <<UART_TxBuf, UART_TxHead, rx, main, line, stored, fetched, answers, put>>

------------------------------------------------------------------------------
(* uart_getc, called by serial_periodic until it returns UART_NO_DATA      *)

GetAdvance ==
  /\ pc = "getc"
  /\ UART_RxHead # UART_RxTail
  /\ UART_RxTail' = Following(UART_RxTail)
  /\ pc' = "load"
  /\ UNCHANGED <<UART_RxBuf, UART_RxHead, UART_LastRxError, tx, data, tmphead, buffer,
                 printing, line, stored, fetched, answers, put, sent>>

GetLoad ==
  /\ pc = "load"
  /\ data' = UART_RxBuf[UART_RxTail]
  /\ pc' = "status"
  /\ UNCHANGED <<rx, tx, tmphead, buffer, printing, line, stored, fetched, answers, put, sent>>

\* Mistaken variant: the line goes on beyond its buffer.
GetStatusUnbounded ==
  /\ pc = "status"
  /\ pc' = "getc"
  /\ fetched' = Append(fetched, data)
  /\ buffer' = IF UART_LastRxError # "none" \/ data = LF THEN buffer ELSE Append(buffer, data)
  /\ UNCHANGED <<rx, tx, data, tmphead, printing, line, stored, answers, put, sent>>

\* The byte goes into the line, unless the status - of whatever came in
\* last - is an error.  The 256th byte takes the counter back to zero.
GetStatus ==
  /\ pc = "status"
  /\ pc' = "getc"
  /\ fetched' = Append(fetched, data)
  /\ buffer' = IF UART_LastRxError # "none" \/ data = LF THEN buffer
               ELSE IF Len(buffer) + 1 = LineSize THEN <<>> ELSE Append(buffer, data)
  /\ UNCHANGED <<rx, tx, data, tmphead, printing, line, stored, answers, put, sent>>

------------------------------------------------------------------------------
(* The rest of serial_periodic                                             *)

EndOfLine == buffer # <<>> /\ buffer[Len(buffer)] = CR

NoLine ==
  /\ pc = "getc"
  /\ UART_RxHead = UART_RxTail
  /\ ~EndOfLine
  /\ UNCHANGED vars

\* parse_buffer begins to print.
ParseLine ==
  /\ pc = "getc"
  /\ UART_RxHead = UART_RxTail
  /\ EndOfLine
  /\ answers' = answers + 1
  /\ printing' = Answer(answers + 1)
  /\ pc' = "putc"
  /\ UNCHANGED <<rx, tx, data, tmphead, buffer, line, stored, fetched, put, sent>>

------------------------------------------------------------------------------
(* uart_putc                                                               *)

PutEnter ==
  /\ pc = "putc"
  /\ printing # <<>>
  /\ tmphead' = Following(UART_TxHead)
  /\ pc' = "store"
  /\ UNCHANGED <<rx, tx, data, buffer, printing, line, stored, fetched, answers, put, sent>>

\* Mistaken variant: the byte is stored at once.
PutStoreAtOnce ==
  /\ pc = "store"
  /\ UART_TxBuf' = [UART_TxBuf EXCEPT ![tmphead] = Head(printing)]
  /\ pc' = "publish"
  /\ UNCHANGED <<rx, UART_TxHead, UART_TxTail, UDRIE, data, tmphead, buffer, printing,
                 line, stored, fetched, answers, put, sent>>

\* "wait for free space in buffer"
PutStore ==
  /\ pc = "store"
  /\ tmphead # UART_TxTail
  /\ UART_TxBuf' = [UART_TxBuf EXCEPT ![tmphead] = Head(printing)]
  /\ pc' = "publish"
  /\ UNCHANGED <<rx, UART_TxHead, UART_TxTail, UDRIE, data, tmphead, buffer, printing,
                 line, stored, fetched, answers, put, sent>>

PutPublish ==
  /\ pc = "publish"
  /\ UART_TxHead' = tmphead
  /\ pc' = "enable"
  /\ UNCHANGED <<rx, UART_TxBuf, UART_TxTail, UDRIE, data, tmphead, buffer, printing,
                 line, stored, fetched, answers, put, sent>>

PutEnable ==
  /\ pc = "enable"
  /\ UDRIE' = TRUE
  /\ put' = Append(put, Head(printing))
  /\ printing' = Tail(printing)
  /\ pc' = "putc"
  /\ UNCHANGED <<rx, UART_TxBuf, UART_TxHead, UART_TxTail, data, tmphead, buffer,
                 line, stored, fetched, answers, sent>>

\* Mistaken variant: the carriage return is taken off, the line stays.
LineDoneKept ==
  /\ pc = "putc"
  /\ printing = <<>>
  /\ buffer' = SubSeq(buffer, 1, Len(buffer) - 1)
  /\ pc' = "getc"
  /\ UNCHANGED <<rx, tx, data, tmphead, printing, line, stored, fetched, answers, put, sent>>

\* The answer is printed: the line is cleared.
LineDone ==
  /\ pc = "putc"
  /\ printing = <<>>
  /\ buffer' = <<>>
  /\ pc' = "getc"
  /\ UNCHANGED <<rx, tx, data, tmphead, printing, line, stored, fetched, answers, put, sent>>

------------------------------------------------------------------------------

Main ==
  \/ GetAdvance \/ GetLoad \/ GetStatus \/ NoLine \/ ParseLine
  \/ PutEnter \/ PutStore \/ PutPublish \/ PutEnable \/ LineDone

Interrupt == TxInterrupt \/ \E e \in {"none", "frame"} : RxInterrupt(e)

Next == Main \/ Interrupt

Spec == Init /\ [][Next]_vars

\* The main program runs, and the data register becomes empty again.
FairSpec == Spec /\ WF_vars(Main) /\ WF_vars(TxInterrupt)
            /\ WF_vars(\E e \in {"none", "frame"} : RxInterrupt(e))

------------------------------------------------------------------------------
(* Properties                                                              *)

TypeOK ==
  /\ UART_RxBuf \in [Slot -> Byte \cup {0}]
  /\ UART_RxHead \in Slot /\ UART_RxTail \in Slot
  /\ UART_LastRxError \in {"none", "frame", "overflow"}
  /\ UART_TxBuf \in [Slot -> Nat]
  /\ UART_TxHead \in Slot /\ UART_TxTail \in Slot /\ tmphead \in Slot
  /\ UDRIE \in BOOLEAN
  /\ pc \in {"getc", "load", "status", "putc", "store", "publish", "enable"}
  /\ data \in Byte \cup {0}
  /\ buffer \in Seq(Byte)
  /\ Len(buffer) < LineSize
  /\ printing \in Seq(Nat)
  /\ answers \in Nat

\* The byte uart_getc is about to return, and the one uart_putc has put into
\* the ring without having returned.
Getting == CASE pc = "load" -> <<UART_RxBuf[UART_RxTail]>>
             [] pc = "status" -> <<data>>
             [] OTHER -> <<>>
Putting == IF pc = "enable" THEN <<Head(printing)>> ELSE <<>>

\* Nothing is lost, duplicated or reordered between the interrupt that
\* stored a byte and the main program, although uart_getc gives the slot
\* back before it has read it (uart.c:420).
ReceivedInOrder == stored = fetched \o Getting \o RxRing

\* What the transmit interrupt has sent and what the ring holds is what
\* uart_putc was given, in this order: the ring never overtakes itself.
SentInOrder == sent \o TxRing = put \o Putting

\* No byte is left behind in the ring with the interrupt off, also when the
\* interrupt found the ring empty just before the byte was published.
NothingStranded ==
  UART_TxHead # UART_TxTail => UDRIE \/ pc = "enable"

\* What serial_periodic keeps of the bytes s: all but the line feeds.
Stripped(s) ==
  LET kept[n \in 0 .. Len(s)] ==
        IF n = 0 THEN <<>>
        ELSE IF s[n] = LF THEN kept[n - 1] ELSE Append(kept[n - 1], s[n])
  IN  kept[Len(s)]
Feeds(s) == Len(s) - Len(Stripped(s))

\* A line ends with its only CR, and is shorter than the line buffer.  The
\* ring takes it while the main program does not run, with what may be left
\* in it of the line before: line feeds behind the CR.
LinesFit ==
  \A i \in 1 .. Len(Line) :
    LET s == Stripped(Line[i])
    IN  /\ s # <<>> /\ \A j \in 1 .. Len(s) : s[j] = CR <=> j = Len(s)
        /\ Len(s) < LineSize
        /\ Len(Line[i]) + (IF i = 1 THEN 0 ELSE Feeds(Line[i - 1])) < Size

\* To a host that waits for its answers each line is answered by itself: no
\* two lines are taken for one, and no byte of a line is missing, as long as
\* none was damaged on the way and lines fit.
AnsweredByItself ==
  patient /\ errors = 0 /\ pc \in {"putc", "store", "publish", "enable"} =>
    buffer = Stripped(Line[answers])

\* Such a host gets all its answers if no byte is damaged, also when they are
\* longer than the ring and uart_putc has to wait.
EveryLineAnswered ==
  patient /\ [](errors = 0) => <>(Len(sent) = AnswerSize * Len(Line))
==============================================================================
