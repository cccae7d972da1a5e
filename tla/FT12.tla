-------------------------------- MODULE FT12 ---------------------------------
(***************************************************************************)
(* TUL/FT12/FT12.c: a gateway between a host that speaks FT1.2 over USB    *)
(* and a TPUART, the chip that puts telegrams on an EIB/KNX bus.           *)
(*                                                                         *)
(* The gateway is one main loop without interrupts: it reads at most one   *)
(* byte from the TPUART, reads what the host has sent, handles one message *)
(* of the host, and passes answers on.  Host, TPUART and bus go their own  *)
(* ways between any two of these steps: the host repeats a message or      *)
(* resets the link, the bus carries telegrams of other devices, and the    *)
(* polled two-byte UART can lose what comes while the loop is busy.        *)
(*                                                                         *)
(* A message of the host is one element of a queue (the code waits for its *)
(* last byte before it looks at it), a telegram is three: the first byte,  *)
(* those up to the length, and the last.  How answers are laid out (check  *)
(* sum, the alternating control byte of toggles, the zeros that ETSmode    *)
(* inserts) is left out.                                                   *)
(***************************************************************************)
EXTENDS Naturals, Sequences, FiniteSets

CONSTANTS
  Telegram,     \* telegrams the host wants on the bus
  Stage,        \* the 0x41 requests answered in two parts: E5next is 1 .. 4
  Command,      \* commands of the other messages the host sends
  Foreign,      \* telegrams other devices put on the bus, each once
  None,         \* no telegram, no message
  Garbage,      \* what comes of a telegram of which bytes were lost
  Scenario      \* bound: what the host sends, each message once, and how many
                \* repeats, resets and losses may come in between

ASSUME ConstantAssumption ==
  /\ None \notin Telegram \cup Foreign \cup Stage
  /\ Command \subseteq {"T_Connect.req", "status", "unknown"}

VARIABLES
  pc,                \* where the main loop is
  inFT12_Buffer,     \* messages read from the host
  inTPU_Buffer,      \* pieces of the telegram being received
  waitTPUconfirm,    \* a telegram of the host is with the TPUART
  waitTPUreceiving,  \* a telegram from the bus has begun
  confirmdata,       \* the telegram the confirmation will carry
  E5next,            \* the second part the next E5 of the host asks for
  toUSB_Buffer,      \* answers for the host
  toTPUART_Buffer,   \* resets for the TPUART
  usb,               \* messages on the way from the host
  request,           \* the message the host waits for an E5 for
  todo,              \* messages the host has still to send
  got,               \* history: the part of an answer the host received last
  line,              \* what the TPUART has sent
  pending,           \* the telegram the TPUART has still to put on the bus
  foreign,           \* telegrams of others still to come
  confirmed,         \* history: telegrams the TPUART put on the bus
  faults,            \* repeats, resets and losses still to come
  disturbed          \* history: there has been a reset or a loss

gateway == <<pc, inFT12_Buffer, inTPU_Buffer, waitTPUconfirm, waitTPUreceiving,
             confirmdata, E5next, toUSB_Buffer, toTPUART_Buffer>>
host == <<usb, request, todo, got>>
tpuart == <<line, pending, foreign, confirmed>>
mishaps == <<faults, disturbed>>
vars == <<gateway, host, tpuart, mishaps>>

------------------------------------------------------------------------------
(* What travels                                                            *)

\* Messages of the host, by the command byte: 0x11, 0x41 with a known
\* payload, and Command: "T_Connect.req" stands for 0x43, 0x44 and 0xA7,
\* "unknown" for a command the gateway has no answer to.
Request ==
  [cmd : {"L_Data.req"}, arg : Telegram] \cup
  [cmd : {"T_Data.req"}, arg : Stage] \cup
  [cmd : Command, arg : {None}]
Reset == [cmd |-> "reset", arg |-> None]
E5 == [cmd |-> "E5", arg |-> None]
Message == Request \cup {Reset, E5}

\* Answers of the gateway.
Item(k, a) == [kind |-> k, arg |-> a]
Answers ==
  [kind : {"E5", "status", "con", "ind", "first", "second"},
   arg : Telegram \cup Foreign \cup Stage \cup {None, Garbage}]
IsE5(a) == a.kind \in {"E5", "status"}
IsPart(a) == a.kind \in {"first", "second"}
NoPart(items, first, last) == \A i \in first .. last : ~IsPart(items[i])

\* Pieces from the TPUART: a telegram, its confirmation (0x8B, 0x0B), other.
Piece(p, t) == [part |-> p, of |-> t]
Frame(t) == <<Piece("first", t), Piece("length", t), Piece("last", t)>>
Sent(t) == Piece("0x8B", t)
Refused(t) == Piece("0x0B", t)
Other == Piece("other", None)
Pieces ==
  [part : {"first", "length", "last", "0x8B", "0x0B", "other"},
   of : Telegram \cup Foreign \cup {None}]

Assembled(b) == IF b = Frame(b[1].of) THEN b[1].of ELSE Garbage

Init ==
  /\ pc = "read"
  /\ inFT12_Buffer = <<>> /\ inTPU_Buffer = <<>>
  /\ waitTPUconfirm = FALSE /\ waitTPUreceiving = FALSE
  /\ confirmdata = None
  /\ E5next = None
  /\ toUSB_Buffer = <<>> /\ toTPUART_Buffer = <<>>
  /\ \E s \in Scenario : todo = s.todo /\ faults = s.faults
  /\ usb = <<>> /\ request = None /\ got = Item("second", None)
  /\ line = <<>> /\ pending = None /\ foreign = Foreign /\ confirmed = {}
  /\ disturbed = FALSE

------------------------------------------------------------------------------
(* The host (external): one message at a time, an E5 for every answer      *)

\* A reset or a loss: properties of an undisturbed gateway end here.
Mishap ==
  /\ faults > 0
  /\ faults' = faults - 1
  /\ disturbed' = TRUE

HostSends(m) ==
  /\ request = None
  /\ m \in todo
  /\ request' = m
  /\ todo' = todo \ {m}
  /\ usb' = Append(usb, m)
  /\ UNCHANGED <<got, gateway, tpuart, mishaps>>

\* The E5 is late, or so it seems to the host.
HostRepeats ==
  /\ request # None
  /\ faults > 0
  /\ faults' = faults - 1
  /\ usb' = Append(usb, request)
  /\ UNCHANGED <<request, todo, got, disturbed, gateway, tpuart>>

HostResets ==
  /\ Mishap
  /\ request' = Reset
  /\ usb' = Append(usb, Reset)
  /\ UNCHANGED <<todo, got, gateway, tpuart>>

Host == (\E m \in Request : HostSends(m)) \/ HostRepeats \/ HostResets

------------------------------------------------------------------------------
(* TPUART and bus (external)                                               *)

ForeignTelegram(t) ==
  /\ t \in foreign
  /\ foreign' = foreign \ {t}
  /\ line' = line \o Frame(t)
  /\ UNCHANGED <<pending, confirmed, gateway, host, mishaps>>

\* The telegram goes out and is heard by the TPUART itself; some device
\* acknowledges it, or none does, or the bus was never free.
Transmit ==
  /\ pending # None
  /\ \/ /\ line' = line \o Frame(pending) \o <<Sent(pending)>>
        /\ confirmed' = confirmed \cup {pending}
     \/ /\ line' = line \o Frame(pending) \o <<Refused(pending)>>
        /\ UNCHANGED confirmed
     \/ /\ line' = Append(line, Refused(pending))
        /\ UNCHANGED confirmed
  /\ pending' = None
  /\ UNCHANGED <<foreign, gateway, host, mishaps>>

Overrun ==
  /\ Mishap
  /\ line # <<>>
  /\ line' = Tail(line)
  /\ UNCHANGED <<pending, foreign, confirmed, gateway, host>>

Bus == (\E t \in Foreign : ForeignTelegram(t)) \/ Transmit \/ Overrun

------------------------------------------------------------------------------
(* One byte from the TPUART, and what the host has sent                    *)

\* All the host has sent comes in with it.
ReadHost ==
  /\ pc = "read"
  /\ pc' = "handle"
  /\ inFT12_Buffer' = inFT12_Buffer \o usb
  /\ usb' = <<>>
  /\ UNCHANGED <<E5next, toTPUART_Buffer, request, todo, got, mishaps>>

NoByte ==
  /\ ReadHost
  /\ line = <<>>
  /\ UNCHANGED <<inTPU_Buffer, waitTPUconfirm, waitTPUreceiving, confirmdata,
                 toUSB_Buffer, tpuart>>

ReadByte ==
  /\ ReadHost
  /\ line # <<>>
  /\ line' = Tail(line)
  /\ UNCHANGED <<pending, foreign, confirmed>>

\* Whatever follows the first byte of a telegram belongs to it.
TelegramByte == inTPU_Buffer # <<>> \/ Head(line).part = "first"
Received == Append(inTPU_Buffer, Head(line))

TelegramPart ==
  /\ ReadByte
  /\ TelegramByte
  /\ Len(Received) < 3
  /\ inTPU_Buffer' = Received
  /\ waitTPUreceiving' = TRUE
  /\ UNCHANGED <<waitTPUconfirm, confirmdata, toUSB_Buffer>>

\* While a confirmation is due a telegram is taken for the echo of the one
\* that was sent; otherwise the host gets it.
TelegramComplete ==
  /\ ReadByte
  /\ TelegramByte
  /\ Len(Received) = 3
  /\ inTPU_Buffer' = <<>>
  /\ waitTPUreceiving' = FALSE
  /\ IF waitTPUconfirm
     THEN /\ confirmdata' = Assembled(Received)
          /\ UNCHANGED toUSB_Buffer
     ELSE /\ toUSB_Buffer' = Append(toUSB_Buffer, Item("ind", Assembled(Received)))
          /\ UNCHANGED confirmdata
  /\ UNCHANGED waitTPUconfirm

\* Mistaken variants: a refusal is passed on as a confirmation, or does not
\* end the wait.
ConfirmationOfBoth ==
  /\ ReadByte
  /\ ~TelegramByte
  /\ Head(line).part \in {"0x8B", "0x0B"}
  /\ toUSB_Buffer' = IF waitTPUconfirm THEN Append(toUSB_Buffer, Item("con", confirmdata))
                                        ELSE toUSB_Buffer
  /\ waitTPUconfirm' = FALSE
  /\ waitTPUreceiving' = FALSE
  /\ UNCHANGED <<inTPU_Buffer, confirmdata>>

ConfirmationKeepsWaiting ==
  /\ ReadByte
  /\ ~TelegramByte
  /\ Head(line).part \in {"0x8B", "0x0B"}
  /\ toUSB_Buffer' = IF Head(line).part = "0x8B" /\ waitTPUconfirm
                     THEN Append(toUSB_Buffer, Item("con", confirmdata))
                     ELSE toUSB_Buffer
  /\ waitTPUconfirm' = (waitTPUconfirm /\ Head(line).part = "0x0B")
  /\ waitTPUreceiving' = FALSE
  /\ UNCHANGED <<inTPU_Buffer, confirmdata>>

Confirmation ==
  /\ ReadByte
  /\ ~TelegramByte
  /\ Head(line).part \in {"0x8B", "0x0B"}
  /\ toUSB_Buffer' = IF Head(line).part = "0x8B" /\ waitTPUconfirm
                     THEN Append(toUSB_Buffer, Item("con", confirmdata))
                     ELSE toUSB_Buffer
  /\ waitTPUconfirm' = FALSE
  /\ waitTPUreceiving' = FALSE
  /\ UNCHANGED <<inTPU_Buffer, confirmdata>>

UnhandledByte ==
  /\ ReadByte
  /\ ~TelegramByte
  /\ Head(line).part \notin {"0x8B", "0x0B"}
  /\ waitTPUreceiving' = FALSE
  /\ UNCHANGED <<inTPU_Buffer, waitTPUconfirm, confirmdata, toUSB_Buffer>>

------------------------------------------------------------------------------
(* Messages of the host                                                    *)

\* Mistaken variant: the second part stays due.
HostConfirmsAgain ==
  /\ pc = "handle"
  /\ inFT12_Buffer # <<>>
  /\ Head(inFT12_Buffer) = E5
  /\ inFT12_Buffer' = Tail(inFT12_Buffer)
  /\ toUSB_Buffer' = IF E5next # None THEN Append(toUSB_Buffer, Item("second", E5next))
                                      ELSE toUSB_Buffer
  /\ UNCHANGED <<pc, inTPU_Buffer, waitTPUconfirm, waitTPUreceiving, confirmdata,
                 E5next, toTPUART_Buffer, host, tpuart, mishaps>>

\* Every E5 at the head is dropped; the first sends the second part that
\* is due.
HostConfirms ==
  /\ pc = "handle"
  /\ inFT12_Buffer # <<>>
  /\ Head(inFT12_Buffer) = E5
  /\ inFT12_Buffer' = Tail(inFT12_Buffer)
  /\ toUSB_Buffer' = IF E5next # None THEN Append(toUSB_Buffer, Item("second", E5next))
                                      ELSE toUSB_Buffer
  /\ E5next' = None
  /\ UNCHANGED <<pc, inTPU_Buffer, waitTPUconfirm, waitTPUreceiving, confirmdata,
                 toTPUART_Buffer, host, tpuart, mishaps>>

NoMessage ==
  /\ pc = "handle"
  /\ inFT12_Buffer = <<>>
  /\ pc' = "out"
  /\ UNCHANGED <<inFT12_Buffer, inTPU_Buffer, waitTPUconfirm, waitTPUreceiving, confirmdata,
                 E5next, toUSB_Buffer, toTPUART_Buffer, host, tpuart, mishaps>>

\* The message at the head is m.
Handle(m) ==
  /\ pc = "handle"
  /\ inFT12_Buffer # <<>>
  /\ Head(inFT12_Buffer) = m
  /\ pc' = "out"

Answer(items) == toUSB_Buffer' = toUSB_Buffer \o items

\* 10 40 40 16: what has come in meanwhile is forgotten, E5next is not.
HandleReset ==
  /\ Handle(Reset)
  /\ Answer(<<Item("E5", None)>>)
  /\ waitTPUconfirm' = FALSE
  /\ waitTPUreceiving' = FALSE
  /\ inFT12_Buffer' = <<>>
  /\ inTPU_Buffer' = <<>>
  /\ toTPUART_Buffer' = Append(toTPUART_Buffer, "U_Reset")
  /\ UNCHANGED <<confirmdata, E5next, host, tpuart, mishaps>>

\* 10 49 49 16
HandleStatus(m) ==
  /\ m.cmd = "status"
  /\ Handle(m)
  /\ Answer(<<Item("status", None)>>)
  /\ inFT12_Buffer' = Tail(inFT12_Buffer)
  /\ UNCHANGED <<inTPU_Buffer, waitTPUconfirm, waitTPUreceiving, confirmdata, E5next,
                 toTPUART_Buffer, host, tpuart, mishaps>>

\* Mistaken variant: only a telegram that is coming in keeps the TPUART busy.
BusyReceiving == waitTPUreceiving

\* "last sent to TPU pending": the message, and all behind it, has to wait.
Busy == waitTPUreceiving \/ waitTPUconfirm

HoldL_Data(m) ==
  /\ m.cmd = "L_Data.req"
  /\ Handle(m)
  /\ Busy
  /\ UNCHANGED <<inFT12_Buffer, inTPU_Buffer, waitTPUconfirm, waitTPUreceiving, confirmdata,
                 E5next, toUSB_Buffer, toTPUART_Buffer, host, tpuart, mishaps>>

\* Mistaken variant: nothing marks that a confirmation is due.
HandleL_DataUnmarked(m) ==
  /\ m.cmd = "L_Data.req"
  /\ Handle(m)
  /\ ~Busy
  /\ pending' = m.arg
  /\ Answer(<<Item("E5", None)>>)
  /\ confirmdata' = m.arg
  /\ E5next' = None
  /\ inFT12_Buffer' = Tail(inFT12_Buffer)
  /\ UNCHANGED <<inTPU_Buffer, waitTPUconfirm, waitTPUreceiving, toTPUART_Buffer,
                 host, mishaps, line, foreign, confirmed>>

\* The telegram is written to the TPUART byte by byte, past the ring buffer.
HandleL_Data(m) ==
  /\ m.cmd = "L_Data.req"
  /\ Handle(m)
  /\ ~Busy
  /\ pending' = m.arg
  /\ Answer(<<Item("E5", None)>>)
  /\ waitTPUconfirm' = TRUE
  /\ confirmdata' = m.arg
  /\ E5next' = None
  /\ inFT12_Buffer' = Tail(inFT12_Buffer)
  /\ UNCHANGED <<inTPU_Buffer, waitTPUreceiving, toTPUART_Buffer,
                 host, mishaps, line, foreign, confirmed>>

\* The other long messages: an E5, and one answer if the command has one;
\* a T_Data request has a second part to come.
HandleLong(m) ==
  /\ m.cmd \in {"T_Data.req", "T_Connect.req", "unknown"}
  /\ Handle(m)
  /\ Answer(<<Item("E5", None)>> \o
            IF m.cmd = "unknown" THEN <<>> ELSE <<Item("first", m.arg)>>)
  /\ E5next' = IF m.cmd = "T_Data.req" THEN m.arg ELSE None
  /\ inFT12_Buffer' = Tail(inFT12_Buffer)
  /\ UNCHANGED <<inTPU_Buffer, waitTPUconfirm, waitTPUreceiving, confirmdata,
                 toTPUART_Buffer, host, tpuart, mishaps>>

------------------------------------------------------------------------------
(* Outgoing: the host takes k answers, the UART may take a byte            *)

Pass(k) ==
  LET answers == {i \in 1 .. k : ~IsE5(toUSB_Buffer[i])}
  IN  /\ pc = "out"
      /\ pc' = "read"
      /\ k <= Len(toUSB_Buffer)
      /\ toUSB_Buffer' = SubSeq(toUSB_Buffer, k + 1, Len(toUSB_Buffer))
      /\ \/ NoPart(toUSB_Buffer, 1, k) /\ got' = got
         \/ \E i \in 1 .. k : /\ IsPart(toUSB_Buffer[i])
                              /\ NoPart(toUSB_Buffer, i + 1, k)
                              /\ got' = toUSB_Buffer[i]
      /\ request' = IF answers = 1 .. k THEN request ELSE None
      /\ usb' = usb \o [i \in 1 .. Cardinality(answers) |-> E5]
      /\ UNCHANGED <<inFT12_Buffer, inTPU_Buffer, waitTPUconfirm, waitTPUreceiving,
                     confirmdata, E5next, todo, mishaps>>

\* UDRE1 is set: the TPUART forgets what it was about to send, and says so.
PassReset ==
  /\ toTPUART_Buffer # <<>>
  /\ toTPUART_Buffer' = Tail(toTPUART_Buffer)
  /\ pending' = None
  /\ line' = Append(line, Other)
  /\ UNCHANGED <<foreign, confirmed>>

Outgoing(k) == Pass(k) /\ (PassReset \/ UNCHANGED <<toTPUART_Buffer, tpuart>>)
OutgoingAll ==
  /\ Pass(Len(toUSB_Buffer))
  /\ PassReset \/ (toTPUART_Buffer = <<>> /\ UNCHANGED <<toTPUART_Buffer, tpuart>>)

Gateway ==
  \/ NoByte \/ TelegramPart \/ TelegramComplete \/ Confirmation \/ UnhandledByte
  \/ HostConfirms \/ NoMessage \/ HandleReset
  \/ \E m \in Request : HandleStatus(m) \/ HoldL_Data(m) \/ HandleL_Data(m) \/ HandleLong(m)
  \/ \E k \in 0 .. Len(toUSB_Buffer) : Outgoing(k)

Next == Host \/ Bus \/ Gateway

Spec == Init /\ [][Next]_vars

\* The main loop runs, the host reads its USB port and the UART drains, and
\* the TPUART puts on the bus what it was given or refuses it.
Fairness ==
  /\ WF_vars(Gateway)
  /\ SF_vars(OutgoingAll)
  /\ WF_vars(Transmit)

FairSpec == Spec /\ Fairness

------------------------------------------------------------------------------
(* Properties                                                              *)

GatewayType ==
  /\ pc \in {"read", "handle", "out"}
  /\ inFT12_Buffer \in Seq(Message)
  /\ inTPU_Buffer \in Seq(Pieces) /\ Len(inTPU_Buffer) <= 2
  /\ waitTPUconfirm \in BOOLEAN /\ waitTPUreceiving \in BOOLEAN
  /\ confirmdata \in Telegram \cup Foreign \cup {None, Garbage}
  /\ E5next \in Stage \cup {None}
  /\ toUSB_Buffer \in Seq(Answers)

OthersType ==
  /\ usb \in Seq(Message)
  /\ request \in Request \cup {Reset, None}
  /\ line \in Seq(Pieces)
  /\ pending \in Telegram \cup {None}
  /\ foreign \subseteq Foreign
  /\ confirmed \subseteq Telegram
  /\ disturbed \in BOOLEAN

TypeOK == GatewayType /\ OthersType

\* Neither a reset nor a lost byte has disturbed the gateway so far.
Undisturbed == ~disturbed

FromTPUART == inTPU_Buffer \o line
Confirms(p) == p.part \in {"0x8B", "0x0B"}

\* The confirmation still to come for a telegram of the host, if any.
Due == IF pending # None THEN {pending}
       ELSE {FromTPUART[i].of : i \in {j \in 1 .. Len(FromTPUART) : Confirms(FromTPUART[j])}}

\* The gateway waits for a confirmation exactly while one is due: no second
\* telegram goes to the TPUART before the first is settled, and a message
\* that is held behind a telegram is not held for ever.
OneOutstanding ==
  Undisturbed => waitTPUconfirm = (Due # {})

\* What the host reads as confirmed has been on the bus, although the
\* telegram in the confirmation is whatever was received last.
ConfirmedWasSent ==
  Undisturbed =>
    \A i \in 1 .. Len(toUSB_Buffer) :
      toUSB_Buffer[i].kind = "con" => toUSB_Buffer[i].arg \in confirmed

\* The host never hears its own telegram as one from the bus, however late
\* the echo comes.
EchoIsNotIndicated ==
  Undisturbed =>
    \A i \in 1 .. Len(toUSB_Buffer) :
      toUSB_Buffer[i].kind = "ind" => toUSB_Buffer[i].arg \in Foreign

\* Of the answers items, sent after the part g, the last part before the i-th
\* is a.
PartBefore(items, g, i, a) ==
  \/ g = a /\ NoPart(items, 1, i - 1)
  \/ \E j \in 1 .. i - 1 : items[j] = a /\ NoPart(items, j + 1, i - 1)

\* A second part follows its first part, at most once, and not after the
\* answer to another request - resets, repeats and losses notwithstanding.
SecondFollowsFirst ==
  \A i \in 1 .. Len(toUSB_Buffer) :
    toUSB_Buffer[i].kind = "second" =>
      PartBefore(toUSB_Buffer, got, i, Item("first", toUSB_Buffer[i].arg))

\* A request of the host is acknowledged in the end, also one that is repeated
\* or has to wait for the telegram before it, unless a reset or a loss comes
\* in between: a confirmation that is lost keeps the gateway waiting.
RequestAnswered == (request # None) ~> (request = None \/ disturbed)
==============================================================================
