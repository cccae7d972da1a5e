------------------------------- MODULE S0Meter -------------------------------
(***************************************************************************)
(* SD0/Firmware_common: s0.c, rtc.c and the commands of serial.c that read *)
(* the meter.                                                              *)
(*                                                                         *)
(* The pin-change interrupt counts the impulses of the S0 lines and keeps  *)
(* statistics of the interval since the last reading with reset.  The main *)
(* program reads a channel in a critical region, sets its count, and every *)
(* ten seconds saves all counts in the battery-backed RAM of the clock     *)
(* chip, byte by byte and outside of any critical region.  After a reset - *)
(* power, watchdog or the command X - the counts come from this RAM.       *)
(*                                                                         *)
(* An impulse lasts 30 ms and more, an interrupt is served within          *)
(* microseconds: a line does not change again before the interrupt for its *)
(* last change has been served, nor twice in a millisecond.                *)
(***************************************************************************)
EXTENDS Naturals

CONSTANTS
  Channel,      \* the S0 channels, not necessarily all four
  Base,         \* values of a byte: 256
  Bytes,        \* bytes of a count: 4
  NoMin,        \* the -1 of min, greater than every period
  SetTo,        \* the counts the host sets with the command S
  MaxTime,      \* bound: milliseconds between two resets
  MaxRestarts   \* bound: resets

\* The value of a one in byte b.
Weight[b \in 0 .. Bytes] == IF b = 0 THEN 1 ELSE Base * Weight[b - 1]

Byte == 0 .. Base - 1
Count == 0 .. Weight[Bytes] - 1

ASSUME ConstantAssumption ==
  /\ Channel # {}
  /\ Base \in Nat \ {0, 1}
  /\ Bytes \in Nat \ {0}
  /\ NoMin \in Nat /\ NoMin > MaxTime
  /\ SetTo \subseteq Count
  /\ MaxTime \in Nat
  /\ MaxRestarts \in Nat

VARIABLES
  level,       \* level[c]: the S0 line
  pcif,        \* a pin change is pending
  moved,       \* a line has changed in this millisecond
  now,         \* ms_now()
  port_bits,   \* port_bits[c]: the line when the interrupt last looked
  CH,          \* CH[c]: count and statistics
  iflag,       \* interrupts are enabled
  pc,          \* where the main program is
  arg,         \* the channel and the operation it works on
  data,        \* the reading being taken
  tosave,      \* channels still to be saved in this sweep
  ticks,       \* the bytes of the count loaded for rtc_write_ticks
  written,     \* how many of them are in the RAM
  rtc,         \* rtc[c]: the bytes in the RAM of the clock chip
  restarts,    \* resets so far
  falls,       \* history: falling edges of c since the reset
  lowAtStart,  \* history: the line was low at the reset
  reported,    \* history: impulses of c in the readings with reset
  quiet,       \* history: readings with reset since the last impulse, up to 2
  recent,      \* history: counts since the last complete save began
  current      \* history: counts since the save of c under way began

lines == <<level, moved, falls, lowAtStart>>
meter == <<port_bits, CH, quiet>>
saving == <<tosave, ticks, written, rtc>>
vars == <<lines, pcif, now, meter, iflag, pc, arg, data, saving, restarts, reported,
          recent, current>>

ByteOf(n, b) == (n \div Weight[b]) % Base
Value(bytes) ==
  LET sum[b \in 0 .. Bytes] == IF b = 0 THEN 0 ELSE sum[b - 1] + bytes[b - 1] * Weight[b - 1]
  IN  sum[Bytes]

Fresh(n) ==
  [count |-> n, pcount |-> 0, period |-> 0, min |-> NoMin, max |-> 0,
   avg_cnt |-> 0, avg_sum |-> 0, last |-> 0]

NoBytes == [b \in {} |-> 0]
NoArg == [ch |-> CHOOSE c \in Channel : TRUE, op |-> "read", ticks |-> 0]

Init ==
  /\ level = [c \in Channel |-> 1] /\ moved = FALSE
  /\ pcif = FALSE
  /\ now = 0
  /\ port_bits = [c \in Channel |-> 1]
  /\ CH = [c \in Channel |-> Fresh(0)]
  /\ iflag = TRUE
  /\ pc = "loop"
  /\ arg = NoArg
  /\ data = Fresh(0)
  /\ tosave = {} /\ ticks = NoBytes /\ written = 0
  /\ rtc = [c \in Channel |-> [b \in 0 .. Bytes - 1 |-> 0]]
  /\ restarts = 0
  /\ falls = [c \in Channel |-> 0] /\ lowAtStart = [c \in Channel |-> FALSE]
  /\ reported = [c \in Channel |-> 0] /\ quiet = [c \in Channel |-> 0]
  /\ recent = [c \in Channel |-> {0}] /\ current = [c \in Channel |-> {}]

\* CH[c].count becomes n.
History(c, n) ==
  /\ recent' = [recent EXCEPT ![c] = @ \cup {n}]
  /\ current' = [current EXCEPT ![c] = IF @ = {} THEN @ ELSE @ \cup {n}]

------------------------------------------------------------------------------
(* Lines and time (external), and the interrupts                           *)

\* The lines of the channels in S change at the same time; if there is none,
\* it is a line outside Channel that raises the interrupt.
PinChange(S) ==
  /\ ~pcif
  /\ ~moved
  /\ moved' = TRUE
  /\ pcif' = TRUE
  /\ level' = [c \in Channel |-> IF c \in S THEN 1 - level[c] ELSE level[c]]
  /\ falls' = [c \in Channel |-> IF c \in S /\ level[c] = 1 THEN falls[c] + 1 ELSE falls[c]]
  /\ UNCHANGED <<lowAtStart, now, meter, iflag, pc, arg, data, saving, restarts, reported,
                 recent, current>>

TimerInterrupt ==
  /\ iflag
  /\ now < MaxTime
  /\ now' = now + 1
  /\ moved' = FALSE
  /\ UNCHANGED <<level, falls, lowAtStart, pcif, meter, iflag, pc, arg, data, saving,
                 restarts, reported, recent, current>>

\* impuls_action
Counted(s) ==
  LET period == now - s.last
      counted == [s EXCEPT !.count = (@ + 1) % Weight[Bytes], !.pcount = @ + 1, !.last = now]
  IN  IF s.last = 0 THEN counted
      ELSE [counted EXCEPT !.period = period,
                           !.avg_cnt = @ + 1,
                           !.avg_sum = @ + period,
                           !.min = IF period <= @ THEN period ELSE @,
                           !.max = IF period >= @ THEN period ELSE @]

PinChangeInterrupt ==
  LET falling == {c \in Channel : port_bits[c] = 1 /\ level[c] = 0}
      counted(c) == IF c \in falling THEN {Counted(CH[c]).count} ELSE {}
  IN  /\ iflag
      /\ pcif
      /\ pcif' = FALSE
      /\ port_bits' = level
      /\ CH' = [c \in Channel |-> IF c \in falling THEN Counted(CH[c]) ELSE CH[c]]
      /\ quiet' = [c \in Channel |-> IF c \in falling THEN 0 ELSE quiet[c]]
      /\ recent' = [c \in Channel |-> recent[c] \cup counted(c)]
      /\ current' = [c \in Channel |-> IF current[c] = {} THEN {} ELSE current[c] \cup counted(c)]
      /\ UNCHANGED <<lines, now, iflag, pc, arg, data, saving, restarts, reported>>

------------------------------------------------------------------------------
(* s0_getChannelData and s0_setChannelTicks                                *)

\* Mistaken variant: interrupts stay enabled.
EnterUnprotected(a) ==
  /\ pc = "loop"
  /\ arg' = a
  /\ pc' = IF a.op = "set" THEN "set" ELSE "copy"
  /\ UNCHANGED <<lines, pcif, now, meter, iflag, data, saving, restarts, reported,
                 recent, current>>

\* cli
EnterCritical(a) ==
  /\ pc = "loop"
  /\ iflag' = FALSE
  /\ arg' = a
  /\ pc' = IF a.op = "set" THEN "set" ELSE "copy"
  /\ UNCHANGED <<lines, pcif, now, meter, data, saving, restarts, reported, recent, current>>

CopyCounts ==
  LET s == CH[arg.ch]
  IN  /\ pc = "copy"
      /\ data' = [data EXCEPT !.count = s.count, !.pcount = s.pcount, !.period = s.period]
      /\ pc' = "copy statistics"
      /\ UNCHANGED <<lines, pcif, now, meter, iflag, arg, saving, restarts, reported,
                     recent, current>>

CopyStatistics ==
  LET s == CH[arg.ch]
  IN  /\ pc = "copy statistics"
      /\ data' = [data EXCEPT !.min = s.min, !.max = s.max, !.avg_cnt = s.avg_cnt,
                              !.avg_sum = s.avg_sum, !.last = s.last]
      /\ pc' = IF arg.op = "reset" THEN "reset" ELSE "leave"
      /\ UNCHANGED <<lines, pcif, now, meter, iflag, arg, saving, restarts, reported,
                     recent, current>>

\* Mistaken variant: pcount is cleared before it is looked at.
ResetStatisticsFirst ==
  LET c == arg.ch
  IN  /\ pc = "reset"
      /\ CH' = [CH EXCEPT ![c] = [Fresh(@.count) EXCEPT
                  !.last = CH[c].last]]
      /\ reported' = [reported EXCEPT ![c] = @ + data.pcount]
      /\ quiet' = [quiet EXCEPT ![c] = IF @ < 2 THEN @ + 1 ELSE 2]
      /\ pc' = "leave"
      /\ UNCHANGED <<lines, pcif, now, port_bits, iflag, arg, data, saving, restarts,
                     recent, current>>

\* "Clear the last periode if during two Resets no ticks have been counted"
ResetStatistics ==
  LET c == arg.ch
  IN  /\ pc = "reset"
      /\ CH' = [CH EXCEPT ![c] = [Fresh(@.count) EXCEPT
                  !.period = IF CH[c].pcount = 0 THEN 0 ELSE CH[c].period,
                  !.last = CH[c].last]]
      /\ reported' = [reported EXCEPT ![c] = @ + data.pcount]
      /\ quiet' = [quiet EXCEPT ![c] = IF @ < 2 THEN @ + 1 ELSE 2]
      /\ pc' = "leave"
      /\ UNCHANGED <<lines, pcif, now, port_bits, iflag, arg, data, saving, restarts,
                     recent, current>>

SetTicks ==
  LET c == arg.ch
  IN  /\ pc = "set"
      /\ CH' = [CH EXCEPT ![c].count = arg.ticks]
      /\ History(c, arg.ticks)
      /\ pc' = "leave"
      /\ UNCHANGED <<lines, pcif, now, port_bits, quiet, iflag, arg, data, saving, restarts,
                     reported>>

\* sei; the reading is printed.
LeaveCritical ==
  /\ pc = "leave"
  /\ iflag' = TRUE
  /\ pc' = "loop"
  /\ arg' = NoArg
  /\ data' = Fresh(0)
  /\ UNCHANGED <<lines, pcif, now, meter, saving, restarts, reported,
                 recent, current>>

------------------------------------------------------------------------------
(* s0_periodic: every ten seconds, which is any time here                  *)

BeginSave ==
  /\ pc = "loop"
  /\ tosave' = Channel
  /\ pc' = "save"
  /\ UNCHANGED <<lines, pcif, now, meter, iflag, arg, data, ticks, written, rtc, restarts,
                 reported, recent, current>>

SaveChannel(c) ==
  /\ pc = "save"
  /\ c \in tosave
  /\ tosave' = tosave \ {c}
  /\ arg' = [arg EXCEPT !.ch = c]
  /\ current' = [current EXCEPT ![c] = {CH[c].count}]
  /\ pc' = "load"
  /\ UNCHANGED <<lines, pcif, now, meter, iflag, data, ticks, written, rtc, restarts, reported, recent>>

\* The four bytes of the argument are loaded one by one, in an order that is
\* up to the compiler; an impulse may come in between.
LoadByte(b) ==
  /\ pc = "load"
  /\ b \notin DOMAIN ticks
  /\ ticks' = [i \in DOMAIN ticks \cup {b} |->
                 IF i = b THEN ByteOf(CH[arg.ch].count, b) ELSE ticks[i]]
  /\ pc' = IF DOMAIN ticks' = 0 .. Bytes - 1 THEN "write" ELSE "load"
  /\ UNCHANGED <<lines, pcif, now, meter, iflag, arg, data, tosave, written, rtc, restarts,
                 reported, recent, current>>

\* Mistaken variant: the highest byte goes first.
WriteByteReversed ==
  LET c == arg.ch
  IN  /\ pc = "write"
      /\ rtc' = [rtc EXCEPT ![c][Bytes - 1 - written] = ticks[written]]
      /\ IF written + 1 = Bytes
         THEN /\ pc' = "save"
              /\ ticks' = NoBytes /\ written' = 0
              /\ recent' = [recent EXCEPT ![c] = current[c]]
              /\ current' = [current EXCEPT ![c] = {}]
         ELSE written' = written + 1 /\ UNCHANGED <<pc, ticks, recent, current>>
      /\ UNCHANGED <<lines, pcif, now, meter, iflag, arg, data, tosave, restarts, reported>>

\* rtc_write, lowest byte first; the last one completes the save.
WriteByte ==
  LET c == arg.ch
  IN  /\ pc = "write"
      /\ rtc' = [rtc EXCEPT ![c][written] = ticks[written]]
      /\ IF written + 1 = Bytes
         THEN /\ pc' = "save"
              /\ ticks' = NoBytes /\ written' = 0
              /\ recent' = [recent EXCEPT ![c] = current[c]]
              /\ current' = [current EXCEPT ![c] = {}]
         ELSE written' = written + 1 /\ UNCHANGED <<pc, ticks, recent, current>>
      /\ UNCHANGED <<lines, pcif, now, meter, iflag, arg, data, tosave, restarts, reported>>

EndSave ==
  /\ pc = "save"
  /\ tosave = {}
  /\ pc' = "loop"
  /\ arg' = NoArg
  /\ UNCHANGED <<lines, pcif, now, meter, iflag, data, saving, restarts, reported,
                 recent, current>>

------------------------------------------------------------------------------
(* A reset at any time, and s0_init                                        *)

Restart ==
  /\ restarts < MaxRestarts
  /\ restarts' = restarts + 1
  /\ pcif' = FALSE
  /\ now' = 0
  /\ port_bits' = [c \in Channel |-> 1]
  /\ CH' = [c \in Channel |-> Fresh(Value(rtc[c]))]
  /\ iflag' = TRUE
  /\ pc' = "loop"
  /\ arg' = NoArg
  /\ data' = Fresh(0)
  /\ tosave' = {} /\ ticks' = NoBytes /\ written' = 0
  /\ falls' = [c \in Channel |-> 0]
  /\ lowAtStart' = [c \in Channel |-> level[c] = 0]
  /\ reported' = [c \in Channel |-> 0]
  /\ quiet' = [c \in Channel |-> 0]
  /\ recent' = [c \in Channel |-> {Value(rtc[c])}]
  /\ current' = [c \in Channel |-> {}]
  /\ UNCHANGED <<level, moved, rtc>>

------------------------------------------------------------------------------

Operation ==
  [ch : Channel, op : {"read", "reset"}, ticks : {0}] \cup
  [ch : Channel, op : {"set"}, ticks : SetTo]

Main ==
  \/ \E a \in Operation : EnterCritical(a)
  \/ CopyCounts \/ CopyStatistics \/ ResetStatistics \/ SetTicks \/ LeaveCritical
  \/ BeginSave
  \/ \E c \in Channel : SaveChannel(c)
  \/ \E b \in 0 .. Bytes - 1 : LoadByte(b)
  \/ WriteByte \/ EndSave

Next ==
  \/ \E S \in SUBSET Channel : PinChange(S)
  \/ TimerInterrupt
  \/ PinChangeInterrupt
  \/ Main
  \/ Restart

Spec == Init /\ [][Next]_vars

------------------------------------------------------------------------------
(* Properties                                                              *)

Statistics == [count : Count, pcount : Nat, period : 0 .. MaxTime,
               min : 0 .. MaxTime \cup {NoMin}, max : 0 .. MaxTime,
               avg_cnt : Nat, avg_sum : Nat, last : 0 .. MaxTime]

TypeOK ==
  /\ level \in [Channel -> {0, 1}] /\ port_bits \in [Channel -> {0, 1}]
  /\ CH \in [Channel -> Statistics]
  /\ data \in Statistics
  /\ iflag = (pc \notin {"copy", "copy statistics", "reset", "set", "leave"})
  /\ rtc \in [Channel -> [0 .. Bytes - 1 -> Byte]]
  /\ tosave \subseteq Channel
  /\ DOMAIN ticks \subseteq 0 .. Bytes - 1
  /\ written \in 0 .. Bytes

\* The change of c has not been served yet.
Pending(c) == IF pcif /\ port_bits[c] = 1 /\ level[c] = 0 THEN 1 ELSE 0

\* Every impulse is in exactly one reading with reset, or still to be
\* reported, however readings and impulses interleave; an impulse under way
\* at a reset may be counted once more (port_bits starts with all ones).
EveryImpulseReported ==
  \A c \in Channel :
    LET n == reported[c] + CH[c].pcount + Pending(c)
    IN  n = falls[c] \/ (lowAtStart[c] /\ n = falls[c] + 1)

\* A reading is of one moment: average, least and greatest period fit.
ReadingIsConsistent ==
  pc \in {"reset", "leave"} =>
    /\ data.avg_cnt <= data.pcount
    /\ data.avg_cnt = 0 => data.avg_sum = 0
    /\ data.avg_cnt > 0 =>
         /\ data.min <= data.period /\ data.period <= data.max
         /\ data.min * data.avg_cnt <= data.avg_sum
         /\ data.avg_sum <= data.max * data.avg_cnt

\* The period is cleared by the second reading with reset in a row that saw
\* no impulse, and by nothing else: the meter reports that no power is used.
PeriodClearedByQuiet ==
  /\ [](\A c \in Channel : quiet[c] = 2 => CH[c].period = 0)
  /\ [][\A c \in Channel :
          CH[c].period # 0 /\ CH'[c].period = 0 =>
            quiet[c] = 1 \/ restarts' # restarts]_vars

\* What the meter would restart with, in the middle of a save too: byte by
\* byte it is from counts it had since the last complete save began, and it is
\* one of these counts unless an impulse in this time carried into the second
\* byte: then it may be a mixture of two.
RestoredIsRecent ==
  \A c \in Channel :
    /\ \A b \in 0 .. Bytes - 1 : \E n \in recent[c] : rtc[c][b] = ByteOf(n, b)
    /\ (\A m, n \in recent[c] : m \div Base = n \div Base) => Value(rtc[c]) \in recent[c]
==============================================================================
