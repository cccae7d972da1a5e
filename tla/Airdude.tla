------------------------------- MODULE Airdude -------------------------------
(***************************************************************************)
(* Programming over the air: CUL/Airdude/Airdude.c, the USB stick at the   *)
(* programmer, and Dudette/main.c, the bootloader of the boards.           *)
(*                                                                         *)
(* A board that starts says `B' once and waits a moment for a `b'; the     *)
(* stick answers the first `B' it hears, once, and moves to the data       *)
(* channel.  A board that takes the `b' - it need not be the one that was  *)
(* answered - follows and obeys the programmer, command by command, until  *)
(* it is reset.  Neither end checks that the other has come along, and     *)
(* only the user, with R, brings the stick back.                           *)
(*                                                                         *)
(* On the data channel everybody who has the same key hears everybody.     *)
(* The link is that of module SerialLink, here with several ends and with  *)
(* a packet and its acknowledgement as one step; a command is one packet,  *)
(* a page two.  Commands that only ask are left out, and so is memory      *)
(* other than the flash.                                                   *)
(***************************************************************************)
EXTENDS Naturals, Sequences, FiniteSets

CONSTANTS
  Board,         \* the boards
  Stick,         \* the Airdude stick
  Kinds,         \* how the boards may be built: kind[b] is "plain" without
                 \* RADIO_CRYPT; with it "crypt" has no server key, "signed"
                 \* the stick's, "foreign" another one
  None,          \* nothing
  Empty,         \* a page that is erased
  Mixed,         \* a page that is neither erased nor what was sent
  Pages,         \* number of pages
  SeqMod,        \* sequence numbers are uint8_t: 256
  MaxSessions,   \* bound: sessions of the programmer
  MaxLost,       \* bound: transmissions somebody does not hear
  MaxPowerCycles, \* bound: boards switched off and on
  MaxQuestions   \* bound: answers `?', which boards give each other without end

End == Board \cup {Stick}
Page == 0 .. Pages - 1

\* What is sent on the data channel, and the `b' the stick sends.
Sent == [cmd : {"T", "e", "A", "first", "second", "E", "cr", "zero", "?"},
         page : Page \cup {None}, of : 1 .. MaxSessions]
Answers == [to : Board, crypt : BOOLEAN]

ASSUME ConstantAssumption ==
  /\ Stick \notin Board
  /\ Board # {} /\ IsFiniteSet(Board)
  /\ None \notin Sent \cup Answers
  /\ Kinds \subseteq [Board -> {"plain", "crypt", "signed", "foreign"}]
  /\ Pages \in Nat \ {0}
  /\ SeqMod \in Nat \ {0, 1}
  /\ {Empty, Mixed} \cap Nat = {} /\ Empty # Mixed
  /\ MaxSessions \in Nat \ {0}

VARIABLES
  kind,       \* one of Kinds
  mode,       \* mode of the stick: 0 waits for a `B', 1 passes bytes on
  answer,     \* the `b' the stick is about to send, or None
  key,        \* key[n]: "plain", "aes" or "wrong", of each end on the data channel
  at,         \* at[b]: "boot", "wait", "blink", "app", "loop"
  device,     \* device[b]: the programmer has set the device
  address,    \* address[b]: the next page
  half,       \* half[b]: the first part of a page whose second is to come
  exit,       \* exit[b]: the watchdog is running
  flash,      \* flash[b][k]: the session page k comes from, Empty or Mixed
  tx, rx,     \* tx[n], rx[n]: sequence numbers sent and taken over last
  out,        \* out[n]: packets n has still to send
  session,    \* the number of the session
  step,       \* the command the programmer sends next
  waits,      \* it waits for the answer to a command
  confirmed,  \* pages confirmed to it in this session
  lost, cycles, questions,
  shared,     \* history: a session began with a board on its channel that was
              \* left from an earlier one, or two boards have one key
  brokenOff   \* history: boards switched off inside a session, and in no whole
              \* one since

stick == <<mode, answer>>
boards == <<at, device, address, half, exit, flash>>
link == <<tx, rx, out>>
programmer == <<session, step, waits, confirmed>>
vars == <<kind, stick, key, boards, link, programmer, lost, cycles, questions,
          shared, brokenOff>>

------------------------------------------------------------------------------
(* What the programmer sends                                               *)

Packet(c, k) == [cmd |-> c, page |-> k, of |-> session]

\* Device, erase, address, the pages, and the end of the session.
Command(i) ==
  IF i <= 3 THEN <<Packet(<<"T", "e", "A">>[i], None)>>
  ELSE IF i <= 3 + Pages THEN <<Packet("first", i - 4), Packet("second", i - 4)>>
  ELSE <<Packet("E", None)>>
Commands == 4 + Pages

Init ==
  /\ kind \in Kinds
  /\ mode = 0 /\ answer = None
  /\ key = [n \in End |-> "plain"]
  /\ at = [b \in Board |-> "boot"]
  /\ device = [b \in Board |-> FALSE]
  /\ address = [b \in Board |-> 0]
  /\ half = [b \in Board |-> None]
  /\ exit = [b \in Board |-> FALSE]
  /\ flash \in [Board -> {[k \in Page |-> Empty], [k \in Page |-> 0]}]
  /\ tx = [n \in End |-> 0] /\ rx = [n \in End |-> 0]
  /\ out = [n \in End |-> <<>>]
  /\ session = 1 /\ step = 1 /\ waits = FALSE /\ confirmed = {}
  /\ lost = 0 /\ cycles = 0 /\ questions = 0
  /\ shared = FALSE /\ brokenOff = {}

\* Some of those who could hear a transmission do.
Hear(heard, listeners) ==
  /\ heard \subseteq listeners
  /\ lost' = IF heard = listeners THEN lost ELSE lost + 1
  /\ lost' <= MaxLost

\* slink_init
LinkReset(ns) ==
  /\ tx' = [n \in End |-> IF n \in ns THEN 0 ELSE tx[n]]
  /\ rx' = [n \in End |-> IF n \in ns THEN 0 ELSE rx[n]]
  /\ out' = [n \in End |-> IF n \in ns THEN <<>> ELSE out[n]]

------------------------------------------------------------------------------
(* Pairing, on the common channel                                          *)

\* Without a programmer: into the program, or blink if the flash was empty.
Alone(b) == IF flash[b][0] = Empty THEN "blink" ELSE "app"

Waiting == {b \in Board : at[b] = "wait"}

\* b says `B'.  The stick is to answer; for a board that waits, any packet
\* but a `b' ends the wait.
SayB(b) ==
  /\ at[b] = "boot"
  /\ \E heard \in SUBSET (Waiting \cup {Stick}) :
       /\ Hear(heard \cup (IF mode = 1 \/ answer # None THEN {Stick} ELSE {}),
               Waiting \cup {Stick})
       /\ answer' = IF Stick \in heard /\ mode = 0 /\ answer = None
                    THEN [to |-> b, crypt |-> kind[b] # "plain"] ELSE answer
       /\ at' = [c \in Board |-> IF c = b THEN "wait"
                                 ELSE IF c \in heard THEN Alone(c) ELSE at[c]]
  /\ UNCHANGED <<kind, mode, key, device, address, half, exit, flash, link, programmer,
                 cycles, questions, shared, brokenOff>>

\* b gives up on a `b' that is not signed by its server.
Refuses(b) ==
  \/ kind[b] = "foreign"
  \/ kind[b] = "signed" /\ ~answer.crypt

\* The AES key comes encrypted for one board; another decrypts nonsense.
KeyTaken(b) ==
  IF kind[b] = "plain" \/ ~answer.crypt THEN "plain"
  ELSE IF answer.to = b THEN "aes" ELSE "wrong"

\* No two boards on the data channel have one key.
Apart ==
  \A b, c \in Board :
    at[b] = "loop" /\ at[c] = "loop" /\ key[b] = key[c] => b = c \/ key[b] = "wrong"

\* The stick says `b' and is in mode 1.  Every board that hears it and does
\* not refuse is in the session.
SayAnswer ==
  /\ answer # None
  /\ \E heard \in SUBSET Waiting :
       LET taken == {b \in heard : ~Refuses(b)}
       IN  /\ Hear(heard, Waiting)
           /\ at' = [b \in Board |-> IF b \in taken THEN "loop"
                                     ELSE IF b \in heard THEN Alone(b) ELSE at[b]]
           /\ key' = [n \in End |->
                        IF n = Stick THEN IF answer.crypt THEN "aes" ELSE "plain"
                        ELSE IF n \in taken THEN KeyTaken(n) ELSE key[n]]
           /\ LinkReset(taken \cup {Stick})
  /\ mode' = 1
  /\ answer' = None
  /\ shared' = (\/ shared
                \/ \E b \in Board : at[b] = "loop" /\ key[b] = key'[Stick]
                \/ ~Apart')
  /\ UNCHANGED <<kind, device, address, half, exit, flash, programmer, cycles,
                 questions, brokenOff>>

\* RESEND_AFTER polls without a packet.
TimeOut(b) ==
  /\ at[b] = "wait"
  /\ at' = [at EXCEPT ![b] = Alone(b)]
  /\ UNCHANGED <<kind, stick, key, device, address, half, exit, flash, link, programmer,
                 lost, cycles, questions, shared, brokenOff>>

------------------------------------------------------------------------------
(* The command loop of the bootloader, one packet                          *)

\* The part p completes the page whose first part is h.
Content(h, p) ==
  IF p.cmd = "second" /\ p.of = h.of /\ p.page = h.page THEN p.of ELSE Mixed

\* writeFlashPage does not erase.
Written(f, k, c) ==
  IF k \in Page THEN [f EXCEPT ![k] = IF @ = Empty THEN c ELSE Mixed] ELSE f

\* The flash of b after p.  Program text taken for commands may well erase.
Flashed(b, p, erases) ==
  IF half[b] # None
  THEN IF device[b] THEN Written(flash[b], address[b], Content(half[b], p)) ELSE flash[b]
  ELSE IF device[b] /\ (p.cmd = "e" \/ (p.cmd = "second" /\ erases))
  THEN [k \in Page |-> Empty]
  ELSE flash[b]

Replies(b, p) ==
  IF half[b] # None THEN <<IF device[b] THEN "cr" ELSE "zero">>
  ELSE IF p.cmd = "first" THEN <<>>
  ELSE IF p.cmd \in {"T", "e", "A", "E"} THEN <<"cr">>
  ELSE <<"?">>

\* A board in the middle of a page takes what comes for the rest of it.
Commanded(b, p, c) == half[b] = None /\ p.cmd = c

DeviceAfter(b, p) == device[b] \/ Commanded(b, p, "T")
ExitAfter(b, p) == exit[b] \/ Commanded(b, p, "E")
HalfAfter(b, p) == IF Commanded(b, p, "first") THEN p ELSE None
AddressAfter(b, p) ==
  IF half[b] # None THEN IF device[b] THEN address[b] + 1 ELSE address[b]
  ELSE IF p.cmd = "A" THEN 0 ELSE address[b]

\* The boards bs have taken p over.
Obey(bs, p, erases) ==
  /\ flash' = [b \in Board |-> IF b \in bs THEN Flashed(b, p, erases) ELSE flash[b]]
  /\ device' = [b \in Board |-> IF b \in bs THEN DeviceAfter(b, p) ELSE device[b]]
  /\ address' = [b \in Board |-> IF b \in bs THEN AddressAfter(b, p) ELSE address[b]]
  /\ half' = [b \in Board |-> IF b \in bs THEN HalfAfter(b, p) ELSE half[b]]
  /\ exit' = [b \in Board |-> IF b \in bs THEN ExitAfter(b, p) ELSE exit[b]]

------------------------------------------------------------------------------
(* The link, on the data channel                                           *)

Next1(s) == (s + 1) % SeqMod

\* Who is on the data channel and has the key of n.  To the others its packets
\* are noise, taken for out of sequence: the one in 256 that is not is left out.
Listeners(n) ==
  {m \in End \ {n} : /\ key[m] = key[n]
                     /\ IF m = Stick THEN mode = 1 ELSE at[m] = "loop"}

\* Mistaken variant of Takes: a packet that comes again is taken over again.
TakesAgain(m, s) == s \in {rx[m], Next1(rx[m])}

Takes(m, s) == s = Next1(rx[m])

\* A stick or board that is there for it.
Active(n) == IF n = Stick THEN mode = 1 ELSE at[n] = "loop"

\* n sends its packet, for the first time or again.  Whoever hears it takes
\* it over if it is the next and acknowledges it if it is no other.
Transmit(n) ==
  /\ Active(n)
  /\ out[n] # <<>>
  /\ \E heard \in SUBSET Listeners(n), acked, erases \in BOOLEAN :
       LET p == Head(out[n])
           s == Next1(tx[n])
           taken == {m \in heard : Takes(m, s)}
           answers == {m \in heard : s \in {rx[m], Next1(rx[m])}}
           reply(m) == IF m \in taken \cap Board
                       THEN [i \in 1 .. Len(Replies(m, p)) |-> Packet(Replies(m, p)[i], None)]
                       ELSE <<>>
       IN  /\ acked => answers # {}
           /\ lost' = lost + Cardinality(Listeners(n) \ heard)
                           + IF acked \/ answers = {} THEN 0 ELSE 1
           /\ lost' <= MaxLost
           /\ rx' = [m \in End |-> IF m \in taken THEN s ELSE rx[m]]
           /\ tx' = IF acked THEN [tx EXCEPT ![n] = s] ELSE tx
           /\ out' = [m \in End |-> IF m = n THEN IF acked THEN Tail(out[n]) ELSE out[n]
                                    ELSE out[m] \o reply(m)]
           /\ Obey(taken \cap Board, p, erases)
           /\ questions' = questions
                + Cardinality({m \in taken \cap Board : Replies(m, p) = <<"?">>})
           /\ questions' <= MaxQuestions
           /\ IF Stick \in taken /\ waits
              THEN /\ waits' = FALSE
                   /\ step' = IF p.cmd = "cr" THEN step + 1 ELSE Commands + 1
                   /\ confirmed' = IF p.cmd = "cr" /\ step \in 4 .. 3 + Pages
                                   THEN confirmed \cup {step - 4} ELSE confirmed
              ELSE UNCHANGED <<waits, step, confirmed>>
  /\ UNCHANGED <<kind, stick, key, at, session, cycles, shared, brokenOff>>

------------------------------------------------------------------------------
(* The programmer at the USB ports of the stick (external), and power      *)

\* One command at a time.  In mode 0 the stick throws it away.
ProgrammerSends ==
  /\ ~waits
  /\ step <= Commands
  /\ waits' = TRUE
  /\ out' = IF mode = 1 THEN [out EXCEPT ![Stick] = @ \o Command(step)] ELSE out
  /\ UNCHANGED <<kind, stick, key, boards, tx, rx, session, step, confirmed, lost,
                 cycles, questions, shared, brokenOff>>

\* R: the session is over, whether it was finished or not.
UserResets ==
  /\ session < MaxSessions
  /\ session' = session + 1
  /\ step' = 1 /\ waits' = FALSE /\ confirmed' = {}
  /\ mode' = 0 /\ answer' = None
  /\ LinkReset({Stick})
  /\ key' = [key EXCEPT ![Stick] = "plain"]
  /\ UNCHANGED <<kind, boards, lost, cycles, questions, shared, brokenOff>>

\* A board starts over: its RAM is gone, its flash is not.
Restart(b) ==
  /\ at' = [at EXCEPT ![b] = "boot"]
  /\ device' = [device EXCEPT ![b] = FALSE]
  /\ address' = [address EXCEPT ![b] = 0]
  /\ half' = [half EXCEPT ![b] = None]
  /\ exit' = [exit EXCEPT ![b] = FALSE]
  /\ key' = [key EXCEPT ![b] = "plain"]
  /\ LinkReset({b})
  /\ UNCHANGED <<kind, stick, flash, programmer, lost, questions, shared>>

PowerCycle(b) ==
  /\ cycles < MaxPowerCycles
  /\ cycles' = cycles + 1
  /\ Restart(b)
  /\ brokenOff' = IF at[b] = "loop" /\ ~exit[b] THEN brokenOff \cup {b} ELSE brokenOff

WatchdogReset(b) ==
  /\ exit[b]
  /\ Restart(b)
  /\ UNCHANGED cycles
  /\ brokenOff' = brokenOff \ {b}

Next ==
  \/ \E b \in Board : SayB(b) \/ TimeOut(b) \/ PowerCycle(b) \/ WatchdogReset(b)
  \/ SayAnswer
  \/ \E n \in End : Transmit(n)
  \/ ProgrammerSends \/ UserResets

Spec == Init /\ [][Next]_vars

------------------------------------------------------------------------------
(* Properties                                                              *)

\* Every variable has its type.
TypeOK ==
  /\ mode \in {0, 1}
  /\ key \in [End -> {"plain", "aes", "wrong"}]
  /\ at \in [Board -> {"boot", "wait", "blink", "app", "loop"}]
  /\ \A b \in Board, k \in Page : flash[b][k] \in {Empty, Mixed} \cup 0 .. MaxSessions
  /\ tx \in [End -> 0 .. SeqMod - 1] /\ rx \in [End -> 0 .. SeqMod - 1]

\* What the programmer has been told is written is written, on some board,
\* through lost packets and restarts - as long as no board was left on the
\* channel by an earlier session and no two came along.
ConfirmedIsWritten ==
  ~shared => \E b \in Board : \A k \in confirmed : flash[b][k] = session

\* A program that runs is of one session and in one piece from the start of
\* the flash, and it is whole unless its board was switched off inside a
\* session: such a board runs the beginning of a program over an erased
\* flash, for nothing but the first page tells it whether to start - but it
\* never runs a mixture of two programs.
RunsWhole ==
  ~shared => \A b \in Board :
    at[b] = "app" =>
      /\ flash[b][0] \notin {Empty, Mixed}
      /\ \E i \in 1 .. Pages :
           /\ \A k \in Page : flash[b][k] = IF k < i THEN flash[b][0] ELSE Empty
           /\ b \in brokenOff \/ i = Pages
==============================================================================
