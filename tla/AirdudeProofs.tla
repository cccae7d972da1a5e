----------------------------- MODULE AirdudeProofs ----------------------------
(***************************************************************************)
(* Proofs about Airdude for every set of boards, however they are built,   *)
(* every size of the flash and number of sessions, losses and restarts:    *)
(* pages that are confirmed are written, and a program that runs is of one *)
(* session.                                                                *)
(***************************************************************************)
EXTENDS Airdude, SequenceTheorems, TLAPS

Keys == {"plain", "aes", "wrong"}
Places == {"boot", "wait", "blink", "app", "loop"}
Contents == {Empty, Mixed} \cup 0 .. MaxSessions
Numbers == 0 .. SeqMod - 1

Types ==
  /\ kind \in [Board -> {"plain", "crypt", "signed", "foreign"}]
  /\ mode \in {0, 1}
  /\ answer \in Answers \cup {None}
  /\ key \in [End -> Keys]
  /\ at \in [Board -> Places]
  /\ device \in [Board -> BOOLEAN] /\ exit \in [Board -> BOOLEAN]
  /\ address \in [Board -> Nat]
  /\ half \in [Board -> Sent \cup {None}]
  /\ flash \in [Board -> [Page -> Contents]]
  /\ tx \in [End -> Numbers] /\ rx \in [End -> Numbers]
  /\ out \in [End -> Seq(Sent)]
  /\ session \in 1 .. MaxSessions
  /\ step \in 1 .. Commands + 1
  /\ waits \in BOOLEAN
  /\ confirmed \subseteq Page
  /\ shared \in BOOLEAN
  /\ brokenOff \subseteq Board

\* The stick passes commands on only after the pairing; the programmer waits
\* for the answer to a command it has sent, and counts a page as confirmed
\* when it has gone on to the next command.
SessionInv ==
  /\ answer # None => mode = 0
  /\ mode = 0 => step = 1 /\ confirmed = {} /\ out[Stick] = <<>>
  /\ waits => step <= Commands
  /\ \A k \in confirmed : k + 4 < step

\* A board that is not in the command loop has started over.
Fresh(b) ==
  /\ device[b] = FALSE /\ address[b] = 0 /\ half[b] = None /\ exit[b] = FALSE
  /\ out[b] = <<>>

StartedOver == \A b \in Board : at[b] # "loop" => Fresh(b)

Basics == Types /\ SessionInv /\ StartedOver

------------------------------------------------------------------------------
(* The link                                                                *)

LEMMA Constants ==
  /\ Stick \in End /\ Board \subseteq End /\ Stick \notin Board
  /\ Pages \in Nat \ {0} /\ SeqMod \in Nat \ {0, 1} /\ MaxSessions \in Nat \ {0}
  /\ 0 \in Page /\ \A k \in Page : k \in Nat /\ k < Pages
  /\ None \notin Sent /\ None \notin Answers
  /\ Empty # Mixed /\ \A n \in Nat : n # Empty /\ n # Mixed
  /\ Commands = 4 + Pages /\ Commands \in Nat
BY ConstantAssumption DEF End, Page, Commands

LEMMA NextNumber ==
  ASSUME NEW s \in Numbers
  PROVE  Next1(s) \in Numbers /\ Next1(s) # s
BY ConstantAssumption DEF Numbers, Next1

LEMMA PacketType ==
  ASSUME Types,
         NEW c \in {"T", "e", "A", "first", "second", "E", "cr", "zero", "?"},
         NEW k \in Page \cup {None}
  PROVE  /\ Packet(c, k) \in Sent /\ Packet(c, k) # None
         /\ Packet(c, k).cmd = c /\ Packet(c, k).page = k /\ Packet(c, k).of = session
BY Constants DEF Types, Packet, Sent

\* One packet for a command, two for a page.
LEMMA CommandIs ==
  ASSUME Types, NEW i \in 1 .. Commands
  PROVE  /\ i = 1 => Command(i) = <<Packet("T", None)>>
         /\ i = 2 => Command(i) = <<Packet("e", None)>>
         /\ i = 3 => Command(i) = <<Packet("A", None)>>
         /\ i \in 4 .. 3 + Pages =>
              /\ i - 4 \in Page
              /\ Command(i) = <<Packet("first", i - 4), Packet("second", i - 4)>>
         /\ i = Commands => Command(i) = <<Packet("E", None)>>
         /\ Command(i) \in Seq(Sent) /\ Command(i) # <<>>
<1>1. i \in Nat /\ Pages \in Nat \ {0} /\ Commands = 4 + Pages
  BY Constants
<1>2. i = 1 => Command(i) = <<Packet("T", None)>>
  BY <1>1 DEF Command
<1>3. i = 2 => Command(i) = <<Packet("e", None)>>
  BY <1>1 DEF Command
<1>4. i = 3 => Command(i) = <<Packet("A", None)>>
  BY <1>1 DEF Command
<1>5. i \in 4 .. 3 + Pages =>
              /\ i - 4 \in Page
              /\ Command(i) = <<Packet("first", i - 4), Packet("second", i - 4)>>
  BY <1>1 DEF Command, Page
<1>6. i = Commands => Command(i) = <<Packet("E", None)>>
  BY <1>1 DEF Command
<1>7. i \in {1, 2, 3} \/ i \in 4 .. 3 + Pages \/ i = Commands
  BY <1>1
<1>8. Command(i) \in Seq(Sent) /\ Command(i) # <<>>
  <2>1. \A x \in Sent : <<x>> \in Seq(Sent) /\ <<x>> # <<>>
    OBVIOUS
  <2>2. \A x, y \in Sent : <<x, y>> \in Seq(Sent) /\ <<x, y>> # <<>>
    OBVIOUS
  <2>3. CASE i \in 4 .. 3 + Pages
    <3>1. Packet("first", i - 4) \in Sent /\ Packet("second", i - 4) \in Sent
      BY <1>5, <2>3, PacketType
    <3> QED
      BY <1>5, <2>2, <2>3, <3>1
  <2>4. CASE i \in {1, 2, 3} \/ i = Commands
    <3>1. \A c \in {"T", "e", "A", "E"} : Packet(c, None) \in Sent
      BY PacketType
    <3> QED
      BY <1>2, <1>3, <1>4, <1>6, <2>1, <2>4, <3>1
  <2> QED
    BY <1>7, <2>3, <2>4
<1> QED
  BY <1>2, <1>3, <1>4, <1>5, <1>6, <1>8

\* What m answers to p.
Reply(m, p) == [i \in 1 .. Len(Replies(m, p)) |-> Packet(Replies(m, p)[i], None)]

LEMMA ReplyIs ==
  ASSUME Types, NEW m \in Board, NEW p \in Sent
  PROVE  /\ Replies(m, p) \in {<<>>, <<"cr">>, <<"zero">>, <<"?">>}
         /\ Replies(m, p) = <<>> => Reply(m, p) = <<>>
         /\ Replies(m, p) = <<"cr">> => Reply(m, p) = <<Packet("cr", None)>>
         /\ Reply(m, p) \in Seq(Sent)
<1>1. Replies(m, p) \in {<<>>, <<"cr">>, <<"zero">>, <<"?">>}
  BY DEF Replies
<1>2. ASSUME Replies(m, p) = <<>> PROVE Reply(m, p) = <<>>
  BY <1>2 DEF Reply
<1>3. ASSUME NEW c \in {"cr", "zero", "?"}, Replies(m, p) = <<c>>
      PROVE  Reply(m, p) = <<Packet(c, None)>>
  <2>1. Reply(m, p) = [i \in 1 .. 1 |-> Packet(<<c>>[i], None)]
    BY <1>3 DEF Reply
  <2>2. [i \in 1 .. 1 |-> Packet(<<c>>[i], None)] = [i \in 1 .. 1 |-> Packet(c, None)]
    OBVIOUS
  <2>3. \A x : [i \in 1 .. 1 |-> x] = <<x>>
    OBVIOUS
  <2> QED
    BY <2>1, <2>2, <2>3
<1>4. ASSUME NEW c \in {"cr", "zero", "?"}, Replies(m, p) = <<c>>
      PROVE  Reply(m, p) \in Seq(Sent)
  <2>1. Reply(m, p) = <<Packet(c, None)>>
    BY <1>3, <1>4
  <2>2. Packet(c, None) \in Sent
    BY PacketType
  <2> QED
    BY <2>1, <2>2
<1>5. Replies(m, p) = <<>> => Reply(m, p) \in Seq(Sent)
  BY <1>2
<1> QED
  BY <1>1, <1>2, <1>3, <1>4, <1>5

\* Transmit, in the hearing of some.
Taken(n, heard) == {m \in heard : Takes(m, Next1(tx[n]))}

Sends(n, heard, acked, erases) ==
  /\ acked => \E m \in heard : Next1(tx[n]) \in {rx[m], Next1(rx[m])}
  /\ rx' = [m \in End |-> IF m \in Taken(n, heard) THEN Next1(tx[n]) ELSE rx[m]]
  /\ tx' = IF acked THEN [tx EXCEPT ![n] = Next1(tx[n])] ELSE tx
  /\ out' = [m \in End |->
               IF m = n THEN IF acked THEN Tail(out[n]) ELSE out[n]
               ELSE IF m \in Taken(n, heard) \cap Board
                    THEN out[m] \o Reply(m, Head(out[n])) ELSE out[m] \o <<>>]
  /\ Obey(Taken(n, heard) \cap Board, Head(out[n]), erases)
  /\ IF Stick \in Taken(n, heard) /\ waits
     THEN /\ waits' = FALSE
          /\ step' = IF Head(out[n]).cmd = "cr" THEN step + 1 ELSE Commands + 1
          /\ confirmed' = IF Head(out[n]).cmd = "cr" /\ step \in 4 .. 3 + Pages
                          THEN confirmed \cup {step - 4} ELSE confirmed
     ELSE UNCHANGED <<waits, step, confirmed>>

LEMMA TransmitIs ==
  ASSUME NEW n \in End, Transmit(n)
  PROVE  /\ Active(n) /\ out[n] # <<>>
         /\ \E heard \in SUBSET Listeners(n), acked, erases \in BOOLEAN :
              Sends(n, heard, acked, erases)
         /\ UNCHANGED <<kind, stick, key, at, session, cycles, shared, brokenOff>>
<1>1. Active(n) /\ out[n] # <<>>
  BY DEF Transmit
<1>2. UNCHANGED <<kind, stick, key, at, session, cycles, shared, brokenOff>>
  BY DEF Transmit
<1>3. \E heard \in SUBSET Listeners(n), acked, erases \in BOOLEAN :
              Sends(n, heard, acked, erases)
  BY ZenonT(60) DEF Transmit, Sends, Taken, Reply
<1> QED
  BY <1>1, <1>2, <1>3

------------------------------------------------------------------------------
(* Types, and what holds of each end by itself                             *)

LEMMA FlashedType ==
  ASSUME Types, NEW b \in Board, NEW p \in Sent, NEW erases
  PROVE  Flashed(b, p, erases) \in [Page -> Contents]
<1>1. /\ half[b] \in Sent \cup {None} /\ flash[b] \in [Page -> Contents]
      /\ Empty \in Contents /\ Mixed \in Contents
  BY DEF Types, Contents
<1>2. \A h \in Sent : Content(h, p) \in Contents
  BY Constants DEF Content, Contents, Sent
<1>3. \A k, c \in Contents : Written(flash[b], address[b], c) \in [Page -> Contents]
  BY <1>1 DEF Written
<1>4. [k \in Page |-> Empty] \in [Page -> Contents]
  BY <1>1
<1> QED
  BY <1>1, <1>2, <1>3, <1>4 DEF Flashed

\* The boards bs take p over, the others do not.
LEMMA NotObeyed ==
  ASSUME NEW bs, NEW p, NEW erases, Obey(bs, p, erases), NEW b \in Board, b \notin bs, Types
  PROVE  /\ device'[b] = device[b] /\ exit'[b] = exit[b] /\ half'[b] = half[b]
         /\ address'[b] = address[b] /\ flash'[b] = flash[b]
BY DEF Obey

LEMMA Obeyed ==
  ASSUME NEW bs, NEW p, NEW erases, Obey(bs, p, erases), NEW b \in Board, b \in bs, Types
  PROVE  /\ flash'[b] = Flashed(b, p, erases)
         /\ half'[b] = IF half[b] = None /\ p.cmd = "first" THEN p ELSE None
         /\ address'[b] = IF half[b] = None
                          THEN IF p.cmd = "A" THEN 0 ELSE address[b]
                          ELSE IF device[b] THEN address[b] + 1 ELSE address[b]
<1>1. flash'[b] = Flashed(b, p, erases)
  BY DEF Obey
<1>2. half'[b] = IF half[b] = None /\ p.cmd = "first" THEN p ELSE None
  BY DEF Obey, HalfAfter, Commanded
<1>3. address'[b] = IF half[b] = None
                    THEN IF p.cmd = "A" THEN 0 ELSE address[b]
                    ELSE IF device[b] THEN address[b] + 1 ELSE address[b]
  BY DEF Obey, AddressAfter
<1> QED
  BY <1>1, <1>2, <1>3

LEMMA ObeyTypes ==
  ASSUME Types, NEW bs, NEW p \in Sent, NEW erases, Obey(bs, p, erases)
  PROVE  /\ device' \in [Board -> BOOLEAN] /\ exit' \in [Board -> BOOLEAN]
         /\ address' \in [Board -> Nat] /\ half' \in [Board -> Sent \cup {None}]
         /\ flash' \in [Board -> [Page -> Contents]]
<1>1. \A b \in Board :
        /\ half[b] \in Sent \cup {None} /\ flash[b] \in [Page -> Contents]
        /\ device[b] \in BOOLEAN /\ exit[b] \in BOOLEAN /\ address[b] \in Nat
  BY DEF Types
<1>2. \A b \in Board : Flashed(b, p, erases) \in [Page -> Contents]
  BY FlashedType
<1>3. flash' \in [Board -> [Page -> Contents]]
  BY <1>1, <1>2 DEF Obey
<1>4. half' \in [Board -> Sent \cup {None}]
  BY <1>1 DEF Obey, HalfAfter
<1>5. device' \in [Board -> BOOLEAN] /\ exit' \in [Board -> BOOLEAN]
  BY <1>1 DEF Obey, DeviceAfter, ExitAfter, Commanded
<1>6. address' \in [Board -> Nat]
  BY <1>1 DEF Obey, AddressAfter
<1> QED
  BY <1>3, <1>4, <1>5, <1>6

\* What n sends when it sends p, and what that does to the others' numbers.
LEMMA SendsTypes ==
  ASSUME Types, SessionInv, NEW n \in End, NEW heard, heard \subseteq Listeners(n),
         NEW acked, NEW erases, out[n] # <<>>, Sends(n, heard, acked, erases)
  PROVE  /\ Head(out[n]) \in Sent /\ Head(out[n]) = out[n][1] /\ Len(out[n]) \in Nat \ {0}
         /\ Tail(out[n]) \in Seq(Sent)
         /\ Next1(tx[n]) \in Numbers /\ Next1(tx[n]) # tx[n]
         /\ heard \subseteq End \ {n}
         /\ tx' \in [End -> Numbers] /\ rx' \in [End -> Numbers]
         /\ out' \in [End -> Seq(Sent)]
         /\ step' \in 1 .. Commands + 1 /\ waits' \in BOOLEAN /\ confirmed' \subseteq Page
<1>1. /\ tx \in [End -> Numbers] /\ rx \in [End -> Numbers] /\ out \in [End -> Seq(Sent)]
      /\ step \in 1 .. Commands + 1 /\ waits \in BOOLEAN /\ confirmed \subseteq Page
  BY DEF Types
<1>2. /\ Head(out[n]) \in Sent /\ Head(out[n]) = out[n][1] /\ Len(out[n]) \in Nat \ {0}
      /\ Tail(out[n]) \in Seq(Sent)
  BY <1>1
<1>3. Next1(tx[n]) \in Numbers /\ Next1(tx[n]) # tx[n]
  BY <1>1, NextNumber
<1>4. heard \subseteq End \ {n}
  BY DEF Listeners
<1>5. tx' \in [End -> Numbers] /\ rx' \in [End -> Numbers]
  BY <1>1, <1>3 DEF Sends
<1>6. out' \in [End -> Seq(Sent)]
  <2>1. \A m \in Board : Reply(m, Head(out[n])) \in Seq(Sent)
    BY <1>2, ReplyIs
  <2>2. \A u, v \in Seq(Sent) : u \o v \in Seq(Sent)
    BY ConcatProperties
  <2>3. <<>> \in Seq(Sent)
    OBVIOUS
  <2> QED
    BY <1>1, <1>2, <2>1, <2>2, <2>3 DEF Sends
<1>7. step' \in 1 .. Commands + 1 /\ waits' \in BOOLEAN /\ confirmed' \subseteq Page
  <2>1. waits => step <= Commands
    BY DEF SessionInv
  <2>2. step \in 4 .. 3 + Pages => step - 4 \in Page
    BY Constants DEF Page
  <2>3. Commands \in Nat
    BY Constants
  <2>4. CASE Stick \in Taken(n, heard) /\ waits
    <3>1. /\ waits' = FALSE
          /\ step' = step + 1 \/ step' = Commands + 1
          /\ \/ confirmed' = confirmed
             \/ step \in 4 .. 3 + Pages /\ confirmed' = confirmed \cup {step - 4}
      BY <2>4 DEF Sends
    <3>2. step' \in 1 .. Commands + 1
      BY <1>1, <2>1, <2>3, <2>4, <3>1
    <3> QED
      BY <1>1, <2>2, <3>1, <3>2
  <2>5. CASE ~(Stick \in Taken(n, heard) /\ waits)
    BY <1>1, <2>5 DEF Sends
  <2> QED
    BY <2>4, <2>5
<1> QED
  BY <1>2, <1>3, <1>4, <1>5, <1>6, <1>7

LEMMA TransmitBasics ==
  ASSUME Basics, NEW n \in End, Transmit(n)
  PROVE  Basics'
<1>0. Types /\ SessionInv /\ StartedOver
  BY DEF Basics
<1>1. PICK heard \in SUBSET Listeners(n), acked \in BOOLEAN, erases \in BOOLEAN :
        Sends(n, heard, acked, erases)
  BY TransmitIs, Zenon
<1>2. /\ Active(n) /\ out[n] # <<>>
      /\ UNCHANGED <<kind, stick, key, at, session, cycles, shared, brokenOff>>
  BY TransmitIs
<1>3. /\ Head(out[n]) \in Sent /\ Head(out[n]) = out[n][1] /\ Len(out[n]) \in Nat \ {0}
      /\ heard \subseteq End \ {n}
      /\ tx' \in [End -> Numbers] /\ rx' \in [End -> Numbers]
      /\ out' \in [End -> Seq(Sent)]
      /\ step' \in 1 .. Commands + 1 /\ waits' \in BOOLEAN /\ confirmed' \subseteq Page
  BY <1>0, <1>1, <1>2, SendsTypes
<1> DEFINE bs == Taken(n, heard) \cap Board
           p == Head(out[n])
<1>4. Obey(bs, p, erases) /\ bs \in SUBSET Board
  BY <1>1 DEF Sends
<1>5. Types'
  <2>1. /\ device' \in [Board -> BOOLEAN] /\ exit' \in [Board -> BOOLEAN]
        /\ address' \in [Board -> Nat] /\ half' \in [Board -> Sent \cup {None}]
        /\ flash' \in [Board -> [Page -> Contents]]
    BY <1>0, <1>3, <1>4, ObeyTypes, Zenon
  <2> QED
    BY <1>0, <1>2, <1>3, <2>1 DEF Types, stick
<1>6. SessionInv'
  <2>1. UNCHANGED <<mode, answer>>
    BY <1>2 DEF stick
  <2>2. mode = 0 => out'[Stick] = <<>> /\ Stick \notin Taken(n, heard)
    <3>1. mode = 0 => n # Stick /\ Stick \notin heard /\ out[Stick] = <<>>
      BY <1>0, <1>2 DEF SessionInv, Active, Listeners
    <3>2. Stick \notin Board /\ Stick \in End
      BY Constants
    <3>3. Stick # n /\ Stick \notin heard => out'[Stick] = out[Stick] \o <<>>
      BY <1>1, <3>2 DEF Sends, Taken
    <3>4. <<>> \o <<>> = <<>>
      OBVIOUS
    <3> QED
      BY <3>1, <3>3, <3>4 DEF Taken
  <2>3. CASE Stick \in Taken(n, heard) /\ waits
    <3>1. /\ waits' = FALSE /\ step \in Nat /\ step <= Commands /\ Commands \in Nat
          /\ step' = step + 1 \/ step' = Commands + 1
          /\ confirmed' \subseteq confirmed \cup {step - 4}
          /\ confirmed' \subseteq Page
      BY <1>0, <1>1, <1>3, <2>3, Constants DEF Sends, SessionInv, Types
    <3>2. \A k \in confirmed' : k \in Nat /\ (k = step - 4 \/ k + 4 < step)
      BY <1>0, <3>1, Constants DEF SessionInv
    <3>3. \A k \in confirmed' : k + 4 < step'
      BY <3>1, <3>2
    <3> QED
      BY <1>0, <2>1, <2>2, <2>3, <3>1, <3>3 DEF SessionInv
  <2>4. CASE ~(Stick \in Taken(n, heard) /\ waits)
    <3>1. UNCHANGED <<waits, step, confirmed>>
      BY <1>1, <2>4 DEF Sends
    <3> QED
      BY <1>0, <2>1, <2>2, <3>1 DEF SessionInv
  <2> QED
    BY <2>3, <2>4
<1>7. StartedOver'
  <2> SUFFICES ASSUME NEW b \in Board, at[b] # "loop"
               PROVE  Fresh(b)'
    BY <1>2 DEF StartedOver
  <2>1. b # n /\ b \notin heard /\ b \in End /\ b # Stick
    BY <1>2, Constants DEF Active, Listeners
  <2>2. b \notin bs
    BY <2>1 DEF Taken
  <2>3. out'[b] = out[b] \o <<>>
    BY <1>1, <2>1 DEF Sends, Taken
  <2>4. <<>> \o <<>> = <<>>
    OBVIOUS
  <2>5. /\ device'[b] = device[b] /\ exit'[b] = exit[b] /\ half'[b] = half[b]
        /\ address'[b] = address[b]
    BY <1>0, <1>4, <2>2, NotObeyed, Zenon
  <2> QED
    BY <1>0, <2>3, <2>4, <2>5 DEF StartedOver, Fresh
<1> QED
  BY <1>5, <1>6, <1>7 DEF Basics

\* What the other actions leave alone of the ends' own state.
LEMMA SayBBasics ==
  ASSUME Basics, NEW b \in Board, SayB(b)
  PROVE  Basics'
<1>0. Types /\ SessionInv /\ StartedOver
  BY DEF Basics
<1>1. /\ at[b] = "boot"
      /\ UNCHANGED <<kind, mode, key, device, address, half, exit, flash, link, programmer,
                 cycles, questions, shared, brokenOff>>
  BY DEF SayB
<1>2. PICK heard \in SUBSET (Waiting \cup {Stick}) :
       /\ answer' = IF Stick \in heard /\ mode = 0 /\ answer = None
                    THEN [to |-> b, crypt |-> kind[b] # "plain"] ELSE answer
       /\ at' = [c \in Board |-> IF c = b THEN "wait"
                                 ELSE IF c \in heard THEN Alone(c) ELSE at[c]]
  BY DEF SayB
<1>3. at' \in [Board -> Places]
  BY <1>0, <1>2 DEF Types, Alone, Places
<1>4. answer' \in Answers \cup {None} /\ (answer' # None => mode = 0)
  BY <1>0, <1>2 DEF Types, SessionInv, Answers
<1>5. \A c \in Board : at'[c] # "loop" => at[c] # "loop"
  BY <1>0, <1>1, <1>2, Constants DEF Types, Waiting
<1>6. Types'
  BY <1>0, <1>1, <1>3, <1>4 DEF Types, link, programmer
<1>7. SessionInv'
  BY <1>0, <1>1, <1>4 DEF SessionInv, link, programmer
<1>8. StartedOver'
  BY <1>0, <1>1, <1>5 DEF StartedOver, Fresh, link
<1> QED
  BY <1>6, <1>7, <1>8 DEF Basics

LEMMA SayAnswerBasics ==
  ASSUME Basics, SayAnswer
  PROVE  Basics'
<1>0. Types /\ SessionInv /\ StartedOver
  BY DEF Basics
<1>1. PICK heard \in SUBSET Waiting :
        /\ at' = [b \in Board |-> IF b \in {c \in heard : ~Refuses(c)} THEN "loop"
                                  ELSE IF b \in heard THEN Alone(b) ELSE at[b]]
        /\ key' = [n \in End |->
                     IF n = Stick THEN IF answer.crypt THEN "aes" ELSE "plain"
                     ELSE IF n \in {c \in heard : ~Refuses(c)} THEN KeyTaken(n) ELSE key[n]]
        /\ LinkReset({c \in heard : ~Refuses(c)} \cup {Stick})
  BY DEF SayAnswer
<1>2. /\ mode' = 1 /\ answer' = None
      /\ UNCHANGED <<kind, device, address, half, exit, flash, programmer, cycles,
                     questions, brokenOff>>
  BY DEF SayAnswer
<1>3. shared' \in BOOLEAN
  BY <1>0 DEF SayAnswer, Types, Apart
<1>4. at' \in [Board -> Places] /\ key' \in [End -> Keys]
  BY <1>0, <1>1 DEF Types, Alone, Places, Keys, KeyTaken
<1>5. /\ tx' \in [End -> Numbers] /\ rx' \in [End -> Numbers] /\ out' \in [End -> Seq(Sent)]
      /\ \A n \in End : out'[n] \in {<<>>, out[n]}
  BY <1>0, <1>1, Constants DEF Types, LinkReset, Numbers
<1>6. \A b \in Board : at'[b] # "loop" => at[b] # "loop"
  BY <1>1 DEF Waiting
<1>7. Types'
  BY <1>0, <1>2, <1>3, <1>4, <1>5 DEF Types, programmer
<1>8. SessionInv'
  BY <1>0, <1>2 DEF SessionInv, programmer
<1>9. StartedOver'
  BY <1>0, <1>2, <1>5, <1>6, Constants DEF StartedOver, Fresh
<1> QED
  BY <1>7, <1>8, <1>9 DEF Basics

LEMMA TimeOutBasics ==
  ASSUME Basics, NEW b \in Board, TimeOut(b)
  PROVE  Basics'
<1>0. Types /\ SessionInv /\ StartedOver
  BY DEF Basics
<1>1. /\ at[b] = "wait" /\ at' = [at EXCEPT ![b] = Alone(b)]
      /\ UNCHANGED <<kind, stick, key, device, address, half, exit, flash, link, programmer,
                     lost, cycles, questions, shared, brokenOff>>
  BY DEF TimeOut
<1>2. at' \in [Board -> Places] /\ \A c \in Board : at'[c] # "loop" => at[c] # "loop"
  BY <1>0, <1>1 DEF Types, Alone, Places
<1>3. Types'
  BY <1>0, <1>1, <1>2 DEF Types, stick, link, programmer
<1>4. SessionInv'
  BY <1>0, <1>1 DEF SessionInv, stick, link, programmer
<1>5. StartedOver'
  BY <1>0, <1>1, <1>2 DEF StartedOver, Fresh, link
<1> QED
  BY <1>3, <1>4, <1>5 DEF Basics

LEMMA ProgrammerSendsBasics ==
  ASSUME Basics, ProgrammerSends
  PROVE  Basics'
<1>0. Types /\ SessionInv /\ StartedOver
  BY DEF Basics
<1>1. /\ step <= Commands /\ waits' = TRUE
      /\ out' = IF mode = 1 THEN [out EXCEPT ![Stick] = @ \o Command(step)] ELSE out
      /\ UNCHANGED <<kind, stick, key, boards, tx, rx, session, step, confirmed, lost,
                     cycles, questions, shared, brokenOff>>
  BY DEF ProgrammerSends
<1>2. Command(step) \in Seq(Sent)
  BY <1>0, <1>1, Constants, CommandIs DEF Types
<1>3. /\ out' \in [End -> Seq(Sent)] /\ (mode = 0 => out' = out)
      /\ \A b \in Board : out'[b] = out[b]
  <2>1. \A u \in Seq(Sent) : u \o Command(step) \in Seq(Sent)
    BY <1>2, ConcatProperties
  <2> QED
    BY <1>0, <1>1, <2>1, Constants DEF Types
<1>4. Types'
  BY <1>0, <1>1, <1>3 DEF Types, stick, boards
<1>5. SessionInv'
  BY <1>0, <1>1, <1>3 DEF SessionInv, stick
<1>6. StartedOver'
  BY <1>0, <1>1, <1>3 DEF StartedOver, Fresh, boards
<1> QED
  BY <1>4, <1>5, <1>6 DEF Basics

LEMMA UserResetsBasics ==
  ASSUME Basics, UserResets
  PROVE  Basics'
<1>0. Types /\ SessionInv /\ StartedOver
  BY DEF Basics
<1>1. /\ session < MaxSessions /\ session' = session + 1
      /\ step' = 1 /\ waits' = FALSE /\ confirmed' = {}
      /\ mode' = 0 /\ answer' = None
      /\ LinkReset({Stick})
      /\ key' = [key EXCEPT ![Stick] = "plain"]
      /\ UNCHANGED <<kind, boards, lost, cycles, questions, shared, brokenOff>>
  BY DEF UserResets
<1>2. /\ tx' \in [End -> Numbers] /\ rx' \in [End -> Numbers] /\ out' \in [End -> Seq(Sent)]
      /\ out'[Stick] = <<>> /\ \A b \in Board : out'[b] = out[b]
  BY <1>0, <1>1, Constants DEF Types, LinkReset, Numbers
<1>3. session' \in 1 .. MaxSessions /\ step' \in 1 .. Commands + 1
  BY <1>0, <1>1, Constants DEF Types
<1>4. key' \in [End -> Keys]
  BY <1>0, <1>1 DEF Types, Keys
<1>5. Types'
  BY <1>0, <1>1, <1>2, <1>3, <1>4 DEF Types, boards
<1>6. SessionInv'
  BY <1>1, <1>2 DEF SessionInv
<1>7. StartedOver'
  BY <1>0, <1>1, <1>2 DEF StartedOver, Fresh, boards
<1> QED
  BY <1>5, <1>6, <1>7 DEF Basics

LEMMA RestartBasics ==
  ASSUME Basics, NEW b \in Board, Restart(b), brokenOff' \subseteq brokenOff \cup {b}
  PROVE  Basics'
<1>0. Types /\ SessionInv /\ StartedOver
  BY DEF Basics
<1>1. /\ at' = [at EXCEPT ![b] = "boot"] /\ device' = [device EXCEPT ![b] = FALSE]
      /\ address' = [address EXCEPT ![b] = 0] /\ half' = [half EXCEPT ![b] = None]
      /\ exit' = [exit EXCEPT ![b] = FALSE] /\ key' = [key EXCEPT ![b] = "plain"]
      /\ LinkReset({b})
      /\ UNCHANGED <<kind, stick, flash, programmer, lost, questions, shared>>
  BY DEF Restart
<1>2. /\ tx' \in [End -> Numbers] /\ rx' \in [End -> Numbers] /\ out' \in [End -> Seq(Sent)]
      /\ out'[b] = <<>> /\ \A n \in End \ {b} : out'[n] = out[n]
  BY <1>0, <1>1, Constants DEF Types, LinkReset, Numbers
<1>3. /\ at' \in [Board -> Places] /\ device' \in [Board -> BOOLEAN]
      /\ address' \in [Board -> Nat] /\ half' \in [Board -> Sent \cup {None}]
      /\ exit' \in [Board -> BOOLEAN] /\ key' \in [End -> Keys]
  BY <1>0, <1>1 DEF Types, Places, Keys
<1>4. brokenOff' \subseteq Board
  BY <1>0 DEF Types
<1>5. Types'
  BY <1>0, <1>1, <1>2, <1>3, <1>4 DEF Types, stick, programmer
<1>6. SessionInv'
  BY <1>0, <1>1, <1>2, Constants DEF SessionInv, stick, programmer
<1>7. StartedOver'
  <2> SUFFICES ASSUME NEW c \in Board, at'[c] # "loop" PROVE Fresh(c)'
    BY DEF StartedOver
  <2>1. CASE c = b
    BY <1>0, <1>1, <1>2, <2>1 DEF Fresh, Types
  <2>2. CASE c # b
    BY <1>0, <1>1, <1>2, <2>2, Constants DEF Fresh, Types, StartedOver
  <2> QED
    BY <2>1, <2>2
<1> QED
  BY <1>5, <1>6, <1>7 DEF Basics

LEMMA BasicsInit == Init => Basics
<1> SUFFICES ASSUME Init PROVE Basics
  OBVIOUS
<1>1. Types
  <2>1. kind \in [Board -> {"plain", "crypt", "signed", "foreign"}]
    BY ConstantAssumption DEF Init
  <2>2. flash \in [Board -> [Page -> Contents]]
    <3>1. [k \in Page |-> Empty] \in [Page -> Contents] /\ [k \in Page |-> 0] \in [Page -> Contents]
      BY Constants DEF Contents
    <3> QED
      BY <3>1 DEF Init
  <2>3. out \in [End -> Seq(Sent)]
    BY DEF Init
  <2>4. tx \in [End -> Numbers] /\ rx \in [End -> Numbers]
    BY Constants DEF Init, Numbers
  <2>5. session \in 1 .. MaxSessions /\ step \in 1 .. Commands + 1
    BY Constants DEF Init
  <2> QED
    BY <2>1, <2>2, <2>3, <2>4, <2>5 DEF Init, Types, Keys, Places
<1>2. SessionInv /\ StartedOver
  BY Constants DEF Init, SessionInv, StartedOver, Fresh
<1> QED
  BY <1>1, <1>2 DEF Basics

LEMMA BasicsStep == Basics /\ [Next]_vars => Basics'
<1> SUFFICES ASSUME Basics, [Next]_vars PROVE Basics'
  OBVIOUS
<1>1. ASSUME NEW b \in Board, SayB(b) PROVE Basics'
  BY <1>1, SayBBasics
<1>2. ASSUME NEW b \in Board, TimeOut(b) PROVE Basics'
  BY <1>2, TimeOutBasics
<1>3. ASSUME NEW b \in Board, PowerCycle(b) PROVE Basics'
  <2>1. Restart(b) /\ brokenOff' \subseteq brokenOff \cup {b}
    BY <1>3 DEF PowerCycle
  <2> QED
    BY <2>1, RestartBasics
<1>4. ASSUME NEW b \in Board, WatchdogReset(b) PROVE Basics'
  <2>1. Restart(b) /\ brokenOff' \subseteq brokenOff \cup {b}
    BY <1>4 DEF WatchdogReset
  <2> QED
    BY <2>1, RestartBasics
<1>5. CASE SayAnswer
  BY <1>5, SayAnswerBasics
<1>6. ASSUME NEW n \in End, Transmit(n) PROVE Basics'
  BY <1>6, TransmitBasics
<1>7. CASE ProgrammerSends
  BY <1>7, ProgrammerSendsBasics
<1>8. CASE UserResets
  BY <1>8, UserResetsBasics
<1>9. CASE UNCHANGED vars
  BY <1>9 DEF vars, stick, boards, link, programmer, Basics, Types, SessionInv,
              StartedOver, Fresh
<1> QED
  BY <1>1, <1>2, <1>3, <1>4, <1>5, <1>6, <1>7, <1>8, <1>9 DEF Next

\* The types, and numbers of the link that are numbers.
THEOREM TypeCorrect == Spec => []TypeOK
<1>1. Basics => TypeOK
  BY DEF Basics, Types, TypeOK, Keys, Places, Contents, Numbers
<1> QED
  BY <1>1, BasicsInit, BasicsStep, PTL DEF Spec

------------------------------------------------------------------------------
(* The invariant                                                           *)

\* The boards that hear what the stick sends, and are heard by it.
Partners == {b \in Board : mode = 1 /\ at[b] = "loop" /\ key[b] = key[Stick]}

\* The program in the flash f is all of one session; there is none.
Whole(f) == f[0] \notin {Empty, Mixed} /\ \A k \in Page : f[k] = f[0]
Erased(f) == \A k \in Page : f[k] = Empty

\* The first pages of a program, over an erased flash.
Begun(f) ==
  \E i \in 0 .. Pages, s \in 0 .. MaxSessions :
    f = [k \in Page |-> IF k < i THEN s ELSE Empty]

\* At any time there is the beginning of one program; outside the command
\* loop, and when it is about to be left for good, the flash is whole.
ProgramInv ==
  \A b \in Board :
    /\ Begun(flash[b])
    /\ at[b] # "loop" /\ b \notin brokenOff => Whole(flash[b]) \/ Erased(flash[b])
    /\ at[b] = "app" => flash[b][0] # Empty
    /\ exit[b] => half[b] = None /\ Whole(flash[b])

\* The packets of n that m has not taken over.
Pending(n, m) == IF rx[m] = tx[n] THEN out[n] ELSE Tail(out[n])

\* m has taken over what n has sent, or one packet more, which n sends again.
InStep(n, m) == rx[m] = tx[n] \/ (rx[m] = Next1(tx[n]) /\ out[n] # <<>>)

\* Board b has carried out the first i commands.
PagesDone(i) == IF i <= 3 THEN 0 ELSE IF i = Commands THEN Pages ELSE i - 3
Done(b, i) ==
  /\ device[b] <=> i >= 1
  /\ address[b] = PagesDone(i)
  /\ i >= 2 => flash[b] = [k \in Page |-> IF k < PagesDone(i) THEN session ELSE Empty]
  /\ exit[b] <=> i = Commands

\* The command of the programmer is still to come, or lost in mode 0; it is a
\* page of which b has one half; it is carried out and the answer on its way.
Ready(b) ==
  /\ half[b] = None /\ Pending(b, Stick) = <<>> /\ Done(b, step - 1)
  /\ Pending(Stick, b) = <<>> \/ (waits /\ Pending(Stick, b) = Command(step))
HalfPage(b) ==
  /\ waits /\ step \in 4 .. 3 + Pages
  /\ half[b] = Packet("first", step - 4)
  /\ Pending(Stick, b) = <<Packet("second", step - 4)>>
  /\ Pending(b, Stick) = <<>> /\ Done(b, step - 1)
Answering(b) ==
  /\ waits /\ half[b] = None /\ Done(b, step)
  /\ Pending(Stick, b) = <<>> /\ Pending(b, Stick) = <<Packet("cr", None)>>

Progress(b) ==
  /\ InStep(Stick, b) /\ InStep(b, Stick)
  /\ Ready(b) \/ HalfPage(b) \/ Answering(b)

\* What the programmer has been told is written is written on b.
Has(b) == \A k \in confirmed : flash[b][k] = session

\* The stick has one partner, which goes along with it; when the partner is
\* switched off, it keeps what it has.
Protocol ==
  /\ \A b, c \in Partners : b = c
  /\ \A b \in Partners : Progress(b)
  /\ Partners # {} \/ confirmed = {} \/ \E b \in Board : at[b] # "loop" /\ Has(b)

\* A board whose key is wrong hears nobody: nobody who has something to say
\* has its key.
Channel ==
  /\ Apart
  /\ key[Stick] # "wrong"
  /\ \A b \in Board : key[b] = "wrong" => out[b] = <<>>

IInv == ~shared => ProgramInv /\ Protocol /\ Channel

------------------------------------------------------------------------------
(* What the invariant says of a partner                                    *)

LEMMA DoneCommand ==
  ASSUME Types, NEW b \in Board, NEW i \in Nat, Done(b, i), i >= 2, NEW k \in Page,
         k < PagesDone(i)
  PROVE  flash[b][k] = session
BY DEF Done

LEMMA ProgressHas ==
  ASSUME Types, SessionInv, NEW b \in Board, Progress(b)
  PROVE  Has(b)
<1> SUFFICES ASSUME NEW k \in confirmed PROVE flash[b][k] = session
  BY DEF Has
<1>1. /\ k \in Page /\ k \in Nat /\ k < Pages /\ k + 4 < step
      /\ step \in Nat /\ Commands = 4 + Pages /\ Pages \in Nat
  BY Constants DEF Types, SessionInv
<1>2. CASE Done(b, step - 1)
  <2>1. step - 1 \in Nat /\ step - 1 >= 2 /\ k < PagesDone(step - 1)
    BY <1>1 DEF PagesDone
  <2> QED
    BY <1>1, <1>2, <2>1, DoneCommand
<1>3. CASE Done(b, step)
  <2>1. step >= 2 /\ k < PagesDone(step)
    BY <1>1 DEF PagesDone
  <2> QED
    BY <1>1, <1>3, <2>1, DoneCommand
<1> QED
  BY <1>2, <1>3 DEF Progress, Ready, HalfPage, Answering

LEMMA DoneWhole ==
  ASSUME Types, NEW b \in Board, Done(b, Commands)
  PROVE  Whole(flash[b])
<1>1. /\ Commands \in Nat /\ Commands >= 2 /\ PagesDone(Commands) = Pages
      /\ \A k \in Page : k < Pages
  BY Constants DEF PagesDone
<1>2. \A k \in Page : flash[b][k] = session
  BY <1>1, DoneCommand
<1> QED
  BY <1>2, Constants DEF Whole, Types

LEMMA ProgressWhole ==
  ASSUME Types, SessionInv, NEW b \in Board, Progress(b), exit[b]
  PROVE  half[b] = None /\ Whole(flash[b])
<1>1. /\ step \in Nat /\ Commands \in Nat /\ Commands = 4 + Pages /\ Pages \in Nat
      /\ waits => step <= Commands
  BY Constants DEF Types, SessionInv
<1>2. CASE Ready(b)
  <2>1. step - 1 = Commands
    BY <1>2 DEF Ready, Done
  <2> QED
    BY <1>2, <2>1, DoneWhole DEF Ready
<1>3. CASE HalfPage(b)
  <2>1. step - 1 = Commands
    BY <1>3 DEF HalfPage, Done
  <2> QED
    BY <1>1, <1>3, <2>1 DEF HalfPage
<1>4. CASE Answering(b)
  <2>1. step = Commands
    BY <1>4 DEF Answering, Done
  <2> QED
    BY <1>4, <2>1, DoneWhole DEF Answering
<1> QED
  BY <1>2, <1>3, <1>4 DEF Progress

\* Progress is about the ends n and Stick only.
LEMMA ProgressKept ==
  ASSUME NEW b \in Board, Progress(b),
         rx'[b] = rx[b], tx'[b] = tx[b], out'[b] = out[b],
         rx'[Stick] = rx[Stick], tx'[Stick] = tx[Stick], out'[Stick] = out[Stick],
         half'[b] = half[b], device'[b] = device[b], address'[b] = address[b],
         flash'[b] = flash[b], exit'[b] = exit[b],
         UNCHANGED <<session, step, waits>>
  PROVE  Progress(b)'
<1>1. /\ InStep(Stick, b)' = InStep(Stick, b) /\ InStep(b, Stick)' = InStep(b, Stick)
      /\ Pending(Stick, b)' = Pending(Stick, b) /\ Pending(b, Stick)' = Pending(b, Stick)
  BY DEF InStep, Pending, Next1
<1>2. \A i : Done(b, i)' = Done(b, i)
  BY DEF Done, PagesDone, Commands
<1>3. /\ Command(step)' = Command(step)
      /\ \A c, k : Packet(c, k)' = Packet(c, k)
  BY DEF Command, Packet
<1>4. Ready(b)' = Ready(b)
  BY <1>1, <1>2, <1>3 DEF Ready
<1>5. HalfPage(b)' = HalfPage(b)
  BY <1>1, <1>2, <1>3 DEF HalfPage
<1>6. Answering(b)' = Answering(b)
  BY <1>1, <1>2, <1>3 DEF Answering
<1> QED
  BY <1>1, <1>4, <1>5, <1>6 DEF Progress

------------------------------------------------------------------------------
(* Two ends and the packets between them                                   *)

LEMMA TailConcat ==
  ASSUME NEW u \in Seq(Sent), NEW v \in Seq(Sent)
  PROVE  /\ <<>> \o v = v /\ u \o <<>> = u
         /\ u # <<>> => u \o v # <<>> /\ Tail(u \o v) = Tail(u) \o v
<1>1. <<>> \o v = v /\ u \o <<>> = u
  BY ConcatEmptySeq
<1>2. ASSUME u # <<>> PROVE u \o v # <<>> /\ Tail(u \o v) = Tail(u) \o v
  <2>1. /\ Len(u) \in Nat \ {0} /\ Len(v) \in Nat
        /\ u \o v \in Seq(Sent) /\ Len(u \o v) = Len(u) + Len(v)
        /\ \A i \in 1 .. Len(u) + Len(v) :
             (u \o v)[i] = IF i <= Len(u) THEN u[i] ELSE v[i - Len(u)]
    BY <1>2, ConcatProperties
  <2>2. u \o v # <<>>
    BY <2>1
  <2>3. /\ Tail(u \o v) \in Seq(Sent) /\ Len(Tail(u \o v)) = Len(u) + Len(v) - 1
        /\ \A i \in 1 .. Len(u) + Len(v) - 1 : Tail(u \o v)[i] = (u \o v)[i + 1]
    BY <2>1, <2>2, HeadTailProperties
  <2>4. /\ Tail(u) \in Seq(Sent) /\ Len(Tail(u)) = Len(u) - 1
        /\ \A i \in 1 .. Len(u) - 1 : Tail(u)[i] = u[i + 1]
    BY <1>2, HeadTailProperties
  <2>5. /\ Tail(u) \o v \in Seq(Sent) /\ Len(Tail(u) \o v) = Len(u) - 1 + Len(v)
        /\ \A i \in 1 .. Len(u) - 1 + Len(v) :
             (Tail(u) \o v)[i] = IF i <= Len(u) - 1 THEN Tail(u)[i] ELSE v[i - (Len(u) - 1)]
    BY <2>1, <2>4, ConcatProperties
  <2>6. \A i \in 1 .. Len(u) + Len(v) - 1 : Tail(u \o v)[i] = (Tail(u) \o v)[i]
    <3> SUFFICES ASSUME NEW i \in 1 .. Len(u) + Len(v) - 1
                 PROVE  Tail(u \o v)[i] = (Tail(u) \o v)[i]
      OBVIOUS
    <3>1. Tail(u \o v)[i] = IF i + 1 <= Len(u) THEN u[i + 1] ELSE v[i + 1 - Len(u)]
      BY <2>1, <2>3
    <3>2. (Tail(u) \o v)[i] = IF i <= Len(u) - 1 THEN u[i + 1] ELSE v[i - (Len(u) - 1)]
      BY <2>1, <2>4, <2>5
    <3>3. (i + 1 <= Len(u) <=> i <= Len(u) - 1) /\ i + 1 - Len(u) = i - (Len(u) - 1)
      BY <2>1
    <3> QED
      BY <3>1, <3>2, <3>3
  <2>7. Len(Tail(u \o v)) = Len(Tail(u) \o v)
    BY <2>1, <2>3, <2>5
  <2> QED
    BY <2>1, <2>2, <2>3, <2>5, <2>6, <2>7, SeqEqual
<1> QED
  BY <1>1, <1>2

\* Where nobody but m hears n: nothing new, or the next packet for m.
LEMMA SenderSide ==
  ASSUME Types, SessionInv, NEW n \in End, NEW m \in End, m # n, InStep(n, m),
         NEW heard, heard \subseteq Listeners(n), heard \subseteq {m},
         NEW acked, NEW erases, out[n] # <<>>, Sends(n, heard, acked, erases)
  PROVE  /\ InStep(n, m)'
         /\ Taken(n, heard) = {} => Pending(n, m)' = Pending(n, m)
         /\ Taken(n, heard) # {} =>
              /\ Taken(n, heard) = {m} /\ Pending(n, m) = out[n]
              /\ Pending(n, m)' = Tail(Pending(n, m))
<1>1. /\ Next1(tx[n]) # tx[n] /\ Next1(tx[n]) \in Numbers
      /\ tx[n] \in Numbers /\ rx[m] \in Numbers /\ tx \in [End -> Numbers]
  BY SendsTypes DEF Types
<1>2. rx[m] # Next1(rx[m])
  BY <1>1, NextNumber
<1>3. /\ rx'[m] = IF m \in Taken(n, heard) THEN Next1(tx[n]) ELSE rx[m]
      /\ tx'[n] = IF acked THEN Next1(tx[n]) ELSE tx[n]
      /\ out'[n] = IF acked THEN Tail(out[n]) ELSE out[n]
  BY <1>1 DEF Sends
<1>4. acked => heard = {m} /\ Next1(tx[n]) \in {rx[m], Next1(rx[m])}
  BY DEF Sends
<1>5. m \in Taken(n, heard) <=> heard = {m} /\ Next1(tx[n]) = Next1(rx[m])
  BY DEF Taken, Takes
<1>6. Taken(n, heard) # {} <=> Taken(n, heard) = {m}
  BY DEF Taken
<1>7. CASE rx[m] = tx[n]
  <2>1. CASE Taken(n, heard) = {m}
    BY <1>1, <1>3, <1>6, <1>7, <2>1 DEF InStep, Pending, Next1
  <2>2. CASE Taken(n, heard) = {}
    <3>1. ~acked
      BY <1>1, <1>4, <1>5, <1>7, <2>2
    <3> QED
      BY <1>3, <1>7, <2>2, <3>1 DEF InStep, Pending
  <2> QED
    BY <1>6, <2>1, <2>2
<1>8. CASE rx[m] = Next1(tx[n])
  <2>1. m \notin Taken(n, heard) /\ Taken(n, heard) = {}
    BY <1>2, <1>5, <1>6, <1>8
  <2> QED
    BY <1>1, <1>3, <1>8, <2>1 DEF InStep, Pending, Next1
<1> QED
  BY <1>7, <1>8 DEF InStep

\* What m has for n, meanwhile, only grows by an answer.
LEMMA OtherSide ==
  ASSUME Types, SessionInv, NEW n \in End, NEW m \in End, m # n, InStep(m, n),
         NEW heard, heard \subseteq Listeners(n),
         NEW acked, NEW erases, out[n] # <<>>, Sends(n, heard, acked, erases)
  PROVE  /\ InStep(m, n)'
         /\ m \notin Taken(n, heard) \cap Board => Pending(m, n)' = Pending(m, n)
         /\ m \in Taken(n, heard) \cap Board =>
              Pending(m, n)' = Pending(m, n) \o Reply(m, Head(out[n]))
<1>1. /\ rx'[n] = rx[n] /\ tx'[m] = tx[m]
      /\ out[m] \in Seq(Sent) /\ Head(out[n]) \in Sent
  <2>1. n \notin Taken(n, heard)
    BY SendsTypes DEF Taken
  <2> QED
    BY <2>1, SendsTypes DEF Sends, Types
<1>2. CASE m \notin Taken(n, heard) \cap Board
  <2>1. out'[m] = out[m] \o <<>>
    BY <1>2 DEF Sends
  <2>2. out'[m] = out[m]
    BY <1>1, <2>1, TailConcat
  <2> QED
    BY <1>1, <1>2, <2>2 DEF InStep, Pending, Next1
<1>3. CASE m \in Taken(n, heard) \cap Board
  <2> DEFINE u == Reply(m, Head(out[n]))
  <2>1. out'[m] = out[m] \o u
    BY <1>3 DEF Sends
  <2>2. u \in Seq(Sent)
    BY <1>1, <1>3, ReplyIs
  <2> HIDE DEF u
  <2>3. out[m] # <<>> => out'[m] # <<>> /\ Tail(out'[m]) = Tail(out[m]) \o u
    <3>1. \A q, c \in Seq(Sent) :
            q # <<>> => q \o c # <<>> /\ Tail(q \o c) = Tail(q) \o c
      BY TailConcat
    <3>2. out[m] # <<>> => /\ out[m] \o u # <<>>
                           /\ Tail(out[m] \o u) = Tail(out[m]) \o u
      BY <1>1, <2>2, <3>1, Zenon
    <3> QED
      BY <2>1, <3>2, Zenon
  <2>4. InStep(m, n)'
    BY <1>1, <2>3 DEF InStep, Next1
  <2>5. Pending(m, n)' = Pending(m, n) \o u
    BY <1>1, <2>1, <2>3 DEF InStep, Pending
  <2> QED
    BY <1>3, <2>4, <2>5 DEF u
<1> QED
  BY <1>2, <1>3

------------------------------------------------------------------------------
(* A command is carried out                                                *)

\* What has been done is a matter of the board alone.
LEMMA DoneKept ==
  ASSUME NEW b \in Board, NEW i, Done(b, i), device'[b] <=> device[b],
         address'[b] = address[b], flash'[b] = flash[b], exit'[b] <=> exit[b],
         session' = session
  PROVE  Done(b, i)'
BY DEF Done, PagesDone, Commands

\* A board does p.
Obeys(b, p, erases) ==
  /\ flash'[b] = Flashed(b, p, erases)
  /\ device'[b] <=> device[b] \/ (half[b] = None /\ p.cmd = "T")
  /\ exit'[b] <=> exit[b] \/ (half[b] = None /\ p.cmd = "E")
  /\ half'[b] = IF half[b] = None /\ p.cmd = "first" THEN p ELSE None
  /\ address'[b] = IF half[b] = None
                   THEN IF p.cmd = "A" THEN 0 ELSE address[b]
                   ELSE IF device[b] THEN address[b] + 1 ELSE address[b]

LEMMA ObeyedObeys ==
  ASSUME NEW bs, NEW p, NEW erases, Obey(bs, p, erases), NEW b \in Board, b \in bs, Types
  PROVE  Obeys(b, p, erases)
<1>1. device'[b] <=> device[b] \/ (half[b] = None /\ p.cmd = "T")
  BY DEF Obey, DeviceAfter, Commanded
<1>2. exit'[b] <=> exit[b] \/ (half[b] = None /\ p.cmd = "E")
  BY DEF Obey, ExitAfter, Commanded
<1> QED
  BY <1>1, <1>2, Obeyed DEF Obeys

LEMMA DoneNumbers ==
  /\ PagesDone(0) = 0 /\ PagesDone(1) = 0 /\ PagesDone(2) = 0 /\ PagesDone(3) = 0
  /\ \A i \in 4 .. 3 + Pages : PagesDone(i) = i - 3 /\ PagesDone(i - 1) = i - 4
  /\ PagesDone(Commands) = Pages /\ PagesDone(Commands - 1) = Pages
  /\ Commands = 4 + Pages /\ Pages \in Nat \ {0} /\ Commands \in Nat
  /\ \A i : PagesDone(i)' = PagesDone(i)
<1>1. Commands = 4 + Pages /\ Pages \in Nat \ {0} /\ Commands \in Nat
  BY Constants
<1>2. \A i : PagesDone(i)' = PagesDone(i)
  BY DEF PagesDone, Commands
<1>3. \A i \in 4 .. 3 + Pages : PagesDone(i) = i - 3 /\ PagesDone(i - 1) = i - 4
  BY <1>1 DEF PagesDone
<1> QED
  BY <1>1, <1>2, <1>3 DEF PagesDone

\* The flash with the first i pages of this session.
Upto(i) == [k \in Page |-> IF k < i THEN session ELSE Empty]

LEMMA DoneIs ==
  ASSUME NEW b \in Board, NEW i \in Nat
  PROVE  /\ Done(b, i) <=>
              /\ (device[b] <=> i >= 1) /\ address[b] = PagesDone(i)
              /\ i >= 2 => flash[b] = Upto(PagesDone(i))
              /\ (exit[b] <=> i = Commands)
         /\ session' = session =>
              (Done(b, i)' <=>
                 /\ (device'[b] <=> i >= 1) /\ address'[b] = PagesDone(i)
                 /\ i >= 2 => flash'[b] = Upto(PagesDone(i))
                 /\ (exit'[b] <=> i = Commands))
BY DEF Done, Upto, PagesDone, Commands

\* T, e and A.
LEMMA TakesT ==
  ASSUME Types, NEW b \in Board, NEW p \in Sent, NEW erases, Obeys(b, p, erases),
         half[b] = None, p.cmd = "T", Done(b, 0), session' = session
  PROVE  Done(b, 1)' /\ half'[b] = None /\ Replies(b, p) = <<"cr">>
<1>1. device'[b] /\ address'[b] = address[b] /\ (exit'[b] <=> exit[b]) /\ half'[b] = None
  BY DEF Obeys
<1>2. address[b] = 0 /\ ~exit[b]
  BY DoneNumbers, DoneIs DEF Done
<1>3. Replies(b, p) = <<"cr">>
  BY DEF Replies
<1>4. Done(b, 1)'
  BY <1>1, <1>2, DoneIs, DoneNumbers
<1> QED
  BY <1>1, <1>3, <1>4

LEMMA TakesErase ==
  ASSUME Types, NEW b \in Board, NEW p \in Sent, NEW erases, Obeys(b, p, erases),
         half[b] = None, p.cmd = "e", Done(b, 1), session' = session
  PROVE  Done(b, 2)' /\ half'[b] = None /\ Replies(b, p) = <<"cr">>
<1>1. device[b] /\ address[b] = 0 /\ ~exit[b]
  BY DoneNumbers DEF Done
<1>2. /\ device'[b] /\ address'[b] = 0 /\ ~exit'[b] /\ half'[b] = None
  BY <1>1 DEF Obeys
<1>3. flash'[b] = [k \in Page |-> Empty]
  BY <1>1 DEF Obeys, Flashed
<1>4. [k \in Page |-> Empty] = Upto(0)
  BY Constants DEF Upto
<1>5. Replies(b, p) = <<"cr">>
  BY DEF Replies
<1>6. Done(b, 2)'
  BY <1>2, <1>3, <1>4, DoneIs, DoneNumbers
<1> QED
  BY <1>2, <1>5, <1>6

LEMMA TakesAddress ==
  ASSUME Types, NEW b \in Board, NEW p \in Sent, NEW erases, Obeys(b, p, erases),
         half[b] = None, p.cmd = "A", Done(b, 2), session' = session
  PROVE  Done(b, 3)' /\ half'[b] = None /\ Replies(b, p) = <<"cr">>
<1>1. device[b] /\ ~exit[b] /\ flash[b] = Upto(0)
  BY DoneNumbers, DoneIs DEF Done
<1>2. /\ device'[b] /\ address'[b] = 0 /\ ~exit'[b] /\ half'[b] = None
      /\ flash'[b] = flash[b]
  BY <1>1 DEF Obeys, Flashed
<1>3. Replies(b, p) = <<"cr">>
  BY DEF Replies
<1>4. Done(b, 3)'
  BY <1>1, <1>2, DoneIs, DoneNumbers
<1> QED
  BY <1>2, <1>3, <1>4

\* The two parts of a page.
LEMMA TakesFirst ==
  ASSUME Types, NEW b \in Board, NEW p \in Sent, NEW erases, Obeys(b, p, erases),
         half[b] = None, p.cmd = "first", NEW i \in Nat, Done(b, i), session' = session
  PROVE  Done(b, i)' /\ half'[b] = p /\ Replies(b, p) = <<>>
<1>1. /\ (device'[b] <=> device[b]) /\ address'[b] = address[b] /\ (exit'[b] <=> exit[b])
      /\ half'[b] = p /\ flash'[b] = flash[b]
  BY DEF Obeys, Flashed
<1>2. Replies(b, p) = <<>>
  BY DEF Replies
<1> QED
  BY <1>1, <1>2, DoneKept

LEMMA TakesSecond ==
  ASSUME Types, NEW b \in Board, NEW erases, NEW i \in 4 .. 3 + Pages,
         Obeys(b, Packet("second", i - 4), erases),
         half[b] = Packet("first", i - 4), Done(b, i - 1), session' = session
  PROVE  /\ Done(b, i)' /\ half'[b] = None
         /\ Replies(b, Packet("second", i - 4)) = <<"cr">>
<1> DEFINE h == Packet("first", i - 4)
           p == Packet("second", i - 4)
<1>1. /\ i - 4 \in Page /\ i \in Nat /\ i - 1 \in Nat /\ i - 1 # Commands /\ i # Commands
      /\ i - 1 >= 2 /\ i >= 2 /\ i - 1 >= 1 /\ i >= 1
      /\ PagesDone(i) = i - 3 /\ PagesDone(i - 1) = i - 4 /\ (i - 4) + 1 = i - 3
  BY DoneNumbers DEF Page
<1>2. h # None /\ Content(h, p) = session
  <2>1. h # None /\ h.of = session /\ h.page = i - 4
    BY <1>1, PacketType
  <2>2. p.of = session /\ p.page = i - 4 /\ p.cmd = "second"
    BY <1>1, PacketType
  <2> QED
    BY <2>1, <2>2 DEF Content
<1>3. device[b] /\ ~exit[b] /\ address[b] = i - 4 /\ flash[b] = Upto(i - 4)
  BY <1>1, DoneIs DEF Done
<1> HIDE DEF h, p
<1>4. half[b] = h /\ Obeys(b, p, erases)
  BY DEF h, p
<1>5. /\ device'[b] /\ ~exit'[b] /\ half'[b] = None /\ address'[b] = (i - 4) + 1
  BY <1>2, <1>3, <1>4 DEF Obeys
<1>6. flash'[b] = Written(Upto(i - 4), i - 4, session)
  BY <1>2, <1>3, <1>4 DEF Obeys, Flashed
<1>7. Written(Upto(i - 4), i - 4, session) = Upto(i - 3)
  <2>1. Upto(i - 4)[i - 4] = Empty
    BY <1>1 DEF Upto
  <2>2. Written(Upto(i - 4), i - 4, session) = [Upto(i - 4) EXCEPT ![i - 4] = session]
    BY <1>1, <2>1 DEF Written
  <2>3. \A k \in Page : k < i - 3 <=> k < i - 4 \/ k = i - 4
    BY <1>1, Constants
  <2> QED
    BY <1>1, <2>2, <2>3 DEF Upto
<1>8. Replies(b, p) = <<"cr">>
  BY <1>2, <1>3, <1>4 DEF Replies
<1>9. Done(b, i)'
  BY <1>1, <1>5, <1>6, <1>7, DoneIs
<1> QED
  BY <1>5, <1>8, <1>9 DEF p

\* The end.
LEMMA TakesEnd ==
  ASSUME Types, NEW b \in Board, NEW p \in Sent, NEW erases, Obeys(b, p, erases),
         half[b] = None, p.cmd = "E", Done(b, Commands - 1), session' = session
  PROVE  Done(b, Commands)' /\ half'[b] = None /\ Replies(b, p) = <<"cr">>
<1>1. Commands - 1 \in Nat /\ Commands - 1 >= 2 /\ Commands - 1 # Commands /\ Commands \in Nat
  BY DoneNumbers
<1>2. device[b] /\ address[b] = Pages /\ flash[b] = Upto(Pages)
  BY <1>1, DoneNumbers, DoneIs DEF Done
<1>3. /\ device'[b] /\ address'[b] = Pages /\ exit'[b] /\ half'[b] = None
      /\ flash'[b] = flash[b]
  BY <1>2 DEF Obeys, Flashed
<1>4. Replies(b, p) = <<"cr">>
  BY DEF Replies
<1>5. Done(b, Commands)'
  BY <1>1, <1>2, <1>3, DoneIs, DoneNumbers DEF Commands
<1> QED
  BY <1>3, <1>4, <1>5

\* One packet from the stick to its partner, and perhaps its answer.
LEMMA CommandTaken ==
  ASSUME Types, SessionInv, NEW b \in Board, Progress(b), NEW p \in Sent, NEW erases,
         Pending(Stick, b) # <<>>, p = Head(Pending(Stick, b)), Obeys(b, p, erases),
         InStep(Stick, b)', InStep(b, Stick)',
         Pending(Stick, b)' = Tail(Pending(Stick, b)),
         Pending(b, Stick)' = Pending(b, Stick) \o Reply(b, p),
         UNCHANGED <<session, step, waits>>
  PROVE  Progress(b)'
<1>1. /\ waits /\ waits' /\ step' = step /\ session' = session
      /\ Pending(b, Stick) = <<>> /\ Done(b, step - 1)
      /\ step \in 1 .. Commands /\ step \in Nat
  BY Constants DEF Progress, Ready, HalfPage, Answering, Types, SessionInv
<1>2. \A x, y : Head(<<x>>) = x /\ Tail(<<x>>) = <<>> /\ Head(<<x, y>>) = x /\ Tail(<<x, y>>) = <<y>>
  OBVIOUS
<1>3. <<>> \o <<>> = <<>> /\ \A x \in Sent : <<>> \o <<x>> = <<x>>
  OBVIOUS
<1>4. /\ Command(step)' = Command(step) /\ \A c, k : Packet(c, k)' = Packet(c, k)
  BY <1>1 DEF Command, Packet
<1>5. Packet("cr", None) \in Sent
  BY PacketType
<1>6. ASSUME Done(b, step)', half'[b] = None, Replies(b, p) = <<"cr">>,
             Tail(Pending(Stick, b)) = <<>>
      PROVE  Progress(b)'
  <2>1. Pending(b, Stick)' = <<Packet("cr", None)>>
    BY <1>1, <1>3, <1>5, <1>6, ReplyIs
  <2>2. Answering(b)'
    BY <1>1, <1>4, <1>6, <2>1 DEF Answering
  <2> QED
    BY <2>2 DEF Progress
<1>7. CASE HalfPage(b)
  <2>1. /\ step \in 4 .. 3 + Pages /\ half[b] = Packet("first", step - 4)
        /\ p = Packet("second", step - 4) /\ Tail(Pending(Stick, b)) = <<>>
    BY <1>2, <1>7 DEF HalfPage
  <2> QED
    BY <1>1, <1>6, <2>1, TakesSecond
<1>8. CASE Ready(b)
  <2>1. half[b] = None /\ Pending(Stick, b) = Command(step)
    BY <1>8 DEF Ready
  <2>2. CASE step = 1
    <3>1. p = Packet("T", None) /\ p.cmd = "T" /\ Tail(Pending(Stick, b)) = <<>> /\ Done(b, 0)
      BY <1>1, <1>2, <2>1, <2>2, CommandIs, PacketType
    <3> QED
      BY <1>1, <1>6, <2>1, <2>2, <3>1, TakesT
  <2>3. CASE step = 2
    <3>1. p = Packet("e", None) /\ p.cmd = "e" /\ Tail(Pending(Stick, b)) = <<>> /\ Done(b, 1)
      BY <1>1, <1>2, <2>1, <2>3, CommandIs, PacketType
    <3> QED
      BY <1>1, <1>6, <2>1, <2>3, <3>1, TakesErase
  <2>4. CASE step = 3
    <3>1. p = Packet("A", None) /\ p.cmd = "A" /\ Tail(Pending(Stick, b)) = <<>> /\ Done(b, 2)
      BY <1>1, <1>2, <2>1, <2>4, CommandIs, PacketType
    <3> QED
      BY <1>1, <1>6, <2>1, <2>4, <3>1, TakesAddress
  <2>5. CASE step = Commands
    <3>1. p = Packet("E", None) /\ p.cmd = "E" /\ Tail(Pending(Stick, b)) = <<>>
      BY <1>1, <1>2, <2>1, <2>5, CommandIs, PacketType
    <3> QED
      BY <1>1, <1>6, <2>1, <2>5, <3>1, TakesEnd
  <2>6. CASE step \in 4 .. 3 + Pages
    <3>0. /\ step - 4 \in Page
          /\ Pending(Stick, b) = <<Packet("first", step - 4), Packet("second", step - 4)>>
      BY <1>1, <2>1, <2>6, CommandIs
    <3>1. /\ p = Packet("first", step - 4) /\ p.cmd = "first"
          /\ Tail(Pending(Stick, b)) = <<Packet("second", step - 4)>>
      BY <1>2, <3>0, PacketType
    <3>2. step - 1 \in Nat
      BY <1>1
    <3>3. Done(b, step - 1)' /\ half'[b] = p /\ Replies(b, p) = <<>>
      BY <1>1, <2>1, <3>1, <3>2, TakesFirst
    <3>4. Pending(b, Stick)' = <<>>
      BY <1>1, <1>3, <3>3, ReplyIs
    <3>5. HalfPage(b)'
      BY <1>1, <1>4, <2>6, <3>1, <3>3, <3>4 DEF HalfPage
    <3> QED
      BY <3>5 DEF Progress
  <2> QED
    BY <1>1, <2>2, <2>3, <2>4, <2>5, <2>6, DoneNumbers
<1> QED
  BY <1>7, <1>8 DEF Progress, Answering

\* The answer reaches the programmer.
LEMMA AnswerTaken ==
  ASSUME Types, SessionInv, NEW b \in Board, Progress(b), NEW p \in Sent,
         Pending(b, Stick) # <<>>, p = Head(Pending(b, Stick)),
         InStep(Stick, b)', InStep(b, Stick)',
         Pending(b, Stick)' = Tail(Pending(b, Stick)),
         Pending(Stick, b)' = Pending(Stick, b),
         waits' = FALSE, step' = IF p.cmd = "cr" THEN step + 1 ELSE Commands + 1,
         half'[b] = half[b], device'[b] <=> device[b], address'[b] = address[b],
         flash'[b] = flash[b], exit'[b] <=> exit[b], session' = session
  PROVE  Progress(b)'
<1>1. /\ Answering(b) /\ step \in Nat
      /\ Pending(b, Stick) = <<Packet("cr", None)>> /\ Pending(Stick, b) = <<>>
      /\ half[b] = None /\ Done(b, step)
  BY Constants DEF Progress, Ready, HalfPage, Answering, Types
<1>2. p.cmd = "cr" /\ Tail(Pending(b, Stick)) = <<>>
  <2>1. \A x : Head(<<x>>) = x /\ Tail(<<x>>) = <<>>
    OBVIOUS
  <2> QED
    BY <1>1, <2>1, PacketType
<1>3. step' - 1 = step
  BY <1>1, <1>2
<1>4. \A i : i = step' - 1 => Done(b, i)'
  BY <1>1, <1>3, DoneKept
<1>5. Ready(b)'
  BY <1>1, <1>2, <1>4 DEF Ready
<1> QED
  BY <1>5 DEF Progress

\* Nothing was taken over.
LEMMA PendingKept ==
  ASSUME NEW b \in Board, Progress(b), InStep(Stick, b)', InStep(b, Stick)',
         Pending(Stick, b)' = Pending(Stick, b), Pending(b, Stick)' = Pending(b, Stick),
         half'[b] = half[b], device'[b] = device[b], address'[b] = address[b],
         flash'[b] = flash[b], exit'[b] = exit[b],
         UNCHANGED <<session, step, waits>>
  PROVE  Progress(b)'
<1>2. \A i : Done(b, i)' = Done(b, i)
  BY DEF Done, PagesDone, Commands
<1>3. /\ Command(step)' = Command(step)
      /\ \A c, k : Packet(c, k)' = Packet(c, k)
  BY DEF Command, Packet
<1>4. Ready(b)' = Ready(b)
  BY <1>2, <1>3 DEF Ready
<1>5. HalfPage(b)' = HalfPage(b)
  BY <1>2, <1>3 DEF HalfPage
<1>6. Answering(b)' = Answering(b)
  BY <1>2, <1>3 DEF Answering
<1> QED
  BY <1>4, <1>5, <1>6 DEF Progress

------------------------------------------------------------------------------
(* One step                                                                *)

\* Who hears whom, as long as the stick has one partner.
LEMMA HearEachOther ==
  ASSUME Types, SessionInv, \A b, c \in Partners : b = c, NEW n \in End, Active(n)
  PROVE  /\ n = Stick => Listeners(n) = Partners /\ mode = 1
         /\ n \in Partners => Listeners(n) \subseteq {Stick}
         /\ n \in Board \ Partners => Stick \notin Listeners(n) /\ Listeners(n) \cap Partners = {}
         /\ n = Stick \/ n \in Board
<1>1. n = Stick \/ n \in Board
  BY DEF End
<1>2. n = Stick => Listeners(n) = Partners /\ mode = 1
  BY Constants DEF Listeners, Partners, Active, End
<1>3. n \in Board => at[n] = "loop"
  BY Constants DEF Active
<1>4. n \in Partners => Listeners(n) \subseteq {Stick}
  <2> SUFFICES ASSUME n \in Partners, NEW m \in Listeners(n), m # Stick PROVE FALSE
    OBVIOUS
  <2>1. m \in Board /\ m # n /\ at[m] = "loop" /\ key[m] = key[n]
    BY DEF Listeners, End
  <2>2. m \in Partners
    BY <2>1 DEF Partners
  <2> QED
    BY <2>1, <2>2
<1>5. n \in Board \ Partners => Stick \notin Listeners(n)
  BY <1>3 DEF Listeners, Partners
<1>6. n \in Board \ Partners => Listeners(n) \cap Partners = {}
  BY <1>3 DEF Listeners, Partners
<1> QED
  BY <1>1, <1>2, <1>4, <1>5, <1>6

\* The boards' own packets reach the stick only.
LEMMA BoardsHearNone ==
  ASSUME Types, Channel, NEW n \in Board, Active(n), out[n] # <<>>
  PROVE  Listeners(n) \cap Board = {}
<1>1. at[n] = "loop" /\ key[n] # "wrong"
  BY Constants DEF Active, Channel
<1> QED
  BY <1>1, Constants DEF Listeners, Channel, Apart

LEMMA EmptyBegun == Begun([k \in Page |-> Empty])
<1>1. 0 \in 0 .. Pages /\ 0 \in 0 .. MaxSessions
  BY Constants
<1>2. \A k \in Page : ~(k < 0)
  BY DEF Page
<1>3. [k \in Page |-> Empty] = [k \in Page |-> IF k < 0 THEN 0 ELSE Empty]
  BY <1>2
<1> QED
  BY <1>1, <1>3 DEF Begun

\* What the stick sends its partner goes on with a program or erases all.
LEMMA BegunNext ==
  ASSUME Types, SessionInv, NEW b \in Board, Progress(b), NEW p \in Sent, NEW erases,
         Pending(Stick, b) # <<>>, p = Head(Pending(Stick, b)), Obeys(b, p, erases),
         Begun(flash[b]), session' = session
  PROVE  Begun(flash'[b])
<1>1. CASE half[b] = None
  <2>1. flash'[b] = flash[b] \/ flash'[b] = [k \in Page |-> Empty]
    BY <1>1 DEF Obeys, Flashed
  <2> QED
    BY <2>1, EmptyBegun
<1>2. CASE half[b] # None
  <2>1. HalfPage(b)
    BY <1>2 DEF Progress, Ready, Answering
  <2>2. p = Packet("second", step - 4)
    <3>1. \A x : Head(<<x>>) = x
      OBVIOUS
    <3> QED
      BY <2>1, <3>1 DEF HalfPage
  <2>3. PICK i \in 4 .. 3 + Pages : i = step
    BY <2>1 DEF HalfPage
  <2>4. /\ half[b] = Packet("first", i - 4) /\ Done(b, i - 1)
        /\ Obeys(b, Packet("second", i - 4), erases)
    BY <2>1, <2>2, <2>3 DEF HalfPage
  <2>5. Done(b, i)'
    BY <2>4, TakesSecond
  <2>6. i \in Nat /\ i >= 2 /\ PagesDone(i) = i - 3 /\ i - 3 \in 0 .. Pages
    BY DoneNumbers
  <2>7. flash'[b] = Upto(i - 3)
    BY <2>5, <2>6, DoneIs
  <2>8. session \in 0 .. MaxSessions
    BY Constants DEF Types
  <2> QED
    BY <2>6, <2>7, <2>8 DEF Begun, Upto
<1> QED
  BY <1>1, <1>2

\* The same of every board, in the next state.
LEMMA ProgressWholeAlways ==
  \A b \in Board : Types /\ SessionInv /\ Progress(b) /\ exit[b] =>
                     half[b] = None /\ Whole(flash[b])
BY ProgressWhole

LEMMA WholeNext ==
  (\A b \in Board : Types /\ SessionInv /\ Progress(b) /\ exit[b] =>
                      half[b] = None /\ Whole(flash[b]))'
BY ProgressWholeAlways, PTL

LEMMA TransmitInvariant ==
  ASSUME Basics, Basics', ProgramInv, Protocol, Channel, NEW n \in End, Transmit(n)
  PROVE  ProgramInv' /\ Protocol'
<1>0. /\ Types /\ SessionInv /\ StartedOver /\ Types' /\ SessionInv'
      /\ \A b, c \in Partners : b = c
      /\ \A b \in Partners : Progress(b)
  BY DEF Basics, Protocol
<1>1. PICK heard \in SUBSET Listeners(n), acked \in BOOLEAN, erases \in BOOLEAN :
        Sends(n, heard, acked, erases)
  BY TransmitIs, Zenon
<1>2. /\ Active(n) /\ out[n] # <<>>
      /\ UNCHANGED <<kind, mode, answer, key, at, session, shared, brokenOff>>
  BY TransmitIs DEF stick
<1> DEFINE taken == Taken(n, heard)
           p == Head(out[n])
<1>3. /\ heard \subseteq Listeners(n) /\ taken \subseteq heard
      /\ Obey(taken \cap Board, p, erases)
      /\ p \in Sent /\ p = out[n][1] /\ Len(out[n]) \in Nat \ {0}
      /\ heard \subseteq End \ {n}
  <2>1. /\ p \in Sent /\ p = out[n][1] /\ Len(out[n]) \in Nat \ {0}
        /\ heard \subseteq End \ {n}
    BY <1>0, <1>1, <1>2, SendsTypes
  <2>2. Obey(taken \cap Board, p, erases) /\ taken \subseteq heard
    BY <1>1 DEF Sends, Taken
  <2> QED
    BY <2>1, <2>2
<1>4. Partners' = Partners
  BY <1>2 DEF Partners
<1>5. /\ n = Stick => Listeners(n) = Partners /\ mode = 1
      /\ n \in Partners => Listeners(n) \subseteq {Stick}
      /\ n \in Board \ Partners => Stick \notin Listeners(n) /\ Listeners(n) \cap Partners = {}
      /\ n = Stick \/ n \in Board
  BY <1>0, <1>2, HearEachOther
<1>6. \A m \in End : m \notin taken \cap Board /\ m # n => out'[m] = out[m]
  <2> SUFFICES ASSUME NEW m \in End, m \notin taken \cap Board, m # n PROVE out'[m] = out[m]
    OBVIOUS
  <2>1. out'[m] = out[m] \o <<>> /\ out[m] \in Seq(Sent)
    BY <1>0, <1>1 DEF Sends, Types
  <2> QED
    BY <2>1, TailConcat
<1>7. \A m \in End : m \notin taken => rx'[m] = rx[m]
  BY <1>1 DEF Sends
<1>8. \A m \in End : m # n => tx'[m] = tx[m]
  BY <1>0, <1>1 DEF Sends, Types
<1>9. \A b \in Board : b \notin taken =>
        /\ device'[b] = device[b] /\ exit'[b] = exit[b] /\ half'[b] = half[b]
        /\ address'[b] = address[b] /\ flash'[b] = flash[b]
  BY <1>0, <1>3, NotObeyed
<1>10. \A b \in Board : b \in taken => Obeys(b, p, erases)
  BY <1>0, <1>3, ObeyedObeys
<1>11. Stick \notin taken => UNCHANGED <<waits, step, confirmed>>
  BY <1>1 DEF Sends
<1>12. Stick \in End /\ Board \subseteq End /\ Stick \notin Board
  BY Constants
<1>13. \A b \in Partners : Progress(b)'
  <2> SUFFICES ASSUME NEW b \in Partners PROVE Progress(b)'
    OBVIOUS
  <2>1. b \in Board /\ b \in End /\ b # Stick /\ Progress(b) /\ Partners = {b}
    BY <1>0, <1>12 DEF Partners
  <2>2. InStep(Stick, b) /\ InStep(b, Stick)
    BY <2>1 DEF Progress
  <2>3. CASE n \in Board \ Partners
    <3>1. Stick \notin taken /\ b \notin taken /\ n # Stick /\ n # b
      BY <1>3, <1>5, <1>12, <2>3
    <3>2. /\ rx'[b] = rx[b] /\ tx'[b] = tx[b] /\ out'[b] = out[b]
          /\ rx'[Stick] = rx[Stick] /\ tx'[Stick] = tx[Stick] /\ out'[Stick] = out[Stick]
      BY <1>6, <1>7, <1>8, <1>12, <2>1, <3>1
    <3>3. /\ half'[b] = half[b] /\ device'[b] = device[b] /\ address'[b] = address[b]
          /\ flash'[b] = flash[b] /\ exit'[b] = exit[b]
      BY <1>9, <2>1, <3>1
    <3>4. UNCHANGED <<session, step, waits>>
      BY <1>2, <1>11, <3>1
    <3> QED
      BY <2>1, <3>2, <3>3, <3>4, ProgressKept
  <2>4. CASE n = Stick
    <3>1. heard \subseteq {b} /\ Stick \notin taken
      BY <1>3, <1>5, <2>1, <2>4
    <3>2. /\ InStep(Stick, b)'
          /\ taken = {} => Pending(Stick, b)' = Pending(Stick, b)
          /\ taken # {} =>
               /\ taken = {b} /\ Pending(Stick, b) = out[Stick]
               /\ Pending(Stick, b)' = Tail(Pending(Stick, b))
      BY <1>0, <1>1, <1>2, <1>3, <1>12, <2>1, <2>2, <2>4, <3>1, SenderSide
    <3>3. /\ InStep(b, Stick)'
          /\ b \notin taken \cap Board => Pending(b, Stick)' = Pending(b, Stick)
          /\ b \in taken \cap Board => Pending(b, Stick)' = Pending(b, Stick) \o Reply(b, p)
      BY <1>0, <1>1, <1>2, <1>3, <1>12, <2>1, <2>2, <2>4, OtherSide
    <3>4. UNCHANGED <<session, step, waits>>
      BY <1>2, <1>11, <3>1
    <3>5. CASE taken = {}
      BY <1>9, <2>1, <3>2, <3>3, <3>4, <3>5, PendingKept
    <3>6. CASE taken # {}
      <4>1. /\ Obeys(b, p, erases) /\ Pending(Stick, b) # <<>> /\ p = Head(Pending(Stick, b))
            /\ Pending(Stick, b)' = Tail(Pending(Stick, b))
            /\ Pending(b, Stick)' = Pending(b, Stick) \o Reply(b, p)
        BY <1>2, <1>10, <2>1, <2>4, <3>2, <3>3, <3>6
      <4> HIDE DEF p
      <4> QED
        BY <1>0, <1>3, <2>1, <3>2, <3>3, <3>4, <4>1, CommandTaken
    <3> QED
      BY <3>5, <3>6
  <2>5. CASE n = b
    <3>1. heard \subseteq {Stick} /\ taken \cap Board = {} /\ b \notin taken
      BY <1>3, <1>5, <1>12, <2>1, <2>5
    <3>2. /\ InStep(b, Stick)'
          /\ taken = {} => Pending(b, Stick)' = Pending(b, Stick)
          /\ taken # {} =>
               /\ taken = {Stick} /\ Pending(b, Stick) = out[b]
               /\ Pending(b, Stick)' = Tail(Pending(b, Stick))
      BY <1>0, <1>1, <1>2, <1>3, <1>12, <2>1, <2>2, <2>5, <3>1, SenderSide
    <3>3. InStep(Stick, b)' /\ Pending(Stick, b)' = Pending(Stick, b)
      BY <1>0, <1>1, <1>2, <1>3, <1>12, <2>1, <2>2, <2>5, OtherSide
    <3>4. /\ half'[b] = half[b] /\ device'[b] = device[b] /\ address'[b] = address[b]
          /\ flash'[b] = flash[b] /\ exit'[b] = exit[b] /\ session' = session
      BY <1>2, <1>9, <2>1, <3>1
    <3>5. CASE taken = {} \/ ~waits
      <4>1. Pending(b, Stick)' = Pending(b, Stick)
        BY <3>2, <3>5, <1>2, <2>1, <2>5 DEF Progress, Ready, HalfPage, Answering
      <4>2. UNCHANGED <<session, step, waits>>
        BY <1>1, <1>2, <3>5 DEF Sends
      <4> QED
        BY <2>1, <3>2, <3>3, <3>4, <4>1, <4>2, PendingKept
    <3>6. CASE taken # {} /\ waits
      <4>1. /\ Pending(b, Stick) # <<>> /\ p = Head(Pending(b, Stick))
            /\ Pending(b, Stick)' = Tail(Pending(b, Stick))
        BY <1>2, <2>5, <3>2, <3>6
      <4>2. waits' = FALSE /\ step' = IF p.cmd = "cr" THEN step + 1 ELSE Commands + 1
        BY <1>1, <3>2, <3>6 DEF Sends
      <4> HIDE DEF p
      <4> QED
        BY <1>0, <1>3, <2>1, <3>2, <3>3, <3>4, <4>1, <4>2, AnswerTaken
    <3> QED
      BY <3>5, <3>6
  <2> QED
    BY <1>5, <2>1, <2>3, <2>4, <2>5
<1>14. Partners # {} \/ confirmed' = {} \/ \E b \in Board : at'[b] # "loop" /\ Has(b)'
  <2> SUFFICES ASSUME Partners = {}
               PROVE  confirmed' = {} \/ \E b \in Board : at'[b] # "loop" /\ Has(b)'
    OBVIOUS
  <2>1. Stick \notin taken
    BY <1>3, <1>5
  <2>2. CASE confirmed = {}
    BY <1>11, <2>1, <2>2
  <2>3. ASSUME NEW b \in Board, at[b] # "loop", Has(b)
        PROVE  at'[b] # "loop" /\ Has(b)'
    <3>1. b \notin taken
      BY <1>3, <1>12, <2>3 DEF Listeners
    <3> QED
      BY <1>2, <1>9, <1>11, <2>1, <2>3, <3>1 DEF Has
  <2> QED
    BY <2>2, <2>3 DEF Protocol
<1>15. Protocol'
  BY <1>0, <1>4, <1>13, <1>14 DEF Protocol
<1>16. ProgramInv'
  <2> SUFFICES ASSUME NEW b \in Board
               PROVE  /\ Begun(flash'[b])
                      /\ at'[b] # "loop" /\ b \notin brokenOff' => Whole(flash'[b]) \/ Erased(flash'[b])
                      /\ at'[b] = "app" => flash'[b][0] # Empty
                      /\ exit'[b] => half'[b] = None /\ Whole(flash'[b])
    BY DEF ProgramInv, Whole, Erased, Begun
  <2>1. /\ Begun(flash[b])
        /\ at[b] # "loop" /\ b \notin brokenOff => Whole(flash[b]) \/ Erased(flash[b])
        /\ at[b] = "app" => flash[b][0] # Empty
        /\ exit[b] => half[b] = None /\ Whole(flash[b])
    BY DEF ProgramInv
  <2>2. CASE b \notin taken
    BY <1>2, <1>9, <2>1, <2>2
  <2>3. CASE b \in taken
    <3>1. at[b] = "loop"
      BY <1>3, <1>12, <2>3 DEF Listeners
    <3>2. n = Stick
      BY <1>2, <1>3, <1>5, <2>3, BoardsHearNone, <1>0
    <3>3. b \in Partners /\ b \in End /\ b # Stick
      BY <1>3, <1>5, <1>12, <2>3, <3>2
    <3>4. exit'[b] => half'[b] = None /\ Whole(flash'[b])
      BY <1>0, <1>13, <3>3, WholeNext
    <3>5. Pending(Stick, b) = out[Stick]
      <4>1. heard \subseteq {b} /\ InStep(Stick, b)
        BY <1>0, <1>3, <1>5, <3>2, <3>3 DEF Progress
      <4> QED
        BY <1>0, <1>1, <1>2, <1>3, <1>12, <2>3, <3>2, <3>3, <4>1, SenderSide
    <3>6. /\ Pending(Stick, b) # <<>> /\ p = Head(Pending(Stick, b))
          /\ Obeys(b, p, erases) /\ Progress(b)
      BY <1>0, <1>2, <1>10, <2>3, <3>2, <3>3, <3>5
    <3>7. Begun(flash'[b])
      <4> HIDE DEF p
      <4> QED
        BY <1>0, <1>2, <1>3, <2>1, <3>6, BegunNext
    <3> QED
      BY <1>2, <3>1, <3>4, <3>7
  <2> QED
    BY <2>2, <2>3
<1> QED
  BY <1>15, <1>16

\* Boards come and go outside the command loop.
LEMMA ProtocolKept ==
  ASSUME Types, SessionInv, ProgramInv, Protocol,
         UNCHANGED <<kind, mode, key, device, address, half, exit, flash, tx, rx, out,
                     session, step, waits, confirmed, brokenOff>>,
         \A c \in Board :
           /\ at'[c] = "loop" <=> at[c] = "loop"
           /\ at'[c] = "app" => at[c] = "app" \/ flash[c][0] # Empty
  PROVE  ProgramInv' /\ Protocol'
<1>1. Partners' = Partners
  BY DEF Partners
<1>2. \A b \in Partners : Progress(b)'
  BY ProgressKept DEF Protocol, Partners
<1>3. \A b \in Board : Has(b) => Has(b)'
  BY DEF Has
<1>4. Protocol'
  BY <1>1, <1>2, <1>3 DEF Protocol
<1>5. ProgramInv'
  BY DEF ProgramInv, Whole, Erased, Begun
<1> QED
  BY <1>4, <1>5

LEMMA SayBInvariant ==
  ASSUME Basics, ProgramInv, Protocol, NEW b \in Board, SayB(b)
  PROVE  ProgramInv' /\ Protocol'
<1>0. Types /\ SessionInv
  BY DEF Basics
<1>1. /\ at[b] = "boot"
      /\ UNCHANGED <<kind, mode, key, device, address, half, exit, flash, tx, rx, out,
                     session, step, waits, confirmed, brokenOff>>
  BY DEF SayB, link, programmer
<1>2. PICK heard \in SUBSET (Waiting \cup {Stick}) :
       at' = [c \in Board |-> IF c = b THEN "wait"
                              ELSE IF c \in heard THEN Alone(c) ELSE at[c]]
  BY DEF SayB
<1>3. \A c \in Board :
        /\ at'[c] = "loop" <=> at[c] = "loop"
        /\ at'[c] = "app" => at[c] = "app" \/ flash[c][0] # Empty
  BY <1>1, <1>2, Constants DEF Waiting, Alone
<1> QED
  BY <1>0, <1>1, <1>3, ProtocolKept

LEMMA TimeOutInvariant ==
  ASSUME Basics, ProgramInv, Protocol, NEW b \in Board, TimeOut(b)
  PROVE  ProgramInv' /\ Protocol'
<1>0. Types /\ SessionInv
  BY DEF Basics
<1>1. /\ at[b] = "wait" /\ at' = [at EXCEPT ![b] = Alone(b)]
      /\ UNCHANGED <<kind, mode, key, device, address, half, exit, flash, tx, rx, out,
                     session, step, waits, confirmed, brokenOff>>
  BY DEF TimeOut, stick, link, programmer
<1>2. \A c \in Board :
        /\ at'[c] = "loop" <=> at[c] = "loop"
        /\ at'[c] = "app" => at[c] = "app" \/ flash[c][0] # Empty
  BY <1>0, <1>1 DEF Types, Alone
<1> QED
  BY <1>0, <1>1, <1>2, ProtocolKept

\* A board that comes along is fresh, and the stick's only partner.
LEMMA SayAnswerInvariant ==
  ASSUME Basics, Basics', ProgramInv, Protocol, SayAnswer, ~shared'
  PROVE  ProgramInv' /\ Protocol'
<1>0. Types /\ SessionInv /\ StartedOver /\ Types'
  BY DEF Basics
<1>1. PICK heard \in SUBSET Waiting :
        /\ at' = [b \in Board |-> IF b \in {c \in heard : ~Refuses(c)} THEN "loop"
                                  ELSE IF b \in heard THEN Alone(b) ELSE at[b]]
        /\ key' = [n \in End |->
                     IF n = Stick THEN IF answer.crypt THEN "aes" ELSE "plain"
                     ELSE IF n \in {c \in heard : ~Refuses(c)} THEN KeyTaken(n) ELSE key[n]]
        /\ LinkReset({c \in heard : ~Refuses(c)} \cup {Stick})
  BY DEF SayAnswer
<1>2. /\ answer # None /\ mode' = 1
      /\ UNCHANGED <<device, address, half, exit, flash, session, step, waits, confirmed,
                     brokenOff>>
  BY DEF SayAnswer, programmer
<1>3. /\ Apart'
      /\ \A b \in Partners' : at[b] # "loop"
      /\ key'[Stick] # "wrong"
  <2>1. Partners' = {b \in Board : at'[b] = "loop" /\ key'[b] = key'[Stick]}
    BY <1>2 DEF Partners
  <2>2. Apart' /\ \A b \in Board : at[b] = "loop" => key[b] # key'[Stick]
    BY DEF SayAnswer
  <2>3. \A b \in Board : at[b] = "loop" => at'[b] = "loop" /\ key'[b] = key[b]
    BY <1>1, Constants DEF Waiting
  <2>4. key'[Stick] # "wrong"
    BY Constants DEF SayAnswer
  <2> QED
    BY <2>1, <2>2, <2>3, <2>4
<1>4. \A b, c \in Partners' : b = c
  BY <1>3 DEF Apart, Partners
<1>5. mode = 0 /\ step = 1 /\ confirmed = {}
  BY <1>0, <1>2 DEF SessionInv
<1>6. \A b \in Partners' : Progress(b)'
  <2> SUFFICES ASSUME NEW b \in Partners' PROVE Progress(b)'
    OBVIOUS
  <2>1. b \in Board /\ at'[b] = "loop" /\ at[b] # "loop" /\ b \in End /\ Stick \in End
    BY <1>3, Constants DEF Partners
  <2>2. b \in {c \in heard : ~Refuses(c)}
    BY <1>1, <2>1 DEF Alone
  <2>3. /\ tx'[b] = 0 /\ rx'[b] = 0 /\ out'[b] = <<>>
        /\ tx'[Stick] = 0 /\ rx'[Stick] = 0 /\ out'[Stick] = <<>>
    BY <1>1, <2>1, <2>2 DEF LinkReset
  <2>4. ~device[b] /\ address[b] = 0 /\ half[b] = None /\ ~exit[b]
    BY <1>0, <2>1 DEF StartedOver, Fresh
  <2>5. Done(b, 0)
    <3>1. PagesDone(0) = 0 /\ Commands # 0
      BY DoneNumbers
    <3> QED
      BY <2>4, <3>1 DEF Done
  <2>6. \A i : i = step' - 1 => Done(b, i)'
    <3>1. Done(b, 0)'
      BY <1>2, <2>1, <2>5, DoneKept
    <3>2. step' - 1 = 0
      BY <1>2, <1>5
    <3> QED
      BY <3>1, <3>2
  <2>7. Pending(b, Stick)' = <<>> /\ Pending(Stick, b)' = <<>>
    BY <2>3 DEF Pending
  <2>8. Ready(b)'
    BY <1>2, <2>4, <2>6, <2>7 DEF Ready
  <2> QED
    BY <2>3, <2>8 DEF Progress, InStep
<1>7. Protocol'
  BY <1>2, <1>4, <1>5, <1>6 DEF Protocol
<1>8. \A b \in Board : /\ at'[b] # "loop" => at[b] # "loop"
                       /\ at'[b] = "app" => at[b] = "app" \/ flash[b][0] # Empty
  BY <1>1 DEF Waiting, Alone
<1>9. ProgramInv'
  BY <1>2, <1>8 DEF ProgramInv, Whole, Erased, Begun
<1> QED
  BY <1>7, <1>9

LEMMA ProgrammerSendsInvariant ==
  ASSUME Basics, ProgramInv, Protocol, ProgrammerSends
  PROVE  ProgramInv' /\ Protocol'
<1>0. Types /\ SessionInv
  BY DEF Basics
<1>1. /\ ~waits /\ step <= Commands /\ waits' = TRUE
      /\ out' = IF mode = 1 THEN [out EXCEPT ![Stick] = @ \o Command(step)] ELSE out
      /\ UNCHANGED <<mode, key, at, device, address, half, exit, flash, tx, rx, session,
                     step, confirmed, brokenOff>>
  BY DEF ProgrammerSends, stick, boards
<1>2. Partners' = Partners
  BY <1>1 DEF Partners
<1>3. ASSUME NEW b \in Partners PROVE Progress(b)'
  <2>1. b \in Board /\ mode = 1 /\ b \in End /\ Stick \in End /\ b # Stick /\ Progress(b)
    BY Constants DEF Partners, Protocol
  <2>2. Command(step) \in Seq(Sent) /\ out[Stick] \in Seq(Sent)
    BY <1>0, <1>1, <2>1, Constants, CommandIs DEF Types
  <2>3. out'[Stick] = out[Stick] \o Command(step) /\ out'[b] = out[b]
    BY <1>0, <1>1, <2>1 DEF Types
  <2>4. /\ Ready(b) /\ half[b] = None /\ Pending(b, Stick) = <<>> /\ Done(b, step - 1)
        /\ Pending(Stick, b) = <<>>
    BY <1>1, <2>1 DEF Progress, Ready, HalfPage, Answering
  <2>5. InStep(Stick, b)' /\ Pending(Stick, b)' = Command(step)
    <3>1. \A q, c \in Seq(Sent) :
            /\ <<>> \o c = c
            /\ q # <<>> => q \o c # <<>> /\ Tail(q \o c) = Tail(q) \o c
      BY TailConcat
    <3>2. /\ <<>> \o Command(step) = Command(step)
          /\ out[Stick] # <<>> =>
               /\ out[Stick] \o Command(step) # <<>>
               /\ Tail(out[Stick] \o Command(step)) = Tail(out[Stick]) \o Command(step)
      BY <2>2, <3>1, Zenon
    <3>3. /\ <<>> \o Command(step) = Command(step)
          /\ out[Stick] # <<>> => /\ out'[Stick] # <<>>
                                  /\ Tail(out'[Stick]) = Tail(out[Stick]) \o Command(step)
      BY <2>3, <3>2, Zenon
    <3> QED
      BY <1>1, <2>1, <2>3, <2>4, <3>3 DEF Progress, InStep, Pending, Next1
  <2>6. InStep(b, Stick)' /\ Pending(b, Stick)' = Pending(b, Stick)
    BY <1>1, <2>1, <2>3 DEF Progress, InStep, Pending, Next1
  <2>7. \A i : i = step' - 1 => Done(b, i)'
    BY <1>1, <2>1, <2>4, DoneKept
  <2>8. Command(step)' = Command(step)
    BY <1>1 DEF Command, Packet
  <2>9. Ready(b)'
    BY <1>1, <2>4, <2>5, <2>6, <2>7, <2>8 DEF Ready
  <2> QED
    BY <2>5, <2>6, <2>9 DEF Progress
<1>4. Protocol'
  BY <1>1, <1>2, <1>3 DEF Protocol, Has
<1>5. ProgramInv'
  BY <1>1 DEF ProgramInv, Whole, Erased, Begun
<1> QED
  BY <1>4, <1>5

LEMMA UserResetsInvariant ==
  ASSUME ProgramInv, UserResets
  PROVE  ProgramInv' /\ Protocol'
<1>1. /\ mode' = 0 /\ confirmed' = {}
      /\ UNCHANGED <<at, half, exit, flash, brokenOff>>
  BY DEF UserResets, boards
<1>2. Partners' = {}
  BY <1>1 DEF Partners
<1> QED
  BY <1>1, <1>2 DEF Protocol, ProgramInv, Whole, Erased, Begun

\* A board starts over: either it was whole, or it is noted as broken off.
LEMMA RestartInvariant ==
  ASSUME Basics, ProgramInv, Protocol, NEW b \in Board, Restart(b),
         brokenOff' \cup {b} = brokenOff \cup {b},
         b \in brokenOff' \/ exit[b] \/ (at[b] # "loop" /\ b \notin brokenOff)
  PROVE  ProgramInv' /\ Protocol'
<1>0. Types /\ SessionInv
  BY DEF Basics
<1>1. /\ at' = [at EXCEPT ![b] = "boot"] /\ device' = [device EXCEPT ![b] = FALSE]
      /\ address' = [address EXCEPT ![b] = 0] /\ half' = [half EXCEPT ![b] = None]
      /\ exit' = [exit EXCEPT ![b] = FALSE] /\ key' = [key EXCEPT ![b] = "plain"]
      /\ LinkReset({b})
      /\ UNCHANGED <<mode, flash, session, step, waits, confirmed>>
  BY DEF Restart, stick, programmer
<1>2. \A n \in End \ {b} : tx'[n] = tx[n] /\ rx'[n] = rx[n] /\ out'[n] = out[n]
  BY <1>1 DEF LinkReset
<1>3. /\ \A c \in Board \ {b} :
           /\ at'[c] = at[c] /\ device'[c] = device[c] /\ address'[c] = address[c]
           /\ half'[c] = half[c] /\ exit'[c] = exit[c] /\ key'[c] = key[c]
      /\ key'[Stick] = key[Stick] /\ at'[b] = "boot" /\ ~exit'[b]
      /\ Stick \in End \ {b} /\ Board \subseteq End
  BY <1>0, <1>1, Constants DEF Types
<1>4. Partners' = Partners \ {b}
  BY <1>1, <1>3 DEF Partners
<1>5. ASSUME NEW c \in Partners' PROVE Progress(c)'
  <2>1. c \in Board \ {b} /\ c \in End \ {b} /\ Progress(c)
    BY <1>3, <1>4, <1>5 DEF Partners, Protocol
  <2> QED
    BY <1>1, <1>2, <1>3, <2>1, ProgressKept
<1>6. Partners' # {} \/ confirmed' = {} \/ \E c \in Board : at'[c] # "loop" /\ Has(c)'
  <2>1. CASE b \in Partners
    <3>1. Has(b)
      BY <1>0, <2>1, ProgressHas DEF Protocol
    <3>2. at'[b] # "loop" /\ Has(b)'
      BY <1>1, <1>3, <3>1 DEF Has
    <3> QED
      BY <3>2
  <2>2. CASE b \notin Partners
    <3>1. ASSUME NEW c \in Board, at[c] # "loop", Has(c)
          PROVE  at'[c] # "loop" /\ Has(c)'
      BY <1>1, <1>3, <3>1 DEF Has
    <3> QED
      BY <1>1, <1>4, <2>2, <3>1 DEF Protocol
  <2> QED
    BY <2>1, <2>2
<1>7. Protocol'
  BY <1>4, <1>5, <1>6 DEF Protocol
<1>8. ProgramInv'
  <2> SUFFICES ASSUME NEW c \in Board
               PROVE  /\ Begun(flash'[c])
                      /\ at'[c] # "loop" /\ c \notin brokenOff' => Whole(flash'[c]) \/ Erased(flash'[c])
                      /\ at'[c] = "app" => flash'[c][0] # Empty
                      /\ exit'[c] => half'[c] = None /\ Whole(flash'[c])
    BY DEF ProgramInv, Whole, Erased, Begun
  <2>1. /\ Begun(flash[c])
        /\ at[c] # "loop" /\ c \notin brokenOff => Whole(flash[c]) \/ Erased(flash[c])
        /\ at[c] = "app" => flash[c][0] # Empty
        /\ exit[c] => half[c] = None /\ Whole(flash[c])
    BY DEF ProgramInv
  <2>2. CASE c = b
    BY <1>1, <1>3, <2>1, <2>2
  <2>3. CASE c # b
    BY <1>1, <1>3, <2>1, <2>3
  <2> QED
    BY <2>2, <2>3
<1> QED
  BY <1>7, <1>8

------------------------------------------------------------------------------

LEMMA InvariantInit == Init => IInv
<1> SUFFICES ASSUME Init PROVE ProgramInv /\ Protocol /\ Channel
  BY DEF IInv
<1>1. Partners = {} /\ confirmed = {}
  BY DEF Init, Partners
<1>2. \A b \in Board : Whole(flash[b]) \/ Erased(flash[b])
  <2>1. \A k \in Page : [j \in Page |-> Empty][k] = Empty /\ [j \in Page |-> 0][k] = 0
    OBVIOUS
  <2>2. 0 \in Page /\ 0 \notin {Empty, Mixed}
    BY Constants
  <2> QED
    BY <2>1, <2>2 DEF Init, Whole, Erased
<1>3. \A b \in Board : at[b] = "boot" /\ ~exit[b]
  BY DEF Init
<1>4. \A b \in Board : Begun(flash[b])
  <2>1. Begun([k \in Page |-> 0])
    <3>1. 0 \in 0 .. MaxSessions /\ Pages \in 0 .. Pages
      BY Constants
    <3>2. [k \in Page |-> 0] = [k \in Page |-> IF k < Pages THEN 0 ELSE Empty]
      BY Constants
    <3> QED
      BY <3>1, <3>2 DEF Begun
  <2> QED
    BY <2>1, EmptyBegun DEF Init
<1>5. Channel
  BY Constants DEF Init, Channel, Apart
<1> QED
  BY <1>1, <1>2, <1>3, <1>4, <1>5 DEF ProgramInv, Protocol

LEMMA ChannelKept ==
  ASSUME Channel, UNCHANGED key, \A b \in Board : key[b] = "wrong" => out'[b] = out[b],
         \A b \in Board : at'[b] = "loop" => at[b] = "loop"
  PROVE  Channel'
BY DEF Channel, Apart

LEMMA TransmitChannel ==
  ASSUME Types, SessionInv, Channel, NEW n \in End, Transmit(n)
  PROVE  Channel'
<1>1. PICK heard \in SUBSET Listeners(n), acked \in BOOLEAN, erases \in BOOLEAN :
        Sends(n, heard, acked, erases)
  BY TransmitIs, Zenon
<1>2. out[n] # <<>> /\ UNCHANGED <<key, at>>
  BY TransmitIs
<1>3. \A b \in Board : key[b] = "wrong" => out'[b] = out[b]
  <2> SUFFICES ASSUME NEW b \in Board, key[b] = "wrong" PROVE out'[b] = out[b]
    OBVIOUS
  <2>1. key[n] # "wrong"
    BY <1>2 DEF Channel, End
  <2>2. b # n /\ b \notin Listeners(n) /\ b \in End
    BY <2>1, Constants DEF Listeners
  <2>3. out'[b] = out[b] \o <<>> /\ out[b] \in Seq(Sent)
    BY <1>1, <2>2 DEF Sends, Taken, Types
  <2> QED
    BY <2>3, TailConcat
<1> QED
  BY <1>2, <1>3, ChannelKept

LEMMA ChannelStep ==
  ASSUME Basics, Channel, [Next]_vars, ~shared'
  PROVE  Channel'
<1>0. Types /\ SessionInv
  BY DEF Basics
<1>1. ASSUME NEW b \in Board, SayB(b) PROVE Channel'
  <2>1. \A c \in Board : at'[c] = "loop" => at[c] = "loop"
    BY <1>1, Constants DEF SayB, Waiting, Alone
  <2> QED
    BY <1>1, <2>1, ChannelKept DEF SayB, link
<1>2. ASSUME NEW b \in Board, TimeOut(b) PROVE Channel'
  <2>1. \A c \in Board : at'[c] = "loop" => at[c] = "loop"
    BY <1>0, <1>2 DEF TimeOut, Alone, Types
  <2> QED
    BY <1>2, <2>1, ChannelKept DEF TimeOut, link
<1>3. ASSUME NEW b \in Board, Restart(b) PROVE Channel'
  <2>1. /\ at' = [at EXCEPT ![b] = "boot"] /\ key' = [key EXCEPT ![b] = "plain"]
        /\ out' = [n \in End |-> IF n \in {b} THEN <<>> ELSE out[n]]
    BY <1>3 DEF Restart, LinkReset
  <2>2. /\ \A c \in Board \ {b} : at'[c] = at[c] /\ key'[c] = key[c] /\ out'[c] = out[c]
        /\ at'[b] = "boot" /\ key'[b] = "plain" /\ key'[Stick] = key[Stick]
    BY <1>0, <2>1, Constants DEF Types
  <2> QED
    BY <2>2 DEF Channel, Apart
<1>4. CASE SayAnswer
  <2>1. PICK heard \in SUBSET Waiting :
        /\ key' = [n \in End |->
                     IF n = Stick THEN IF answer.crypt THEN "aes" ELSE "plain"
                     ELSE IF n \in {c \in heard : ~Refuses(c)} THEN KeyTaken(n) ELSE key[n]]
        /\ LinkReset({c \in heard : ~Refuses(c)} \cup {Stick})
    BY <1>4 DEF SayAnswer
  <2>2. Apart'
    BY <1>4 DEF SayAnswer
  <2>3. key'[Stick] # "wrong"
    BY <2>1, Constants
  <2>4. \A b \in Board : key'[b] = "wrong" => out'[b] = <<>>
    BY <2>1, Constants DEF LinkReset, Channel
  <2> QED
    BY <2>2, <2>3, <2>4 DEF Channel
<1>5. ASSUME NEW n \in End, Transmit(n) PROVE Channel'
  BY <1>0, <1>5, TransmitChannel
<1>6. CASE ProgrammerSends
  <2>1. \A b \in Board : out'[b] = out[b]
    BY <1>0, <1>6, Constants DEF ProgrammerSends, Types
  <2> QED
    BY <1>6, <2>1, ChannelKept DEF ProgrammerSends, boards
<1>7. CASE UserResets
  <2>1. /\ at' = at /\ key' = [key EXCEPT ![Stick] = "plain"]
        /\ out' = [n \in End |-> IF n \in {Stick} THEN <<>> ELSE out[n]]
    BY <1>7 DEF UserResets, LinkReset, boards
  <2>2. /\ \A b \in Board : key'[b] = key[b] /\ out'[b] = out[b]
        /\ key'[Stick] = "plain"
    BY <1>0, <2>1, Constants DEF Types
  <2> QED
    BY <2>1, <2>2 DEF Channel, Apart
<1>8. CASE UNCHANGED vars
  BY <1>8, ChannelKept DEF vars, link, boards
<1> QED
  BY <1>1, <1>2, <1>3, <1>4, <1>5, <1>6, <1>7, <1>8 DEF Next, PowerCycle, WatchdogReset

LEMMA InvariantStep == Basics /\ IInv /\ [Next]_vars => IInv'
<1> SUFFICES ASSUME Basics, IInv, [Next]_vars, ~shared'
             PROVE  ProgramInv' /\ Protocol' /\ Channel'
  BY DEF IInv
<1>0. Basics' /\ Types
  BY BasicsStep DEF Basics
<1>1. ~shared
  BY <1>0 DEF Next, SayB, TimeOut, PowerCycle, WatchdogReset, Restart, SayAnswer, Transmit,
              ProgrammerSends, UserResets, vars
<1>2. ProgramInv /\ Protocol /\ Channel
  BY <1>1 DEF IInv
<1>3. Channel'
  BY <1>2, ChannelStep
<1> SUFFICES ProgramInv' /\ Protocol'
  BY <1>3
<1>4. ASSUME NEW b \in Board, SayB(b) PROVE ProgramInv' /\ Protocol'
  BY <1>2, <1>4, SayBInvariant
<1>5. ASSUME NEW b \in Board, TimeOut(b) PROVE ProgramInv' /\ Protocol'
  BY <1>2, <1>5, TimeOutInvariant
<1>6. ASSUME NEW b \in Board, PowerCycle(b) PROVE ProgramInv' /\ Protocol'
  <2>1. Restart(b) /\ brokenOff' \cup {b} = brokenOff \cup {b}
    BY <1>6 DEF PowerCycle
  <2>2. b \in brokenOff' \/ exit[b] \/ (at[b] # "loop" /\ b \notin brokenOff)
    BY <1>6 DEF PowerCycle
  <2> QED
    BY <1>2, <2>1, <2>2, RestartInvariant
<1>7. ASSUME NEW b \in Board, WatchdogReset(b) PROVE ProgramInv' /\ Protocol'
  <2>1. Restart(b) /\ brokenOff' \cup {b} = brokenOff \cup {b} /\ exit[b]
    BY <1>7 DEF WatchdogReset
  <2> QED
    BY <1>2, <2>1, RestartInvariant
<1>8. CASE SayAnswer
  BY <1>0, <1>2, <1>8, SayAnswerInvariant
<1>9. ASSUME NEW n \in End, Transmit(n) PROVE ProgramInv' /\ Protocol'
  BY <1>0, <1>2, <1>9, TransmitInvariant
<1>10. CASE ProgrammerSends
  BY <1>2, <1>10, ProgrammerSendsInvariant
<1>11. CASE UserResets
  BY <1>2, <1>11, UserResetsInvariant
<1>12. CASE UNCHANGED vars
  <2>1. /\ UNCHANGED <<kind, mode, key, at, device, address, half, exit, flash, tx, rx, out,
                       session, step, waits, confirmed, brokenOff>>
    BY <1>12 DEF vars, stick, boards, link, programmer
  <2> QED
    BY <1>0, <1>2, <2>1, ProtocolKept DEF Basics
<1> QED
  BY <1>4, <1>5, <1>6, <1>7, <1>8, <1>9, <1>10, <1>11, <1>12 DEF Next

\* The inductive invariant.
THEOREM Invariant == Spec => [](Basics /\ IInv)
BY BasicsInit, BasicsStep, InvariantInit, InvariantStep, PTL DEF Spec

\* What the programmer has been told is written is written on some board, as
\* long as each session had one: through losses, resets and boards that are
\* switched off.
THEOREM Confirmed == Spec => []ConfirmedIsWritten
<1>1. Basics /\ IInv => ConfirmedIsWritten
  <2> SUFFICES ASSUME Basics, IInv, ~shared
               PROVE  \E b \in Board : \A k \in confirmed : flash[b][k] = session
    BY DEF ConfirmedIsWritten
  <2>1. Protocol /\ Types /\ SessionInv
    BY DEF IInv, Basics
  <2>2. \A b \in Partners : b \in Board /\ Has(b)
    BY <2>1, ProgressHas DEF Protocol, Partners
  <2>3. Board # {}
    BY ConstantAssumption
  <2> QED
    BY <2>1, <2>2, <2>3 DEF Protocol, Has
<1> QED
  BY <1>1, Invariant, PTL

\* A program that runs is of one session, and whole unless its board was
\* switched off inside one: then it is the beginning of a program, over an
\* erased flash, never a mixture.
THEOREM RunsOneProgram == Spec => []RunsWhole
<1>1. Basics /\ IInv => RunsWhole
  <2> SUFFICES ASSUME Basics, IInv, ~shared, NEW b \in Board, at[b] = "app"
               PROVE  /\ flash[b][0] \notin {Empty, Mixed}
                      /\ \E i \in 1 .. Pages :
                           /\ \A k \in Page : flash[b][k] = IF k < i THEN flash[b][0] ELSE Empty
                           /\ b \in brokenOff \/ i = Pages
    BY DEF RunsWhole
  <2>1. /\ Begun(flash[b]) /\ flash[b][0] # Empty
        /\ b \in brokenOff \/ Whole(flash[b]) \/ Erased(flash[b])
    BY DEF IInv, ProgramInv
  <2>2. PICK i \in 0 .. Pages, s \in 0 .. MaxSessions :
          flash[b] = [k \in Page |-> IF k < i THEN s ELSE Empty]
    BY <2>1 DEF Begun
  <2>3. i \in 1 .. Pages /\ flash[b][0] = s /\ s \notin {Empty, Mixed}
    BY <2>1, <2>2, Constants
  <2>4. \A k \in Page : flash[b][k] = IF k < i THEN flash[b][0] ELSE Empty
    BY <2>2, <2>3
  <2>5. b \in brokenOff \/ i = Pages
    <3> SUFFICES ASSUME b \notin brokenOff, i # Pages PROVE FALSE
      OBVIOUS
    <3>1. i \in Page /\ flash[b][i] = Empty
      BY <2>2, Constants DEF Page
    <3>2. flash[b][i] = flash[b][0]
      BY <2>1, <3>1, Constants DEF Whole, Erased
    <3> QED
      BY <2>1, <3>1, <3>2
  <2> QED
    BY <2>3, <2>4, <2>5
<1> QED
  BY <1>1, Invariant, PTL
==============================================================================
