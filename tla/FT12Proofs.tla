----------------------------- MODULE FT12Proofs ------------------------------
(***************************************************************************)
(* Proofs about FT12 for every set of telegrams, messages and scenarios:   *)
(* one telegram of the host at a time, its echo kept from the host, only   *)
(* what was on the bus confirmed, and answers in two parts kept together.  *)
(***************************************************************************)
EXTENDS FT12, SequenceTheorems, FiniteSetTheorems, TLAPS

------------------------------------------------------------------------------
(* The inductive invariant                                                 *)

\* What an undisturbed TPUART sends is whole telegrams and confirmations.
Framed(q) ==
  \A i \in 1 .. Len(q) :
    /\ q[i].part # "other"
    /\ q[i].part = "first" =>
         /\ i + 2 <= Len(q)
         /\ q[i + 1] = Piece("length", q[i].of)
         /\ q[i + 2] = Piece("last", q[i].of)
    /\ q[i].part = "length" => i > 1 /\ q[i - 1].part = "first"
    /\ q[i].part = "last" => i > 1 /\ q[i - 1].part = "length"

\* At most one of them is a confirmation.
OneConfirms(q) == \A i, j \in 1 .. Len(q) : Confirms(q[i]) /\ Confirms(q[j]) => i = j

\* A telegram that no other device has sent is confirmed, or refused, later.
EchoSettled(q) ==
  \A i \in 1 .. Len(q) :
    q[i].part = "first" => q[i].of \in Foreign \/ \E j \in i + 1 .. Len(q) : Confirms(q[j])

\* A confirmation follows its telegram, one of ok; c is the telegram received
\* last.
FollowsEcho(q, c, ok) ==
  \A i \in 1 .. Len(q) :
    q[i].part = "0x8B" =>
      /\ q[i].of \in ok
      /\ IF i = 1 THEN c = q[i].of ELSE q[i - 1] = Piece("last", q[i].of)

AnyConfirms(q) == \E i \in 1 .. Len(q) : Confirms(q[i])

LineInv ==
  /\ inTPU_Buffer # <<>> => inTPU_Buffer[1].part = "first"
  /\ Framed(FromTPUART) /\ OneConfirms(FromTPUART) /\ EchoSettled(FromTPUART)
  /\ FollowsEcho(FromTPUART, confirmdata, confirmed)
  /\ waitTPUconfirm = (pending # None \/ AnyConfirms(FromTPUART))
  /\ pending # None => ~AnyConfirms(FromTPUART)

\* No reset is on its way, at the host, in the gateway or to the TPUART.
NoReset ==
  /\ toTPUART_Buffer = <<>>
  /\ request = None \/ request # Reset
  /\ \A i \in 1 .. Len(usb) : usb[i] # Reset
  /\ \A i \in 1 .. Len(inFT12_Buffer) : inFT12_Buffer[i] # Reset

\* The second parts among the answers items, which follow the part g, come
\* after their first parts, and so will the one that is due, e.
PartsPaired(items, g, e) ==
  /\ \A i \in 1 .. Len(items) :
       items[i].kind = "second" => PartBefore(items, g, i, Item("first", items[i].arg))
  /\ e # None => PartBefore(items, g, Len(items) + 1, Item("first", e))

\* Of the answers items, what is confirmed is one of ok, what is indicated is
\* from another device.
Truthful(items, ok) ==
  \A i \in 1 .. Len(items) :
    /\ items[i].kind = "con" => items[i].arg \in ok
    /\ items[i].kind = "ind" => items[i].arg \in Foreign

UndisturbedInv ==
  Undisturbed => NoReset /\ LineInv /\ Truthful(toUSB_Buffer, confirmed)

IInv ==
  /\ TypeOK
  /\ PartsPaired(toUSB_Buffer, got, E5next)
  /\ UndisturbedInv

------------------------------------------------------------------------------
(* What the TPUART sends                                                   *)

LEMMA FrameIs ==
  ASSUME NEW t \in Telegram \cup Foreign
  PROVE  /\ Frame(t) \in Seq(Pieces) /\ Len(Frame(t)) = 3
         /\ Frame(t)[1] = Piece("first", t)
         /\ Frame(t)[2] = Piece("length", t)
         /\ Frame(t)[3] = Piece("last", t)
  BY DEF Frame, Pieces, Piece

LEMMA AppendFrame ==
  ASSUME NEW q \in Seq(Pieces), NEW t \in Telegram \cup Foreign, NEW c, NEW ok
  PROVE  LET r == q \o Frame(t)
         IN  /\ r \in Seq(Pieces)
             /\ Framed(q) => Framed(r)
             /\ OneConfirms(q) => OneConfirms(r)
             /\ AnyConfirms(r) <=> AnyConfirms(q)
             /\ EchoSettled(q) /\ t \in Foreign => EchoSettled(r)
             /\ FollowsEcho(q, c, ok) => FollowsEcho(r, c, ok)
             /\ r # <<>> /\ r[Len(r)] = Piece("last", t)
<1> DEFINE r == q \o Frame(t)
           n == Len(q)
<1>1. /\ r \in Seq(Pieces) /\ n \in Nat /\ Len(r) = n + 3
      /\ \A i \in 1 .. n : r[i] = q[i]
      /\ r[n + 1] = Piece("first", t)
      /\ r[n + 2] = Piece("length", t)
      /\ r[n + 3] = Piece("last", t)
  <2> DEFINE f == Frame(t)
  <2>1. /\ f \in Seq(Pieces) /\ Len(f) = 3
        /\ f[1] = Piece("first", t) /\ f[2] = Piece("length", t) /\ f[3] = Piece("last", t)
    BY FrameIs
  <2> HIDE DEF f
  <2>2. q \o f \in Seq(Pieces) /\ Len(q \o f) = Len(q) + Len(f)
    BY <2>1, ConcatProperties
  <2>5. Len(q) \in Nat
    BY LenProperties
  <2>4. \A i \in 1 .. Len(q) + Len(f) :
          (q \o f)[i] = IF i <= Len(q) THEN q[i] ELSE f[i - Len(q)]
    BY <2>1, ConcatProperties
  <2>3. \A k \in 1 .. 3 : (q \o f)[Len(q) + k] = f[k]
    <3> SUFFICES ASSUME NEW k \in 1 .. 3
                 PROVE  (q \o f)[Len(q) + k] = f[k]
      OBVIOUS
    <3>1. /\ Len(q) + k \in 1 .. Len(q) + Len(f)
          /\ ~(Len(q) + k <= Len(q))
          /\ (Len(q) + k) - Len(q) = k
      BY <2>1, <2>5
    <3> QED
      BY <2>4, <3>1
  <2> QED
    BY <2>1, <2>2, <2>3, <2>4, <2>5 DEF f
<1>2. \A i \in 1 .. n + 3 : i \in 1 .. n \/ i = n + 1 \/ i = n + 2 \/ i = n + 3
  BY <1>1
<1> HIDE DEF r, n
<1>3. /\ r[n + 1].part = "first" /\ r[n + 1].of = t
      /\ r[n + 2].part = "length" /\ r[n + 2].of = t
      /\ r[n + 3].part = "last" /\ r[n + 3].of = t
  BY <1>1 DEF Piece
<1>4. ASSUME Framed(q)
      PROVE  Framed(r)
  <2> SUFFICES ASSUME NEW i \in 1 .. n + 3
               PROVE  /\ r[i].part # "other"
                      /\ r[i].part = "first" =>
                           /\ i + 2 <= n + 3
                           /\ r[i + 1] = Piece("length", r[i].of)
                           /\ r[i + 2] = Piece("last", r[i].of)
                      /\ r[i].part = "length" => i > 1 /\ r[i - 1].part = "first"
                      /\ r[i].part = "last" => i > 1 /\ r[i - 1].part = "length"
    BY <1>1 DEF Framed
  <2>1. CASE i \in 1 .. n
    <3>1. /\ q[i].part # "other"
          /\ q[i].part = "first" => /\ i + 2 <= n
                                    /\ q[i + 1] = Piece("length", q[i].of)
                                    /\ q[i + 2] = Piece("last", q[i].of)
          /\ q[i].part = "length" => i > 1 /\ q[i - 1].part = "first"
          /\ q[i].part = "last" => i > 1 /\ q[i - 1].part = "length"
      BY <1>4, <2>1 DEF Framed, n
    <3> QED
      BY <1>1, <2>1, <3>1
  <2>2. CASE i = n + 1
    BY <1>1, <1>3, <2>2
  <2>3. CASE i = n + 2
    BY <1>1, <1>3, <2>3
  <2>4. CASE i = n + 3
    BY <1>1, <1>3, <2>4
  <2> QED
    BY <1>2, <2>1, <2>2, <2>3, <2>4
<1>5. \A i \in 1 .. n + 3 : Confirms(r[i]) => i \in 1 .. n /\ Confirms(q[i])
  BY <1>1, <1>2, <1>3 DEF Confirms
<1>6. \A i \in 1 .. n : Confirms(q[i]) => i \in 1 .. n + 3 /\ Confirms(r[i])
  BY <1>1
<1>7. OneConfirms(q) => OneConfirms(r)
  BY <1>1, <1>5 DEF OneConfirms, n
<1>8. AnyConfirms(r) <=> AnyConfirms(q)
  BY <1>1, <1>5, <1>6 DEF AnyConfirms, n
<1>9. ASSUME EchoSettled(q), t \in Foreign
      PROVE  EchoSettled(r)
  <2> SUFFICES ASSUME NEW i \in 1 .. n + 3, r[i].part = "first"
               PROVE  r[i].of \in Foreign \/ \E j \in i + 1 .. n + 3 : Confirms(r[j])
    BY <1>1 DEF EchoSettled
  <2>1. CASE i \in 1 .. n
    <3>1. q[i].of \in Foreign \/ \E j \in i + 1 .. n : Confirms(q[j])
      BY <1>1, <1>9, <2>1 DEF EchoSettled, n
    <3> QED
      BY <1>1, <1>6, <2>1, <3>1
  <2> QED
    BY <1>2, <1>3, <1>9, <2>1
<1>10. ASSUME FollowsEcho(q, c, ok)
       PROVE  FollowsEcho(r, c, ok)
  <2> SUFFICES ASSUME NEW i \in 1 .. n + 3, r[i].part = "0x8B"
               PROVE  /\ r[i].of \in ok
                      /\ IF i = 1 THEN c = r[i].of ELSE r[i - 1] = Piece("last", r[i].of)
    BY <1>1 DEF FollowsEcho
  <2>1. i \in 1 .. n
    BY <1>2, <1>3
  <2>2. /\ q[i].of \in ok
        /\ IF i = 1 THEN c = q[i].of ELSE q[i - 1] = Piece("last", q[i].of)
    BY <1>1, <1>10, <2>1 DEF FollowsEcho, n
  <2> QED
    BY <1>1, <2>1, <2>2
<1>11. r # <<>> /\ r[Len(r)] = Piece("last", t)
  BY <1>1, EmptySeq
<1> QED
  BY <1>1, <1>4, <1>7, <1>8, <1>9, <1>10, <1>11 DEF r

LEMMA AppendConfirm ==
  ASSUME NEW q \in Seq(Pieces), NEW p \in Pieces, Confirms(p), NEW c, NEW ok
  PROVE  LET r == Append(q, p)
         IN  /\ r \in Seq(Pieces)
             /\ Framed(q) => Framed(r)
             /\ ~AnyConfirms(q) => OneConfirms(r)
             /\ AnyConfirms(r)
             /\ EchoSettled(r)
             /\ FollowsEcho(q, c, ok) /\
                  (p.part = "0x8B" =>
                     p.of \in ok /\ q # <<>> /\ q[Len(q)] = Piece("last", p.of)) =>
                  FollowsEcho(r, c, ok)
<1> DEFINE r == Append(q, p)
           n == Len(q)
<1>1. /\ r \in Seq(Pieces) /\ n \in Nat /\ Len(r) = n + 1
      /\ \A i \in 1 .. n : r[i] = q[i]
      /\ r[n + 1] = p
  BY AppendProperties
<1>2. \A i \in 1 .. n + 1 : i \in 1 .. n \/ i = n + 1
  BY <1>1
<1>3. n # 0 <=> q # <<>>
  BY EmptySeq
<1> HIDE DEF r, n
<1>4. ASSUME Framed(q)
      PROVE  Framed(r)
  <2> SUFFICES ASSUME NEW i \in 1 .. n + 1
               PROVE  /\ r[i].part # "other"
                      /\ r[i].part = "first" =>
                           /\ i + 2 <= n + 1
                           /\ r[i + 1] = Piece("length", r[i].of)
                           /\ r[i + 2] = Piece("last", r[i].of)
                      /\ r[i].part = "length" => i > 1 /\ r[i - 1].part = "first"
                      /\ r[i].part = "last" => i > 1 /\ r[i - 1].part = "length"
    BY <1>1 DEF Framed
  <2>1. CASE i \in 1 .. n
    <3>1. /\ q[i].part # "other"
          /\ q[i].part = "first" => /\ i + 2 <= n
                                    /\ q[i + 1] = Piece("length", q[i].of)
                                    /\ q[i + 2] = Piece("last", q[i].of)
          /\ q[i].part = "length" => i > 1 /\ q[i - 1].part = "first"
          /\ q[i].part = "last" => i > 1 /\ q[i - 1].part = "length"
      BY <1>4, <2>1 DEF Framed, n
    <3> QED
      BY <1>1, <2>1, <3>1
  <2>2. CASE i = n + 1
    BY <1>1, <2>2 DEF Confirms
  <2> QED
    BY <1>2, <2>1, <2>2
<1>5. ~AnyConfirms(q) => OneConfirms(r)
  BY <1>1, <1>2 DEF OneConfirms, AnyConfirms, n
<1>6. AnyConfirms(r)
  BY <1>1 DEF AnyConfirms
<1>7. EchoSettled(r)
  <2> SUFFICES ASSUME NEW i \in 1 .. n + 1, r[i].part = "first"
               PROVE  \E j \in i + 1 .. n + 1 : Confirms(r[j])
    BY <1>1 DEF EchoSettled
  <2>1. i # n + 1
    BY <1>1 DEF Confirms
  <2> QED
    BY <1>1, <2>1
<1>8. ASSUME FollowsEcho(q, c, ok),
             p.part = "0x8B" => p.of \in ok /\ q # <<>> /\ q[n] = Piece("last", p.of)
      PROVE  FollowsEcho(r, c, ok)
  <2> SUFFICES ASSUME NEW i \in 1 .. n + 1, r[i].part = "0x8B"
               PROVE  /\ r[i].of \in ok
                      /\ IF i = 1 THEN c = r[i].of ELSE r[i - 1] = Piece("last", r[i].of)
    BY <1>1 DEF FollowsEcho
  <2>1. CASE i \in 1 .. n
    <3>1. /\ q[i].of \in ok
          /\ IF i = 1 THEN c = q[i].of ELSE q[i - 1] = Piece("last", q[i].of)
      BY <1>1, <1>8, <2>1 DEF FollowsEcho, n
    <3> QED
      BY <1>1, <2>1, <3>1
  <2>2. CASE i = n + 1
    <3>1. p.of \in ok /\ n # 0 /\ q[n] = Piece("last", p.of)
      BY <1>1, <1>3, <1>8, <2>2
    <3>2. n \in 1 .. n /\ i # 1 /\ i - 1 = n
      BY <1>1, <2>2, <3>1
    <3> QED
      BY <1>1, <2>2, <3>1, <3>2
  <2> QED
    BY <1>2, <2>1, <2>2
<1> QED
  BY <1>1, <1>4, <1>5, <1>6, <1>7, <1>8 DEF r, n

\* The confirmation at the head is read.
LEMMA DropConfirm ==
  ASSUME NEW q \in Seq(Pieces), q # <<>>, Confirms(q[1]), NEW c, NEW ok,
         Framed(q), OneConfirms(q), EchoSettled(q)
  PROVE  LET r == Tail(q)
         IN  /\ Framed(r) /\ OneConfirms(r) /\ EchoSettled(r) /\ FollowsEcho(r, c, ok)
             /\ ~AnyConfirms(r)
<1> DEFINE r == Tail(q)
           n == Len(q) - 1
<1>1. /\ n \in Nat /\ Len(q) = n + 1 /\ Len(r) = n
      /\ \A i \in 1 .. n : r[i] = q[i + 1] /\ i + 1 \in 1 .. n + 1 /\ i + 1 # 1
  BY HeadTailProperties, EmptySeq
<1> HIDE DEF r, n
<1>2. \A i \in 1 .. n : ~Confirms(r[i])
  BY <1>1 DEF OneConfirms
<1>3. OneConfirms(r) /\ ~AnyConfirms(r) /\ FollowsEcho(r, c, ok)
  BY <1>1, <1>2 DEF OneConfirms, AnyConfirms, FollowsEcho, Confirms
<1>4. Framed(r)
  <2> SUFFICES ASSUME NEW i \in 1 .. n
               PROVE  /\ r[i].part # "other"
                      /\ r[i].part = "first" =>
                           /\ i + 2 <= n
                           /\ r[i + 1] = Piece("length", r[i].of)
                           /\ r[i + 2] = Piece("last", r[i].of)
                      /\ r[i].part = "length" => i > 1 /\ r[i - 1].part = "first"
                      /\ r[i].part = "last" => i > 1 /\ r[i - 1].part = "length"
    BY <1>1 DEF Framed
  <2> DEFINE k == i + 1
  <2>1. /\ q[k].part # "other"
        /\ q[k].part = "first" => /\ k + 2 <= n + 1
                                  /\ q[k + 1] = Piece("length", q[k].of)
                                  /\ q[k + 2] = Piece("last", q[k].of)
        /\ q[k].part = "length" => q[k - 1].part = "first"
        /\ q[k].part = "last" => q[k - 1].part = "length"
    BY <1>1 DEF Framed
  <2>2. q[1].part \notin {"first", "length"}
    BY DEF Confirms
  <2>3. k - 1 = i
    BY <1>1
  <2>4. r[i] = q[k]
    BY <1>1
  <2>5. q[k].part = "first" => /\ i + 2 <= n
                              /\ r[i + 1] = q[k + 1] /\ r[i + 2] = q[k + 2]
    BY <1>1, <2>1
  <2>6. i > 1 => r[i - 1] = q[k - 1]
    BY <1>1, <2>3
  <2> QED
    BY <1>1, <2>1, <2>2, <2>3, <2>4, <2>5, <2>6
<1>5. EchoSettled(r)
  <2> SUFFICES ASSUME NEW i \in 1 .. n, r[i].part = "first"
               PROVE  r[i].of \in Foreign
    BY <1>1 DEF EchoSettled
  <2>1. q[i + 1].of \in Foreign \/ \E j \in (i + 1) + 1 .. n + 1 : Confirms(q[j])
    BY <1>1 DEF EchoSettled
  <2>2. ASSUME NEW j \in (i + 1) + 1 .. n + 1, Confirms(q[j])
        PROVE  FALSE
    <3>1. j - 1 \in 1 .. n /\ (j - 1) + 1 = j
      BY <1>1
    <3> QED
      BY <1>1, <1>2, <2>2, <3>1
  <2> QED
    BY <1>1, <2>1, <2>2
<1> QED
  BY <1>3, <1>4, <1>5 DEF r

\* The telegram at the head has been read.
LEMMA DropFrame ==
  ASSUME NEW q \in Seq(Pieces), q # <<>>, q[1].part = "first",
         NEW r \in Seq(Pieces), Len(q) = Len(r) + 3,
         \A i \in 1 .. Len(r) : r[i] = q[i + 3],
         Framed(q), NEW ok
  PROVE  /\ q[2] = Piece("length", q[1].of) /\ q[3] = Piece("last", q[1].of)
         /\ Framed(r)
         /\ OneConfirms(q) => OneConfirms(r)
         /\ AnyConfirms(r) <=> AnyConfirms(q)
         /\ EchoSettled(q) => EchoSettled(r)
         /\ EchoSettled(q) /\ ~AnyConfirms(q) => q[1].of \in Foreign
         /\ \A c : FollowsEcho(q, c, ok) => FollowsEcho(r, q[1].of, ok)
<1> DEFINE n == Len(r)
<1>1. n \in Nat /\ Len(q) = n + 3
  BY LenProperties
<1>2. /\ q[2] = Piece("length", q[1].of) /\ q[3] = Piece("last", q[1].of)
  BY <1>1 DEF Framed
<1>3. /\ q[2].part = "length" /\ q[3].part = "last" /\ q[3].of = q[1].of
  BY <1>2 DEF Piece
<1>4. \A i \in 1 .. n : r[i] = q[i + 3]
  OBVIOUS
<1>5. \A j \in 1 .. n + 3 :
        Confirms(q[j]) => j - 3 \in 1 .. n /\ (j - 3) + 3 = j /\ Confirms(r[j - 3])
  <2> SUFFICES ASSUME NEW j \in 1 .. n + 3, Confirms(q[j])
               PROVE  j - 3 \in 1 .. n /\ (j - 3) + 3 = j /\ Confirms(r[j - 3])
    OBVIOUS
  <2>1. j # 1 /\ j # 2 /\ j # 3
    BY <1>3 DEF Confirms
  <2>2. j - 3 \in 1 .. n /\ (j - 3) + 3 = j
    BY <1>1, <2>1
  <2> QED
    BY <1>4, <2>2
<1>6. \A i \in 1 .. n : i + 3 \in 1 .. n + 3
  BY <1>1
<1> HIDE DEF n
<1>7. Framed(r)
  <2> SUFFICES ASSUME NEW i \in 1 .. n
               PROVE  /\ r[i].part # "other"
                      /\ r[i].part = "first" =>
                           /\ i + 2 <= n
                           /\ r[i + 1] = Piece("length", r[i].of)
                           /\ r[i + 2] = Piece("last", r[i].of)
                      /\ r[i].part = "length" => i > 1 /\ r[i - 1].part = "first"
                      /\ r[i].part = "last" => i > 1 /\ r[i - 1].part = "length"
    BY DEF Framed, n
  <2> DEFINE k == i + 3
  <2>1. k \in 1 .. n + 3 /\ k > 1 /\ r[i] = q[k]
    BY <1>1, <1>4, <1>6
  <2>2. /\ q[k].part # "other"
        /\ q[k].part = "first" => /\ k + 2 <= n + 3
                                  /\ q[k + 1] = Piece("length", q[k].of)
                                  /\ q[k + 2] = Piece("last", q[k].of)
        /\ q[k].part = "length" => q[k - 1].part = "first"
        /\ q[k].part = "last" => q[k - 1].part = "length"
    BY <1>1, <2>1 DEF Framed
  <2>3. i > 1 => r[i - 1] = q[k - 1]
    <3>1. i > 1 => i - 1 \in 1 .. n /\ (i - 1) + 3 = k - 1
      BY <1>1
    <3> QED
      BY <1>4, <3>1
  <2>4. i = 1 => k - 1 = 3
    OBVIOUS
  <2>5. i + 2 <= n => r[i + 1] = q[k + 1] /\ r[i + 2] = q[k + 2]
    <3>1. i + 2 <= n => /\ i + 1 \in 1 .. n /\ (i + 1) + 3 = k + 1
                        /\ i + 2 \in 1 .. n /\ (i + 2) + 3 = k + 2
      BY <1>1
    <3> QED
      BY <1>4, <3>1
  <2>6. k + 2 <= n + 3 => i + 2 <= n
    BY <1>1
  <2> HIDE DEF k
  <2>7. i # 1 => i > 1
    BY <1>1
  <2> QED
    BY <1>3, <2>1, <2>2, <2>3, <2>4, <2>5, <2>6, <2>7
<1>8. OneConfirms(q) => OneConfirms(r)
  <2> SUFFICES ASSUME OneConfirms(q), NEW i \in 1 .. n, NEW j \in 1 .. n,
                      Confirms(r[i]), Confirms(r[j])
               PROVE  i = j
    BY DEF OneConfirms, n
  <2>1. i + 3 = j + 3
    BY <1>1, <1>4, <1>6 DEF OneConfirms
  <2> QED
    BY <1>1, <2>1
<1>9. AnyConfirms(r) <=> AnyConfirms(q)
  BY <1>1, <1>4, <1>5, <1>6 DEF AnyConfirms, n
<1>10. ASSUME EchoSettled(q)
       PROVE  EchoSettled(r)
  <2> SUFFICES ASSUME NEW i \in 1 .. n, r[i].part = "first"
               PROVE  r[i].of \in Foreign \/ \E j \in i + 1 .. n : Confirms(r[j])
    BY DEF EchoSettled, n
  <2>1. q[i + 3].of \in Foreign \/ \E j \in (i + 3) + 1 .. n + 3 : Confirms(q[j])
    BY <1>1, <1>4, <1>6, <1>10 DEF EchoSettled
  <2>2. ASSUME NEW j \in (i + 3) + 1 .. n + 3, Confirms(q[j])
        PROVE  \E l \in i + 1 .. n : Confirms(r[l])
    <3>1. j \in 1 .. n + 3 /\ j - 3 \in i + 1 .. n
      BY <1>1
    <3> QED
      BY <1>5, <2>2, <3>1
  <2> QED
    BY <1>4, <2>1, <2>2
<1>11. EchoSettled(q) /\ ~AnyConfirms(q) => q[1].of \in Foreign
  <2>1. 1 \in 1 .. n + 3 /\ \A j \in 1 + 1 .. n + 3 : j \in 1 .. n + 3
    BY <1>1
  <2> QED
    BY <1>1, <2>1 DEF EchoSettled, AnyConfirms
<1>12. ASSUME NEW c, FollowsEcho(q, c, ok)
       PROVE  FollowsEcho(r, q[1].of, ok)
  <2> SUFFICES ASSUME NEW i \in 1 .. n, r[i].part = "0x8B"
               PROVE  /\ r[i].of \in ok
                      /\ IF i = 1 THEN q[1].of = r[i].of
                                  ELSE r[i - 1] = Piece("last", r[i].of)
    BY DEF FollowsEcho, n
  <2>1. q[i + 3].of \in ok /\ q[(i + 3) - 1] = Piece("last", q[i + 3].of)
    <3>1. i + 3 \in 1 .. n + 3 /\ i + 3 # 1 /\ r[i] = q[i + 3]
      BY <1>1, <1>4
    <3> QED
      BY <1>1, <1>12, <3>1 DEF FollowsEcho
  <2>2. CASE i = 1
    <3>1. q[3] = Piece("last", r[i].of) /\ r[i].of \in ok
      BY <1>4, <2>1, <2>2
    <3> QED
      BY <1>3, <2>2, <3>1 DEF Piece
  <2>3. CASE i # 1
    <3>1. i - 1 \in 1 .. n /\ (i - 1) + 3 = (i + 3) - 1
      BY <1>1, <2>3
    <3> QED
      BY <1>4, <2>1, <2>3, <3>1
  <2> QED
    BY <2>2, <2>3
<1> QED
  BY <1>2, <1>7, <1>8, <1>9, <1>10, <1>11, <1>12

------------------------------------------------------------------------------
(* Answers in two parts                                                    *)

\* One more answer leaves what is before the others, and follows the last part
\* if it is none itself.
LEMMA PartBeforeKept ==
  ASSUME NEW items \in Seq(Answers), NEW x \in Answers, NEW g, NEW a,
         NEW i \in 1 .. Len(items) + 1, PartBefore(items, g, i, a)
  PROVE  /\ PartBefore(Append(items, x), g, i, a)
         /\ i = Len(items) + 1 /\ ~IsPart(x) => PartBefore(Append(items, x), g, i + 1, a)
<1> DEFINE n == Len(items)
           r == Append(items, x)
<1>1. /\ n \in Nat
      /\ \A j \in 1 .. n : r[j] = items[j]
      /\ r[n + 1] = x
  BY AppendProperties, LenProperties
<1>2. i \in 1 .. n + 1
  OBVIOUS
<1> HIDE DEF n, r
<1>3. CASE g = a /\ NoPart(items, 1, i - 1)
  <2>1. \A j \in 1 .. i - 1 : j \in 1 .. n
    BY <1>1, <1>2
  <2>2. NoPart(r, 1, i - 1)
    BY <1>1, <1>3, <2>1 DEF NoPart
  <2>3. i = n + 1 /\ ~IsPart(x) => NoPart(r, 1, (i + 1) - 1)
    <3>1. i = n + 1 => \A j \in 1 .. (i + 1) - 1 : j \in 1 .. i - 1 \/ j = n + 1
      BY <1>1
    <3> QED
      BY <1>1, <2>2, <3>1 DEF NoPart
  <2> QED
    BY <1>3, <2>2, <2>3 DEF PartBefore, r, n
<1>4. ASSUME NEW j \in 1 .. i - 1, items[j] = a, NoPart(items, j + 1, i - 1)
      PROVE  /\ PartBefore(r, g, i, a)
             /\ i = n + 1 /\ ~IsPart(x) => PartBefore(r, g, i + 1, a)
  <2>1. j \in 1 .. n /\ \A l \in j + 1 .. i - 1 : l \in 1 .. n
    BY <1>1, <1>2
  <2>2. r[j] = a /\ NoPart(r, j + 1, i - 1)
    BY <1>1, <1>4, <2>1 DEF NoPart
  <2>3. i = n + 1 /\ ~IsPart(x) => NoPart(r, j + 1, (i + 1) - 1)
    <3>1. i = n + 1 => \A l \in j + 1 .. (i + 1) - 1 : l \in j + 1 .. i - 1 \/ l = n + 1
      BY <1>1
    <3> QED
      BY <1>1, <2>2, <3>1 DEF NoPart
  <2>4. j \in 1 .. (i + 1) - 1
    BY <1>1, <1>2
  <2> QED
    BY <2>2, <2>3, <2>4 DEF PartBefore
<1> QED
  BY <1>3, <1>4 DEF PartBefore, r, n

\* An answer that is no second part.
LEMMA PairedAppend ==
  ASSUME NEW items \in Seq(Answers), NEW x \in Answers, NEW g, NEW e,
         PartsPaired(items, g, e), x.kind # "second"
  PROVE  /\ PartsPaired(Append(items, x), g, None)
         /\ ~IsPart(x) => PartsPaired(Append(items, x), g, e)
         /\ \A f : x = Item("first", f) => PartsPaired(Append(items, x), g, f)
<1> DEFINE n == Len(items)
           r == Append(items, x)
<1>1. /\ n \in Nat /\ Len(r) = n + 1
      /\ \A j \in 1 .. n : r[j] = items[j]
      /\ r[n + 1] = x
  BY AppendProperties, LenProperties
<1>2. ASSUME NEW i \in 1 .. n + 1, r[i].kind = "second"
      PROVE  PartBefore(r, g, i, Item("first", r[i].arg))
  <2>1. i \in 1 .. n
    BY <1>1, <1>2
  <2>2. PartBefore(items, g, i, Item("first", items[i].arg)) /\ r[i] = items[i]
    BY <1>1, <1>2, <2>1 DEF PartsPaired
  <2>3. i \in 1 .. Len(items) + 1
    BY <1>2
  <2>4. PartBefore(r, g, i, Item("first", items[i].arg))
    BY <2>2, <2>3, PartBeforeKept
  <2> QED
    BY <2>2, <2>4
<1>3. ASSUME ~IsPart(x), e # None
      PROVE  PartBefore(r, g, (n + 1) + 1, Item("first", e))
  <2>1. PartBefore(items, g, n + 1, Item("first", e)) /\ n + 1 \in 1 .. n + 1
    BY <1>1, <1>3 DEF PartsPaired
  <2> QED
    BY <1>3, <2>1, PartBeforeKept
<1>4. ASSUME NEW f, x = Item("first", f)
      PROVE  PartBefore(r, g, (n + 1) + 1, Item("first", f))
  <2>1. n + 1 \in 1 .. ((n + 1) + 1) - 1 /\ r[n + 1] = Item("first", f)
    BY <1>1, <1>4
  <2>2. NoPart(r, (n + 1) + 1, ((n + 1) + 1) - 1)
    BY <1>1 DEF NoPart
  <2> QED
    BY <2>1, <2>2 DEF PartBefore
<1> QED
  BY <1>1, <1>2, <1>3, <1>4 DEF PartsPaired

\* The second part that was due.
LEMMA PairedSecond ==
  ASSUME NEW items \in Seq(Answers), NEW g, NEW e, e # None,
         Item("second", e) \in Answers, PartsPaired(items, g, e)
  PROVE  PartsPaired(Append(items, Item("second", e)), g, None)
<1> DEFINE n == Len(items)
           x == Item("second", e)
           r == Append(items, x)
<1>1. /\ n \in Nat /\ Len(r) = n + 1
      /\ \A j \in 1 .. n : r[j] = items[j]
      /\ r[n + 1] = x
  BY AppendProperties, LenProperties
<1>2. ASSUME NEW i \in 1 .. n + 1, r[i].kind = "second"
      PROVE  PartBefore(r, g, i, Item("first", r[i].arg))
  <2>1. CASE i \in 1 .. n
    <3>1. PartBefore(items, g, i, Item("first", items[i].arg)) /\ r[i] = items[i]
      BY <1>1, <1>2, <2>1 DEF PartsPaired
    <3>2. PartBefore(r, g, i, Item("first", items[i].arg))
      BY <1>2, <3>1, PartBeforeKept
    <3> QED
      BY <3>1, <3>2
  <2>2. CASE i = n + 1
    <3>1. PartBefore(items, g, n + 1, Item("first", e))
      BY DEF PartsPaired
    <3>2. PartBefore(r, g, n + 1, Item("first", e))
      BY <1>2, <2>2, <3>1, PartBeforeKept
    <3>3. r[i].arg = e
      BY <1>1, <2>2 DEF Item
    <3> QED
      BY <2>2, <3>2, <3>3
  <2> QED
    BY <1>1, <2>1, <2>2
<1> QED
  BY <1>1, <1>2 DEF PartsPaired

\* The first k answers have gone to the host, h is the last part it has seen.
LEMMA PairedPass ==
  ASSUME NEW items \in Seq(Answers), NEW k \in 0 .. Len(items), NEW g, NEW e, NEW h,
         PartsPaired(items, g, e),
         \/ NoPart(items, 1, k) /\ h = g
         \/ \E j \in 1 .. k : IsPart(items[j]) /\ NoPart(items, j + 1, k) /\ h = items[j]
  PROVE  PartsPaired(SubSeq(items, k + 1, Len(items)), h, e)
<1> DEFINE n == Len(items)
           r == SubSeq(items, k + 1, n)
<1>1. n \in Nat /\ k \in Nat /\ k <= n
  BY LenProperties
<1>2. /\ Len(r) = n - k
      /\ \A i \in 1 .. n - k : r[i] = items[i + k]
  <2>1. \A i \in k + 1 .. n : items[i] \in Answers
    BY <1>1, ElementOfSeq
  <2>2. k + 1 \in Int /\ n \in Int
    BY <1>1
  <2> HIDE DEF n
  <2>3. /\ Len(r) = IF k + 1 <= n THEN n - (k + 1) + 1 ELSE 0
        /\ \A i \in 1 .. n - (k + 1) + 1 : r[i] = items[(k + 1) + i - 1]
    BY <2>1, <2>2, SubSeqProperties
  <2>4. \A i \in 1 .. n - k : i \in 1 .. n - (k + 1) + 1 /\ (k + 1) + i - 1 = i + k
    BY <1>1
  <2> QED
    BY <1>1, <2>3, <2>4
<1> HIDE DEF n, r
<1>3. ASSUME NEW i \in 1 .. (n - k) + 1, NEW a, IsPart(a), PartBefore(items, g, i + k, a)
      PROVE  PartBefore(r, h, i, a)
  <2>1. \A l \in 1 .. i - 1 : /\ l \in 1 .. n - k /\ r[l] = items[l + k]
                              /\ l + k \in k + 1 .. (i + k) - 1
    BY <1>1, <1>2
  <2>2. CASE g = a /\ NoPart(items, 1, (i + k) - 1)
    <3>1. \A l \in 1 .. k : l \in 1 .. (i + k) - 1
      BY <1>1
    <3>2. h = g
      BY <2>2, <3>1 DEF NoPart
    <3>3. \A l \in 1 .. i - 1 : l + k \in 1 .. (i + k) - 1
      BY <1>1
    <3>4. NoPart(r, 1, i - 1)
      BY <2>1, <2>2, <3>3 DEF NoPart
    <3> QED
      BY <2>2, <3>2, <3>4 DEF PartBefore
  <2>3. ASSUME NEW j \in 1 .. (i + k) - 1, items[j] = a, NoPart(items, j + 1, (i + k) - 1)
        PROVE  PartBefore(r, h, i, a)
    <3>1. CASE j > k
      <4>1. j - k \in 1 .. i - 1 /\ (j - k) + k = j
        BY <1>1, <3>1
      <4>2. r[j - k] = a
        BY <2>1, <2>3, <4>1
      <4>3. \A l \in (j - k) + 1 .. i - 1 : l \in 1 .. i - 1 /\ l + k \in j + 1 .. (i + k) - 1
        BY <1>1, <3>1
      <4>4. NoPart(r, (j - k) + 1, i - 1)
        BY <2>1, <2>3, <4>3 DEF NoPart
      <4> QED
        BY <4>1, <4>2, <4>4 DEF PartBefore
    <3>2. CASE ~(j > k)
      <4>1. j \in 1 .. k /\ \A l \in j + 1 .. k : l \in j + 1 .. (i + k) - 1
        BY <1>1, <3>2
      <4>2. PICK m \in 1 .. k : IsPart(items[m]) /\ NoPart(items, m + 1, k) /\ h = items[m]
        BY <1>3, <2>3, <4>1 DEF NoPart
      <4>3. ~(m < j)
        <5>1. m < j => j \in m + 1 .. k
          BY <4>1
        <5> QED
          BY <1>3, <2>3, <4>2, <5>1 DEF NoPart
      <4>4. ~(j < m)
        <5>1. j < m => m \in j + 1 .. k
          BY <4>1
        <5> QED
          BY <2>3, <4>1, <4>2, <5>1 DEF NoPart
      <4>5. h = a
        BY <2>3, <4>1, <4>2, <4>3, <4>4
      <4>6. \A l \in 1 .. i - 1 : l + k \in j + 1 .. (i + k) - 1
        BY <1>1, <4>1
      <4>7. NoPart(r, 1, i - 1)
        BY <2>1, <2>3, <4>6 DEF NoPart
      <4> QED
        BY <4>5, <4>7 DEF PartBefore
    <3> QED
      BY <3>1, <3>2
  <2> QED
    BY <1>3, <2>2, <2>3 DEF PartBefore
<1>4. \A f : IsPart(Item("first", f))
  BY DEF IsPart, Item
<1>5. ASSUME NEW i \in 1 .. n - k, r[i].kind = "second"
      PROVE  PartBefore(r, h, i, Item("first", r[i].arg))
  <2>1. i + k \in 1 .. n /\ i \in 1 .. (n - k) + 1 /\ r[i] = items[i + k]
    BY <1>1, <1>2
  <2>2. PartBefore(items, g, i + k, Item("first", r[i].arg))
    BY <1>5, <2>1 DEF PartsPaired, n
  <2> QED
    BY <1>3, <1>4, <2>1, <2>2
<1>6. ASSUME e # None
      PROVE  PartBefore(r, h, (n - k) + 1, Item("first", e))
  <2>1. ((n - k) + 1) + k = n + 1 /\ (n - k) + 1 \in 1 .. (n - k) + 1
    BY <1>1
  <2>2. PartBefore(items, g, n + 1, Item("first", e))
    BY <1>6 DEF PartsPaired, n
  <2>3. PartBefore(items, g, ((n - k) + 1) + k, Item("first", e))
    BY <2>1, <2>2
  <2> QED
    BY <1>3, <1>4, <2>1, <2>3
<1> QED
  BY <1>2, <1>5, <1>6 DEF PartsPaired, r, n

------------------------------------------------------------------------------
(* Types                                                                   *)

LEMMA InitIInv == Init => IInv
<1> SUFFICES ASSUME Init
             PROVE  IInv
  OBVIOUS
<1> DEFINE e == <<>>
<1>a. /\ e \in Seq(Message) /\ e \in Seq(Pieces) /\ e \in Seq(Answers)
      /\ Len(e) = 0 /\ e \o e = e
  OBVIOUS
<1>b. /\ inFT12_Buffer = e /\ inTPU_Buffer = e /\ toUSB_Buffer = e /\ toTPUART_Buffer = e
      /\ usb = e /\ line = e
  BY DEF Init
<1>c. /\ pc = "read" /\ waitTPUconfirm = FALSE /\ waitTPUreceiving = FALSE
      /\ confirmdata = None /\ E5next = None /\ request = None /\ pending = None
      /\ foreign = Foreign /\ confirmed = {} /\ disturbed = FALSE
  BY DEF Init
<1> HIDE DEF e
<1>1. GatewayType /\ OthersType
  <2>1. GatewayType
    <3>1. inFT12_Buffer \in Seq(Message) /\ toUSB_Buffer \in Seq(Answers)
      BY <1>a, <1>b
    <3>2. inTPU_Buffer \in Seq(Pieces) /\ Len(inTPU_Buffer) <= 2
      BY <1>a, <1>b
    <3> QED
      BY <1>c, <3>1, <3>2 DEF GatewayType
  <2>2. OthersType
    BY <1>a, <1>b, <1>c DEF OthersType
  <2> QED
    BY <2>1, <2>2
<1>d. 1 .. Len(e) = {}
  BY <1>a
<1>2. PartsPaired(toUSB_Buffer, got, E5next)
  BY <1>b, <1>c, <1>d DEF PartsPaired
<1>3. FromTPUART = e
  BY <1>a, <1>b DEF FromTPUART
<1>4. LineInv
  <2>1. Framed(e) /\ OneConfirms(e) /\ EchoSettled(e) /\ ~AnyConfirms(e)
    BY <1>d DEF Framed, OneConfirms, EchoSettled, AnyConfirms
  <2>2. FollowsEcho(e, confirmdata, confirmed)
    BY <1>d DEF FollowsEcho
  <2> QED
    BY <1>b, <1>c, <1>3, <2>1, <2>2 DEF LineInv, e
<1>5. NoReset /\ Truthful(toUSB_Buffer, confirmed)
  <2>2. NoReset
    BY <1>b, <1>c, <1>d DEF NoReset, e
  <2>3. Truthful(toUSB_Buffer, confirmed)
    BY <1>b, <1>d DEF Truthful
  <2> QED
    BY <2>2, <2>3
<1> QED
  BY <1>1, <1>2, <1>4, <1>5 DEF IInv, TypeOK, UndisturbedInv

LEMMA HostType ==
  ASSUME TypeOK, Host
  PROVE  TypeOK'
<1>1. GatewayType'
  BY DEF Host, HostSends, HostRepeats, HostResets, gateway, TypeOK, GatewayType
<1>2. UNCHANGED tpuart /\ (disturbed' = disturbed \/ disturbed' = TRUE)
  BY DEF Host, HostSends, HostRepeats, HostResets, Mishap, mishaps
<1>3. ASSUME NEW m \in Request, HostSends(m)
      PROVE  usb' \in Seq(Message) /\ request' \in Request \cup {Reset, None}
  BY <1>3 DEF HostSends, TypeOK, OthersType, Message
<1>4. CASE HostRepeats
  <2>1. request \in Message
    BY <1>4 DEF HostRepeats, TypeOK, OthersType, Message
  <2> QED
    BY <1>1, <1>2, <1>4, <2>1 DEF HostRepeats, tpuart, TypeOK, OthersType
<1>5. CASE HostResets
  <2>1. Reset \in Message /\ usb \in Seq(Message)
    BY DEF Message, TypeOK, OthersType
  <2>2. usb' \in Seq(Message) /\ request' \in Request \cup {Reset, None}
    BY <1>5, <2>1, AppendProperties DEF HostResets
  <2> QED
    BY <1>1, <1>2, <1>5, <2>2 DEF tpuart, TypeOK, OthersType
<1>6. CASE \E m \in Request : HostSends(m)
  BY <1>1, <1>2, <1>3, <1>6 DEF tpuart, TypeOK, OthersType
<1> QED
  BY <1>4, <1>5, <1>6 DEF Host

LEMMA BusType ==
  ASSUME TypeOK, Bus
  PROVE  TypeOK'
<1>1. GatewayType'
  BY DEF Bus, ForeignTelegram, Transmit, Overrun, gateway, TypeOK, GatewayType
<1>2. UNCHANGED host /\ (disturbed' = disturbed \/ disturbed' = TRUE)
  BY DEF Bus, ForeignTelegram, Transmit, Overrun, Mishap, mishaps
<1>3. ASSUME NEW t \in Foreign, ForeignTelegram(t)
      PROVE  OthersType'
  <2>1. line' \in Seq(Pieces)
    BY <1>3, AppendFrame DEF ForeignTelegram, TypeOK, OthersType
  <2> QED
    BY <1>2, <1>3, <2>1 DEF ForeignTelegram, host, TypeOK, OthersType
<1>4. CASE Transmit
  <2>1. pending \in Telegram
    BY <1>4 DEF Transmit, TypeOK, OthersType
  <2>2. Sent(pending) \in Pieces /\ Refused(pending) \in Pieces
    BY <2>1 DEF Sent, Refused, Piece, Pieces
  <2>3. line \in Seq(Pieces) /\ line \o Frame(pending) \in Seq(Pieces)
    BY <2>1, AppendFrame DEF TypeOK, OthersType
  <2>4. line' \in Seq(Pieces)
    <3> DEFINE q == line \o Frame(pending)
    <3>1. \/ line' = line \o Frame(pending) \o <<Sent(pending)>>
          \/ line' = line \o Frame(pending) \o <<Refused(pending)>>
          \/ line' = Append(line, Refused(pending))
      BY <1>4 DEF Transmit
    <3>2. /\ line \o Frame(pending) \o <<Sent(pending)>> = q \o <<Sent(pending)>>
          /\ line \o Frame(pending) \o <<Refused(pending)>> = q \o <<Refused(pending)>>
      OBVIOUS
    <3> HIDE DEF q
    <3>3. /\ \A p \in Pieces : q \o <<p>> \in Seq(Pieces)
          /\ \A p \in Pieces : Append(line, p) \in Seq(Pieces)
      BY <2>3, ConcatProperties, AppendProperties DEF q
    <3> QED
      BY <2>2, <3>1, <3>2, <3>3
  <2>5. confirmed' \subseteq Telegram /\ pending' = None /\ foreign' = foreign
    BY <1>4, <2>1 DEF Transmit, TypeOK, OthersType
  <2> QED
    BY <1>1, <1>2, <2>4, <2>5 DEF host, TypeOK, OthersType
<1>5. CASE Overrun
  <2>1. line' \in Seq(Pieces)
    BY <1>5, HeadTailProperties DEF Overrun, TypeOK, OthersType
  <2>2. UNCHANGED <<pending, foreign, confirmed>>
    BY <1>5 DEF Overrun
  <2> QED
    BY <1>1, <1>2, <2>1, <2>2 DEF host, TypeOK, OthersType
<1> QED
  BY <1>1, <1>3, <1>4, <1>5 DEF Bus, TypeOK

\* What the gateway reads from the TPUART.
LEMMA ByteRead ==
  ASSUME TypeOK, ReadByte
  PROVE  /\ Head(line) \in Pieces /\ Head(line) = line[1] /\ line' \in Seq(Pieces)
         /\ Received \in Seq(Pieces) /\ Len(Received) = Len(inTPU_Buffer) + 1
         /\ \A i \in 1 .. Len(inTPU_Buffer) : Received[i] = inTPU_Buffer[i]
         /\ Received[Len(inTPU_Buffer) + 1] = Head(line)
         /\ Received \o line' = inTPU_Buffer \o line
<1>1. line \in Seq(Pieces) /\ line # <<>> /\ line' = Tail(line) /\ inTPU_Buffer \in Seq(Pieces)
  BY DEF ReadByte, TypeOK, GatewayType, OthersType
<1>2. /\ Head(line) \in Pieces /\ Head(line) = line[1] /\ Tail(line) \in Seq(Pieces)
      /\ line = <<Head(line)>> \o Tail(line)
  BY <1>1, HeadTailProperties
<1>3. /\ Received \in Seq(Pieces) /\ Len(Received) = Len(inTPU_Buffer) + 1
      /\ \A i \in 1 .. Len(inTPU_Buffer) : Received[i] = inTPU_Buffer[i]
      /\ Received[Len(inTPU_Buffer) + 1] = Head(line)
  BY <1>1, <1>2, AppendProperties DEF Received
<1>4. Received \o Tail(line) = inTPU_Buffer \o line
  <2>1. Received = inTPU_Buffer \o <<Head(line)>>
    BY <1>1, <1>2 DEF Received
  <2> QED
    BY <1>1, <1>2, <2>1, ConcatAssociative
<1> QED
  BY <1>1, <1>2, <1>3, <1>4

LEMMA ReadType ==
  ASSUME TypeOK, NoByte \/ TelegramPart \/ TelegramComplete \/ Confirmation \/ UnhandledByte
  PROVE  TypeOK'
<1>1. /\ pc' \in {"read", "handle", "out"}
      /\ inFT12_Buffer' \in Seq(Message) /\ usb' \in Seq(Message)
      /\ UNCHANGED <<E5next, request, disturbed>>
  <2>1. ReadHost
    BY DEF NoByte, TelegramPart, TelegramComplete, Confirmation, UnhandledByte, ReadByte
  <2>2. usb' = <<>>
    BY <2>1 DEF ReadHost
  <2> QED
    BY <2>1, <2>2, ConcatProperties DEF ReadHost, mishaps, TypeOK, GatewayType, OthersType
<1>2. CASE NoByte
  BY <1>1, <1>2 DEF NoByte, tpuart, TypeOK, GatewayType, OthersType
<1> SUFFICES ASSUME ReadByte
             PROVE  TypeOK'
  BY <1>2 DEF TelegramPart, TelegramComplete, Confirmation, UnhandledByte
<1>3. OthersType'
  <2>1. line' \in Seq(Pieces) /\ UNCHANGED <<pending, foreign, confirmed>>
    BY ByteRead DEF ReadByte
  <2> QED
    BY <1>1, <2>1 DEF TypeOK, OthersType
<1>4. ASSUME NEW x \in Answers
      PROVE  Append(toUSB_Buffer, x) \in Seq(Answers)
  BY AppendProperties DEF TypeOK, GatewayType
<1>5. CASE TelegramPart
  <2>1. inTPU_Buffer' \in Seq(Pieces) /\ Len(inTPU_Buffer') <= 2
    BY <1>5, ByteRead DEF TelegramPart, TypeOK, GatewayType
  <2>2. waitTPUreceiving' \in BOOLEAN /\ UNCHANGED <<waitTPUconfirm, confirmdata, toUSB_Buffer>>
    BY <1>5 DEF TelegramPart
  <2> QED
    BY <1>1, <1>3, <2>1, <2>2 DEF TypeOK, GatewayType
<1>6. CASE TelegramComplete
  <2>1. Assembled(Received) \in Telegram \cup Foreign \cup {None, Garbage}
    <3>1. Received[1] \in Pieces
      BY <1>6, ByteRead, ElementOfSeq DEF TelegramComplete
    <3> QED
      BY <3>1 DEF Pieces, Assembled
  <2>2. Item("ind", Assembled(Received)) \in Answers
    BY <2>1 DEF Item, Answers
  <2>3. toUSB_Buffer' \in Seq(Answers)
    BY <1>4, <1>6, <2>2 DEF TelegramComplete, TypeOK, GatewayType
  <2>4. inTPU_Buffer' = <<>> /\ waitTPUreceiving' \in BOOLEAN /\ UNCHANGED waitTPUconfirm
    BY <1>6 DEF TelegramComplete
  <2>5. inTPU_Buffer' \in Seq(Pieces) /\ Len(inTPU_Buffer') <= 2
    BY <2>4
  <2>6. confirmdata' \in Telegram \cup Foreign \cup {None, Garbage}
    BY <1>6, <2>1 DEF TelegramComplete, TypeOK, GatewayType
  <2> QED
    BY <1>1, <1>3, <2>3, <2>4, <2>5, <2>6 DEF TypeOK, GatewayType
<1>7. CASE Confirmation
  <2>1. Item("con", confirmdata) \in Answers
    BY DEF Item, Answers, TypeOK, GatewayType
  <2>2. toUSB_Buffer' \in Seq(Answers)
    BY <1>4, <1>7, <2>1 DEF Confirmation, TypeOK, GatewayType
  <2>3. /\ waitTPUconfirm' \in BOOLEAN /\ waitTPUreceiving' \in BOOLEAN
        /\ UNCHANGED <<inTPU_Buffer, confirmdata>>
    BY <1>7 DEF Confirmation
  <2> QED
    BY <1>1, <1>3, <2>2, <2>3 DEF TypeOK, GatewayType
<1>8. CASE UnhandledByte
  <2>1. /\ waitTPUreceiving' \in BOOLEAN
        /\ UNCHANGED <<inTPU_Buffer, waitTPUconfirm, confirmdata, toUSB_Buffer>>
    BY <1>8 DEF UnhandledByte
  <2> QED
    BY <1>1, <1>3, <2>1 DEF TypeOK, GatewayType
<1> QED
  BY <1>2, <1>5, <1>6, <1>7, <1>8

\* An answer, or two, behind those that wait.
LEMMA AnswerType ==
  ASSUME TypeOK, NEW m \in Request
  PROVE  /\ \A x \in Answers : Append(toUSB_Buffer, x) \in Seq(Answers)
         /\ \A x \in Answers : toUSB_Buffer \o <<x>> = Append(toUSB_Buffer, x)
         /\ Item("E5", None) \in Answers /\ Item("status", None) \in Answers
         /\ m.cmd \in {"T_Data.req", "T_Connect.req", "unknown"} =>
              Item("first", m.arg) \in Answers
<1>1. toUSB_Buffer \in Seq(Answers)
  BY DEF TypeOK, GatewayType
<1>2. m.cmd \in {"T_Data.req", "T_Connect.req", "unknown"} => m.arg \in Stage \cup {None}
  BY ConstantAssumption DEF Request
<1> QED
  BY <1>1, <1>2, AppendProperties DEF Item, Answers

\* What the gateway does with the message at the head of its queue.
LEMMA HandleType ==
  ASSUME TypeOK,
         \/ HostConfirms \/ NoMessage \/ HandleReset
         \/ \E m \in Request :
              HandleStatus(m) \/ HoldL_Data(m) \/ HandleL_Data(m) \/ HandleLong(m)
  PROVE  TypeOK'
<1> DEFINE Kept == /\ pc' \in {"read", "handle", "out"}
                   /\ inTPU_Buffer' \in Seq(Pieces) /\ Len(inTPU_Buffer') <= 2
                   /\ waitTPUconfirm' \in BOOLEAN /\ waitTPUreceiving' \in BOOLEAN
                   /\ confirmdata' \in Telegram \cup Foreign \cup {None, Garbage}
           QueueKept == inFT12_Buffer' \in Seq(Message)
           AnswersKept == toUSB_Buffer' \in Seq(Answers) /\ E5next' \in Stage \cup {None}
<1>1. Kept /\ QueueKept /\ AnswersKept /\ OthersType' => TypeOK'
  BY DEF TypeOK, GatewayType
<1>2. UNCHANGED <<host, tpuart, mishaps>> => OthersType'
  BY DEF host, tpuart, mishaps, TypeOK, OthersType
<1>3. ASSUME inFT12_Buffer # <<>>
      PROVE  Tail(inFT12_Buffer) \in Seq(Message)
  BY <1>3, HeadTailProperties DEF TypeOK, GatewayType
<1>4. UNCHANGED <<inTPU_Buffer, waitTPUconfirm, waitTPUreceiving, confirmdata>> /\ pc' \in {pc, "out"}
        => Kept
  BY DEF TypeOK, GatewayType
<1>5. UNCHANGED inFT12_Buffer => QueueKept
  BY DEF TypeOK, GatewayType
<1>6. UNCHANGED <<toUSB_Buffer, E5next>> => AnswersKept
  BY DEF TypeOK, GatewayType
<1>7. toUSB_Buffer \in Seq(Answers) /\ E5next \in Stage \cup {None}
  BY DEF TypeOK, GatewayType
<1> HIDE DEF Kept, QueueKept, AnswersKept
<1>8. CASE HostConfirms
  <2>1. Item("second", E5next) \in Answers
    BY <1>7 DEF Item, Answers
  <2>2. Append(toUSB_Buffer, Item("second", E5next)) \in Seq(Answers)
    BY <1>7, <2>1, AppendProperties
  <2>3. AnswersKept
    BY <1>7, <1>8, <2>2 DEF HostConfirms, AnswersKept
  <2>4. QueueKept
    BY <1>3, <1>8 DEF HostConfirms, QueueKept
  <2> QED
    BY <1>1, <1>2, <1>4, <1>8, <2>3, <2>4 DEF HostConfirms
<1>9. CASE NoMessage
  BY <1>1, <1>2, <1>4, <1>5, <1>6, <1>9 DEF NoMessage
<1>10. CASE HandleReset
  <2>1. toUSB_Buffer \o <<Item("E5", None)>> \in Seq(Answers)
    BY <1>7 DEF Item, Answers
  <2>2. AnswersKept
    BY <1>7, <1>10, <2>1 DEF HandleReset, Answer, AnswersKept
  <2>3. QueueKept /\ inTPU_Buffer' \in Seq(Pieces) /\ Len(inTPU_Buffer') <= 2
    <3>1. inFT12_Buffer' = <<>> /\ inTPU_Buffer' = <<>>
      BY <1>10 DEF HandleReset
    <3>2. <<>> \in Seq(Message) /\ <<>> \in Seq(Pieces) /\ Len(<<>>) = 0
      OBVIOUS
    <3> QED
      BY <3>1, <3>2 DEF QueueKept
  <2>4. /\ pc' = "out" /\ waitTPUconfirm' = FALSE /\ waitTPUreceiving' = FALSE
        /\ UNCHANGED confirmdata /\ UNCHANGED <<host, tpuart, mishaps>>
    BY <1>10 DEF HandleReset, Handle
  <2>5. Kept
    BY <2>3, <2>4 DEF Kept, TypeOK, GatewayType
  <2> QED
    BY <1>1, <1>2, <2>2, <2>3, <2>4, <2>5
<1>11. ASSUME NEW m \in Request, HandleStatus(m)
       PROVE  TypeOK'
  <2>1. AnswersKept
    BY <1>7, <1>11, AnswerType DEF HandleStatus, Answer, AnswersKept
  <2>2. QueueKept
    BY <1>3, <1>11 DEF HandleStatus, Handle, QueueKept
  <2> QED
    BY <1>1, <1>2, <1>4, <1>11, <2>1, <2>2 DEF HandleStatus, Handle
<1>12. ASSUME NEW m \in Request, HoldL_Data(m)
       PROVE  TypeOK'
  BY <1>1, <1>2, <1>4, <1>5, <1>6, <1>12 DEF HoldL_Data, Handle
<1>13. ASSUME NEW m \in Request, HandleL_Data(m)
       PROVE  TypeOK'
  <2>1. AnswersKept
    BY <1>7, <1>13, AnswerType DEF HandleL_Data, Answer, AnswersKept
  <2>2. QueueKept
    BY <1>3, <1>13 DEF HandleL_Data, Handle, QueueKept
  <2>3. m.arg \in Telegram
    BY <1>13, ConstantAssumption DEF HandleL_Data, Request
  <2>4. /\ pc' = "out" /\ waitTPUconfirm' = TRUE /\ confirmdata' = m.arg
        /\ UNCHANGED <<inTPU_Buffer, waitTPUreceiving>>
        /\ pending' = m.arg /\ UNCHANGED <<host, mishaps, line, foreign, confirmed>>
    BY <1>13 DEF HandleL_Data, Handle
  <2>5. Kept
    BY <2>3, <2>4 DEF Kept, TypeOK, GatewayType
  <2>6. OthersType'
    BY <2>3, <2>4 DEF host, mishaps, TypeOK, OthersType
  <2> QED
    BY <1>1, <2>1, <2>2, <2>5, <2>6
<1>14. ASSUME NEW m \in Request, HandleLong(m)
       PROVE  TypeOK'
  <2>1. toUSB_Buffer' \in Seq(Answers)
    <3>1. Item("E5", None) \in Answers /\ Item("first", m.arg) \in Answers
      BY <1>14, AnswerType DEF HandleLong
    <3>2. toUSB_Buffer' = toUSB_Buffer \o (<<Item("E5", None)>> \o
            IF m.cmd = "unknown" THEN <<>> ELSE <<Item("first", m.arg)>>)
      BY <1>14 DEF HandleLong, Answer
    <3>3. <<Item("E5", None)>> \o
            (IF m.cmd = "unknown" THEN <<>> ELSE <<Item("first", m.arg)>>) \in Seq(Answers)
      BY <3>1
    <3> QED
      BY <1>7, <3>2, <3>3, ConcatProperties
  <2>2. E5next' \in Stage \cup {None}
    BY <1>14, ConstantAssumption DEF HandleLong, Request
  <2>3. QueueKept
    BY <1>3, <1>14 DEF HandleLong, Handle, QueueKept
  <2> QED
    BY <1>1, <1>2, <1>4, <1>14, <2>1, <2>2, <2>3 DEF HandleLong, Handle, AnswersKept
<1> QED
  BY <1>8, <1>9, <1>10, <1>11, <1>12, <1>13, <1>14

LEMMA OutgoingType ==
  ASSUME TypeOK, NEW k \in 0 .. Len(toUSB_Buffer), Outgoing(k)
  PROVE  TypeOK'
<1>1. toUSB_Buffer' \in Seq(Answers)
  <2>1. toUSB_Buffer \in Seq(Answers)
    BY DEF TypeOK, GatewayType
  <2>2. \A i \in k + 1 .. Len(toUSB_Buffer) : toUSB_Buffer[i] \in Answers
    BY <2>1, ElementOfSeq, LenProperties
  <2>3. k + 1 \in Int /\ Len(toUSB_Buffer) \in Int
    BY <2>1, LenProperties
  <2>4. SubSeq(toUSB_Buffer, k + 1, Len(toUSB_Buffer)) \in Seq(Answers)
    BY <2>2, <2>3, SubSeqProperties
  <2> QED
    BY <2>4 DEF Outgoing, Pass
<1>2. usb' \in Seq(Message)
  <2> DEFINE answers == {i \in 1 .. k : ~IsE5(toUSB_Buffer[i])}
             n == Cardinality(answers)
             some == [i \in 1 .. n |-> E5]
  <2>1. n \in Nat
    <3>1. k \in Int
      OBVIOUS
    <3>2. IsFiniteSet(1 .. k)
      BY <3>1, FS_Interval
    <3>3. answers \in SUBSET (1 .. k)
      OBVIOUS
    <3> HIDE DEF answers
    <3> QED
      BY <3>2, <3>3, FS_Subset, FS_CardinalityType
  <2>2. usb \in Seq(Message) /\ E5 \in Message
    BY DEF TypeOK, OthersType, Message
  <2>3. usb' = usb \o some
    BY DEF Outgoing, Pass
  <2> HIDE DEF n
  <2>4. some \in Seq(Message)
    BY <2>1, <2>2
  <2> HIDE DEF some
  <2> QED
    BY <2>2, <2>3, <2>4, ConcatProperties
<1>3. /\ pc' = "read" /\ request' \in {request, None}
      /\ UNCHANGED <<inFT12_Buffer, inTPU_Buffer, waitTPUconfirm, waitTPUreceiving,
                     confirmdata, E5next, disturbed>>
  BY DEF Outgoing, Pass, mishaps
<1>4. GatewayType'
  BY <1>1, <1>3 DEF TypeOK, GatewayType
<1>5. pending' \in {pending, None} /\ UNCHANGED <<foreign, confirmed>> /\ line' \in Seq(Pieces)
  <2>1. CASE PassReset
    <3>1. Other \in Pieces /\ line \in Seq(Pieces)
      BY DEF Other, Piece, Pieces, TypeOK, OthersType
    <3> QED
      BY <2>1, <3>1, AppendProperties DEF PassReset
  <2>2. CASE UNCHANGED tpuart
    BY <2>2 DEF tpuart, TypeOK, OthersType
  <2> QED
    BY <2>1, <2>2 DEF Outgoing
<1>6. OthersType'
  BY <1>2, <1>3, <1>5 DEF TypeOK, OthersType
<1> QED
  BY <1>4, <1>6 DEF TypeOK

LEMMA TypeStep == TypeOK /\ [Next]_vars => TypeOK'
<1> SUFFICES ASSUME TypeOK, [Next]_vars
             PROVE  TypeOK'
  OBVIOUS
<1>1. CASE Gateway
  BY <1>1, ReadType, HandleType, OutgoingType DEF Gateway
<1>2. CASE UNCHANGED vars
  BY <1>2 DEF vars, gateway, host, tpuart, mishaps, TypeOK, GatewayType, OthersType
<1> QED
  BY <1>1, <1>2, HostType, BusType DEF Next

------------------------------------------------------------------------------
(* Answers in two parts, step by step                                      *)

LEMMA PairedStep ==
  ASSUME TypeOK, PartsPaired(toUSB_Buffer, got, E5next), [Next]_vars
  PROVE  PartsPaired(toUSB_Buffer', got', E5next')
<1> DEFINE items == toUSB_Buffer
           Paired(x, e) == PartsPaired(x, got, e)
           Same == got' = got
<1>1. items \in Seq(Answers) /\ Paired(items, E5next) /\ E5next \in Stage \cup {None}
  BY DEF TypeOK, GatewayType
<1>2. CASE UNCHANGED <<toUSB_Buffer, got, E5next>>
  BY <1>2
<1>3. \A x \in Answers :
        x.kind # "second" =>
          /\ Append(items, x) \in Seq(Answers)
          /\ Paired(Append(items, x), None)
          /\ ~IsPart(x) => Paired(Append(items, x), E5next)
  BY <1>1, PairedAppend, AppendProperties
<1>4. \A e : \A y \in Seq(Answers), x \in Answers :
        x.kind # "second" /\ Paired(y, e) =>
          /\ Paired(Append(y, x), None)
          /\ ~IsPart(x) => Paired(Append(y, x), e)
          /\ \A f : x = Item("first", f) => Paired(Append(y, x), f)
  BY PairedAppend
<1>5. CASE Host \/ Bus \/ UNCHANGED vars
  BY <1>2, <1>5 DEF Host, HostSends, HostRepeats, HostResets, Bus, ForeignTelegram, Transmit,
                    Overrun, vars, gateway, host
<1>6. CASE NoByte \/ TelegramPart \/ UnhandledByte \/ NoMessage
  BY <1>2, <1>6 DEF NoByte, TelegramPart, UnhandledByte, NoMessage, ReadByte, ReadHost, host
<1>7. CASE TelegramComplete \/ Confirmation
  <2>1. UNCHANGED <<got, E5next>>
    BY <1>7 DEF TelegramComplete, Confirmation, ReadByte, ReadHost
  <2>2. TypeOK'
    BY <1>7, ReadType
  <2>3. CASE toUSB_Buffer' = toUSB_Buffer
    BY <1>2, <2>1, <2>3
  <2>4. ASSUME NEW k \in {"ind", "con"}, NEW a, toUSB_Buffer' = Append(toUSB_Buffer, Item(k, a))
        PROVE  PartsPaired(toUSB_Buffer', got', E5next')
    <3>1. Item(k, a) \in Answers
      <4>1. Append(items, Item(k, a)) \in Seq(Answers)
        BY <2>2, <2>4 DEF TypeOK, GatewayType
      <4>2. Len(items) + 1 \in 1 .. Len(Append(items, Item(k, a)))
            /\ Append(items, Item(k, a))[Len(items) + 1] = Item(k, a)
        BY <1>1
      <4> QED
        BY <4>1, <4>2, ElementOfSeq
    <3>2. Item(k, a).kind # "second" /\ ~IsPart(Item(k, a))
      BY <2>4 DEF Item, IsPart
    <3> QED
      BY <1>3, <2>1, <2>4, <3>1, <3>2
  <2> QED
    BY <1>7, <2>3, <2>4 DEF TelegramComplete, Confirmation
<1>8. CASE HostConfirms
  <2>1. got' = got /\ E5next' = None
    BY <1>8 DEF HostConfirms, host
  <2>2. CASE E5next = None
    BY <1>1, <1>8, <2>1, <2>2 DEF HostConfirms
  <2>3. CASE E5next # None
    <3>1. Item("second", E5next) \in Answers
      BY <1>1 DEF Item, Answers
    <3>2. Paired(Append(items, Item("second", E5next)), None)
      BY <1>1, <2>3, <3>1, PairedSecond
    <3> QED
      BY <1>8, <2>1, <2>3, <3>2 DEF HostConfirms
  <2> QED
    BY <2>2, <2>3
<1>9. Item("E5", None) \in Answers /\ Item("status", None) \in Answers
  BY DEF Item, Answers
<1>10. \A k \in {"E5", "status"} : Item(k, None).kind # "second" /\ ~IsPart(Item(k, None))
  BY DEF Item, IsPart
<1>11. /\ Paired(Append(items, Item("E5", None)), E5next)
       /\ Paired(Append(items, Item("E5", None)), None)
       /\ Paired(Append(items, Item("status", None)), E5next)
  BY <1>3, <1>9, <1>10
<1>12. \A x \in Answers : items \o <<x>> = Append(items, x)
  BY <1>1
<1>13. CASE HandleReset
  <2>1. toUSB_Buffer' = Append(items, Item("E5", None)) /\ UNCHANGED <<got, E5next>>
    BY <1>9, <1>12, <1>13 DEF HandleReset, Answer, host
  <2> QED
    BY <1>11, <2>1
<1>14. ASSUME NEW m \in Request, HandleStatus(m)
       PROVE  PartsPaired(toUSB_Buffer', got', E5next')
  <2>1. toUSB_Buffer' = Append(items, Item("status", None)) /\ UNCHANGED <<got, E5next>>
    BY <1>9, <1>12, <1>14 DEF HandleStatus, Answer, host
  <2> QED
    BY <1>11, <2>1
<1>15. ASSUME NEW m \in Request, HoldL_Data(m)
       PROVE  PartsPaired(toUSB_Buffer', got', E5next')
  BY <1>2, <1>15 DEF HoldL_Data, host
<1>16. ASSUME NEW m \in Request, HandleL_Data(m)
       PROVE  PartsPaired(toUSB_Buffer', got', E5next')
  <2>1. /\ toUSB_Buffer' = Append(items, Item("E5", None))
        /\ E5next' = None /\ UNCHANGED got
    BY <1>9, <1>12, <1>16 DEF HandleL_Data, Answer, host
  <2> QED
    BY <1>11, <2>1
<1>17. ASSUME NEW m \in Request, HandleLong(m)
       PROVE  PartsPaired(toUSB_Buffer', got', E5next')
  <2> DEFINE x == Item("E5", None)
             y == Item("first", m.arg)
             e == IF m.cmd = "T_Data.req" THEN m.arg ELSE None
  <2>1. UNCHANGED got /\ E5next' = e
    BY <1>17 DEF HandleLong, host
  <2>2. m.cmd \in {"T_Data.req", "T_Connect.req", "unknown"} /\ y \in Answers
    BY <1>17, AnswerType DEF HandleLong
  <2>3. y.kind # "second"
    BY DEF Item
  <2>4. toUSB_Buffer' = items \o (<<x>> \o IF m.cmd = "unknown" THEN <<>> ELSE <<y>>)
    BY <1>17 DEF HandleLong, Answer
  <2>5. Append(items, x) \in Seq(Answers) /\ Paired(Append(items, x), None)
    BY <1>3, <1>9, <1>10
  <2> HIDE DEF x, y, items
  <2>6. CASE m.cmd = "unknown"
    <3>1. toUSB_Buffer' = Append(items, x)
      BY <1>1, <2>4, <2>6, <1>9 DEF x
    <3>2. e = None
      BY <2>6
    <3> QED
      BY <2>1, <2>5, <3>1, <3>2
  <2>7. CASE m.cmd # "unknown"
    <3>1. x \in Answers
      BY <1>9 DEF x
    <3>2. items \o (<<x>> \o <<y>>) = Append(Append(items, x), y)
      BY <1>1, <2>2, <3>1
    <3>3. toUSB_Buffer' = Append(Append(items, x), y)
      BY <2>4, <2>7, <3>2
    <3>4. /\ Paired(Append(Append(items, x), y), None)
          /\ Paired(Append(Append(items, x), y), m.arg)
      BY ZenonT(40), <1>4, <2>2, <2>3, <2>5 DEF y
    <3> QED
      BY <2>1, <3>3, <3>4
  <2> QED
    BY <2>6, <2>7
<1>18. ASSUME NEW k \in 0 .. Len(toUSB_Buffer), Outgoing(k)
       PROVE  PartsPaired(toUSB_Buffer', got', E5next')
  <2>1. /\ toUSB_Buffer' = SubSeq(toUSB_Buffer, k + 1, Len(toUSB_Buffer))
        /\ E5next' = E5next
        /\ \/ NoPart(toUSB_Buffer, 1, k) /\ got' = got
           \/ \E i \in 1 .. k : /\ IsPart(toUSB_Buffer[i])
                                /\ NoPart(toUSB_Buffer, i + 1, k)
                                /\ got' = toUSB_Buffer[i]
    BY <1>18 DEF Outgoing, Pass
  <2> QED
    BY <1>1, <2>1, PairedPass
<1> QED
  BY <1>5, <1>6, <1>7, <1>8, <1>13, <1>14, <1>15, <1>16, <1>17, <1>18 DEF Next, Gateway

------------------------------------------------------------------------------
(* An undisturbed gateway, step by step                                    *)

LEMMA NoResetStep ==
  ASSUME TypeOK, NoReset, [Next]_vars, ~disturbed'
  PROVE  NoReset' /\ ~HandleReset /\ ~PassReset
<1> DEFINE Clean(q) == \A i \in 1 .. Len(q) : q[i] # Reset
<1>1. /\ usb \in Seq(Message) /\ inFT12_Buffer \in Seq(Message)
      /\ Clean(usb) /\ Clean(inFT12_Buffer)
      /\ toTPUART_Buffer = <<>> /\ (request = None \/ request # Reset)
  BY DEF NoReset, TypeOK, GatewayType, OthersType
<1>2. ASSUME NEW m \in Request
      PROVE  m # Reset /\ m \in Message
  BY ConstantAssumption DEF Request, Reset, Message
<1>3. E5 # Reset /\ E5 \in Message
  BY DEF E5, Reset, Message
<1>4. \A q \in Seq(Message), m \in Message : Clean(q) /\ m # Reset => Clean(Append(q, m))
  <2> SUFFICES ASSUME NEW q \in Seq(Message), NEW m \in Message, Clean(q), m # Reset,
                      NEW i \in 1 .. Len(Append(q, m))
               PROVE  Append(q, m)[i] # Reset
    OBVIOUS
  <2>1. i \in 1 .. Len(q) \/ i = Len(q) + 1
    BY AppendProperties, LenProperties
  <2> QED
    BY <2>1, AppendProperties
<1>5. \A q \in Seq(Message) : Clean(q) /\ q # <<>> => Clean(Tail(q)) /\ Head(q) # Reset
  <2> SUFFICES ASSUME NEW q \in Seq(Message), Clean(q), q # <<>>
               PROVE  Clean(Tail(q)) /\ Head(q) # Reset
    OBVIOUS
  <2>1. /\ Len(q) \in Nat /\ Len(q) # 0 /\ Len(Tail(q)) = Len(q) - 1
        /\ \A i \in 1 .. Len(Tail(q)) : Tail(q)[i] = q[i + 1]
        /\ Head(q) = q[1]
    BY HeadTailProperties, LenProperties, EmptySeq
  <2>2. 1 \in 1 .. Len(q) /\ \A i \in 1 .. Len(Tail(q)) : i + 1 \in 1 .. Len(q)
    BY <2>1
  <2> QED
    BY <2>1, <2>2
<1>6. \A q, r \in Seq(Message) : Clean(q) /\ Clean(r) => Clean(q \o r)
  <2> SUFFICES ASSUME NEW q \in Seq(Message), NEW r \in Seq(Message), Clean(q), Clean(r),
                      NEW i \in 1 .. Len(q \o r)
               PROVE  (q \o r)[i] # Reset
    OBVIOUS
  <2>1. /\ Len(q) \in Nat /\ Len(r) \in Nat /\ i \in 1 .. Len(q) + Len(r)
        /\ (q \o r)[i] = IF i <= Len(q) THEN q[i] ELSE r[i - Len(q)]
    BY ConcatProperties, LenProperties
  <2>2. IF i <= Len(q) THEN i \in 1 .. Len(q) ELSE i - Len(q) \in 1 .. Len(r)
    BY <2>1
  <2> QED
    BY <2>1, <2>2
<1>7. Clean(<<>>)
  OBVIOUS
<1> HIDE DEF Clean
<1>8. ~PassReset
  BY <1>1 DEF PassReset
<1>9. ~HandleReset
  BY <1>1, <1>5 DEF HandleReset, Handle
<1>10. /\ Clean(usb') /\ Clean(inFT12_Buffer') /\ toTPUART_Buffer' = <<>>
       /\ request' = None \/ request' # Reset
       => NoReset'
  BY DEF NoReset, Clean
<1>11. CASE Host
  <2>1. UNCHANGED gateway /\ ~HostResets
    BY <1>11 DEF Host, HostSends, HostRepeats, HostResets, Mishap
  <2>2. CASE HostRepeats
    <3>1. request \in Message /\ request # Reset
      BY <1>1, <2>2 DEF HostRepeats, TypeOK, OthersType, Message
    <3> QED
      BY <1>1, <1>4, <1>8, <1>9, <1>10, <2>1, <2>2, <3>1 DEF HostRepeats, gateway
  <2>3. ASSUME NEW m \in Request, HostSends(m)
        PROVE  NoReset'
    BY <1>1, <1>2, <1>4, <1>10, <2>1, <2>3 DEF HostSends, gateway
  <2> QED
    BY <1>8, <1>9, <1>11, <2>1, <2>2, <2>3 DEF Host
<1>12. CASE Bus \/ UNCHANGED vars
  <2>1. UNCHANGED <<usb, inFT12_Buffer, toTPUART_Buffer, request>>
    BY <1>12 DEF Bus, ForeignTelegram, Transmit, Overrun, vars, gateway, host
  <2> QED
    BY <1>1, <1>8, <1>9, <1>10, <2>1
<1>13. CASE NoByte \/ TelegramPart \/ TelegramComplete \/ Confirmation \/ UnhandledByte
  <2>1. ReadHost
    BY <1>13 DEF NoByte, TelegramPart, TelegramComplete, Confirmation, UnhandledByte, ReadByte
  <2> QED
    BY <1>1, <1>6, <1>7, <1>8, <1>9, <1>10, <2>1 DEF ReadHost
<1>14. CASE \/ HostConfirms \/ NoMessage
            \/ \E m \in Request :
                 HandleStatus(m) \/ HoldL_Data(m) \/ HandleL_Data(m) \/ HandleLong(m)
  <2>1. UNCHANGED <<usb, toTPUART_Buffer, request>>
    BY <1>14 DEF HostConfirms, NoMessage, HandleStatus, HoldL_Data, HandleL_Data, HandleLong, host
  <2>2. \/ inFT12_Buffer' = inFT12_Buffer
        \/ inFT12_Buffer # <<>> /\ inFT12_Buffer' = Tail(inFT12_Buffer)
    BY <1>14 DEF HostConfirms, NoMessage, HandleStatus, HoldL_Data, HandleL_Data, HandleLong, Handle
  <2>3. Clean(inFT12_Buffer')
    BY <1>1, <1>5, <2>2
  <2> QED
    BY <1>1, <1>8, <1>9, <1>10, <2>1, <2>3
<1>15. ASSUME NEW k \in 0 .. Len(toUSB_Buffer), Outgoing(k)
       PROVE  NoReset'
  <2> DEFINE n == Cardinality({i \in 1 .. k : ~IsE5(toUSB_Buffer[i])})
             some == [i \in 1 .. n |-> E5]
  <2>1. usb' = usb \o some
    BY <1>15 DEF Outgoing, Pass
  <2>2. n \in Nat
    <3> DEFINE answers == {i \in 1 .. k : ~IsE5(toUSB_Buffer[i])}
    <3>1. IsFiniteSet(1 .. k) /\ answers \in SUBSET (1 .. k)
      BY FS_Interval
    <3> HIDE DEF answers
    <3>2. Cardinality(answers) \in Nat
      BY <3>1, FS_Subset, FS_CardinalityType
    <3> QED
      BY <3>2 DEF answers
  <2> HIDE DEF n
  <2>3. some \in Seq(Message) /\ Clean(some)
    BY <1>3, <2>2 DEF Clean
  <2> HIDE DEF some
  <2>4. Clean(usb')
    BY <1>1, <1>6, <2>1, <2>3
  <2>5. inFT12_Buffer' = inFT12_Buffer /\ request' \in {request, None}
    BY <1>15 DEF Outgoing, Pass
  <2>6. toTPUART_Buffer' = toTPUART_Buffer
    BY <1>8, <1>15 DEF Outgoing
  <2> QED
    BY <1>1, <1>10, <2>4, <2>5, <2>6
<1> QED
  BY <1>8, <1>9, <1>11, <1>12, <1>13, <1>14, <1>15 DEF Next, Gateway

\* The telegram that is complete is the one that begins what the TPUART sent.
LEMMA CompleteIs ==
  ASSUME TypeOK, LineInv, TelegramComplete
  PROVE  /\ Framed(line') /\ OneConfirms(line') /\ EchoSettled(line') /\ line' \in Seq(Pieces)
         /\ AnyConfirms(line') <=> AnyConfirms(FromTPUART)
         /\ FollowsEcho(line', Assembled(Received), confirmed)
         /\ ~waitTPUconfirm => Assembled(Received) \in Foreign
<1> DEFINE q == FromTPUART
           b == inTPU_Buffer
<1>1. /\ q \in Seq(Pieces) /\ b \in Seq(Pieces)
  BY ConcatProperties DEF FromTPUART, TypeOK, GatewayType, OthersType
<1>2. /\ b # <<>> => b[1].part = "first"
      /\ Framed(q) /\ OneConfirms(q) /\ EchoSettled(q)
      /\ FollowsEcho(q, confirmdata, confirmed)
      /\ ~waitTPUconfirm => ~AnyConfirms(q)
  BY DEF LineInv
<1>3. ReadByte /\ Len(Received) = 3
  BY DEF TelegramComplete
<1> DEFINE r == line'
           s == Received
<1>4. r \in Seq(Pieces) /\ s \in Seq(Pieces) /\ s \o r = q /\ Len(s) = 3 /\ Len(r) \in Nat
  BY <1>3, ByteRead, LenProperties DEF FromTPUART
<1>5. /\ Len(q) = Len(r) + 3
      /\ \A i \in 1 .. Len(r) : q[i + 3] = r[i]
      /\ \A i \in 1 .. 3 : q[i] = s[i]
  <2> HIDE DEF q, r, s
  <2>1. /\ Len(s \o r) = Len(s) + Len(r)
        /\ \A i \in 1 .. Len(s) + Len(r) :
             (s \o r)[i] = IF i <= Len(s) THEN s[i] ELSE r[i - Len(s)]
    BY <1>4, ConcatProperties
  <2>2. \A i \in 1 .. Len(r) :
          i + 3 \in 1 .. Len(s) + Len(r) /\ ~(i + 3 <= Len(s)) /\ (i + 3) - Len(s) = i
    BY <1>4
  <2>3. \A i \in 1 .. 3 : i \in 1 .. Len(s) + Len(r) /\ i <= Len(s)
    BY <1>4
  <2> QED
    BY <1>4, <2>1, <2>2, <2>3
<1>6. b # <<>> /\ q # <<>> /\ q[1].part = "first"
  <2>1. Len(b) = 2
    <3>1. Len(s) = Len(b) + 1
      BY <1>3, ByteRead
    <3>2. Len(b) \in Nat
      BY <1>1, LenProperties
    <3>3. Len(s) = 3
      BY <1>4
    <3>4. \A n \in Nat : 3 = n + 1 => n = 2
      OBVIOUS
    <3> QED
      BY <3>1, <3>2, <3>3, <3>4, Zenon
  <2>2. b # <<>> /\ 1 \in 1 .. Len(b)
    BY <2>1
  <2>3. s[1] = b[1]
    BY <1>3, <2>2, ByteRead
  <2>4. q # <<>>
    BY <1>4, <1>5, EmptySeq
  <2> QED
    BY <1>2, <1>5, <2>2, <2>3, <2>4
<1> HIDE DEF r, q
<1>7. /\ Framed(r)
      /\ OneConfirms(r) /\ EchoSettled(r)
      /\ AnyConfirms(r) <=> AnyConfirms(q)
      /\ FollowsEcho(r, q[1].of, confirmed)
      /\ q[2] = Piece("length", q[1].of) /\ q[3] = Piece("last", q[1].of)
  BY <1>1, <1>2, <1>4, <1>5, <1>6, DropFrame
<1>8. Assembled(s) = q[1].of
  <2>1. s[1] = q[1] /\ s[2] = q[2] /\ s[3] = q[3]
    BY <1>5
  <2>2. q[1] = Piece("first", q[1].of)
    <3>1. q[1] \in Pieces
      <4>1. 1 \in 1 .. Len(q)
        BY <1>4, <1>5
      <4> QED
        BY <1>1, <4>1, ElementOfSeq
    <3> QED
      BY <1>6, <3>1 DEF Pieces, Piece
  <2>3. s = <<q[1], q[2], q[3]>>
    BY <1>4, <2>1
  <2>4. s = Frame(s[1].of)
    BY <1>7, <2>1, <2>2, <2>3 DEF Frame
  <2> QED
    BY <2>1, <2>4 DEF Assembled
<1>9. ~waitTPUconfirm => q[1].of \in Foreign
  BY <1>1, <1>2, <1>4, <1>5, <1>6, DropFrame
<1> QED
  BY <1>4, <1>7, <1>8, <1>9 DEF q, r, s

LEMMA LineStep ==
  ASSUME TypeOK, LineInv, [Next]_vars, ~disturbed', ~HandleReset, ~PassReset
  PROVE  LineInv'
<1> DEFINE q == FromTPUART
           b == inTPU_Buffer
<1>1. /\ q \in Seq(Pieces) /\ b \in Seq(Pieces) /\ line \in Seq(Pieces)
      /\ q = b \o line /\ waitTPUconfirm \in BOOLEAN
      /\ pending \in Telegram \cup {None}
  BY ConcatProperties DEF FromTPUART, TypeOK, GatewayType, OthersType
<1>2. /\ b # <<>> => b[1].part = "first"
      /\ Framed(q) /\ OneConfirms(q) /\ EchoSettled(q)
      /\ FollowsEcho(q, confirmdata, confirmed)
      /\ waitTPUconfirm = (pending # None \/ AnyConfirms(q))
      /\ pending # None => ~AnyConfirms(q)
  BY DEF LineInv
<1>3. ASSUME NEW p, p = q', inTPU_Buffer' # <<>> => inTPU_Buffer'[1].part = "first",
             Framed(p), OneConfirms(p), EchoSettled(p),
             FollowsEcho(p, confirmdata', confirmed'),
             waitTPUconfirm' = (pending' # None \/ AnyConfirms(p)),
             pending' # None => ~AnyConfirms(p)
      PROVE  LineInv'
  BY <1>3 DEF LineInv
<1>4. CASE UNCHANGED <<inTPU_Buffer, line, confirmdata, confirmed, pending, waitTPUconfirm>>
  BY <1>4 DEF LineInv, FromTPUART
<1>5. ASSUME NEW t \in Foreign, ForeignTelegram(t)
      PROVE  LineInv'
  <2> DEFINE r == q \o Frame(t)
  <2>1. Frame(t) \in Seq(Pieces)
    BY FrameIs
  <2>2. /\ line' = line \o Frame(t)
        /\ UNCHANGED <<inTPU_Buffer, confirmdata, confirmed, pending, waitTPUconfirm>>
    BY <1>5 DEF ForeignTelegram, gateway
  <2>3. r = q'
    BY <1>1, <2>1, <2>2, ConcatAssociative DEF FromTPUART
  <2>4. /\ Framed(r) /\ OneConfirms(r) /\ EchoSettled(r)
        /\ FollowsEcho(r, confirmdata, confirmed)
        /\ AnyConfirms(r) <=> AnyConfirms(q)
    BY <1>1, <1>2, AppendFrame
  <2> HIDE DEF r, q, b
  <2> QED
    BY <1>2, <1>3, <2>2, <2>3, <2>4 DEF b
<1>6. CASE Transmit
  <2>1. /\ pending \in Telegram /\ pending # None /\ pending' = None
        /\ UNCHANGED <<inTPU_Buffer, confirmdata, waitTPUconfirm>>
    BY <1>1, <1>6 DEF Transmit, gateway
  <2>2. waitTPUconfirm = TRUE /\ ~AnyConfirms(q)
    BY <1>2, <2>1
  <2> DEFINE f == q \o Frame(pending)
             sent == Sent(pending)
             refused == Refused(pending)
             ok == confirmed \cup {pending}
  <2>3. /\ sent \in Pieces /\ Confirms(sent) /\ sent.of = pending
        /\ refused \in Pieces /\ Confirms(refused) /\ refused.part # "0x8B"
    BY <2>1 DEF Sent, Refused, Piece, Pieces, Confirms
  <2>4. /\ f \in Seq(Pieces) /\ Framed(f) /\ ~AnyConfirms(f)
        /\ f # <<>> /\ f[Len(f)] = Piece("last", pending)
    BY <1>1, <1>2, <2>1, <2>2, AppendFrame
  <2>5. FollowsEcho(f, confirmdata, ok) /\ FollowsEcho(f, confirmdata, confirmed)
        /\ FollowsEcho(q, confirmdata, confirmed)
    <3>1. FollowsEcho(q, confirmdata, ok)
      BY <1>2 DEF FollowsEcho
    <3> QED
      BY <1>1, <1>2, <2>1, <3>1, AppendFrame
  <2>6. Frame(pending) \in Seq(Pieces)
    BY <2>1, FrameIs
  <2> HIDE DEF sent, refused, ok
  <2>7. \A p \in Pieces : /\ b \o (line \o Frame(pending) \o <<p>>) = Append(f, p)
                          /\ b \o Append(line, p) = Append(q, p)
    <3> SUFFICES ASSUME NEW p \in Pieces
                 PROVE  /\ b \o (line \o Frame(pending) \o <<p>>) = Append(f, p)
                        /\ b \o Append(line, p) = Append(q, p)
      OBVIOUS
    <3> DEFINE one == <<p>>
               g == Frame(pending)
               l == line
    <3>1. one \in Seq(Pieces) /\ g \in Seq(Pieces) /\ l \in Seq(Pieces)
          /\ l \o g \in Seq(Pieces)
      BY <1>1, <2>6, ConcatProperties
    <3>2. Append(f, p) = f \o one /\ Append(l, p) = l \o one /\ Append(q, p) = q \o one
      BY <1>1, <2>4
    <3>3. q = b \o l /\ f = q \o g
      BY <1>1
    <3>a. \A x, y, z \in Seq(Pieces) : x \o (y \o z) = (x \o y) \o z
      BY ConcatAssociative
    <3> HIDE DEF one, g, l, b, q, f
    <3>b. b \in Seq(Pieces)
      BY <1>1
    <3>4. b \o ((l \o g) \o one) = (b \o (l \o g)) \o one
      BY <3>a, <3>b, <3>1, Zenon
    <3>5. b \o (l \o g) = (b \o l) \o g /\ b \o (l \o one) = (b \o l) \o one
      BY <3>a, <3>b, <3>1, Zenon
    <3>6. b \o ((l \o g) \o one) = Append(f, p) /\ b \o Append(l, p) = Append(q, p)
      BY <3>2, <3>3, <3>4, <3>5
    <3> QED
      BY <3>6 DEF one, g, l
  <2>8. \/ line' = line \o Frame(pending) \o <<sent>> /\ confirmed' = ok
        \/ line' = line \o Frame(pending) \o <<refused>> /\ confirmed' = confirmed
        \/ line' = Append(line, refused) /\ confirmed' = confirmed
    BY <1>6 DEF Transmit, sent, refused, ok
  <2>9. q' = b \o line'
    BY <2>1 DEF FromTPUART
  <2> HIDE DEF q, b
  <2>10. ASSUME NEW p, p = q', Framed(p), OneConfirms(p), EchoSettled(p), AnyConfirms(p),
                FollowsEcho(p, confirmdata, confirmed')
         PROVE  LineInv'
    BY <1>2, <1>3, <2>1, <2>2, <2>10 DEF b
  <2>11. CASE line' = line \o Frame(pending) \o <<sent>> /\ confirmed' = ok
    <3>1. q' = Append(f, sent)
      BY <2>3, <2>7, <2>9, <2>11
    <3>2. sent.of \in ok
      BY <2>3 DEF ok
    <3> HIDE DEF f
    <3>3. LET r == Append(f, sent)
          IN  /\ Framed(r) /\ OneConfirms(r) /\ AnyConfirms(r) /\ EchoSettled(r)
              /\ FollowsEcho(r, confirmdata, ok)
      BY <2>3, <2>4, <2>5, <3>2, AppendConfirm
    <3> QED
      BY <2>10, <2>11, <3>1, <3>3
  <2>12. CASE line' = line \o Frame(pending) \o <<refused>> /\ confirmed' = confirmed
    <3>1. q' = Append(f, refused)
      BY <2>3, <2>7, <2>9, <2>12
    <3> HIDE DEF f
    <3>3. LET r == Append(f, refused)
          IN  /\ Framed(r) /\ OneConfirms(r) /\ AnyConfirms(r) /\ EchoSettled(r)
              /\ FollowsEcho(r, confirmdata, confirmed)
      BY <2>3, <2>4, <2>5, AppendConfirm
    <3> QED
      BY <2>10, <2>12, <3>1, <3>3
  <2>13. CASE line' = Append(line, refused) /\ confirmed' = confirmed
    <3>1. q' = Append(q, refused)
      BY <2>3, <2>7, <2>9, <2>13
    <3>3. LET r == Append(q, refused)
          IN  /\ Framed(r) /\ OneConfirms(r) /\ AnyConfirms(r) /\ EchoSettled(r)
              /\ FollowsEcho(r, confirmdata, confirmed)
      BY <1>1, <1>2, <2>2, <2>3, <2>5, AppendConfirm
    <3> QED
      BY <2>10, <2>13, <3>1, <3>3
  <2> QED
    BY <2>8, <2>11, <2>12, <2>13
<1>7. CASE TelegramPart
  <2>1. ReadByte
    BY <1>7 DEF TelegramPart
  <2>2. /\ inTPU_Buffer' = Received
        /\ UNCHANGED <<confirmdata, confirmed, pending, waitTPUconfirm>>
    BY <1>7 DEF TelegramPart, ReadByte
  <2>3. q' = q
    BY <2>1, <2>2, ByteRead DEF FromTPUART
  <2>4. Received[1].part = "first"
    <3>1. CASE b = <<>>
      BY <1>7, <2>1, <3>1, ByteRead DEF TelegramPart, TelegramByte
    <3>2. CASE b # <<>>
      <4>1. 1 \in 1 .. Len(b)
        BY <1>1, <3>2, EmptySeq, LenProperties
      <4> QED
        BY <1>2, <2>1, <3>2, <4>1, ByteRead
    <3> QED
      BY <3>1, <3>2
  <2> HIDE DEF q, b
  <2> QED
    BY <1>2, <1>3, <2>2, <2>3, <2>4
<1>8. CASE TelegramComplete
  <2>1. ReadByte /\ Len(Received) = 3 /\ inTPU_Buffer' = <<>>
    BY <1>8 DEF TelegramComplete
  <2>2. UNCHANGED <<confirmed, pending, waitTPUconfirm>>
    BY <1>8 DEF TelegramComplete, ReadByte
  <2> DEFINE r == line'
  <2>6. /\ Framed(r) /\ OneConfirms(r) /\ EchoSettled(r)
        /\ AnyConfirms(r) <=> AnyConfirms(q)
        /\ FollowsEcho(r, Assembled(Received), confirmed)
        /\ r \in Seq(Pieces)
    BY <1>8, CompleteIs
  <2>8. FollowsEcho(r, confirmdata', confirmed')
    <3>1. CASE waitTPUconfirm
      BY <1>8, <2>2, <2>6, <3>1 DEF TelegramComplete
    <3>2. CASE ~waitTPUconfirm
      <4>1. ~AnyConfirms(r)
        BY <1>2, <2>6, <3>2
      <4> QED
        BY <4>1 DEF AnyConfirms, FollowsEcho, Confirms
    <3> QED
      BY <3>1, <3>2
  <2>9. r = q'
    <3>1. q' = <<>> \o r
      BY <2>1 DEF FromTPUART
    <3> QED
      BY <2>6, <3>1
  <2> HIDE DEF q, r
  <2> QED
    BY <1>2, <1>3, <2>1, <2>2, <2>6, <2>8, <2>9
<1>9. ASSUME ReadByte, ~TelegramByte
      PROVE  /\ b = <<>> /\ q = line /\ q # <<>> /\ line' = Tail(q) /\ Head(line) = q[1]
             /\ Confirms(q[1])
  <2>1. b = <<>> /\ Head(line).part # "first" /\ line # <<>> /\ line' = Tail(line)
    BY <1>9 DEF TelegramByte, ReadByte
  <2>2. q = line
    BY <1>1, <2>1
  <2>3. Head(line) = line[1] /\ line[1] \in Pieces
    BY <1>9, ByteRead
  <2>4. 1 \in 1 .. Len(q)
    BY <1>1, <2>1, <2>2, EmptySeq, LenProperties
  <2> HIDE DEF q
  <2>5. q[1].part \notin {"other", "length", "last"}
    BY <1>2, <2>4 DEF Framed
  <2> QED
    BY <2>1, <2>2, <2>3, <2>5 DEF Confirms, Pieces
<1>10. CASE Confirmation
  <2>1. ReadByte /\ ~TelegramByte
    BY <1>10 DEF Confirmation
  <2> DEFINE r == Tail(q)
  <2>2. /\ b = <<>> /\ q # <<>> /\ line' = r /\ Confirms(q[1])
    BY <1>9, <2>1
  <2>3. /\ UNCHANGED <<inTPU_Buffer, confirmed, pending, confirmdata>>
        /\ waitTPUconfirm' = FALSE
    BY <1>10 DEF Confirmation, ReadByte
  <2>4. r = q'
    <3>1. q' = <<>> \o r
      BY <2>2, <2>3 DEF FromTPUART
    <3>2. r \in Seq(Pieces)
      BY <1>1, <2>2, HeadTailProperties
    <3> QED
      BY <3>1, <3>2
  <2> HIDE DEF q
  <2>5. AnyConfirms(q)
    <3>1. 1 \in 1 .. Len(q)
      BY <1>1, <2>2, EmptySeq, LenProperties
    <3> QED
      BY <2>2, <3>1 DEF AnyConfirms
  <2>6. /\ Framed(r) /\ OneConfirms(r) /\ EchoSettled(r)
        /\ FollowsEcho(r, confirmdata, confirmed)
        /\ ~AnyConfirms(r)
    BY <1>1, <1>2, <2>2, DropConfirm
  <2> HIDE DEF r
  <2> QED
    BY <1>2, <1>3, <2>2, <2>3, <2>4, <2>5, <2>6
<1>11. ~UnhandledByte
  BY <1>9 DEF UnhandledByte, Confirms
<1>12. ASSUME NEW m \in Request, HandleL_Data(m)
       PROVE  LineInv'
  <2>1. ~waitTPUconfirm /\ waitTPUconfirm' = TRUE /\ pending' = m.arg
        /\ UNCHANGED <<inTPU_Buffer, line, confirmed>>
    BY <1>12 DEF HandleL_Data, Busy
  <2>2. m.arg # None
    BY <1>12, ConstantAssumption DEF HandleL_Data, Request
  <2>3. q' = q
    BY <2>1 DEF FromTPUART
  <2> HIDE DEF q, b
  <2>4. ~AnyConfirms(q)
    BY <1>2, <2>1
  <2>5. FollowsEcho(q, confirmdata', confirmed')
    BY <2>4 DEF AnyConfirms, FollowsEcho, Confirms
  <2> QED
    BY <1>2, <1>3, <2>1, <2>2, <2>3, <2>4, <2>5 DEF b
<1>13. CASE UNCHANGED vars
  BY <1>4, <1>13 DEF vars, gateway, tpuart
<1>14. CASE Host
  <2>1. UNCHANGED <<gateway, tpuart>>
    BY <1>14 DEF Host, HostSends, HostRepeats, HostResets
  <2> QED
    BY <1>4, <2>1 DEF gateway, tpuart
<1>15. ~Overrun
  BY DEF Overrun, Mishap
<1>16. CASE NoByte \/ HostConfirms \/ NoMessage
  BY <1>4, <1>16 DEF NoByte, HostConfirms, NoMessage, tpuart
<1>17. ASSUME NEW m \in Request, HandleStatus(m) \/ HoldL_Data(m) \/ HandleLong(m)
       PROVE  LineInv'
  BY <1>4, <1>17 DEF HandleStatus, HoldL_Data, HandleLong, tpuart
<1>18. ASSUME NEW k \in 0 .. Len(toUSB_Buffer), Outgoing(k)
       PROVE  LineInv'
  BY <1>4, <1>18 DEF Outgoing, Pass, tpuart
<1> QED
  BY <1>5, <1>6, <1>7, <1>8, <1>10, <1>11, <1>12, <1>13, <1>14, <1>15, <1>16, <1>17, <1>18
     DEF Next, Bus, Gateway

LEMMA TruthfulAppend ==
  ASSUME NEW items \in Seq(Answers), NEW ok, NEW x \in Answers, Truthful(items, ok),
         x.kind = "con" => x.arg \in ok,
         x.kind = "ind" => x.arg \in Foreign
  PROVE  Append(items, x) \in Seq(Answers) /\ Truthful(Append(items, x), ok)
<1>1. /\ Append(items, x) \in Seq(Answers)
      /\ Len(Append(items, x)) = Len(items) + 1 /\ Len(items) \in Nat
      /\ \A i \in 1 .. Len(items) : Append(items, x)[i] = items[i]
      /\ Append(items, x)[Len(items) + 1] = x
  BY AppendProperties, LenProperties
<1>2. \A i \in 1 .. Len(items) + 1 : i \in 1 .. Len(items) \/ i = Len(items) + 1
  BY <1>1
<1> QED
  BY <1>1, <1>2 DEF Truthful

LEMMA TruthfulRest ==
  ASSUME NEW items \in Seq(Answers), NEW ok, NEW k \in 0 .. Len(items), Truthful(items, ok)
  PROVE  Truthful(SubSeq(items, k + 1, Len(items)), ok)
<1> DEFINE n == Len(items)
           r == SubSeq(items, k + 1, n)
<1>1. n \in Nat /\ k \in Nat /\ k <= n
  BY LenProperties
<1>2. \A i \in k + 1 .. n : items[i] \in Answers
  BY <1>1, ElementOfSeq
<1>3. k + 1 \in Int /\ n \in Int
  BY <1>1
<1>4. \A i \in 1 .. n : /\ items[i].kind = "con" => items[i].arg \in ok
                        /\ items[i].kind = "ind" => items[i].arg \in Foreign
  BY DEF Truthful
<1> HIDE DEF n
<1>5. /\ Len(r) = IF k + 1 <= n THEN n - (k + 1) + 1 ELSE 0
      /\ \A i \in 1 .. n - (k + 1) + 1 : r[i] = items[(k + 1) + i - 1]
  BY <1>2, <1>3, SubSeqProperties
<1> HIDE DEF r
<1>6. \A i \in 1 .. Len(r) : i \in 1 .. n - (k + 1) + 1 /\ (k + 1) + i - 1 \in 1 .. n
  BY <1>1, <1>5
<1>7. Truthful(r, ok)
  <2> SUFFICES ASSUME NEW i \in 1 .. Len(r)
               PROVE  /\ r[i].kind = "con" => r[i].arg \in ok
                      /\ r[i].kind = "ind" => r[i].arg \in Foreign
    BY DEF Truthful
  <2>1. PICK j \in 1 .. n : r[i] = items[j]
    BY <1>5, <1>6
  <2> QED
    BY <1>4, <2>1
<1> QED
  BY <1>7 DEF r, n

LEMMA TruthfulStep ==
  ASSUME TypeOK, LineInv, Truthful(toUSB_Buffer, confirmed), [Next]_vars, ~HandleReset
  PROVE  Truthful(toUSB_Buffer', confirmed')
<1> DEFINE items == toUSB_Buffer
<1>1. items \in Seq(Answers) /\ Truthful(items, confirmed)
  BY DEF TypeOK, GatewayType
<1>2. CASE toUSB_Buffer' = toUSB_Buffer /\ confirmed \subseteq confirmed'
  BY <1>2 DEF Truthful
<1>3. CASE Host \/ Bus \/ UNCHANGED vars
  BY <1>2, <1>3 DEF Host, HostSends, HostRepeats, HostResets, Bus, ForeignTelegram, Transmit,
                    Overrun, vars, gateway, tpuart
<1>4. CASE NoByte \/ TelegramPart \/ UnhandledByte \/ NoMessage
  BY <1>2, <1>4 DEF NoByte, TelegramPart, UnhandledByte, NoMessage, ReadByte, tpuart
<1>5. TelegramComplete \/ Confirmation => TypeOK'
  BY ReadType
<1>6. ASSUME NEW x, toUSB_Buffer' = Append(toUSB_Buffer, x), confirmed' = confirmed, TypeOK',
             x.kind = "con" => x.arg \in confirmed,
             x.kind = "ind" => x.arg \in Foreign
      PROVE  Truthful(toUSB_Buffer', confirmed')
  <2>1. x \in Answers
    <3>1. Append(items, x) \in Seq(Answers)
      BY <1>6 DEF TypeOK, GatewayType
    <3>2. /\ Len(items) + 1 \in 1 .. Len(Append(items, x))
          /\ Append(items, x)[Len(items) + 1] = x
      BY <1>1
    <3> QED
      BY <3>1, <3>2, ElementOfSeq
  <2> QED
    BY <1>1, <1>6, <2>1, TruthfulAppend
<1>7. CASE TelegramComplete
  <2>1. confirmed' = confirmed
    BY <1>7 DEF TelegramComplete, ReadByte
  <2>2. CASE waitTPUconfirm
    BY <1>2, <1>7, <2>1, <2>2 DEF TelegramComplete
  <2>3. CASE ~waitTPUconfirm
    <3> DEFINE x == Item("ind", Assembled(Received))
    <3>1. toUSB_Buffer' = Append(toUSB_Buffer, x)
      BY <1>7, <2>3 DEF TelegramComplete
    <3>2. Assembled(Received) \in Foreign
      BY <1>7, <2>3, CompleteIs
    <3>3. x.kind = "ind" /\ x.arg \in Foreign
      BY <3>2 DEF Item
    <3> HIDE DEF x
    <3> QED
      BY <1>5, <1>6, <1>7, <2>1, <3>1, <3>3
  <2> QED
    BY <2>2, <2>3
<1>8. CASE Confirmation
  <2>1. confirmed' = confirmed
    BY <1>8 DEF Confirmation, ReadByte
  <2>2. CASE Head(line).part = "0x8B" /\ waitTPUconfirm
    <3> DEFINE x == Item("con", confirmdata)
    <3>1. toUSB_Buffer' = Append(toUSB_Buffer, x)
      BY <1>8, <2>2 DEF Confirmation
    <3>2. confirmdata \in confirmed
      <4>1. /\ FromTPUART = line /\ line \in Seq(Pieces) /\ line # <<>>
            /\ Head(line) = line[1]
        <5>1. inTPU_Buffer = <<>> /\ ReadByte
          BY <1>8 DEF Confirmation, TelegramByte
        <5>2. line # <<>> /\ line \in Seq(Pieces)
          BY <5>1 DEF ReadByte, TypeOK, OthersType
        <5>3. FromTPUART = line
          BY <5>1, <5>2 DEF FromTPUART
        <5> QED
          BY <5>1, <5>2, <5>3, ByteRead
      <4>2. 1 \in 1 .. Len(line)
        BY <4>1, EmptySeq, LenProperties
      <4>3. FollowsEcho(line, confirmdata, confirmed)
        BY <4>1 DEF LineInv
      <4> QED
        BY <2>2, <4>1, <4>2, <4>3 DEF FollowsEcho
    <3>3. x.kind = "con" /\ x.arg \in confirmed
      BY <3>2 DEF Item
    <3> HIDE DEF x
    <3> QED
      BY <1>5, <1>6, <1>8, <2>1, <3>1, <3>3
  <2>3. CASE ~(Head(line).part = "0x8B" /\ waitTPUconfirm)
    BY <1>2, <1>8, <2>1, <2>3 DEF Confirmation
  <2> QED
    BY <2>2, <2>3
<1>9. \A a : \A k \in {"E5", "status", "first", "second"} :
        Item(k, a).kind \notin {"con", "ind"}
  BY DEF Item
<1>10. CASE HostConfirms
  <2>1. confirmed' = confirmed
    BY <1>10 DEF HostConfirms, tpuart
  <2>2. TypeOK'
    BY <1>10, HandleType
  <2>3. Item("second", E5next).kind \notin {"con", "ind"}
    BY <1>9
  <2> QED
    BY <1>2, <1>6, <1>10, <2>1, <2>2, <2>3 DEF HostConfirms
<1>11. Item("E5", None) \in Answers /\ Item("status", None) \in Answers
  BY DEF Item, Answers
<1>12. \A x \in Answers : items \o <<x>> = Append(items, x)
  BY <1>1
<1>13. \A y \in Seq(Answers), x \in Answers :
         Truthful(y, confirmed) /\ x.kind \notin {"con", "ind"} =>
           Append(y, x) \in Seq(Answers) /\ Truthful(Append(y, x), confirmed)
  BY TruthfulAppend
<1>14. ASSUME NEW m \in Request, HandleStatus(m)
       PROVE  Truthful(toUSB_Buffer', confirmed')
  <2>1. toUSB_Buffer' = Append(items, Item("status", None)) /\ confirmed' = confirmed
    BY <1>11, <1>12, <1>14 DEF HandleStatus, Answer, tpuart
  <2> QED
    BY <1>1, <1>9, <1>11, <1>13, <2>1
<1>15. ASSUME NEW m \in Request, HoldL_Data(m)
       PROVE  Truthful(toUSB_Buffer', confirmed')
  BY <1>2, <1>15 DEF HoldL_Data, tpuart
<1>16. ASSUME NEW m \in Request, HandleL_Data(m)
       PROVE  Truthful(toUSB_Buffer', confirmed')
  <2>1. toUSB_Buffer' = Append(items, Item("E5", None)) /\ confirmed' = confirmed
    BY <1>11, <1>12, <1>16 DEF HandleL_Data, Answer
  <2> QED
    BY <1>1, <1>9, <1>11, <1>13, <2>1
<1>17. ASSUME NEW m \in Request, HandleLong(m)
       PROVE  Truthful(toUSB_Buffer', confirmed')
  <2> DEFINE x == Item("E5", None)
             y == Item("first", m.arg)
  <2>1. x \in Answers /\ y \in Answers
    BY <1>11, <1>17, AnswerType DEF HandleLong
  <2>2. x.kind \notin {"con", "ind"} /\ y.kind \notin {"con", "ind"}
    BY <1>9
  <2>3. /\ toUSB_Buffer' = items \o (<<x>> \o IF m.cmd = "unknown" THEN <<>> ELSE <<y>>)
        /\ confirmed' = confirmed
    BY <1>17 DEF HandleLong, Answer, tpuart
  <2> HIDE DEF x, y, items
  <2>4. /\ Truthful(Append(items, x), confirmed)
        /\ Truthful(Append(Append(items, x), y), confirmed)
    BY <1>1, <1>13, <2>1, <2>2
  <2>5. toUSB_Buffer' \in {Append(items, x), Append(Append(items, x), y)}
    <3>1. /\ items \o (<<x>> \o <<y>>) = Append(Append(items, x), y)
          /\ items \o (<<x>> \o <<>>) = Append(items, x)
      BY <1>1, <2>1
    <3> QED
      BY <2>3, <3>1
  <2> QED
    BY <2>3, <2>4, <2>5
<1>18. ASSUME NEW k \in 0 .. Len(toUSB_Buffer), Outgoing(k)
       PROVE  Truthful(toUSB_Buffer', confirmed')
  <2>1. /\ toUSB_Buffer' = SubSeq(toUSB_Buffer, k + 1, Len(toUSB_Buffer))
        /\ confirmed' = confirmed
    BY <1>18 DEF Outgoing, Pass, PassReset, tpuart
  <2> QED
    BY <1>1, <2>1, TruthfulRest
<1> QED
  BY <1>3, <1>4, <1>7, <1>8, <1>10, <1>14, <1>15, <1>16, <1>17, <1>18 DEF Next, Gateway

------------------------------------------------------------------------------
(* The theorems                                                            *)

LEMMA InvariantStep == IInv /\ [Next]_vars => IInv'
<1> SUFFICES ASSUME IInv, [Next]_vars
             PROVE  IInv'
  OBVIOUS
<1>1. TypeOK'
  BY TypeStep DEF IInv
<1>2. PartsPaired(toUSB_Buffer', got', E5next')
  BY PairedStep DEF IInv
<1>3. PartsPaired(toUSB_Buffer, got, E5next)'
  BY <1>2
<1>4. ASSUME ~disturbed'
      PROVE  NoReset' /\ LineInv' /\ Truthful(toUSB_Buffer', confirmed')
  <2>1. ~disturbed
    <3>1. disturbed' = disturbed \/ disturbed' = TRUE
      BY DEF Next, Host, HostSends, HostRepeats, HostResets, Bus, ForeignTelegram, Transmit,
             Overrun, Mishap, Gateway, NoByte, TelegramPart, TelegramComplete, Confirmation,
             UnhandledByte, ReadByte, ReadHost, HostConfirms, NoMessage, HandleReset,
             HandleStatus, HoldL_Data, HandleL_Data, HandleLong, Outgoing, Pass, mishaps, vars
    <3> QED
      BY <1>4, <3>1
  <2>2. TypeOK /\ NoReset /\ LineInv /\ Truthful(toUSB_Buffer, confirmed)
    BY <2>1 DEF IInv, UndisturbedInv, Undisturbed
  <2>3. NoReset' /\ ~HandleReset /\ ~PassReset
    BY <1>4, <2>2, NoResetStep
  <2>4. LineInv'
    BY <1>4, <2>2, <2>3, LineStep
  <2>5. Truthful(toUSB_Buffer', confirmed')
    BY <2>2, <2>3, TruthfulStep
  <2> QED
    BY <2>3, <2>4, <2>5
<1>5. UndisturbedInv'
  BY <1>4 DEF UndisturbedInv, Undisturbed
<1> QED
  BY <1>1, <1>3, <1>5 DEF IInv

\* What is in the two queues of answers and pieces at every step of the main
\* loop, from which the theorems below follow.
THEOREM Invariant == Spec => []IInv
<1>1. Init => IInv
  BY InitIInv
<1>2. IInv /\ [Next]_vars => IInv'
  BY InvariantStep
<1> QED
  BY <1>1, <1>2, PTL DEF Spec

\* The buffers and marks of the gateway, and what is on its way between it, the
\* host and the TPUART, have the types the code gives them.
THEOREM TypeCorrect == Spec => []TypeOK
<1>1. IInv => TypeOK
  BY DEF IInv
<1> QED
  BY <1>1, Invariant, PTL

\* Until a reset or a lost byte: the gateway waits for a confirmation exactly
\* while one is due, so the TPUART never has a second telegram of the host.
THEOREM OneAtATime == Spec => []OneOutstanding
<1>1. IInv => OneOutstanding
  <2> SUFFICES ASSUME IInv, ~disturbed
               PROVE  waitTPUconfirm = (Due # {})
    BY DEF OneOutstanding, Undisturbed
  <2> DEFINE q == FromTPUART
  <2>1. /\ waitTPUconfirm = (pending # None \/ AnyConfirms(q))
        /\ waitTPUconfirm \in BOOLEAN
    BY DEF IInv, UndisturbedInv, Undisturbed, LineInv, TypeOK, GatewayType
  <2>2. CASE pending # None
    BY <2>1, <2>2 DEF Due
  <2>3. CASE pending = None
    <3>1. Due = {q[i].of : i \in {j \in 1 .. Len(q) : Confirms(q[j])}}
      BY <2>3 DEF Due
    <3>2. Due # {} <=> AnyConfirms(q)
      BY <3>1 DEF AnyConfirms
    <3> QED
      BY <2>1, <2>3, <3>2
  <2> QED
    BY <2>2, <2>3
<1> QED
  BY <1>1, Invariant, PTL

\* Until a reset or a lost byte: a telegram the host reads as confirmed has
\* been on the bus.
THEOREM OnlySentIsConfirmed == Spec => []ConfirmedWasSent
<1>1. IInv => ConfirmedWasSent
  BY DEF IInv, UndisturbedInv, Truthful, ConfirmedWasSent
<1> QED
  BY <1>1, Invariant, PTL

\* Until a reset or a lost byte: what the host reads as a telegram from the bus
\* is none of its own.
THEOREM EchoIsKept == Spec => []EchoIsNotIndicated
<1>1. IInv => EchoIsNotIndicated
  BY DEF IInv, UndisturbedInv, Truthful, EchoIsNotIndicated
<1> QED
  BY <1>1, Invariant, PTL

\* Whatever is reset, repeated or lost, a second part follows its first.
THEOREM PartsInOrder == Spec => []SecondFollowsFirst
<1>1. IInv => SecondFollowsFirst
  BY DEF IInv, PartsPaired, SecondFollowsFirst
<1> QED
  BY <1>1, Invariant, PTL
==============================================================================
