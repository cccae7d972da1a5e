----------------------------- MODULE TelnetProofs -----------------------------
(***************************************************************************)
(* Proofs about Telnet for every set of peers, every command table and     *)
(* every size of the buffers: `accept' counts, and as long as the console  *)
(* and the server are not used at the same time, the server's buffer is    *)
(* allocated while a session is open.                                      *)
(***************************************************************************)
EXTENDS Telnet, FiniteSetTheorems, SequenceTheorems, WellFoundedInduction, TLAPS

\* What `accept' says, by cases: nobody is served, one peer is served, or a
\* welcome text has failed and nobody will be served again.
NobodyServed == tally.failed = 0 /\ Live = {} /\ accept = 0
OneServed == tally.failed = 0 /\ accept = 1 /\ \E p \in Peers : Live = {p}
ShutForGood == tally.failed = 1 /\ Live = {} /\ accept = -1

Counting == NobodyServed \/ OneServed \/ ShutForGood

CountingInv ==
  /\ DOMAIN conn = Peers
  /\ DOMAIN tally = {"refused", "failed", "broken", "lost"}
  /\ Counting

\* The server's buffer, and that the console is idle while it is in use.
BufferInv ==
  /\ ServerBufferAllocated
  /\ Live # {} => task = Idle

------------------------------------------------------------------------------
(* Connections                                                             *)

LEMMA Served ==
  ASSUME CountingInv, NEW p \in Peers, conn[p] # "none"
  PROVE  OneServed /\ Live = {p}
  BY DEF CountingInv, Counting, NobodyServed, OneServed, ShutForGood, Live

LEMMA NotServed ==
  ASSUME CountingInv, accept = 0
  PROVE  NobodyServed
  BY DEF CountingInv, Counting, NobodyServed, OneServed, ShutForGood

\* A step that changes no connection changes no count.
LEMMA SameConnections ==
  ASSUME CountingInv, DOMAIN conn' = Peers, Live' = Live, accept' = accept,
         DOMAIN tally' = {"refused", "failed", "broken", "lost"},
         tally'.failed = tally.failed
  PROVE  CountingInv'
  BY DEF CountingInv, Counting, NobodyServed, OneServed, ShutForGood

\* A connection that is gone was the only one.
LEMMA GoneCounted ==
  ASSUME CountingInv, NEW p \in Peers, conn[p] # "none", Gone(p),
         DOMAIN tally' = {"refused", "failed", "broken", "lost"},
         tally'.failed = tally.failed
  PROVE  CountingInv' /\ Live' = {}
<1>1. OneServed /\ Live = {p}
  BY Served
<1>2. DOMAIN conn' = Peers
  BY DEF Gone, CountingInv
<1>3. Live' = {}
  BY <1>1 DEF Gone, CountingInv, Live
<1>4. accept' = 0 /\ tally'.failed = 0
  BY <1>1 DEF OneServed, Gone
<1> QED
  BY <1>2, <1>3, <1>4 DEF CountingInv, Counting, NobodyServed

THEOREM CountingInit == Init => CountingInv
  BY DEF Init, CountingInv, Counting, NobodyServed, Live

\* One step for each action of the server and the console.
THEOREM CountingStep == CountingInv /\ [Next]_vars => CountingInv'
<1> SUFFICES ASSUME CountingInv, [Next]_vars
             PROVE  CountingInv'
  OBVIOUS
<1> USE DEF CountingInv
<1>1. CASE UNCHANGED vars
  BY <1>1, SameConnections DEF vars, ghosts, Live
<1>2. CASE Console
  <2>1. UNCHANGED connections
    BY <1>2 DEF Console, ConsolePrint, ConsoleShow, ConsoleFree, ConsoleLine
  <2> QED
    BY <2>1, SameConnections DEF connections, Live
<1>3. ASSUME NEW p \in Peers, Server(p)
      PROVE  CountingInv'
  <2>1. CASE Accept(p)
    <3>1. NobodyServed
      BY <2>1, NotServed DEF Accept
    <3>2. DOMAIN conn' = Peers /\ Live' = {p}
      BY <2>1, <3>1 DEF Accept, NobodyServed, Live
    <3>3. accept' = 1 /\ tally' = tally
      BY <2>1, <3>1 DEF Accept, NobodyServed
    <3> QED
      BY <3>1, <3>2, <3>3 DEF NobodyServed, OneServed, Counting
  <2>2. CASE AcceptFails(p)
    <3>1. NobodyServed
      BY <2>2, NotServed DEF AcceptFails
    <3>2. conn' = conn /\ accept' = -1
      BY <2>2, <3>1 DEF AcceptFails, NobodyServed
    <3>3. /\ DOMAIN tally' = {"refused", "failed", "broken", "lost"}
          /\ tally'.failed = 1
      BY <2>2, <3>1 DEF AcceptFails, NobodyServed
    <3>4. Live' = {}
      BY <3>1, <3>2 DEF NobodyServed, Live
    <3> QED
      BY <3>2, <3>3, <3>4 DEF ShutForGood, Counting
  <2>3. CASE Refuse(p)
    BY <2>3, SameConnections DEF Refuse, Live
  <2>4. CASE FirstSegment(p)
    <3>1. DOMAIN conn' = Peers /\ Live' = Live
      BY <2>4 DEF FirstSegment, Live
    <3> QED
      BY <2>4, <3>1, SameConnections DEF FirstSegment, ghosts
  <2>5. CASE CommandLine(p)
    BY <2>5, SameConnections DEF CommandLine, Live
  <2>6. CASE QuitLine(p)
    <3>1. PICK q : Close(p, q)
      BY <2>6 DEF QuitLine
    <3> QED
      BY <2>6, <3>1, GoneCounted DEF QuitLine, Processed, Close
  <2>7. CASE PeerCloses(p)
    BY <2>7, SameConnections DEF PeerCloses, ghosts, Live
  <2>8. CASE Breaks(p)
    BY <2>8, GoneCounted DEF Breaks
  <2>9. CASE Acknowledge(p)
    BY <2>9, SameConnections DEF Acknowledge, Live
  <2>10. CASE PollCloses(p)
    BY <2>10, GoneCounted DEF PollCloses, Close
  <2>11. CASE \E n \in 0 .. NumLines : PollSends(p, n)
    BY <2>11, SameConnections DEF PollSends, Live
  <2> QED
    BY <1>3, <2>1, <2>2, <2>3, <2>4, <2>5, <2>6, <2>7, <2>8, <2>9, <2>10, <2>11 DEF Server
<1> QED
  BY <1>1, <1>2, <1>3 DEF Next

LEMMA CountingInvariant == Spec => []CountingInv
<1>1. Init => CountingInv
  BY CountingInit
<1>2. CountingInv /\ [Next]_vars => CountingInv'
  BY CountingStep
<1> QED
  BY <1>1, <1>2, PTL DEF Spec

\* Telnetd.c's counter is right whatever connections come and however they
\* end: at most one is served, and `accept' is one when it is; a welcome
\* text that fails makes it -1, and then it stays.
THEOREM AcceptCountsInvariant == Spec => []AcceptCounts
<1>1. CountingInv => AcceptCounts
  <2> SUFFICES ASSUME CountingInv
               PROVE  AcceptCounts
    OBVIOUS
  <2>1. CASE Live = {} /\ accept = -tally.failed /\ tally.failed \in Int
    BY <2>1, FS_EmptySet DEF AcceptCounts
  <2>2. CASE OneServed
    <3>1. Cardinality(Live) = 1
      BY <2>2, FS_Singleton DEF OneServed
    <3> QED
      BY <2>2, <3>1 DEF AcceptCounts, OneServed
  <2> QED
    BY <2>1, <2>2 DEF CountingInv, Counting, NobodyServed, ShutForGood
<1> QED
  BY <1>1, CountingInvariant, PTL

------------------------------------------------------------------------------
(* The buffer                                                              *)

\* A step after which nobody is served needs no buffer.
LEMMA BufferUnused ==
  ASSUME Live' = {}
  PROVE  BufferInv'
  BY DEF BufferInv, ServerBufferAllocated

THEOREM BufferStep ==
  ASSUME Exclusive
  PROVE  CountingInv /\ BufferInv /\ [Next]_vars => BufferInv'
<1> SUFFICES ASSUME CountingInv, BufferInv, [Next]_vars
             PROVE  BufferInv'
  OBVIOUS
<1> USE DEF BufferInv, ServerBufferAllocated
<1>1. ASSUME Live' \subseteq Live, UNCHANGED <<cmd_out, allocated, task>>
      PROVE  BufferInv'
  BY <1>1
<1>2. CASE UNCHANGED vars
  BY <1>1, <1>2 DEF vars, heap, Live
<1>3. CASE Console
  <2>1. UNCHANGED connections
    BY <1>3 DEF Console, ConsolePrint, ConsoleShow, ConsoleFree, ConsoleLine
  <2>2. CASE \E c \in Command : ConsoleLine(c)
    BY <2>1, <2>2, BufferUnused DEF ConsoleLine, connections, Live
  <2>3. CASE ConsolePrint \/ ConsoleShow \/ ConsoleFree
    <3>1. task.at # "idle"
      BY <2>3 DEF ConsolePrint, ConsoleShow, ConsoleFree
    <3>2. task # Idle
      BY <3>1 DEF Idle
    <3> QED
      BY <2>1, <3>2, BufferUnused DEF connections, Live
  <2> QED
    BY <1>3, <2>2, <2>3 DEF Console
<1>4. ASSUME NEW p \in Peers, Server(p)
      PROVE  BufferInv'
  <2>1. CASE Accept(p)
    BY <2>1 DEF Accept, Arrives, AllocateOut
  <2>2. CASE AcceptFails(p)
    <3>1. Live = {}
      BY <2>2, NotServed DEF AcceptFails, NobodyServed
    <3> QED
      BY <2>2, <3>1, BufferUnused DEF AcceptFails, Live
  <2>3. CASE Refuse(p)
    BY <1>1, <2>3 DEF Refuse, Arrives, Live
  <2>4. CASE FirstSegment(p)
    <3>1. Live' \subseteq Live
      BY <2>4 DEF FirstSegment, Live, CountingInv
    <3> QED
      BY <1>1, <2>4, <3>1 DEF FirstSegment, heap
  <2>5. CASE CommandLine(p)
    BY <1>1, <2>5 DEF CommandLine, Processed, Live
  <2>6. CASE QuitLine(p)
    <3>1. PICK q : Close(p, q)
      BY <2>6 DEF QuitLine
    <3> QED
      BY <2>6, <3>1, GoneCounted, BufferUnused DEF QuitLine, Processed, Close, CountingInv
  <2>7. CASE PeerCloses(p)
    BY <1>1, <2>7 DEF PeerCloses, heap, Live
  <2>8. CASE Breaks(p)
    BY <2>8, GoneCounted, BufferUnused DEF Breaks, CountingInv
  <2>9. CASE Acknowledge(p)
    BY <1>1, <2>9 DEF Acknowledge, Live
  <2>10. CASE PollCloses(p)
    BY <2>10, GoneCounted, BufferUnused DEF PollCloses, Close, CountingInv
  <2>11. CASE \E n \in 0 .. NumLines : PollSends(p, n)
    BY <1>1, <2>11 DEF PollSends, Live
  <2> QED
    BY <1>4, <2>1, <2>2, <2>3, <2>4, <2>5, <2>6, <2>7, <2>8, <2>9, <2>10, <2>11 DEF Server
<1> QED
  BY <1>2, <1>3, <1>4 DEF Next

\* As long as nobody uses the console while a telnet session is open, the
\* buffer the server sends from, and frees at the end, is allocated.
THEOREM ServerBufferInvariant ==
  ASSUME Exclusive
  PROVE  Spec => []ServerBufferAllocated
<1>1. Init => BufferInv
  BY DEF Init, BufferInv, ServerBufferAllocated, Live
<1>2. CountingInv /\ BufferInv /\ [Next]_vars => BufferInv'
  BY BufferStep
<1>3. BufferInv => ServerBufferAllocated
  BY DEF BufferInv
<1> QED
  BY <1>1, <1>2, <1>3, CountingInvariant, PTL DEF Spec

------------------------------------------------------------------------------
(* Induction over slots and blocks: a set of numbers that has 0 and, with  *)
(* a number below the bound, the next one has all of them.                 *)

LEMMA LessIsWellFounded == IsWellFoundedOn({p \in Nat \X Nat : p[1] < p[2]}, Nat)
  BY NatLessThanWellFounded DEF OpToRel

LEMMA LeastElement ==
  ASSUME NEW T, T \subseteq Nat, T # {}
  PROVE  \E x \in T : \A y \in T : x <= y
<1>1. PICK x \in T : \A y \in T : <<y, x>> \notin {p \in Nat \X Nat : p[1] < p[2]}
  BY LessIsWellFounded, WFMin, Zenon
<1>2. ASSUME NEW y \in T PROVE x <= y
  <2>1. x \in Nat /\ y \in Nat
    OBVIOUS
  <2>2. <<y, x>> \in Nat \X Nat /\ <<y, x>>[1] = y /\ <<y, x>>[2] = x
    BY <2>1
  <2>3. ~(y < x)
    BY <1>1, <2>2
  <2> QED
    BY <2>1, <2>3
<1> QED
  BY <1>2

LEMMA UpTo ==
  ASSUME NEW N \in Nat, NEW T, 0 \in T,
         \A k \in 0 .. N : k \in T /\ k < N => k + 1 \in T
  PROVE  \A k \in 0 .. N : k \in T
<1> DEFINE Missing == {k \in 0 .. N : k \notin T}
<1>1. SUFFICES ASSUME Missing # {} PROVE FALSE
  OBVIOUS
<1>2. Missing \subseteq Nat
  OBVIOUS
<1>3. PICK x \in Missing : \A y \in Missing : x <= y
  BY <1>1, <1>2, LeastElement
<1>4. x \in 0 .. N /\ x \notin T /\ x # 0
  BY <1>3
<1>5. x - 1 \in 0 .. N /\ x - 1 < N /\ (x - 1) + 1 = x /\ ~(x <= x - 1)
  BY <1>4
<1>6. x - 1 \in T
  BY <1>3, <1>5
<1> QED
  BY <1>4, <1>5, <1>6

\* The largest of some numbers up to n.
LEMMA MaxOfSome ==
  ASSUME NEW n \in Nat, NEW T, T \subseteq 0 .. n, T # {}
  PROVE  Max(T) \in T
<1> DEFINE Above == {n - k : k \in T}
<1>1. Above \subseteq Nat /\ Above # {}
  <2>1. \A k \in T : n - k \in Nat
    OBVIOUS
  <2>2. PICK k \in T : TRUE
    OBVIOUS
  <2> QED
    BY <2>1, <2>2
<1>2. PICK x \in Above : \A y \in Above : x <= y
  BY <1>1, LeastElement
<1>3. PICK k \in T : x = n - k
  BY <1>2
<1>4. \A j \in T : k >= j
  <2> SUFFICES ASSUME NEW j \in T PROVE k >= j
    OBVIOUS
  <2>1. n - k <= n - j
    BY <1>2, <1>3
  <2> QED
    BY <2>1
<1> QED
  BY <1>4, Zenon DEF Max

------------------------------------------------------------------------------
(* Functions by recursion over 0 .. n                                      *)

\* f is what Filled reads of the slots q.
Reads(q, f) ==
  f = [k \in 0 .. Len(q) |->
         IF k = 0 THEN <<>>
         ELSE IF q[k] = Null THEN f[k - 1] ELSE Append(f[k - 1], q[k])]

LEMMA ReadsExists ==
  ASSUME NEW q, Len(q) \in Nat
  PROVE  \E f : Reads(q, f)
<1> DEFINE Val(k, x) == IF q[k] = Null THEN x ELSE Append(x, q[k])
           Def(n, f) == f = [k \in 0 .. n |-> IF k = 0 THEN <<>> ELSE Val(k, f[k - 1])]
           T == {n \in 0 .. Len(q) : \E f : Def(n, f)}
<1>1. 0 \in T
  <2> DEFINE f == [k \in 0 .. 0 |-> <<>>]
  <2>1. Def(0, f)
    OBVIOUS
  <2>2. \E g : Def(0, g)
    BY <2>1
  <2> QED
    BY <2>2
<1>2. ASSUME NEW n \in 0 .. Len(q), n \in T, n < Len(q) PROVE n + 1 \in T
  <2>1. PICK f : Def(n, f)
    BY <1>2
  <2> HIDE DEF Val
  <2> DEFINE g == [k \in 0 .. n + 1 |-> IF k = n + 1 THEN Val(k, f[n]) ELSE f[k]]
  <2>2. ASSUME NEW k \in 0 .. n + 1
        PROVE  g[k] = IF k = 0 THEN <<>> ELSE Val(k, g[k - 1])
    <3>1. CASE k = n + 1
      BY <3>1
    <3>2. CASE k # n + 1
      <4>1. k \in 0 .. n /\ (k # 0 => k - 1 \in 0 .. n /\ k - 1 # n + 1)
        BY <3>2
      <4> QED
        BY <2>1, <4>1
    <3> QED
      BY <3>1, <3>2
  <2>3. Def(n + 1, g)
    BY <2>2
  <2>4. \E h : Def(n + 1, h)
    BY <2>3
  <2>5. n + 1 \in 0 .. Len(q)
    BY <1>2
  <2> QED
    BY <2>4, <2>5
<1>3. \A n \in 0 .. Len(q) : n \in T
  <2> HIDE DEF T
  <2> QED
    BY <1>1, <1>2, UpTo
<1>4. Len(q) \in T
  BY <1>3
<1>5. PICK f : Def(Len(q), f)
  BY <1>4
<1>6. Reads(q, f)
  BY <1>5 DEF Reads
<1> QED
  BY <1>6

LEMMA FilledIs ==
  ASSUME NEW q, Len(q) \in Nat
  PROVE  \E f : Reads(q, f) /\ Filled(q) = f[Len(q)]
<1> DEFINE first == CHOOSE f : Reads(q, f)
<1>1. Reads(q, first)
  BY ReadsExists, Zenon
<1>2. Filled(q) = first[Len(q)]
  BY Zenon DEF Filled, Reads
<1> QED
  BY <1>1, <1>2

\* Reads, slot by slot.
LEMMA ReadsRule ==
  ASSUME NEW q, Len(q) \in Nat, NEW f, Reads(q, f)
  PROVE  /\ f[0] = <<>>
         /\ \A k \in 0 .. Len(q) - 1 :
              f[k + 1] = IF q[k + 1] = Null THEN f[k] ELSE Append(f[k], q[k + 1])
<1>1. 0 \in 0 .. Len(q) /\ \A k \in 0 .. Len(q) - 1 :
        k + 1 \in 0 .. Len(q) /\ k + 1 # 0 /\ (k + 1) - 1 = k
  OBVIOUS
<1>2. \A k \in 0 .. Len(q) :
        f[k] = IF k = 0 THEN <<>>
               ELSE IF q[k] = Null THEN f[k - 1] ELSE Append(f[k - 1], q[k])
  BY Zenon DEF Reads
<1> QED
  BY <1>1, <1>2

\* Slots that are alike are read alike.
LEMMA ReadsAlike ==
  ASSUME NEW q, Len(q) \in Nat, NEW f, Reads(q, f),
         NEW r, Len(r) \in Nat, NEW g, Reads(r, g),
         NEW n \in Nat, n <= Len(q), n <= Len(r), \A k \in 1 .. n : q[k] = r[k]
  PROVE  f[n] = g[n]
<1> DEFINE T == {k \in 0 .. n : f[k] = g[k]}
<1>1. 0 \in T
  BY ReadsRule
<1>2. ASSUME NEW k \in 0 .. n, k \in T, k < n PROVE k + 1 \in T
  <2>1. k \in 0 .. Len(q) - 1 /\ k \in 0 .. Len(r) - 1 /\ k + 1 \in 1 .. n
    BY <1>2
  <2>2. f[k + 1] = IF q[k + 1] = Null THEN f[k] ELSE Append(f[k], q[k + 1])
    BY <2>1, ReadsRule
  <2>3. g[k + 1] = IF r[k + 1] = Null THEN g[k] ELSE Append(g[k], r[k + 1])
    BY <2>1, ReadsRule
  <2>4. f[k] = g[k] /\ q[k + 1] = r[k + 1]
    BY <1>2, <2>1
  <2> QED
    BY <2>1, <2>2, <2>3, <2>4
<1>3. \A k \in 0 .. n : k \in T
  <2> HIDE DEF T
  <2> QED
    BY <1>1, <1>2, UpTo
<1> QED
  BY <1>3

------------------------------------------------------------------------------
(* The lines in a buffer                                                   *)

Slot == Line \cup {Null}

LEMMA NotNull == \A x \in Line : x # Null
  BY DEF Line, Null

LEMMA ReadsType ==
  ASSUME NEW q \in Seq(Slot), NEW f, Reads(q, f)
  PROVE  \A k \in 0 .. Len(q) : f[k] \in Seq(Line)
<1> DEFINE T == {k \in 0 .. Len(q) : f[k] \in Seq(Line)}
<1>0. Len(q) \in Nat /\ \A k \in 1 .. Len(q) : q[k] \in Slot
  OBVIOUS
<1>1. 0 \in T
  <2>1. f[0] = <<>> /\ 0 \in 0 .. Len(q)
    BY <1>0, ReadsRule
  <2>2. <<>> \in Seq(Line)
    BY EmptySeq
  <2> QED
    BY <2>1, <2>2
<1>2. ASSUME NEW k \in 0 .. Len(q), k \in T, k < Len(q) PROVE k + 1 \in T
  <2>1. k \in 0 .. Len(q) - 1 /\ k + 1 \in 1 .. Len(q)
    BY <1>0, <1>2
  <2>2. f[k + 1] = IF q[k + 1] = Null THEN f[k] ELSE Append(f[k], q[k + 1])
    BY <1>0, <2>1, ReadsRule
  <2>3. f[k] \in Seq(Line) /\ (q[k + 1] # Null => q[k + 1] \in Line)
    BY <1>0, <1>2, <2>1 DEF Slot
  <2>4. q[k + 1] # Null => Append(f[k], q[k + 1]) \in Seq(Line)
    BY <2>3, AppendProperties
  <2>5. f[k + 1] \in Seq(Line)
    BY <2>2, <2>3, <2>4
  <2>6. k + 1 \in 0 .. Len(q)
    BY <2>1
  <2> QED
    BY <2>5, <2>6
<1>3. \A k \in 0 .. Len(q) : k \in T
  <2> HIDE DEF T
  <2> QED
    BY <1>0, <1>1, <1>2, UpTo
<1> QED
  BY <1>3

LEMMA FilledType ==
  ASSUME NEW q \in Seq(Slot)
  PROVE  Filled(q) \in Seq(Line) /\ Len(Filled(q)) \in Nat
<1>1. Len(q) \in Nat /\ Len(q) \in 0 .. Len(q)
  OBVIOUS
<1>2. PICK f : Reads(q, f) /\ Filled(q) = f[Len(q)]
  BY <1>1, FilledIs
<1>3. Filled(q) \in Seq(Line)
  BY <1>1, <1>2, ReadsType
<1> QED
  BY <1>3

LEMMA FilledNone == Filled(<<>>) = <<>>
<1>1. Len(<<>>) = 0 /\ 0 \in Nat
  OBVIOUS
<1>2. PICK f : Reads(<<>>, f) /\ Filled(<<>>) = f[Len(<<>>)]
  BY <1>1, FilledIs
<1>3. f[0] = <<>>
  BY <1>1, <1>2, ReadsRule
<1> QED
  BY <1>1, <1>2, <1>3

\* The first slots of a buffer.
LEMMA FilledFirst ==
  ASSUME NEW q \in Seq(Slot), NEW f, Reads(q, f), NEW k \in 0 .. Len(q)
  PROVE  Filled(SubSeq(q, 1, k)) = f[k] /\ SubSeq(q, 1, k) \in Seq(Slot)
<1> DEFINE r == SubSeq(q, 1, k)
<1>0. Len(q) \in Nat /\ k \in Nat /\ k <= Len(q) /\ \A i \in 1 .. k : q[i] \in Slot
  OBVIOUS
<1>1. /\ r \in Seq(Slot)
      /\ Len(r) = IF 1 <= k THEN k - 1 + 1 ELSE 0
      /\ \A i \in 1 .. k - 1 + 1 : r[i] = q[1 + i - 1]
  BY <1>0, SubSeqProperties
<1>2. Len(r) = k /\ \A i \in 1 .. k : q[i] = r[i]
  BY <1>0, <1>1
<1> HIDE DEF r
<1>3. PICK g : Reads(r, g) /\ Filled(r) = g[Len(r)]
  BY <1>0, <1>2, FilledIs
<1>4. f[k] = g[k]
  BY <1>0, <1>2, <1>3, ReadsAlike
<1> QED
  BY <1>1, <1>2, <1>3, <1>4 DEF r

LEMMA AppendConcat ==
  ASSUME NEW s \in Seq(Line), NEW r \in Seq(Line), NEW x \in Line
  PROVE  s \o Append(r, x) = Append(s \o r, x)
  OBVIOUS

LEMMA Associative ==
  \A s, t, u \in Seq(Line) : (s \o t) \o u = s \o (t \o u)
  BY ConcatAssociative

\* New lines come behind those that are there.
LEMMA FilledConcat ==
  ASSUME NEW q \in Seq(Slot), NEW new \in Seq(Line)
  PROVE  q \o new \in Seq(Slot) /\ Filled(q \o new) = Filled(q) \o new
<1> DEFINE s == q \o new
<1>0. new \in Seq(Slot) /\ Len(q) \in Nat /\ Len(new) \in Nat
      /\ \A i \in 1 .. Len(new) : new[i] \in Line
  <2>1. Line \subseteq Slot
    BY DEF Slot
  <2> QED
    BY <2>1, SeqMonotonic
<1>1. /\ s \in Seq(Slot) /\ Len(s) = Len(q) + Len(new)
      /\ \A i \in 1 .. Len(q) + Len(new) :
           s[i] = IF i <= Len(q) THEN q[i] ELSE new[i - Len(q)]
  BY <1>0, ConcatProperties
<1> HIDE DEF s
<1>2. PICK f : Reads(q, f) /\ Filled(q) = f[Len(q)]
  BY <1>0, FilledIs
<1>3. PICK g : Reads(s, g) /\ Filled(s) = g[Len(s)]
  BY <1>0, <1>1, FilledIs
<1>4. g[Len(q)] = Filled(q)
  <2>1. \A k \in 1 .. Len(q) : q[k] = s[k]
    BY <1>0, <1>1
  <2>2. Len(s) \in Nat /\ Len(q) <= Len(s)
    BY <1>0, <1>1
  <2>3. f[Len(q)] = g[Len(q)]
    BY <1>0, <1>2, <1>3, <2>1, <2>2, ReadsAlike
  <2> QED
    BY <1>2, <2>3
<1>5. Filled(q) \in Seq(Line)
  BY FilledType
<1> DEFINE T == {j \in 0 .. Len(new) : g[Len(q) + j] = Filled(q) \o SubSeq(new, 1, j)}
<1>6. 0 \in T
  <2>1. SubSeq(new, 1, 0) = <<>>
    BY SubSeqEmpty
  <2> QED
    BY <1>0, <1>4, <1>5, <2>1, ConcatEmptySeq
<1>7. ASSUME NEW j \in 0 .. Len(new), j \in T, j < Len(new) PROVE j + 1 \in T
  <2> DEFINE k == Len(q) + j
             x == new[j + 1]
             a == SubSeq(new, 1, j)
  <2>1. k \in 0 .. Len(s) - 1 /\ j + 1 \in 1 .. Len(new) /\ k + 1 = Len(q) + (j + 1)
    <3>1. Len(q) \in Nat /\ Len(new) \in Nat /\ Len(s) = Len(q) + Len(new)
      BY <1>0, <1>1
    <3>2. j \in 0 .. Len(new) /\ j < Len(new)
      BY <1>7
    <3> QED
      BY <3>1, <3>2
  <2>2. s[k + 1] = x /\ x \in Line
    BY <1>0, <1>1, <2>1
  <2>3. g[k + 1] = Append(g[k], x)
    <3>1. Len(s) \in Nat
      BY <1>0, <1>1
    <3>2. g[k + 1] = IF s[k + 1] = Null THEN g[k] ELSE Append(g[k], s[k + 1])
      BY <1>3, <2>1, <3>1, ReadsRule
    <3> QED
      BY <2>2, <3>2, NotNull
  <2>4. a \in Seq(Line) /\ SubSeq(new, 1, j + 1) = Append(a, x)
    <3>1. a \in Seq(Line)
      BY <1>0, <2>1, SubSeqProperties
    <3>2. SubSeq(new, 1, j + 1) = a \o <<x>>
      <4>1. 1 \in 1 .. Len(new) /\ j + 1 \in 1 .. Len(new) /\ (j + 1) - 1 = j
        BY <1>0, <2>1
      <4> QED
        BY <4>1, SubSeqRecursiveSecond
    <3> QED
      BY <2>2, <3>1, <3>2, AppendIsConcat
  <2>5. g[k] = Filled(q) \o a
    BY <1>7
  <2> HIDE DEF k, x, a
  <2>6. Append(Filled(q) \o a, x) = Filled(q) \o Append(a, x)
    BY <1>5, <2>2, <2>4, AppendConcat
  <2>7. g[Len(q) + (j + 1)] = Filled(q) \o SubSeq(new, 1, j + 1)
    BY <2>1, <2>3, <2>4, <2>5, <2>6
  <2>8. j + 1 \in 0 .. Len(new)
    BY <2>1
  <2> QED
    BY <2>7, <2>8
<1>8. \A j \in 0 .. Len(new) : j \in T
  <2> HIDE DEF T
  <2> QED
    BY <1>0, <1>6, <1>7, UpTo
<1>9. SubSeq(new, 1, Len(new)) = new
  BY SubSeqFull
<1>10. g[Len(q) + Len(new)] = Filled(q) \o new
  BY <1>0, <1>8, <1>9
<1> QED
  BY <1>1, <1>3, <1>10 DEF s

\* What is sent and what is left are together what was there.
LEMMA FilledRemaining ==
  ASSUME NEW q \in Seq(Slot), NEW k \in 0 .. Len(q)
  PROVE  /\ SubSeq(q, 1, k) \in Seq(Slot)
         /\ Remaining(q, k) \in Seq(Slot)
         /\ Filled(SubSeq(q, 1, k)) \o Filled(Remaining(q, k)) = Filled(q)
<1>0. Len(q) \in Nat /\ \A i \in 1 .. Len(q) : q[i] \in Slot
  OBVIOUS
<1>1. PICK f : Reads(q, f) /\ Filled(q) = f[Len(q)]
  BY <1>0, FilledIs
<1>2. Filled(SubSeq(q, 1, k)) = f[k] /\ SubSeq(q, 1, k) \in Seq(Slot)
  BY <1>1, FilledFirst
<1>3. CASE k = Len(q)
  <2>1. Remaining(q, k) = <<>> /\ <<>> \in Seq(Slot)
    BY <1>3, EmptySeq DEF Remaining
  <2>2. Filled(q) \in Seq(Line)
    BY FilledType
  <2>3. Filled(q) \o <<>> = Filled(q)
    BY <2>2, ConcatEmptySeq
  <2> QED
    BY <1>1, <1>2, <1>3, <2>1, <2>3, FilledNone
<1>4. CASE k # Len(q)
  <2> DEFINE r == [i \in 1 .. Len(q) |-> IF i <= k THEN Null ELSE q[i]]
  <2>1. Remaining(q, k) = r
    BY <1>4 DEF Remaining
  <2>2. /\ r \in Seq(Slot) /\ Len(r) = Len(q)
        /\ \A i \in 1 .. Len(q) : r[i] = IF i <= k THEN Null ELSE q[i]
    BY <1>0 DEF Slot
  <2> HIDE DEF r
  <2>3. PICK g : Reads(r, g) /\ Filled(r) = g[Len(r)]
    BY <1>0, <2>2, FilledIs
  <2>4. g[k] = <<>>
    <3> DEFINE T == {i \in 0 .. k : g[i] = <<>>}
    <3>1. 0 \in T
      BY <1>0, <2>2, <2>3, ReadsRule
    <3>2. ASSUME NEW i \in 0 .. k, i \in T, i < k PROVE i + 1 \in T
      <4>1. i \in 0 .. Len(r) - 1 /\ i + 1 \in 1 .. Len(q) /\ i + 1 <= k
        BY <1>0, <2>2, <3>2
      <4>2. g[i + 1] = IF r[i + 1] = Null THEN g[i] ELSE Append(g[i], r[i + 1])
        BY <1>0, <2>2, <2>3, <4>1, ReadsRule
      <4>3. r[i + 1] = Null
        BY <2>2, <4>1
      <4>4. i + 1 \in 0 .. k
        BY <4>1
      <4> QED
        BY <3>2, <4>2, <4>3, <4>4
    <3>3. \A i \in 0 .. k : i \in T
      <4> HIDE DEF T
      <4> QED
        BY <3>1, <3>2, UpTo
    <3> QED
      BY <3>3
  <2>5. \A i \in 0 .. Len(q) : f[i] \in Seq(Line)
    BY <1>1, ReadsType
  <2>6. \A i \in 0 .. Len(q) : g[i] \in Seq(Line)
    BY <2>2, <2>3, ReadsType
  <2> DEFINE T == {i \in 0 .. Len(q) - k : f[k + i] = f[k] \o g[k + i]}
  <2>7. 0 \in T
    <3>1. f[k] \o <<>> = f[k]
      BY <2>5, ConcatEmptySeq
    <3>2. k + 0 = k /\ 0 \in 0 .. Len(q) - k
      BY <1>0
    <3>3. f[k] = f[k] \o g[k]
      BY <2>4, <3>1
    <3> QED
      BY <3>2, <3>3
  <2>8. ASSUME NEW i \in 0 .. Len(q) - k, i \in T, i < Len(q) - k PROVE i + 1 \in T
    <3> DEFINE j == k + i
    <3>1. /\ j \in 0 .. Len(q) - 1 /\ j \in 0 .. Len(r) - 1 /\ j \in 0 .. Len(q)
          /\ j + 1 \in 1 .. Len(q) /\ ~(j + 1 <= k) /\ j + 1 = k + (i + 1)
          /\ i + 1 \in 0 .. Len(q) - k
      BY <1>0, <2>2, <2>8
    <3>2. f[j] = f[k] \o g[j]
      BY <2>8
    <3> HIDE DEF j
    <3>3. f[j + 1] = IF q[j + 1] = Null THEN f[j] ELSE Append(f[j], q[j + 1])
      BY <1>0, <1>1, <3>1, ReadsRule
    <3>4. g[j + 1] = IF r[j + 1] = Null THEN g[j] ELSE Append(g[j], r[j + 1])
      BY <1>0, <2>2, <2>3, <3>1, ReadsRule
    <3>5. r[j + 1] = q[j + 1] /\ q[j + 1] \in Slot
      BY <1>0, <2>2, <3>1
    <3>6. q[j + 1] # Null => Append(f[k] \o g[j], q[j + 1]) = f[k] \o Append(g[j], q[j + 1])
      BY <2>5, <2>6, <3>1, <3>5, AppendConcat DEF Slot
    <3>7. f[j + 1] = f[k] \o g[j + 1]
      BY <3>2, <3>3, <3>4, <3>5, <3>6, Zenon
    <3> QED
      BY <3>1, <3>7
  <2>9. \A i \in 0 .. Len(q) - k : i \in T
    <3> HIDE DEF T
    <3>1. Len(q) - k \in Nat
      BY <1>0
    <3> QED
      BY <2>7, <2>8, <3>1, UpTo
  <2>10. f[Len(q)] = f[k] \o g[Len(q)]
    <3>1. Len(q) - k \in 0 .. Len(q) - k /\ k + (Len(q) - k) = Len(q)
      BY <1>0
    <3> QED
      BY <2>9, <3>1
  <2> QED
    BY <1>1, <1>2, <2>1, <2>2, <2>3, <2>10
<1> QED
  BY <1>3, <1>4

\* No more slots are sent than tcp_write has memory for.
LEMMA SendCountRange ==
  ASSUME NEW q, NEW r, NEW n \in Nat
  PROVE  SendCount(q, r, n) \in 0 .. n
<1> DEFINE fits(k) == \A j \in 1 .. k :
             q[j] # Null => Length(q[j]) < r - Size(SubSeq(q, 1, j - 1))
           T == {k \in 0 .. n : fits(k)}
<1>1. 0 \in T
  <2>1. 1 .. 0 = {}
    OBVIOUS
  <2> HIDE DEF fits
  <2>2. fits(0)
    BY <2>1 DEF fits
  <2> QED
    BY <2>2
<1>2. SendCount(q, r, n) = Max(T)
  BY DEF SendCount
<1> HIDE DEF T
<1>3. T \subseteq 0 .. n
  BY DEF T
<1>4. Max(T) \in T
  BY <1>1, <1>3, MaxOfSome
<1> QED
  BY <1>2, <1>3, <1>4

LEMMA AcceptedType ==
  ASSUME NEW q, NEW new \in Seq(Line), Len(q) \in Nat
  PROVE  Accepted(q, new) \in Seq(Line)
<1> DEFINE m == Min({Len(new), NumLines - Len(q)})
<1>1. m \in Int /\ m <= Len(new)
  <2>1. Len(new) \in Int /\ NumLines - Len(q) \in Int
    BY TelnetAssumption
  <2> DEFINE S == {Len(new), NumLines - Len(q)}
  <2>2. \E x \in S : \A y \in S : x <= y
    BY <2>1
  <2>3. Min(S) \in S /\ \A y \in S : Min(S) <= y
    <3> HIDE DEF S
    <3> QED
      BY <2>2, Zenon DEF Min
  <2> QED
    BY <2>1, <2>3
<1> HIDE DEF m
<1>2. \A i \in 1 .. m : new[i] \in Line
  BY <1>1
<1>3. SubSeq(new, 1, m) \in Seq(Line)
  BY <1>1, <1>2, SubSeqProperties
<1> QED
  BY <1>3 DEF Accepted, m

------------------------------------------------------------------------------
(* Sums over the blocks                                                    *)

Blocks == MaxConnects + 1

\* s holds the sums of h over the first blocks.
Sums(h, s) == s = [b \in 0 .. Blocks |-> IF b = 0 THEN 0 ELSE s[b - 1] + h[b]]

LEMMA BlocksNat == Blocks \in Nat /\ Block = 1 .. Blocks /\ Blocks = MaxConnects + 1
  BY TelnetAssumption DEF Blocks, Block

LEMMA SumsExists == ASSUME NEW h PROVE \E s : Sums(h, s)
<1> DEFINE Def(n, s) == s = [b \in 0 .. n |-> IF b = 0 THEN 0 ELSE s[b - 1] + h[b]]
           T == {n \in 0 .. Blocks : \E s : Def(n, s)}
<1>1. 0 \in T
  <2> DEFINE s == [b \in 0 .. 0 |-> 0]
  <2>1. Def(0, s)
    OBVIOUS
  <2>2. \E t : Def(0, t)
    BY <2>1
  <2> QED
    BY <2>2, BlocksNat
<1>2. ASSUME NEW n \in 0 .. Blocks, n \in T, n < Blocks PROVE n + 1 \in T
  <2>1. PICK s : Def(n, s)
    BY <1>2
  <2> DEFINE t == [b \in 0 .. n + 1 |-> IF b = n + 1 THEN s[n] + h[b] ELSE s[b]]
  <2>2. ASSUME NEW b \in 0 .. n + 1
        PROVE  t[b] = IF b = 0 THEN 0 ELSE t[b - 1] + h[b]
    <3>1. CASE b = n + 1
      BY <3>1
    <3>2. CASE b # n + 1
      <4>1. b \in 0 .. n /\ (b # 0 => b - 1 \in 0 .. n /\ b - 1 # n + 1)
        BY <3>2
      <4> QED
        BY <2>1, <4>1
    <3> QED
      BY <3>1, <3>2
  <2>3. Def(n + 1, t)
    BY <2>2
  <2>4. \E u : Def(n + 1, u)
    BY <2>3
  <2>5. n + 1 \in 0 .. Blocks
    BY <1>2, BlocksNat
  <2> QED
    BY <2>4, <2>5
<1>3. \A n \in 0 .. Blocks : n \in T
  <2> HIDE DEF T
  <2> QED
    BY <1>1, <1>2, UpTo, BlocksNat
<1>4. Blocks \in T
  BY <1>3, BlocksNat
<1>5. PICK s : Def(Blocks, s)
  BY <1>4
<1>6. Sums(h, s)
  BY <1>5 DEF Sums
<1> QED
  BY <1>6

\* Total, as the last of the sums.
LEMMA TotalIs ==
  ASSUME NEW h
  PROVE  \E s : /\ s[0] = 0
                /\ \A b \in 0 .. Blocks - 1 : s[b + 1] = s[b] + h[b + 1]
                /\ Total(h) = s[Blocks]
<1> DEFINE sum == CHOOSE s : Sums(h, s)
<1>1. Sums(h, sum)
  BY SumsExists, Zenon
<1>2. Total(h) = sum[Blocks]
  BY Zenon DEF Total, Sums, Blocks
<1> HIDE DEF sum
<1>3. 0 \in 0 .. Blocks /\ \A b \in 0 .. Blocks - 1 :
        b + 1 \in 0 .. Blocks /\ b + 1 # 0 /\ (b + 1) - 1 = b
  BY BlocksNat
<1>4. \A b \in 0 .. Blocks : sum[b] = IF b = 0 THEN 0 ELSE sum[b - 1] + h[b]
  BY <1>1, Zenon DEF Sums
<1>5. sum[0] = 0 /\ \A b \in 0 .. Blocks - 1 : sum[b + 1] = sum[b] + h[b + 1]
  BY <1>3, <1>4
<1> QED
  BY <1>2, <1>5

LEMMA TotalNone ==
  ASSUME NEW h, \A b \in Block : h[b] = 0
  PROVE  Total(h) = 0
<1>1. PICK s : /\ s[0] = 0
               /\ \A b \in 0 .. Blocks - 1 : s[b + 1] = s[b] + h[b + 1]
               /\ Total(h) = s[Blocks]
  BY TotalIs
<1> DEFINE T == {b \in 0 .. Blocks : s[b] = 0}
<1>2. 0 \in T
  BY <1>1, BlocksNat
<1>3. ASSUME NEW b \in 0 .. Blocks, b \in T, b < Blocks PROVE b + 1 \in T
  <2>1. b \in 0 .. Blocks - 1 /\ b + 1 \in 0 .. Blocks /\ b + 1 \in Block
    BY <1>3, BlocksNat
  <2> QED
    BY <1>1, <1>3, <2>1
<1>4. \A b \in 0 .. Blocks : b \in T
  <2> HIDE DEF T
  <2> QED
    BY <1>2, <1>3, UpTo, BlocksNat
<1>5. Blocks \in 0 .. Blocks
  BY BlocksNat
<1> QED
  BY <1>1, <1>4, <1>5

\* One block changes.
LEMMA TotalChanges ==
  ASSUME NEW g, NEW h, \A b \in Block : g[b] \in Nat /\ h[b] \in Nat,
         NEW c \in Block, \A b \in Block \ {c} : g[b] = h[b]
  PROVE  /\ Total(g) \in Int /\ Total(h) \in Int
         /\ Total(h) = Total(g) - g[c] + h[c]
<1>1. PICK s : /\ s[0] = 0
               /\ \A b \in 0 .. Blocks - 1 : s[b + 1] = s[b] + g[b + 1]
               /\ Total(g) = s[Blocks]
  BY TotalIs
<1>2. PICK t : /\ t[0] = 0
               /\ \A b \in 0 .. Blocks - 1 : t[b + 1] = t[b] + h[b + 1]
               /\ Total(h) = t[Blocks]
  BY TotalIs
<1> DEFINE T == {b \in 0 .. Blocks :
                   /\ s[b] \in Int /\ t[b] \in Int
                   /\ t[b] = IF b < c THEN s[b] ELSE s[b] - g[c] + h[c]}
<1>0. c \in 1 .. Blocks /\ c \in Nat /\ Blocks \in Nat
  BY BlocksNat
<1>3. 0 \in T
  BY <1>0, <1>1, <1>2
<1>4. ASSUME NEW b \in 0 .. Blocks, b \in T, b < Blocks PROVE b + 1 \in T
  <2>1. b \in 0 .. Blocks - 1 /\ b + 1 \in 0 .. Blocks /\ b + 1 \in Block /\ b \in Nat
    BY <1>4, BlocksNat
  <2>2. s[b + 1] = s[b] + g[b + 1] /\ t[b + 1] = t[b] + h[b + 1]
    BY <1>1, <1>2, <2>1
  <2>3. /\ s[b] \in Int /\ t[b] \in Int
        /\ t[b] = IF b < c THEN s[b] ELSE s[b] - g[c] + h[c]
    BY <1>4
  <2>4. /\ g[b + 1] \in Nat /\ h[b + 1] \in Nat /\ g[c] \in Nat /\ h[c] \in Nat
        /\ b + 1 # c => g[b + 1] = h[b + 1]
    BY <2>1
  <2>5. s[b + 1] \in Int /\ t[b + 1] \in Int
    BY <2>2, <2>3, <2>4
  <2>6. t[b + 1] = IF b + 1 < c THEN s[b + 1] ELSE s[b + 1] - g[c] + h[c]
    <3>1. CASE b + 1 = c
      <4>1. g[b + 1] = g[c] /\ h[b + 1] = h[c] /\ t[b] = s[b]
        BY <1>0, <2>1, <2>3, <3>1
      <4> QED
        BY <1>0, <2>1, <2>2, <2>3, <2>4, <3>1, <4>1
    <3>2. CASE b + 1 # c
      BY <1>0, <2>1, <2>2, <2>3, <2>4, <3>2
    <3> QED
      BY <3>1, <3>2
  <2> QED
    BY <2>1, <2>5, <2>6
<1>5. \A b \in 0 .. Blocks : b \in T
  <2> HIDE DEF T
  <2> QED
    BY <1>3, <1>4, UpTo, BlocksNat
<1>6. Blocks \in 0 .. Blocks /\ ~(Blocks < c)
  BY <1>0
<1>7. Blocks \in T
  BY <1>5, <1>6
<1> QED
  BY <1>1, <1>2, <1>6, <1>7

\* The lines in the blocks b of a, with the slots l.
HeldBy(l, a) == [b \in Block |-> IF b \in a THEN Len(Filled(l[b])) ELSE 0]
TotalBy(l, a) == Total(HeldBy(l, a))

Slots(l) == l \in [Block -> Seq(Slot)]

LEMMA HeldByType ==
  ASSUME NEW l, Slots(l), NEW a, NEW b \in Block
  PROVE  /\ HeldBy(l, a)[b] \in Nat
         /\ HeldBy(l, a)[b] = IF b \in a THEN Len(Filled(l[b])) ELSE 0
<1>1. HeldBy(l, a)[b] = IF b \in a THEN Len(Filled(l[b])) ELSE 0
  BY DEF HeldBy
<1>2. Len(Filled(l[b])) \in Nat
  BY FilledType DEF Slots
<1> QED
  BY <1>1, <1>2

\* Block c changes, or is allocated, or is freed.
OnlyChanged(c, l, a, m, d) ==
  \A b \in Block \ {c} : l[b] = m[b] /\ (b \in a <=> b \in d)

TotalChanged(c, l, a, m, d) ==
  /\ TotalBy(l, a) \in Int /\ TotalBy(m, d) \in Int
  /\ TotalBy(m, d) = TotalBy(l, a)
                       - (IF c \in a THEN Len(Filled(l[c])) ELSE 0)
                       + (IF c \in d THEN Len(Filled(m[c])) ELSE 0)

LEMMA TotalByChanges ==
  ASSUME NEW l, Slots(l), NEW a, NEW m, Slots(m), NEW d, NEW c \in Block,
         OnlyChanged(c, l, a, m, d)
  PROVE  TotalChanged(c, l, a, m, d)
<1> DEFINE g == HeldBy(l, a)
           h == HeldBy(m, d)
<1>1. \A b \in Block : g[b] \in Nat /\ h[b] \in Nat
  BY HeldByType
<1>2. \A b \in Block \ {c} : g[b] = h[b]
  <2> SUFFICES ASSUME NEW b \in Block \ {c} PROVE g[b] = h[b]
    OBVIOUS
  <2>1. g[b] = IF b \in a THEN Len(Filled(l[b])) ELSE 0
    BY HeldByType
  <2>2. h[b] = IF b \in d THEN Len(Filled(m[b])) ELSE 0
    BY HeldByType
  <2>3. l[b] = m[b] /\ (b \in a <=> b \in d)
    BY DEF OnlyChanged
  <2> HIDE DEF g, h
  <2> QED
    BY <2>1, <2>2, <2>3, Zenon
<1>3. g[c] = IF c \in a THEN Len(Filled(l[c])) ELSE 0
  BY HeldByType
<1>4. h[c] = IF c \in d THEN Len(Filled(m[c])) ELSE 0
  BY HeldByType
<1> HIDE DEF g, h
<1>5. /\ Total(g) \in Int /\ Total(h) \in Int
      /\ Total(h) = Total(g) - g[c] + h[c]
  BY <1>1, <1>2, TotalChanges
<1> QED
  BY <1>3, <1>4, <1>5 DEF TotalBy, TotalChanged, g, h

------------------------------------------------------------------------------
(* Memory and output                                                       *)

Tallies == [refused : Nat, failed : Nat, broken : Nat, lost : Nat]
Tasks == [at : {"idle", "process", "free"}, of : Command, left : Nat]

Types ==
  /\ Slots(lines)
  /\ allocated \subseteq Block
  /\ task \in Tasks
  /\ DOMAIN put = Peers /\ \A p \in Peers : put[p] \in Seq(Line)
  /\ DOMAIN shown = Peers /\ \A p \in Peers : shown[p] \in Seq(Line)
  /\ tally \in Tallies
  /\ attempts \in 0 .. MaxConnects

\* The console's buffer is allocated while it is at work, and empty when it is
\* freed.
ConsoleInv ==
  /\ task.at = "idle" => task = Idle
  /\ task # Idle => cmd_out \in allocated
  /\ task.at = "free" => lines[cmd_out] = <<>>

\* Number of connections, as far as an action may change it.
Served01 == IF Live = {} THEN 0 ELSE 1

\* What is allocated, with the number of connections in the place of
\* Cardinality(Live), and that the blocks suffice.
Accounts ==
  /\ states = Served01 + tally.refused
  /\ Cardinality(allocated) =
       Served01 + tally.broken + tally.failed + (IF task = Idle THEN 0 ELSE 1)
  /\ Served01 + tally.broken + tally.failed <= attempts
  /\ heldLines = tally.lost + TotalBy(lines, allocated)

\* What a connection printed and has not sent is in the buffer, in order; of
\* peers that are not served nothing is left.
Outputs ==
  \A p \in Peers :
    IF conn[p] = "none" THEN put[p] = <<>> /\ shown[p] = <<>>
    ELSE shown[p] \o Filled(lines[cmd_out]) = put[p]

MemoryInv == Types /\ ConsoleInv /\ Accounts /\ Outputs

LEMMA BlocksFinite == IsFiniteSet(Block) /\ Cardinality(Block) = MaxConnects + 1
<1>1. Block = 1 .. Blocks /\ Blocks \in Nat /\ Blocks = MaxConnects + 1
  BY BlocksNat
<1>2. IsFiniteSet(1 .. Blocks) /\ Cardinality(1 .. Blocks) = Blocks
  BY <1>1, FS_Interval
<1> QED
  BY <1>1, <1>2

LEMMA AllocatedFinite ==
  ASSUME NEW a, a \subseteq Block
  PROVE  IsFiniteSet(a) /\ Cardinality(a) \in Nat
<1>1. IsFiniteSet(a)
  BY BlocksFinite, FS_Subset
<1> QED
  BY <1>1, FS_CardinalityType

LEMMA TotalByType == ASSUME NEW l, Slots(l), NEW a PROVE TotalBy(l, a) \in Int
<1>1. MaxConnects + 1 \in Block
  BY TelnetAssumption DEF Block
<1> QED
  BY <1>1, TotalByChanges DEF TotalChanged, OnlyChanged

\* pvPortMalloc finds a block.
LEMMA Allocating ==
  ASSUME Types, Cardinality(allocated) <= MaxConnects, AllocateOut
  PROVE  /\ cmd_out' \in allocated' /\ allocated' \subseteq Block
         /\ Cardinality(allocated') = Cardinality(allocated) + 1
         /\ Slots(lines') /\ lines'[cmd_out'] = <<>>
         /\ TotalBy(lines', allocated') = TotalBy(lines, allocated)
<1>0. allocated \subseteq Block /\ Slots(lines)
  BY DEF Types
<1>1. Block \ allocated # {}
  <2>1. SUFFICES ASSUME Block \ allocated = {} PROVE FALSE
    OBVIOUS
  <2>2. allocated = Block
    BY <1>0, <2>1
  <2> QED
    BY <2>2, BlocksFinite, TelnetAssumption
<1>2. Block \ allocated \subseteq Nat
  BY BlocksNat
<1>3. FreshBlock \in Block \ allocated
  <2>1. \E b \in Block \ allocated : \A c \in Block \ allocated : b <= c
    BY <1>1, <1>2, LeastElement
  <2> QED
    BY <2>1, Zenon DEF FreshBlock
<1> DEFINE b == FreshBlock
<1> HIDE DEF b
<1>4. /\ b \in Block /\ b \notin allocated /\ cmd_out' = b
      /\ allocated' = allocated \cup {b}
      /\ lines' = [lines EXCEPT ![b] = <<>>]
  BY <1>3 DEF AllocateOut, b
<1>5. /\ Slots(lines') /\ lines'[b] = <<>>
      /\ \A c \in Block \ {b} : lines[c] = lines'[c] /\ (c \in allocated <=> c \in allocated')
  <2>1. <<>> \in Seq(Slot)
    BY EmptySeq
  <2> QED
    BY <1>0, <1>4, <2>1 DEF Slots
<1>6. Len(Filled(lines'[b])) = 0
  BY <1>5, FilledNone
<1>7. TotalChanged(b, lines, allocated, lines', allocated')
  <2>1. OnlyChanged(b, lines, allocated, lines', allocated')
    BY <1>5 DEF OnlyChanged
  <2> QED
    BY <1>0, <1>4, <1>5, <2>1, TotalByChanges
<1>8. TotalBy(lines', allocated') = TotalBy(lines, allocated)
  BY <1>4, <1>6, <1>7 DEF TotalChanged
<1>9. Cardinality(allocated') = Cardinality(allocated) + 1
  BY <1>0, <1>4, AllocatedFinite, FS_AddElement
<1> QED
  BY <1>0, <1>4, <1>5, <1>8, <1>9

\* A block is freed with what is in it.
LEMMA Freeing ==
  ASSUME Types, cmd_out \in allocated, allocated' = allocated \ {cmd_out},
         NEW q \in Seq(Slot), lines' = [lines EXCEPT ![cmd_out] = q]
  PROVE  /\ allocated' \subseteq Block /\ Slots(lines')
         /\ Cardinality(allocated') = Cardinality(allocated) - 1
         /\ TotalBy(lines, allocated) \in Int
         /\ TotalBy(lines', allocated') =
              TotalBy(lines, allocated) - Len(Filled(lines[cmd_out]))
<1>0. allocated \subseteq Block /\ Slots(lines) /\ cmd_out \in Block
  BY DEF Types
<1>1. /\ Slots(lines')
      /\ \A c \in Block \ {cmd_out} :
           lines[c] = lines'[c] /\ (c \in allocated <=> c \in allocated')
  BY <1>0 DEF Slots
<1>2. TotalChanged(cmd_out, lines, allocated, lines', allocated')
  <2>1. OnlyChanged(cmd_out, lines, allocated, lines', allocated')
    BY <1>1 DEF OnlyChanged
  <2> QED
    BY <1>0, <1>1, <2>1, TotalByChanges
<1>3. Len(Filled(lines[cmd_out])) \in Nat
  BY <1>0, FilledType DEF Slots
<1>4. cmd_out \in allocated /\ cmd_out \notin allocated'
  OBVIOUS
<1>5. /\ TotalBy(lines, allocated) \in Int
      /\ TotalBy(lines', allocated') = TotalBy(lines, allocated) - Len(Filled(lines[cmd_out]))
  BY <1>2, <1>3, <1>4 DEF TotalChanged
<1>6. Cardinality(allocated') = Cardinality(allocated) - 1
  BY <1>0, AllocatedFinite, FS_RemoveElement
<1> QED
  BY <1>0, <1>1, <1>2, <1>5, <1>6

\* The slots of the buffer in use change.
LEMMA Rewriting ==
  ASSUME Types, cmd_out \in allocated, allocated' = allocated,
         NEW q \in Seq(Slot), lines' = [lines EXCEPT ![cmd_out] = q]
  PROVE  /\ Slots(lines') /\ lines'[cmd_out] = q
         /\ Len(Filled(lines[cmd_out])) \in Nat /\ Len(Filled(q)) \in Nat
         /\ TotalBy(lines, allocated) \in Int
         /\ TotalBy(lines', allocated) =
              TotalBy(lines, allocated) - Len(Filled(lines[cmd_out])) + Len(Filled(q))
<1>0. allocated \subseteq Block /\ Slots(lines) /\ cmd_out \in Block
  BY DEF Types
<1>1. Slots(lines') /\ lines'[cmd_out] = q
  BY <1>0 DEF Slots
<1>2. TotalChanged(cmd_out, lines, allocated, lines', allocated)
  <2>1. OnlyChanged(cmd_out, lines, allocated, lines', allocated)
    BY <1>0 DEF OnlyChanged, Slots
  <2> QED
    BY <1>0, <1>1, <2>1, TotalByChanges
<1>3. Len(Filled(lines[cmd_out])) \in Nat /\ Len(Filled(q)) \in Nat
  BY <1>0, FilledType DEF Slots
<1> QED
  BY <1>1, <1>2, <1>3 DEF TotalChanged

\* send_data: with new lines behind those in the buffer, what was sent and
\* what is left are what was put there, and what is freed is no longer held.
LEMMA Sending ==
  ASSUME Types, cmd_out \in allocated, allocated' = allocated, heldLines \in Int,
         NEW p \in Peers, shown[p] \o Filled(lines[cmd_out]) = put[p],
         NEW q \in Seq(Slot), NEW new \in Seq(Line),
         Filled(q) = Filled(lines[cmd_out]) \o new,
         NEW r, NEW n \in 0 .. Len(q), SendData(p, q, r, n, Len(new))
  PROVE  /\ Slots(lines')
         /\ DOMAIN shown' = Peers /\ \A o \in Peers : shown'[o] \in Seq(Line)
         /\ \A o \in Peers \ {p} : shown'[o] = shown[o]
         /\ shown'[p] \o Filled(lines'[cmd_out]) = put[p] \o new
         /\ heldLines' - TotalBy(lines', allocated) = heldLines - TotalBy(lines, allocated)
<1> DEFINE k == SendCount(q, r, n)
           sent == Filled(SubSeq(q, 1, k))
           left == Remaining(q, k)
<1>0. Len(q) \in Nat /\ n \in Nat
  OBVIOUS
<1>1. k \in 0 .. Len(q)
  BY <1>0, SendCountRange
<1>2. /\ lines' = [lines EXCEPT ![cmd_out] = left]
      /\ shown' = [shown EXCEPT ![p] = shown[p] \o sent]
      /\ heldLines' = heldLines + Len(new) - Len(sent)
  BY DEF SendData
<1> HIDE DEF k
<1>3. /\ left \in Seq(Slot) /\ sent \o Filled(left) = Filled(q)
      /\ SubSeq(q, 1, k) \in Seq(Slot)
  BY <1>1, FilledRemaining
<1>4. sent \in Seq(Line)
  BY <1>3, FilledType
<1> HIDE DEF sent, left
<1>5. /\ Slots(lines') /\ lines'[cmd_out] = left
      /\ Len(Filled(lines[cmd_out])) \in Nat /\ Len(Filled(left)) \in Nat
      /\ TotalBy(lines, allocated) \in Int
      /\ TotalBy(lines', allocated) =
           TotalBy(lines, allocated) - Len(Filled(lines[cmd_out])) + Len(Filled(left))
  BY <1>2, <1>3, Rewriting
<1>6. /\ shown[p] \in Seq(Line) /\ DOMAIN shown = Peers
      /\ \A o \in Peers : shown[o] \in Seq(Line)
  BY DEF Types
<1>7. shown[p] \o sent \in Seq(Line)
  BY <1>4, <1>6, ConcatProperties
<1>8. /\ DOMAIN shown' = Peers /\ \A o \in Peers : shown'[o] \in Seq(Line)
      /\ \A o \in Peers \ {p} : shown'[o] = shown[o]
      /\ shown'[p] = shown[p] \o sent
  BY <1>2, <1>6, <1>7
<1> DEFINE here == Filled(lines[cmd_out])
           rest == Filled(left)
<1>9. here \in Seq(Line) /\ rest \in Seq(Line)
  BY <1>3, FilledType DEF Types, Slots
<1>10. Filled(q) = here \o new /\ shown[p] \o here = put[p]
  OBVIOUS
<1>11. sent \o rest = here \o new
  BY <1>3, <1>10
<1> HIDE DEF here, rest
<1>12. (shown[p] \o sent) \o rest = shown[p] \o (sent \o rest)
  BY <1>4, <1>6, <1>9, Associative
<1>13. shown[p] \o (here \o new) = (shown[p] \o here) \o new
  BY <1>6, <1>9, Associative
<1>14. shown'[p] \o Filled(lines'[cmd_out]) = put[p] \o new
  BY <1>5, <1>8, <1>10, <1>11, <1>12, <1>13 DEF rest
<1>15. Len(sent) + Len(rest) = Len(here) + Len(new)
  <2>1. Len(sent \o rest) = Len(sent) + Len(rest)
    BY <1>4, <1>9, ConcatProperties
  <2>2. Len(here \o new) = Len(here) + Len(new)
    BY <1>9, ConcatProperties
  <2> QED
    BY <1>11, <2>1, <2>2
<1>16. Len(sent) \in Nat /\ Len(new) \in Nat
  BY <1>4
<1>17. heldLines' - TotalBy(lines', allocated) = heldLines - TotalBy(lines, allocated)
  BY <1>2, <1>5, <1>15, <1>16 DEF here, rest
<1> QED
  BY <1>5, <1>8, <1>14, <1>17

LEMMA AnswerType == ASSUME NEW c \in Command PROVE Answer(c) \in Seq(Line)
<1>1. Output[c] \in Nat /\ Text(c, Prompt) \in Line
      /\ \A n \in 1 .. Output[c] : Text(c, n) \in Line
  BY TelnetAssumption DEF Text, Prompt, Line
<1>2. [n \in 1 .. Output[c] |-> Text(c, n)] \in Seq(Line)
  BY <1>1
<1>3. <<Text(c, Prompt)>> \in Seq(Line)
  BY <1>1
<1> QED
  BY <1>2, <1>3, ConcatProperties DEF Answer

\* What is known of an open session.
LEMMA SessionOpen ==
  ASSUME CountingInv, BufferInv, MemoryInv, NEW p \in Peers, conn[p] # "none"
  PROVE  /\ Live = {p} /\ Served01 = 1 /\ tally.failed = 0
         /\ task = Idle /\ cmd_out \in allocated
         /\ \A o \in Peers \ {p} : conn[o] = "none" /\ put[o] = <<>> /\ shown[o] = <<>>
         /\ shown[p] \o Filled(lines[cmd_out]) = put[p]
<1>1. OneServed /\ Live = {p}
  BY Served
<1>2. Live # {}
  BY <1>1
<1>3. \A o \in Peers \ {p} : conn[o] = "none"
  BY <1>1 DEF Live
<1> QED
  BY <1>1, <1>2, <1>3
  DEF OneServed, Served01, BufferInv, ServerBufferAllocated, MemoryInv, Outputs

\* Nothing is served: outputs are empty, and stay so.
LEMMA NoOutputs ==
  ASSUME MemoryInv, Live = {}, UNCHANGED <<conn, put, shown>>
  PROVE  Outputs'
<1>1. \A p \in Peers : conn[p] = "none" /\ put[p] = <<>> /\ shown[p] = <<>>
  BY DEF Live, MemoryInv, Outputs
<1> QED
  BY <1>1 DEF Outputs

LEMMA AccountTypes ==
  ASSUME CountingInv, MemoryInv
  PROVE  /\ Served01 \in {0, 1} /\ tally \in Tallies
         /\ tally.refused \in Nat /\ tally.failed \in Nat
         /\ tally.broken \in Nat /\ tally.lost \in Nat
         /\ attempts \in 0 .. MaxConnects /\ MaxConnects \in Nat
         /\ TotalBy(lines, allocated) \in Int
         /\ heldLines \in Int /\ Cardinality(allocated) \in Nat
<1>1. Types /\ Accounts
  BY DEF MemoryInv
<1>2. TotalBy(lines, allocated) \in Int /\ Cardinality(allocated) \in Nat
  BY <1>1, TotalByType, AllocatedFinite DEF Types
<1>3. tally \in Tallies /\ tally.refused \in Nat /\ tally.failed \in Nat
      /\ tally.broken \in Nat /\ tally.lost \in Nat
  BY <1>1 DEF Types, Tallies
<1> QED
  BY <1>1, <1>2, <1>3, TelnetAssumption DEF Types, Accounts, Served01

LEMMA AcceptMemory ==
  ASSUME Exclusive, CountingInv, BufferInv, MemoryInv, NEW p \in Peers,
         Accept(p) \/ AcceptFails(p)
  PROVE  MemoryInv'
<1>0. Types /\ Accounts /\ ConsoleInv /\ Outputs
  BY DEF MemoryInv
<1>1. NobodyServed /\ task = Idle /\ conn[p] = "none" /\ attempts < MaxConnects
  BY NotServed DEF Accept, AcceptFails, Arrives
<1>2. /\ AllocateOut /\ attempts' = attempts + 1
      /\ UNCHANGED <<heldLines, task, put, shown>>
  BY DEF Accept, AcceptFails, Arrives
<1>3. Served01 = 0 /\ tally.failed = 0 /\ Live = {}
  BY <1>1 DEF NobodyServed, Served01
<1>4. Cardinality(allocated) <= MaxConnects
  BY <1>0, <1>1, <1>3, AccountTypes DEF Accounts
<1>5. /\ cmd_out' \in allocated' /\ allocated' \subseteq Block
      /\ Cardinality(allocated') = Cardinality(allocated) + 1
      /\ Slots(lines') /\ lines'[cmd_out'] = <<>>
      /\ TotalBy(lines', allocated') = TotalBy(lines, allocated)
  BY <1>0, <1>2, <1>4, Allocating
<1>6. attempts' \in 0 .. MaxConnects
  BY <1>1, <1>2, AccountTypes
<1>7. ConsoleInv'
  BY <1>1, <1>2, <1>5 DEF ConsoleInv, Idle
<1>8. CASE Accept(p)
  <2>1. /\ conn' = [conn EXCEPT ![p] = "accepted"] /\ states' = states + 1
        /\ UNCHANGED tally
    BY <1>8 DEF Accept
  <2>2. Live' = {p} /\ \A o \in Peers \ {p} : conn'[o] = "none"
    BY <1>3, <2>1 DEF Live, CountingInv
  <2>3. Served01' = 1
    BY <2>2 DEF Served01
  <2>4. Types'
    BY <1>0, <1>2, <1>5, <1>6, <2>1 DEF Types
  <2>5. Accounts'
    <3>1. heldLines' = tally'.lost + TotalBy(lines', allocated')
      BY <1>0, <1>2, <1>5, <2>1 DEF Accounts
    <3> QED
      BY SMTT(45), <1>0, <1>1, <1>2, <1>3, <1>5, <2>1, <2>3, <3>1, AccountTypes DEF Accounts
  <2>6. Outputs'
    <3>1. put[p] = <<>> /\ shown[p] = <<>>
      BY <1>0, <1>1 DEF Outputs
    <3>2. conn'[p] # "none"
      BY <2>1 DEF CountingInv
    <3>3. Filled(lines'[cmd_out']) = <<>> /\ <<>> \o <<>> = <<>>
      BY <1>5, FilledNone
    <3>4. \A o \in Peers \ {p} : put[o] = <<>> /\ shown[o] = <<>>
      BY <1>0, <1>3 DEF Outputs, Live
    <3> QED
      BY <1>2, <2>2, <3>1, <3>2, <3>3, <3>4 DEF Outputs
  <2> QED
    BY <1>7, <2>4, <2>5, <2>6 DEF MemoryInv
<1>9. CASE AcceptFails(p)
  <2>1. /\ UNCHANGED <<conn, states>>
        /\ tally' = [tally EXCEPT !.failed = @ + 1]
    BY <1>9 DEF AcceptFails
  <2>2. Live' = {} /\ Served01' = 0
    BY <1>3, <2>1 DEF Live, Served01
  <2>3. /\ tally' \in Tallies /\ tally'.refused = tally.refused
        /\ tally'.failed = 1 /\ tally'.broken = tally.broken
        /\ tally'.lost = tally.lost
    BY <1>3, <2>1, AccountTypes DEF Tallies
  <2>4. Types'
    BY <1>0, <1>2, <1>5, <1>6, <2>3 DEF Types
  <2>5. Accounts'
    <3>1. heldLines' = tally'.lost + TotalBy(lines', allocated')
      BY <1>0, <1>2, <1>5, <2>3 DEF Accounts
    <3> QED
      BY <1>0, <1>1, <1>2, <1>3, <1>5, <2>1, <2>2, <2>3, <3>1, AccountTypes DEF Accounts
  <2>6. Outputs'
    BY <1>2, <1>3, <2>1, NoOutputs
  <2> QED
    BY <1>7, <2>4, <2>5, <2>6 DEF MemoryInv
<1> QED
  BY <1>8, <1>9

\* A step in which an open session sends, with new lines or without.
LEMMA SendingMemory ==
  ASSUME CountingInv, BufferInv, MemoryInv, NEW p \in Peers, conn[p] # "none",
         NEW q \in Seq(Slot), NEW new \in Seq(Line),
         Filled(q) = Filled(lines[cmd_out]) \o new,
         NEW r, NEW n \in 0 .. Len(q), SendData(p, q, r, n, Len(new)),
         DOMAIN put' = Peers, put'[p] = put[p] \o new,
         \A o \in Peers \ {p} : put'[o] = put[o],
         UNCHANGED <<conn, cmd_out, allocated, states, task, attempts, tally>>
  PROVE  MemoryInv'
<1>0. Types /\ Accounts /\ ConsoleInv /\ Outputs /\ heldLines \in Int
  BY AccountTypes DEF MemoryInv
<1>1. /\ Live = {p} /\ task = Idle /\ cmd_out \in allocated
      /\ \A o \in Peers \ {p} : conn[o] = "none" /\ put[o] = <<>> /\ shown[o] = <<>>
      /\ shown[p] \o Filled(lines[cmd_out]) = put[p]
  BY SessionOpen
<1>2. /\ Slots(lines')
      /\ DOMAIN shown' = Peers /\ \A o \in Peers : shown'[o] \in Seq(Line)
      /\ \A o \in Peers \ {p} : shown'[o] = shown[o]
      /\ shown'[p] \o Filled(lines'[cmd_out]) = put[p] \o new
      /\ heldLines' - TotalBy(lines', allocated) = heldLines - TotalBy(lines, allocated)
  BY <1>0, <1>1, Sending
<1>3. heldLines' \in Int
  <2>1. Len(Filled(SubSeq(q, 1, SendCount(q, r, n)))) \in Nat
    BY SendCountRange, FilledRemaining, FilledType
  <2> QED
    BY <1>0, <2>1 DEF SendData
<1>4. \A o \in Peers : put'[o] \in Seq(Line)
  <2>1. \A o \in Peers : put[o] \in Seq(Line)
    BY <1>0 DEF Types
  <2>2. put[p] \o new \in Seq(Line)
    BY <2>1, ConcatProperties
  <2> QED
    BY <2>1, <2>2
<1>5. Types'
  BY <1>0, <1>2, <1>4 DEF Types
<1>6. ConsoleInv'
  BY <1>1 DEF ConsoleInv, Idle
<1>7. Accounts'
  <2>1. Served01' = Served01
    BY DEF Served01, Live
  <2>2. TotalBy(lines', allocated) \in Int
    BY <1>2, TotalByType
  <2>3. heldLines' = tally.lost + TotalBy(lines', allocated)
    BY SMTT(45), <1>0, <1>2, <1>3, <2>2, AccountTypes DEF Accounts
  <2> QED
    BY <1>0, <2>1, <2>3 DEF Accounts
<1>8. Outputs'
  BY <1>1, <1>2 DEF Outputs
<1> QED
  BY <1>5, <1>6, <1>7, <1>8 DEF MemoryInv

LEMMA CommandMemory ==
  ASSUME CountingInv, BufferInv, MemoryInv, NEW p \in Peers, CommandLine(p)
  PROVE  MemoryInv'
<1>0. conn[p] # "none" /\ Types
  BY DEF CommandLine, Processed, MemoryInv
<1>1. cmd_out \in allocated /\ lines[cmd_out] \in Seq(Slot)
  <2>1. cmd_out \in allocated
    BY <1>0, SessionOpen
  <2> QED
    BY <1>0, <2>1 DEF Types, Slots
<1> DEFINE New(c) == Accepted(lines[cmd_out], Answer(c))
           Q(c) == lines[cmd_out] \o New(c)
<1>2. PICK c \in Command, n \in 0 .. NumLines :
        /\ n <= Len(Q(c))
        /\ SendData(p, Q(c), room[p], n, Len(New(c)))
        /\ put' = [put EXCEPT ![p] = put[p] \o New(c)]
  BY DEF CommandLine
<1>3. New(c) \in Seq(Line)
  <2>1. Answer(c) \in Seq(Line) /\ Len(lines[cmd_out]) \in Nat
    BY <1>1, AnswerType
  <2> QED
    BY <2>1, AcceptedType
<1> HIDE DEF New
<1>4. Q(c) \in Seq(Slot) /\ Filled(Q(c)) = Filled(lines[cmd_out]) \o New(c)
  BY <1>1, <1>3, FilledConcat
<1> HIDE DEF Q
<1>5. n \in 0 .. Len(Q(c))
  BY <1>2, <1>4
<1>6. /\ DOMAIN put' = Peers /\ put'[p] = put[p] \o New(c)
      /\ \A o \in Peers \ {p} : put'[o] = put[o]
  BY <1>0, <1>2 DEF Types
<1>7. UNCHANGED <<conn, cmd_out, allocated, states, task, attempts, tally>>
  BY DEF CommandLine, Processed
<1> QED
  BY <1>0, <1>2, <1>3, <1>4, <1>5, <1>6, <1>7, SendingMemory

\* telnet_poll and telnet_sent: nothing new is printed.
LEMMA ResendMemory ==
  ASSUME CountingInv, BufferInv, MemoryInv, NEW p \in Peers, conn[p] # "none",
         NEW r, NEW n \in 0 .. Len(lines[cmd_out]),
         SendData(p, lines[cmd_out], r, n, 0),
         UNCHANGED <<conn, cmd_out, allocated, states, task, attempts, put, tally>>
  PROVE  MemoryInv'
<1>0. Types /\ cmd_out \in allocated
  BY SessionOpen DEF MemoryInv
<1>1. lines[cmd_out] \in Seq(Slot) /\ Filled(lines[cmd_out]) \in Seq(Line)
  BY <1>0, FilledType DEF Types, Slots
<1>2. /\ <<>> \in Seq(Line) /\ Len(<<>>) = 0
      /\ Filled(lines[cmd_out]) = Filled(lines[cmd_out]) \o <<>>
  BY <1>1, ConcatEmptySeq, EmptySeq
<1>3. put[p] \in Seq(Line) /\ DOMAIN put = Peers
  BY <1>0 DEF Types
<1>4. put[p] = put[p] \o <<>>
  BY <1>3, ConcatEmptySeq
<1>5. SendData(p, lines[cmd_out], r, n, Len(<<>>))
  BY <1>2
<1> QED
  BY <1>1, <1>2, <1>3, <1>4, <1>5, SendingMemory

\* A connection ends.
LEMMA GoneMemory ==
  ASSUME CountingInv, BufferInv, MemoryInv, NEW p \in Peers, conn[p] # "none", Gone(p)
  PROVE  /\ Live' = {} /\ Served01' = 0 /\ Served01 = 1 /\ states' = states - 1
         /\ DOMAIN put' = Peers /\ \A o \in Peers : put'[o] \in Seq(Line)
         /\ DOMAIN shown' = Peers /\ \A o \in Peers : shown'[o] \in Seq(Line)
         /\ Outputs'
<1>0. Types /\ DOMAIN conn = Peers
  BY DEF MemoryInv, CountingInv
<1>1. /\ Live = {p} /\ Served01 = 1
      /\ \A o \in Peers \ {p} : conn[o] = "none" /\ put[o] = <<>> /\ shown[o] = <<>>
  BY SessionOpen
<1>2. /\ conn' = [conn EXCEPT ![p] = "none"] /\ states' = states - 1
      /\ put' = [put EXCEPT ![p] = <<>>] /\ shown' = [shown EXCEPT ![p] = <<>>]
  BY DEF Gone
<1>3. \A o \in Peers : conn'[o] = "none" /\ put'[o] = <<>> /\ shown'[o] = <<>>
  BY <1>0, <1>1, <1>2 DEF Types
<1>4. Live' = {} /\ Served01' = 0
  BY <1>3 DEF Live, Served01
<1>5. <<>> \in Seq(Line)
  BY EmptySeq
<1>6. DOMAIN put' = Peers /\ DOMAIN shown' = Peers
  BY <1>0, <1>2 DEF Types
<1> QED
  BY <1>1, <1>2, <1>3, <1>4, <1>5, <1>6 DEF Outputs

LEMMA CloseMemory ==
  ASSUME CountingInv, BufferInv, MemoryInv, NEW p \in Peers, conn[p] # "none",
         NEW q \in Seq(Slot), Close(p, q),
         heldLines' = heldLines - Len(Filled(lines[cmd_out])) + Len(Filled(q)),
         UNCHANGED <<task, attempts>>
  PROVE  MemoryInv'
<1>0. Types /\ Accounts /\ ConsoleInv
  BY DEF MemoryInv
<1>1. task = Idle /\ cmd_out \in allocated
  BY SessionOpen
<1>2. /\ Gone(p) /\ allocated' = allocated \ {cmd_out}
      /\ lines' = [lines EXCEPT ![cmd_out] = q]
      /\ tally' = [tally EXCEPT !.lost = tally.lost + Len(Filled(q))]
  BY DEF Close
<1>3. /\ Live' = {} /\ Served01' = 0 /\ Served01 = 1 /\ states' = states - 1
      /\ DOMAIN put' = Peers /\ \A o \in Peers : put'[o] \in Seq(Line)
      /\ DOMAIN shown' = Peers /\ \A o \in Peers : shown'[o] \in Seq(Line)
      /\ Outputs'
  BY <1>2, GoneMemory
<1>4. /\ allocated' \subseteq Block /\ Slots(lines')
      /\ Cardinality(allocated') = Cardinality(allocated) - 1
      /\ TotalBy(lines, allocated) \in Int
      /\ TotalBy(lines', allocated') =
           TotalBy(lines, allocated) - Len(Filled(lines[cmd_out]))
  BY <1>0, <1>1, <1>2, Freeing
<1>5. Len(Filled(q)) \in Nat /\ Len(Filled(lines[cmd_out])) \in Nat
  BY <1>0, <1>1, FilledType DEF Types, Slots
<1>6. /\ tally' \in Tallies /\ tally'.refused = tally.refused
      /\ tally'.failed = tally.failed /\ tally'.broken = tally.broken
      /\ tally'.lost = tally.lost + Len(Filled(q))
  <2>1. tally \in Tallies /\ tally.lost + Len(Filled(q)) \in Nat
    BY SMTT(30), <1>5, AccountTypes
  <2> QED
    BY <1>2, <2>1 DEF Tallies
<1>7. Types'
  BY <1>0, <1>3, <1>4, <1>6 DEF Types
<1>8. ConsoleInv'
  BY <1>1 DEF ConsoleInv, Idle
<1>9. Accounts'
  <2>1. heldLines' = tally'.lost + TotalBy(lines', allocated')
    <3>1. heldLines = tally.lost + TotalBy(lines, allocated) /\ tally.lost \in Nat
      BY <1>0, AccountTypes DEF Accounts
    <3> QED
      BY <1>4, <1>5, <1>6, <3>1
  <2>2. /\ tally.refused \in Nat /\ tally.broken \in Nat /\ tally.failed \in Nat
        /\ attempts \in Nat
    BY AccountTypes
  <2>3. /\ states = 1 + tally.refused
        /\ Cardinality(allocated) = 1 + tally.broken + tally.failed
        /\ 1 + tally.broken + tally.failed <= attempts
    BY SMTT(45), <1>0, <1>1, <1>3, <2>2 DEF Accounts
  <2>e. /\ Served01' = 0 /\ states' = states - 1
        /\ Cardinality(allocated') = Cardinality(allocated) - 1
        /\ tally'.refused = tally.refused
        /\ tally'.failed = tally.failed /\ tally'.broken = tally.broken
    BY <1>3, <1>4, <1>6
  <2>4. states' = Served01' + tally'.refused
    BY <2>2, <2>3, <2>e
  <2>5. Cardinality(allocated') = Served01' + tally'.broken + tally'.failed
    <3>1. \A b, f \in Nat : (1 + b + f) - 1 = 0 + b + f
      OBVIOUS
    <3> QED
      BY ONLY <2>2, <2>3, <2>e, <3>1
  <2>6. Served01' + tally'.broken + tally'.failed <= attempts
    <3>1. \A b, f, a \in Nat : 1 + b + f <= a => 0 + b + f <= a
      OBVIOUS
    <3> QED
      BY ONLY <2>2, <2>3, <2>e, <3>1
  <2>7. (IF task = Idle THEN 0 ELSE 1) = 0
    BY <1>1
  <2>8. Served01' + tally'.broken + tally'.failed + 0
          = Served01' + tally'.broken + tally'.failed
    BY <1>3, <1>6, <2>2
  <2> QED
    BY <2>1, <2>4, <2>5, <2>6, <2>7, <2>8, Zenon DEF Accounts
<1> QED
  BY <1>3, <1>7, <1>8, <1>9 DEF MemoryInv

LEMMA QuitMemory ==
  ASSUME CountingInv, BufferInv, MemoryInv, NEW p \in Peers, QuitLine(p)
  PROVE  MemoryInv'
<1>0. conn[p] # "none" /\ Types
  BY DEF QuitLine, Processed, MemoryInv
<1>1. cmd_out \in allocated /\ lines[cmd_out] \in Seq(Slot)
  <2>1. cmd_out \in allocated
    BY <1>0, SessionOpen
  <2> QED
    BY <1>0, <2>1 DEF Types, Slots
<1> DEFINE new == Accepted(lines[cmd_out], Answer(Quit))
           q == lines[cmd_out] \o new
           Left(n) == Remaining(q, SendCount(q, room[p], n))
<1>2. PICK n \in 0 .. NumLines :
        /\ n <= Len(q)
        /\ Close(p, Left(n))
        /\ heldLines' = heldLines + Len(new) - (Len(Filled(q)) - Len(Filled(Left(n))))
  BY DEF QuitLine
<1>3. new \in Seq(Line)
  <2>1. Answer(Quit) \in Seq(Line) /\ Len(lines[cmd_out]) \in Nat
    BY <1>1, AnswerType, TelnetAssumption
  <2> QED
    BY <2>1, AcceptedType
<1> HIDE DEF new
<1>4. q \in Seq(Slot) /\ Filled(q) = Filled(lines[cmd_out]) \o new
  BY <1>1, <1>3, FilledConcat
<1>5. Filled(lines[cmd_out]) \in Seq(Line)
  BY <1>1, FilledType
<1>6. Len(Filled(q)) = Len(Filled(lines[cmd_out])) + Len(new)
  BY <1>3, <1>4, <1>5, ConcatProperties
<1> HIDE DEF q
<1>7. Left(n) \in Seq(Slot)
  <2>1. n \in Nat /\ n <= Len(q) /\ Len(q) \in Nat
    BY <1>2, <1>4
  <2>2. SendCount(q, room[p], n) \in 0 .. Len(q)
    BY <2>1, SendCountRange
  <2> QED
    BY <1>4, <2>2, FilledRemaining
<1> HIDE DEF Left
<1>8. Len(Filled(Left(n))) \in Nat /\ Len(new) \in Nat /\ Len(Filled(lines[cmd_out])) \in Nat
  BY <1>3, <1>5, <1>7, FilledType
<1>9. heldLines' = heldLines - Len(Filled(lines[cmd_out])) + Len(Filled(Left(n)))
  BY <1>2, <1>6, <1>8, AccountTypes
<1>10. UNCHANGED <<task, attempts>>
  BY DEF QuitLine, Processed
<1> QED
  BY <1>0, <1>2, <1>7, <1>9, <1>10, CloseMemory

LEMMA PollClosesMemory ==
  ASSUME CountingInv, BufferInv, MemoryInv, NEW p \in Peers, PollCloses(p)
  PROVE  MemoryInv'
<1>1. /\ conn[p] # "none" /\ Close(p, lines[cmd_out])
      /\ UNCHANGED <<heldLines, task, attempts>>
  BY DEF PollCloses, bounds
<1>2. cmd_out \in allocated /\ Types
  BY <1>1, SessionOpen DEF MemoryInv
<1>3. lines[cmd_out] \in Seq(Slot)
  BY <1>2 DEF Types, Slots
<1>4. Len(Filled(lines[cmd_out])) \in Nat
  BY <1>3, FilledType
<1>5. heldLines' = heldLines - Len(Filled(lines[cmd_out])) + Len(Filled(lines[cmd_out]))
  BY <1>1, <1>4, AccountTypes
<1> QED
  BY <1>1, <1>3, <1>5, CloseMemory

LEMMA BreaksMemory ==
  ASSUME CountingInv, BufferInv, MemoryInv, NEW p \in Peers, Breaks(p)
  PROVE  MemoryInv'
<1>0. Types /\ Accounts /\ ConsoleInv
  BY DEF MemoryInv
<1>1. /\ conn[p] # "none" /\ Gone(p)
      /\ tally' = [tally EXCEPT !.broken = @ + 1]
      /\ UNCHANGED <<cmd_out, allocated, lines, heldLines, task, attempts>>
  BY DEF Breaks, bounds
<1>2. task = Idle /\ cmd_out \in allocated
  BY <1>1, SessionOpen
<1>3. /\ Live' = {} /\ Served01' = 0 /\ Served01 = 1 /\ states' = states - 1
      /\ DOMAIN put' = Peers /\ \A o \in Peers : put'[o] \in Seq(Line)
      /\ DOMAIN shown' = Peers /\ \A o \in Peers : shown'[o] \in Seq(Line)
      /\ Outputs'
  BY <1>1, GoneMemory
<1>4. /\ tally' \in Tallies /\ tally'.refused = tally.refused
      /\ tally'.failed = tally.failed /\ tally'.broken = tally.broken + 1
      /\ tally'.lost = tally.lost
  BY <1>1, AccountTypes DEF Tallies
<1>5. Types' /\ ConsoleInv'
  BY <1>0, <1>1, <1>2, <1>3, <1>4 DEF Types, ConsoleInv, Idle
<1>6. Accounts'
  BY SMTT(45), <1>0, <1>1, <1>3, <1>4, AccountTypes DEF Accounts
<1> QED
  BY <1>3, <1>5, <1>6 DEF MemoryInv

\* What the console leaves alone, and what it may change.
LEMMA ConsoleKeeps ==
  ASSUME MemoryInv, Live = {}, UNCHANGED connections,
         allocated' \subseteq Block, Slots(lines'), task' \in Tasks
  PROVE  Types' /\ Outputs' /\ Served01' = 0 /\ Served01 = 0
<1>1. Outputs'
  BY NoOutputs DEF connections
<1>2. Types'
  BY DEF connections, MemoryInv, Types
<1>3. Served01' = 0 /\ Served01 = 0
  BY DEF connections, Served01, Live
<1> QED
  BY <1>1, <1>2, <1>3

LEMMA ConsoleLineMemory ==
  ASSUME Exclusive, CountingInv, BufferInv, MemoryInv, NEW c \in Command, ConsoleLine(c)
  PROVE  MemoryInv'
<1>0. Types /\ Accounts /\ ConsoleInv
  BY DEF MemoryInv
<1>1. /\ Live = {} /\ task = Idle /\ AllocateOut
      /\ task' = [at |-> "process", of |-> c, left |-> Output[c]]
      /\ UNCHANGED connections /\ UNCHANGED heldLines
      /\ UNCHANGED <<states, tally, attempts>>
  BY DEF ConsoleLine, connections
<1>2. /\ tally.refused \in Nat /\ tally.broken \in Nat /\ tally.failed \in Nat
      /\ attempts \in 0 .. MaxConnects /\ MaxConnects \in Nat
  BY AccountTypes
<1>3. Served01 = 0
  BY <1>1 DEF Served01
<1>4. Cardinality(allocated) = tally.broken + tally.failed
  BY <1>0, <1>1, <1>2, <1>3 DEF Accounts
<1>5. Cardinality(allocated) <= MaxConnects
  BY <1>0, <1>2, <1>3, <1>4 DEF Accounts
<1>6. /\ cmd_out' \in allocated' /\ allocated' \subseteq Block
      /\ Cardinality(allocated') = Cardinality(allocated) + 1
      /\ Slots(lines') /\ lines'[cmd_out'] = <<>>
      /\ TotalBy(lines', allocated') = TotalBy(lines, allocated)
  BY <1>0, <1>1, <1>5, Allocating
<1>7. task' \in Tasks /\ task'.at = "process" /\ task' # Idle
  BY <1>1, TelnetAssumption DEF Tasks, Idle
<1>8. Types' /\ Outputs' /\ Served01' = 0
  BY <1>1, <1>6, <1>7, ConsoleKeeps
<1>9. ConsoleInv'
  BY <1>6, <1>7 DEF ConsoleInv
<1>10. Accounts'
  BY <1>0, <1>1, <1>2, <1>3, <1>4, <1>6, <1>7, <1>8 DEF Accounts
<1> QED
  BY <1>8, <1>9, <1>10 DEF MemoryInv

\* The console writes into its buffer, or empties it.
LEMMA ConsoleWriteMemory ==
  ASSUME CountingInv, BufferInv, MemoryInv, task # Idle,
         NEW q \in Seq(Slot), lines' = [lines EXCEPT ![cmd_out] = q],
         heldLines' = heldLines + Len(Filled(q)) - Len(Filled(lines[cmd_out])),
         task' \in Tasks, task' # Idle, task'.at # "idle",
         task'.at = "free" => q = <<>>,
         UNCHANGED connections, UNCHANGED <<cmd_out, allocated>>
  PROVE  MemoryInv'
<1>0. Types /\ Accounts /\ ConsoleInv /\ cmd_out \in allocated /\ Live = {}
  BY DEF MemoryInv, ConsoleInv, BufferInv
<1>1. /\ Slots(lines') /\ lines'[cmd_out] = q
      /\ Len(Filled(lines[cmd_out])) \in Nat /\ Len(Filled(q)) \in Nat
      /\ TotalBy(lines, allocated) \in Int
      /\ TotalBy(lines', allocated) =
           TotalBy(lines, allocated) - Len(Filled(lines[cmd_out])) + Len(Filled(q))
  BY <1>0, Rewriting
<1>2. allocated' \subseteq Block
  BY <1>0 DEF Types
<1>3. Types' /\ Outputs' /\ Served01' = 0 /\ Served01 = 0
  BY <1>0, <1>1, <1>2, ConsoleKeeps
<1>4. ConsoleInv'
  BY <1>0, <1>1 DEF ConsoleInv
<1>5. UNCHANGED <<states, tally, attempts>>
  BY DEF connections
<1>6. heldLines' = tally.lost + TotalBy(lines', allocated')
  BY SMTT(45), <1>0, <1>1, AccountTypes DEF Accounts
<1>7. Accounts'
  BY <1>0, <1>3, <1>5, <1>6 DEF Accounts
<1> QED
  BY <1>3, <1>4, <1>7 DEF MemoryInv

LEMMA ConsolePrintMemory ==
  ASSUME CountingInv, BufferInv, MemoryInv, ConsolePrint
  PROVE  MemoryInv'
<1> DEFINE new == Accepted(lines[cmd_out], <<Text(task.of, task.left)>>)
           q == lines[cmd_out] \o new
<1>0. Types /\ ConsoleInv
  BY DEF MemoryInv
<1>1. /\ task.at = "process" /\ task.left > 0
      /\ lines' = [lines EXCEPT ![cmd_out] = q]
      /\ heldLines' = heldLines + Len(new)
      /\ task' = [task EXCEPT !.left = @ - 1]
      /\ UNCHANGED connections /\ UNCHANGED <<cmd_out, allocated>>
  BY DEF ConsolePrint
<1>2. task \in Tasks /\ task.of \in Command /\ task.left \in Nat /\ task.left - 1 \in Nat
  BY <1>0, <1>1 DEF Types, Tasks
<1>3. task # Idle /\ task' \in Tasks /\ task'.at = "process"
  BY <1>1, <1>2 DEF Idle, Tasks
<1>4. task' # Idle
  BY <1>3 DEF Idle
<1>5. cmd_out \in allocated /\ lines[cmd_out] \in Seq(Slot)
  BY <1>0, <1>3 DEF Types, Slots, ConsoleInv
<1>6. new \in Seq(Line)
  <2>1. Text(task.of, task.left) \in Line
    BY <1>2 DEF Text, Line
  <2>2. <<Text(task.of, task.left)>> \in Seq(Line) /\ Len(lines[cmd_out]) \in Nat
    BY <1>5, <2>1
  <2> QED
    BY <2>2, AcceptedType
<1> HIDE DEF new
<1>7. q \in Seq(Slot) /\ Filled(q) = Filled(lines[cmd_out]) \o new
  BY <1>5, <1>6, FilledConcat
<1>8. Filled(lines[cmd_out]) \in Seq(Line)
  BY <1>5, FilledType
<1>9. Len(Filled(q)) = Len(Filled(lines[cmd_out])) + Len(new)
  BY <1>6, <1>7, <1>8, ConcatProperties
<1> HIDE DEF q
<1>10. heldLines' = heldLines + Len(Filled(q)) - Len(Filled(lines[cmd_out]))
  <2>1. Len(new) \in Nat /\ Len(Filled(lines[cmd_out])) \in Nat /\ heldLines \in Int
    BY <1>6, <1>8, AccountTypes
  <2> QED
    BY <1>1, <1>9, <2>1
<1> QED
  BY <1>1, <1>3, <1>4, <1>7, <1>10, ConsoleWriteMemory

LEMMA ConsoleShowMemory ==
  ASSUME CountingInv, BufferInv, MemoryInv, ConsoleShow
  PROVE  MemoryInv'
<1>0. Types /\ ConsoleInv
  BY DEF MemoryInv
<1>1. /\ task.at = "process"
      /\ lines' = [lines EXCEPT ![cmd_out] = <<>>]
      /\ heldLines' = heldLines - Len(Filled(lines[cmd_out]))
      /\ task' = [task EXCEPT !.at = "free"]
      /\ UNCHANGED connections /\ UNCHANGED <<cmd_out, allocated>>
  BY DEF ConsoleShow
<1>2. task \in Tasks
  BY <1>0 DEF Types
<1>3. task # Idle /\ task' \in Tasks /\ task'.at = "free"
  BY <1>1, <1>2 DEF Idle, Tasks
<1>4. task' # Idle
  BY <1>3 DEF Idle
<1>5. cmd_out \in allocated /\ lines[cmd_out] \in Seq(Slot)
  BY <1>0, <1>3 DEF Types, Slots, ConsoleInv
<1>6. <<>> \in Seq(Slot) /\ Len(Filled(<<>>)) = 0
  BY EmptySeq, FilledNone
<1>7. heldLines' = heldLines + Len(Filled(<<>>)) - Len(Filled(lines[cmd_out]))
  <2>1. Len(Filled(lines[cmd_out])) \in Nat /\ heldLines \in Int
    BY <1>5, FilledType, AccountTypes
  <2> QED
    BY <1>1, <1>6, <2>1
<1> QED
  BY <1>1, <1>3, <1>4, <1>6, <1>7, ConsoleWriteMemory

LEMMA ConsoleFreeMemory ==
  ASSUME CountingInv, BufferInv, MemoryInv, ConsoleFree
  PROVE  MemoryInv'
<1>0. Types /\ Accounts /\ ConsoleInv
  BY DEF MemoryInv
<1>1. /\ task.at = "free" /\ task' = Idle
      /\ allocated' = allocated \ {cmd_out}
      /\ UNCHANGED connections /\ UNCHANGED <<cmd_out, lines, heldLines>>
      /\ UNCHANGED <<states, tally, attempts>>
  BY DEF ConsoleFree, connections
<1>2. task # Idle
  BY <1>1 DEF Idle
<1>3. cmd_out \in allocated /\ lines[cmd_out] = <<>> /\ Live = {}
  BY <1>0, <1>1, <1>2 DEF ConsoleInv, BufferInv
<1>4. lines' = [lines EXCEPT ![cmd_out] = <<>>] /\ <<>> \in Seq(Slot)
  <2>1. <<>> \in Seq(Slot) /\ lines \in [Block -> Seq(Slot)]
    BY <1>0, EmptySeq DEF Types, Slots
  <2> QED
    BY <1>1, <1>3, <2>1
<1>5. /\ allocated' \subseteq Block /\ Slots(lines')
      /\ Cardinality(allocated') = Cardinality(allocated) - 1
      /\ TotalBy(lines, allocated) \in Int
      /\ TotalBy(lines', allocated') =
           TotalBy(lines, allocated) - Len(Filled(lines[cmd_out]))
  BY <1>0, <1>1, <1>3, <1>4, Freeing
<1>6. Len(Filled(lines[cmd_out])) = 0
  BY <1>3, FilledNone
<1>7. task' \in Tasks
  BY <1>1, TelnetAssumption DEF Tasks, Idle
<1>8. Types' /\ Outputs' /\ Served01' = 0 /\ Served01 = 0
  BY <1>1, <1>3, <1>5, <1>7, ConsoleKeeps
<1>9. ConsoleInv'
  BY <1>1 DEF ConsoleInv, Idle
<1>10. Accounts'
  <2>1. /\ tally.broken \in Nat /\ tally.failed \in Nat /\ tally.refused \in Nat
        /\ attempts \in 0 .. MaxConnects
    BY AccountTypes
  <2>2. Cardinality(allocated') = tally.broken + tally.failed
    BY <1>0, <1>2, <1>5, <1>8, <2>1 DEF Accounts
  <2>3. heldLines' = tally.lost + TotalBy(lines', allocated')
    BY <1>0, <1>1, <1>5, <1>6 DEF Accounts
  <2> QED
    BY <1>0, <1>1, <1>8, <2>1, <2>2, <2>3 DEF Accounts
<1> QED
  BY <1>8, <1>9, <1>10 DEF MemoryInv

\* Steps that touch neither the heap nor what was printed.
LEMMA QuietMemory ==
  ASSUME MemoryInv, Live' = Live, \A p \in Peers : conn'[p] = "none" <=> conn[p] = "none",
         UNCHANGED <<heap, task, attempts, put, shown, tally>>
  PROVE  MemoryInv'
<1>0. Types /\ Accounts /\ ConsoleInv /\ Outputs
  BY DEF MemoryInv
<1>1. Types' /\ ConsoleInv'
  BY <1>0 DEF heap, Types, ConsoleInv
<1>2. Served01' = Served01
  BY DEF Served01
<1>3. Accounts'
  BY <1>0, <1>2 DEF heap, Accounts
<1>4. Outputs'
  BY <1>0 DEF heap, Outputs
<1> QED
  BY <1>1, <1>3, <1>4 DEF MemoryInv

LEMMA RefuseMemory ==
  ASSUME CountingInv, MemoryInv, NEW p \in Peers, Refuse(p)
  PROVE  MemoryInv'
<1>0. Types /\ Accounts /\ ConsoleInv /\ Outputs
  BY DEF MemoryInv
<1>1. /\ attempts < MaxConnects /\ attempts' = attempts + 1 /\ states' = states + 1
      /\ tally' = [tally EXCEPT !.refused = @ + 1]
      /\ UNCHANGED <<conn, cmd_out, allocated, lines, put, shown, heldLines, task>>
  BY DEF Refuse, Arrives
<1>2. /\ tally' \in Tallies /\ tally'.refused = tally.refused + 1
      /\ tally'.failed = tally.failed /\ tally'.broken = tally.broken
      /\ tally'.lost = tally.lost
  BY <1>1, AccountTypes DEF Tallies
<1>3. attempts' \in 0 .. MaxConnects
  BY <1>1, AccountTypes
<1>4. Types' /\ ConsoleInv' /\ Outputs'
  BY <1>0, <1>1, <1>2, <1>3 DEF Types, ConsoleInv, Outputs
<1>5. Served01' = Served01
  BY <1>1 DEF Served01, Live
<1>6. Accounts'
  BY <1>0, <1>1, <1>2, <1>5, AccountTypes DEF Accounts
<1> QED
  BY <1>4, <1>6 DEF MemoryInv

THEOREM MemoryStep ==
  ASSUME Exclusive
  PROVE  CountingInv /\ BufferInv /\ MemoryInv /\ [Next]_vars => MemoryInv'
<1> SUFFICES ASSUME CountingInv, BufferInv, MemoryInv, [Next]_vars
             PROVE  MemoryInv'
  OBVIOUS
<1>1. CASE UNCHANGED vars
  <2>1. Live' = Live /\ \A p \in Peers : conn'[p] = "none" <=> conn[p] = "none"
    BY <1>1 DEF vars, Live
  <2> QED
    BY <1>1, <2>1, QuietMemory DEF vars, bounds, ghosts
<1>2. CASE Console
  BY <1>2, ConsoleLineMemory, ConsolePrintMemory, ConsoleShowMemory, ConsoleFreeMemory
  DEF Console
<1>3. ASSUME NEW p \in Peers, Server(p)
      PROVE  MemoryInv'
  <2>1. CASE Accept(p) \/ AcceptFails(p)
    BY <2>1, AcceptMemory
  <2>2. CASE Refuse(p)
    BY <2>2, RefuseMemory
  <2>3. CASE FirstSegment(p) \/ PeerCloses(p)
    <3>1. /\ \A o \in Peers : conn'[o] = "none" <=> conn[o] = "none"
          /\ UNCHANGED <<heap, task, attempts, put, shown, tally>>
      BY <2>3 DEF FirstSegment, PeerCloses, bounds, ghosts, CountingInv
    <3>2. Live' = Live
      BY <3>1 DEF Live
    <3> QED
      BY <3>1, <3>2, QuietMemory
  <2>4. CASE CommandLine(p)
    BY <2>4, CommandMemory
  <2>5. CASE QuitLine(p)
    BY <2>5, QuitMemory
  <2>6. CASE Breaks(p)
    BY <2>6, BreaksMemory
  <2>7. CASE Acknowledge(p)
    <3>1. conn[p] # "none"
          /\ UNCHANGED <<conn, cmd_out, allocated, states, task, attempts, put, tally>>
      BY <2>7 DEF Acknowledge, bounds
    <3>2. PICK r \in room[p] + 1 .. SndBuf, n \in 0 .. Len(lines[cmd_out]) :
            SendData(p, lines[cmd_out], r, n, 0)
      BY <2>7 DEF Acknowledge
    <3> QED
      BY <3>1, <3>2, ResendMemory
  <2>8. CASE PollCloses(p)
    BY <2>8, PollClosesMemory
  <2>9. CASE \E n \in 0 .. NumLines : PollSends(p, n)
    <3>1. PICK n \in 0 .. NumLines : PollSends(p, n)
      BY <2>9
    <3>2. /\ conn[p] # "none" /\ n <= Len(lines[cmd_out])
          /\ SendData(p, lines[cmd_out], room[p], n, 0)
          /\ UNCHANGED <<conn, cmd_out, allocated, states, task, attempts, put, tally>>
      BY <3>1 DEF PollSends, bounds
    <3>3. Types /\ cmd_out \in allocated
      BY <3>2, SessionOpen DEF MemoryInv
    <3>4. n \in 0 .. Len(lines[cmd_out])
      BY <3>2, <3>3 DEF Types, Slots
    <3> QED
      BY <3>2, <3>4, ResendMemory
  <2> QED
    BY <1>3, <2>1, <2>2, <2>3, <2>4, <2>5, <2>6, <2>7, <2>8, <2>9 DEF Server
<1> QED
  BY <1>1, <1>2, <1>3 DEF Next

LEMMA MemoryInit == Init => MemoryInv
<1> SUFFICES ASSUME Init PROVE MemoryInv
  OBVIOUS
<1>1. <<>> \in Seq(Slot) /\ <<>> \in Seq(Line)
  BY EmptySeq
<1>2. Slots(lines)
  BY <1>1 DEF Init, Slots
<1>3. task \in Tasks /\ tally \in Tallies
  BY TelnetAssumption DEF Init, Tasks, Tallies, Idle
<1>4. Types
  BY <1>1, <1>2, <1>3, TelnetAssumption DEF Init, Types
<1>5. Served01 = 0
  BY DEF Init, Served01, Live
<1>6. Cardinality(allocated) = 0
  BY FS_EmptySet DEF Init
<1>7. TotalBy(lines, allocated) = 0
  <2>1. \A b \in Block : HeldBy(lines, allocated)[b] = 0
    BY DEF Init, HeldBy
  <2> QED
    BY <2>1, TotalNone DEF TotalBy
<1>8. Accounts
  BY <1>5, <1>6, <1>7 DEF Init, Accounts
<1>9. ConsoleInv /\ Outputs
  BY DEF Init, ConsoleInv, Outputs, Idle
<1> QED
  BY <1>4, <1>8, <1>9 DEF MemoryInv

LEMMA MemoryInvariant ==
  ASSUME Exclusive
  PROVE  Spec => [](CountingInv /\ MemoryInv)
<1>1. Init => BufferInv
  BY DEF Init, BufferInv, ServerBufferAllocated, Live
<1>2. CountingInv /\ BufferInv /\ [Next]_vars => BufferInv'
  BY BufferStep
<1>3. CountingInv /\ BufferInv /\ MemoryInv /\ [Next]_vars => MemoryInv'
  BY MemoryStep
<1> QED
  BY <1>1, <1>2, <1>3, MemoryInit, CountingInvariant, PTL DEF Spec

\* What telnetd.c and the console allocate is freed, whatever ends a
\* connection, but for the four leaks that MemoryAccounted names.
THEOREM MemoryAccountedInvariant ==
  ASSUME Exclusive
  PROVE  Spec => []MemoryAccounted
<1>1. CountingInv /\ MemoryInv => MemoryAccounted
  <2> SUFFICES ASSUME CountingInv, MemoryInv PROVE MemoryAccounted
    OBVIOUS
  <2>1. Cardinality(Live) = Served01
    <3>1. CASE Live = {}
      BY <3>1, FS_EmptySet DEF Served01
    <3>2. CASE OneServed
      <4>1. PICK p \in Peers : Live = {p}
        BY <3>2 DEF OneServed
      <4> QED
        BY <4>1, FS_Singleton DEF Served01
    <3> QED
      BY <3>1, <3>2 DEF CountingInv, Counting, NobodyServed, ShutForGood
  <2>2. Total(Held) = TotalBy(lines, allocated)
    BY DEF Held, TotalBy, HeldBy
  <2> QED
    BY <2>1, <2>2 DEF MemoryInv, Accounts, MemoryAccounted
<1> QED
  BY <1>1, MemoryInvariant, PTL

\* A line that got a slot is handed to TCP once and in order, however
\* send_data, telnet_poll and telnet_sent divide the buffer.
THEOREM OutputInOrderInvariant ==
  ASSUME Exclusive
  PROVE  Spec => []OutputInOrder
<1>1. MemoryInv => OutputInOrder
  BY DEF MemoryInv, Outputs, OutputInOrder, Live
<1> QED
  BY <1>1, MemoryInvariant, PTL
==============================================================================
