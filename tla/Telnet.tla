------------------------------- MODULE Telnet --------------------------------
(* The telnet server of nux and the console on its UART (nux/telnetd.c,    *)
(* nux/console.c).  Both run the same commands, which print into one       *)
(* global buffer, cmd_out: up to NumLines lines, each allocated on its     *)
(* own.  The server hands the lines of the buffer to TCP as the send       *)
(* buffer of the connection has room, and tries again when the peer        *)
(* acknowledges and when lwIP polls; the console writes them to the UART   *)
(* and frees the buffer.  Only one telnet connection is served; `accept'   *)
(* counts it.                                                              *)
(*                                                                         *)
(* The callbacks of the server run in lwIP's thread, the console is a task *)
(* of its own with the same priority: its steps fall between callbacks.    *)
EXTENDS Integers, Sequences, FiniteSets, SequencesExt

CONSTANTS
  Peers,        \* who connects to port 23
  Output,       \* Output[c]: number of lines that command c prints
  Quit,         \* the command that ends the session
  NumLines,     \* TELNETD_CONF_NUMLINES
  SndBuf,       \* size of TCP's send buffer
  Exclusive,    \* the console is used only while nobody is connected
  MaxConnects,  \* bound: connection attempts
  MaxCommands   \* bound: command lines

Command == DOMAIN Output

ASSUME TelnetAssumption ==
  /\ Quit \in Command
  /\ \A c \in Command : Output[c] \in Nat
  /\ NumLines \in Nat \ {0}
  /\ SndBuf \in Nat
  /\ Exclusive \in BOOLEAN
  /\ MaxConnects \in Nat
  /\ MaxCommands \in Nat

\* One console_state for each connection, and one for the console.
Block == 1 .. (MaxConnects + 1)

\* A printed line: the n-th of its command; a line of text is twice as
\* long as the prompt.
Prompt == 0
Text(c, n) == <<c, n>>
Length(x) == IF x[2] = Prompt THEN 1 ELSE 2
Null == <<>>

VARIABLES
  conn,         \* conn[p]: es->state while the connection is telnet's, or "none"
  fin,          \* fin[p]: the peer has closed its side (CLOSE_WAIT)
  room,         \* room[p]: tcp_sndbuf of the connection
  accept,       \* the counter of telnetd.c
  cmd_out,      \* the global buffer: the block it points to, 0 before the first
  allocated,    \* the console_states that are allocated
  lines,        \* lines[b]: slots 0 .. line of block b, Null where sent and freed
  states,       \* number of telnet_states that are allocated
  heldLines,    \* number of line buffers that are allocated
  task,         \* where the console is: what it runs and the lines left, or idle
  attempts,     \* connection attempts so far
  commands,     \* command lines so far
  put,          \* put[p]: lines that were given a slot for the connection
  shown,        \* shown[p]: lines that were given to TCP
  tally         \* how connections ended: refused, failed, broken; lines lost by closing

heap == <<cmd_out, allocated, lines, states, heldLines>>
bounds == <<attempts, commands>>
ghosts == <<put, shown, tally>>
vars == <<conn, fin, room, accept, heap, task, bounds, ghosts>>

Idle == [at |-> "idle", of |-> Quit, left |-> 0]

Init ==
  /\ conn = [p \in Peers |-> "none"]
  /\ fin = [p \in Peers |-> FALSE]
  /\ room = [p \in Peers |-> SndBuf]
  /\ accept = 0
  /\ cmd_out = 0
  /\ allocated = {}
  /\ lines = [b \in Block |-> <<>>]
  /\ states = 0
  /\ heldLines = 0
  /\ task = Idle
  /\ attempts = 0
  /\ commands = 0
  /\ put = [p \in Peers |-> <<>>]
  /\ shown = [p \in Peers |-> <<>>]
  /\ tally = [refused |-> 0, failed |-> 0, broken |-> 0, lost |-> 0]

Live == {p \in Peers : conn[p] # "none"}

\* The lines that are still in the slots q, in order.
Filled(q) ==
  LET first[k \in 0 .. Len(q)] ==
        IF k = 0 THEN <<>>
        ELSE IF q[k] = Null THEN first[k - 1] ELSE Append(first[k - 1], q[k])
  IN  first[Len(q)]

\* pvPortMalloc of a console_state: the first free block, also one that was
\* used before, whose line is set to -1.
FreshBlock == CHOOSE b \in Block \ allocated : \A c \in Block \ allocated : b <= c
AllocateOut ==
  /\ cmd_out' = FreshBlock
  /\ allocated' = allocated \cup {FreshBlock}
  /\ lines' = [lines EXCEPT ![FreshBlock] = <<>>]

------------------------------------------------------------------------------
(* Output                                                                  *)

\* cmd_print of several lines: a line that finds all slots used is dropped.
Accepted(q, new) == SubSeq(new, 1, Min({Len(new), NumLines - Len(q)}))

\* What a command line puts into the buffer in a telnet session: the lines
\* of the command, or one that says it is unknown, and the prompt.
Answer(c) == [n \in 1 .. Output[c] |-> Text(c, n)] \o <<Text(c, Prompt)>>

\* The room that the lines in q take.
Size(q) == FoldLeft(LAMBDA sum, x : IF x = Null THEN sum ELSE sum + Length(x), 0, q)

\* send_data: slots of q that are given to TCP, in order, as long as each
\* line is shorter than the room left; tcp_write has no memory for a slot
\* after the first n.
SendCount(q, r, n) ==
  LET fits(k) == \A j \in 1 .. k :
        q[j] # Null => Length(q[j]) < r - Size(SubSeq(q, 1, j - 1))
  IN  Max({k \in 0 .. n : fits(k)})

\* Mistaken variant of Remaining: the buffer is given up once anything is sent.
RemainingOnce(q, k) == IF k > 0 THEN <<>> ELSE q

\* The slots left: all are given up once the last is sent.
Remaining(q, k) ==
  IF k = Len(q) THEN <<>> ELSE [i \in 1 .. Len(q) |-> IF i <= k THEN Null ELSE q[i]]

\* send_data with q in the buffer and r in the send buffer of p; `printed'
\* of the lines in q are new.
SendData(p, q, r, n, printed) ==
  LET k == SendCount(q, r, n)
      sent == Filled(SubSeq(q, 1, k))
  IN  /\ lines' = [lines EXCEPT ![cmd_out] = Remaining(q, k)]
      /\ room' = [room EXCEPT ![p] = r - Size(sent)]
      /\ shown' = [shown EXCEPT ![p] = @ \o sent]
      /\ heldLines' = heldLines + printed - Len(sent)

------------------------------------------------------------------------------
(* Connections                                                             *)

\* Mistaken variant of Gone: `accept' counts up only.
GoneUncounted(p) ==
  /\ conn' = [conn EXCEPT ![p] = "none"]
  /\ fin' = [fin EXCEPT ![p] = FALSE]
  /\ put' = [put EXCEPT ![p] = <<>>]
  /\ shown' = [shown EXCEPT ![p] = <<>>]
  /\ room' = [room EXCEPT ![p] = SndBuf]
  /\ states' = states - 1
  /\ UNCHANGED accept

\* What is left of a connection that was telnet's: nothing.
Gone(p) ==
  /\ conn' = [conn EXCEPT ![p] = "none"]
  /\ fin' = [fin EXCEPT ![p] = FALSE]
  /\ put' = [put EXCEPT ![p] = <<>>]
  /\ shown' = [shown EXCEPT ![p] = <<>>]
  /\ room' = [room EXCEPT ![p] = SndBuf]
  /\ accept' = accept - 1
  /\ states' = states - 1

\* telnet_accept allocates a telnet_state before it looks at `accept'.
Arrives(p) ==
  /\ conn[p] = "none"
  /\ attempts < MaxConnects
  /\ Exclusive => task = Idle
  /\ attempts' = attempts + 1
  /\ UNCHANGED <<heldLines, task, commands>>

\* Mistaken variant of Accept: connections are not counted before one is accepted.
AcceptAlways(p) ==
  /\ Arrives(p)
  /\ states' = states + 1
  /\ AllocateOut
  /\ conn' = [conn EXCEPT ![p] = "accepted"]
  /\ room' = [room EXCEPT ![p] = @ - 1]
  /\ accept' = accept + 1
  /\ UNCHANGED <<fin, put, shown, tally>>

\* The welcome text is in the send buffer.
Accept(p) ==
  /\ Arrives(p)
  /\ accept = 0
  /\ states' = states + 1
  /\ AllocateOut
  /\ conn' = [conn EXCEPT ![p] = "accepted"]
  /\ room' = [room EXCEPT ![p] = @ - 1]
  /\ accept' = accept + 1
  /\ UNCHANGED <<fin, put, shown, tally>>

\* tcp_write has no memory for the welcome text: lwIP aborts a connection
\* whose accept callback fails, and telnet_error, already registered, frees
\* the telnet_state and counts a connection that was never counted.
AcceptFails(p) ==
  /\ Arrives(p)
  /\ accept = 0
  /\ AllocateOut
  /\ accept' = accept - 1
  /\ tally' = [tally EXCEPT !.failed = @ + 1]
  /\ UNCHANGED <<conn, fin, room, states, put, shown>>

\* A connection is served already, or `accept' is wrong: no callback knows
\* the telnet_state of a connection that is refused.
Refuse(p) ==
  /\ Arrives(p)
  /\ accept # 0
  /\ states' = states + 1
  /\ tally' = [tally EXCEPT !.refused = @ + 1]
  /\ UNCHANGED <<conn, fin, room, accept, cmd_out, allocated, lines, put, shown>>

\* telnet_recv in ES_ACCEPTED: the first segment is searched for telnet
\* options, and the prompt is written past the buffer.
FirstSegment(p) ==
  /\ conn[p] = "accepted"
  /\ ~fin[p]
  /\ conn' = [conn EXCEPT ![p] = "received"]
  /\ room' = [room EXCEPT ![p] = @ - 1]
  /\ UNCHANGED <<fin, accept, heap, task, bounds, ghosts>>

\* telnet_recv in ES_RECEIVED: a segment is a command line, and what fits
\* of its answer is sent at once.
Processed(p) ==
  /\ conn[p] = "received"
  /\ ~fin[p]
  /\ commands < MaxCommands
  /\ commands' = commands + 1
  /\ UNCHANGED <<cmd_out, task, attempts>>

CommandLine(p) ==
  /\ Processed(p)
  /\ \E c \in Command \ {Quit}, n \in 0 .. NumLines :
       LET new == Accepted(lines[cmd_out], Answer(c))
           q == lines[cmd_out] \o new
       IN  /\ n <= Len(q)
           /\ SendData(p, q, room[p], n, Len(new))
           /\ put' = [put EXCEPT ![p] = @ \o new]
  /\ UNCHANGED <<conn, fin, accept, states, allocated, tally>>

\* Mistaken variant of Close: the buffer is not freed.
CloseKeeps(p, q) ==
  /\ Gone(p)
  /\ lines' = [lines EXCEPT ![cmd_out] = q]
  /\ tally' = [tally EXCEPT !.lost = @ + Len(Filled(q))]
  /\ UNCHANGED allocated

\* telnet_close frees the telnet_state and the buffer q, not the lines that
\* are left in it.
Close(p, q) ==
  /\ Gone(p)
  /\ allocated' = allocated \ {cmd_out}
  /\ lines' = [lines EXCEPT ![cmd_out] = q]
  /\ tally' = [tally EXCEPT !.lost = @ + Len(Filled(q))]

QuitLine(p) ==
  /\ Processed(p)
  /\ \E n \in 0 .. NumLines :
       LET new == Accepted(lines[cmd_out], Answer(Quit))
           q == lines[cmd_out] \o new
           left == Remaining(q, SendCount(q, room[p], n))
       IN  /\ n <= Len(q)
           /\ Close(p, left)
           /\ heldLines' = heldLines + Len(new) - (Len(Filled(q)) - Len(Filled(left)))

\* The peer closes its side; telnet_recv without data does nothing.
PeerCloses(p) ==
  /\ conn[p] # "none"
  /\ ~fin[p]
  /\ fin' = [fin EXCEPT ![p] = TRUE]
  /\ UNCHANGED <<conn, room, accept, heap, task, bounds, ghosts>>

\* Mistaken variant of PollSends: the poll sends nothing.
PollSendsNothing(p, n) ==
  /\ conn[p] # "none"
  /\ ~fin[p]
  /\ n <= Len(lines[cmd_out])
  /\ UNCHANGED vars

\* telnet_poll: sends what it can, and closes what the peer has closed.
PollSends(p, n) ==
  /\ conn[p] # "none"
  /\ ~fin[p]
  /\ n <= Len(lines[cmd_out])
  /\ SendData(p, lines[cmd_out], room[p], n, 0)
  /\ UNCHANGED <<conn, fin, accept, cmd_out, allocated, states, task, bounds, put, tally>>

PollCloses(p) ==
  /\ conn[p] # "none"
  /\ fin[p]
  /\ Close(p, lines[cmd_out])
  /\ UNCHANGED <<cmd_out, heldLines, task, bounds>>

\* The peer acknowledges: telnet_sent sends more.
Acknowledge(p) ==
  /\ conn[p] # "none"
  /\ \E r \in room[p] + 1 .. SndBuf, n \in 0 .. Len(lines[cmd_out]) :
       SendData(p, lines[cmd_out], r, n, 0)
  /\ UNCHANGED <<conn, fin, accept, cmd_out, allocated, states, task, bounds, put, tally>>

\* telnet_error: the peer resets the connection, or lwIP gives it up.
Breaks(p) ==
  /\ conn[p] # "none"
  /\ Gone(p)
  /\ tally' = [tally EXCEPT !.broken = @ + 1]
  /\ UNCHANGED <<cmd_out, allocated, lines, heldLines, task, bounds>>

Server(p) ==
  \/ Accept(p) \/ AcceptFails(p) \/ Refuse(p)
  \/ FirstSegment(p) \/ CommandLine(p) \/ QuitLine(p)
  \/ PeerCloses(p) \/ Breaks(p) \/ Acknowledge(p) \/ PollCloses(p)
  \/ \E n \in 0 .. NumLines : PollSends(p, n)

------------------------------------------------------------------------------
(* The console                                                             *)

connections == <<conn, fin, room, accept, states, attempts, put, shown, tally>>

\* UARTgets returns a line: the console takes a buffer of its own.
ConsoleLine(c) ==
  /\ task = Idle
  /\ commands < MaxCommands
  /\ Exclusive => Live = {}
  /\ commands' = commands + 1
  /\ AllocateOut
  /\ task' = [at |-> "process", of |-> c, left |-> Output[c]]
  /\ UNCHANGED <<connections, heldLines>>

\* One cmd_print of the command.
ConsolePrint ==
  LET new == Accepted(lines[cmd_out], <<Text(task.of, task.left)>>)
  IN  /\ task.at = "process"
      /\ task.left > 0
      /\ lines' = [lines EXCEPT ![cmd_out] = @ \o new]
      /\ heldLines' = heldLines + Len(new)
      /\ task' = [task EXCEPT !.left = @ - 1]
      /\ UNCHANGED <<connections, cmd_out, allocated, commands>>

\* print_uart writes the lines of the buffer and frees them.
ConsoleShow ==
  /\ task.at = "process"
  /\ task.left = 0
  /\ lines' = [lines EXCEPT ![cmd_out] = <<>>]
  /\ heldLines' = heldLines - Len(Filled(lines[cmd_out]))
  /\ task' = [task EXCEPT !.at = "free"]
  /\ UNCHANGED <<connections, cmd_out, allocated, commands>>

\* The pointer stays what it was.
ConsoleFree ==
  /\ task.at = "free"
  /\ allocated' = allocated \ {cmd_out}
  /\ task' = Idle
  /\ UNCHANGED <<connections, cmd_out, lines, heldLines, commands>>

Console == ConsolePrint \/ ConsoleShow \/ ConsoleFree \/ \E c \in Command : ConsoleLine(c)

Next == Console \/ \E p \in Peers : Server(p)

Spec == Init /\ [][Next]_vars

\* lwIP polls a connection as long as there is one and finds memory for what
\* it sends in the end; the peer acknowledges unless the connection breaks.
PollSendsAll(p) == PollSends(p, Len(lines[cmd_out]))
Fairness ==
  \A p \in Peers :
    /\ WF_vars(PollSendsAll(p))
    /\ WF_vars(PollCloses(p))
    /\ WF_vars(Acknowledge(p))

FairSpec == Spec /\ Fairness

------------------------------------------------------------------------------
(* Properties                                                              *)

Line == Command \X Nat

TypeOK ==
  /\ conn \in [Peers -> {"none", "accepted", "received"}]
  /\ fin \in [Peers -> BOOLEAN]
  /\ room \in [Peers -> 0 .. SndBuf]
  /\ accept \in Int
  /\ cmd_out \in Block \cup {0}
  /\ allocated \subseteq Block
  /\ \A b \in Block : lines[b] \in Seq(Line \cup {Null}) /\ Len(lines[b]) <= NumLines
  /\ states \in Nat
  /\ heldLines \in Nat
  /\ task.at \in {"idle", "process", "free"}

\* The sum of h over all blocks.
Total(h) ==
  LET sum[b \in 0 .. MaxConnects + 1] == IF b = 0 THEN 0 ELSE sum[b - 1] + h[b]
  IN  sum[MaxConnects + 1]

\* The lines that are held by an allocated buffer.
Held == [b \in Block |-> IF b \in allocated THEN Len(Filled(lines[b])) ELSE 0]

\* Counters do not tell how many connections there are unless every way a
\* connection ends is counted once.  `accept' is the number of connections
\* served, never more than one, except that each welcome text without
\* memory leaves it one too low for good.
AcceptCounts ==
  /\ Cardinality(Live) <= 1
  /\ accept = Cardinality(Live) - tally.failed

\* Whatever ends a connection, what was allocated for it is freed, but for
\* four leaks: the telnet_state of a refused connection, the buffer of one
\* that breaks or whose welcome text fails, and the lines that are not sent
\* when the server closes.
MemoryAccounted ==
  /\ states = Cardinality(Live) + tally.refused
  /\ Cardinality(allocated) =
       Cardinality(Live) + tally.broken + tally.failed + (IF task = Idle THEN 0 ELSE 1)
  /\ heldLines = tally.lost + Total(Held)

\* The buffer the server sends from, and frees when the session ends, is
\* allocated as long as a session is open.
ServerBufferAllocated ==
  Live # {} => cmd_out \in allocated

\* What was given a slot is shown once and in order, however the send
\* buffer, memory, polls and acknowledgements cut it up.
OutputInOrder ==
  \A p \in Live : shown[p] \o Filled(lines[cmd_out]) = put[p]

\* An answer does not stay behind in the buffer, and a connection that the
\* peer has closed does not keep its place.
OutputLeaves ==
  \A p \in Peers :
    (conn[p] # "none" /\ (fin[p] \/ Filled(lines[cmd_out]) # <<>>))
      ~> (conn[p] = "none" \/ (~fin[p] /\ lines[cmd_out] = <<>>))
==============================================================================
