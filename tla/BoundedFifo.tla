----------------------------- MODULE BoundedFifo -----------------------------
(***************************************************************************)
(* What lib/seriallink/ringbuf.h promises its callers: a first-in          *)
(* first-out byte queue of bounded capacity.  Every call takes effect at   *)
(* one instant and leaves its result behind: a put is refused exactly when *)
(* the queue is full, a get returns the oldest byte, or NoByte (the -1 of  *)
(* the code) exactly when the queue is empty.                              *)
(***************************************************************************)
EXTENDS Naturals, Sequences

CONSTANTS
  Byte,      \* the values a slot can hold
  NoByte,    \* the -1 that ringbuf_get returns on an empty buffer
  Capacity   \* the most bytes the queue holds at once

VARIABLES
  q,         \* the queued bytes, oldest first
  putRet,    \* the result of the last completed put
  getRet     \* the result of the last completed get

vars == <<q, putRet, getRet>>

Init == q = <<>> /\ putRet = 1 /\ getRet = NoByte

Put(c) ==
  /\ Len(q) < Capacity
  /\ q' = Append(q, c)
  /\ putRet' = 1
  /\ UNCHANGED getRet

PutRefused ==
  /\ Len(q) = Capacity
  /\ putRet' = 0
  /\ UNCHANGED <<q, getRet>>

Get ==
  /\ q # <<>>
  /\ q' = Tail(q)
  /\ getRet' = Head(q)
  /\ UNCHANGED putRet

GetEmpty ==
  /\ q = <<>>
  /\ getRet' = NoByte
  /\ UNCHANGED <<q, putRet>>

Next ==
  \/ \E c \in Byte : Put(c)
  \/ PutRefused
  \/ Get
  \/ GetEmpty

Spec == Init /\ [][Next]_vars
==============================================================================
