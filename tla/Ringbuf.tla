------------------------------- MODULE Ringbuf -------------------------------
(***************************************************************************)
(* lib/seriallink/ringbuf.c: the Contiki ring buffer behind both           *)
(* directions of the radio serial link.                                    *)
(*                                                                         *)
(* ringbuf.h says that ringbuf_put and ringbuf_get may each be called from *)
(* an interrupt handler.  The model therefore lets one producer and one    *)
(* consumer interleave between any two memory accesses of the code: the    *)
(* test of the other side's pointer, the access to the slot, the update of *)
(* the own pointer.  An access to a one-byte pointer is one step, which is *)
(* what the comments at ringbuf.c:58 and 81 rely on.                       *)
(***************************************************************************)
EXTENDS Integers, Sequences

CONSTANTS
  Byte,      \* the values a slot can hold
  NoByte,    \* the -1 that ringbuf_get returns on an empty buffer
  Size       \* the size given to ringbuf_init, a power of two up to 128

ASSUME SizeAssumption == Size \in {2, 4, 8, 16, 32, 64, 128}
ASSUME ByteAssumption == NoByte \notin Byte

VARIABLES
  data,      \* r->data: the slots (NoByte: never written)
  put_ptr,   \* r->put_ptr: the next slot to write, owned by the producer
  get_ptr,   \* r->get_ptr: the next slot to read, owned by the consumer
  ppc,       \* where the producer is inside ringbuf_put
  parg,      \* the argument of the running ringbuf_put
  gpc,       \* where the consumer is inside ringbuf_get
  greg,      \* the local c of the running ringbuf_get
  putRet,    \* the result of the last ringbuf_put
  getRet     \* the result of the last ringbuf_get

producer == <<ppc, parg, putRet, put_ptr>>
consumer == <<gpc, greg, getRet, get_ptr>>
vars == <<data, producer, consumer>>

Slot == 0 .. Size - 1

\* r->mask, and the effect of "& r->mask" on a difference or a sum: for a
\* power of two it is the remainder, also of a negative difference.
mask == Size - 1
Masked(x) == x % Size

Elements == Masked(put_ptr - get_ptr)

Init ==
  /\ data = [i \in Slot |-> NoByte]
  /\ put_ptr = 0
  /\ get_ptr = 0
  /\ ppc = "idle" /\ parg = NoByte /\ putRet = 1
  /\ gpc = "idle" /\ greg = NoByte /\ getRet = NoByte

------------------------------------------------------------------------------
(* ringbuf_put                                                             *)

\* ringbuf.c:64 - the test for a full buffer reads the consumer's pointer.
PutFull ==
  /\ ppc = "idle"
  /\ Elements = mask
  /\ putRet' = 0
  /\ UNCHANGED <<data, ppc, parg, put_ptr, consumer>>

\* Mistaken variant: no test for a full buffer.
PutCheckUnguarded(c) ==
  /\ ppc = "idle"
  /\ ppc' = "store"
  /\ parg' = c
  /\ UNCHANGED <<data, putRet, put_ptr, consumer>>

PutCheck(c) ==
  /\ ppc = "idle"
  /\ Elements # mask
  /\ ppc' = "store"
  /\ parg' = c
  /\ UNCHANGED <<data, putRet, put_ptr, consumer>>

PutStore ==
  /\ ppc = "store"
  /\ data' = [data EXCEPT ![put_ptr] = parg]
  /\ ppc' = "publish"
  /\ UNCHANGED <<parg, putRet, put_ptr, consumer>>

\* Mistaken variant: the pointer is advanced without the mask.
PutPublishUnmasked ==
  /\ ppc = "publish"
  /\ put_ptr' = put_ptr + 1
  /\ putRet' = 1
  /\ ppc' = "idle"
  /\ UNCHANGED <<data, parg, consumer>>

PutPublish ==
  /\ ppc = "publish"
  /\ put_ptr' = Masked(put_ptr + 1)
  /\ putRet' = 1
  /\ ppc' = "idle"
  /\ UNCHANGED <<data, parg, consumer>>

------------------------------------------------------------------------------
(* ringbuf_get                                                             *)

\* ringbuf.c:87 - the test for an empty buffer reads the producer's pointer.
GetEmpty ==
  /\ gpc = "idle"
  /\ Elements = 0
  /\ getRet' = NoByte
  /\ UNCHANGED <<data, gpc, greg, get_ptr, producer>>

GetCheck ==
  /\ gpc = "idle"
  /\ Elements > 0
  /\ gpc' = "load"
  /\ UNCHANGED <<data, greg, getRet, get_ptr, producer>>

\* Mistaken variant: the slot behind the pointer is read.
GetLoadBehind ==
  /\ gpc = "load"
  /\ greg' = data[Masked(get_ptr + 1)]
  /\ gpc' = "advance"
  /\ UNCHANGED <<data, getRet, get_ptr, producer>>

GetLoad ==
  /\ gpc = "load"
  /\ greg' = data[get_ptr]
  /\ gpc' = "advance"
  /\ UNCHANGED <<data, getRet, get_ptr, producer>>

GetAdvance ==
  /\ gpc = "advance"
  /\ get_ptr' = Masked(get_ptr + 1)
  /\ getRet' = greg
  /\ gpc' = "idle"
  /\ UNCHANGED <<data, greg, producer>>

Producer == PutFull \/ (\E c \in Byte : PutCheck(c)) \/ PutStore \/ PutPublish
Consumer == GetEmpty \/ GetCheck \/ GetLoad \/ GetAdvance

Next == Producer \/ Consumer

Spec == Init /\ [][Next]_vars

------------------------------------------------------------------------------
(* Properties                                                              *)

\* Every pointer stays inside the data array and every program counter has
\* a value.
TypeOK ==
  /\ data \in [Slot -> Byte \cup {NoByte}]
  /\ put_ptr \in Slot
  /\ get_ptr \in Slot
  /\ ppc \in {"idle", "store", "publish"}
  /\ parg \in Byte \cup {NoByte}
  /\ putRet \in {0, 1}
  /\ gpc \in {"idle", "load", "advance"}
  /\ greg \in Byte \cup {NoByte}
  /\ getRet \in Byte \cup {NoByte}

\* The producer never works on the slot the consumer is reading, however
\* the two calls interleave: the spare slot of ringbuf.c:64 keeps them apart.
NoSlotRace ==
  ~ (/\ ppc \in {"store", "publish"}
     /\ gpc \in {"load", "advance"}
     /\ put_ptr = get_ptr)

\* The bytes between the two pointers, oldest first: the queue the buffer
\* stands for.
Contents == [i \in 1 .. Elements |-> data[Masked(get_ptr + i - 1)]]

\* The buffer behaves as a FIFO of Size - 1 bytes: no byte is lost,
\* duplicated, reordered or read before it was stored, a put is refused only
\* when the buffer is full and a get fails only when it is empty.
Fifo == INSTANCE BoundedFifo WITH q <- Contents, Capacity <- mask
FifoSpec == Fifo!Spec
==============================================================================
