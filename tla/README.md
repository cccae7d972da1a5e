# busware: a verification development

The repository holds the firmware of a family of small bus and radio adapters:
AVR sticks (CUL, TUL, EUL, IRH, RUX), an energy meter for the Raspberry Pi
(SD0), the radio bootloader of the CPC boards (Dudette), and the Ethernet board
nux (Cortex-M3, FreeRTOS, lwIP). What they have in common is the shape of the
program: a main loop, perhaps an interrupt handler or a second task, a ring of
bytes between them, and at the far end a peer that loses, repeats, or restarts.

This directory models the parts of that code whose correctness depends on the
order of things, checks the models with TLC on small instances, and proves the
central ones for every size with TLAPS.

    tlc -workers 2 -config MCSerialLink.cfg MCSerialLink.tla
    tlapm SerialLinkProofs.tla

`PROJECT.json` lists the components, the runs, the lines each definition
models, the hazards, and for each property a plausible bug that breaks it.
The mistaken variants it names stand in the modules, each just before the
definition it is a variant of and marked "Mistaken variant"; nothing uses them
in the specifications.

## 1. The system

### Components

**Radio serial link** (`src/lib/seriallink`). `ringbuf.c` is the Contiki ring
buffer: an array, a put and a get pointer. `seriallink.c` is a stop-and-wait
protocol over the CC1101 transceiver: a transmit and a receive ring, the next
sequence number, the last one taken over, the packet in the air with its
timeout, an AES key. Operations: `slink_init`, `slink_put` (byte in, perhaps
flush), `slink_flush` (count the timeout, repeat, or send a new packet),
`slink_receive` (acknowledgement, copy, next packet, out of sequence),
`slink_elements`, `slink_get`. Its users are the USB bridge `CUL/SerialLink`,
`CUL/Airdude` and the bootloader `Dudette`. Hard: acknowledgements lost or out
of date, packets that cross, a receive FIFO read one packet at a time with the
rest thrown away, eight-bit sequence numbers, buffers that fill, an end that
restarts alone. Correct when: each direction is a byte stream - in order, once,
and lossless until the receive buffer is full - that makes progress.

**FT1.2 gateway** (`src/TUL/FT12`). Between a host on USB that speaks FT1.2
(requests, E5 acknowledgements, resets) and a TPUART, which puts telegrams on
an EIB bus and reports each one with its echo and a confirmation. State: the
message and telegram being assembled, "a confirmation is due", "a telegram is
coming in", the confirmation data, the second half of a two-part answer,
rings in both directions. Hard: the host repeats or resets at any time, other
devices' telegrams come in between, the polled UART loses bytes. Correct when:
one telegram is outstanding at a time, a confirmation to the host means the
telegram was on the bus, an echo is never passed off as a telegram from the
bus, and every request gets its E5.

**SD0 energy meter** (`src/SD0/Firmware_common`). `s0.c` counts impulses in the
pin-change interrupt and keeps statistics per channel; `clock.c` is the
millisecond clock; `rtc.c` saves the counts in the RAM of the clock chip;
`uart.c` has two interrupt-driven rings, `serial.c` assembles lines and answers
them. Hard: the interrupt between any two accesses of the main program;
multi-byte values without a critical region; a reset in the middle of a save.
Correct when: every impulse is in exactly one reading, a reading is of one
moment, what is restored after a reset is a count the meter had; and the port
neither loses, reorders nor strands bytes.

**SD0 volkszaehler firmware** (`src/SD0/Firmware_VZ`). The same without saving,
but it prints a line for every impulse inside the interrupt handler. Correct
when the print of the handler and that of the main program do not disturb each
other. They do (section 6).

**Airdude and Dudette** (`src/CUL/Airdude`, `src/Dudette`). Dudette, booting,
sends one packet B with its address and waits for one packet b with a channel
and perhaps a signed key; Airdude answers, changes channel, and becomes a
serial link to the programmer on USB (mode 1), until it is told R. Dudette then
serves the AVR109 protocol over the link: set address, load a page, write it,
read it back, erase. `UART_STACKED` boards instead forward bytes between two
UARTs. Hard: the b is sent once and not acknowledged; any packet ends the wait
and any b is taken; a session ended on one side only; a programming broken off.
Correct when: what the programmer was told is written is written, and a program
that runs is of one session, and whole unless its session was broken off.

**SD0 bootloader** (`src/SD0/Bootloader`). The same AVR109 commands over a UART.

**USB bridges** (`src/EUL/TCM310`, `src/TUL/Transparent`, `src/RUX`, `src/IRH`).
A receive interrupt fills a ring, the main loop empties it to a USB endpoint
that may not be ready, and the other way round. EUL also has a repeater mode
that is never left. Hard: insertion without a test for room, a flush threshold,
the host that goes away.

**nux telnet server and console** (`src/nux/telnetd.c`, `console.c`). One global
output list `cmd_out` of up to sixteen allocated lines, used by the lwIP thread
for the one telnet connection and by the console task for the serial console;
`accept` counts connections. Hard: the two threads, refused and failing
connections, `tcp_sent`, `tcp_poll` and `tcp_err` callbacks, out of memory.
Correct when: a line printed is sent once, to the one who asked; a closed or
refused connection leaves the server able to accept; nothing is used after it
is freed.

**nux Ethernet driver** (`src/nux/ETHIsr.c`, `LWIPStack.c`). The interrupt
handler gives one semaphore for frames received and one for frames sent, and
keeps the flag of the link in the word `ETHDevice`; it does not read the state of the
link but infers it from the events that the PHY has latched since the last interrupt. The task ETH_INPUT empties
the receive FIFO and then enables the receive interrupt, which the handler
disables, and sleeps for at most five seconds; `low_level_output`, in whichever
task sends, holds a mutex and, when the transmitter is busy, enables its
interrupt and waits. Tasks change the interrupt mask and `ETHDevice` with a load
and a store. Hard: a frame between the test of the FIFO and the sleep; three
parties on one mask; status bits that stay set while they are masked; events that
come together or one by one. Correct
when: no frame stays, no sender waits for ever, the flag of the link is true
as far as the events tell, and nothing is written into a FIFO that is being sent.

**nux raw UART, settings, watchdog, web, modules** (`src/nux`). A TCP
client per UART with a FreeRTOS queue behind it (`rawuart.c`); settings as pairs
of half-words in emulated EEPROM; the watchdog that `cmd_restart` starves; pages
and register access to plug-in modules.

**The rest.** `src/CPC` and `src/Demo` (blinking lights), drivers for radio, ADC
and LEDs, USB descriptors, and vendored code: FreeRTOS, lwIP, FatFs, the
Luminary driver library, the EEPROM emulation, `utils/lists.c`. `src/lib` links against LUFA,
which is not in the repository.

### How they interact

    USB host  <->  CUL/SerialLink or Airdude  <-- air -->  CUL/SerialLink or Dudette
                        |  seriallink.c  |                    |  seriallink.c  |
                        |   ringbuf.c    |                    |   ringbuf.c    |

    USB host  <->  FT12.c  <-- polled UART -->  TPUART  <-->  EIB bus

    S0 lines -> pin-change interrupt -> CH[] <- critical region - main loop
                                                 |         |
    host <-> UART interrupts <-> rings <-> serial.c      rtc.c -> RAM of the clock

    network <-> Ethernet controller <-> ETH0IntHandler -> semaphores
                                                |           |     |
                             interrupt mask, ETHDevice  ETH_INPUT  low_level_output

    telnet client <-> lwIP thread \
                                    cmd_out, command table, settings
    serial console <-> CONS task  /

Within an AVR program interaction is by shared memory between the main program
and interrupt handlers, between programs by lossy messages. The list
`hazards` in `PROJECT.json` gives each place where this bites, by line.

## 2. Modules

| module | models | how |
|---|---|---|
| `BoundedFifo` | what a ring buffer promises | abstract specification: a queue, calls and their results |
| `Ringbuf` | `ringbuf.c` | one step per access to shared memory, one producer and one consumer |
| `RingbufProofs` | | type, no slot race, refinement of `BoundedFifo` |
| `ByteStream` | what one direction of the link promises | abstract specification: a prefix that grows, loss only at the tail of a batch |
| `SerialLink` | `seriallink.c` twice, the CC1101s, the bridge loop of `SerialLink.c` | one step per branch of `slink_put`, `slink_receive`, `slink_flush`, `slink_get` |
| `SerialLinkRestart` | `slink_init` of one end in the middle of things | `SerialLink` plus one action |
| `SerialLinkProofs` | | of `SerialLink`: type, no false acknowledgement, in sequence, exactly once, loss accounting, refinement of `ByteStream` both ways; of `SerialLinkRestart`: type, which acknowledgements may be false, deaf for good, a sender that restarts only loses, a byte once in each life of a receiver |
| `FT12` | `FT12.c`, a host, a TPUART, a bus | one step per pass of each of the three parts of the main loop |
| `FT12Proofs` | | type, one telegram at a time, only what was sent is confirmed, no echo, parts in order |
| `Uart` | `uart.c`, the line assembly of `serial.c` | handlers are one step, the main program one step per access to the rings |
| `UartProofs` | | type, both rings are FIFOs wherever the interrupts fall, no byte is stranded, lines are answered one by one |
| `UartVZ` | `impuls_action` of `Firmware_VZ` | `Uart` plus the print in the handler, the wait, the watchdog |
| `S0Meter` | `s0.c`, `rtc.c`, the reading commands of `serial.c` | handlers are one step, loads and stores of the main program are steps |
| `S0MeterProofs` | | type, every impulse in one reading, a reading is one moment, a restored count is recent, the period |
| `Telnet` | `telnetd.c`, the console task and the printing of `console.c` | one step per callback of lwIP; one per line or call of the console |
| `TelnetProofs` | | `accept` counts; the server's buffer is allocated; what is allocated is accounted for; output once and in order |
| `Ethernet` | `ETHIsr.c`, ETH_INPUT and `low_level_output` of `LWIPStack.c`, the controller | the handler is one step, tasks one step per access to what is shared |
| `EthernetProofs` | | type, the input task is woken, senders are told, the flag of the link as decoded from the events |
| `Airdude` | the stick `Airdude.c`, the boards `Dudette/main.c`, the programmer | one step per packet with its acknowledgement |
| `AirdudeProofs` | | type, confirmed pages are written, programs that run are of one session |

The `MC` modules give the constants that a `.cfg` file cannot express.

### Ringbuf

`data`, `put_ptr`, `get_ptr` are the fields of `struct ringbuf`; `ppc` and `gpc`
say where producer and consumer are inside `ringbuf_put` and `ringbuf_get`, `parg`
and `greg` are their locals, `putRet` and `getRet` the results. `ringbuf.h` allows
either call to be made by an interrupt handler, so they interleave at every
access. The model takes the order of accesses from the source. The fields are
not `volatile`: a compiler that reorders the store to the slot and the store to
the pointer breaks the argument, and that is an assumption here.

### SerialLink

Indexed by the node. `txbuf`, `rxbuf` are the contents of the two rings (this is
what `Ringbuf` justifies), `txseq`, `rxseq`, `txpkt` the statics of
`seriallink.c`, `radio` the MARCSTATE of the chip between calls, `fifo` the
packets in its receive FIFO, `host` the bytes the USB host will still send, `pc`
the place in the loop. `accepted`, `taken`, `out`, `dropped` are history and no
action looks at them.

A call that sends a packet ends in one of four ways: lost, received intact,
received damaged, or overflowing the peer's FIFO. The peer must be in RX to
receive. Sizes in the FIFO are computed as the chip counts them, encrypted or
not. Facts taken from the registers set in `seriallink.c`: the chip returns to RX
after sending; a packet with a bad CRC is flushed by the chip
(`CRC_AUTOFLUSH`), so the damaged half of `Reject`, which the code has a branch for, makes
the model a little richer than the chip; STX does not leave
RXFIFO_OVERFLOW, so the wait for RX at `seriallink.c:285` does not end then and
the node is `hung`. One call of `slink_receive` is one step: it lasts
shorter than a packet is in the air.

Not modelled: packets of length 0 or above 63 (noise that passed the CRC), the
debug output, SPI transfers, AES (only the padding, which decides what fits into
the FIFO).

### SerialLinkRestart

`Restart(n)` does what power-up and `slink_init` do to one end, at any step. The
bytes of the input are distinct, so "twice" and "out of order" can be read off.

### FT12

The main loop has three parts - a byte from the TPUART and whatever the host
sent (`pc = "read"`), one message of the host (`"handle"`), answers out
(`"out"`). Variables have the names of the source. A message of the host is one
element because the code does nothing before its last byte is there; a telegram
is three pieces, because the code does different things at the first byte, the
byte with the length, and the last. Host, TPUART and bus are environment
(external in `map`): the host sends each request once, repeats it, resets, and
answers everything with E5; the TPUART echoes what it sends and confirms or
refuses it; other devices send.

Left out: the layout of answers (checksum, the toggling control byte, the zeros
ETSmode inserts), the TPUART's acknowledge-information byte (327-331, no
state), heads that are broken or unknown (452-465; USB does not damage bytes),
the 128-byte capacity of the rings, wrap-around of the eight-bit counters.

Seen while modelling, and allowed by the properties: a telegram of another
device that completes while a confirmation is due is swallowed (343-345); a
reset does not clear `E5next`, nor the ring to the host; a reset goes through
the ring to the TPUART while telegrams bypass it; a telegram that is held
holds everything behind it, a reset too; if the byte of a confirmation is lost
the gateway waits until a reset; a request the host repeats is carried out
twice.

### Uart and UartVZ

`UART_RxBuf`, `UART_RxHead`, `UART_RxTail`, `UART_LastRxError` and the same for
transmission are the statics of `uart.c`, `buffer` the line of `serial.c`,
`data` and `tmphead` locals, `UDRIE` the enable bit of the transmit interrupt. A
handler is one step, since the AVR runs it with interrupts disabled. The host is
`patient` - it waits for an answer before it sends the next line - or not. Answers
are numbered bytes, so the order can be checked.

Seen while modelling, and allowed by the properties: the status that
`uart_getc` returns is that of the byte that came in last, not of the one it
returns; for a host that is not patient two lines may be taken for one; a line
of 256 bytes starts over.

Not modelled: what the commands print; two commands that are not answered by a line,
`*`, which prints nothing on this port, and `X`, which waits for the watchdog; the
second USART (the same code).

`UartVZ` adds `Impulse`, the whole print of `impuls_action` in one step,
and `ImpulseWaits`, the same with a ring that has no room.

### S0Meter

`CH[c]` is the struct of the channel; `port_bits` the byte of the last pin
change; `iflag` the global interrupt flag; `rtc` the RAM. The main program
copies a reading in two steps inside a critical region; `rtc_write_ticks` loads
its argument byte by byte in any order and writes it byte by byte. A count has
`Bytes` digits to the base `Base`, and `Weight[b]` is the value of a one in the
digit `b`, the shifts by 8, 16 and 24 of the code. `Restart` is a reset by whatever cause, and
`s0_init`.

Assumed of the world: an impulse lasts 30 ms or more, so a line does not move
again before its last change was served.

Not modelled: the date in the clock chip, the counter `wd_ticks`, and that
`ms_now` outside the handler may be a second off (no property depends on it).

### Telnet

`conn[p]` is `es->state` while the callbacks of a connection are registered,
`fin[p]` lwIP's CLOSE_WAIT, `room[p]` `tcp_sndbuf`, `accept` the counter.
`lines[b]` holds the slots 0 to `line` of a `console_state`: its length is
`line + 1`, and a slot that was sent and freed is `Null`. `allocated`, `states`
and `heldLines` say what is allocated of the three kinds of memory. The
callbacks of lwIP run in one thread and are one step each; the console task
has the same priority (`main.c:157`, `TCPIP_THREAD_PRIO`) and is a step per call,
between callbacks - a preemption inside a callback, which the scheduler also
allows, is left out, since the violation found needs none.

`SendData` is `send_data`, with `tcp_write` out of memory at any slot. A refused
connection, and one whose welcome text fails, are lwIP's `tcp_abort` after
`telnet_accept` returned an error (`tcp_in.c:641`). `Exclusive` says that the
console is used only while nobody is connected.

Taken to suffice: memory for `console_state`, for lines and for the first
prompt. The code does not look at the first two, and hands lwIP a packet it has
freed in the third case. `FreshBlock` is `pvPortMalloc` (`heap_3.c`), and `Size` what
`tcp_enqueue` takes from the send buffer (`tcp_out.c`).

### Ethernet

`raw`, `im`, `fifo` and `newtx` are the registers of the controller: raw
interrupt status, mask, number of frames received, MAC_TR_NEWTX. `input` says
where ETH_INPUT is, `output[s]` where the task `s` is in `low_level_output`;
`inputReg` and `outputReg` are what they have loaded to store again. ETH_INPUT
has the highest priority, so a sender runs only while it is blocked. There is
one exception, and the handler makes it: after a change of the link it sets
`xHigherPriorityTaskWoken` to 0 ("no need immediately to switch context",
`ETHIsr.c:182`), also if it has just given the semaphore, and until the next tick
the interrupted sender goes on although ETH_INPUT is ready: `late`.

`phy` is register MR17 of the PHY: the events `LSCHG` (the link has changed) and
`ANEGCOMP` (negotiation has completed) that are latched until they are read. `link`
and `negotiated` are what is the case. A link that goes down latches LSCHG; one that
comes up latches LSCHG, in the same moment as ANEGCOMP or without it; ANEGCOMP may come
alone, before or after, or never (`LinkDown`, `LinkUp`, `Negotiated`). The handler
reads the events and clears them, and `LinkFlag` decodes them as `ETHIsr.c:171` does with
the masks of `ETHIsr.h:56`: LSCHG alone clears the flag, both together set it, and
ANEGCOMP alone leaves it as it is. `putOff`, `masked`, `torn` and `split` are
histories, for the exceptions that properties name.

Assumed of the world: links change slower than the handler answers, so that the
events of one change have been read before the next.

Left out: a change of the link while `ETHServiceTaskEnable` starts the PHY; what is in
a frame; the error flags, which only statistics read;
transmission errors, since the port is configured for full duplex
(`ETHIsr.c:383`), where only a frame beyond the MTU raises one; PTP; what happens
before `ETHServiceTaskEnable`.

### Airdude

One stick, several boards, the programmer. `at[b]` says where a board is: not
yet started, waiting for its b, blinking with an empty flash, in its program,
or in the command loop. On the data channel the link is the one of `SerialLink`, here
with several ends and coarser: `Transmit(n)` is a packet from its sending to the
acknowledgement, heard by some, taken over by those for whom it is the next.
`SerialLink` justifies the coarser step between two ends that started together;
what is new is that others listen. A command is one packet and a page two, so
that a page can be torn by a power cut. Erasing, which goes through the flash from page 0
up, and the writing of one page are one step each. A page is its session, `Empty`, or
`Mixed`. `Apart` says that no two boards in the command loop understand one another;
`shared` remembers a session that began with a board left on its channel, or that took
two boards with one key.

A board built without `RADIO_CRYPT` takes the b of an encrypted session and
listens without a key; one whose key is meant for another computes nonsense:
`key` says who understands whom. Packets under another key are taken for noise
out of sequence, which by chance they are not in one case of 256; that case is
left out.

Left out: starting over the serial port, `UART_STACKED` (whose forwarder, by
the way, sends the last byte first: `buf1[--pos1]`, `main.c:475`), EEPROM pages,
reading back, and the commands that only ask.

## 3. What is checked

| run | instance | question |
|---|---|---|
| `ringbuf` | 4 slots, 3 byte values | does the ring implement a FIFO under every interleaving? |
| `seriallink` | 4 bytes one way, 1 the other, payload 2, rings of 3, 3 sequence numbers, FIFO of 10 | are both directions byte streams, and does everything arrive? |
| `seriallink_restart` | 4 bytes, one restart of each end, 4 sequence numbers | what is left of the stream when ends restart? |
| `ft12` | scenarios of 2 telegrams and other requests, 1 foreign telegram, up to 2 repeats, resets or lost pieces | are confirmations, echoes and two-part answers right, is every request acknowledged? |
| `uart` | rings of 4, lines of 4, 3 lines, answers of 4, 1 damaged byte | order, nothing stranded, lines answered one by one |
| `s0meter` | 1 channel, counts of 2 binary digits, 5 ms, 1 reset | readings and saves against the interrupt |
| `telnet` | 2 peers, 2 connections, 3 command lines, 3 slots, a send buffer of 5 | are connections counted, memory freed, answers sent in order and in the end? |
| `telnet_shared` | the same, console used at any time | section 6 |
| `uartvz_lost` | rings of 8, 1 line, 2 impulses | section 6 |
| `ethernet` | 2 senders, 2 outputs, 2 frames, a FIFO of 1, 2 changes of the link or its negotiation | is nobody left asleep, is the flag of the link what the events say? |
| `ethernet_tx` | 1 sender, 3 outputs | section 6 |
| `airdude` | 2 boards of four mixes of builds, 2 sessions, 2 pages, 4 sequence numbers, 1 packet lost, 1 power cut | is what was confirmed written, is what runs of one session? |

### What the runs show

**ringbuf.** `FifoSpec`: with the two pointers owned by one side each and one
slot kept free, every interleaving is a FIFO of `Size - 1`: a call that fails
does so because the buffer was full or empty at its test, and a byte is
visible only when it is stored. `NoSlotRace`: the two never touch the same slot.
Four slots are enough for empty, full, in between, and wrapping of either
pointer with the other on both sides; the theorems cover the other sizes.

**seriallink.** `StreamIntact` says where each accepted byte is: taken over by
the peer, in the packet in the air, or in the transmit buffer. `AckedMeansTaken`
and `InSequence` are the two facts on which it rests: a stale
acknowledgement never counts, and the branch at `seriallink.c:436`, from which
nothing recovers, is dead between ends that started together.
`LossIsOverflow` accounts for the one real loss: bytes of an acknowledged packet
that find the receive ring full. `ByteStreams` is the same as refinement, both
ways at once. `EventuallyDelivered` says that all arrives, from losses, damage
and overflow finitely often, whatever the host does, and unless a node hangs.
The exception is real: a FIFO that overflowed while the node was about to send.
The bounds: the payload is larger than what is free in a ring that holds bytes,
so overflow happens with a part kept and a part lost; four bytes are more than
a packet and than a ring; the FIFO holds one data packet and an acknowledgement,
or two acknowledgements, and then overflows; the sequence numbers wrap after
three.

**seriallink_restart.** A restart of the sender loses bytes but neither doubles
nor reorders any (`SenderRestartOnlyLoses`); one of the receiver may deliver a
packet again, once (`OncePerLife`); an acknowledgement can be false only for
the first packet of a life (`FalseAckOnlyAtStart`); and an end that is out of
sequence stays so, repeating its packet for ever (`DeafForGood`). One byte per
packet makes packets visible; four packets and four numbers let an old number
come round again.

**ft12.** `OneOutstanding`: the gateway waits exactly while the TPUART owes a
confirmation. `ConfirmedWasSent` and `EchoIsNotIndicated` hold as long as there
was no reset and no lost byte; both fail without the assumption, since a
reset forgets the wait but not the telegram. `SecondFollowsFirst` holds in all
circumstances. `RequestAnswered`: every request of an undisturbed gateway gets
its E5, a telegram that waits for the one before included. The scenarios
(`MCFT12`) pair what can cross: two telegrams behind one another, or one telegram,
a two-part request and a foreign telegram with faults.

**uart.** `ReceivedInOrder` shows that `uart_getc` may advance its tail before it
reads, because of the spare slot; `SentInOrder` and `NothingStranded` that the
transmit interrupt may turn itself off at any point of `uart_putc`;
`AnsweredByItself` and `EveryLineAnswered` what a patient host may rely on.
Answers of four bytes do not fit into a ring of four, lines of three fit into
the receive ring just, and the impatient host overflows it and wraps the line.

**s0meter.** `EveryImpulseReported`: with readings that clear, no impulse is
lost or counted twice; after a reset with the line low there may be one too
many, since `port_bits` starts with ones (`s0.c:63`). `ReadingIsConsistent`: the
critical region makes a reading one moment. `PeriodClearedByQuiet`: the period
survives one quiet reading and no more. `RestoredIsRecent`: each byte
in the RAM is, at any point of a save, the byte of a count the meter had since the last
complete save began, and all bytes together are one of these counts, unless an
impulse carried into the second byte in this time. Then the RAM may hold a mixture of two
of them, up to 255 counts off, until the next save: the first part still holds. Two digits to the base two give the
carry, five milliseconds three periods. One channel: the code treats channels
apart, except for the port byte, whose other lines `PinChange({})` stands for,
and the addresses `ch*4` in the RAM, which are not modelled.

**telnet.** `AcceptCounts`: at most one connection is served and `accept` says so,
whatever ends it - with the exception the code has: a welcome text that fails
is answered by `telnet_error`, already registered, so that a connection never
counted is counted off and the server refuses everyone until the next restart.
`MemoryAccounted` is the same for memory, with the four leaks the code has: the
`telnet_state` of a refused connection, the buffer of one that breaks or fails,
and lines unsent at the end. `OutputInOrder`: lines that got a slot reach TCP
once and in order; lines beyond the slots are dropped, the prompt among them.
`OutputLeaves`: nothing stays in the buffer, because of the poll: after
`tcp_write` failed with nothing on the way no acknowledgement comes. Two
connections are enough for one to follow another that ended in each of the ways,
or to be refused beside it; three slots against a command that prints three
lines and a prompt make the buffer overflow; three commands let two answers meet
a third in the buffer.

**ethernet.** `WakeupDue`: test of the FIFO, enabling and sleep are three steps, and
still a frame that comes in between is announced, since its raw status stays set.
Also after a switch was put off, with one
exception: a sender that held the mutex in this moment may have a mask loaded and store it
over the enabling by ETH_INPUT; the frame then waits for the timeout, and the exception lasts
until ETH_INPUT enables the next time. TLC shows it when the exception is left out. `FramesLeave` holds in all cases, because
the wait times out. `OutputReturns`: whoever waits for the transmitter is told,
although its status may have been cleared by an interrupt about something else.
`LinkFlagTrue` is what the decoding of the events is worth: when no interrupt is due
the flag is not up over a link that is down, and it is up over a link that came up with
LSCHG and ANEGCOMP read together. It does not say more because the code does not do
more. When the two come in separate interrupts, in either order, or LSCHG comes alone - as with a link that
does not negotiate - the flag stays false over a link that is up (`split`), and
`low_level_transmit` drops what is sent. A change of the link between the load and the store in
`ETHServiceTaskLastError` is undone by the store, and the flag is wrong, either way, until
the next change (`torn`). Two frames and a FIFO of one give the overflow; two
outputs a sender that waits for the transmitter while the other waits for the mutex; two
changes a link that goes down and comes up, in either order, or one that comes up and is
negotiated before or after.

**airdude.** `ConfirmedIsWritten` and `RunsWhole`, through a lost B, b, packet or
acknowledgement, and a power cut at any point. Both are stated for channels on
which nobody else was: with a board left there by an earlier session, TLC finds
a page confirmed by that board's last answer, which it repeats for ever, as soon
as the sequence numbers coincide. Sequence numbers that wrap after four let that
happen within two sessions. The same holds of two boards that came
along in one session and answer both. `RunsWhole` covers the boards that were switched off inside a
session: if the first page was written before, such a board does run, and what it runs is the
beginning of the program of that one session over an erased flash, never a mixture of
two. Every other board runs a whole program. The programmer stops at the first answer that is not a
carriage return; `MaxQuestions` ends the exchange of question marks between two
boards on one channel.

### Deadlock

`ringbuf`, `uart` and `s0meter` are checked for it (`s0meter` can always restart
a reading, `uart` polls for ever, which is the action `NoLine`). The others stop
by nature of their bounds - the host has no more bytes and both ends hang, or
nothing is left to send - and say `CHECK_DEADLOCK FALSE`.

## 4. Fairness

* `SerialLink`: both main loops run (weak fairness of `Loop(n)`), and the air
  is disturbed only finitely often (`<>[][Undisturbed]`). The second is a
  statement about the world, and one about time: `slink_receive` throws
  away what follows the first packet, so two ends in phase could do this
  to each other for ever, but a packet takes milliseconds, a poll microseconds,
  and RESEND_AFTER is 10000 polls. No fairness is assumed of the USB host.
* `FT12`: the main loop runs (weak fairness of `Gateway`); the host reads its
  port, so again and again everything waiting goes out (strong fairness of
  `OutgoingAll`); the TPUART transmits or refuses (weak fairness of `Transmit`).
* `Telnet`: lwIP polls every connection and, again and again, has memory for all
  that fits (weak fairness of `PollSendsAll` and `PollCloses`), and a peer that is
  there acknowledges (weak fairness of `Acknowledge`). Nobody needs to type.
* `Ethernet`: the controller transmits what it has, pending interrupts are
  served, ETH_INPUT runs when it is ready and its wait times out (weak fairness
  each): it is hardware and the task of highest priority. A sender gets on if
  again and again it can (strong fairness): ETH_INPUT takes the processor from
  it whenever a frame comes, but sleeps in between.
* `Uart`: main program, receive interrupt and transmit interrupt run (weak
  fairness each). Interrupts are never disabled for long in this program.

## 5. What is proved

TLAPS checks the following for every value of the constants that satisfies the
assumptions named in the modules.

**RingbufProofs.** Assumptions: the size is a power of two up to 128
(`ringbuf.h`), the "no byte" result is not a byte. `TypeCorrect`, `SlotsApart`,
`RefinesFifo`. The invariant `IInv` says besides the types that a producer past
its test still finds a free slot and a consumer past its test still finds a
byte: each side's test is stable under the steps of the other, which moves its
pointer only in the direction that helps. The refinement then shows that the
store into the free slot is invisible, publishing appends, and advancing
removes the head.

**SerialLinkProofs, without restarts.** Assumptions: `ConstantAssumption` (inputs are byte
sequences; sizes positive; two sequence numbers or more). The inductive
invariant `IInv` has, besides the types, a window (`rxseq` of the peer is the
number of the packet in the air or the one before, and `txseq` the one after)
and a statement on every packet in flight: a data packet in a FIFO is the
packet in the air, or an older copy with the number taken over last and nothing new; an
acknowledgement carries a number the peer has taken over. It is needed because
neither `AckedMeansTaken` nor `InSequence` is inductive: that an
acknowledgement means anything depends on what was in the FIFO before. From it:
`NoFalseAck`, `NoMismatch`, `ExactlyOnce`, `OnlyOverflowLoses`, and `StreamTo1`
and `StreamTo0`, the refinement of `ByteStream` in each direction, and `Streams`,
both together. They hold for
two sequence numbers; the code has 256.

**SerialLinkProofs, with restarts.** For any number of restarts of either end, at any step.
`IInv` does not survive a restart: the window is gone, and what waits in a FIFO may
be from a life that is over. What is left (`RIInv`) is about acknowledgements, and rests on
`slink_receive` emptying the FIFO with every packet: an acknowledgement that n would
believe was sent after the peer had read its FIFO, so that what waits there since is
a copy of n's last packet, and the peer is at its number, or at 0 if it started over
(`Answered`, `Idle`). Only the numbers 0 and 1 occur in more than one life without
anybody having counted up to them, and they are the exception of `FalseAckBounded`.
`StaysDeaf` is the action property `DeafForGood`: no step but a restart ends a
rejection. For the stream, `OrderInv` divides what a receiver took over into the part before
its last restart and the part since, and says that the latter ascends and lies before
all that the sender still has, copies apart (`SenderRestarts`, `OnceEachLife`). These
two assume `InputsAscend` - bytes are numbers and those of an input ascend - which is
a way to tell one byte from another and not something the code looks at.

**TelnetProofs.** For every set of peers, every command table, every number of
slots and size of the send buffer. `AcceptCounts` is not inductive: a connection
is accepted when `accept = 0`, which says that nobody is served only if no
welcome text failed before. The inductive invariant lists the three cases:
nobody is served, one is, or the server is shut for good
(`AcceptCountsInvariant`). With it, and assuming `Exclusive`, the buffer of an
open session is allocated (`ServerBufferInvariant`); the assumption is needed, as
`telnet_shared` shows. Under the same assumption `MemoryInv` gives
`MemoryAccounted` and `OutputInOrder`. It says of the console that the buffer it
points to is allocated while a command runs and empty when it is freed - else
`ConsoleFree` would lose lines nobody counted; of every peer, that what it was
promised and has not been given is in the buffer, and nothing of one that is
gone; and of the blocks that a connection attempt costs at most one, so that there is
a free one when a buffer is allocated. What the two properties count is recursive: the lines
left in the slots (`Filled`) and the lines held by the allocated blocks (`Total`).
Both are reasoned about by induction over the slots and the blocks: sent
and left lines are, in order, the lines there were (`FilledConcat`,
`FilledRemaining`), and a change of one block changes the total by as much as
it changes that block (`TotalChanges`).

**EthernetProofs.** For every set of senders, size of the FIFO and number of
frames. `WakeupDue` is not inductive: ETH_INPUT falls asleep over a frame that
came earlier. The inductive invariant follows it there - from the moment it saw an
empty FIFO, a frame is noted in the raw status or by a token; from the enabling,
only the interrupt disables - and follows the senders, whose loaded mask has
receive enabled because they run only while ETH_INPUT is blocked, unless a switch was put
off since they took the mutex (`Armed`, `LoadedArmed`, `InputWoken`).
On the transmit side it says that from the test of the transmitter on the end
of the transmission is to come, pending or noted, and that ETH_INPUT stores no mask
without the transmit interrupt under a waiting sender (`SendersTold`, the safety
part of `OutputReturns`). `FlagTrue` needs two facts: the interrupt of the PHY stays enabled whoever stores a mask
(`PhyInv`), and `LinkInv`, that both events are latched only while the link is up, that a
flag whose event has been read is what was read, and that the flag loaded by ETH_INPUT is
still the flag, unless it was torn.

**UartProofs.** Assumptions: `ConstantAssumption` (sizes), `LineAssumption` (the
host sends lines of at least one byte). For every size of the rings the
code allows (powers of two up to 128) and every size of the line buffer; of the
size of a ring the proofs use only that it is at least two, since `Following` takes
the remainder. The invariant reads each ring as a sequence between tail and head:
bytes stored = bytes fetched and what is in the ring. In the middle of
`uart_getc` the tail has passed a byte that is still to be loaded, and in the
middle of `uart_putc` the slot behind the head already holds one that is still to
be published; the invariant has a case for each place of the main program, and
says that the slot in question is not one the interrupt may write, which is where
the slot that is kept free comes in. `ReceiveIsFifo`, `TransmitIsFifo`,
`NoneStranded`.

`LineByLine` (`AnsweredByItself`) has one more hypothesis, `LinesFit`: a line ends
with its only CR, is shorter than the line buffer, and fits into the receive ring
together with the line feeds that may be left of the line before. The code gives
no flow control, so nothing else keeps the ring from overflowing while the main
program is elsewhere; the lines of the run fulfil it, which TLC evaluates
(`ShortLines`). The invariant `LInv` follows a patient host through a line. Where
the host is decides which of four holds: line feeds of the line before are still to
come (`FeedsLeft`), all is sent and answered (`AllSent`), a line is being sent
(`Sending`: what is collected, in the ring and still to come is the line, and the
ring has room for it), or the line has gone and its answer has not come (`Waiting`).
What is collected is the line buffer and, of the bytes that have arrived, those that are
not line feeds; the latter is defined by recursion over the bytes (`Stripped`), and
that it commutes with appending is proved by induction with the least
counterexample, as for the digits of `S0Meter`. A host in `Waiting` cannot go on:
it wants `AnswerSize` bytes for each line it has sent, and `Printed` - the bytes put
and still to be put are `AnswerSize` for each answer begun - gives it one answer
less, so the line after comes in when `serial_periodic` has taken this one.

**FT12Proofs.** Assumption: `ConstantAssumption` ("nothing" is not a telegram, and
the commands are those the gateway tells apart). For all telegrams, messages and
orders in which the host sends them, any number of repeats, resets and losses.
None of the four invariants is inductive. As long as nothing was disturbed, what
is in `inTPU_Buffer` followed by what is on the line is whole telegrams and at
most one confirmation, each confirmation behind its own telegram, and each
telegram of the host with its confirmation behind it (`LineInv`): so the telegram
received last is the one a confirmation is about, and a telegram that completes
while none is due is from another device. `NoReset` says that no reset
is on its way. From them `OneAtATime`, `OnlySentIsConfirmed`,
`EchoIsKept`. `PartsInOrder` needs no such assumption: `PartsPaired` says of
the answers that wait, and of the second part that is due, that the last part before it
is its first part; each answer that is added and each one that goes out keeps it.

**S0MeterProofs.** Assumption: `ConstantAssumption` (there is a channel, a
base of two or more, a byte or more; `NoMin` is greater than every time; what the host
sets is a count). For every number of channels, resets and milliseconds. A reading
is taken in two steps: that it is of one moment (`ReadingOfOneMoment`) needs the
invariant `Reading`, that between them interrupts are off and the half that was copied
is still what the channel holds. `ImpulsesReported` needs `Counting`, which follows
an edge from the line to the pending interrupt to the counter to the reading, at each
place of the main program, and says where the byte of the last pin change may
differ from the line. `PeriodCleared` needs that a channel twice found quiet has the period zero.
`RestoredCounts` is the long one. `Saving` says that the bytes loaded for the RAM, and the
bytes written so far, are the bytes of counts the channel had since the save
began, and that the bytes still in the RAM are of a count it had since the one
before. This gives the first part of `RestoredIsRecent`. For the second: if none of these counts differs from another above its lowest byte, such a
mixture is one of them: its upper bytes are theirs, and the lowest byte is that of one.
That takes the arithmetic of digits (`BytesOfValue`, `ByteType`, `HighByte`): a number below
`Weight[Bytes]` is the value of its digits. It is proved by induction over
the digits; the library's induction theorems take an operator as parameter, so the
module derives what it needs (`LeastElement`, `UpTo`) from the theorem that the
naturals are well founded, with a set in its place, and gets the equations of
recursive functions from the existence of one that satisfies them (`WeightIs`,
`SumRule`).

**AirdudeProofs.** Assumption: `ConstantAssumption` (there are finitely many boards and
at least one, there is a page and a session, two sequence numbers or more, "nothing" is
not a packet, an erased or a torn page is not one of a session). For every mix of builds,
any number of lost transmissions, power cuts and resets by the user. As the properties
do, the invariant speaks of what happens while no session began with a board left on the
channel by an earlier one, or with two (`shared`); it is in three parts. `Protocol` is about the command in progress. A
session has at most one partner (`Partners`: in the command loop, under the key of the
stick), the stick is in step with it in both directions - what either has for the other
is taken over up to the packet in the air (`InStep`, `Pending`) - and the command is to
come with the one before carried out (`Ready`), or a page of which the board has one
half (`HalfPage`), or carried out with the answer on its way (`Answering`); `Done(b, i)`
is what the first i commands make of a board. Without `Pending` nothing ties an answer to its
command: they bear no number, and the programmer takes any answer for the one it
waits for. `Protocol` also says that a partner that was switched off still has
what it confirmed, since the stick cannot find another board before the user resets it.
`ProgramInv` is about the flash: at any time it holds the beginning of one program
(`Begun`), also of a board in a session or switched off inside one, because pages are
written in order over a flash that was erased; that of a board outside the
command loop is whole or erased unless it was switched off inside, and the watchdog runs
only when the last command was carried out, on a flash that is whole. The third part,
`Channel`, says who hears whom: the boards are apart, the stick's key is not a wrong one,
and a board with a wrong key has sent nothing. From it nobody but the stick and
its partner hears anybody (`BoardsHearNone`). `TypeCorrect`, `Confirmed`, `RunsOneProgram`.

Only model-checked: liveness, which is out of the prover's reach. The `TypeOK` of `FT12`, `S0Meter` and `Airdude` are proved and in no
run; that of `Telnet` states the types for the reader.

## 6. Disagreements found

One in `src/SD0/Firmware_VZ/s0.c:25`, where the pin-change interrupt prints, one
in `src/nux/console.c:706`, where the console takes the global buffer, and one in
`src/nux/LWIPStack.c:335`, where a sender waits for the transmitter.

* `uartvz_lost`: the interrupt comes while the main program is inside
  `uart_putc`, after `tmphead` was computed. The handler stores its bytes in the
  same slots and moves the head; the main program then sets the head back.
  Bytes for which `uart_putc` returned are never sent. `uart.h:137` says "Put
  byte to ringbuffer for transmitting via UART".
  The same interrupt, when the transmit ring is full, waits in `uart_putc` for a
  transmit interrupt that cannot come, until the watchdog resets the meter.
* `telnet_shared`: one telnet session is open, one line is typed on the serial
  console. `console` points `cmd_out` to a buffer of its own and frees it; the
  server goes on with that pointer, reads it at the next poll and frees it again
  when the session ends. `telnetd.c:383` says "only 1 connection at the time,
  resolve extern struct console_state *cmd_out if you need more": one connection
  is meant to be safe.
* `ethernet_tx`: the transmitter is idle for the first frame and its status at the
  end is left in the raw register, because the transmit interrupt is masked. A
  later sender finds the transmitter busy and enables the interrupt: it comes at once, for
  the earlier frame, and the sender writes into the FIFO of a transmitter still
  at work. `LWIPStack.c:334` calls the wait "Waiting for finishing transmitting
  from interrupt routine".

## 7. Not modelled, and why

* Vendored code, tables, descriptors, `CPC` and `Demo`: nothing of the
  repository's own to check.
* Drivers for radio registers, ADC, LEDs, and the nux web pages: input and
  output with next to no state.
* Cryptography (RSA, AES): only whether a packet is padded matters to the link.
* The SD0 bootloader (the AVR109 commands of Dudette over a wire, without the
  pairing that makes them hard), the USB bridges, raw UART, settings: below.

## 8. Plan

Order by how much depends on a part and how little a test can reach it.

1. Done: the ring buffer, the radio link, its restart, the FT1.2 gateway, the
   serial port and the counting of SD0, telnet server and console, the Ethernet
   driver, pairing and programming over the air.
2. `UsbBridge`: rings of EUL and TUL with the receive interrupt and an endpoint
   that is not ready. To look at: `USB2TCM.c:250`, an insertion without a test
   for room while the byte at the head is being sent, and the threshold of 200
   for a ring of 128.
3. `Settings`: `ipmode` and `uart` of the console into the emulated EEPROM and
   back at the next start, half-word by half-word, with a reset in between
   (the mode is written before the addresses, and only the first result is
   looked at).
4. `RawUart` (bytes queued for a client that has gone go to the next);
   the capacity of the rings and the framing of `FT12`.
