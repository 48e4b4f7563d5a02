# Verification of SantaOS-lab's mini web server

`src/MyToyOS2` is a web server that runs on a bare x86 machine: one program, one
thread, no operating system, a serial line instead of a network card, and a TCP
implementation of 200 lines that answers every packet from the packet alone. A
proxy written in Python carries IP packets between the serial line and a TUN
device of the host. This directory holds TLA+ models of that system, the TLC
configurations that check them and proofs for TLAPS.

    tlc -config miniweb_one_at_a_time.cfg MCMiniweb
    tlapm Miniweb_proofs.tla

`PROJECT.json` lists the runs, which lines of the sources each definition models,
the theorems, the hazards the properties are for, and for each property an
altered definition (a bug the code might have had) that violates it.

## 1. Inventory

| Part | Source | State it keeps | Operations | What is hard |
|---|---|---|---|---|
| server program | `kernel.c`, `tcpip.c` 251-392 | where it is blocked; nothing of a connection | handshake, serve, close | packets of other clients, retransmissions, early FINs in any of its five waits; no timeouts; no retransmission |
| segment builder | `tcpip.c` 276-329 | none | answer to a packet | acknowledgement number of empty segments, wrap-around |
| header codec | `tcpip.c` 88-200, 263-329 | `inRawBuf`, never cleared | parse, validate, build | lengths and offsets the frame lies about, options, what an earlier frame left in the buffer |
| checksum | `tcpip.c` 60-82, 148-154 | none | build, validate | carries, odd lengths |
| framing, in | `eth2serial.py` 99-112, `tcpip.c` 208-233, `serial.c` 52-60 | last three bytes, size, `inRawBuf` | read a packet | lost bytes, magic numbers inside packets, size against buffer |
| framing, out | `tcpip.c` 235-246, `eth2serial.py` 114-131 | `pkt`, size | write a packet, recv, forward | chunk boundaries anywhere, two frames in one chunk |
| terminal | `tty.c`, `std.c` | cursor, screen | put, scroll | edge of the screen, overlapping copy |
| printing | `stdio.c` | place in the format, count | `_printf` | looking ahead in the format, the limit of the count |
| UART | `serial.c` 13-60, 72-78, `asm.c` | registers; the chip's receive FIFO | detect, presence test, read | which `else` belongs to which `if`; turning the FIFO on empties it; bytes lost while nobody reads |
| boot | `boot.s`, `linker.ld`, `grub.cfg` | stack | call `kernel_main` | - |
| hosts (external) | `readme.md` 54-66 | TCP connections | curl | RFC 793 reactions to what the server sends |
| MyToyOS1 sample | `MyToyOS1/multiboot` | cursor, screen, place in the memory map | print the boot information | walking entries whose size does not count itself, digits of unsigned numbers in an `int`, edge of the screen |
| cross compiler | `src/cross-compiler` | - | vendored binaries and headers | - |

How they interact: the proxy's two threads and the virtual machine turn packets
into bytes and back; `nextTcpIpPacket` reads a frame, validates it and hands it
to whichever place the program is blocked in; that place may send one answer
with `buildRawTcpIpPacket` and `sendRawPacket` and then blocks again. There is
no other concurrency on the server's side: no interrupts, no second thread. All
the concurrency is between the server, the UART, the hosts behind the TUN device
and the proxy. While the server answers a packet it does not read; what comes
meanwhile waits in the UART or is lost.

What makes each part correct: the server program, that a conversation is served
from its SYN to its final ACK and not mixed with another; the codec, that it
takes exactly the segments hosts mean and answers as a host would; the checksum,
RFC 1071; framing, that packets arrive whole, once, in order, within the buffer,
and that a lost byte costs no more than the frames around it (it may cost
everything: finding 6); the UART, that the
chip reported is the chip there is; terminal and printing, that the screen shows
the end of what was printed, and that it is what the format says.

## 2. Modules

| Module | Models |
|---|---|
| `TcpSegment` | segments, sequence number arithmetic, `buildRawTcpIpPacket` |
| `SerialLine` | the line as two FIFO queues of frames |
| `WebServer` | the server program on judged frames, and the server alone in an arbitrary environment (`OpenSpec`) |
| `PacketCodec` | IP and TCP headers as bytes: parse, validate, build, and what hosts send |
| `RawServer` | the server program on the bytes of `inRawBuf` |
| `HostClients` | TCP clients on hosts (external, RFC 793) |
| `Miniweb` | server, clients and line composed, with loss, foreign frames and the frames `socket2tun` keeps back |
| `HttpService` | abstract: who asks is served, once, in the end |
| `Checksum` | `_checksum` against RFC 1071 |
| `Framing` | frames as bytes, common to both directions |
| `FrameChannel` | abstract: a FIFO channel for packets |
| `Uart` | the five chips of the 8250 family, `detect_uart_model`, `is_serial_connected`, the polled receiver |
| `SerialReceiver` | `tun2socket` through the UART to `readRawPacket`, byte by byte |
| `SocketToTun` | `sendRawPacket` to `socket2tun`, in chunks |
| `BothWays` | the two directions side by side |
| `Terminal` | the screen of MyToyOS2: `terminal_putchar`, scrolling, `memmove`'s loop |
| `Console` | `_printf` on the terminal |
| `MultibootConsole` | MyToyOS1: `cmain`, its `printf`, `itoa` and screen |
| `Kernels` | both kernels, each with its screen and its printf, for `MCConsole` and the proofs |
| `MC...` | values of constants for TLC; `MCConsole` boots one kernel or the other, `MCBothWays` has frames in one direction or the other |
| `..._proofs` | theorems and proofs about the module of that name |

    HttpService <--implements-- Miniweb = WebServer + HostClients on SerialLine
                                             ^
                                 implements  |
                                         RawServer = PacketCodec + Checksum
    FrameChannel <--implements-- SerialReceiver = Framing + Uart
    FrameChannel <--implements-- SocketToTun = Framing

The two implementations of `FrameChannel` justify the FIFO queues of
`SerialLine`; that `RawServer` implements `WebServer` justifies judging a frame by
four Booleans and numbers. `MCConsole` composes the repository's two kernels: a
machine boots one of them.

### The server

The program blocks in `nextTcpIpPacket` at five places; `pc` names them:
`listen` and `handshake` in `threeWayHandshake`, `request` and `ack` in
`kernel_main`, `fin` in `fourWayClose`. Between two returns of
`nextTcpIpPacket` the program interacts with nothing, so everything it does
there, sending included, is one action. Sending cannot block for ever (the UART
drains) and its bytes cannot interleave with others.

A frame is what its receiver makes of it: whether `parseRawIpPacket` accepts it,
version, protocol, whether the TCP checksum is right, and the segment. `flags`
is the set of bits of the flags byte, compared as a whole where the code
compares the byte. `len` is `payloadSz`, negative if the data offset points
behind the frame. Addresses and ports are one model value per connection end.

The `IP` and `TCP` structs are overwritten by each packet, so the program's only
memory is `pc` and the packet at hand. `session` is a history variable: the
segments acted upon since the server last listened; properties about
conversations need it, no action reads it except to extend it.

### The clients

`HostClients` is the environment the readme names, curl on a host's TCP. It has
what the server can tell apart: SYN-SENT, ESTABLISHED, FIN-WAIT-1 (`closing`),
FIN-WAIT-2 (`halfClosed`) and closed;
una/nxt/rcv; retransmission of the oldest unacknowledged segment; delayed
acknowledgements; the challenge acknowledgement for unacceptable segments; a
reset for data to a closed socket; segments without ACK are dropped, as RFC 793
says, which is why the server's bare FIN is never noticed and a client gets no
further than FIN-WAIT-2 (finding 5). A host leaves that state when it gives up
(Linux after `tcp_fin_timeout`); the model's clients have no TIME-WAIT and never
give up. An `impatient` client closes before it has the page.

### The bytes of a frame

`PacketCodec` keeps the headers of the RFCs byte for byte and scales the byte to
`Nibble * Nibble` values (16 * 16 on the machine), so that offsets, which are half
bytes, are scaled with it. Identification, time to live and window, which the
code never looks at, are the server's in every packet.

`RawServer` has all of `inRawBuf`: `readRawPacket` overwrites as many bytes as the
frame has and the rest keeps what earlier frames left there, so that a frame too
short for its headers is parsed with foreign bytes, as in the code. A frame is
parsed in a step of its own. `parseRawIpPacket`'s checksum covers 20 bytes
whatever the header's length says; that length is in words everywhere; a payload
size that comes out negative and odd makes `_checksum` add one byte before the
block (`Block`). Frames of hosts come whole, cut at any byte, or with any one byte
missing; `judged` is the frame as `WebServer` has it, under which every step of
`RawServer` is a step of `WebServer` or none.

### The bytes on the line

`SerialReceiver` and `SocketToTun` scale the byte to `ByteBase` values. The
magic number, sizes of two bytes and packets made of the magic number's bytes
are as in the code. A byte leaves the virtual machine's socket, enters the
chip's receiver (1 byte, or `FifoDepth` of the chip if its FIFO is on), and is
read by polling. The server does not poll while it starts up (`startup`) nor while
it answers (`answering`, from the end of a packet until it is back in
`readRawPacket`). On a *paced* line bytes wait while the receiver is full and
nothing is sent before the server listens. That is an assumption on the
environment: of a virtual machine whose socket is read only when the UART takes a
byte, and of whoever starts the proxy after the server. Nothing in the repository
says how the virtual machine of `runMyToyOS.sh` paces its serial port, and
`readme.txt` 19 names bare metal too; so what holds on a paced line only is said
to. On any other line bytes are lost (`MaxLost`), by overrun, or by
`detect_uart_model`, which empties the receiver of the chips that have FIFOs to
turn on; an 8250 or a 16450 keeps its byte.

The two `read_serial()` calls of the size are evaluated from left to right; C
leaves the order open (a compiler that chooses the other order is an altered
definition of the runs). A write beyond `inRawBuf` leaves nothing to be said,
which is what `overrun` stands for; that it can happen is finding 6.

`BothWays` has one direction as it is (`SerialReceiver`) and the other as an
instance (`Out`), with variables of their own: the socket and the UART are full
duplex and the proxy has a thread for each direction.

### The screen

`terminal_putchar` is one action; when it has to scroll, the loop of `memmove`
follows, a step per cell (two bytes of video memory), and then the rest of
`terminal_scrollup`. `paper` and `off` are history: every cell ever filled, blanks
at the ends of lines included, and how many of them have left the screen. A
round of `_printf`'s loop is an action; it hands its characters to
`terminal_write` (`pending`) and goes on when the terminal has taken them. A call
is a sequence of directives, each with the way it is written in the format, the
argument it brings and what it should print, so that what `_printf` makes of the
format's characters can be compared with what was meant. Colours are left out,
and `terminal_setcolor` and `terminal_writehex`, which nobody calls.

`MultibootConsole` is MyToyOS1: `cmain` goes from one call of `printf` to the next,
`putchar` is an action. The wording is left out; the numbers are not, since an
`unsigned long` goes through an `int` on its way to `itoa`. The memory map is
memory: entries at addresses, each with a size that does not count the four bytes
of the size field itself, and anything elsewhere, so that a walk that goes wrong
reads something. The screen does not scroll but starts over at the top.
Addresses are `unsigned long` and wrap.
`WellMade` says what boot loaders pass: the map's entries lie one behind the other, up
to its end, which is an address itself (of a map that ends exactly with the address
space `cmain` would report nothing, since its end wraps to zero). `Kernels` puts the two kernels' modules side by side and assumes it of the
informations a machine is booted with (`BootAssumption`).

## 3. Runs

| Run | Module | What it shows |
|---|---|---|
| `miniweb_one_at_a_time` | `MCMiniweb` | Two clients one after the other, data timers that fire early, delayed acknowledgements, a proxy that may keep a frame: conversations do not mix, the packet taken for the request is one, every client gets the page, once, the server's answers are whole conversations, it acknowledges every client's FIN and listens again; the whole implements `HttpService`. 5k states. |
| `miniweb_crowd` | `MCMiniweb` | Two impatient clients at once, two frames lost, two early timeouts, a proxy that keeps up to two whole frames back: conversations do mix, yet nothing is served without a handshake and nobody gets a page without having asked nor a part of one. 2.1M states. |
| `syn_timeout` | `MCMiniweb` | violation: see finding 1 |
| `impatient_client` | `MCMiniweb` | violation: see finding 2 |
| `half_closed` | `MCMiniweb` | violation: see finding 5 |
| `checksum` | `MCChecksum` | All segments of 2 to 5 bytes, with and without pseudo header, damaged in any byte. 21k states. |
| `checksum_carry` | `MCChecksum` | violation: see finding 3 |
| `raw_server` | `MCRawServer` | The server on bytes: whole, cut and thinned frames, TCP and IP options, UDP, IPv6. What it takes is what a host meant, of whole packets without IP options it takes all that carry TCP, what it sends is what a host would send (carries apart, finding 3), and all of it implements `WebServer`. 122k states. |
| `both_ways` | `MCBothWays` | Towards the server, with each of the five chips: on a paced line a reliable FIFO channel, with packets that contain prologs; on any other, back in step after any two lost bytes and a buffer's worth of frames, unless the buffer has been overrun; no write beyond the buffer as long as no byte is lost; the chip is recognised. From the server: nothing lost, torn or reordered for any chunks; a frame that comes alone is forwarded. 465k states. |
| `buffer_overrun` | `MCBothWays` | violation: see finding 6 |
| `socket_to_tun_burst` | `MCBothWays` | violation: see finding 4 |
| `console` | `MCConsole` | MyToyOS2: every format of up to four directives, doubled and lone percent signs and unknown conversions among them: `_printf` prints what the format says, counts right, returns; the screen shows the end of it. MyToyOS1: every combination of the flags that change `cmain`'s way, with and without modules and memory map: all of it is reported, numbers read back, the screen shows the last round of the text, the kernel halts. 116k states. |

### Findings

1. **A repeated SYN costs the connection** (`tcpip.c` 353-357). If the client's
   SYN timer fires while the SYN/ACK is under way, the second SYN is "not an
   ACK": the handshake is forgotten, the client completes it, and its request
   is dropped by a server that listens for SYNs, for ever.
2. **An early FIN stops the server** (`kernel.c` 50, `tcpip.c` 379). The FIN of a
   client that closes before asking is taken for the request; after it
   `fourWayClose` waits for a FIN nobody will send and drops every SYN.
3. **The checksum drops a carry** (`tcpip.c` 74). When the two halves of the sum
   add up to more than 0xFFFF the checksum is one too large and hosts drop the
   packet. The sum of a SYN/ACK depends only on what the client sent, so the
   repetition fails in the same way.
4. **The second of two frames is stuck in the proxy** (`eth2serial.py` 123). After
   forwarding a packet the thread blocks in `recv` even if a whole frame is left.
   `Miniweb` has the same at the level of frames (`held`). It matters for the close:
   the server's FIN and its final ACK may come in one `recv`, the ACK stays in the
   proxy and the client repeats its FIN to a server that listens for SYNs, until
   another frame pushes the ACK out. `EveryCloseAnswered` therefore says that the
   acknowledgement arrives or is the frame the proxy keeps.
5. **Nobody's connection is closed** (`tcpip.c` 369-371). `fourWayClose` sends its FIN
   with no other flag; a host drops a segment without ACK. The client's own FIN is
   acknowledged, and so the client stays in FIN-WAIT-2, after every conversation,
   until its host gives up. On the best of lines `ClosesBothWays` fails. (When
   the packet taken for the page's acknowledgement is a bare ACK, that FIN also
   acknowledges a byte never sent, since `ackN` is 1: were the ACK flag added, a host
   would challenge it. `PhantomAckOnlyInFin` says that this is so of FINs only.)
6. **A lost byte can overwrite memory** (`tcpip.c` 227-231). The size read from the
   line is not compared with `inRawBuf`'s 2048 bytes. The comment at 209 asks that
   the buffer be greater than the MTU; but when the UART has lost a byte of the
   size, two other bytes are taken for it, and it can be up to 65535: of a packet of
   40 bytes, 00 28 45 ..., the high byte lost leaves 0x2845, and what lies behind the
   buffer is overwritten. `OverrunsOnlyAfterLoss` says that nothing else has this effect.

`readme.md` 65 shows a page saying "Hello World!", `kernel.c` 59 sends another
text, in a body one byte longer (the string's NUL) than its Content-Length
says; no model concerns the wording.

### Observations that no run is about

* In a crowd a client may get the page twice. That no client gets more than one
  was a property of `miniweb_crowd` until its proof failed: with four clients and
  three lost frames, packets of the others make the server take a client's bare
  acknowledgement for its request. The page that answers it acknowledges one byte
  (`tcpip.c` 284-288); the host repeats the rest of its request, and that may be
  answered with the page again, numbered to follow the first. There it ends: the
  second page acknowledges the whole request. The behaviour takes 47 steps, out of
  the run's bounds, and was replayed with TLC. What is true of any crowd is
  `WholePages` (no page, one or two, none torn), which the run checks and
  `WholePagesOnly` proves; `PageIntact` holds of one client at a time.
* `tcpip.c` 105 says that IP options are skipped; they are, but the checksum has
  been taken over 20 bytes only, so that a packet with options is dropped unless
  their sum happens to be zero. `tcpip.h` 28 ("OPTIONS ignored") disagrees as well.
  The packets of `raw_server` have options of both kinds; its property
  `TakesEveryPlainPacket` speaks of packets without, and `WholePacketsDropped` proves
  which of the others are dropped.
* MyToyOS1's `kernel.c` 115 prints with `%0x`, which its `printf` (238-239: "just
  like the libc function printf") does not know: the argument is put as one
  character and an x after it. Lines 144 to 147 print the two halves of an address
  one after the other without padding the second.
* A 16550 is reported as a 16450: its FIFO does not work, and bit 6 of the
  identification register says so. `kernel.c` 38 passes the model, an enum, to a
  `%s`.
* `socket2tun` does not look at the magic number it skips: a proxy restarted in
  the middle of a frame is never in step again; and at the end of the stream its
  `recv` returns nothing for ever (`eth2serial.py` 126-130).

### Bounds, and why they are enough

* `MaxActive`: 1 is the use the readme describes; with 2 every way in which a
  second conversation cuts into a first one exists, since the server tells
  packets apart only by flags.
* `SeqMod = 16` with initial numbers 1 and 14: one connection of each pair wraps
  around; requests of 2 and pages of 3 keep half the space free, as the real
  2^32 does.
* `InFlight = 4` frames on both directions together: enough for a request, its
  repetition, an acknowledgement and a FIN to be queued at once.
* `EarlySyn`, `EarlyData`: how many timers fire while an answer is under way.
  Timers fire without limit when nothing of the connection is under way.
  `EarlySyn` is 0 in the passing runs because with 1 the properties of
  conversations and the liveness properties are false (finding 1); with 1,
  `PageAfterRequest` is false too: two clients' packets complete
  one handshake, the repeated SYN is taken for the request, and its page is data
  to a client that has not asked.
* `MaxHeld`: 2 in `miniweb_crowd`, more than the answers one conversation has
  under way; 1 in `miniweb_one_at_a_time`, where FIN and final ACK may come in one
  `recv`; 0 in the runs of findings 1, 2 and 5, which do not need it.
* `MaxLoss`: 2 in `miniweb_crowd`; `MaxNoise`: 1 where a run has it. The foreign
  frames are an IPv6 packet and a ping, what a host sends to a new interface by
  itself. Loss is absent from the liveness run: with it the server, which never retransmits, may wait for ever.
* `both_ways`, from the server: `Chunk = 8` is shorter and longer than frames; 4 frames; `ByteBase = 4` has
  three magic bytes and one other.
* `both_ways`, towards the server: `MaxFrames = 3`, `BufSize = 6`, which is the longest packet;
  `MaxLost = 2` bytes, in one frame or two; FIFOs of 2 and 3 bytes, less than a
  frame. A wrong size is at most 15, the frames after the damaged one have more
  bytes than that, and a size beyond the buffer can come only from a loss.
* `raw_server`: half a byte has 8 values, the smallest that holds every flag and
  length used; a conversation's packets with odd payload and options; the first
  two of at most six frames may be damaged, cut or lacking a byte at each of the
  first 40 positions; `BufSize = 64` is where any header length and data offset
  end. That no damaged frame is taken is shown for these packets and cannot hold
  for all, whatever the width of the checksum.
* `checksum`: `ByteBase = 3`; Lengths 2 to 5 give odd and even, sums with and
  without carry.

* `console`: a screen of 2 by 3, so that the source and the destination of
  `memmove` overlap; four directives fill it more than once; `INT_MAX = 7` is
  less than what the longest call prints. MyToyOS1's screen is 3 by 4, and goes
  round; words of 12 bits, numbers at both ends and in the middle of the range.

`CHECK_DEADLOCK FALSE` where clients are finitely many and the server then waits
for ever, or where histories are bounded.

### Fairness

The server is one thread on its own machine and runs for ever: weak fairness of
its next step. Hosts take what reaches them, applications connect, ask and,
having the page, close; delayed acknowledgements and retransmission timers fire
in the end (weak fairness of each, the timers' only when nothing of the
connection is under way). Arrivals, losses, early timers and impatience are never
forced. In the byte-level modules the receiver's step is weakly fair: it polls,
or a thread blocks in `recv`; so is the delivery of a byte the UART has room for. In
`MCConsole` there is one thread that never waits: weak fairness of the next
step. `RawServer` states safety only, hence no fairness.

## 4. Proofs

`WebServer_proofs` proves, for all values of the constants (every number of
hosts, set of arriving frames, modulus and page length less than it):

* `ServerTypeCorrect`: `OpenSpec => []ServerTypeOK`. It rests on `PlusType`
  (addition modulo `SeqMod` stays in range) and `AnswerType` (what
  `buildRawTcpIpPacket` builds is a segment).
* `HandshakeComesFirst`: `OpenSpec => []HandshakeFirst`. `HandshakeFirst` is not
  inductive: it says nothing of the waits before the handshake is complete. The
  inductive invariant `SessionMatchesWait` says how long `session` is at each of
  the five waits.
* `SpeaksInOrder`: `OpenSpec => []AnswersInOrder`. The invariant adds what the last
  answer was at each of the five waits (`ServerStepInOrder`); on a line from which
  segments leave at the head the order of the rest stays (`Sent`).

`Miniweb_proofs` proves, for any number of clients, any loss, any foreign frames
and early timers of data:

* `TypesHold`: `Spec => []TypeOK`. `TypeOK` alone is not inductive: a retransmission
  sends what is unacknowledged, which must fit a segment. `Outstanding` bounds it
  by a request, and a FIN once the client closes; `DistIs` to `DistShrinks` are the
  arithmetic modulo `SeqMod` behind it.
* `PageOnlyAfterRequest`: if `EarlySyn = 0` and `SeqMod >= 4`,
  `Spec => []PageAfterRequest`. The server does send pages to clients that have not
  asked; the argument is that such a page acknowledges a byte the client never
  sent. The inductive invariant `Expected` says what is under way for a client:
  nothing before it connects, one frame in all while its SYN is unanswered
  (`Alone`), then only its bare acknowledgements, all with the same number, and
  answers that acknowledge the number after it (`Idle`). `ThinKeeps` is the step
  shared by everything that is of no concern to a client: queues only lose
  elements of its own. Both hypotheses are used: with an early SYN timeout a run
  with `EarlySyn = 1` shows the property violated (see "Bounds").
* `WholePagesOnly`: if `EarlySyn = 0` and `SeqMod >= 2 * MaxLen + 2`,
  `Spec => []WholePages`. The server numbers a page by the acknowledgement in
  whatever it answers, so the proof follows the numbers: `InTurn` says that each
  frame of a client acknowledges a number of whole pages no larger than what the
  client has, that each page under way begins there, and that what acknowledges
  the request as a whole leaves nothing for the host to repeat once its answer has
  been taken. The hypothesis keeps old and new numbers apart: a request and a page
  of at most `MaxLen` bytes each, against a sequence space that is 2^32 for packets
  of at most 2^16 bytes.

Six more theorems are about clients one after the other (`MaxActive = 1`), who
stay until they have the page, on a line that loses nothing (`MaxLoss = 0`);
foreign frames come, data timers fire at any time and the proxy keeps any number
of frames back. `ConversationsDoNotMix` (`SessionIsOneConversation`),
`RequestsAreRequests` (`RequestIsRequest`), `PageComesOnce` (`PageIntact`),
`NoEndIsLeftOpen` (`LeavesNoneOpen`) and `PhantomAcksAreInFins`
(`PhantomAckOnlyInFin`), and `ServesWhoAsked`, the safety half of `HttpService` under the
refinement mapping of `ImplementsService` (a stream jumps from nothing to the whole
page, after the request, and never again), follow from one inductive invariant, `Inv`, that relates the
three places a conversation is kept in: the server's wait, the client's state and
what is under way. `Stage` says it for each state of a client. While it connects,
either its SYN is under way to a listening server or the answer is under way to it
(`Connecting`). An open client (`Talking`) is the server's peer: in `handshake` the
next of its frames is the bare acknowledgement and all that follow carry data, so
that what `kernel_main` takes for the request is one; after the page only the page,
once, and FINs that nobody reads are under way to it (`PageOrFin`). A closing one
has the page and waits for the acknowledgement of its FIN, which is the last thing
the server sends it (`Leaving`, `FinalAck`). Whoever is not connected has nothing
under way to it and no SYN on the line (`Away`), and a SYN is behind everything that
earlier conversations have left there (`SynLast`): that is why the server, which
listens for any SYN, begins the next conversation with nothing of the last one in
front. The hypotheses are needed: with an early SYN timeout and with impatience
findings 1 and 2 are violations, with `MaxLoss = 1` TLC finds a connection left open
at its client (`LeavesNoneOpen`), and with `MaxActive = 2` conversations that mix.

`Framing_proofs` says where the frames of a stream begin: `Cuts` cuts a stream
into the frames of given packets, and its lemmas say what the next frame is, that
what follows it is cut likewise, and that a frame more may be appended.

* `SerialReceiver_proofs`: for all packets that fit the buffer, all chips and FIFO
  depths, `BufferIsEnough` (`[]OverrunsOnlyAfterLoss`, on any line) and
  `PacketsArriveInOrder` (the safety part of `ReliableChannel`, on a paced one). The
  invariant is that as long as nothing is lost what `readRawPacket` has read of the
  current frame, what is in the UART and what is on the line are together the frames
  of the packets not received. It uses that the magic number is not three zeros,
  which is what the search starts from. `UartIsDetected` (`[]ModelIsTheChip`) holds on
  any line.
* `BackInStep` (`[]Resynchronises`, on any line): `Where` says where the receiver may
  stand in what has been sent after the last loss. It is searching, or in a size or
  a packet that it took from a wrong place, and then has not been there for longer
  than a buffer and a size; or it is where a frame has it. While it searches, the
  beginning of the first frame it meets cannot be missed, because the frames are
  plain and the magic number's first byte is neither zero nor its last
  (`MagicIsDistinct`: 0F AB 10); what is in a wrong packet is at most `BufSize` bytes,
  or the buffer has been overrun (finding 6), of which the property says nothing.
* `SocketToTun_proofs`: `PacketsReachTheHost` (`Spec => ForwardsInOrder`), wherever
  `recv` cuts the stream: what the inner loop holds is a part of a frame at a place
  that matches its state. `StreamIsWhole` (`[]NothingLost`) concludes from the same
  invariant that what is held, collected and in the socket is, end to end, the
  frames not forwarded; `Tiles` relates the cuts of a stream to the concatenation.

`Checksum_proofs` proves for words of every width, segments of every length and any
headers that what a host builds passes `validateTcpPacket` (`HostSegmentAccepted`),
that with one byte damaged it does not (`DamagedSegmentDropped`), and that a host
accepts what the server builds exactly if the sum, folded once, leaves no carry
(`AnswerAcceptedBarCarry`). The code adds up in 32 bits and folds once at the end,
RFC 1071 carries around at each word: both are the sum modulo `Base - 1`, up to the
two representations of zero. The loop's sum is a recursive function, about which
the library's induction theorems cannot be used here; the lemmas take the first
index at which a claim fails, whose predecessor refutes it. `ValidationExact`: of all
blocks of fewer than `Base` words, header included (frames are shorter), the server
accepts exactly those that RFC 1071 accepts, although it folds once. `BuiltBarCarry`
is the arithmetic of a single fold when a checksum is built.

`RawServer_proofs` proves for half bytes of any width from 8 values, buffers,
packets and options of every size the code's fields can hold:

* `RawServerInvariant` (`[]RawInv`): what has been taken is what the bytes in
  `inRawBuf` read as, an answer on its way is what `buildRawTcpIpPacket` makes of it,
  and each frame of a known host packet is judged as those bytes are.
* `WholePacketsDropped` and, from it, `PlainPacketsTaken` (`[]TakesEveryPlainPacket`): `WholeFrame` and `HostFrameShape` walk
  through a host's frame field by field; the test of `parseRawIpPacket` over 20
  bytes then leaves the sum of the options over (`HostIpValid`). The sums are those of
  `Checksum_proofs`, of which `RawServer_proofs` has an instance (`Ck`).
* `AnswersAreHosts` (`[]AnswersAsAHostWould`): an answer, whose checksums are computed
  from the frame with zeros in their places, agrees with a host's frame in every
  other byte (`AnswerSame`), and in the checksums too unless a sum leaves a carry
  (`ServerChecksum`, `OnesBarCarry`).
* `MeantTaken` (`[]TakesOnlyWhatWasMeant`): a frame cut short is not accepted, since the
  length in its header is not its size (`CutFrame`); whatever else the buffer holds
  behind a frame is of no matter (`OwnBytes`). With `AnswerReads` and `FlagsAsSet`, what
  is read from an answer and the flags as a set, it is the invariant (`MeantInv`) behind
  the next one.
* `RawServerImplements` (`Spec => ImplementsWebServer`): each handler on bytes is the
  handler of `WebServer` on the judged frame (`HandshakeStep`, `RequestStep`,
  `CloseStep`), a frame read is one that arrives, an answer sent is one transmitted.
* `HandshakeFirstOnBytes` carries over what `WebServer_proofs` guarantees: with the refinement mapping its `OpenSpec` is the server on bytes
  (`SameServer`), and `ConstantsFit` discharges its assumptions.

`MeantTaken` and what rests on it have two hypotheses. `DamageShows`: the checksums
show the damage of the frames that lack a byte. They cannot of every frame there
is, so it is a hypothesis on the hosts' packets, about each frame by itself; for the
packets of `raw_server` the run shows it, since each of those frames is the first
to be read in some behaviour. `Cuts \subseteq 4 .. 39`: a damaged frame brings its own
length. Of one cut before its fourth byte the length is an earlier frame's, and it
takes the checksum over both to drop it: that is only model-checked.

`Console_proofs` proves for screens and texts of every size that the cursor is
on the screen whenever a character is put (`TerminalTypeCorrect`) and that the
screen shows the end of what was printed (`ScreenCorrect`). The inductive
invariant `TerminalInv` says where the cursor is on the paper and what is on the
screen in the middle of `memmove`: the cells copied so far are one line ahead of
the others, so that the cell read next has not been written yet. That is the
argument for copying upwards.

It also proves what `_printf` prints (`PrintsTheFormat`, which is
`Spec => []PrintsWhatTheFormatSays`), for formats of every length, all arguments and
every `INT_MAX`. `PrintsWhatTheFormatSays` speaks of calls that have returned; the
inductive invariant `PrintInv` says of one under way that it stands at a directive:
what is left of the format and of the arguments is what comes from that directive on
(`Stands`), and what has been printed, what the terminal is about to be given and
what the directives from there on say are together what is expected (`Under`). That
a round ends at a directive again is where the code looks ahead: text goes on to the
next percent sign, over any number of texts (`TextRun`), and a doubled one counts as
text from its second half (`TextRound`); what a conversion is can be told from the
first two characters (`Kinds`). `FlatJoined` to `FromEnd` are the lemmas on
`FlattenSeq` this rests on. `PrintsOnTheTerminal` (`Spec => TerminalSpec`) shows that
`_printf` gives the terminal nothing but characters, one after the other, so that
what is proved of the terminal holds for whatever `_printf` is called with
(`PrintedIsOnTheScreen`).

The last part of `Console_proofs` is MyToyOS1, for words of every width, every
well-made information and screens of every size (`BootAssumption`):

* `AllIsReported` (`[]ReportWhole`), for maps that end within the address space
  (`WellMade`), where no sum wraps (`NoWrap`): `ReportInv` follows `cmain`. What has been printed
  ends in the lines of the first `i` modules, or of the first `n` regions, and `mmap`
  is where region `n + 1` begins (`ModulesInv`, `RegionsInv`); `MapWalk` is the
  argument that the code's step, the size and four, leads from one to the next, and
  that the comparison with the end stops the loop behind the last.
* `NumbersAreReadBack` (`[]NumbersReadBack`): `DigitsReadBack` is about `itoa`'s digits,
  for every number and every base up to 16: Horner's rule over them gives the number,
  and the first is no zero. `Digits` recurs to the quotient; `DigitsOf` derives its
  equation, the functions on `0 .. m` being built up one after the other
  (`WrittenExists`, `WrittenAgree`). `LongAgain` is the way of a word through an `int`.
* `LastRoundIsShown` (`[]ShowsTheLastRound`): `ShownInv` splits the text into what has
  been put and what is pending. The cursor is at the place of the next character
  (`NextPlace`: the code counts columns and rows one by one, `Place` counts them from
  the text), and each cell shows the last character put there (`CharPut`).

Assumptions are the named ASSUMEs on constants: a payload is shorter than the
sequence space, arriving frames are frames, frames are shorter than a word has
values, packets fit two bytes of size and the buffer, the magic number is not
zero, a format is made of directives and has an argument for each conversion (what
the C standard asks of a caller of `printf`), a boot loader's information is
well made; and the hypotheses of a theorem, where
it has some; of the bytes of a frame, that a packet fits the buffer and its length a
word, and that the buffer holds what the longest header reaches.

Only model-checked: all liveness, and with it the fair halves of `ImplementsService`
and `ReliableChannel`, `LoneFrameForwarded` and `PrintingEnds` (liveness is out of
these provers' reach); and `raw_server`'s frames that are cut, or lack a byte,
before their fourth byte.

## 5. Not modelled, and the plan

The repository is 353 files, most of whose lines are the headers of a vendored
cross compiler (`src/cross-compiler/lib/gcc/.../plugin/include`, some 75 thousand
lines of gcc's own data structures, with binaries): they are not this system's
code, nothing of MyToyOS calls them, and they are left out. Of the two kernels,
the proxy and the driver, what changes state is modelled, except:

* boot code, linker scripts, `grub.cfg`: they set up a stack and call `kernel_main`
  or `cmain` once (`boot.S`'s halt after `cmain` is modelled);
* shell scripts: build and start commands;
* colours, `terminal_setcolor`, `terminal_writehex` (nobody calls them), the wording
  of messages;
* ARP and IP fragments: there are none in the code; the virtual machine's own
  buffering beyond what the UART sees.

What is left: `SocketToTun` as an implementation of `Miniweb`'s `held`, that is, whole frames
kept back by the proxy related to the bytes in its chunk.
