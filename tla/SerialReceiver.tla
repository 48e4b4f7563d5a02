--------------------------- MODULE SerialReceiver ---------------------------
(***************************************************************************)
(* From the host to the server: tun2socket writes frames into the socket,  *)
(* the virtual machine hands them to the UART byte by byte, readRawPacket  *)
(* polls the UART.  The server does not read while it starts up, nor while *)
(* it answers a packet.  A line is paced if it stops while the UART is     *)
(* full and nobody uses it before the server listens; any other loses      *)
(* bytes then.                                                             *)
(***************************************************************************)
EXTENDS Framing, Uart

CONSTANTS
  BufSize,   (* sizeof(inRawBuf), 2048                                     *)
  MaxLost    (* bound: bytes lost                                          *)

(* The magic number is not what readRawPacket starts its search from.      *)
ASSUME ReceiverAssumption ==
  /\ BufSize \in Nat /\ MaxLost \in Nat
  /\ MAGIC_NUMBER # <<0, 0, 0>>
  /\ \A p \in Packets : Len(p) <= BufSize

VARIABLES
  paced,         (* kind of line                                           *)
  reading,       (* what readRawPacket is reading                          *)
  prolog_magic,  (* the last three bytes                                   *)
  size,
  inRawBuf,      (* the part of the buffer written since the prolog        *)
  lost,          (* history: bytes lost so far, ...                        *)
  lostAt,        (* ... frames sent when the last one was, ...             *)
  passed         (* ... and bytes of the frames sent after them            *)

receiver == <<reading, prolog_magic, size, inRawBuf>>
losses == <<lost, lostAt, passed>>
line == <<paced, losses>>
vars == <<sent, bytes, received, receiver, line, uartVars>>

Reading == {"startup", "magic", "sizeHigh", "sizeLow", "packet", "answering", "overrun"}

Init ==
  /\ FramingInit /\ UartInit
  /\ paced \in BOOLEAN
  /\ reading = "startup" /\ prolog_magic = <<0, 0, 0>>
  /\ size = 0 /\ inRawBuf = <<>>
  /\ lost = 0 /\ lostAt = 0 /\ passed = 0

-----------------------------------------------------------------------------
Tun2Socket ==
  /\ paced => reading # "startup"
  /\ SendFrame
  /\ passed' = passed + Len(bytes') - Len(bytes)
  /\ UNCHANGED <<received, receiver, paced, lost, lostAt, uartVars>>

(* The next byte gets to the UART.                                         *)
ToUart ==
  /\ bytes # <<>>
  /\ bytes' = Tail(bytes)
  /\ Receive(Head(bytes))
  /\ UNCHANGED <<sent, received, receiver, paced>>

Deliver == HasRoom /\ ToUart /\ UNCHANGED losses

Lose(n) == lost' = lost + n /\ lostAt' = Len(sent) /\ passed' = 0

OverrunUart ==
  /\ ~paced /\ ~HasRoom /\ lost < MaxLost
  /\ ToUart
  /\ Lose(1)

(* kernel_main: the UART is found out about, then the server listens.      *)
StartUp ==
  /\ reading = "startup"
  /\ detect_uart_model /\ is_serial_connected
  /\ reading' = "magic"
  /\ IF rbr' # rbr THEN Lose(Len(rbr)) ELSE UNCHANGED losses
  /\ UNCHANGED <<sent, bytes, received, prolog_magic, size, inRawBuf, paced>>

-----------------------------------------------------------------------------
(* read_serial returns Byte1.                                              *)
Byte1 == Head(rbr)
read_serial(what) ==
  /\ reading = what
  /\ ReadData
  /\ UNCHANGED <<sent, bytes, line>>

ShiftRestarting ==
  LET matched == Len(SelectSeq(prolog_magic, LAMBDA b : b # 0))
  IN  IF Byte1 = MAGIC_NUMBER[matched + 1]
        THEN Append(Tail(prolog_magic), Byte1)
        ELSE <<0, 0, 0>>
Shift == Append(Tail(prolog_magic), Byte1)

(* "search for magic number"                                               *)
SearchMagic ==
  /\ read_serial("magic")
  /\ prolog_magic' = Shift
  /\ reading' = IF prolog_magic' = MAGIC_NUMBER THEN "sizeHigh" ELSE "magic"
  /\ UNCHANGED <<size, inRawBuf, received>>

(* "read packet size (big endian order)": the operands of | are evaluated  *)
(* from left to right, as the compiler happens to do.                      *)
ReadSizeHigh ==
  /\ read_serial("sizeHigh")
  /\ size' = Byte1
  /\ reading' = "sizeLow"
  /\ UNCHANGED <<prolog_magic, inRawBuf, received>>

(* readRawPacket returns the packet, which the server answers or drops     *)
(* before it calls readRawPacket again.                                    *)
Return(packet) ==
  /\ received' = Append(received, packet)
  /\ reading' = "answering"
  /\ prolog_magic' = <<0, 0, 0>>
  /\ inRawBuf' = <<>>

(* The loop over the packet starts; a size of 0 ends it at once.           *)
ReadSizeSwapped ==
  /\ read_serial("sizeLow")
  /\ size' = B2u(Byte1, size)
  /\ \/ size' = 0 /\ Return(<<>>)
     \/ /\ size' > 0
        /\ reading' = "packet"
        /\ UNCHANGED <<prolog_magic, inRawBuf, received>>
ReadSizeLow ==
  /\ read_serial("sizeLow")
  /\ size' = B2u(size, Byte1)
  /\ \/ size' = 0 /\ Return(<<>>)
     \/ /\ size' > 0
        /\ reading' = "packet"
        /\ UNCHANGED <<prolog_magic, inRawBuf, received>>

ReadByte ==
  /\ read_serial("packet")
  /\ Len(inRawBuf) < BufSize
  /\ LET packet == Append(inRawBuf, Byte1)
     IN  \/ Len(packet) = size /\ Return(packet)
         \/ /\ Len(packet) < size
            /\ inRawBuf' = packet
            /\ UNCHANGED <<reading, prolog_magic, received>>
  /\ UNCHANGED size

(* A size beyond the buffer: what follows it in memory is overwritten, and *)
(* nothing is known of the program any more.                               *)
Overrun ==
  /\ read_serial("packet")
  /\ Len(inRawBuf) = BufSize
  /\ reading' = "overrun"
  /\ UNCHANGED <<prolog_magic, size, inRawBuf, received>>

readRawPacket ==
  \/ SearchMagic \/ ReadSizeHigh \/ ReadSizeLow \/ ReadByte \/ Overrun

(* sendRawPacket has polled the transmitter until it has taken the last    *)
(* byte of the answer, or there was nothing to answer.                     *)
Answered ==
  /\ reading = "answering"
  /\ reading' = "magic"
  /\ UNCHANGED <<sent, bytes, received, prolog_magic, size, inRawBuf, line, uartVars>>

Server == StartUp \/ readRawPacket \/ Answered

Next == Tun2Socket \/ Deliver \/ OverrunUart \/ Server

Spec == Init /\ [][Next]_vars /\ WF_vars(Server) /\ WF_vars(Deliver)

-----------------------------------------------------------------------------
(* readRawPacket does not compare the size it reads with the buffer's.  It *)
(* writes beyond the buffer only if the UART has lost a byte and a size    *)
(* that no packet has is read: never as long as the line loses nothing,    *)
(* even when packets contain what looks like a prolog.                     *)
OverrunsOnlyAfterLoss == reading = "overrun" => lost > 0 /\ size > BufSize

(* tcpip.c line 209, "Size must be greater than MTU defined by TUN device" *)
(* is all that is asked of the buffer: it is then large enough.            *)
BufferIsLargeEnough == reading # "overrun"

(* A paced line is a reliable FIFO channel, whatever UART it ends at.      *)
PacedChannel ==
  INSTANCE FrameChannel WITH sent <- IF paced THEN sent ELSE <<>>,
                             received <- IF paced THEN received ELSE <<>>
ReliableChannel == PacedChannel!Reliable

(* Bytes the UART loses, while the server starts up or answers, make       *)
(* readRawPacket take a wrong size or miss a magic number, and swallow     *)
(* frames that follow.  If the wrong size is beyond the buffer, the buffer *)
(* is overrun, and there is nothing to be said of the program from then    *)
(* on (BufferIsLargeEnough).  If not, the search for the magic number      *)
(* brings it back: frames that hold a magic number only where they begin   *)
(* are received again, at the latest, once as many bytes as the buffer     *)
(* has, and a size, have been sent after the loss.                         *)
Plain(f) == \A i \in 2 .. Len(f) - 2 : SubSeq(f, i, i + 2) # MAGIC_NUMBER

Resynchronises ==
  /\ bytes = <<>> /\ rbr = <<>> /\ reading # "startup"
  /\ \A i \in lostAt + 1 .. Len(sent) : Plain(FrameOf(sent[i]))
  /\ passed > 0 /\ passed - Len(FrameOf(sent[Len(sent)])) >= BufSize + 2
  => \/ reading = "overrun"
     \/ /\ reading \in {"magic", "answering"}
        /\ received # <<>> /\ received[Len(received)] = sent[Len(sent)]
=============================================================================
