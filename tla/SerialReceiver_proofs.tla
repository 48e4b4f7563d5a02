------------------------- MODULE SerialReceiver_proofs -------------------------
(***************************************************************************)
(* As long as no byte is lost, as on a paced line, readRawPacket never     *)
(* writes beyond its buffer and is a FIFO channel with tun2socket,         *)
(* whatever the packets, the buffer and the UART; and the UART is taken    *)
(* for what it is.  After a loss it is back in step with tun2socket some   *)
(* time later, unless the buffer has been overrun.                         *)
(***************************************************************************)
EXTENDS SerialReceiver, Framing_proofs

LEMMA Shifted ==
  ASSUME NEW a \in Nat, NEW b \in Nat, NEW c \in Nat, NEW d \in Nat
  PROVE  Append(Tail(<<a, b, c>>), d) = <<b, c, d>>
<1> DEFINE w == <<b, c>>  t == <<b, c, d>>
<1>1. Tail(<<a, b, c>>) = w
  BY SMT
<1>2. w \in Seq(Nat)
  OBVIOUS
<1>3. /\ Len(w) = 2 /\ t \in Seq(Nat) /\ Len(t) = 3
      /\ t[1] = w[1] /\ t[2] = w[2] /\ t[3] = d
  OBVIOUS
<1> HIDE DEF w, t
<1>4. PICK v : v = Append(w, d)
  OBVIOUS
<1>5. v \in Seq(Nat) /\ Len(v) = Len(w) + 1
  BY <1>2, <1>4, Appended
<1>6. v[Len(w) + 1] = d
  BY <1>2, <1>4, Appended
<1>7. \A i \in 1 .. Len(w) : v[i] = w[i]
  BY <1>2, <1>4, Appended
<1>8. \A i \in 1 .. Len(v) : v[i] = t[i]
  BY <1>3, <1>5, <1>6, <1>7
<1>9. /\ v \in Seq(Nat) /\ t \in Seq(Nat) /\ Len(v) = Len(t)
      /\ \A i \in 1 .. Len(v) : v[i] = t[i]
  BY <1>3, <1>5, <1>8
<1>10. v = t
  BY <1>9, SeqEqual
<1> QED
  BY <1>1, <1>4, <1>10 DEF t

LEMMA MagicBytes ==
  /\ MAGIC_NUMBER[1] \in Nat /\ MAGIC_NUMBER[2] \in Nat /\ MAGIC_NUMBER[3] \in Nat
  /\ MAGIC_NUMBER = <<MAGIC_NUMBER[1], MAGIC_NUMBER[2], MAGIC_NUMBER[3]>>
  /\ <<0, 0, 0>> # MAGIC_NUMBER
  /\ <<0, 0, MAGIC_NUMBER[1]>> # MAGIC_NUMBER
  /\ <<0, MAGIC_NUMBER[1], MAGIC_NUMBER[2]>> # MAGIC_NUMBER
<1>1. MAGIC_NUMBER \in Seq(Nat) /\ Len(MAGIC_NUMBER) = 3
  BY ByteBasePositive DEF Bytes
<1> DEFINE m == <<MAGIC_NUMBER[1], MAGIC_NUMBER[2], MAGIC_NUMBER[3]>>
<1>2. MAGIC_NUMBER[1] \in Nat /\ MAGIC_NUMBER[2] \in Nat /\ MAGIC_NUMBER[3] \in Nat
  BY <1>1, ElementOfSeq
<1>3. m = MAGIC_NUMBER
  <2>1. m \in Seq(Nat) /\ Len(m) = 3 /\ \A i \in 1 .. 3 : m[i] = MAGIC_NUMBER[i]
    BY <1>2
  <2> HIDE DEF m
  <2> QED
    BY <1>1, <2>1, SeqEqual
<1>4. MAGIC_NUMBER # <<0, 0, 0>>
  BY ReceiverAssumption
<1>5. <<0, 0, MAGIC_NUMBER[1]>> # m /\ <<0, MAGIC_NUMBER[1], MAGIC_NUMBER[2]>> # m
  BY <1>2, <1>3, <1>4
<1> QED
  BY <1>2, <1>3, <1>4, <1>5

-----------------------------------------------------------------------------
(* The UART.                                                               *)
UartInv == chip \in Chips /\ ModelIsTheChip

LEMMA Detected ==
  ASSUME chip \in Chips, detect_uart_model, is_serial_connected
  PROVE  UartInv'
<1>1. IdentificationBits = IF chip = "16750" THEN {5, 6, 7}
                           ELSE IF chip = "16550A" THEN {6, 7}
                           ELSE IF chip = "16550" THEN {7} ELSE {}
  BY DEF IdentificationBits, Chips
<1>2. ModelByBits(IdentificationBits) = IF chip = "16550" THEN "16450" ELSE chip
  BY <1>1 DEF ModelByBits, KeepsScratch, Chips
<1>3. /\ fifoEnabled' = (chip \in WithFifo) /\ chip' = chip
      /\ uart_model' = ModelByBits(IdentificationBits)
  BY DEF detect_uart_model
<1>4. chip \in WithFifo <=> uart_model' \in WithFifo
  BY <1>2, <1>3 DEF WithFifo, Chips
<1>5. fifoEnabled' <=> uart_model' \in WithFifo
  BY <1>3, <1>4
<1>6. connected' <=> uart_model' # "8250"
  BY <1>2, <1>3 DEF is_serial_connected, KeepsScratch, Chips
<1> QED
  BY <1>2, <1>3, <1>5, <1>6 DEF UartInv, ModelIsTheChip

-----------------------------------------------------------------------------
(* How far readRawPacket is in the next packet: first is where its frame   *)
(* begins in the bytes not read, before 1 if some of it has been read.     *)
Rest == rbr \o bytes
k == Len(received) + 1

Between(first) ==
  /\ reading \in {"startup", "magic", "answering"}
  /\ first = 1 /\ prolog_magic = <<0, 0, 0>> /\ inRawBuf = <<>>

InMagic(first) ==
  /\ reading = "magic" /\ inRawBuf = <<>>
  /\ \/ first = 0 /\ prolog_magic = <<0, 0, MAGIC_NUMBER[1]>>
     \/ first = -1 /\ prolog_magic = <<0, MAGIC_NUMBER[1], MAGIC_NUMBER[2]>>

InSize(first) ==
  /\ inRawBuf = <<>>
  /\ \/ reading = "sizeHigh" /\ first = -2
     \/ /\ reading = "sizeLow" /\ first = -3
        /\ k <= Len(sent) /\ size = u2B(Len(sent[k]))[1]

InPacket(first) ==
  /\ reading = "packet" /\ inRawBuf \in Bytes
  /\ k <= Len(sent) /\ size = Len(sent[k])
  /\ Len(inRawBuf) < size /\ first = -4 - Len(inRawBuf)
  /\ \A j \in 1 .. Len(inRawBuf) : inRawBuf[j] = sent[k][j]

Place(first) == Between(first) \/ InMagic(first) \/ InSize(first) \/ InPacket(first)

(* The inductive invariant.                                                *)
ChannelInv ==
  /\ sent \in Seq(Packets) /\ received \in Seq(Packets)
  /\ bytes \in Bytes /\ rbr \in Bytes
  /\ Len(received) <= Len(sent)
  /\ \E cut : Cuts(sent, Rest, cut) /\ Place(cut[k])

(* On a paced line there is nothing to lose while the server starts.       *)
PacedInv ==
  paced => lost = 0 /\ (reading = "startup" => bytes = <<>> /\ rbr = <<>>)

(* A size that is exceeded is larger than the buffer.                      *)
BufferInv ==
  /\ bytes \in Bytes /\ rbr \in Bytes /\ inRawBuf \in Bytes /\ size \in Nat
  /\ reading \notin {"packet", "overrun"} => inRawBuf = <<>>
  /\ reading = "packet" => Len(inRawBuf) < size
  /\ reading = "overrun" => BufSize < size

ReceiverInv ==
  UartInv /\ PacedInv /\ BufferInv /\ lost \in Nat /\ (lost = 0 => ChannelInv)

-----------------------------------------------------------------------------
LEMMA InitInv == Init => ReceiverInv
<1> SUFFICES ASSUME Init PROVE ReceiverInv
  OBVIOUS
<1>1. UartInv
  BY DEF Init, UartInit, UartInv, ModelIsTheChip
<1>2. sent = <<>> /\ received = <<>> /\ bytes = <<>> /\ rbr = <<>>
  BY DEF Init, UartInit, FramingInit
<1>3. Rest = <<>>
  BY <1>2 DEF Rest
<1> DEFINE cut == [i \in 1 .. 1 |-> 1]
<1>4. Cuts(sent, Rest, cut)
  BY <1>2, <1>3, CutsNothing
<1>5. k = 1 /\ cut[1] = 1
  BY <1>2 DEF k
<1>6. Place(cut[k])
  BY <1>2, <1>5 DEF Init, Place, Between
<1> HIDE DEF cut
<1>7. ChannelInv
  <2>1. sent \in Seq(Packets) /\ received \in Seq(Packets) /\ bytes \in Bytes /\ rbr \in Bytes
    BY <1>2 DEF Bytes
  <2>2. Len(received) <= Len(sent)
    BY <1>2
  <2> QED
    BY <1>4, <1>6, <2>1, <2>2 DEF ChannelInv
<1>8. PacedInv /\ BufferInv /\ lost \in Nat
  BY <1>2 DEF Init, PacedInv, BufferInv, Bytes
<1> QED
  BY <1>1, <1>7, <1>8 DEF ReceiverInv

(* A packet is sent.                                                       *)
LEMMA SendInv ==
  ASSUME ChannelInv, Tun2Socket
  PROVE  ChannelInv'
<1>1. PICK p \in Packets : sent' = Append(sent, p) /\ bytes' = bytes \o FrameOf(p)
  BY DEF Tun2Socket, SendFrame
<1>3. UNCHANGED <<received, rbr, reading, prolog_magic, size, inRawBuf>>
  BY DEF Tun2Socket, receiver, uartVars
<1>4. PICK cut : Cuts(sent, Rest, cut) /\ Place(cut[k])
  BY DEF ChannelInv
<1>5. /\ sent \in Seq(Packets) /\ received \in Seq(Packets) /\ Len(received) <= Len(sent)
      /\ bytes \in Bytes /\ rbr \in Bytes /\ FrameOf(p) \in Bytes
      /\ Len(received) \in Nat /\ Len(sent) \in Nat
  BY FrameBytes, LenProperties DEF ChannelInv
<1>6. /\ sent' \in Seq(Packets) /\ Len(sent') = Len(sent) + 1
      /\ \A i \in 1 .. Len(sent) : sent'[i] = sent[i]
  BY <1>1, <1>5, Appended
<1>7. bytes' \in Bytes /\ Rest \in Bytes
  BY <1>1, <1>5, Joined DEF Rest
<1>8. Rest' = Rest \o FrameOf(p)
  <2>1. Rest' = rbr \o (bytes \o FrameOf(p))
    BY <1>1, <1>3 DEF Rest
  <2>2. (rbr \o bytes) \o FrameOf(p) = rbr \o (bytes \o FrameOf(p))
    BY <1>5, Regrouped
  <2> QED
    BY <2>1, <2>2 DEF Rest
<1>9. PICK longer : /\ Cuts(Append(sent, p), Rest \o FrameOf(p), longer)
                    /\ \A i \in 1 .. Len(sent) + 1 : longer[i] = cut[i]
  BY <1>4, <1>5, <1>7, CutsSend
<1>10. k' = k /\ k \in 1 .. Len(sent) + 1
  BY <1>3, <1>5 DEF k
<1>11. longer[k'] = cut[k]
  BY <1>9, <1>10
<1>12. k <= Len(sent) => k' <= Len(sent') /\ sent'[k'] = sent[k]
  BY <1>5, <1>6, <1>10
<1>13. ASSUME NEW first, Place(first) PROVE Place(first)'
  BY <1>3, <1>10, <1>12, <1>13 DEF Place, Between, InMagic, InSize, InPacket
<1> QED
  BY <1>1, <1>3, <1>4, <1>5, <1>6, <1>7, <1>8, <1>9, <1>10, <1>11, <1>13 DEF ChannelInv

(* A byte moves from the socket to the UART.                               *)
LEMMA Moved ==
  ASSUME NEW a \in Bytes, NEW b \in Bytes, b # <<>>
  PROVE  /\ Append(a, Head(b)) \in Bytes /\ Tail(b) \in Bytes
         /\ Append(a, Head(b)) \o Tail(b) = a \o b
<1> DEFINE c == Append(a, Head(b))  d == Tail(b)
<1>1. /\ Head(b) \in Nat /\ Head(b) = b[1] /\ Len(b) \in Nat /\ Len(b) > 0 /\ Len(a) \in Nat
      /\ d \in Bytes /\ Len(d) = Len(b) - 1
      /\ \A i \in 1 .. Len(d) : d[i] = b[i + 1]
  BY HeadTailProperties, LenProperties, EmptySeq DEF Bytes
<1>2. /\ c \in Bytes /\ Len(c) = Len(a) + 1 /\ c[Len(a) + 1] = b[1]
      /\ \A i \in 1 .. Len(a) : c[i] = a[i]
  BY <1>1, Appended DEF Bytes
<1> HIDE DEF c, d
<1> DEFINE x == c \o d  y == a \o b
<1>3. /\ x \in Bytes /\ Len(x) = Len(c) + Len(d)
      /\ \A i \in 1 .. Len(c) + Len(d) : x[i] = IF i <= Len(c) THEN c[i] ELSE d[i - Len(c)]
  BY <1>1, <1>2, Joined
<1>4. /\ y \in Bytes /\ Len(y) = Len(a) + Len(b)
      /\ \A i \in 1 .. Len(a) + Len(b) : y[i] = IF i <= Len(a) THEN a[i] ELSE b[i - Len(a)]
  BY Joined
<1> HIDE DEF x, y
<1>5. Len(x) = Len(y)
  BY <1>1, <1>2, <1>3, <1>4
<1>6. ASSUME NEW i \in 1 .. Len(x) PROVE x[i] = y[i]
  <2>1. CASE i \in 1 .. Len(a)
    BY <1>1, <1>2, <1>3, <1>4, <1>5, <2>1
  <2>2. CASE i = Len(a) + 1
    BY <1>1, <1>2, <1>3, <1>4, <1>5, <2>2
  <2>3. CASE i > Len(a) + 1
    <3>1. x[i] = d[i - (Len(a) + 1)] /\ y[i] = b[i - Len(a)]
      BY <1>1, <1>2, <1>3, <1>4, <1>5, <2>3
    <3>2. i - (Len(a) + 1) \in 1 .. Len(d)
      BY <1>1, <1>2, <1>3, <2>3
    <3>3. (i - (Len(a) + 1)) + 1 = i - Len(a)
      BY <1>1
    <3> QED
      BY <1>1, <3>1, <3>2, <3>3
  <2> QED
    BY <1>1, <1>2, <1>3, <2>1, <2>2, <2>3
<1>7. x = y
  BY <1>3, <1>4, <1>5, <1>6, SeqEqual DEF Bytes
<1> QED
  BY <1>1, <1>2, <1>7 DEF c, d, x, y

(* What was unread stays unread, and readRawPacket stays where it is.      *)
LEMMA NothingRead ==
  ASSUME ChannelInv, Rest' = Rest, rbr' \in Bytes, bytes' \in Bytes,
         UNCHANGED <<sent, received>>,
         \A first : Place(first) => Place(first)'
  PROVE  ChannelInv'
<1>1. PICK cut : Cuts(sent, Rest, cut) /\ Place(cut[k])
  BY DEF ChannelInv
<1>2. k' = k
  BY DEF k
<1> QED
  BY <1>1, <1>2 DEF ChannelInv

LEMMA DeliverInv ==
  ASSUME ChannelInv, Deliver
  PROVE  ChannelInv'
<1>1. /\ bytes # <<>> /\ bytes' = Tail(bytes) /\ rbr' = Append(rbr, Head(bytes))
      /\ UNCHANGED <<sent, received, receiver>>
  BY DEF Deliver, ToUart, Receive
<1>2. rbr' \in Bytes /\ bytes' \in Bytes /\ Rest' = Rest
  BY <1>1, Moved DEF ChannelInv, Rest
<1>3. \A first : Place(first) => Place(first)'
  BY <1>1 DEF Place, Between, InMagic, InSize, InPacket, receiver, k
<1> QED
  BY <1>1, <1>2, <1>3, NothingRead

(* The server starts and nothing is flushed.                               *)
LEMMA StartUpKeeps ==
  ASSUME StartUp, rbr \in Bytes, lost \in Nat
  PROVE  /\ rbr' \in Bytes /\ lost' \in Nat /\ lost' >= lost
         /\ lost' = lost => rbr' = rbr
         /\ rbr = <<>> => lost' = lost
<1>1. rbr' = <<>> \/ rbr' = rbr
  BY DEF StartUp, detect_uart_model
<1>2. <<>> \in Bytes /\ Len(rbr) \in Nat /\ (Len(rbr) = 0 => rbr = <<>>)
  BY LenProperties, EmptySeq DEF Bytes
<1>3. rbr' = rbr => lost' = lost
  BY DEF StartUp, losses
<1>4. rbr' # rbr => lost' = lost + Len(rbr)
  BY DEF StartUp, Lose
<1> QED
  BY <1>1, <1>2, <1>3, <1>4

LEMMA StartUpInv ==
  ASSUME ChannelInv, StartUp, rbr' = rbr
  PROVE  ChannelInv'
<1>1. /\ reading = "startup" /\ reading' = "magic"
      /\ UNCHANGED <<sent, bytes, received, prolog_magic, size, inRawBuf>>
  BY DEF StartUp
<1>2. Rest' = Rest /\ rbr' \in Bytes /\ bytes' \in Bytes
  BY <1>1 DEF Rest, ChannelInv
<1>3. \A first : Place(first) => Place(first)'
  BY <1>1 DEF Place, Between, InMagic, InSize, InPacket
<1> QED
  BY <1>1, <1>2, <1>3, NothingRead

LEMMA AnsweredInv ==
  ASSUME ChannelInv, Answered
  PROVE  ChannelInv'
<1>1. /\ reading = "answering" /\ reading' = "magic"
      /\ UNCHANGED <<sent, bytes, received, rbr, prolog_magic, size, inRawBuf>>
  BY DEF Answered, uartVars
<1>2. \A first : Place(first) => Place(first)'
  BY <1>1 DEF Place, Between, InMagic, InSize, InPacket
<1>3. Rest' = Rest /\ rbr' \in Bytes /\ bytes' \in Bytes
  BY <1>1 DEF Rest, ChannelInv
<1> QED
  BY <1>1, <1>2, <1>3, NothingRead

-----------------------------------------------------------------------------
(* read_serial returns the next byte of the frame under way.               *)
ReadFrom(first) ==
  /\ k \in 1 .. Len(sent) /\ sent[k] \in Packets
  /\ first \in Int /\ first <= 1 /\ Place(first)
  /\ 1 - first < Len(sent[k]) + 5 => Byte1 = FrameOf(sent[k])[2 - first]
  /\ sent' = sent /\ rbr' \in Bytes /\ bytes' \in Bytes
  /\ \E moved : /\ Cuts(sent, Rest', moved)
               /\ moved[k] = first - 1
               /\ moved[k + 1] = first + Len(sent[k]) + 4

LEMMA ByteRead ==
  ASSUME ChannelInv, NEW what, read_serial(what)
  PROVE  \E first : ReadFrom(first)
<1>1. /\ rbr # <<>> /\ rbr' = Tail(rbr) /\ bytes' = bytes /\ sent' = sent
  BY DEF read_serial, ReadData, DataReady
<1>2. PICK cut : Cuts(sent, Rest, cut) /\ Place(cut[k])
  BY DEF ChannelInv
<1> DEFINE first == cut[k]
<1>3. /\ sent \in Seq(Packets) /\ received \in Seq(Packets) /\ Len(received) <= Len(sent)
      /\ bytes \in Bytes /\ rbr \in Bytes
  BY DEF ChannelInv
<1>4. /\ rbr' \in Bytes /\ Len(rbr') = Len(rbr) - 1 /\ Len(rbr) \in Nat /\ Len(rbr) >= 1
      /\ \A j \in 1 .. Len(rbr') : rbr'[j] = rbr[j + 1]
      /\ Byte1 = rbr[1]
  BY <1>1, <1>3, HeadTailProperties, LenProperties, EmptySeq DEF Bytes, Byte1
<1>5. /\ Rest \in Bytes /\ Len(Rest) = Len(rbr) + Len(bytes) /\ Len(bytes) \in Nat
      /\ \A j \in 1 .. Len(rbr) + Len(bytes) :
           Rest[j] = IF j <= Len(rbr) THEN rbr[j] ELSE bytes[j - Len(rbr)]
  BY <1>3, Joined DEF Rest
<1>6. /\ Rest' \in Bytes /\ Len(Rest') = Len(rbr') + Len(bytes)
      /\ \A j \in 1 .. Len(rbr') + Len(bytes) :
           Rest'[j] = IF j <= Len(rbr') THEN rbr'[j] ELSE bytes[j - Len(rbr')]
  <2>1. Rest' = rbr' \o bytes
    BY <1>1 DEF Rest
  <2> QED
    BY <1>3, <1>4, <2>1, Joined
<1>7. Len(Rest') = Len(Rest) - 1 /\ 1 \in 1 .. Len(Rest)
  BY <1>4, <1>5, <1>6
<1>8. ASSUME NEW j \in 1 .. Len(Rest') PROVE Rest'[j] = Rest[1 + j]
  <2>1. CASE j <= Len(rbr')
    <3>1. Rest'[j] = rbr'[j] /\ rbr'[j] = rbr[j + 1]
      BY <1>4, <1>5, <1>6, <2>1
    <3>2. 1 + j \in 1 .. Len(rbr) + Len(bytes) /\ 1 + j <= Len(rbr) /\ j + 1 = 1 + j
      BY <1>4, <1>5, <2>1
    <3>3. Rest[1 + j] = rbr[1 + j]
      BY <1>5, <3>2
    <3> QED
      BY <3>1, <3>2, <3>3
  <2>2. CASE ~(j <= Len(rbr'))
    <3>1. Rest'[j] = bytes[j - Len(rbr')]
      BY <1>4, <1>5, <1>6, <2>2
    <3>2. /\ 1 + j \in 1 .. Len(rbr) + Len(bytes) /\ ~(1 + j <= Len(rbr))
          /\ (1 + j) - Len(rbr) = j - Len(rbr')
      BY <1>4, <1>5, <1>6, <2>2
    <3>3. Rest[1 + j] = bytes[(1 + j) - Len(rbr)]
      BY <1>5, <3>2
    <3> QED
      BY <3>1, <3>2, <3>3
  <2> QED
    BY <2>1, <2>2
<1>9. first \in Int /\ first <= 1
  <2>1. inRawBuf \in Bytes => Len(inRawBuf) \in Nat
    BY LenProperties DEF Bytes
  <2> QED
    BY <1>2, <2>1 DEF Place, Between, InMagic, InSize, InPacket
<1>10. k \in 1 .. Len(sent) + 1 /\ Len(sent) \in Nat
  BY <1>3, LenProperties DEF k
<1> DEFINE off == 1 - first
<1>11. off \in Nat /\ cut[k] = 1 - off
  BY <1>9
<1> HIDE DEF off
<1>12. /\ k \in 1 .. Len(sent) /\ sent[k] \in Packets
       /\ off + 1 <= Len(sent[k]) + 5 => Rest[1] = FrameOf(sent[k])[off + 1]
  <2> DEFINE i == k  rest == Rest
  <2>1. /\ sent \in Seq(Packets) /\ rest \in Bytes /\ Cuts(sent, rest, cut)
        /\ i \in 1 .. Len(sent) + 1 /\ off \in Nat /\ cut[i] = 1 - off
        /\ 1 \in 1 .. Len(rest)
    BY <1>2, <1>3, <1>5, <1>7, <1>10, <1>11
  <2> HIDE DEF i, rest
  <2>2. /\ i \in 1 .. Len(sent)
        /\ off + 1 <= Len(sent[i]) + 5 => rest[1] = FrameOf(sent[i])[off + 1]
    BY <2>1, CutsNext
  <2>3. sent[i] \in Packets
    BY <2>1, <2>2, ElementOfSeq
  <2> QED
    BY <2>2, <2>3 DEF i, rest
<1>13. Byte1 = Rest[1]
  BY <1>4, <1>5
<1>14. Len(sent[k]) \in Nat
  BY <1>12, PacketBytes
<1>15. 1 - first < Len(sent[k]) + 5 => Byte1 = FrameOf(sent[k])[2 - first]
  <2>1. off + 1 = 2 - first /\ (1 - first < Len(sent[k]) + 5 => off + 1 <= Len(sent[k]) + 5)
    BY <1>9, <1>14 DEF off
  <2> QED
    BY <1>12, <1>13, <2>1
<1> DEFINE moved == [i \in 1 .. Len(sent) + 1 |-> cut[i] - 1]
<1>16. Cuts(sent, Rest', moved)
  <2> DEFINE rest == Rest  left == Rest'
  <2>1. /\ 1 \in 0 .. Len(rest) /\ sent \in Seq(Packets) /\ rest \in Bytes /\ left \in Bytes
        /\ Cuts(sent, rest, cut) /\ Len(left) = Len(rest) - 1
        /\ \A j \in 1 .. Len(left) : left[j] = rest[1 + j]
    <3>1. 1 \in 0 .. Len(rest)
      BY <1>7
    <3>2. \A j \in 1 .. Len(left) : left[j] = rest[1 + j]
      BY <1>8
    <3> QED
      BY <1>2, <1>3, <1>5, <1>6, <1>7, <3>1, <3>2
  <2> HIDE DEF rest, left
  <2>2. Cuts(sent, left, moved)
    BY <2>1, CutsRead
  <2> QED
    BY <2>2 DEF left
<1>17. moved[k] = first - 1 /\ moved[k + 1] = first + Len(sent[k]) + 4
  <2>1. k + 1 \in 1 .. Len(sent) + 1 /\ k \in 1 .. Len(sent) + 1
    BY <1>10, <1>12
  <2>2. moved[k] = first - 1 /\ moved[k + 1] = cut[k + 1] - 1
    BY <2>1
  <2>3. cut[k + 1] = first + Len(sent[k]) + 5
    BY <1>2, <1>12 DEF Cuts
  <2> QED
    BY <1>9, <1>14, <2>2, <2>3
<1> HIDE DEF moved
<1>18. ReadFrom(first)
  BY <1>1, <1>2, <1>3, <1>4, <1>9, <1>12, <1>15, <1>16, <1>17 DEF ReadFrom
<1> QED
  BY <1>18

(* The byte was not the last of its frame ...                              *)
LEMMA GoesOn ==
  ASSUME ChannelInv, NEW first, ReadFrom(first), received' = received, Place(first - 1)'
  PROVE  ChannelInv'
<1>1. PICK moved : Cuts(sent, Rest', moved) /\ moved[k] = first - 1
  BY DEF ReadFrom
<1>2. k' = k /\ sent' = sent /\ rbr' \in Bytes /\ bytes' \in Bytes
  BY DEF k, ReadFrom
<1>3. moved[k'] = first - 1
  BY <1>1, <1>2
<1> QED
  BY <1>1, <1>2, <1>3 DEF ChannelInv

(* ... or it was.                                                          *)
LEMMA Completes ==
  ASSUME ChannelInv, NEW first, ReadFrom(first), first + Len(sent[k]) + 4 = 1,
         received' = Append(received, sent[k]), Place(1)'
  PROVE  ChannelInv'
<1>1. PICK moved : Cuts(sent, Rest', moved) /\ moved[k + 1] = 1
  BY DEF ReadFrom
<1>2. /\ sent' = sent /\ rbr' \in Bytes /\ bytes' \in Bytes
      /\ k \in 1 .. Len(sent) /\ sent[k] \in Packets
  BY DEF ReadFrom
<1>3. received \in Seq(Packets) /\ Len(received) \in Nat /\ sent \in Seq(Packets) /\ Len(sent) \in Nat
  BY LenProperties DEF ChannelInv
<1>4. received' \in Seq(Packets) /\ Len(received') = Len(received) + 1
  BY <1>2, <1>3, Appended
<1>5. k' = k + 1 /\ Len(received') <= Len(sent')
  BY <1>2, <1>3, <1>4 DEF k
<1>6. moved[k'] = 1
  BY <1>1, <1>5
<1> QED
  BY <1>1, <1>2, <1>3, <1>4, <1>5, <1>6 DEF ChannelInv

-----------------------------------------------------------------------------
LEMMA MagicInv ==
  ASSUME ChannelInv, SearchMagic
  PROVE  ChannelInv'
<1>1. /\ reading = "magic" /\ prolog_magic' = Append(Tail(prolog_magic), Byte1)
      /\ reading' = IF prolog_magic' = MAGIC_NUMBER THEN "sizeHigh" ELSE "magic"
      /\ inRawBuf' = inRawBuf /\ received' = received
  BY DEF SearchMagic, read_serial, Shift
<1>2. PICK first : ReadFrom(first)
  BY ByteRead DEF SearchMagic
<1>3. Between(first) \/ InMagic(first)
  BY <1>1, <1>2 DEF ReadFrom, Place, Between, InMagic, InSize, InPacket
<1>4. Len(sent[k]) \in Nat /\ sent[k] \in Packets
  BY <1>2, PacketBytes DEF ReadFrom
<1>5. \A j \in 1 .. 3 : FrameOf(sent[k])[j] = MAGIC_NUMBER[j]
  BY <1>4, FrameBytes
<1>6. CASE Between(first)
  <2>1. first = 1 /\ prolog_magic = <<0, 0, 0>> /\ inRawBuf = <<>>
    BY <1>6 DEF Between
  <2>2. Byte1 = MAGIC_NUMBER[1]
    BY <1>2, <1>4, <1>5, <2>1 DEF ReadFrom
  <2>3. prolog_magic' = <<0, 0, MAGIC_NUMBER[1]>>
    BY <1>1, <2>1, <2>2, Shifted, MagicBytes
  <2>4. reading' = "magic" /\ inRawBuf' = <<>>
    BY <1>1, <2>1, <2>3, MagicBytes
  <2>5. first - 1 = 0
    BY <2>1
  <2>6. InMagic(first - 1)'
    BY <2>3, <2>4, <2>5 DEF InMagic
  <2> QED
    BY <1>1, <1>2, <2>6, GoesOn DEF Place
<1>7. CASE InMagic(first)
  <2>1. CASE first = 0 /\ prolog_magic = <<0, 0, MAGIC_NUMBER[1]>>
    <3>1. Byte1 = MAGIC_NUMBER[2]
      BY <1>2, <1>4, <1>5, <2>1 DEF ReadFrom
    <3>2. prolog_magic' = <<0, MAGIC_NUMBER[1], MAGIC_NUMBER[2]>>
      BY <1>1, <2>1, <3>1, Shifted, MagicBytes
    <3>3. reading' = "magic" /\ inRawBuf' = <<>>
      BY <1>1, <1>7, <3>2, MagicBytes DEF InMagic
    <3>4. first - 1 = -1
      BY <2>1
    <3>5. InMagic(first - 1)'
      BY <3>2, <3>3, <3>4 DEF InMagic
    <3> QED
      BY <1>1, <1>2, <3>5, GoesOn DEF Place
  <2>2. CASE first = -1 /\ prolog_magic = <<0, MAGIC_NUMBER[1], MAGIC_NUMBER[2]>>
    <3>1. Byte1 = MAGIC_NUMBER[3]
      BY <1>2, <1>4, <1>5, <2>2 DEF ReadFrom
    <3>2. prolog_magic' = MAGIC_NUMBER
      BY <1>1, <2>2, <3>1, Shifted, MagicBytes
    <3>3. InSize(first - 1)'
      BY <1>1, <1>7, <2>2, <3>2 DEF InMagic, InSize
    <3> QED
      BY <1>1, <1>2, <3>3, GoesOn DEF Place
  <2> QED
    BY <1>7, <2>1, <2>2 DEF InMagic
<1> QED
  BY <1>3, <1>6, <1>7

LEMMA SizeHighInv ==
  ASSUME ChannelInv, ReadSizeHigh
  PROVE  ChannelInv'
<1>1. /\ reading = "sizeHigh" /\ size' = Byte1 /\ reading' = "sizeLow"
      /\ UNCHANGED <<inRawBuf, received>>
  BY DEF ReadSizeHigh, read_serial
<1>2. PICK first : ReadFrom(first)
  BY ByteRead DEF ReadSizeHigh
<1>3. first = -2 /\ inRawBuf = <<>>
  BY <1>1, <1>2 DEF ReadFrom, Place, Between, InMagic, InSize, InPacket
<1>4. /\ Len(sent[k]) \in Nat /\ FrameOf(sent[k])[4] = u2B(Len(sent[k]))[1]
      /\ sent' = sent /\ k' = k /\ k <= Len(sent)
  BY <1>1, <1>2, PacketBytes, FrameBytes DEF ReadFrom, k
<1>5. Byte1 = u2B(Len(sent[k]))[1]
  BY <1>2, <1>3, <1>4 DEF ReadFrom
<1>6. InSize(first - 1)'
  BY <1>1, <1>3, <1>4, <1>5 DEF InSize
<1> QED
  BY <1>1, <1>2, <1>6, GoesOn DEF Place

(* The size is right, so that readRawPacket reads the packet.              *)
LEMMA SizeLowInv ==
  ASSUME ChannelInv, ReadSizeLow
  PROVE  ChannelInv' /\ received' = received
<1>1. reading = "sizeLow" /\ size' = B2u(size, Byte1)
  BY DEF ReadSizeLow, read_serial
<1>2. PICK first : ReadFrom(first)
  BY ByteRead DEF ReadSizeLow
<1>3. first = -3 /\ inRawBuf = <<>> /\ size = u2B(Len(sent[k]))[1]
  BY <1>1, <1>2 DEF ReadFrom, Place, Between, InMagic, InSize, InPacket
<1>4. /\ Len(sent[k]) \in Nat \ {0} /\ FrameOf(sent[k])[5] = u2B(Len(sent[k]))[2]
      /\ sent' = sent /\ k <= Len(sent)
  BY <1>2, PacketBytes, FrameBytes DEF ReadFrom
<1>5. Byte1 = u2B(Len(sent[k]))[2]
  BY <1>2, <1>3, <1>4 DEF ReadFrom
<1>6. size' = Len(sent[k]) /\ size' # 0
  BY <1>1, <1>3, <1>4, <1>5, SizeBytes
<1>7. reading' = "packet" /\ UNCHANGED <<inRawBuf, received>>
  BY <1>6 DEF ReadSizeLow
<1>8. k' = k
  BY <1>7 DEF k
<1>9. InPacket(first - 1)'
  BY <1>3, <1>4, <1>6, <1>7, <1>8 DEF InPacket, Bytes
<1> QED
  BY <1>2, <1>7, <1>9, GoesOn DEF Place

(* What has been read of a packet, and the byte that is read next.         *)
LEMMA NextByte ==
  ASSUME ChannelInv, read_serial("packet")
  PROVE  \E first :
           /\ ReadFrom(first) /\ InPacket(first)
           /\ sent[k] \in Bytes /\ Len(sent[k]) <= BufSize /\ Len(inRawBuf) \in Nat
           /\ Append(inRawBuf, Byte1) \in Bytes
           /\ Len(Append(inRawBuf, Byte1)) = Len(inRawBuf) + 1
           /\ \A j \in 1 .. Len(inRawBuf) + 1 : Append(inRawBuf, Byte1)[j] = sent[k][j]
<1>1. PICK first : ReadFrom(first)
  BY ByteRead
<1>2. InPacket(first)
  BY <1>1 DEF read_serial, ReadFrom, Place, Between, InMagic, InSize, InPacket
<1>3. /\ sent[k] \in Packets /\ sent[k] \in Bytes /\ Len(sent[k]) \in Nat
      /\ Len(sent[k]) <= BufSize
      /\ \A j \in 1 .. Len(sent[k]) : FrameOf(sent[k])[5 + j] = sent[k][j]
  BY <1>1, PacketBytes, FrameBytes, ReceiverAssumption DEF ReadFrom
<1>4. /\ inRawBuf \in Bytes /\ Len(inRawBuf) \in Nat /\ Len(inRawBuf) < Len(sent[k])
      /\ first = -4 - Len(inRawBuf)
      /\ \A j \in 1 .. Len(inRawBuf) : inRawBuf[j] = sent[k][j]
  BY <1>2, LenProperties DEF InPacket, Bytes
<1>5. Byte1 = FrameOf(sent[k])[5 + (Len(inRawBuf) + 1)]
  <2>1. 1 - first < Len(sent[k]) + 5 /\ 2 - first = 5 + (Len(inRawBuf) + 1)
    BY <1>3, <1>4
  <2> QED
    BY <1>1, <2>1 DEF ReadFrom
<1>6. Byte1 = sent[k][Len(inRawBuf) + 1] /\ Len(inRawBuf) + 1 \in 1 .. Len(sent[k])
  BY <1>3, <1>4, <1>5
<1>7. Byte1 \in Nat
  BY <1>3, <1>6, ElementOfSeq DEF Bytes
<1>8. /\ Append(inRawBuf, Byte1) \in Bytes
      /\ Len(Append(inRawBuf, Byte1)) = Len(inRawBuf) + 1
      /\ Append(inRawBuf, Byte1)[Len(inRawBuf) + 1] = Byte1
      /\ \A j \in 1 .. Len(inRawBuf) : Append(inRawBuf, Byte1)[j] = inRawBuf[j]
  BY <1>4, <1>7, Appended DEF Bytes
<1>9. ASSUME NEW j \in 1 .. Len(inRawBuf) + 1
      PROVE  Append(inRawBuf, Byte1)[j] = sent[k][j]
  <2>1. CASE j = Len(inRawBuf) + 1
    BY <1>6, <1>8, <2>1
  <2>2. CASE j \in 1 .. Len(inRawBuf)
    BY <1>4, <1>8, <2>2
  <2> QED
    BY <1>4, <2>1, <2>2
<1> QED
  BY <1>1, <1>2, <1>3, <1>4, <1>8, <1>9

(* A byte of the packet; with the last one the packet is received.         *)
LEMMA PacketInv ==
  ASSUME ChannelInv, ReadByte
  PROVE  /\ ChannelInv'
         /\ \/ received' = received
            \/ /\ Len(received) < Len(sent)
               /\ received' = Append(received, sent[Len(received) + 1])
<1> DEFINE packet == Append(inRawBuf, Byte1)
<1>1. PICK first :
        /\ ReadFrom(first) /\ InPacket(first)
        /\ sent[k] \in Bytes /\ Len(sent[k]) <= BufSize /\ Len(inRawBuf) \in Nat
        /\ packet \in Bytes /\ Len(packet) = Len(inRawBuf) + 1
        /\ \A j \in 1 .. Len(inRawBuf) + 1 : packet[j] = sent[k][j]
  BY NextByte DEF ReadByte
<1>2. /\ reading = "packet" /\ size' = size
      /\ \/ Len(packet) = size /\ Return(packet)
         \/ /\ Len(packet) < size
            /\ inRawBuf' = packet
            /\ UNCHANGED <<reading, prolog_magic, received>>
  BY DEF ReadByte, read_serial
<1> HIDE DEF packet
<1>3. /\ size = Len(sent[k]) /\ first = -4 - Len(inRawBuf) /\ k <= Len(sent)
      /\ sent' = sent
  BY <1>1 DEF InPacket, ReadFrom
<1>4. CASE Len(packet) = size /\ Return(packet)
  <2>1. packet = sent[k]
    BY <1>1, <1>3, <1>4, SeqEqual DEF Bytes
  <2>2. received' = Append(received, sent[k])
    BY <1>4, <2>1 DEF Return
  <2>3. Between(1)'
    BY <1>4 DEF Return, Between
  <2>4. first + Len(sent[k]) + 4 = 1
    BY <1>1, <1>3, <1>4
  <2>5. ChannelInv'
    BY <1>1, <2>2, <2>3, <2>4, Completes DEF Place
  <2>6. Len(received) < Len(sent)
    BY <1>3, LenProperties DEF k, ChannelInv
  <2> QED
    BY <2>2, <2>5, <2>6 DEF k
<1>5. CASE /\ Len(packet) < size
           /\ inRawBuf' = packet
           /\ UNCHANGED <<reading, prolog_magic, received>>
  <2>1. k' = k
    BY <1>5 DEF k
  <2>2. InPacket(first - 1)'
    BY <1>1, <1>2, <1>3, <1>5, <2>1 DEF InPacket
  <2> QED
    BY <1>1, <1>5, <2>2, GoesOn DEF Place
<1> QED
  BY <1>2, <1>4, <1>5

(* Nothing is written beyond the buffer.                                   *)
LEMMA NoOverrun ==
  ASSUME ChannelInv
  PROVE  ~Overrun
<1> SUFFICES ASSUME Overrun PROVE FALSE
  OBVIOUS
<1>1. read_serial("packet") /\ Len(inRawBuf) = BufSize
  BY DEF Overrun
<1>2. PICK first : InPacket(first) /\ Len(sent[k]) <= BufSize
  BY <1>1, NextByte
<1>3. Len(inRawBuf) < Len(sent[k]) /\ Len(inRawBuf) \in Nat
  BY <1>2, LenProperties DEF InPacket, Bytes
<1>4. Len(sent[k]) \in Nat
  <2>1. sent \in Seq(Packets) /\ k \in 1 .. Len(sent)
    BY <1>2, LenProperties DEF ChannelInv, InPacket, k
  <2> QED
    BY <2>1, ElementOfSeq, PacketBytes
<1> QED
  BY <1>1, <1>2, <1>3, <1>4, ReceiverAssumption

-----------------------------------------------------------------------------
LEMMA UartStep ==
  ASSUME UartInv, [Next]_vars
  PROVE  UartInv'
<1>1. CASE StartUp
  BY <1>1, Detected DEF StartUp, UartInv
<1>2. CASE UNCHANGED <<chip, fifoEnabled, reports>>
  BY <1>2 DEF UartInv, ModelIsTheChip, reports
<1>3. CASE Tun2Socket \/ Answered \/ UNCHANGED vars
  BY <1>2, <1>3 DEF Tun2Socket, Answered, vars, uartVars
<1>4. CASE Deliver \/ OverrunUart
  BY <1>2, <1>4 DEF Deliver, OverrunUart, ToUart, Receive
<1>5. CASE readRawPacket
  BY <1>2, <1>5 DEF readRawPacket, SearchMagic, ReadSizeHigh, ReadSizeLow, ReadByte, Overrun,
                    read_serial, ReadData
<1> QED
  BY <1>1, <1>3, <1>4, <1>5 DEF Next, Server

(* A step that loses nothing leaves the invariant, and is one of the       *)
(* abstract channel, or none.                                              *)
ChannelStep ==
  \/ \E p \in Packets : sent' = Append(sent, p) /\ UNCHANGED received
  \/ /\ Len(received) < Len(sent) /\ UNCHANGED sent
     /\ received' = Append(received, sent[Len(received) + 1])
  \/ UNCHANGED <<sent, received>>

LEMMA LosslessStep ==
  ASSUME ChannelInv, lost \in Nat, lost' = lost, [Next]_vars
  PROVE  ChannelInv' /\ ChannelStep
<1>1. CASE Tun2Socket
  BY <1>1, SendInv DEF Tun2Socket, SendFrame, ChannelStep
<1>2. CASE Deliver
  BY <1>2, DeliverInv DEF Deliver, ToUart, ChannelStep
<1>3. CASE OverrunUart
  BY <1>3 DEF OverrunUart, Lose
<1>4. CASE StartUp
  <2>1. rbr' = rbr
    BY <1>4, StartUpKeeps DEF ChannelInv
  <2> QED
    BY <1>4, <2>1, StartUpInv DEF StartUp, ChannelStep
<1>5. CASE SearchMagic
  BY <1>5, MagicInv DEF SearchMagic, read_serial, ChannelStep
<1>6. CASE ReadSizeHigh
  BY <1>6, SizeHighInv DEF ReadSizeHigh, read_serial, ChannelStep
<1>7. CASE ReadSizeLow
  BY <1>7, SizeLowInv DEF ReadSizeLow, read_serial, ChannelStep
<1>8. CASE ReadByte
  BY <1>8, PacketInv DEF ReadByte, read_serial, ChannelStep
<1>9. CASE Overrun
  BY <1>9, NoOverrun
<1>10. CASE Answered
  BY <1>10, AnsweredInv DEF Answered, ChannelStep
<1>11. CASE UNCHANGED vars
  <2>1. Rest' = Rest /\ UNCHANGED <<sent, received, rbr, bytes, receiver>>
    BY <1>11 DEF vars, uartVars, Rest
  <2>2. rbr' \in Bytes /\ bytes' \in Bytes
    BY <2>1 DEF ChannelInv
  <2>3. \A first : Place(first) => Place(first)'
    BY <2>1 DEF Place, Between, InMagic, InSize, InPacket, receiver, k
  <2> QED
    BY <2>1, <2>2, <2>3, NothingRead DEF ChannelStep
<1> QED
  BY <1>1, <1>2, <1>3, <1>4, <1>5, <1>6, <1>7, <1>8, <1>9, <1>10, <1>11
     DEF Next, Server, readRawPacket

LEMMA PacedStays ==
  ASSUME [Next]_vars
  PROVE  paced' = paced
BY DEF Next, Server, readRawPacket, Tun2Socket, Deliver, OverrunUart, ToUart, StartUp,
       SearchMagic, ReadSizeHigh, ReadSizeLow, ReadByte, Overrun, Answered, read_serial,
       line, losses, vars

LEMMA LossGrows ==
  ASSUME BufferInv, lost \in Nat, [Next]_vars
  PROVE  lost' \in Nat /\ lost' >= lost
<1>1. CASE StartUp
  BY <1>1, StartUpKeeps DEF BufferInv
<1>2. CASE OverrunUart
  BY <1>2 DEF OverrunUart, Lose
<1>3. CASE lost' = lost
  BY <1>3
<1>4. CASE Tun2Socket \/ Deliver \/ Answered \/ UNCHANGED vars
  BY <1>3, <1>4 DEF Tun2Socket, Deliver, Answered, losses, line, vars
<1>5. CASE readRawPacket
  BY <1>3, <1>5 DEF readRawPacket, SearchMagic, ReadSizeHigh, ReadSizeLow, ReadByte, Overrun,
                    read_serial, losses, line
<1> QED
  BY <1>1, <1>2, <1>4, <1>5 DEF Next, Server

LEMMA PacedInvStep ==
  ASSUME PacedInv, BufferInv, lost \in Nat, [Next]_vars
  PROVE  PacedInv'
<1> SUFFICES ASSUME paced
             PROVE  lost' = 0 /\ (reading' = "startup" => bytes' = <<>> /\ rbr' = <<>>)
  BY PacedStays DEF PacedInv
<1>1. lost = 0 /\ (reading = "startup" => bytes = <<>> /\ rbr = <<>>)
  BY DEF PacedInv
<1>2. CASE Tun2Socket
  BY <1>1, <1>2 DEF Tun2Socket, receiver
<1>3. CASE Deliver
  BY <1>1, <1>3 DEF Deliver, ToUart, receiver, losses
<1>4. CASE OverrunUart
  BY <1>4 DEF OverrunUart
<1>5. CASE StartUp
  BY <1>1, <1>5, StartUpKeeps DEF StartUp, BufferInv
<1>6. CASE readRawPacket
  BY <1>1, <1>6 DEF readRawPacket, SearchMagic, ReadSizeHigh, ReadSizeLow, ReadByte, Overrun,
                    Return, read_serial, losses, line
<1>7. CASE Answered
  BY <1>1, <1>7 DEF Answered, losses, line
<1>8. CASE UNCHANGED vars
  BY <1>1, <1>8 DEF vars, receiver, line, losses, uartVars
<1> QED
  BY <1>2, <1>3, <1>4, <1>5, <1>6, <1>7, <1>8 DEF Next, Server

(* A byte is read.                                                         *)
LEMMA ByteIsRead ==
  ASSUME BufferInv, NEW what, read_serial(what)
  PROVE  /\ Byte1 \in Nat /\ rbr' \in Bytes /\ bytes' \in Bytes
         /\ Append(inRawBuf, Byte1) \in Bytes
<1>1. rbr # <<>> /\ rbr' = Tail(rbr) /\ bytes' = bytes
  BY DEF read_serial, ReadData, DataReady
<1>2. Byte1 \in Nat /\ rbr' \in Bytes /\ bytes' \in Bytes
  BY <1>1, HeadTailProperties DEF BufferInv, Bytes, Byte1
<1> QED
  BY <1>2, Appended DEF BufferInv, Bytes

LEMMA BufferStep ==
  ASSUME BufferInv, [Next]_vars
  PROVE  BufferInv'
<1>1. CASE Tun2Socket
  <2>1. PICK p \in Packets : bytes' = bytes \o FrameOf(p)
    BY <1>1 DEF Tun2Socket, SendFrame
  <2>2. FrameOf(p) \in Bytes
    BY FrameBytes
  <2>3. bytes' \in Bytes
    BY <2>1, <2>2, Joined DEF BufferInv
  <2> QED
    BY <1>1, <2>3 DEF Tun2Socket, receiver, uartVars, BufferInv
<1>2. CASE Deliver \/ OverrunUart
  <2>1. /\ bytes # <<>> /\ bytes' = Tail(bytes) /\ UNCHANGED receiver
        /\ rbr' \in {rbr, <<Head(bytes)>>, Append(rbr, Head(bytes))}
    BY <1>2 DEF Deliver, OverrunUart, ToUart, Receive
  <2>2. Head(bytes) \in Nat /\ bytes' \in Bytes
    BY <2>1, HeadTailProperties DEF BufferInv, Bytes
  <2>3. <<Head(bytes)>> \in Bytes /\ Append(rbr, Head(bytes)) \in Bytes
    BY <2>2, Appended DEF BufferInv, Bytes
  <2> QED
    BY <2>1, <2>2, <2>3 DEF receiver, BufferInv
<1>3. CASE StartUp
  <2>1. rbr' \in Bytes
    BY <1>3 DEF StartUp, detect_uart_model, BufferInv, Bytes
  <2> QED
    BY <1>3, <2>1 DEF StartUp, BufferInv
<1>4. CASE SearchMagic
  BY <1>4, ByteIsRead DEF SearchMagic, read_serial, BufferInv
<1>5. CASE ReadSizeHigh
  BY <1>5, ByteIsRead DEF ReadSizeHigh, read_serial, BufferInv
<1>6. CASE ReadSizeLow
  <2>1. Byte1 \in Nat /\ rbr' \in Bytes /\ bytes' \in Bytes
    BY <1>6, ByteIsRead DEF ReadSizeLow
  <2>2. size' \in Nat
    BY <1>6, <2>1, FramingAssumption DEF ReadSizeLow, B2u, BufferInv
  <2>3. CASE size' = 0 /\ Return(<<>>)
    BY <2>1, <2>2, <2>3 DEF Return, BufferInv, Bytes
  <2>4. CASE size' > 0 /\ reading' = "packet" /\ UNCHANGED inRawBuf
    <3>1. inRawBuf = <<>>
      BY <1>6 DEF ReadSizeLow, read_serial, BufferInv
    <3> QED
      BY <2>1, <2>2, <2>4, <3>1 DEF BufferInv
  <2> QED
    BY <1>6, <2>3, <2>4 DEF ReadSizeLow
<1>7. CASE ReadByte
  <2> DEFINE packet == Append(inRawBuf, Byte1)
  <2>1. packet \in Bytes /\ rbr' \in Bytes /\ bytes' \in Bytes
    BY <1>7, ByteIsRead DEF ReadByte
  <2>2. /\ size' = size
        /\ \/ Return(packet)
           \/ Len(packet) < size /\ inRawBuf' = packet /\ reading' = reading
    BY <1>7 DEF ReadByte
  <2> HIDE DEF packet
  <2>3. CASE Return(packet)
    BY <2>1, <2>2, <2>3 DEF Return, BufferInv, Bytes
  <2>4. CASE Len(packet) < size /\ inRawBuf' = packet /\ reading' = reading
    BY <1>7, <2>1, <2>2, <2>4 DEF ReadByte, read_serial, BufferInv
  <2> QED
    BY <2>2, <2>3, <2>4
<1>8. CASE Overrun
  BY <1>8, ByteIsRead DEF Overrun, read_serial, BufferInv
<1>9. CASE Answered
  BY <1>9 DEF Answered, uartVars, BufferInv
<1>10. CASE UNCHANGED vars
  BY <1>10 DEF vars, receiver, uartVars, BufferInv
<1> QED
  BY <1>1, <1>2, <1>3, <1>4, <1>5, <1>6, <1>7, <1>8, <1>9, <1>10
     DEF Next, Server, readRawPacket

LEMMA StepInv == ReceiverInv /\ [Next]_vars => ReceiverInv'
<1> SUFFICES ASSUME ReceiverInv, [Next]_vars PROVE ReceiverInv'
  OBVIOUS
<1>1. UartInv' /\ PacedInv' /\ BufferInv' /\ lost' \in Nat /\ lost' >= lost /\ lost \in Nat
  BY UartStep, PacedInvStep, BufferStep, LossGrows DEF ReceiverInv
<1>2. lost' = 0 => lost = 0 /\ lost' = lost
  BY <1>1
<1>3. lost' = 0 => ChannelInv'
  BY <1>1, <1>2, LosslessStep DEF ReceiverInv
<1> QED
  BY <1>1, <1>3 DEF ReceiverInv

(* As long as nothing is lost, what is read, in the UART and on the line   *)
(* is always the frames of the packets not received.                       *)
THEOREM Inductive == Spec => []ReceiverInv
BY InitInv, StepInv, PTL DEF Spec

-----------------------------------------------------------------------------
(* readRawPacket, which does not compare the size it reads with its        *)
(* buffer's, never writes beyond it before the UART has lost a byte, on    *)
(* whatever line and with whatever packets; and if it does, the size was   *)
(* one no packet has.                                                      *)
THEOREM BufferIsEnough == Spec => []OverrunsOnlyAfterLoss
<1>1. ReceiverInv => OverrunsOnlyAfterLoss
  <2> SUFFICES ASSUME ReceiverInv, reading = "overrun" PROVE lost > 0 /\ size > BufSize
    BY DEF OverrunsOnlyAfterLoss
  <2>1. lost # 0
    BY DEF ReceiverInv, ChannelInv, Place, Between, InMagic, InSize, InPacket
  <2>2. lost \in Nat /\ size \in Nat /\ BufSize < size
    BY DEF ReceiverInv, BufferInv
  <2> QED
    BY <2>1, <2>2, ReceiverAssumption
<1> QED
  BY <1>1, Inductive, PTL

(* detect_uart_model finds out which UART there is, and turns on a FIFO    *)
(* that works.                                                             *)
THEOREM UartIsDetected == Spec => []ModelIsTheChip
<1>1. ReceiverInv => ModelIsTheChip
  BY DEF ReceiverInv, UartInv
<1> QED
  BY <1>1, Inductive, PTL

(* On a paced line packets come out of readRawPacket as tun2socket got     *)
(* them, in order, none lost, cut or merged: the safety of the channel     *)
(* that ReliableChannel promises.                                          *)
THEOREM PacketsArriveInOrder == Spec => PacedChannel!InOrder
<1>1. Init => /\ (IF paced THEN sent ELSE <<>>) = <<>>
              /\ (IF paced THEN received ELSE <<>>) = <<>>
  BY DEF Init, FramingInit
<1>2. ReceiverInv /\ [Next]_vars
        => [PacedChannel!Send \/ PacedChannel!Deliver]_(PacedChannel!channelVars)
  <2> SUFFICES ASSUME ReceiverInv, [Next]_vars
               PROVE  [PacedChannel!Send \/ PacedChannel!Deliver]_(PacedChannel!channelVars)
    OBVIOUS
  <2>1. paced' = paced
    BY PacedStays
  <2>2. CASE ~paced
    BY <2>1, <2>2 DEF PacedChannel!channelVars
  <2>3. CASE paced
    <3>1. ChannelStep
      <4>1. lost = 0 /\ lost' = 0 /\ ChannelInv
        BY <2>1, <2>3, StepInv DEF ReceiverInv, PacedInv
      <4> QED
        BY <4>1, LosslessStep
    <3> QED
      BY <2>1, <2>3, <3>1
         DEF ChannelStep, PacedChannel!channelVars, PacedChannel!Send, PacedChannel!Deliver
  <2> QED
    BY <2>2, <2>3
<1> QED
  BY <1>1, <1>2, Inductive, PTL DEF Spec, PacedChannel!InOrder

-----------------------------------------------------------------------------
(* Any line: where readRawPacket is in the frames sent since the last      *)
(* loss.  later are their packets, and cut is where their frames begin in  *)
(* the bytes not read.                                                     *)
Later(later, cut) ==
  /\ later \in Seq(Packets) /\ Len(sent) = lostAt + Len(later)
  /\ \A i \in 1 .. Len(later) : later[i] = sent[lostAt + i]
  /\ Cuts(later, Rest, cut)
  /\ passed = cut[Len(later) + 1] - cut[1]

(* Nothing of them has been read but by way of a size that may be wrong.   *)
Astray(cut) ==
  \/ cut[1] >= 1
  \/ reading = "sizeLow" /\ cut[1] >= 0
  \/ reading = "packet" /\ cut[1] >= -1 - Len(inRawBuf)
  \/ reading = "overrun"

(* A wrong size ends before, or not far behind, the beginning of frame i.  *)
Near(cut, i) == cut[i] - cut[1] < BufSize + 2

(* The magic number is searched for, since n bytes, within frame i, ...    *)
Missed(later, cut, i) ==
  /\ i \in 1 .. Len(later) /\ reading \in {"magic", "answering"} /\ Near(cut, i)
  /\ \E off \in Nat, n \in 0 .. 3 :
       /\ n < off /\ off < Len(later[i]) + 5 /\ cut[i] = 1 - off
       /\ \A m \in 1 .. 3 :
            prolog_magic[m] = IF m > 3 - n THEN FrameOf(later[i])[off - 3 + m] ELSE 0

(* ... or the beginning of frame i is what comes next, or has just come.   *)
Caught(later, cut, i) ==
  /\ i \in 1 .. Len(later) + 1 /\ reading \in {"magic", "answering"}
  /\ \/ /\ cut[i] = 1 /\ i > 1
        /\ \/ Near(cut, i - 1)
           \/ received # <<>> /\ received[Len(received)] = later[i - 1]
     \/ i <= Len(later) /\ cut[i] = 0 /\ prolog_magic[3] = MAGIC_NUMBER[1]
     \/ /\ i <= Len(later) /\ cut[i] = -1
        /\ prolog_magic[2] = MAGIC_NUMBER[1] /\ prolog_magic[3] = MAGIC_NUMBER[2]

(* Its magic number has been found.                                        *)
Found(later, cut, i) ==
  /\ i \in 1 .. Len(later)
  /\ \/ reading = "sizeHigh" /\ cut[i] = -2
     \/ reading = "sizeLow" /\ cut[i] = -3 /\ size = u2B(Len(later[i]))[1]
     \/ /\ reading = "packet" /\ size = Len(later[i])
        /\ Len(inRawBuf) < size /\ cut[i] = -4 - Len(inRawBuf)
        /\ \A j \in 1 .. Len(inRawBuf) : inRawBuf[j] = later[i][j]

Where(later, cut) ==
  Astray(cut) \/ \E i \in 1 .. Len(later) + 1 :
                   Missed(later, cut, i) \/ Caught(later, cut, i) \/ Found(later, cut, i)

AllPlain(later) == \A i \in 1 .. Len(later) : Plain(FrameOf(later[i]))

Tidy ==
  /\ sent \in Seq(Packets) /\ received \in Seq(Bytes) /\ lostAt \in Nat
  /\ bytes \in Bytes /\ rbr \in Bytes
  /\ prolog_magic \in Nat \X Nat \X Nat
  /\ inRawBuf \in Bytes /\ Len(inRawBuf) <= BufSize
  /\ reading \notin {"packet", "overrun"} => inRawBuf = <<>>
  /\ reading = "answering" => prolog_magic = <<0, 0, 0>>

(* The inductive invariant.                                                *)
ResyncInv ==
  /\ Tidy
  /\ \E later, cut : Later(later, cut) /\ (AllPlain(later) => Where(later, cut))

(* The magic number neither begins with a zero nor ends as it begins.      *)
MagicIsDistinct == MAGIC_NUMBER[1] \notin {0, MAGIC_NUMBER[3]}

LEMMA MagicIs ==
  ASSUME NEW w \in Nat \X Nat \X Nat
  PROVE  w = MAGIC_NUMBER <=> /\ w[1] = MAGIC_NUMBER[1]
                             /\ w[2] = MAGIC_NUMBER[2]
                             /\ w[3] = MAGIC_NUMBER[3]
<1> DEFINE a == MAGIC_NUMBER[1]  b == MAGIC_NUMBER[2]  c == MAGIC_NUMBER[3]
<1>1. MAGIC_NUMBER = <<a, b, c>>
  BY MagicBytes
<1> HIDE DEF a, b, c
<1>2. w = <<a, b, c>> <=> w[1] = a /\ w[2] = b /\ w[3] = c
  OBVIOUS
<1> QED
  BY <1>1, <1>2 DEF a, b, c

(* What a byte does to the last three.                                     *)
LEMMA ShiftedIn ==
  ASSUME NEW w \in Nat \X Nat \X Nat, NEW d \in Nat
  PROVE  /\ Append(Tail(w), d) \in Nat \X Nat \X Nat
         /\ Append(Tail(w), d)[1] = w[2]
         /\ Append(Tail(w), d)[2] = w[3]
         /\ Append(Tail(w), d)[3] = d
<1>1. PICK a \in Nat, b \in Nat, c \in Nat : w = <<a, b, c>>
  OBVIOUS
<1>2. Append(Tail(<<a, b, c>>), d) = <<b, c, d>>
  BY Shifted
<1> QED
  BY <1>1, <1>2

(* A plain frame has the magic number nowhere else.                        *)
LEMMA PlainFrame ==
  ASSUME NEW f \in Bytes, Plain(f), NEW off \in Nat, off >= 3, off + 1 <= Len(f)
  PROVE  ~\A m \in 1 .. 3 : f[off - 2 + m] = MAGIC_NUMBER[m]
<1> SUFFICES ASSUME \A m \in 1 .. 3 : f[off - 2 + m] = MAGIC_NUMBER[m] PROVE FALSE
  OBVIOUS
<1> DEFINE i == off - 1  t == SubSeq(f, i, i + 2)
<1>1. Len(f) \in Nat /\ i \in 2 .. Len(f) - 2
  BY LenProperties DEF Bytes
<1>2. ASSUME NEW j \in i .. i + 2 PROVE f[j] \in Nat
  <2>1. j \in 1 .. Len(f)
    BY <1>1
  <2> QED
    BY <2>1, ElementOfSeq DEF Bytes
<1>3. i \in Int /\ i + 2 \in Int /\ i <= i + 2 /\ (i + 2) - i + 1 = 3
  BY <1>1
<1> HIDE DEF i
<1>4. t \in Bytes /\ Len(t) = 3 /\ \A j \in 1 .. 3 : t[j] = f[i + j - 1]
  BY <1>2, <1>3, SubSeqProperties DEF Bytes
<1>5. \A j \in 1 .. 3 : t[j] = MAGIC_NUMBER[j]
  <2>1. \A j \in 1 .. 3 : i + j - 1 = off - 2 + j
    BY DEF i
  <2> QED
    BY <1>4, <2>1
<1> HIDE DEF t
<1>6. t = MAGIC_NUMBER
  BY <1>4, <1>5, ByteBasePositive, SeqEqual DEF Bytes
<1> QED
  BY <1>1, <1>6 DEF Plain, t

-----------------------------------------------------------------------------
LEMMA InitResync == Init => ResyncInv
<1> SUFFICES ASSUME Init PROVE ResyncInv
  OBVIOUS
<1>1. /\ sent = <<>> /\ received = <<>> /\ bytes = <<>> /\ rbr = <<>> /\ inRawBuf = <<>>
      /\ prolog_magic = <<0, 0, 0>> /\ lostAt = 0 /\ passed = 0
  BY DEF Init, UartInit, FramingInit
<1>2. Tidy
  BY <1>1, ReceiverAssumption DEF Tidy, Bytes
<1>3. Rest = <<>>
  BY <1>1 DEF Rest
<1> DEFINE cut == [i \in 1 .. 1 |-> 1]
<1>4. Cuts(<<>>, Rest, cut) /\ cut[1] = 1
  BY <1>3, CutsNothing
<1> HIDE DEF cut
<1>5. Later(<<>>, cut)
  BY <1>1, <1>4 DEF Later
<1>6. Where(<<>>, cut)
  BY <1>4 DEF Where, Astray
<1> QED
  BY <1>2, <1>5, <1>6 DEF ResyncInv

(* After a loss no frame has been sent yet.                                *)
LEMMA LossResync ==
  ASSUME Tidy', passed' = 0, lostAt' = Len(sent')
  PROVE  ResyncInv'
<1>1. Len(Rest') \in Nat
  <2>1. rbr' \in Bytes /\ bytes' \in Bytes
    BY DEF Tidy
  <2>2. rbr' \o bytes' \in Bytes
    BY <2>1, Joined
  <2>3. Rest' = rbr' \o bytes'
    BY DEF Rest
  <2> QED
    BY <2>2, <2>3, LenProperties DEF Bytes
<1>2. Len(sent') \in Nat
  BY LenProperties DEF Tidy
<1>3. PICK cut : cut[1] = Len(Rest') + 1 /\ cut \in [1 .. 1 -> Int]
  <2>1. LET c == [i \in 1 .. 1 |-> Len(Rest') + 1]
        IN  c[1] = Len(Rest') + 1 /\ c \in [1 .. 1 -> Int]
    BY <1>1
  <2> QED
    BY <2>1
<1>4. Cuts(<<>>, Rest', cut)
  BY <1>1, <1>3 DEF Cuts
<1>5. Later(<<>>, cut)'
  BY <1>1, <1>2, <1>3, <1>4 DEF Later
<1>6. Where(<<>>, cut)'
  BY <1>1, <1>3 DEF Where, Astray
<1> QED
  BY <1>5, <1>6 DEF ResyncInv

(* Nothing is read, sent or lost.                                          *)
LEMMA SameResync ==
  ASSUME ResyncInv, Tidy', Rest' = Rest, UNCHANGED <<sent, lostAt, passed>>,
         \A later, cut : Where(later, cut) => Where(later, cut)'
  PROVE  ResyncInv'
<1>1. PICK later, cut : Later(later, cut) /\ (AllPlain(later) => Where(later, cut))
  BY DEF ResyncInv
<1>2. Later(later, cut)'
  BY <1>1 DEF Later
<1> QED
  BY <1>1, <1>2 DEF ResyncInv

LEMMA PutOff ==
  ASSUME NEW x \in Int, NEW y \in Int, NEW z \in Nat
  PROVE  (x + z + 5) - y = (x - y) + (z + 5)
  OBVIOUS


LEMMA SendResync ==
  ASSUME ResyncInv, Tun2Socket
  PROVE  ResyncInv'
<1>1. PICK p \in Packets : sent' = Append(sent, p) /\ bytes' = bytes \o FrameOf(p)
  BY DEF Tun2Socket, SendFrame
<1>2. /\ UNCHANGED <<received, rbr, reading, prolog_magic, size, inRawBuf, lostAt>>
      /\ passed' = passed + Len(bytes') - Len(bytes)
  BY DEF Tun2Socket, receiver, uartVars
<1>3. PICK later, cut : Later(later, cut) /\ (AllPlain(later) => Where(later, cut))
  BY DEF ResyncInv
<1>4. /\ sent \in Seq(Packets) /\ bytes \in Bytes /\ rbr \in Bytes /\ FrameOf(p) \in Bytes
      /\ Len(sent) \in Nat /\ lostAt \in Nat
      /\ Len(FrameOf(p)) = Len(p) + 5 /\ Len(p) \in Nat
  BY FrameBytes, PacketBytes, LenProperties DEF ResyncInv, Tidy
<1>5. /\ sent' \in Seq(Packets) /\ Len(sent') = Len(sent) + 1 /\ sent'[Len(sent) + 1] = p
      /\ \A i \in 1 .. Len(sent) : sent'[i] = sent[i]
  BY <1>1, <1>4, Appended
<1>6. bytes' \in Bytes /\ Rest \in Bytes /\ Len(bytes') = Len(bytes) + Len(FrameOf(p))
      /\ Len(bytes) \in Nat
  BY <1>1, <1>4, Joined DEF Rest
<1>7. Rest' = Rest \o FrameOf(p)
  <2>1. Rest' = rbr \o (bytes \o FrameOf(p))
    BY <1>1, <1>2 DEF Rest
  <2>2. (rbr \o bytes) \o FrameOf(p) = rbr \o (bytes \o FrameOf(p))
    BY <1>4, Regrouped
  <2> QED
    BY <2>1, <2>2 DEF Rest
<1>8. /\ later \in Seq(Packets) /\ Len(later) \in Nat /\ Len(sent) = lostAt + Len(later)
      /\ \A i \in 1 .. Len(later) : later[i] = sent[lostAt + i]
      /\ Cuts(later, Rest, cut) /\ passed = cut[Len(later) + 1] - cut[1]
  BY <1>3, LenProperties DEF Later
<1> DEFINE more == Append(later, p)
<1>9. /\ more \in Seq(Packets) /\ Len(more) = Len(later) + 1 /\ more[Len(later) + 1] = p
      /\ \A i \in 1 .. Len(later) : more[i] = later[i]
  BY <1>8, Appended
<1>10. PICK longer : /\ Cuts(more, Rest', longer)
                     /\ \A i \in 1 .. Len(later) + 1 : longer[i] = cut[i]
  BY <1>6, <1>7, <1>8, CutsSend
<1> HIDE DEF more
<1>11. Later(more, longer)'
  <2>1. Len(sent') = lostAt' + Len(more)
    BY <1>2, <1>4, <1>5, <1>8, <1>9
  <2>2. ASSUME NEW i \in 1 .. Len(more) PROVE more[i] = sent'[lostAt' + i]
    <3>1. CASE i \in 1 .. Len(later)
      <4>1. lostAt + i \in 1 .. Len(sent)
        BY <1>4, <1>8, <3>1
      <4> QED
        BY <1>2, <1>5, <1>8, <1>9, <3>1, <4>1
    <3>2. CASE i = Len(later) + 1
      <4>1. lostAt + i = Len(sent) + 1
        BY <1>4, <1>8, <3>2
      <4> QED
        BY <1>2, <1>5, <1>9, <3>2, <4>1
    <3> QED
      BY <1>8, <1>9, <3>1, <3>2
  <2>3. passed' = longer[Len(more) + 1] - longer[1]
    <3>1. longer[Len(more) + 1] = longer[Len(later) + 1] + Len(p) + 5
      <4>1. \A i \in 1 .. Len(more) : longer[i + 1] = longer[i] + Len(more[i]) + 5
        BY <1>10 DEF Cuts
      <4>2. PICK q \in 1 .. Len(more) : q = Len(later) + 1 /\ q = Len(more)
        BY <1>8, <1>9
      <4> QED
        BY <1>9, <4>1, <4>2
    <3>2. longer[Len(later) + 1] = cut[Len(later) + 1] /\ longer[1] = cut[1]
      BY <1>8, <1>10
    <3>3. cut[Len(later) + 1] \in Int /\ cut[1] \in Int
      <4>1. cut \in [1 .. Len(later) + 1 -> Int]
        BY <1>8 DEF Cuts
      <4>2. Len(later) + 1 \in 1 .. Len(later) + 1 /\ 1 \in 1 .. Len(later) + 1
        BY <1>8
      <4> QED
        BY ONLY <4>1, <4>2
    <3>4. PICK x \in Int, y \in Int, z \in Nat : x = cut[Len(later) + 1] /\ y = cut[1] /\ z = Len(p)
      BY <1>4, <3>3
    <3>5. longer[Len(more) + 1] - longer[1] = (x + z + 5) - y
      BY <3>1, <3>2, <3>4
    <3>6. (x + z + 5) - y = (x - y) + (z + 5)
      BY ONLY <3>4, PutOff
    <3>7. passed' = (x - y) + (z + 5)
      BY <1>2, <1>4, <1>6, <1>8, <3>4
    <3> QED
      BY <3>5, <3>6, <3>7
  <2> QED
    BY <1>9, <1>10, <2>1, <2>2, <2>3 DEF Later
<1>12. ASSUME AllPlain(more) PROVE Where(more, longer)'
  <2>1. AllPlain(later)
    BY <1>8, <1>9, <1>12 DEF AllPlain
  <2>2. longer[1] = cut[1] /\ (Astray(cut) => Astray(longer)')
    BY <1>2, <1>8, <1>10 DEF Astray
  <2>3. ASSUME NEW i \in 1 .. Len(later) + 1
        PROVE  /\ Missed(later, cut, i) => Missed(more, longer, i)'
               /\ Caught(later, cut, i) => Caught(more, longer, i)'
               /\ Found(later, cut, i) => Found(more, longer, i)'
    <3>1. longer[i] = cut[i] /\ i \in 1 .. Len(more) + 1
      BY <1>8, <1>9, <1>10
    <3>2. i \in 1 .. Len(later) => i \in 1 .. Len(more) /\ more[i] = later[i]
      BY <1>8, <1>9
    <3>3. i > 1 => /\ i - 1 \in 1 .. Len(later) /\ longer[i - 1] = cut[i - 1]
                   /\ more[i - 1] = later[i - 1]
      BY <1>8, <1>9, <1>10
    <3>4. Missed(later, cut, i) => Missed(more, longer, i)'
      BY <1>2, <2>2, <3>1, <3>2 DEF Missed, Near
    <3>5. Caught(later, cut, i) => Caught(more, longer, i)'
      BY <1>2, <1>8, <2>2, <3>1, <3>2, <3>3 DEF Caught, Near
    <3>6. Found(later, cut, i) => Found(more, longer, i)'
      BY <1>2, <3>1, <3>2 DEF Found
    <3> QED
      BY <3>4, <3>5, <3>6
  <2>4. Where(later, cut)
    BY <1>3, <2>1
  <2>5. \A i \in 1 .. Len(later) + 1 : i \in 1 .. Len(more) + 1
    BY <1>8, <1>9
  <2> QED
    BY <2>2, <2>3, <2>4, <2>5 DEF Where
<1>13. Tidy'
  BY <1>2, <1>5, <1>6 DEF ResyncInv, Tidy
<1> QED
  BY <1>11, <1>12, <1>13 DEF ResyncInv

LEMMA DeliverResync ==
  ASSUME ResyncInv, Deliver
  PROVE  ResyncInv'
<1>1. /\ bytes # <<>> /\ bytes' = Tail(bytes) /\ rbr' = Append(rbr, Head(bytes))
      /\ UNCHANGED <<sent, received, receiver, losses>>
  BY DEF Deliver, ToUart, Receive
<1>2. rbr' \in Bytes /\ bytes' \in Bytes /\ Rest' = Rest
  BY <1>1, Moved DEF ResyncInv, Tidy, Rest
<1>3. Tidy'
  BY <1>1, <1>2 DEF ResyncInv, Tidy, receiver, losses
<1>4. \A later, cut : Where(later, cut) => Where(later, cut)'
  BY <1>1 DEF Where, Astray, Missed, Caught, Found, Near, receiver
<1> QED
  BY <1>1, <1>2, <1>3, <1>4, SameResync DEF losses

LEMMA OverrunResync ==
  ASSUME ResyncInv, OverrunUart
  PROVE  ResyncInv'
<1>1. /\ bytes # <<>> /\ bytes' = Tail(bytes)
      /\ rbr' = IF fifoEnabled THEN rbr ELSE <<Head(bytes)>>
      /\ UNCHANGED <<sent, received, receiver>>
      /\ lostAt' = Len(sent) /\ passed' = 0
  BY DEF OverrunUart, ToUart, Receive, Lose
<1>2. Head(bytes) \in Nat /\ Tail(bytes) \in Bytes
  BY <1>1, HeadTailProperties DEF ResyncInv, Tidy, Bytes
<1>3. <<Head(bytes)>> \in Bytes
  BY <1>2 DEF Bytes
<1>4. Len(sent) \in Nat
  BY LenProperties DEF ResyncInv, Tidy
<1>5. bytes' \in Bytes /\ rbr' \in Bytes /\ lostAt' \in Nat
  BY <1>1, <1>2, <1>3, <1>4 DEF ResyncInv, Tidy
<1>6. UNCHANGED <<sent, received, reading, prolog_magic, inRawBuf>>
  BY <1>1 DEF receiver
<1>7. Tidy
  BY DEF ResyncInv
<1>8. Tidy'
  BY <1>5, <1>6, <1>7 DEF Tidy
<1> QED
  BY <1>1, <1>8, LossResync

LEMMA StartUpResync ==
  ASSUME ResyncInv, StartUp
  PROVE  ResyncInv'
<1>1. /\ reading = "startup" /\ reading' = "magic" /\ (rbr' = <<>> \/ rbr' = rbr)
      /\ UNCHANGED <<sent, bytes, received, prolog_magic, size, inRawBuf>>
  BY DEF StartUp, detect_uart_model
<1>2. <<>> \in Bytes /\ Len(sent) \in Nat
  BY LenProperties DEF Bytes, ResyncInv, Tidy
<1>3. CASE rbr' # rbr
  <2>1. lostAt' = Len(sent) /\ passed' = 0
    BY <1>3 DEF StartUp, Lose
  <2>2. Tidy'
    BY <1>1, <1>2, <2>1 DEF ResyncInv, Tidy
  <2> QED
    BY <1>1, <2>1, <2>2, LossResync
<1>4. CASE rbr' = rbr
  <2>1. UNCHANGED <<lostAt, passed>>
    BY <1>4 DEF StartUp, losses
  <2>2. Tidy' /\ Rest' = Rest
    BY <1>1, <1>4, <2>1 DEF ResyncInv, Tidy, Rest
  <2>3. \A later, cut : Where(later, cut) => Where(later, cut)'
    BY <1>1 DEF Where, Astray, Missed, Caught, Found
  <2> QED
    BY <1>1, <2>1, <2>2, <2>3, SameResync
<1> QED
  BY <1>3, <1>4

LEMMA AnsweredResync ==
  ASSUME ResyncInv, Answered
  PROVE  ResyncInv'
<1>1. /\ reading = "answering" /\ reading' = "magic"
      /\ UNCHANGED <<sent, bytes, received, rbr, prolog_magic, size, inRawBuf, lostAt, passed>>
  BY DEF Answered, uartVars, line, losses
<1>2. Tidy' /\ Rest' = Rest
  BY <1>1 DEF ResyncInv, Tidy, Rest
<1>3. \A later, cut : Where(later, cut) => Where(later, cut)'
  BY <1>1 DEF Where, Astray, Missed, Caught, Found, Near
<1> QED
  BY <1>1, <1>2, <1>3, SameResync

-----------------------------------------------------------------------------
(* read_serial returns the next byte: everything moves one nearer, and if  *)
(* off bytes of a frame have been read, it is the next byte of that frame. *)
ReadLater(later, cut, moved) ==
  /\ Later(later, moved)' /\ Byte1 \in Nat
  /\ rbr' \in Bytes /\ bytes' \in Bytes
  /\ \A i \in 1 .. Len(later) + 1 : moved[i] = cut[i] - 1 /\ cut[i] \in Int
  /\ \A i \in 1 .. Len(later) + 1, off \in Nat :
       cut[i] = 1 - off =>
         /\ i \in 1 .. Len(later) /\ later[i] \in Packets
         /\ off < Len(later[i]) + 5 => Byte1 = FrameOf(later[i])[off + 1]

LEMMA ByteReadLater ==
  ASSUME Tidy, NEW later, NEW cut, Later(later, cut), NEW what, read_serial(what)
  PROVE  \E moved : ReadLater(later, cut, moved)
<1>1. /\ rbr # <<>> /\ rbr' = Tail(rbr) /\ bytes' = bytes /\ sent' = sent
      /\ lostAt' = lostAt /\ passed' = passed
  BY DEF read_serial, ReadData, DataReady, line, losses
<1>2. bytes \in Bytes /\ rbr \in Bytes /\ later \in Seq(Packets) /\ Cuts(later, Rest, cut)
  BY DEF Tidy, Later
<1>3. /\ rbr' \in Bytes /\ Byte1 \in Nat /\ Byte1 = rbr[1]
      /\ Len(rbr') = Len(rbr) - 1 /\ Len(rbr) \in Nat /\ Len(rbr) >= 1
      /\ \A j \in 1 .. Len(rbr') : rbr'[j] = rbr[j + 1]
  BY <1>1, <1>2, HeadTailProperties, LenProperties, EmptySeq DEF Bytes, Byte1
<1> DEFINE rest == rbr \o bytes  left == Tail(rbr) \o bytes
<1>4. /\ rest \in Bytes /\ Len(rest) = Len(rbr) + Len(bytes) /\ Len(bytes) \in Nat
      /\ \A j \in 1 .. Len(rbr) + Len(bytes) :
           rest[j] = IF j <= Len(rbr) THEN rbr[j] ELSE bytes[j - Len(rbr)]
  BY <1>2, Joined
<1>5. /\ left \in Bytes /\ Len(left) = Len(rbr') + Len(bytes)
      /\ \A j \in 1 .. Len(rbr') + Len(bytes) :
           left[j] = IF j <= Len(rbr') THEN rbr'[j] ELSE bytes[j - Len(rbr')]
  BY <1>1, <1>2, <1>3, Joined
<1>6. Rest = rest /\ Rest' = left
  BY <1>1 DEF Rest
<1> HIDE DEF rest, left
<1>7. Len(left) = Len(rest) - 1 /\ 1 \in 1 .. Len(rest) /\ 1 \in 0 .. Len(rest)
  BY <1>3, <1>4, <1>5
<1>8. ASSUME NEW j \in 1 .. Len(left) PROVE left[j] = rest[1 + j]
  <2>1. CASE j <= Len(rbr')
    <3>1. left[j] = rbr'[j] /\ rbr'[j] = rbr[j + 1]
      BY <1>3, <1>4, <1>5, <2>1
    <3>2. 1 + j \in 1 .. Len(rbr) + Len(bytes) /\ 1 + j <= Len(rbr) /\ j + 1 = 1 + j
      BY <1>3, <1>4, <2>1
    <3> QED
      BY <1>4, <3>1, <3>2
  <2>2. CASE ~(j <= Len(rbr'))
    <3>1. left[j] = bytes[j - Len(rbr')]
      BY <1>3, <1>4, <1>5, <2>2
    <3>2. /\ 1 + j \in 1 .. Len(rbr) + Len(bytes) /\ ~(1 + j <= Len(rbr))
          /\ (1 + j) - Len(rbr) = j - Len(rbr')
      BY <1>3, <1>4, <1>5, <2>2
    <3> QED
      BY <1>4, <3>1, <3>2
  <2> QED
    BY <2>1, <2>2
<1>9. PICK moved : moved = [i \in 1 .. Len(later) + 1 |-> cut[i] - 1]
  OBVIOUS
<1>10. Cuts(later, left, moved)
  <2>1. later \in Seq(Packets) /\ rest \in Bytes /\ Cuts(later, rest, cut) /\ left \in Bytes
    BY <1>2, <1>4, <1>5, <1>6
  <2>2. Cuts(later, left, [i \in 1 .. Len(later) + 1 |-> cut[i] - 1])
    BY ONLY <1>7, <1>8, <2>1, CutsRead
  <2> QED
    BY <1>9, <2>2
<1>11. Len(later) \in Nat /\ \A i \in 1 .. Len(later) + 1 : moved[i] = cut[i] - 1 /\ cut[i] \in Int
  BY <1>2, <1>9, LenProperties DEF Cuts
<1>12. Later(later, moved)'
  <2>1. moved[Len(later) + 1] - moved[1] = cut[Len(later) + 1] - cut[1]
    BY <1>11
  <2> QED
    BY <1>1, <1>6, <1>10, <2>1 DEF Later
<1>13. Byte1 = rest[1]
  BY <1>3, <1>4
<1>14. ASSUME NEW i \in 1 .. Len(later) + 1, NEW off \in Nat, cut[i] = 1 - off
       PROVE  /\ i \in 1 .. Len(later) /\ later[i] \in Packets
              /\ off < Len(later[i]) + 5 => Byte1 = FrameOf(later[i])[off + 1]
  <2>1. rest \in Bytes /\ Cuts(later, rest, cut) /\ later \in Seq(Packets)
    BY <1>2, <1>4, <1>6
  <2>2. off \in Nat /\ 1 \in 1 .. Len(rest) /\ i \in 1 .. Len(later) + 1 /\ cut[i] = 1 - off
    BY <1>7, <1>14
  <2>3. /\ i \in 1 .. Len(later) /\ later[i] \in Packets
        /\ off + 1 <= Len(later[i]) + 5 => rest[1] = FrameOf(later[i])[off + 1]
    BY <2>1, <2>2, CutsNext
  <2>4. Len(later[i]) \in Nat
    BY <2>3, PacketBytes
  <2> QED
    BY <1>13, <1>14, <2>3, <2>4
<1> QED
  BY <1>1, <1>2, <1>3, <1>11, <1>12, <1>14 DEF ReadLater

(* Where the search for the magic number starts after a wrong size.        *)
LEMMA Resumed ==
  ASSUME NEW later \in Seq(Packets), NEW rest \in Bytes, NEW cut, Cuts(later, rest, cut),
         cut[1] <= 0, cut[1] >= -1 - BufSize
  PROVE  \/ \E i \in 2 .. Len(later) + 1 : cut[i] = 1 /\ Near(cut, i - 1)
         \/ \E i \in 1 .. Len(later), off \in Nat :
              /\ cut[i] = 1 - off /\ 0 < off /\ off < Len(later[i]) + 5
              /\ Near(cut, i)
<1>1. /\ Len(later) \in Nat /\ Len(rest) \in Nat /\ BufSize \in Nat
      /\ \A j \in 1 .. Len(later) : later[j] \in Packets /\ Len(later[j]) \in Nat
  BY LenProperties, ElementOfSeq, PacketBytes, ReceiverAssumption DEF Bytes
<1>2. /\ \A j \in 1 .. Len(later) + 1 : cut[j] \in Int
      /\ cut[Len(later) + 1] = Len(rest) + 1
      /\ \A j \in 1 .. Len(later) : cut[j + 1] = cut[j] + Len(later[j]) + 5
  BY <1>1 DEF Cuts
<1>3. PICK i \in 1 .. Len(later) + 1 : cut[i] <= 1 /\ (i <= Len(later) => cut[i + 1] > 1)
  <2>1. cut[1] <= 1
    BY <1>1, <1>2
  <2> QED
    BY <2>1, CutsReached
<1>4. cut[1] \in Int /\ cut[i] \in Int /\ (i <= Len(later) => i \in 1 .. Len(later))
  BY <1>1, <1>2
<1>5. CASE cut[i] = 1
  <2>1. i \in 2 .. Len(later) + 1
    <3>1. i # 1
      BY <1>4, <1>5
    <3> QED
      BY <1>1, <3>1
  <2>2. Near(cut, i - 1)
    <3>1. i - 1 \in 1 .. Len(later) /\ (i - 1) + 1 = i
      BY <1>1, <2>1
    <3>2. /\ cut[i] = cut[i - 1] + Len(later[i - 1]) + 5 /\ cut[i - 1] \in Int
          /\ Len(later[i - 1]) \in Nat
      BY <1>1, <1>2, <3>1
    <3>3. PICK x \in Int, y \in Int, z \in Nat, b \in Nat :
            x = cut[i - 1] /\ y = cut[1] /\ z = Len(later[i - 1]) /\ b = BufSize
      BY <1>1, <1>4, <3>2
    <3>4. 1 = x + z + 5 /\ y >= -1 - b
      <4>1. cut[1] >= -1 - BufSize
        OBVIOUS
      <4> QED
        BY <1>5, <3>2, <3>3, <4>1
    <3>5. x - y < b + 2
      <4>1. x \in Int /\ y \in Int /\ z \in Nat /\ b \in Nat
        BY <3>3
      <4> QED
        BY ONLY <3>4, <4>1
    <3> QED
      BY <3>3, <3>5 DEF Near
  <2> QED
    BY <1>5, <2>1, <2>2
<1>6. CASE cut[i] # 1
  <2> DEFINE c == cut[i]
  <2>1. c \in Int /\ c <= 0
    <3>1. cut[i] <= 1 /\ cut[i] \in Int
      BY <1>3, <1>4
    <3> QED
      BY <1>6, <3>1
  <2>2. i \in 1 .. Len(later)
    <3>1. i # Len(later) + 1
      BY <1>1, <1>2, <2>1
    <3> QED
      BY <1>1, <3>1
  <2>3. /\ cut[i + 1] = cut[i] + Len(later[i]) + 5 /\ cut[i + 1] > 1
        /\ Len(later[i]) \in Nat
    BY <1>1, <1>2, <1>3, <1>4, <2>2
  <2> HIDE DEF c
  <2>4. PICK off : off = 1 - c
    OBVIOUS
  <2>5. /\ off \in Nat /\ c = 1 - off /\ 0 < off
        /\ off < Len(later[i]) + 5
    <3>1. c + Len(later[i]) + 5 > 1
      BY <2>3 DEF c
    <3> QED
      BY <2>1, <2>3, <2>4, <3>1
  <2>6. Near(cut, i)
    <3>1. c - cut[1] < BufSize + 2
      BY <1>1, <1>4, <2>1
    <3> QED
      BY <3>1 DEF Near, c
  <2> QED
    BY <2>2, <2>5, <2>6 DEF c
<1> QED
  BY <1>5, <1>6

(* readRawPacket returns what a wrong size made it read.                   *)
LEMMA ReturnsSomewhere ==
  ASSUME NEW later, NEW cut, Later(later, cut)', rbr' \in Bytes, bytes' \in Bytes,
         cut[1] \in Int, cut[1] >= -1 - BufSize,
         reading' = "answering", prolog_magic' = <<0, 0, 0>>
  PROVE  Where(later, cut)'
<1>1. CASE cut[1] >= 1
  BY <1>1 DEF Where, Astray
<1>2. CASE cut[1] <= 0
  <2>1. PICK rest : rest = rbr' \o bytes'
    OBVIOUS
  <2>2. later \in Seq(Packets) /\ rest \in Bytes /\ Cuts(later, rest, cut)
    BY <2>1, Joined DEF Later, Rest
  <2>3. Len(later) \in Nat
    BY <2>2, LenProperties
  <2>4. ASSUME NEW i \in 2 .. Len(later) + 1, cut[i] = 1, Near(cut, i - 1)
        PROVE  Where(later, cut)'
    <3>1. i \in 1 .. Len(later) + 1 /\ i > 1
      BY <2>3
    <3>2. Caught(later, cut, i)'
      BY <2>4, <3>1 DEF Caught, Near
    <3> QED
      BY <3>1, <3>2 DEF Where
  <2>5. ASSUME NEW i \in 1 .. Len(later), NEW off \in Nat,
               cut[i] = 1 - off, 0 < off, off < Len(later[i]) + 5, Near(cut, i)
        PROVE  Where(later, cut)'
    <3>1. \A m \in 1 .. 3 : prolog_magic'[m] = 0 /\ ~(m > 3 - 0)
      OBVIOUS
    <3>2. Missed(later, cut, i)'
      BY <2>5, <3>1 DEF Missed, Near
    <3> QED
      BY <2>3, <3>2 DEF Where
  <2> QED
    BY <1>2, <2>2, <2>4, <2>5, Resumed
<1> QED
  BY <1>1, <1>2

LEMMA ReadResync ==
  ASSUME ResyncInv, Tidy', NEW what, read_serial(what),
         \A later, cut, moved :
           /\ Later(later, cut) /\ ReadLater(later, cut, moved)
           /\ AllPlain(later) /\ Where(later, cut)
           => Where(later, moved)'
  PROVE  ResyncInv'
<1>1. PICK later, cut : Later(later, cut) /\ (AllPlain(later) => Where(later, cut))
  BY DEF ResyncInv
<1>2. Tidy
  BY DEF ResyncInv
<1>3. PICK moved : ReadLater(later, cut, moved)
  BY <1>1, <1>2, ByteReadLater
<1>4. Later(later, moved)'
  BY <1>3 DEF ReadLater
<1>5. AllPlain(later) => Where(later, moved)'
  BY <1>1, <1>3
<1> QED
  BY <1>4, <1>5 DEF ResyncInv

-----------------------------------------------------------------------------
(* The search for the magic number.  What it takes for one is the          *)
(* beginning of a frame, once the frames are plain.                        *)
LEMMA Searched ==
  ASSUME MagicIsDistinct, Tidy, SearchMagic,
         NEW later, NEW cut, NEW moved, Later(later, cut), ReadLater(later, cut, moved),
         AllPlain(later), Where(later, cut)
  PROVE  Where(later, moved)'
<1> DEFINE w == prolog_magic  d == Byte1  v == Append(Tail(w), d)
<1>1. /\ reading = "magic" /\ prolog_magic' = v
      /\ reading' = IF v = MAGIC_NUMBER THEN "sizeHigh" ELSE "magic"
  BY DEF SearchMagic, read_serial, Shift
<1>2. w \in Nat \X Nat \X Nat /\ d \in Nat
  BY DEF Tidy, ReadLater
<1>3. v \in Nat \X Nat \X Nat /\ v[1] = w[2] /\ v[2] = w[3] /\ v[3] = d
  BY <1>2, ShiftedIn
<1> HIDE DEF w, d, v
<1>4. v = MAGIC_NUMBER <=> /\ v[1] = MAGIC_NUMBER[1]
                           /\ v[2] = MAGIC_NUMBER[2]
                           /\ v[3] = MAGIC_NUMBER[3]
  BY <1>3, MagicIs
<1>5. MAGIC_NUMBER[1] # 0 /\ MAGIC_NUMBER[1] # MAGIC_NUMBER[3]
  BY DEF MagicIsDistinct
<1>6. Len(later) \in Nat
  BY LenProperties DEF Later
<1>7. /\ \A i \in 1 .. Len(later) + 1 : moved[i] = cut[i] - 1 /\ cut[i] \in Int
      /\ moved[1] = cut[1] - 1 /\ cut[1] \in Int
      /\ \A i \in 1 .. Len(later) + 1, off \in Nat :
           cut[i] = 1 - off => /\ i \in 1 .. Len(later) /\ later[i] \in Packets
                               /\ off < Len(later[i]) + 5 => d = FrameOf(later[i])[off + 1]
  BY <1>6 DEF ReadLater, d
<1>8. \A p \in Packets : /\ FrameOf(p) \in Bytes /\ Len(FrameOf(p)) = Len(p) + 5
                         /\ Len(p) \in Nat
                         /\ \A j \in 1 .. 3 : FrameOf(p)[j] = MAGIC_NUMBER[j]
  BY FrameBytes, PacketBytes
<1>9. ASSUME NEW i \in 1 .. Len(later) + 1, cut[i] = 1
      PROVE  Where(later, moved)'
  <2>1. i \in 1 .. Len(later) /\ later[i] \in Packets /\ moved[i] = 0
    BY <1>7, <1>9
  <2>2. d = MAGIC_NUMBER[1]
    <3>1. PICK off \in Nat : off = 0 /\ cut[i] = 1 - off
      BY <1>9
    <3>2. off < Len(later[i]) + 5 => d = FrameOf(later[i])[off + 1]
      BY <1>7, <3>1
    <3>3. off < Len(later[i]) + 5 /\ off + 1 = 1
      BY <1>8, <2>1, <3>1
    <3>4. FrameOf(later[i])[1] = MAGIC_NUMBER[1]
      BY <1>8, <2>1
    <3> QED
      BY <3>2, <3>3, <3>4
  <2>3. v[3] = MAGIC_NUMBER[1] /\ reading' = "magic"
    BY <1>1, <1>3, <1>4, <1>5, <2>2
  <2>4. Caught(later, moved, i)'
    BY <1>1, <1>6, <2>1, <2>3 DEF Caught
  <2> QED
    BY <1>9, <2>4 DEF Where
<1>10. CASE Astray(cut)
  <2>1. cut[1] >= 1
    BY <1>1, <1>10 DEF Astray
  <2>2. CASE cut[1] > 1
    <3>1. moved[1] >= 1
      BY <1>7, <2>2
    <3> QED
      BY <3>1 DEF Where, Astray
  <2>3. CASE cut[1] = 1
    BY <1>6, <1>9, <2>3
  <2> QED
    BY <1>7, <2>1, <2>2, <2>3
<1>11. ASSUME NEW i \in 1 .. Len(later), Missed(later, cut, i)
       PROVE  Where(later, moved)'
  <2> DEFINE f == FrameOf(later[i])
  <2>1. PICK off \in Nat, n \in 0 .. 3 :
          /\ n < off /\ off < Len(later[i]) + 5 /\ cut[i] = 1 - off
          /\ \A m \in 1 .. 3 : w[m] = IF m > 3 - n THEN f[off - 3 + m] ELSE 0
    BY <1>11 DEF Missed, w
  <2>2. i \in 1 .. Len(later) + 1 /\ later[i] \in Packets
    BY <1>6, <1>7, <2>1
  <2>3. d = f[off + 1] /\ f \in Bytes /\ Len(f) = Len(later[i]) + 5 /\ Len(later[i]) \in Nat
    BY <1>7, <1>8, <2>1, <2>2
  <2>4. moved[i] = 1 - (off + 1)
    BY <1>7, <2>1, <2>2
  <2>5. Near(moved, i)
    <3>1. PICK x \in Int, y \in Int : x = cut[i] /\ y = cut[1]
      BY <1>7, <2>2
    <3>2. moved[i] = x - 1 /\ moved[1] = y - 1 /\ (x - 1) - (y - 1) = x - y
      BY <1>7, <2>2, <3>1
    <3> QED
      BY <1>11, <3>1, <3>2 DEF Missed, Near
  <2>6. Plain(f)
    BY DEF AllPlain
  <2> HIDE DEF f
  <2>7. PICK r \in 0 .. 3 : r = IF n = 3 THEN 3 ELSE n + 1
    OBVIOUS
  <2>8. \A m \in 1 .. 3 : v[m] = IF m > 3 - r THEN f[(off + 1) - 3 + m] ELSE 0
    <3>1. off - 3 + 2 = (off + 1) - 3 + 1 /\ off - 3 + 3 = (off + 1) - 3 + 2
          /\ off + 1 = (off + 1) - 3 + 3
      BY <2>1
    <3>2. v[1] = IF 2 > 3 - n THEN f[(off + 1) - 3 + 1] ELSE 0
      BY <1>3, <2>1, <3>1
    <3>3. v[2] = IF 3 > 3 - n THEN f[(off + 1) - 3 + 2] ELSE 0
      BY <1>3, <2>1, <3>1
    <3>4. v[3] = f[(off + 1) - 3 + 3]
      BY <1>3, <2>3, <3>1
    <3> QED
      BY <2>7, <3>2, <3>3, <3>4
  <2>9. v # MAGIC_NUMBER
    <3>1. CASE r < 3
      BY <1>4, <1>5, <2>8, <3>1
    <3>2. CASE r = 3
      <4>1. off >= 3 /\ off + 1 <= Len(f)
        BY <2>1, <2>3, <2>7, <3>2
      <4>2. ~\A m \in 1 .. 3 : f[off - 2 + m] = MAGIC_NUMBER[m]
        BY <2>3, <2>6, <4>1, PlainFrame
      <4>3. \A m \in 1 .. 3 : v[m] = f[off - 2 + m]
        <5>1. \A m \in 1 .. 3 : (off + 1) - 3 + m = off - 2 + m /\ m > 3 - r
          BY <3>2
        <5> QED
          BY <2>8, <5>1
      <4> QED
        BY <1>4, <4>2, <4>3
    <3> QED
      BY <3>1, <3>2
  <2>10. reading' = "magic"
    BY <1>1, <2>9
  <2>11. CASE off + 1 < Len(later[i]) + 5
    <3>1. r < off + 1 /\ off + 1 \in Nat
      BY <2>1, <2>7
    <3>2. Missed(later, moved, i)'
      BY <1>1, <2>4, <2>5, <2>8, <2>10, <2>11, <3>1 DEF Missed, Near, f
    <3> QED
      BY <2>2, <3>2 DEF Where
  <2>12. CASE ~(off + 1 < Len(later[i]) + 5)
    <3>1. i + 1 \in 1 .. Len(later) + 1 /\ i + 1 > 1 /\ (i + 1) - 1 = i
      BY <1>6
    <3>2. cut[i + 1] = cut[i] + Len(later[i]) + 5
      BY DEF Later, Cuts
    <3>3. moved[i + 1] = 1
      <4>1. moved[i + 1] = cut[i + 1] - 1
        BY <1>7, <3>1
      <4>2. off + 1 = Len(later[i]) + 5 /\ cut[i] = 1 - off
        BY <2>1, <2>3, <2>12
      <4>3. PICK z \in Nat : z = Len(later[i])
        BY <2>3
      <4>4. ((1 - off) + z + 5) - 1 = 1
        BY <4>2, <4>3
      <4> QED
        BY <3>2, <4>1, <4>2, <4>3, <4>4
    <3>4. Caught(later, moved, i + 1)'
      BY <2>5, <2>10, <3>1, <3>3 DEF Caught, Near
    <3> QED
      BY <3>1, <3>4 DEF Where
  <2> QED
    BY <2>11, <2>12
<1>12. ASSUME NEW i \in 1 .. Len(later) + 1, Caught(later, cut, i)
       PROVE  Where(later, moved)'
  <2>1. CASE cut[i] = 1
    BY <1>9, <2>1
  <2>2. CASE i <= Len(later) /\ cut[i] = 0 /\ w[3] = MAGIC_NUMBER[1]
    <3>1. PICK off \in Nat : off = 1
      OBVIOUS
    <3>2. cut[i] = 1 - off
      BY <2>2, <3>1
    <3>3. i \in 1 .. Len(later) /\ later[i] \in Packets /\ moved[i] = -1
      BY <1>7, <2>2, <3>2
    <3>4. d = MAGIC_NUMBER[2]
      BY <1>7, <1>8, <3>1, <3>2, <3>3
    <3>5. v[2] = MAGIC_NUMBER[1] /\ v[3] = MAGIC_NUMBER[2] /\ reading' = "magic"
      BY <1>1, <1>3, <1>4, <1>5, <2>2, <3>4
    <3>6. Caught(later, moved, i)'
      BY <1>1, <1>6, <3>3, <3>5 DEF Caught
    <3> QED
      BY <3>6 DEF Where
  <2>3. CASE /\ i <= Len(later) /\ cut[i] = -1
             /\ w[2] = MAGIC_NUMBER[1] /\ w[3] = MAGIC_NUMBER[2]
    <3>1. PICK off \in Nat : off = 2
      OBVIOUS
    <3>2. cut[i] = 1 - off
      BY <2>3, <3>1
    <3>3. i \in 1 .. Len(later) /\ later[i] \in Packets /\ moved[i] = -2
      <4>1. i \in 1 .. Len(later) /\ later[i] \in Packets
        BY <1>7, <3>2
      <4>2. moved[i] = cut[i] - 1
        BY <1>7
      <4> QED
        BY <2>3, <4>1, <4>2
    <3>4. d = MAGIC_NUMBER[3]
      <4>1. off < Len(later[i]) + 5 /\ off + 1 = 3
        BY <1>8, <3>1, <3>3
      <4>2. d = FrameOf(later[i])[off + 1]
        BY <1>7, <3>2, <4>1
      <4> QED
        BY <1>8, <3>3, <4>1, <4>2
    <3>5. reading' = "sizeHigh"
      BY <1>1, <1>3, <1>4, <2>3, <3>4
    <3>6. Found(later, moved, i)'
      BY <3>3, <3>5 DEF Found
    <3> QED
      BY <3>6 DEF Where
  <2> QED
    BY <1>12, <2>1, <2>2, <2>3 DEF Caught, w
<1>13. \A i : ~Found(later, cut, i)
  BY <1>1 DEF Found
<1> QED
  BY <1>10, <1>11, <1>12, <1>13 DEF Where, Missed

LEMMA SearchResync ==
  ASSUME MagicIsDistinct, ResyncInv, SearchMagic
  PROVE  ResyncInv'
<1>1. /\ Tidy /\ read_serial("magic") /\ reading = "magic"
      /\ prolog_magic' = Append(Tail(prolog_magic), Byte1)
      /\ reading' \in {"magic", "sizeHigh"}
      /\ UNCHANGED <<sent, inRawBuf, received, lostAt>>
  BY DEF ResyncInv, SearchMagic, Shift, read_serial, line, losses
<1>2. PICK later, cut : Later(later, cut)
  BY DEF ResyncInv
<1>3. PICK moved : ReadLater(later, cut, moved)
  BY <1>1, <1>2, ByteReadLater
<1>4. prolog_magic' \in Nat \X Nat \X Nat
  BY <1>1, <1>3, ShiftedIn DEF Tidy, ReadLater
<1>5. Tidy'
  BY <1>1, <1>3, <1>4 DEF Tidy, ReadLater
<1> QED
  BY <1>1, <1>5, Searched, ReadResync

LEMMA SizeHighResync ==
  ASSUME ResyncInv, ReadSizeHigh
  PROVE  ResyncInv'
<1>1. /\ Tidy /\ read_serial("sizeHigh") /\ reading = "sizeHigh"
      /\ size' = Byte1 /\ reading' = "sizeLow"
      /\ UNCHANGED <<sent, prolog_magic, inRawBuf, received, lostAt>>
  BY DEF ResyncInv, ReadSizeHigh, read_serial, line, losses
<1>2. PICK later, cut : Later(later, cut)
  BY DEF ResyncInv
<1>3. \E moved : ReadLater(later, cut, moved)
  BY <1>1, <1>2, ByteReadLater
<1>4. Tidy'
  BY <1>1, <1>3 DEF Tidy, ReadLater
<1>5. ASSUME NEW l, NEW c, NEW moved, Later(l, c), ReadLater(l, c, moved), Where(l, c)
      PROVE  Where(l, moved)'
  <2>1. Len(l) \in Nat
    BY <1>5, LenProperties DEF Later
  <2>2. CASE Astray(c)
    <3>1. c[1] >= 1 /\ moved[1] = c[1] - 1 /\ c[1] \in Int
      BY <1>1, <1>5, <2>1, <2>2 DEF Astray, ReadLater
    <3>2. moved[1] >= 0
      BY <3>1
    <3> QED
      BY <1>1, <3>2 DEF Where, Astray
  <2>3. ASSUME NEW i \in 1 .. Len(l) + 1, Found(l, c, i) PROVE Where(l, moved)'
    <3>1. i \in 1 .. Len(l) /\ c[i] = -2
      BY <1>1, <2>3 DEF Found
    <3>2. moved[i] = -3
      <4>1. moved[i] = c[i] - 1
        BY <1>5 DEF ReadLater
      <4> QED
        BY <3>1, <4>1
    <3>3. PICK off \in Nat : off = 3
      OBVIOUS
    <3>4. c[i] = 1 - off
      BY <3>1, <3>3
    <3>5. l[i] \in Packets /\ (off < Len(l[i]) + 5 => Byte1 = FrameOf(l[i])[off + 1])
      BY <1>5, <3>4 DEF ReadLater
    <3>6. Len(l[i]) \in Nat /\ FrameOf(l[i])[4] = u2B(Len(l[i]))[1]
      BY <3>5, PacketBytes, FrameBytes
    <3>7. Byte1 = u2B(Len(l[i]))[1]
      BY <3>3, <3>5, <3>6
    <3>8. Found(l, moved, i)'
      BY <1>1, <3>1, <3>2, <3>7 DEF Found
    <3> QED
      BY <3>8 DEF Where
  <2> QED
    BY <1>1, <1>5, <2>2, <2>3 DEF Where, Missed, Caught
<1> QED
  BY <1>1, <1>4, <1>5, ReadResync

LEMMA SizeLowResync ==
  ASSUME ResyncInv, ReadSizeLow
  PROVE  ResyncInv'
<1>1. /\ Tidy /\ read_serial("sizeLow") /\ reading = "sizeLow" /\ inRawBuf = <<>>
      /\ size' = B2u(size, Byte1)
      /\ \/ size' = 0 /\ Return(<<>>)
         \/ size' > 0 /\ reading' = "packet" /\ UNCHANGED <<prolog_magic, inRawBuf, received>>
      /\ UNCHANGED <<sent, lostAt>>
  BY DEF ResyncInv, ReadSizeLow, read_serial, line, losses, Tidy
<1>2. PICK later, cut : Later(later, cut)
  BY DEF ResyncInv
<1>3. \E moved : ReadLater(later, cut, moved)
  BY <1>1, <1>2, ByteReadLater
<1>4. ASSUME NEW l, NEW c, NEW moved, ReadLater(l, c, moved),
             NEW i \in 1 .. Len(l) + 1, Found(l, c, i)
      PROVE  /\ i \in 1 .. Len(l) /\ moved[i] = -4 - 0
             /\ size' = Len(l[i]) /\ Len(l[i]) \in Nat \ {0}
  <2>1. i \in 1 .. Len(l) /\ c[i] = -3 /\ size = u2B(Len(l[i]))[1]
    BY <1>1, <1>4 DEF Found
  <2>2. PICK off \in Nat : off = 4
    OBVIOUS
  <2>3. c[i] = 1 - off
    BY <2>1, <2>2
  <2>4. l[i] \in Packets /\ (off < Len(l[i]) + 5 => Byte1 = FrameOf(l[i])[off + 1])
    BY <1>4, <2>3 DEF ReadLater
  <2>5. Len(l[i]) \in Nat \ {0} /\ FrameOf(l[i])[5] = u2B(Len(l[i]))[2]
    BY <2>4, PacketBytes, FrameBytes
  <2>6. Byte1 = u2B(Len(l[i]))[2]
    BY <2>2, <2>4, <2>5
  <2>7. moved[i] = c[i] - 1
    BY <1>4 DEF ReadLater
  <2> QED
    BY <1>1, <2>1, <2>5, <2>6, <2>7, SizeBytes
<1>5. CASE size' = 0 /\ Return(<<>>)
  <2>1. /\ received' = Append(received, <<>>) /\ reading' = "answering"
        /\ prolog_magic' = <<0, 0, 0>> /\ inRawBuf' = <<>>
    BY <1>5 DEF Return
  <2>2. received' \in Seq(Bytes)
    BY <1>1, <2>1, Appended DEF Tidy, Bytes
  <2>3. Tidy'
    BY <1>1, <1>3, <2>1, <2>2 DEF Tidy, ReadLater
  <2>4. ASSUME NEW l, NEW c, NEW moved, Later(l, c), ReadLater(l, c, moved), Where(l, c)
        PROVE  Where(l, moved)'
    <3>1. Len(l) \in Nat
      BY <2>4, LenProperties DEF Later
    <3>2. CASE Astray(c)
      <4>1. c[1] >= 0 /\ moved[1] = c[1] - 1 /\ c[1] \in Int
        BY <1>1, <2>4, <3>1, <3>2 DEF Astray, ReadLater
      <4>2. moved[1] \in Int /\ moved[1] >= -1 - BufSize
        BY <4>1, ReceiverAssumption
      <4> QED
        BY <2>1, <2>4, <4>2, ReturnsSomewhere DEF ReadLater
    <3>3. ASSUME NEW i \in 1 .. Len(l) + 1, Found(l, c, i) PROVE FALSE
      BY <1>1, <1>4, <1>5, <2>4, <3>3
    <3> QED
      BY <1>1, <2>4, <3>2, <3>3 DEF Where, Missed, Caught
  <2> QED
    BY <1>1, <2>3, <2>4, ReadResync
<1>6. CASE size' > 0 /\ reading' = "packet" /\ UNCHANGED <<prolog_magic, inRawBuf, received>>
  <2>1. Tidy'
    BY <1>1, <1>3, <1>6 DEF Tidy, ReadLater
  <2>2. ASSUME NEW l, NEW c, NEW moved, Later(l, c), ReadLater(l, c, moved), Where(l, c)
        PROVE  Where(l, moved)'
    <3>1. Len(l) \in Nat
      BY <2>2, LenProperties DEF Later
    <3>2. CASE Astray(c)
      <4>1. c[1] >= 0 /\ moved[1] = c[1] - 1 /\ c[1] \in Int
        BY <1>1, <2>2, <3>1, <3>2 DEF Astray, ReadLater
      <4>2. moved[1] >= -1 - 0 /\ Len(inRawBuf') = 0
        BY <1>1, <1>6, <4>1
      <4> QED
        BY <1>6, <4>2 DEF Where, Astray
    <3>3. ASSUME NEW i \in 1 .. Len(l) + 1, Found(l, c, i) PROVE Where(l, moved)'
      <4>1. Found(l, moved, i)'
        BY <1>1, <1>4, <1>6, <2>2, <3>3 DEF Found
      <4> QED
        BY <4>1 DEF Where
    <3> QED
      BY <1>1, <2>2, <3>2, <3>3 DEF Where, Missed, Caught
  <2> QED
    BY <1>1, <2>1, <2>2, ReadResync
<1> QED
  BY <1>1, <1>5, <1>6

LEMMA PacketResync ==
  ASSUME ResyncInv, ReadByte
  PROVE  ResyncInv'
<1> DEFINE packet == Append(inRawBuf, Byte1)
<1>1. /\ Tidy /\ read_serial("packet") /\ reading = "packet" /\ Len(inRawBuf) < BufSize
      /\ \/ Len(packet) = size /\ Return(packet)
         \/ /\ Len(packet) < size
            /\ inRawBuf' = packet
            /\ UNCHANGED <<reading, prolog_magic, received>>
      /\ UNCHANGED <<sent, lostAt, size>>
  BY DEF ResyncInv, ReadByte, read_serial, line, losses
<1>2. PICK later, cut : Later(later, cut)
  BY DEF ResyncInv
<1>3. \E moved : ReadLater(later, cut, moved)
  BY <1>1, <1>2, ByteReadLater
<1>4. inRawBuf \in Bytes /\ Len(inRawBuf) \in Nat /\ BufSize \in Nat /\ Byte1 \in Nat
  BY <1>1, <1>3, LenProperties, ReceiverAssumption DEF Tidy, ReadLater, Bytes
<1>5. /\ packet \in Bytes /\ Len(packet) = Len(inRawBuf) + 1
      /\ packet[Len(inRawBuf) + 1] = Byte1
      /\ \A j \in 1 .. Len(inRawBuf) : packet[j] = inRawBuf[j]
  BY <1>4, Appended DEF Bytes
<1> HIDE DEF packet
<1>6. ASSUME NEW l, NEW c, NEW moved, Later(l, c), ReadLater(l, c, moved), Astray(c)
      PROVE  moved[1] \in Int /\ moved[1] >= -1 - Len(packet)
  <2>1. Len(l) \in Nat
    BY <1>6, LenProperties DEF Later
  <2>2. moved[1] = c[1] - 1 /\ c[1] \in Int
    BY <1>6, <2>1 DEF ReadLater
  <2>3. c[1] >= 1 \/ c[1] >= -1 - Len(inRawBuf)
    BY <1>1, <1>6 DEF Astray
  <2> QED
    BY <1>4, <1>5, <2>2, <2>3
<1>7. ASSUME NEW l, NEW c, NEW moved, Later(l, c), ReadLater(l, c, moved),
             NEW i \in 1 .. Len(l) + 1, Found(l, c, i)
      PROVE  /\ i \in 1 .. Len(l) /\ l[i] \in Bytes /\ Len(l[i]) \in Nat /\ size = Len(l[i])
             /\ moved[i] = -4 - Len(packet)
             /\ \A j \in 1 .. Len(packet) : packet[j] = l[i][j]
  <2>1. /\ i \in 1 .. Len(l) /\ size = Len(l[i]) /\ Len(inRawBuf) < size
        /\ c[i] = -4 - Len(inRawBuf)
        /\ \A j \in 1 .. Len(inRawBuf) : inRawBuf[j] = l[i][j]
    BY <1>1, <1>7 DEF Found
  <2>2. PICK off \in Nat : off = 5 + Len(inRawBuf)
    BY <1>4
  <2>3. c[i] = 1 - off
    BY <1>4, <2>1, <2>2
  <2>4. l[i] \in Packets /\ (off < Len(l[i]) + 5 => Byte1 = FrameOf(l[i])[off + 1])
    BY <1>7, <2>3 DEF ReadLater
  <2>5. /\ l[i] \in Bytes /\ Len(l[i]) \in Nat
        /\ \A j \in 1 .. Len(l[i]) : FrameOf(l[i])[5 + j] = l[i][j]
    BY <2>4, PacketBytes, FrameBytes
  <2>6. Byte1 = l[i][Len(inRawBuf) + 1]
    <3>1. Len(inRawBuf) + 1 \in 1 .. Len(l[i]) /\ off + 1 = 5 + (Len(inRawBuf) + 1)
      BY <1>4, <2>1, <2>2, <2>5
    <3>2. off < Len(l[i]) + 5
      BY <1>4, <2>1, <2>2, <2>5
    <3> QED
      BY <2>4, <2>5, <3>1, <3>2
  <2>7. ASSUME NEW j \in 1 .. Len(packet) PROVE packet[j] = l[i][j]
    <3>1. CASE j = Len(inRawBuf) + 1
      BY <1>5, <2>6, <3>1
    <3>2. CASE j \in 1 .. Len(inRawBuf)
      BY <1>5, <2>1, <3>2
    <3> QED
      BY <1>4, <1>5, <3>1, <3>2
  <2>8. moved[i] = c[i] - 1
    BY <1>7 DEF ReadLater
  <2> QED
    BY <1>4, <1>5, <2>1, <2>5, <2>7, <2>8
<1>8. CASE Len(packet) = size /\ Return(packet)
  <2>1. /\ received' = Append(received, packet) /\ reading' = "answering"
        /\ prolog_magic' = <<0, 0, 0>> /\ inRawBuf' = <<>>
    BY <1>8 DEF Return
  <2>2. received \in Seq(Bytes)
    BY <1>1 DEF Tidy
  <2>3. /\ received' \in Seq(Bytes) /\ Len(received') = Len(received) + 1
        /\ received'[Len(received) + 1] = packet /\ Len(received) \in Nat
    BY <1>5, <2>1, <2>2, Appended, LenProperties
  <2>4. received' # <<>> /\ received'[Len(received')] = packet
    BY <2>3, EmptySeq
  <2>5. Tidy'
    <3>1. inRawBuf' \in Bytes /\ Len(inRawBuf') <= BufSize
      BY <1>4, <2>1 DEF Bytes
    <3> QED
      BY <1>1, <1>3, <2>1, <2>3, <3>1 DEF Tidy, ReadLater
  <2>6. ASSUME NEW l, NEW c, NEW moved, Later(l, c), ReadLater(l, c, moved), Where(l, c)
        PROVE  Where(l, moved)'
    <3>1. CASE Astray(c)
      <4>1. moved[1] \in Int /\ moved[1] >= -1 - BufSize
        BY <1>1, <1>4, <1>5, <1>6, <2>6, <3>1
      <4> QED
        BY <2>1, <2>6, <4>1, ReturnsSomewhere DEF ReadLater
    <3>2. ASSUME NEW i \in 1 .. Len(l) + 1, Found(l, c, i) PROVE Where(l, moved)'
      <4>1. /\ i \in 1 .. Len(l) /\ l[i] \in Bytes /\ Len(l[i]) \in Nat /\ size = Len(l[i])
            /\ moved[i] = -4 - Len(packet)
            /\ \A j \in 1 .. Len(packet) : packet[j] = l[i][j]
        BY <1>7, <2>6, <3>2
      <4>2. packet = l[i]
        BY <1>5, <1>8, <4>1, SeqEqual DEF Bytes
      <4>3. Len(l) \in Nat
        BY <2>6, LenProperties DEF Later
      <4>4. i + 1 \in 1 .. Len(l) + 1 /\ i + 1 > 1 /\ (i + 1) - 1 = i
        BY <4>1, <4>3
      <4>5. moved[i + 1] = 1
        <5>1. moved[i + 1] = moved[i] + Len(l[i]) + 5
          BY <2>6, <4>1 DEF ReadLater, Later, Cuts
        <5> QED
          BY <1>8, <4>1, <5>1
      <4>6. Caught(l, moved, i + 1)'
        BY <2>1, <2>4, <4>2, <4>4, <4>5 DEF Caught
      <4> QED
        BY <4>4, <4>6 DEF Where
    <3> QED
      BY <1>1, <2>6, <3>1, <3>2 DEF Where, Missed, Caught
  <2> QED
    BY <1>1, <2>5, <2>6, ReadResync
<1>9. CASE /\ Len(packet) < size
           /\ inRawBuf' = packet
           /\ UNCHANGED <<reading, prolog_magic, received>>
  <2>1. Tidy'
    BY <1>1, <1>3, <1>4, <1>5, <1>9 DEF Tidy, ReadLater
  <2>2. ASSUME NEW l, NEW c, NEW moved, Later(l, c), ReadLater(l, c, moved), Where(l, c)
        PROVE  Where(l, moved)'
    <3>1. CASE Astray(c)
      BY <1>1, <1>6, <1>9, <2>2, <3>1 DEF Where, Astray
    <3>2. ASSUME NEW i \in 1 .. Len(l) + 1, Found(l, c, i) PROVE Where(l, moved)'
      <4>1. Found(l, moved, i)'
        BY <1>1, <1>7, <1>9, <2>2, <3>2 DEF Found
      <4> QED
        BY <4>1 DEF Where
    <3> QED
      BY <1>1, <2>2, <3>1, <3>2 DEF Where, Missed, Caught
  <2> QED
    BY <1>1, <2>1, <2>2, ReadResync
<1> QED
  BY <1>1, <1>8, <1>9

LEMMA OverrunsResync ==
  ASSUME ResyncInv, Overrun
  PROVE  ResyncInv'
<1>1. /\ Tidy /\ read_serial("packet") /\ reading' = "overrun" /\ reading = "packet"
      /\ UNCHANGED <<sent, lostAt, prolog_magic, inRawBuf, received>>
  BY DEF ResyncInv, Overrun, read_serial, line, losses
<1>2. PICK later, cut : Later(later, cut)
  BY DEF ResyncInv
<1>3. \E moved : ReadLater(later, cut, moved)
  BY <1>1, <1>2, ByteReadLater
<1>4. Tidy'
  BY <1>1, <1>3 DEF Tidy, ReadLater
<1>5. \A l, c : Where(l, c)'
  BY <1>1 DEF Where, Astray
<1> QED
  BY <1>1, <1>4, <1>5, ReadResync

LEMMA StepResync ==
  ASSUME MagicIsDistinct, ResyncInv, [Next]_vars
  PROVE  ResyncInv'
<1>1. CASE UNCHANGED vars
  <2>1. UNCHANGED <<sent, bytes, received, rbr, reading, prolog_magic, size, inRawBuf,
                    lostAt, passed>>
    BY <1>1 DEF vars, receiver, line, losses, uartVars
  <2>2. Tidy' /\ Rest' = Rest
    BY <2>1 DEF ResyncInv, Tidy, Rest
  <2>3. \A later, cut : Where(later, cut) => Where(later, cut)'
    BY <2>1 DEF Where, Astray, Missed, Caught, Found, Near
  <2> QED
    BY <2>1, <2>2, <2>3, SameResync
<1> QED
  BY <1>1, SendResync, DeliverResync, OverrunResync, StartUpResync, SearchResync,
     SizeHighResync, SizeLowResync, PacketResync, OverrunsResync, AnsweredResync
     DEF Next, Server, readRawPacket

(* The invariant, once the line has fallen silent.                         *)
LEMMA SilentInStep ==
  ASSUME ResyncInv
  PROVE  Resynchronises
<1> SUFFICES ASSUME bytes = <<>>, rbr = <<>>, reading \notin {"startup", "overrun"},
                    \A i \in lostAt + 1 .. Len(sent) : Plain(FrameOf(sent[i])),
                    passed > 0, passed - Len(FrameOf(sent[Len(sent)])) >= BufSize + 2
             PROVE  /\ reading \in {"magic", "answering"}
                    /\ received # <<>> /\ received[Len(received)] = sent[Len(sent)]
  BY DEF Resynchronises
<1>1. Tidy
  BY DEF ResyncInv
<1>2. PICK later, cut : Later(later, cut) /\ (AllPlain(later) => Where(later, cut))
  BY DEF ResyncInv
<1>3. PICK N : N = Len(later)
  OBVIOUS
<1>4. /\ N \in Nat /\ lostAt \in Nat /\ Len(sent) = lostAt + N /\ Len(inRawBuf) \in Nat
      /\ BufSize \in Nat /\ Len(inRawBuf) <= BufSize
      /\ \A i \in 1 .. N : later[i] = sent[lostAt + i]
      /\ \A i \in 1 .. N : later[i] \in Packets
  BY <1>1, <1>2, <1>3, LenProperties, ElementOfSeq, ReceiverAssumption DEF Tidy, Later, Bytes
<1>5. AllPlain(later)
  <2>1. \A i \in 1 .. N : lostAt + i \in lostAt + 1 .. Len(sent)
    BY <1>4
  <2> QED
    BY <1>3, <1>4, <2>1 DEF AllPlain
<1>6. Rest = <<>> /\ Len(Rest) = 0
  BY DEF Rest
<1>7. /\ \A i \in 1 .. N + 1 : cut[i] \in Int /\ cut[i] <= 1
      /\ cut[N + 1] = 1 /\ passed = 1 - cut[1]
      /\ \A i \in 1 .. N : cut[i + 1] = cut[i] + Len(later[i]) + 5
  <2>1. Cuts(later, <<>>, cut) /\ passed = cut[N + 1] - cut[1]
    BY <1>2, <1>3, <1>6 DEF Later
  <2>2. cut[N + 1] = 0 + 1 /\ \A i \in 1 .. N + 1 : cut[i] \in Int /\ cut[i] <= 0 + 1
    BY <1>3, <2>1 DEF Cuts
  <2>3. \A i \in 1 .. N : cut[i + 1] = cut[i] + Len(later[i]) + 5
    BY <1>3, <2>1 DEF Cuts
  <2> QED
    BY <2>1, <2>2, <2>3
<1>8. N >= 1 /\ cut[1] \in Int
  BY <1>4, <1>7
<1>9. \A i \in 1 .. N : Len(later[i]) \in Nat \ {0}
  BY <1>4, PacketBytes
<1>10. sent[Len(sent)] = later[N] /\ Len(FrameOf(later[N])) = 1 - cut[N] /\ cut[N] \in Int
  <2>1. N \in 1 .. N /\ N \in 1 .. N + 1
    BY <1>4, <1>8
  <2>2. Len(FrameOf(later[N])) = Len(later[N]) + 5
    BY <1>4, <2>1, FrameBytes
  <2>3. cut[N + 1] = cut[N] + Len(later[N]) + 5
    BY <1>7, <2>1
  <2>4. sent[Len(sent)] = later[N]
    BY <1>4, <1>7, <2>1
  <2>5. PICK x \in Int, z \in Nat : x = cut[N] /\ z = Len(later[N])
    BY <1>7, <1>9, <2>1
  <2>6. 1 = x + z + 5
    BY <1>7, <2>3, <2>5
  <2>7. z + 5 = 1 - x
    BY ONLY <2>5, <2>6
  <2> QED
    BY <2>2, <2>4, <2>5, <2>7
<1>11. cut[N] - cut[1] >= BufSize + 2
  <2>1. passed - (1 - cut[N]) >= BufSize + 2 /\ passed = 1 - cut[1]
    BY <1>7, <1>10
  <2>2. PICK x \in Int, y \in Int, b \in Nat : x = cut[N] /\ y = cut[1] /\ b = BufSize
    BY <1>4, <1>8, <1>10
  <2>3. (1 - y) - (1 - x) >= b + 2
    BY <2>1, <2>2
  <2>4. x - y >= b + 2
    BY ONLY <2>2, <2>3
  <2> QED
    BY <2>2, <2>4
<1>12. ~Astray(cut)
  <2>1. cut[N] <= 1 /\ cut[N] # 1
    <3>1. N \in 1 .. N /\ N \in 1 .. N + 1
      BY <1>4, <1>8
    <3>2. Len(FrameOf(later[N])) # 0
      <4>1. later[N] \in Packets /\ Len(later[N]) \in Nat
        BY <1>4, <1>9, <3>1
      <4>2. Len(FrameOf(later[N])) = Len(later[N]) + 5
        BY <4>1, FrameBytes
      <4> QED
        BY ONLY <4>1, <4>2
    <3>3. 1 - cut[N] # 0
      BY <1>10, <3>2
    <3> QED
      BY <1>7, <1>10, <3>1, <3>3
  <2>2. PICK x \in Int, y \in Int, b \in Nat, n \in Nat :
          x = cut[N] /\ y = cut[1] /\ b = BufSize /\ n = Len(inRawBuf)
    BY <1>4, <1>8, <1>10
  <2>3. x <= 1 /\ x # 1 /\ x - y >= b + 2 /\ n <= b
    BY <1>4, <1>11, <2>1, <2>2
  <2>4. ~(y >= 1) /\ ~(y >= 0) /\ ~(y >= -1 - n)
    BY ONLY <2>2, <2>3
  <2>5. reading # "overrun"
    OBVIOUS
  <2> QED
    BY <2>2, <2>4, <2>5 DEF Astray
<1>13. ASSUME NEW i \in 1 .. N PROVE cut[i] < -4
  <2>1. i \in 1 .. N + 1 /\ i + 1 \in 1 .. N + 1
    BY <1>4
  <2>2. /\ cut[i + 1] = cut[i] + Len(later[i]) + 5 /\ cut[i + 1] <= 1
        /\ cut[i] \in Int /\ Len(later[i]) \in Nat \ {0}
    BY <1>7, <1>9, <2>1
  <2> QED
    BY <2>2
<1>14. ASSUME NEW i \in 1 .. N PROVE ~Missed(later, cut, i) /\ ~Found(later, cut, i)
  <2>1. i \in 1 .. N + 1 /\ i + 1 \in 1 .. N + 1
    BY <1>4
  <2>2. /\ cut[i] + Len(later[i]) + 5 <= 1 /\ cut[i] \in Int /\ cut[i] < -4
        /\ Len(later[i]) \in Nat
    <3>1. cut[i + 1] = cut[i] + Len(later[i]) + 5 /\ cut[i + 1] <= 1 /\ cut[i] \in Int
      BY <1>7, <2>1
    <3> QED
      BY <1>9, <1>13, <3>1
  <2>3. ~Missed(later, cut, i)
    <3> SUFFICES ASSUME Missed(later, cut, i) PROVE FALSE
      OBVIOUS
    <3>1. PICK off \in Nat : off < Len(later[i]) + 5 /\ cut[i] = 1 - off
      BY DEF Missed
    <3> QED
      BY <2>2, <3>1
  <2>4. ~Found(later, cut, i)
    <3> SUFFICES ASSUME Found(later, cut, i) PROVE FALSE
      OBVIOUS
    <3>1. CASE cut[i] = -2 \/ cut[i] = -3
      BY <2>2, <3>1
    <3>2. CASE Len(inRawBuf) < Len(later[i]) /\ cut[i] = -4 - Len(inRawBuf)
      <4>1. PICK x \in Int, z \in Nat, n \in Nat :
              x = cut[i] /\ z = Len(later[i]) /\ n = Len(inRawBuf)
        BY <1>4, <2>2
      <4>2. n < z /\ x = -4 - n /\ x + z + 5 <= 1
        BY <2>2, <3>2, <4>1
      <4> QED
        BY ONLY <4>1, <4>2
    <3> QED
      BY <3>1, <3>2 DEF Found
  <2> QED
    BY <2>3, <2>4
<1>15. PICK i \in 1 .. N + 1 : Caught(later, cut, i)
  BY <1>2, <1>3, <1>5, <1>12, <1>14 DEF Where, Missed, Found
<1>16. i = N + 1
  <2>1. i \in 1 .. N => cut[i] < -4 /\ cut[i] \in Int
    BY <1>4, <1>7, <1>13
  <2>2. i \notin 1 .. N
    BY <1>15, <2>1 DEF Caught
  <2> QED
    BY <1>4, <2>2
<1>17. /\ reading \in {"magic", "answering"}
       /\ Near(cut, N) \/ (received # <<>> /\ received[Len(received)] = later[N])
  <2>1. i - 1 = N /\ ~(i <= Len(later))
    BY <1>3, <1>4, <1>16
  <2> QED
    BY <1>15, <2>1 DEF Caught
<1>18. ~Near(cut, N)
  BY <1>4, <1>8, <1>10, <1>11 DEF Near
<1> QED
  BY <1>10, <1>17, <1>18

(* Whatever bytes the UART has lost, and however much of a wrong packet    *)
(* the server then takes for one: once a buffer's and a size's worth of    *)
(* plain frames has been sent after the loss, and all that was sent is     *)
(* read, the last packet has been received, unless the buffer has been     *)
(* overrun.                                                                *)
THEOREM BackInStep == ASSUME MagicIsDistinct PROVE Spec => []Resynchronises
<1>1. Init => ResyncInv
  BY InitResync
<1>2. ResyncInv /\ [Next]_vars => ResyncInv'
  BY StepResync
<1>3. ResyncInv => Resynchronises
  BY SilentInStep
<1> QED
  BY <1>1, <1>2, <1>3, PTL DEF Spec
=============================================================================
