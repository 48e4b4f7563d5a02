---------------------------- MODULE PacketCodec -----------------------------
(***************************************************************************)
(* IP and TCP headers byte by byte: what parseRawIpPacket,                 *)
(* validateTcpPacket and parseRawTcpPacket make of a buffer, what          *)
(* buildRawTcp and buildRawIp write, and what hosts send.  Headers have    *)
(* the fields and lengths of the RFCs; a byte has Nibble * Nibble values.  *)
(***************************************************************************)
EXTENDS Integers, Sequences

CONSTANT Nibble   (* values of half a byte, 16 on the machine             *)

ASSUME NibbleAssumption == Nibble \in Nat /\ Nibble > 7

ByteBase == Nibble * Nibble
Base == ByteBase * ByteBase
Byte == 0 .. ByteBase - 1
Word == 0 .. Base - 1
Long == 0 .. Base * Base - 1

None == <<>>

Sum(pseudoHeader) == INSTANCE Checksum WITH
  Headers <- {}, Lengths <- {}, header <- pseudoHeader,
  builder <- "nobody", data <- <<>>, wire <- <<>>, damaged <- FALSE

(* _checksum, the test of validateTcpPacket and parseRawIpPacket, and what *)
(* hosts compute.                                                          *)
checksum(pseudoHeader, bytes) == Sum(pseudoHeader)!checksum(bytes)
Validates(pseudoHeader, bytes) == Sum(pseudoHeader)!ServerAccepts(bytes)
HostSum(pseudoHeader, bytes) == Sum(pseudoHeader)!OnesSum(bytes)
HostChecksum(pseudoHeader, bytes) == Base - 1 - HostSum(pseudoHeader, bytes)
LeavesCarry(pseudoHeader, bytes) ==
  Sum(pseudoHeader)!FoldOnce(Sum(pseudoHeader)!Sum32(bytes)) >= Base

toNetwork16(val) == <<(val \div ByteBase) % ByteBase, val % ByteBase>>
toNetwork32(val) == toNetwork16(val \div Base) \o toNetwork16(val % Base)

(* toNative16(raw + i) and toNative32(raw + i) of the C program.           *)
toNative16(raw, i) == raw[i + 1] * ByteBase + raw[i + 2]
toNative32(raw, i) == toNative16(raw, i) * Base + toNative16(raw, i + 2)

(* The words checksumTcp starts from.                                      *)
PseudoHeader(src, dst, protocol, sz) ==
  <<src \div Base, src % Base, dst \div Base, dst % Base, protocol, sz % Base>>

IPv4 == 4
PROTOCOL_TCP == 6

-----------------------------------------------------------------------------
(* What hosts put on the wire (RFC 791, RFC 793), options included.  Of    *)
(* identification, flags, time to live and window, which nobody looks at,  *)
(* they have the server's.  Options come in words, as many as a nibble     *)
(* counts.                                                                 *)
Options == {o \in Seq(Byte) : Len(o) % 4 = 0 /\ 5 + Len(o) \div 4 < Nibble}
Packet ==
  [src : Long, dst : Long, srcPort : Word, dstPort : Word, seq : Long, ack : Long,
   flags : Byte \cap 0 .. 255, protocol : Byte,
   ipOptions : Options, tcpOptions : Options, payload : Seq(Byte)]

SizeOf(p) == 40 + Len(p.ipOptions) + Len(p.tcpOptions) + Len(p.payload)

DontFragment == 2 * (ByteBase \div 8)
TimeToLive == ByteBase \div 4
Window == <<7 * Nibble + 2, Nibble>>

HostIp(p, chksum, payload) ==
  LET words == 5 + Len(p.ipOptions) \div 4
  IN  <<IPv4 * Nibble + words, 0>> \o toNetwork16(4 * words + Len(payload))
      \o <<1, 0, DontFragment, 0>> \o <<TimeToLive, p.protocol>>
      \o chksum \o toNetwork32(p.src) \o toNetwork32(p.dst)
      \o p.ipOptions \o payload

HostTcp(p, chksum) ==
  toNetwork16(p.srcPort) \o toNetwork16(p.dstPort)
  \o toNetwork32(p.seq) \o toNetwork32(p.ack)
  \o <<(5 + Len(p.tcpOptions) \div 4) * Nibble, p.flags>> \o Window
  \o chksum \o <<0, 0>> \o p.tcpOptions \o p.payload

Zero == <<0, 0>>
Pseudo(p) == PseudoHeader(p.src, p.dst, p.protocol, Len(HostTcp(p, Zero)))

HostFrame(p) ==
  LET tcp == HostTcp(p, toNetwork16(HostChecksum(Pseudo(p), HostTcp(p, Zero))))
      header == SubSeq(HostIp(p, Zero, tcp), 1, 20 + Len(p.ipOptions))
  IN  HostIp(p, toNetwork16(HostChecksum(None, header)), tcp)

(* The segment a host means.                                               *)
Meant(p) ==
  [src |-> <<p.src, p.srcPort>>, dst |-> <<p.dst, p.dstPort>>,
   seq |-> p.seq, ack |-> p.ack, flags |-> p.flags, len |-> Len(p.payload)]

-----------------------------------------------------------------------------
(* parseRawIpPacket: the fields that are looked at again; payload is where *)
(* it begins.                                                              *)
Ip(raw) ==
  LET len == toNative16(raw, 2)
      ihl == raw[1] % Nibble
  IN  [ver |-> raw[1] \div Nibble, protocol |-> raw[10],
       srcAddr |-> toNative32(raw, 12), dstAddr |-> toNative32(raw, 16),
       payload |-> 4 * ihl, payloadSz |-> len - 4 * ihl]

(* What parseRawIpPacket returns: the checksum is over 20 bytes, whatever  *)
(* ihl, and the cursor must have come to the end.                          *)
IpParsedAnySize(raw, sz) == Validates(None, SubSeq(raw, 1, 20))
IpParsed(raw, sz) ==
  /\ Validates(None, SubSeq(raw, 1, 20))
  /\ Ip(raw).payload + Ip(raw).payloadSz = sz

(* The bytes _checksum adds up; of a negative odd size there is one.       *)
Block(raw, at, sz) ==
  IF sz >= 0 THEN SubSeq(raw, at + 1, at + sz)
  ELSE IF sz % 2 = 1 THEN <<raw[at + sz + 2]>> ELSE <<>>

validateTcpPacket(ip, raw) ==
  Validates(PseudoHeader(ip.srcAddr, ip.dstAddr, ip.protocol, ip.payloadSz),
            Block(raw, ip.payload, ip.payloadSz))

(* parseRawTcpPacket                                                       *)
Tcp(ip, raw) ==
  LET at == ip.payload
      offset == raw[at + 13] \div Nibble
  IN  [src |-> <<ip.srcAddr, toNative16(raw, at)>>,
       dst |-> <<ip.dstAddr, toNative16(raw, at + 2)>>,
       seq |-> toNative32(raw, at + 4), ack |-> toNative32(raw, at + 8),
       flags |-> raw[at + 14], len |-> ip.payloadSz - 4 * offset]

-----------------------------------------------------------------------------
buildRawTcp(tcp, chksum, payload) ==
  toNetwork16(tcp.src[2]) \o toNetwork16(tcp.dst[2])
  \o toNetwork32(tcp.seq) \o toNetwork32(tcp.ack)
  \o <<5 * Nibble, tcp.flags>> \o Window \o toNetwork16(chksum) \o <<0, 0>>
  \o payload

buildRawIp(tcp, chksum, len, payload) ==
  <<IPv4 * Nibble + 5, 0>> \o toNetwork16(len) \o <<1, 0, DontFragment, 0>>
  \o <<TimeToLive, PROTOCOL_TCP>> \o toNetwork16(chksum)
  \o toNetwork32(tcp.src[1]) \o toNetwork32(tcp.dst[1]) \o payload

(* The answer, a TcpSegment, as bytes: first with the checksums zero, to   *)
(* compute them from.                                                      *)
RawAnswerStaleSum(tcp, payload) ==
  LET zero == buildRawTcp(tcp, 0, <<>>)
      chksum == checksum(PseudoHeader(tcp.src[1], tcp.dst[1], PROTOCOL_TCP, Len(zero)),
                         zero)
      rawTcp == buildRawTcp(tcp, chksum, payload)
      rawIp == buildRawIp(tcp, 0, 40 + Len(payload), rawTcp)
  IN  buildRawIp(tcp, checksum(None, SubSeq(rawIp, 1, 20)),
                 40 + Len(payload), rawTcp)
RawAnswer(tcp, payload) ==
  LET zero == buildRawTcp(tcp, 0, payload)
      chksum == checksum(PseudoHeader(tcp.src[1], tcp.dst[1], PROTOCOL_TCP, Len(zero)),
                         zero)
      rawTcp == buildRawTcp(tcp, chksum, payload)
      rawIp == buildRawIp(tcp, 0, 40 + Len(payload), rawTcp)
  IN  buildRawIp(tcp, checksum(None, SubSeq(rawIp, 1, 20)),
                 40 + Len(payload), rawTcp)
=============================================================================
