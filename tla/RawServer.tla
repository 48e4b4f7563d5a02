----------------------------- MODULE RawServer ------------------------------
(***************************************************************************)
(* The server program on raw frames: readRawPacket leaves a frame in       *)
(* inRawBuf, over what earlier ones have left there; nextTcpIpPacket drops *)
(* it or takes a segment from it; the program acts on that and may send an *)
(* answer.  It implements WebServer, which knows frames only as judged.    *)
(***************************************************************************)
EXTENDS PacketCodec

CONSTANTS
  HostPackets,  (* IPv4 packets hosts send                                 *)
  Foreign,      (* frames of packets that are not IPv4                     *)
  Page,         (* data of kernel_main                                     *)
  BufSize,      (* sizeof(inRawBuf), 2048                                  *)
  Cuts,         (* bound: where a damaged frame is cut or lacks a byte     *)
  MaxDamaged,   (* bound: a damaged frame is one of the first so many      *)
  MaxFrames     (* bound: frames read                                      *)

(* Any ihl is within the buffer, and the header behind it; so is every     *)
(* frame, as the proxy's device has packets of 1500 bytes at most.         *)
ASSUME RawServerAssumption ==
  /\ BufSize \in Nat /\ BufSize >= 4 * Nibble + 20
  /\ HostPackets \subseteq Packet
  /\ \A p \in HostPackets : SizeOf(p) <= BufSize /\ SizeOf(p) < Base
  /\ Foreign \subseteq Seq(Byte)
  /\ \A raw \in Foreign : Len(raw) \in 1 .. BufSize /\ raw[1] \div Nibble # IPv4
  /\ Page \in Seq(Byte) /\ Len(Page) > 0 /\ 40 + Len(Page) < Base
  /\ Cuts \subseteq 0 .. 39   (* a frame has at least 40 bytes              *)

VARIABLES
  pc,        (* where the program waits, as in WebServer                   *)
  doing,     (* "read" a frame, or "parse" it                              *)
  inRawBuf,  (* all of it                                                  *)
  bufSz,     (* size of the last frame                                     *)
  origin,    (* history: the host packet that frame was built from, if any *)
  heard,     (* the segment taken from it, if any                          *)
  answer,    (* the frame being sent in answer to it, if any               *)
  frames,    (* history: number of frames read                             *)
  judged,    (* history: the frame in inRawBuf as WebServer has it         *)
  session    (* history, as in WebServer                                   *)

program == <<pc, heard, answer, session>>
frame == <<inRawBuf, bufSz, origin, frames, judged>>
vars == <<program, frame, doing>>

FLAG_FIN == 1
FLAG_SYN == 2
FLAG_ACK == 16

Init ==
  /\ pc = "listen" /\ session = <<>>
  /\ doing = "read"
  /\ inRawBuf = [i \in 1 .. BufSize |-> 0] /\ bufSz = 0
  /\ origin = None
  /\ heard = None /\ answer = None
  /\ frames = 0 /\ judged = None

-----------------------------------------------------------------------------
(* The tests of nextTcpIpPacket.                                           *)
Accepted(buf, sz) ==
  LET ip == Ip(buf)
  IN  /\ IpParsed(buf, sz)
      /\ ip.ver = IPv4
      /\ ip.protocol = PROTOCOL_TCP
      /\ validateTcpPacket(ip, buf)

Read(buf) == Tcp(Ip(buf), buf)

(* Frames and segments as WebServer has them: a frame that is dropped,     *)
(* whyever, is unfit, and the flags byte is a set.                         *)
FlagBit == [FIN |-> 1, SYN |-> 2, RST |-> 4, PSH |-> 8, ACK |-> 16, URG |-> 32,
            ECE |-> 64, CWR |-> 128]
WithFlagSet(seg) ==
  [seg EXCEPT !.flags = {f \in DOMAIN FlagBit : (@ \div FlagBit[f]) % 2 = 1}]

NoSegment == [src |-> <<0, 0>>, dst |-> <<0, 0>>, seq |-> 0, ack |-> 0, flags |-> {},
              len |-> 0]
Unfit == [ipOk |-> FALSE, ver |-> 0, protocol |-> 0, tcpOk |-> FALSE, seg |-> NoSegment]
Fit(seg) == [ipOk |-> TRUE, ver |-> IPv4, protocol |-> PROTOCOL_TCP, tcpOk |-> TRUE,
             seg |-> WithFlagSet(seg)]

Judgement(buf, sz) == IF Accepted(buf, sz) THEN Fit(Read(buf)) ELSE Unfit

readRawPacket(raw) ==
  /\ doing = "read" /\ answer = None /\ frames < MaxFrames
  /\ \E buf \in {raw \o SubSeq(inRawBuf, Len(raw) + 1, BufSize)} :
       inRawBuf' = buf /\ judged' = Judgement(buf, Len(raw))
  /\ bufSz' = Len(raw)
  /\ heard' = None
  /\ doing' = "parse"
  /\ frames' = frames + 1
  /\ UNCHANGED <<pc, answer, session>>

HostPacketComes ==
  \E p \in HostPackets :
    readRawPacket(HostFrame(p)) /\ origin' = p

ForeignComes ==
  \E raw \in Foreign :
    readRawPacket(raw) /\ origin' = None

(* A frame comes cut short because a wrong size has been read, or with a   *)
(* byte missing and the first of the next frame (15) at the end.           *)
WithoutByte(raw, n) == SubSeq(raw, 1, n) \o SubSeq(raw, n + 2, Len(raw)) \o <<15>>
Damaged(raw) == {SubSeq(raw, 1, n) : n \in Cuts} \cup {WithoutByte(raw, n) : n \in Cuts}

DamagedComes ==
  /\ frames < MaxDamaged
  /\ \E p \in HostPackets : \E raw \in Damaged(HostFrame(p)) :
       readRawPacket(raw) /\ origin' = p

-----------------------------------------------------------------------------
DropFrame ==
  /\ doing = "parse" /\ ~Accepted(inRawBuf, bufSz)
  /\ doing' = "read"
  /\ UNCHANGED <<program, frame>>

(* nextTcpIpPacket returns heard' to where the program waits.              *)
NextTcpIpPacket(wait) ==
  /\ pc = wait
  /\ doing = "parse" /\ Accepted(inRawBuf, bufSz)
  /\ doing' = "read"
  /\ heard' = Read(inRawBuf)
  /\ UNCHANGED frame

Segments == INSTANCE TcpSegment WITH
  Hosts <- Long \X Word, SeqMod <- Base * Base, MaxLen <- Base - 1, PageLen <- Len(Page)

Reply(seg, flags, payload) == Segments!buildRawTcpIpPacket(seg, flags, Len(payload))

(* buildRawTcpIpPacket and sendRawPacket.                                  *)
SendAnswer(flags, payload) ==
  \E reply \in {Reply(heard', flags, payload)} : answer' = RawAnswer(reply, payload)
StaySilent == UNCHANGED answer
Remember == session' = Append(session, WithFlagSet(heard'))

ThreeWayHandshake ==
  \/ /\ NextTcpIpPacket("listen")
     /\ IF heard'.flags = FLAG_SYN
          THEN SendAnswer(FLAG_SYN + FLAG_ACK, <<>>) /\ pc' = "handshake" /\ Remember
          ELSE StaySilent /\ UNCHANGED <<pc, session>>
  \/ /\ NextTcpIpPacket("handshake")
     /\ StaySilent
     /\ IF heard'.flags = FLAG_ACK
          THEN pc' = "request" /\ Remember
          ELSE pc' = "listen" /\ session' = <<>>

ServeRequest ==
  /\ NextTcpIpPacket("request")
  /\ SendAnswer(FLAG_ACK, Page)
  /\ pc' = "ack" /\ Remember

HasFinOnly(flags) == flags = FLAG_FIN
HasFin(flags) == flags % 2 = 1

FourWayClose ==
  \/ /\ NextTcpIpPacket("ack")
     /\ SendAnswer(FLAG_FIN, <<>>)
     /\ pc' = "fin" /\ Remember
  \/ /\ NextTcpIpPacket("fin")
     /\ IF HasFin(heard'.flags)
          THEN SendAnswer(FLAG_ACK, <<>>) /\ pc' = "listen" /\ session' = <<>>
          ELSE StaySilent /\ UNCHANGED <<pc, session>>

(* write_serial has taken the last byte; only then does the program go on. *)
AnswerSent ==
  /\ answer # None
  /\ answer' = None
  /\ UNCHANGED <<frame, doing, pc, heard, session>>

Next ==
  \/ HostPacketComes \/ ForeignComes \/ DamagedComes
  \/ DropFrame \/ ThreeWayHandshake \/ ServeRequest \/ FourWayClose
  \/ AnswerSent

Spec == Init /\ [][Next]_vars

-----------------------------------------------------------------------------
(* What the server takes is a segment a host meant, in every field and in  *)
(* the length of its payload: nothing of a damaged frame, and of one too   *)
(* short for its headers nothing that an earlier frame has left in         *)
(* inRawBuf.                                                               *)
TakesOnlyWhatWasMeant ==
  heard # None => origin # None /\ heard = Meant(origin)

(* A checksum cannot see every damage.  Of the hosts' packets TLC is given *)
(* this holds: a frame with a byte missing that passes the tests says what *)
(* was meant (else the first frame read would violate the above).          *)
DamageShows ==
  \A p \in HostPackets, n \in Cuts :
    Accepted(WithoutByte(HostFrame(p), n), SizeOf(p))
      => Read(WithoutByte(HostFrame(p), n)) = Meant(p)

(* Of the packets without IP options that come whole the server takes all  *)
(* that carry TCP, TCP options or not, odd payload or not, and no other.   *)
(* Of those with IP options, which parseRawIpPacket means to skip, nothing *)
(* is said: its checksum stops after 20 bytes, so that it drops them.      *)
TakesEveryPlainPacket ==
  /\ doing = "read" /\ origin # None /\ origin.ipOptions = <<>>
  /\ SubSeq(inRawBuf, 1, bufSz) = HostFrame(origin)
  => (heard # None <=> origin.protocol = PROTOCOL_TCP)

(* The bytes of an answer are those a host would send for the same segment *)
(* (TcpSegment), except a checksum whose sum leaves a carry (see Checksum).*)
AsPacket(tcp, payload) ==
  [src |-> tcp.src[1], dst |-> tcp.dst[1], srcPort |-> tcp.src[2], dstPort |-> tcp.dst[2],
   seq |-> tcp.seq, ack |-> tcp.ack, flags |-> tcp.flags, protocol |-> PROTOCOL_TCP,
   ipOptions |-> <<>>, tcpOptions |-> <<>>, payload |-> payload]

SameAsHost(raw, p) ==
  LET host == HostFrame(p)
      tcp == HostTcp(p, Zero)
  IN  /\ Len(raw) = Len(host)
      /\ \A i \in DOMAIN raw :
           \/ raw[i] = host[i]
           \/ i \in {11, 12} /\ LeavesCarry(None, SubSeq(HostIp(p, Zero, tcp), 1, 20))
           \/ i \in {37, 38} /\ LeavesCarry(Pseudo(p), tcp)

AnswersAsAHostWould ==
  answer # None =>
    LET reply == Reply(heard, answer[34], SubSeq(answer, 41, Len(answer)))
    IN  SameAsHost(answer, AsPacket(reply, IF reply.len = 0 THEN <<>> ELSE Page))

(* The server on bytes does what WebServer's does on judged frames and     *)
(* segments: any that is not dropped is a segment a host meant, and the    *)
(* answer is one when a host reads it.                                     *)
Judged == INSTANCE WebServer WITH
  Hosts <- Long \X Word, SeqMod <- Base * Base, MaxLen <- Base - 1, PageLen <- Len(Page),
  InFlight <- 1, Arrivals <- {Unfit} \cup {Fit(Meant(p)) : p \in HostPackets},
  rx <- IF doing = "read" THEN <<>> ELSE <<judged>>,
  tx <- IF answer = None THEN <<>> ELSE <<WithFlagSet(Read(answer))>>

ImplementsWebServer == Judged!OpenSpec
=============================================================================
