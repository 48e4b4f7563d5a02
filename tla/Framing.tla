------------------------------ MODULE Framing -------------------------------
(***************************************************************************)
(* How IP packets travel as bytes on the serial line, in both directions:  *)
(* a magic number, the size of the packet in two bytes, the packet.        *)
(* tun2socket and sendRawPacket write it, readRawPacket and socket2tun     *)
(* read it.  A byte has ByteBase values here instead of 256.               *)
(***************************************************************************)
EXTENDS Integers, Sequences

CONSTANTS
  ByteBase,      (* values of a byte                                       *)
  MAGIC_NUMBER,  (* three bytes, 0F AB 10                                  *)
  Packets,       (* packets there are to send                              *)
  MaxFrames      (* bound: packets sent                                    *)

Byte == 0 .. ByteBase - 1

(* Linux never lets a program read an empty packet from a TUN device.      *)
ASSUME FramingAssumption ==
  /\ ByteBase \in Nat /\ MaxFrames \in Nat
  /\ MAGIC_NUMBER \in [1 .. 3 -> Byte]
  /\ Packets \subseteq Seq(Byte)
  /\ \A p \in Packets : Len(p) \in 1 .. ByteBase * ByteBase - 1

VARIABLES
  sent,      (* history: packets given to the sender, in order             *)
  bytes,     (* what is written and not yet read                           *)
  received   (* history: packets the receiver has handed on, in order      *)

(* u2B(n, 2), and the two shifts of sendRawPacket.                         *)
u2B(n) == <<n \div ByteBase, n % ByteBase>>
B2u(high, low) == high * ByteBase + low

(* tun2socket.run and sendRawPacket: prolog and packet go out as one       *)
(* block, for each direction has one writer.                               *)
FrameWithFullSize(p) == MAGIC_NUMBER \o u2B(Len(p) + 5) \o p
FrameOf(p) == MAGIC_NUMBER \o u2B(Len(p)) \o p

SendFrame ==
  /\ Len(sent) < MaxFrames
  /\ \E p \in Packets :
       /\ sent' = Append(sent, p)
       /\ bytes' = bytes \o FrameOf(p)

FramingInit == sent = <<>> /\ bytes = <<>> /\ received = <<>>

(* What both directions promise: packets come out as they went in.         *)
Channel == INSTANCE FrameChannel
=============================================================================
