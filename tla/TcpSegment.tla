----------------------------- MODULE TcpSegment -----------------------------
(***************************************************************************)
(* The TCP segments the web server exchanges with its peers, and the one   *)
(* function that makes every segment the server sends.  A segment is what  *)
(* parseRawTcpPacket extracts and buildRawTcp writes, without the fields   *)
(* no decision of the code depends on (ports are folded into the host,     *)
(* window, urgent pointer and checksum are left out).                      *)
(***************************************************************************)
EXTENDS Integers

CONSTANTS
  Hosts,   (* address and port of every party, the server's included       *)
  SeqMod,  (* sequence numbers are uint32_t: 2^32 on the machine           *)
  MaxLen,  (* a frame's size is two bytes: 2^16 - 1 on the machine         *)
  PageLen  (* bytes of the one page there is, sizeof(data)                 *)

ASSUME SegmentAssumption ==
  /\ SeqMod \in Nat /\ MaxLen \in Nat /\ MaxLen < SeqMod
  /\ PageLen \in 1 .. MaxLen

SeqNumber == 0 .. SeqMod - 1

(* The flags byte is the set of the bits that are on: the FLAG_* ones and  *)
(* the two tcpip.h has no name for.                                        *)
Flag == {"FIN", "SYN", "RST", "PSH", "ACK", "URG", "ECE", "CWR"}

(* len is payloadSz, an int: what the frame holds beyond the header's data *)
(* offset, negative when the offset points beyond the frame.               *)
Segment == [src : Hosts, dst : Hosts, seq : SeqNumber, ack : SeqNumber,
            flags : SUBSET Flag, len : -MaxLen .. MaxLen]

(* uint32_t addition.                                                      *)
PlusUnbounded(a, n) == a + n
Plus(a, n) == (a + n) % SeqMod

(* What the server adds to the peer's sequence number to acknowledge it:   *)
(* the payload it carried, or 1 for any segment without payload, be it a   *)
(* SYN, a FIN or a bare acknowledgement.                                   *)
AckAdvanceAlwaysOne(last) == last.len + 1
AckAdvanceByProtocol(last) ==
  last.len + (IF {"SYN", "FIN"} \cap last.flags = {} THEN 0 ELSE 1)
AckAdvance(last) == IF last.len = 0 THEN 1 ELSE last.len

(* The answer to a segment: ends exchanged, the peer's own acknowledgement *)
(* number as sequence number.  Nothing else is remembered of a connection. *)
ReplyOneBehind(last, flags, len) ==
  [src |-> last.dst, dst |-> last.src, seq |-> Plus(last.ack, SeqMod - 1),
   ack |-> Plus(last.seq, AckAdvance(last)), flags |-> flags, len |-> len]
buildRawTcpIpPacket(last, flags, len) ==
  [src |-> last.dst, dst |-> last.src, seq |-> last.ack,
   ack |-> Plus(last.seq, AckAdvance(last)), flags |-> flags, len |-> len]
=============================================================================
