------------------------------ MODULE Checksum ------------------------------
(***************************************************************************)
(* The Internet checksum as tcpip.c computes it, against RFC 1071.  The    *)
(* numbers are scaled: a byte has ByteBase values (256 on the machine), a  *)
(* word of two bytes Base.  The state machine sends one segment, built by  *)
(* the host or by the server, over a line that may damage one byte of it.  *)
(***************************************************************************)
EXTENDS Integers, Sequences

CONSTANTS
  ByteBase,   (* values of a byte                                          *)
  Headers,    (* pseudo headers: the words checksumTcp starts from         *)
  Lengths     (* bound: lengths of a segment, its checksum not counted     *)

Byte == 0 .. ByteBase - 1
Base == ByteBase * ByteBase
Word == 0 .. Base - 1

(* A frame has fewer bytes than a word has values.  checksumIp starts from *)
(* nothing, which is the empty pseudo header.                              *)
ASSUME ChecksumAssumption ==
  /\ ByteBase \in Nat /\ ByteBase > 1
  /\ Lengths \subseteq Nat
  /\ Headers \subseteq Seq(Word)
  /\ \A n \in Lengths, h \in Headers : Len(h) + (n + 3) \div 2 < Base

VARIABLES
  builder,  (* who built the segment: "nobody", "host", "server"           *)
  header,   (* the pseudo header                                           *)
  data,     (* the segment without its checksum                            *)
  wire,     (* checksum and segment as they arrive                         *)
  damaged

vars == <<builder, header, data, wire, damaged>>

-----------------------------------------------------------------------------
toNative16(net) == net[1] * ByteBase + net[2]
toNetwork16(val) == <<val \div ByteBase, val % ByteBase>>

(* The words of a block of bytes, an odd last byte being a high one.       *)
WordsDropOdd(bytes) ==
  [i \in 1 .. Len(bytes) \div 2 |-> toNative16(<<bytes[2 * i - 1], bytes[2 * i]>>)]
Words(bytes) ==
  [i \in 1 .. (Len(bytes) + 1) \div 2 |->
     toNative16(<<bytes[2 * i - 1], IF 2 * i > Len(bytes) THEN 0 ELSE bytes[2 * i]>>)]

(* The loop of _checksum: chksum32[i] is the sum of the first i words.     *)
SumOf(words) ==
  LET chksum32[i \in 0 .. Len(words)] ==
        IF i = 0 THEN 0 ELSE chksum32[i - 1] + words[i]
  IN  chksum32[Len(words)]

Sum32(bytes) == SumOf(header \o Words(bytes))

(* "compute 1's complement 16-bit sum": the carries are added once.        *)
FoldNothing(sum) == sum % Base
FoldOnce(sum) == (sum \div Base) + (sum % Base)

(* "compute 1's complement" of the 32-bit number, of which uint16_t keeps  *)
(* the lower half.                                                         *)
ComplementOf(sum) == (Base * Base - 1 - FoldOnce(sum)) % Base

checksum(bytes) == ComplementOf(Sum32(bytes))

-----------------------------------------------------------------------------
(* RFC 1071: one's complement addition carries around until none is left.  *)
OnesPlus(a, b) == IF a + b < Base THEN a + b ELSE a + b - Base + 1

HostWords(bytes) ==
  LET padded == IF Len(bytes) % 2 = 0 THEN bytes ELSE Append(bytes, 0)
  IN  [i \in 1 .. Len(padded) \div 2 |->
         padded[2 * i - 1] * ByteBase + padded[2 * i]]

OnesSumOf(words) ==
  LET sum[i \in 0 .. Len(words)] ==
        IF i = 0 THEN 0 ELSE OnesPlus(sum[i - 1], words[i])
  IN  sum[Len(words)]

OnesSum(bytes) == OnesSumOf(header \o HostWords(bytes))

HostChecksum(bytes) == Base - 1 - OnesSum(bytes)
HostAccepts(bytes) == OnesSum(bytes) = Base - 1

(* validateTcpPacket, and parseRawIpPacket for its header.                 *)
ServerAccepts(bytes) == checksum(bytes) = 0

Init ==
  /\ builder = "nobody" /\ wire = <<>> /\ damaged = FALSE
  /\ header \in Headers
  /\ data \in UNION {[1 .. n -> Byte] : n \in Lengths}

(* The field is zero while the sum is computed, and first in the segment.  *)
HostBuilds ==
  /\ builder = "nobody"
  /\ builder' = "host"
  /\ wire' = toNetwork16(HostChecksum(data)) \o data
  /\ UNCHANGED <<header, data, damaged>>

(* buildRawTcpIpPacket, for the TCP and for the IP checksum.               *)
ServerBuilds ==
  /\ builder = "nobody"
  /\ builder' = "server"
  /\ wire' = toNetwork16(checksum(data)) \o data
  /\ UNCHANGED <<header, data, damaged>>

DamageByte ==
  /\ builder # "nobody" /\ ~damaged
  /\ \E i \in 1 .. Len(wire), b \in Byte :
       b # wire[i] /\ wire' = [wire EXCEPT ![i] = b]
  /\ damaged' = TRUE
  /\ UNCHANGED <<builder, header, data>>

Next == HostBuilds \/ ServerBuilds \/ DamageByte

Spec == Init /\ [][Next]_vars

-----------------------------------------------------------------------------
(* validateTcpPacket drops no segment a host has built and the line has    *)
(* delivered as it was: folding once is enough to validate.                *)
HostSegmentsAccepted ==
  builder = "host" /\ ~damaged => ServerAccepts(wire)

(* ... and it drops every one in which one byte has been damaged.          *)
DamageNoticed ==
  builder = "host" /\ damaged => ~ServerAccepts(wire)

(* What _checksum computes for a segment the server sends is a checksum    *)
(* exactly if the carries, added once, leave no carry.                     *)
AnswersAcceptedBarCarry ==
  builder = "server" /\ ~damaged =>
    (HostAccepts(wire) <=> FoldOnce(Sum32(data)) < Base)

(* tcpip.c line 73, "compute 1's complement 16-bit sum": every host        *)
(* accepts every segment the server builds.                                *)
AnswersAccepted ==
  builder = "server" /\ ~damaged => HostAccepts(wire)
=============================================================================
