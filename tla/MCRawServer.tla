---------------------------- MODULE MCRawServer -----------------------------
(* Values for RawServer's constants: the packets of a conversation, with   *)
(* payload of odd length, with options of TCP, with options of IP whose    *)
(* sum is zero or is not; UDP, and a router solicitation of IPv6.          *)
EXTENDS RawServer

PacketOf(flags_, payload_) ==
  [src |-> 70001, dst |-> 70002, srcPort |-> 300, dstPort |-> 888,
   seq |-> Base * Base - 2, ack |-> 4097, flags |-> flags_,
   protocol |-> PROTOCOL_TCP, ipOptions |-> <<>>, tcpOptions |-> <<>>,
   payload |-> payload_]

Request == PacketOf(24, <<9, 8, 7>>)

MCHostPackets ==
  { [PacketOf(FLAG_SYN, <<>>) EXCEPT !.tcpOptions = <<2, 4, 5, 52>>],
    PacketOf(FLAG_ACK, <<>>), Request, PacketOf(FLAG_FIN + FLAG_ACK, <<>>),
    [Request EXCEPT !.ipOptions = <<1, 1, 1, 1>>],
    [Request EXCEPT !.ipOptions = <<0, 0, 0, 0>>],
    [Request EXCEPT !.protocol = 17] }

MCForeign == { <<48, 0, 0, 0, 0, 8, 58, 63>> \o [i \in 1 .. 40 |-> i] }

(* Every frame has at least 40 bytes.                                      *)
MCCuts == 0 .. 39

MCPage == <<60, 61, 62, 0>>
=============================================================================
