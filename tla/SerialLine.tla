----------------------------- MODULE SerialLine -----------------------------
(***************************************************************************)
(* The serial line between the server and the host, at the level of whole  *)
(* frames: two FIFO queues.  readRawPacket and sendRawPacket on one side   *)
(* and the two threads of eth2serial.py on the other make it out of bytes; *)
(* that they do is the business of SerialReceiver and SocketToTun.         *)
(***************************************************************************)
EXTENDS TcpSegment, Sequences

CONSTANT InFlight   (* bound: frames on both directions together           *)

ASSUME InFlightAssumption == InFlight \in Nat

IPv4 == 4
PROTOCOL_TCP == 6

(* A frame as its receiver judges it: ipOk is what parseRawIpPacket        *)
(* returns, tcpOk what validateTcpPacket returns.                          *)
Frame == [ipOk : BOOLEAN, ver : Nat, protocol : Nat, tcpOk : BOOLEAN,
          seg : Segment]

(* The tests of nextTcpIpPacket's loop, each of which drops the packet.    *)
Accepted(f) ==
  /\ f.ipOk
  /\ f.ver = IPv4
  /\ f.protocol = PROTOCOL_TCP
  /\ f.tcpOk

VARIABLES
  rx,   (* frames on their way to the server, oldest first                 *)
  tx    (* segments the server has sent and nobody has taken yet           *)

Room == Len(rx) + Len(tx) < InFlight

LineInit == rx = <<>> /\ tx = <<>>
=============================================================================
