------------------------------ MODULE BothWays ------------------------------
(* The two directions of the serial line side by side: frames for the      *)
(* server are SerialReceiver's, frames from it SocketToTun's.  Socket and  *)
(* UART keep them apart and the proxy has a thread for each, so that one   *)
(* direction does not depend on what the other carries.                    *)
EXTENDS SerialReceiver

CONSTANTS
  OutPackets, MaxOut, Chunk   (* SocketToTun's                             *)

VARIABLES
  outSent, outBytes, outReceived, pkt, filling, packetSize

outwards == <<outSent, outBytes, outReceived, pkt, filling, packetSize>>

Out == INSTANCE SocketToTun WITH
  Packets <- OutPackets, MaxFrames <- MaxOut,
  sent <- outSent, bytes <- outBytes, received <- outReceived, size <- packetSize

(* A packet the server builds is not empty, and recv asks for bytes.       *)
ASSUME OutAssumption ==
  /\ MaxOut \in Nat /\ Chunk \in Nat \ {0}
  /\ OutPackets \subseteq Seq(Byte)
  /\ \A p \in OutPackets : Len(p) \in 1 .. ByteBase * ByteBase - 1

(* SocketToTun's: the stream is neither lost nor torn, packets arrive in   *)
(* order, one that comes alone is forwarded; that every packet is, as the  *)
(* readme has it, fails (socket2tun.run).                                  *)
NothingLost == Out!NothingLost
ForwardsInOrder == Out!ForwardsInOrder
LoneFrameForwarded == Out!LoneFrameForwarded
EveryPacketForwarded == Out!EveryPacketForwarded
=============================================================================
