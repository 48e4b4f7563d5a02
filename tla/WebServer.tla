----------------------------- MODULE WebServer ------------------------------
(***************************************************************************)
(* The server program of MyToyOS2: kernel_main's endless loop with         *)
(* threeWayHandshake and fourWayClose.  It is one thread that blocks in    *)
(* nextTcpIpPacket at five places; an action is everything the program     *)
(* does from one return of nextTcpIpPacket to the next call of it.  pc     *)
(* names the call the program is blocked in:                               *)
(*   "listen"     threeWayHandshake, waiting for a SYN                     *)
(*   "handshake"  threeWayHandshake, waiting for the ACK                   *)
(*   "request"    kernel_main, "receive HTTP GET request"                  *)
(*   "ack"        kernel_main, "wait for ACK"                              *)
(*   "fin"        fourWayClose, "waiting for FIN"                          *)
(* Several definitions come after an altered form of themselves: a bug     *)
(* this code could have, used to see that the properties notice it.        *)
(***************************************************************************)
EXTENDS SerialLine

CONSTANT Arrivals   (* frames that may arrive at any time, from whomever *)

ASSUME ArrivalsAssumption == Arrivals \subseteq Frame

VARIABLES
  pc,       (* where the program is blocked                                *)
  session   (* history: the segments acted on since the server listened    *)

serverOwn == <<pc, session>>
serverVars == <<rx, tx, pc, session>>

Waits == {"listen", "handshake", "request", "ack", "fin"}

ServerInit == pc = "listen" /\ session = <<>>

-----------------------------------------------------------------------------
(* The segment nextTcpIpPacket is about to look at.                        *)
Packet == Head(rx).seg

(* nextTcpIpPacket, called where the program waits, returns Packet.        *)
NextTcpIpPacket(wait) ==
  /\ pc = wait
  /\ rx # <<>>
  /\ Accepted(Head(rx))
  /\ rx' = Tail(rx)

(* buildRawTcpIpPacket and sendRawPacket, as always in answer to Packet.   *)
SendAnswer(flags, len) ==
  tx' = Append(tx, buildRawTcpIpPacket(Packet, flags, len))

(* nextTcpIpPacket drops a frame and reads the next one.                   *)
DropFrame ==
  /\ rx # <<>>
  /\ ~Accepted(Head(rx))
  /\ rx' = Tail(rx)
  /\ UNCHANGED <<tx, pc, session>>

-----------------------------------------------------------------------------
(* threeWayHandshake: the flags must be SYN and nothing else.              *)
AnswerSynAndGoOn ==
  /\ NextTcpIpPacket("listen")
  /\ Packet.flags = {"SYN"}
  /\ SendAnswer({"SYN", "ACK"}, 0)
  /\ pc' = "request"
  /\ session' = <<Packet, Packet>>
AnswerSyn ==
  /\ NextTcpIpPacket("listen")
  /\ Packet.flags = {"SYN"}
  /\ SendAnswer({"SYN", "ACK"}, 0)
  /\ pc' = "handshake"
  /\ session' = <<Packet>>

IgnoreNotSyn ==
  /\ NextTcpIpPacket("listen")
  /\ Packet.flags # {"SYN"}
  /\ UNCHANGED <<tx, pc, session>>

(* threeWayHandshake: a bare ACK, from whoever sends it, completes it.     *)
CompleteHandshakeUnchecked ==
  /\ NextTcpIpPacket("handshake")
  /\ pc' = "request"
  /\ session' = Append(session, Packet)
  /\ UNCHANGED tx
CompleteHandshake ==
  /\ NextTcpIpPacket("handshake")
  /\ Packet.flags = {"ACK"}
  /\ pc' = "request"
  /\ session' = Append(session, Packet)
  /\ UNCHANGED tx

(* ... anything else restarts it; the packet is lost even if it is a SYN.  *)
AbandonHandshake ==
  /\ NextTcpIpPacket("handshake")
  /\ Packet.flags # {"ACK"}
  /\ pc' = "listen"
  /\ session' = <<>>
  /\ UNCHANGED tx

(* kernel_main: whatever comes is taken for the request and answered.      *)
ServeRequestShort ==
  /\ NextTcpIpPacket("request")
  /\ SendAnswer({"ACK"}, PageLen - 1)
  /\ pc' = "ack"
  /\ session' = Append(session, Packet)
ServeRequestBare ==
  /\ NextTcpIpPacket("request")
  /\ SendAnswer({"PSH"}, PageLen)
  /\ pc' = "ack"
  /\ session' = Append(session, Packet)
ServeRequest ==
  /\ NextTcpIpPacket("request")
  /\ SendAnswer({"ACK"}, PageLen)
  /\ pc' = "ack"
  /\ session' = Append(session, Packet)

(* kernel_main: whatever comes is taken for the acknowledgement of the     *)
(* page; fourWayClose answers it with a FIN.                               *)
StartClose ==
  /\ NextTcpIpPacket("ack")
  /\ SendAnswer({"FIN"}, 0)
  /\ pc' = "fin"
  /\ session' = Append(session, Packet)

(* fourWayClose: segments without FIN are skipped ...                      *)
AwaitFin ==
  /\ NextTcpIpPacket("fin")
  /\ "FIN" \notin Packet.flags
  /\ UNCHANGED <<tx, pc, session>>

(* ... and one with FIN gets the final ACK; kernel_main loops.             *)
FinishCloseSilently ==
  /\ NextTcpIpPacket("fin")
  /\ "FIN" \in Packet.flags
  /\ pc' = "listen"
  /\ session' = <<>>
  /\ UNCHANGED tx
FinishCloseOnBareFin ==
  /\ NextTcpIpPacket("fin")
  /\ Packet.flags = {"FIN"}
  /\ SendAnswer({"ACK"}, 0)
  /\ pc' = "listen"
  /\ session' = <<>>
FinishCloseKeepAlive ==
  /\ NextTcpIpPacket("fin")
  /\ "FIN" \in Packet.flags
  /\ SendAnswer({"ACK"}, 0)
  /\ pc' = "request"
  /\ session' = SubSeq(session, 1, 2)
FinishClose ==
  /\ NextTcpIpPacket("fin")
  /\ "FIN" \in Packet.flags
  /\ SendAnswer({"ACK"}, 0)
  /\ pc' = "listen"
  /\ session' = <<>>

Server ==
  \/ DropFrame
  \/ AnswerSyn \/ IgnoreNotSyn
  \/ CompleteHandshake \/ AbandonHandshake
  \/ ServeRequest
  \/ StartClose
  \/ AwaitFin \/ FinishClose

-----------------------------------------------------------------------------
(* The server alone, in an arbitrary environment: any frame of Arrivals    *)
(* may come, and the segment at the head of tx leaves at any time.         *)
Arrive ==
  /\ Room
  /\ \E f \in Arrivals : rx' = Append(rx, f)
  /\ UNCHANGED <<tx, pc, session>>

Transmit ==
  /\ tx # <<>>
  /\ tx' = Tail(tx)
  /\ UNCHANGED <<rx, pc, session>>

OpenInit == LineInit /\ ServerInit

OpenNext == Server \/ Arrive \/ Transmit

OpenSpec == OpenInit /\ [][OpenNext]_serverVars

-----------------------------------------------------------------------------
(* Every variable keeps its type, whatever arrives.                        *)
ServerTypeOK ==
  /\ rx \in Seq(Frame)
  /\ tx \in Seq(Segment)
  /\ pc \in Waits
  /\ session \in Seq(Segment)

(* Whoever sends what: by the time the server waits for a request, for the *)
(* acknowledgement of the page or for the FIN, it has answered a SYN and   *)
(* the very next packet it accepted was a bare ACK; and while it waits for *)
(* a FIN it has served exactly one request (kernel_main, lines 47-71).     *)
HandshakeFirst ==
  /\ pc \in {"request", "ack", "fin"} =>
       /\ Len(session) >= 2
       /\ session[1].flags = {"SYN"}
       /\ session[2].flags = {"ACK"}
  /\ pc = "fin" => Len(session) = 4

(* Whoever sends what: the server's answers are SYN/ACKs, of which the     *)
(* last is followed by one page, one FIN and one ACK, and so on            *)
(* (kernel_main's loop): no page without a handshake of its own, no second *)
(* page, no FIN without a page.  A line that loses nothing shows it.       *)
SaysSynAck(p) == p.flags = {"SYN", "ACK"}
SaysPage(p) == p.flags = {"ACK"} /\ p.len > 0
SaysFin(p) == p.flags = {"FIN"}
SaysFinalAck(p) == p.flags = {"ACK"} /\ p.len = 0

Follows(q, p) ==
  \/ SaysSynAck(q) /\ (SaysSynAck(p) \/ SaysFinalAck(p))
  \/ SaysPage(q) /\ SaysSynAck(p)
  \/ SaysFin(q) /\ SaysPage(p)
  \/ SaysFinalAck(q) /\ SaysFin(p)

AnswersInOrder == \A i \in 1 .. Len(tx) - 1 : Follows(tx[i + 1], tx[i])
=============================================================================
