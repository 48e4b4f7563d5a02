-------------------------- MODULE WebServer_proofs --------------------------
(***************************************************************************)
(* What the server guarantees whatever arrives, for all values of the      *)
(* constants.                                                              *)
(***************************************************************************)
EXTENDS WebServer, TLAPS

(* uint32_t addition stays in range (Plus).                                *)
LEMMA PlusType ==
  ASSUME NEW a \in SeqNumber, NEW n \in Int
  PROVE  Plus(a, n) \in SeqNumber
  BY SegmentAssumption, SMT DEF Plus, SeqNumber

-----------------------------------------------------------------------------
(* The answer to a segment is a segment (buildRawTcpIpPacket).             *)
LEMMA AnswerType ==
  ASSUME NEW p \in Segment, NEW flags \in SUBSET Flag, NEW len \in 0 .. MaxLen
  PROVE  buildRawTcpIpPacket(p, flags, len) \in Segment
<1>1. AckAdvance(p) \in Int
  BY SegmentAssumption DEF AckAdvance, Segment
<1>2. p.seq \in SeqNumber /\ p.ack \in SeqNumber /\ p.src \in Hosts /\ p.dst \in Hosts
  BY DEF Segment
<1>3. Plus(p.seq, AckAdvance(p)) \in SeqNumber
  BY <1>1, <1>2, PlusType
<1>4. len \in -MaxLen .. MaxLen
  BY SegmentAssumption
<1> QED
  BY <1>2, <1>3, <1>4 DEF buildRawTcpIpPacket, Segment

(* The frame at the head of the line carries a segment.                    *)
LEMMA PacketType ==
  ASSUME rx \in Seq(Frame), rx # <<>>
  PROVE  /\ Head(rx) \in Frame
         /\ Packet \in Segment
         /\ Tail(rx) \in Seq(Frame)
<1>1. Head(rx) \in Frame /\ Tail(rx) \in Seq(Frame)
  OBVIOUS
<1>2. Packet \in Segment
  BY <1>1 DEF Packet, Frame
<1> QED
  BY <1>1, <1>2

(* An answer to the frame at the head of the line may be put on the line.  *)
LEMMA SendType ==
  ASSUME ServerTypeOK, rx # <<>>,
         NEW flags \in SUBSET Flag, NEW len \in {0, PageLen}, SendAnswer(flags, len)
  PROVE  tx' \in Seq(Segment)
<1>1. len \in 0 .. MaxLen
  BY SegmentAssumption
<1>2. Packet \in Segment
  BY PacketType DEF ServerTypeOK
<1>3. buildRawTcpIpPacket(Packet, flags, len) \in Segment
  BY <1>1, <1>2, AnswerType
<1> QED
  BY <1>3 DEF SendAnswer, ServerTypeOK

(* A step of the program keeps the types.                                  *)
LEMMA ServerStepType ==
  ASSUME ServerTypeOK, Server
  PROVE  ServerTypeOK'
<1> USE DEF ServerTypeOK, Waits
<1>1. CASE DropFrame
  BY <1>1, PacketType DEF DropFrame
<1>2. CASE AnswerSyn
  BY <1>2, PacketType, SendType DEF AnswerSyn, NextTcpIpPacket, Flag
<1>3. CASE IgnoreNotSyn
  BY <1>3, PacketType DEF IgnoreNotSyn, NextTcpIpPacket
<1>4. CASE CompleteHandshake
  BY <1>4, PacketType DEF CompleteHandshake, NextTcpIpPacket
<1>5. CASE AbandonHandshake
  BY <1>5, PacketType DEF AbandonHandshake, NextTcpIpPacket
<1>6. CASE ServeRequest
  BY <1>6, PacketType, SendType DEF ServeRequest, NextTcpIpPacket, Flag
<1>7. CASE StartClose
  BY <1>7, PacketType, SendType DEF StartClose, NextTcpIpPacket, Flag
<1>8. CASE AwaitFin
  BY <1>8, PacketType DEF AwaitFin, NextTcpIpPacket
<1>9. CASE FinishClose
  BY <1>9, PacketType, SendType DEF FinishClose, NextTcpIpPacket, Flag
<1> QED
  BY <1>1, <1>2, <1>3, <1>4, <1>5, <1>6, <1>7, <1>8, <1>9 DEF Server

(* Every variable of the server keeps its type, whatever arrives.          *)
THEOREM ServerTypeCorrect == OpenSpec => []ServerTypeOK
<1>1. OpenInit => ServerTypeOK
  BY DEF OpenInit, LineInit, ServerInit, ServerTypeOK, Waits
<1>2. ServerTypeOK /\ [OpenNext]_serverVars => ServerTypeOK'
  <2> SUFFICES ASSUME ServerTypeOK, [OpenNext]_serverVars
               PROVE  ServerTypeOK'
    OBVIOUS
  <2>1. CASE Server
    BY <2>1, ServerStepType
  <2>2. CASE Arrive
    BY <2>2, ArrivalsAssumption DEF Arrive, ServerTypeOK
  <2>3. CASE Transmit
    BY <2>3 DEF Transmit, ServerTypeOK
  <2>4. CASE UNCHANGED serverVars
    BY <2>4 DEF serverVars, ServerTypeOK
  <2> QED
    BY <2>1, <2>2, <2>3, <2>4 DEF OpenNext
<1> QED
  BY <1>1, <1>2, PTL DEF OpenSpec

-----------------------------------------------------------------------------
(* How much of a conversation lies behind the program at each of its five  *)
(* waits; the inductive form of HandshakeFirst.                            *)
SessionMatchesWait ==
  /\ pc = "listen" => session = <<>>
  /\ pc = "handshake" => Len(session) = 1
  /\ pc = "request" => Len(session) = 2
  /\ pc = "ack" => Len(session) = 3
  /\ pc = "fin" => Len(session) = 4
  /\ pc # "listen" => session[1].flags = {"SYN"}
  /\ pc \in {"request", "ack", "fin"} => session[2].flags = {"ACK"}

(* Appending keeps the elements there are.                                 *)
LEMMA AppendKeeps ==
  ASSUME NEW s \in Seq(Segment), NEW p \in Segment, NEW t, t = Append(s, p)
  PROVE  /\ Len(t) = Len(s) + 1
         /\ \A i \in 1 .. Len(s) : t[i] = s[i]
         /\ t[Len(s) + 1] = p
  OBVIOUS

(* A step of the program keeps SessionMatchesWait.                         *)
LEMMA ServerStepSession ==
  ASSUME ServerTypeOK, SessionMatchesWait, Server
  PROVE  SessionMatchesWait'
<1> USE DEF SessionMatchesWait
<1>0. session \in Seq(Segment) /\ rx \in Seq(Frame)
  BY DEF ServerTypeOK
<1>1. CASE DropFrame
  BY <1>1 DEF DropFrame
<1>2. CASE AnswerSyn
  BY <1>2 DEF AnswerSyn
<1>3. CASE IgnoreNotSyn
  BY <1>3 DEF IgnoreNotSyn
<1>4. CASE CompleteHandshake
  <2>1. pc = "handshake" /\ Packet \in Segment /\ Packet.flags = {"ACK"}
    BY <1>0, <1>4, PacketType DEF CompleteHandshake, NextTcpIpPacket
  <2>2. pc' = "request" /\ session' = Append(session, Packet)
    BY <1>4 DEF CompleteHandshake
  <2>3. Len(session') = 2 /\ session'[1] = session[1] /\ session'[2] = Packet
    BY <1>0, <2>1, <2>2, AppendKeeps
  <2> QED
    BY <2>1, <2>2, <2>3
<1>5. CASE AbandonHandshake
  BY <1>5 DEF AbandonHandshake
<1>6. CASE ServeRequest
  <2>1. pc = "request" /\ Packet \in Segment
    BY <1>0, <1>6, PacketType DEF ServeRequest, NextTcpIpPacket
  <2>2. pc' = "ack" /\ session' = Append(session, Packet)
    BY <1>6 DEF ServeRequest
  <2>3. Len(session') = 3 /\ session'[1] = session[1] /\ session'[2] = session[2]
    BY <1>0, <2>1, <2>2, AppendKeeps
  <2> QED
    BY <2>1, <2>2, <2>3
<1>7. CASE StartClose
  <2>1. pc = "ack" /\ Packet \in Segment
    BY <1>0, <1>7, PacketType DEF StartClose, NextTcpIpPacket
  <2>2. pc' = "fin" /\ session' = Append(session, Packet)
    BY <1>7 DEF StartClose
  <2>3. Len(session') = 4 /\ session'[1] = session[1] /\ session'[2] = session[2]
    BY <1>0, <2>1, <2>2, AppendKeeps
  <2> QED
    BY <2>1, <2>2, <2>3
<1>8. CASE AwaitFin
  BY <1>8 DEF AwaitFin
<1>9. CASE FinishClose
  BY <1>9 DEF FinishClose
<1> QED
  BY <1>1, <1>2, <1>3, <1>4, <1>5, <1>6, <1>7, <1>8, <1>9 DEF Server

(* No wait after the handshake is reached without one: kernel_main never   *)
(* serves, closes or waits for a FIN but after a SYN it answered, directly *)
(* followed by a bare ACK (threeWayHandshake).                             *)
THEOREM HandshakeComesFirst == OpenSpec => []HandshakeFirst
<1>1. OpenInit => SessionMatchesWait
  BY DEF OpenInit, ServerInit, SessionMatchesWait
<1>2. ServerTypeOK /\ SessionMatchesWait /\ [OpenNext]_serverVars => SessionMatchesWait'
  <2> SUFFICES ASSUME ServerTypeOK, SessionMatchesWait, [OpenNext]_serverVars
               PROVE  SessionMatchesWait'
    OBVIOUS
  <2>1. CASE Server
    BY <2>1, ServerStepSession
  <2>2. CASE Arrive \/ Transmit \/ UNCHANGED serverVars
    BY <2>2 DEF Arrive, Transmit, serverVars, SessionMatchesWait
  <2> QED
    BY <2>1, <2>2 DEF OpenNext
<1>3. SessionMatchesWait => HandshakeFirst
  BY DEF SessionMatchesWait, HandshakeFirst
<1> QED
  BY <1>1, <1>2, <1>3, ServerTypeCorrect, PTL DEF OpenSpec

-----------------------------------------------------------------------------
(* A step of the program is one of four kinds, as far as the line goes: it *)
(* takes the frame at the head, and sends nothing or one answer to it.     *)
LEMMA ServerStepLine ==
  ASSUME Server
  PROVE  /\ rx # <<>> /\ rx' = Tail(rx)
         /\ \/ tx' = tx
            \/ /\ Accepted(Head(rx))
               /\ \E flags \in SUBSET Flag, len \in {0, PageLen} : SendAnswer(flags, len)
<1> USE DEF NextTcpIpPacket
<1>1. CASE DropFrame
  BY <1>1 DEF DropFrame
<1>2. CASE AnswerSyn
  <2>1. {"SYN", "ACK"} \in SUBSET Flag /\ 0 \in {0, PageLen}
    BY DEF Flag
  <2> QED
    BY <1>2, <2>1 DEF AnswerSyn
<1>3. CASE IgnoreNotSyn \/ CompleteHandshake \/ AbandonHandshake \/ AwaitFin
  BY <1>3 DEF IgnoreNotSyn, CompleteHandshake, AbandonHandshake, AwaitFin
<1>4. CASE ServeRequest
  <2>1. {"ACK"} \in SUBSET Flag /\ PageLen \in {0, PageLen}
    BY DEF Flag
  <2> QED
    BY <1>4, <2>1 DEF ServeRequest
<1>5. CASE StartClose
  <2>1. {"FIN"} \in SUBSET Flag /\ 0 \in {0, PageLen}
    BY DEF Flag
  <2> QED
    BY <1>5, <2>1 DEF StartClose
<1>6. CASE FinishClose
  <2>1. {"ACK"} \in SUBSET Flag /\ 0 \in {0, PageLen}
    BY DEF Flag
  <2> QED
    BY <1>6, <2>1 DEF FinishClose
<1> QED
  BY <1>1, <1>2, <1>3, <1>4, <1>5, <1>6 DEF Server

(* The last answer on the line tells where the program is; with it         *)
(* AnswersInOrder is inductive.                                            *)
LastTellsWait ==
  tx # <<>> =>
    LET p == tx[Len(tx)]
    IN  /\ pc = "listen" => SaysSynAck(p) \/ SaysFinalAck(p)
        /\ pc \in {"handshake", "request"} => SaysSynAck(p)
        /\ pc = "ack" => SaysPage(p)
        /\ pc = "fin" => SaysFin(p)

(* An answer that follows the last one keeps the order.                    *)
LEMMA AppendInOrder ==
  ASSUME tx \in Seq(Segment), AnswersInOrder,
         NEW a \in Segment, tx' = Append(tx, a),
         tx # <<>> => Follows(a, tx[Len(tx)])
  PROVE  /\ AnswersInOrder'
         /\ tx'[Len(tx')] = a
<1>1. Len(tx') = Len(tx) + 1 /\ tx'[Len(tx) + 1] = a
      /\ \A i \in 1 .. Len(tx) : tx'[i] = tx[i]
  BY AppendKeeps
<1>2. ASSUME NEW i \in 1 .. Len(tx') - 1
      PROVE  Follows(tx'[i + 1], tx'[i])
  <2>0. i \in 1 .. Len(tx) /\ Len(tx) \in Nat
    BY <1>1, <1>2
  <2>1. CASE i = Len(tx)
    <3>1. tx # <<>> /\ tx'[i] = tx[Len(tx)] /\ tx'[i + 1] = a
      BY <1>1, <2>0, <2>1
    <3> QED
      BY <3>1
  <2>2. CASE i # Len(tx)
    <3>1. i \in 1 .. Len(tx) - 1 /\ i + 1 \in 1 .. Len(tx)
      BY <2>0, <2>2
    <3>2. Follows(tx[i + 1], tx[i])
      BY <3>1 DEF AnswersInOrder
    <3> QED
      BY <1>1, <2>0, <3>1, <3>2
  <2> QED
    BY <2>1, <2>2
<1>3. AnswersInOrder'
  BY <1>2 DEF AnswersInOrder
<1> QED
  BY <1>1, <1>3

(* The answer the program sends is a segment with those flags and length.  *)
LEMMA Sent ==
  ASSUME ServerTypeOK, rx # <<>>,
         NEW flags \in SUBSET Flag, NEW len \in {0, PageLen}, SendAnswer(flags, len)
  PROVE  \E a \in Segment :
            tx' = Append(tx, a) /\ a.flags = flags /\ a.len = len
<1>1. len \in 0 .. MaxLen
  BY SegmentAssumption
<1>2. Packet \in Segment
  BY PacketType DEF ServerTypeOK
<1>3. buildRawTcpIpPacket(Packet, flags, len) \in Segment
  BY <1>1, <1>2, AnswerType
<1>4. /\ buildRawTcpIpPacket(Packet, flags, len).flags = flags
      /\ buildRawTcpIpPacket(Packet, flags, len).len = len
  BY DEF buildRawTcpIpPacket
<1> QED
  BY <1>3, <1>4 DEF SendAnswer

(* A step of the program keeps the order.                                  *)
LEMMA ServerStepInOrder ==
  ASSUME ServerTypeOK, AnswersInOrder, LastTellsWait, Server
  PROVE  AnswersInOrder' /\ LastTellsWait'
<1> USE DEF LastTellsWait
<1>0. tx \in Seq(Segment) /\ PageLen > 0
  BY SegmentAssumption DEF ServerTypeOK
<1>1. CASE DropFrame \/ IgnoreNotSyn \/ CompleteHandshake \/ AbandonHandshake \/ AwaitFin
  <2>1. tx' = tx
    BY <1>1 DEF DropFrame, IgnoreNotSyn, CompleteHandshake, AbandonHandshake, AwaitFin
  <2>2. \/ pc' = pc
        \/ pc = "handshake" /\ pc' \in {"listen", "request"}
    BY <1>1 DEF DropFrame, IgnoreNotSyn, CompleteHandshake, AbandonHandshake, AwaitFin,
                NextTcpIpPacket
  <2> QED
    BY <2>1, <2>2 DEF AnswersInOrder
<1>2. CASE AnswerSyn
  <2>1. pc = "listen" /\ rx # <<>> /\ SendAnswer({"SYN", "ACK"}, 0) /\ pc' = "handshake"
    BY <1>2 DEF AnswerSyn, NextTcpIpPacket
  <2>2. PICK a \in Segment :
          tx' = Append(tx, a) /\ a.flags = {"SYN", "ACK"} /\ a.len = 0
    BY <2>1, Sent DEF Flag
  <2>3. tx # <<>> => Follows(a, tx[Len(tx)])
    BY <2>1, <2>2 DEF Follows, SaysSynAck
  <2> QED
    BY <1>0, <2>1, <2>2, <2>3, AppendInOrder DEF SaysSynAck
<1>3. CASE ServeRequest
  <2>1. pc = "request" /\ rx # <<>> /\ SendAnswer({"ACK"}, PageLen) /\ pc' = "ack"
    BY <1>3 DEF ServeRequest, NextTcpIpPacket
  <2>2. PICK a \in Segment :
          tx' = Append(tx, a) /\ a.flags = {"ACK"} /\ a.len = PageLen
    BY <2>1, Sent DEF Flag
  <2>3. tx # <<>> => Follows(a, tx[Len(tx)])
    BY <1>0, <2>1, <2>2 DEF Follows, SaysPage
  <2> QED
    BY <1>0, <2>1, <2>2, <2>3, AppendInOrder DEF SaysPage
<1>4. CASE StartClose
  <2>1. pc = "ack" /\ rx # <<>> /\ SendAnswer({"FIN"}, 0) /\ pc' = "fin"
    BY <1>4 DEF StartClose, NextTcpIpPacket
  <2>2. PICK a \in Segment :
          tx' = Append(tx, a) /\ a.flags = {"FIN"} /\ a.len = 0
    BY <2>1, Sent DEF Flag
  <2>3. tx # <<>> => Follows(a, tx[Len(tx)])
    BY <2>1, <2>2 DEF Follows, SaysFin
  <2> QED
    BY <1>0, <2>1, <2>2, <2>3, AppendInOrder DEF SaysFin
<1>5. CASE FinishClose
  <2>1. pc = "fin" /\ rx # <<>> /\ SendAnswer({"ACK"}, 0) /\ pc' = "listen"
    BY <1>5 DEF FinishClose, NextTcpIpPacket
  <2>2. PICK a \in Segment :
          tx' = Append(tx, a) /\ a.flags = {"ACK"} /\ a.len = 0
    BY <2>1, Sent DEF Flag
  <2>3. tx # <<>> => Follows(a, tx[Len(tx)])
    BY <2>1, <2>2 DEF Follows, SaysFinalAck
  <2> QED
    BY <1>0, <2>1, <2>2, <2>3, AppendInOrder DEF SaysFinalAck
<1> QED
  BY <1>1, <1>2, <1>3, <1>4, <1>5 DEF Server

(* The server speaks in the order of a conversation, whoever it talks to   *)
(* and whatever it hears: one page between a SYN/ACK and a FIN, and no FIN *)
(* without a page (kernel_main, fourWayClose).                             *)
THEOREM SpeaksInOrder == OpenSpec => []AnswersInOrder
<1>1. OpenInit => AnswersInOrder /\ LastTellsWait
  BY DEF OpenInit, LineInit, AnswersInOrder, LastTellsWait
<1>2. ServerTypeOK /\ AnswersInOrder /\ LastTellsWait /\ [OpenNext]_serverVars
        => AnswersInOrder' /\ LastTellsWait'
  <2> SUFFICES ASSUME ServerTypeOK, AnswersInOrder, LastTellsWait, [OpenNext]_serverVars
               PROVE  AnswersInOrder' /\ LastTellsWait'
    OBVIOUS
  <2>0. tx \in Seq(Segment)
    BY DEF ServerTypeOK
  <2>1. CASE Server
    BY <2>1, ServerStepInOrder
  <2>2. CASE Arrive \/ UNCHANGED serverVars
    BY <2>2 DEF Arrive, serverVars, AnswersInOrder, LastTellsWait
  <2>3. CASE Transmit
    <3>1. tx # <<>> /\ tx' = Tail(tx) /\ pc' = pc
      BY <2>3 DEF Transmit
    <3>2. Len(tx') = Len(tx) - 1 /\ \A i \in 1 .. Len(tx') : tx'[i] = tx[i + 1]
      BY <2>0, <3>1
    <3>3. AnswersInOrder'
      <4> SUFFICES ASSUME NEW i \in 1 .. Len(tx') - 1
                   PROVE  Follows(tx'[i + 1], tx'[i])
        BY DEF AnswersInOrder
      <4>1. i \in 1 .. Len(tx') /\ i + 1 \in 1 .. Len(tx') /\ i + 1 \in 1 .. Len(tx) - 1
        BY <2>0, <3>2
      <4>2. Follows(tx[(i + 1) + 1], tx[i + 1])
        BY <4>1 DEF AnswersInOrder
      <4> QED
        BY <3>2, <4>1, <4>2
    <3>4. LastTellsWait'
      <4>1. CASE tx' = <<>>
        BY <4>1 DEF LastTellsWait
      <4>2. CASE tx' # <<>>
        <5>1. Len(tx') \in 1 .. Len(tx') /\ Len(tx') + 1 = Len(tx)
          BY <2>0, <3>1, <3>2, <4>2
        <5>2. tx'[Len(tx')] = tx[Len(tx)]
          BY <3>2, <5>1
        <5> QED
          BY <3>1, <5>2 DEF LastTellsWait
      <4> QED
        BY <4>1, <4>2
    <3> QED
      BY <3>3, <3>4
  <2> QED
    BY <2>1, <2>2, <2>3 DEF OpenNext
<1> QED
  BY <1>1, <1>2, ServerTypeCorrect, PTL DEF OpenSpec
=============================================================================
