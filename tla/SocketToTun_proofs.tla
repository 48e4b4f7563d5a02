-------------------------- MODULE SocketToTun_proofs --------------------------
(***************************************************************************)
(* socket2tun never gets out of step with the stream: whatever the packets *)
(* and however recv cuts what the server writes, packets reach the TUN     *)
(* device whole, once and in order.                                        *)
(***************************************************************************)
EXTENDS SocketToTun, Framing_proofs

(* The first n elements of a sequence and what Drop leaves.                *)
LEMMA Split ==
  ASSUME NEW a \in Bytes, NEW n \in 0 .. Len(a)
  PROVE  /\ SubSeq(a, 1, n) \in Bytes /\ Len(SubSeq(a, 1, n)) = n
         /\ \A j \in 1 .. n : SubSeq(a, 1, n)[j] = a[j]
         /\ Drop(a, n) \in Bytes /\ Len(Drop(a, n)) = Len(a) - n
         /\ SubSeq(a, 1, n) \o Drop(a, n) = a
<1>1. Len(a) \in Nat /\ \A i \in 1 .. Len(a) : a[i] \in Nat
  BY LenProperties, ElementOfSeq DEF Bytes
<1>2. /\ SubSeq(a, 1, n) \in Seq(Nat) /\ Len(SubSeq(a, 1, n)) = IF 1 <= n THEN n - 1 + 1 ELSE 0
      /\ \A j \in 1 .. n - 1 + 1 : SubSeq(a, 1, n)[j] = a[1 + j - 1]
  <2>1. \A i \in 1 .. n : a[i] \in Nat
    BY <1>1
  <2> QED
    BY <1>1, <2>1, SubSeqProperties
<1>3. /\ SubSeq(a, n + 1, Len(a)) \in Seq(Nat)
      /\ Len(SubSeq(a, n + 1, Len(a))) = IF n + 1 <= Len(a) THEN Len(a) - (n + 1) + 1 ELSE 0
  <2>1. \A i \in n + 1 .. Len(a) : a[i] \in Nat
    BY <1>1
  <2>2. n + 1 \in Int /\ Len(a) \in Int
    BY <1>1
  <2> QED
    BY <2>1, <2>2, SubSeqProperties
<1>4. SubSeq(a, 1, n) \o SubSeq(a, n + 1, Len(a)) = SubSeq(a, 1, Len(a))
  <2>1. 1 \in 1 .. Len(a) + 1 /\ n \in 1 - 1 .. Len(a) /\ Len(a) \in n .. Len(a)
    BY <1>1
  <2> QED
    BY <2>1, ConcatAdjacentSubSeq DEF Bytes
<1>5. SubSeq(a, 1, Len(a)) = a
  BY SubSeqFull DEF Bytes
<1>6. Len(SubSeq(a, 1, n)) = n /\ \A j \in 1 .. n : SubSeq(a, 1, n)[j] = a[j]
  BY <1>1, <1>2
<1>7. Len(SubSeq(a, n + 1, Len(a))) = Len(a) - n
  BY <1>1, <1>3
<1> QED
  BY <1>2, <1>3, <1>4, <1>5, <1>6, <1>7 DEF Drop, Bytes

(* Dropping from the front of a stream that is held in two parts.          *)
LEMMA Dropped ==
  ASSUME NEW a \in Bytes, NEW b \in Bytes, NEW n \in 0 .. Len(a)
  PROVE  /\ Drop(a, n) \o b \in Bytes
         /\ Len(Drop(a, n) \o b) = Len(a \o b) - n
         /\ \A j \in 1 .. Len(Drop(a, n) \o b) : (Drop(a, n) \o b)[j] = (a \o b)[n + j]
<1> DEFINE front == SubSeq(a, 1, n)  rest == Drop(a, n) \o b
<1>1. /\ front \in Bytes /\ Len(front) = n /\ Drop(a, n) \in Bytes
      /\ front \o Drop(a, n) = a
  BY Split
<1>2. rest \in Bytes
  BY <1>1, Joined
<1>3. a \o b = front \o rest
  <2> HIDE DEF front
  <2>1. (front \o Drop(a, n)) \o b = front \o (Drop(a, n) \o b)
    BY <1>1, Regrouped
  <2> QED
    BY <1>1, <2>1
<1> HIDE DEF front, rest
<1>4. /\ Len(front \o rest) = n + Len(rest) /\ Len(rest) \in Nat /\ n \in Nat
      /\ \A j \in 1 .. n + Len(rest) :
           (front \o rest)[j] = IF j <= n THEN front[j] ELSE rest[j - n]
  BY <1>1, <1>2, Joined
<1>5. ASSUME NEW j \in 1 .. Len(rest) PROVE rest[j] = (front \o rest)[n + j]
  <2>1. n + j \in 1 .. n + Len(rest) /\ ~(n + j <= n) /\ (n + j) - n = j
    BY <1>4
  <2> QED
    BY <1>4, <2>1
<1>6. Len(rest) = Len(front \o rest) - n
  BY <1>4
<1> QED
  BY <1>2, <1>3, <1>5, <1>6 DEF rest

-----------------------------------------------------------------------------
(* The packet socket2tun is at, and the inductive invariant: that packet's *)
(* frame begins with the first byte held, or its prolog has been removed   *)
(* and its size is known.                                                  *)
k == Len(received) + 1

Held(got, left, first) ==
  /\ got \in Bytes /\ left \in Bytes
  /\ \E cut : Cuts(sent, got \o left, cut) /\ cut[k] = first

StreamInv ==
  /\ sent \in Seq(Packets) /\ received \in Seq(Packets)
  /\ Len(received) <= Len(sent)
  /\ Held(pkt, bytes, IF filling THEN -4 ELSE 1)
  /\ filling => k <= Len(sent) /\ size = Len(sent[k]) /\ Len(pkt) < size

LEMMA InitInv == Init => StreamInv
<1> SUFFICES ASSUME Init PROVE StreamInv
  OBVIOUS
<1>1. sent = <<>> /\ received = <<>> /\ bytes = <<>> /\ pkt = <<>> /\ filling = FALSE
  BY DEF Init, FramingInit
<1>2. pkt \o bytes = <<>> /\ k = 1
  BY <1>1 DEF k
<1> DEFINE cut == [i \in 1 .. 1 |-> 1]
<1>3. Cuts(sent, pkt \o bytes, cut) /\ cut[k] = 1
  BY <1>1, <1>2, CutsNothing
<1> HIDE DEF cut
<1>4. Held(pkt, bytes, 1)
  BY <1>1, <1>3 DEF Held, Bytes
<1> QED
  BY <1>1, <1>4 DEF StreamInv

(* recv moves bytes from the socket to pkt.                                *)
LEMMA RecvHeld ==
  ASSUME NEW first, Held(pkt, bytes, first), NEW n \in 1 .. Len(bytes), Recv(n)
  PROVE  Held(Got(n), bytes', first)
<1>1. /\ n \in 0 .. Len(bytes) /\ bytes' = Drop(bytes, n)
      /\ pkt \in Bytes /\ bytes \in Bytes
  BY LenProperties DEF Recv, Held, Bytes
<1>2. /\ SubSeq(bytes, 1, n) \in Bytes /\ Drop(bytes, n) \in Bytes
      /\ SubSeq(bytes, 1, n) \o Drop(bytes, n) = bytes
  BY <1>1, Split
<1>3. Got(n) \in Bytes
  BY <1>1, <1>2, Joined DEF Got
<1>4. Got(n) \o bytes' = pkt \o bytes
  <2>1. (pkt \o SubSeq(bytes, 1, n)) \o Drop(bytes, n) = pkt \o (SubSeq(bytes, 1, n) \o Drop(bytes, n))
    BY <1>1, <1>2, Regrouped
  <2> QED
    BY <1>1, <1>2, <2>1 DEF Got
<1> QED
  BY <1>1, <1>2, <1>3, <1>4 DEF Held

(* What is held is the part of the next frame that is not removed yet.     *)
LEMMA HeldIsNext ==
  ASSUME StreamInv, NEW got, NEW left, NEW off \in Nat, Held(got, left, 1 - off),
         NEW j \in 1 .. Len(got)
  PROVE  /\ k \in 1 .. Len(sent)
         /\ off + j <= Len(sent[k]) + 5 => got[j] = FrameOf(sent[k])[off + j]
<1>1. PICK cut : Cuts(sent, got \o left, cut) /\ cut[k] = 1 - off
  BY DEF Held
<1> DEFINE rest == got \o left  i == k
<1>2. got \in Bytes /\ left \in Bytes /\ sent \in Seq(Packets) /\ i \in 1 .. Len(sent) + 1
  BY LenProperties DEF Held, StreamInv, k
<1>3. /\ rest \in Bytes /\ Len(rest) = Len(got) + Len(left)
      /\ Len(got) \in Nat /\ Len(left) \in Nat
      /\ \A n \in 1 .. Len(got) + Len(left) :
           rest[n] = IF n <= Len(got) THEN got[n] ELSE left[n - Len(got)]
  BY <1>2, Joined
<1>4. Cuts(sent, rest, cut) /\ cut[i] = 1 - off
  BY <1>1
<1> HIDE DEF rest, i
<1>5. j \in 1 .. Len(rest) /\ rest[j] = got[j]
  BY <1>3
<1>6. /\ i \in 1 .. Len(sent)
      /\ off + j <= Len(sent[i]) + 5 => rest[j] = FrameOf(sent[i])[off + j]
  <2>1. /\ sent \in Seq(Packets) /\ rest \in Bytes /\ Cuts(sent, rest, cut)
        /\ i \in 1 .. Len(sent) + 1 /\ off \in Nat /\ cut[i] = 1 - off
        /\ j \in 1 .. Len(rest)
    BY <1>2, <1>3, <1>4, <1>5
  <2> QED
    BY <2>1, CutsNext
<1> QED
  BY <1>5, <1>6 DEF i

(* "remove prolog": with five bytes held, the size read is that of the     *)
(* next packet.                                                            *)
LEMMA Stripped ==
  ASSUME StreamInv, NEW got, NEW left, Held(got, left, 1), Len(got) >= 5
  PROVE  /\ k \in 1 .. Len(sent) /\ B2u(got[4], got[5]) = Len(sent[k])
         /\ Held(Drop(got, 5), left, -4)
<1>1. PICK cut : Cuts(sent, got \o left, cut) /\ cut[k] = 1
  BY DEF Held
<1>2. got \in Bytes /\ left \in Bytes /\ sent \in Seq(Packets) /\ k \in 1 .. Len(sent) + 1
  BY LenProperties DEF Held, StreamInv, k
<1> DEFINE rest == got \o left
<1>3. /\ rest \in Bytes /\ Len(rest) = Len(got) + Len(left)
      /\ Len(got) \in Nat /\ Len(left) \in Nat
  BY <1>2, Joined
<1>4. Cuts(sent, rest, cut)
  BY <1>1
<1> HIDE DEF rest
<1> DEFINE off == 0
<1>5. /\ off \in Nat /\ Held(got, left, 1 - off)
      /\ 4 \in 1 .. Len(got) /\ 5 \in 1 .. Len(got)
  BY <1>3
<1> HIDE DEF off
<1>6. /\ k \in 1 .. Len(sent)
      /\ off + 4 <= Len(sent[k]) + 5 => got[4] = FrameOf(sent[k])[off + 4]
  BY <1>5, HeldIsNext
<1>7. off + 5 <= Len(sent[k]) + 5 => got[5] = FrameOf(sent[k])[off + 5]
  BY <1>5, HeldIsNext
<1>8. sent[k] \in Packets /\ Len(sent[k]) \in Nat
  BY <1>2, <1>6, ElementOfSeq, PacketBytes
<1>9. B2u(got[4], got[5]) = Len(sent[k])
  <2>1. got[4] = FrameOf(sent[k])[4] /\ got[5] = FrameOf(sent[k])[5]
    BY <1>6, <1>7, <1>8 DEF off
  <2>2. /\ FrameOf(sent[k])[4] = u2B(Len(sent[k]))[1]
        /\ FrameOf(sent[k])[5] = u2B(Len(sent[k]))[2]
    BY <1>8, FrameBytes
  <2>3. B2u(u2B(Len(sent[k]))[1], u2B(Len(sent[k]))[2]) = Len(sent[k])
    BY <1>8, SizeBytes
  <2> QED
    BY <2>1, <2>2, <2>3
<1>10. 5 \in 0 .. Len(got) /\ 5 \in 0 .. Len(rest)
  BY <1>3
<1>11. /\ Drop(got, 5) \in Bytes
       /\ Drop(got, 5) \o left \in Bytes
       /\ Len(Drop(got, 5) \o left) = Len(rest) - 5
       /\ \A j \in 1 .. Len(Drop(got, 5) \o left) : (Drop(got, 5) \o left)[j] = rest[5 + j]
  <2>1. Drop(got, 5) \in Bytes
    BY <1>2, <1>10, Split
  <2> QED
    BY <1>2, <1>10, <2>1, Dropped DEF rest
<1> DEFINE moved == [i \in 1 .. Len(sent) + 1 |-> cut[i] - 5]
<1>12. Cuts(sent, Drop(got, 5) \o left, moved)
  BY <1>2, <1>3, <1>4, <1>10, <1>11, CutsRead
<1>13. moved[k] = -4
  BY <1>1, <1>2
<1> HIDE DEF moved
<1> QED
  BY <1>2, <1>6, <1>9, <1>11, <1>12, <1>13 DEF Held

(* "send packet" and "remove packet sent": what is written to the TUN      *)
(* device is the packet, and the next frame begins with what is left.      *)
LEMMA Forwarded ==
  ASSUME StreamInv, NEW got, NEW left, Held(got, left, -4),
         k \in 1 .. Len(sent), Len(got) >= Len(sent[k])
  PROVE  /\ SubSeq(got, 1, Len(sent[k])) = sent[k]
         /\ Drop(got, Len(sent[k])) \in Bytes
         /\ \E cut : /\ Cuts(sent, Drop(got, Len(sent[k])) \o left, cut)
                     /\ cut[k + 1] = 1
<1>1. PICK cut : Cuts(sent, got \o left, cut) /\ cut[k] = -4
  BY DEF Held
<1>2. got \in Bytes /\ left \in Bytes /\ sent \in Seq(Packets)
  BY DEF Held, StreamInv
<1> DEFINE rest == got \o left  p == sent[k]  n == Len(p)
<1>3. p \in Packets /\ p \in Bytes /\ n \in Nat
  BY <1>2, ElementOfSeq, PacketBytes
<1>4. /\ rest \in Bytes /\ Len(rest) = Len(got) + Len(left)
      /\ Len(got) \in Nat /\ Len(left) \in Nat
  BY <1>2, Joined
<1>5. /\ n \in 0 .. Len(got) /\ n \in 0 .. Len(rest) /\ k \in 1 .. Len(sent) + 1
      /\ Len(sent) \in Nat
  BY <1>2, <1>3, <1>4, LenProperties
<1>6. Cuts(sent, rest, cut)
  BY <1>1
<1> HIDE DEF rest
<1>7. ASSUME NEW j \in 1 .. n PROVE got[j] = p[j]
  <2> DEFINE off == 5
  <2>1. off \in Nat /\ Held(got, left, 1 - off) /\ j \in 1 .. Len(got)
    BY <1>3, <1>4, <1>5
  <2>2. off + j <= Len(sent[k]) + 5
    BY <1>3
  <2> HIDE DEF off
  <2>3. got[j] = FrameOf(sent[k])[off + j]
    BY <2>1, <2>2, HeldIsNext
  <2>4. FrameOf(p)[5 + j] = p[j]
    BY <1>3, FrameBytes
  <2> QED
    BY <2>3, <2>4 DEF off
<1>8. SubSeq(got, 1, n) = p
  <2> DEFINE front == SubSeq(got, 1, n)
  <2>1. front \in Bytes /\ Len(front) = n /\ \A j \in 1 .. n : front[j] = got[j]
    BY <1>2, <1>5, Split
  <2> HIDE DEF front
  <2>2. \A j \in 1 .. Len(front) : front[j] = p[j]
    BY <1>7, <2>1
  <2>3. front = p
    BY <1>3, <2>1, <2>2, SeqEqual DEF Bytes
  <2> QED
    BY <2>3 DEF front
<1>9. /\ Drop(got, n) \in Bytes
      /\ Drop(got, n) \o left \in Bytes
      /\ Len(Drop(got, n) \o left) = Len(rest) - n
      /\ \A j \in 1 .. Len(Drop(got, n) \o left) : (Drop(got, n) \o left)[j] = rest[n + j]
  <2> HIDE DEF n
  <2>1. Drop(got, n) \in Bytes
    BY <1>2, <1>5, Split
  <2> QED
    BY <1>2, <1>5, <2>1, Dropped DEF rest
<1> DEFINE moved == [i \in 1 .. Len(sent) + 1 |-> cut[i] - n]
<1>10. Cuts(sent, Drop(got, n) \o left, moved)
  BY <1>2, <1>4, <1>5, <1>6, <1>9, CutsRead
<1>11. moved[k + 1] = 1
  <2>1. k + 1 \in 1 .. Len(sent) + 1
    BY <1>5
  <2>2. cut[k + 1] = cut[k] + n + 5
    BY <1>6 DEF Cuts
  <2> QED
    BY <1>1, <1>3, <2>1, <2>2
<1> HIDE DEF moved
<1> QED
  BY <1>8, <1>9, <1>10, <1>11

-----------------------------------------------------------------------------
(* What a step does to the packets: one of the abstract channel, or none.  *)
ChannelStep ==
  \/ \E p \in Packets : sent' = Append(sent, p) /\ UNCHANGED received
  \/ /\ Len(received) < Len(sent) /\ UNCHANGED sent
     /\ received' = Append(received, sent[Len(received) + 1])
  \/ UNCHANGED <<sent, received>>

LEMMA SendStep ==
  ASSUME StreamInv, SendRawPacket
  PROVE  StreamInv' /\ ChannelStep
<1>1. PICK p \in Packets : sent' = Append(sent, p) /\ bytes' = bytes \o FrameOf(p)
  BY DEF SendRawPacket, SendFrame
<1>2. UNCHANGED <<received, pkt, filling, size>>
  BY DEF SendRawPacket, thread
<1>3. /\ sent \in Seq(Packets) /\ received \in Seq(Packets) /\ Len(received) <= Len(sent)
      /\ pkt \in Bytes /\ bytes \in Bytes /\ FrameOf(p) \in Bytes
      /\ Len(received) \in Nat /\ Len(sent) \in Nat
  BY FrameBytes, LenProperties DEF StreamInv, Held
<1>4. /\ sent' \in Seq(Packets) /\ Len(sent') = Len(sent) + 1
      /\ \A i \in 1 .. Len(sent) : sent'[i] = sent[i]
  BY <1>1, <1>3, Appended
<1> DEFINE first == IF filling THEN -4 ELSE 1
<1>5. PICK cut : Cuts(sent, pkt \o bytes, cut) /\ cut[k] = first
  BY DEF StreamInv, Held
<1>6. bytes' \in Bytes /\ pkt \o bytes \in Bytes
  BY <1>1, <1>3, Joined
<1>7. pkt' \o bytes' = (pkt \o bytes) \o FrameOf(p)
  <2>1. (pkt \o bytes) \o FrameOf(p) = pkt \o (bytes \o FrameOf(p))
    BY <1>3, Regrouped
  <2> QED
    BY <1>1, <1>2, <2>1
<1>8. PICK longer : /\ Cuts(Append(sent, p), (pkt \o bytes) \o FrameOf(p), longer)
                    /\ \A i \in 1 .. Len(sent) + 1 : longer[i] = cut[i]
  BY <1>3, <1>5, <1>6, CutsSend
<1>9. k' = k /\ k \in 1 .. Len(sent) + 1
  BY <1>2, <1>3 DEF k
<1>10. longer[k'] = first /\ first' = first
  BY <1>2, <1>5, <1>8, <1>9
<1>11. Held(pkt, bytes, first)'
  BY <1>1, <1>2, <1>3, <1>6, <1>7, <1>8, <1>10 DEF Held
<1>12. filling' => k' <= Len(sent') /\ size' = Len(sent'[k']) /\ Len(pkt') < size'
  <2> SUFFICES ASSUME filling PROVE k' <= Len(sent') /\ size' = Len(sent'[k']) /\ Len(pkt') < size'
    BY <1>2
  <2>1. k <= Len(sent) /\ size = Len(sent[k]) /\ Len(pkt) < size
    BY DEF StreamInv
  <2>2. sent'[k'] = sent[k] /\ k' <= Len(sent')
    BY <1>3, <1>4, <1>9, <2>1
  <2> QED
    BY <1>2, <2>1, <2>2
<1>13. StreamInv'
  BY <1>2, <1>3, <1>4, <1>11, <1>12 DEF StreamInv
<1>14. ChannelStep
  BY <1>1, <1>2 DEF ChannelStep
<1> QED
  BY <1>13, <1>14

(* With the prolog gone the packet is forwarded if it is all there, and    *)
(* kept if it is not.                                                      *)
LEMMA ForwardStep ==
  ASSUME StreamInv, NEW got, Held(got, bytes', -4), sent' = sent,
         k \in 1 .. Len(sent), size' = Len(sent[k]),
         Len(got) >= size', Forward(got, size')
  PROVE  StreamInv' /\ ChannelStep
<1>1. /\ SubSeq(got, 1, size') = sent[k] /\ Drop(got, size') \in Bytes
      /\ \E cut : Cuts(sent, Drop(got, size') \o bytes', cut) /\ cut[k + 1] = 1
  BY Forwarded
<1>2. /\ received' = Append(received, sent[k]) /\ pkt' = Drop(got, size')
      /\ filling' = FALSE
  BY <1>1 DEF Forward
<1>3. /\ sent \in Seq(Packets) /\ received \in Seq(Packets) /\ sent[k] \in Packets
      /\ Len(received) \in Nat /\ Len(sent) \in Nat
  BY ElementOfSeq, LenProperties DEF StreamInv
<1>4. received' \in Seq(Packets) /\ Len(received') = Len(received) + 1
  BY <1>2, <1>3, Appended
<1>5. k' = k + 1 /\ Len(received') <= Len(sent') /\ Len(received) < Len(sent)
  BY <1>3, <1>4 DEF k
<1>6. bytes' \in Bytes
  BY DEF Held
<1>7. Held(pkt, bytes, IF filling THEN -4 ELSE 1)'
  BY <1>1, <1>2, <1>5, <1>6 DEF Held
<1>8. StreamInv'
  BY <1>2, <1>3, <1>4, <1>5, <1>7 DEF StreamInv
<1> QED
  BY <1>2, <1>5, <1>8 DEF ChannelStep, k

LEMMA KeepStep ==
  ASSUME StreamInv, NEW got, Held(got, bytes', -4), sent' = sent,
         k \in 1 .. Len(sent), size' = Len(sent[k]),
         Len(got) < size', Keep(got)
  PROVE  StreamInv' /\ ChannelStep
<1>1. pkt' = got /\ filling' = TRUE /\ received' = received
  BY DEF Keep
<1>2. k' = k
  BY <1>1 DEF k
<1>3. Held(pkt, bytes, IF filling THEN -4 ELSE 1)'
  BY <1>1, <1>2 DEF Held
<1>4. k \in Nat /\ k <= Len(sent)
  BY LenProperties DEF k, StreamInv
<1> QED
  BY <1>1, <1>2, <1>3, <1>4 DEF StreamInv, ChannelStep

(* The three places where recv returns.                                    *)
LEMMA CollectStep ==
  ASSUME StreamInv, NEW n \in 1 .. Len(bytes), Collect(n)
  PROVE  StreamInv' /\ ChannelStep
<1>1. ~filling /\ Recv(n) /\ pkt' = Got(n) /\ UNCHANGED <<sent, received, filling, size>>
  BY DEF Collect, Recv
<1>2. Held(pkt, bytes, 1)
  BY <1>1 DEF StreamInv
<1>3. Held(Got(n), bytes', 1)
  BY <1>1, <1>2, RecvHeld
<1>4. k' = k /\ ~filling'
  BY <1>1 DEF k
<1>5. Held(pkt, bytes, IF filling THEN -4 ELSE 1)'
  BY <1>1, <1>3, <1>4 DEF Held
<1> QED
  BY <1>1, <1>4, <1>5 DEF StreamInv, ChannelStep

LEMMA StripStep ==
  ASSUME StreamInv, NEW n \in 1 .. Len(bytes), StripProlog(n)
  PROVE  StreamInv' /\ ChannelStep
<1>1. /\ ~filling /\ Recv(n) /\ Len(Got(n)) >= 5 /\ sent' = sent
      /\ size' = B2u(Got(n)[4], Got(n)[5])
      /\ \/ Len(Drop(Got(n), 5)) >= size' /\ Forward(Drop(Got(n), 5), size')
         \/ Len(Drop(Got(n), 5)) < size' /\ Keep(Drop(Got(n), 5))
  BY DEF StripProlog, Recv
<1>2. Held(pkt, bytes, 1)
  BY <1>1 DEF StreamInv
<1>3. Held(Got(n), bytes', 1)
  BY <1>1, <1>2, RecvHeld
<1>4. /\ k \in 1 .. Len(sent) /\ size' = Len(sent[k])
      /\ Held(Drop(Got(n), 5), bytes', -4)
  BY <1>1, <1>3, Stripped
<1> QED
  BY <1>1, <1>4, ForwardStep, KeepStep

LEMMA FillStep ==
  ASSUME StreamInv, NEW n \in 1 .. Len(bytes), Fill(n)
  PROVE  StreamInv' /\ ChannelStep
<1>1. /\ filling /\ Recv(n) /\ sent' = sent /\ size' = size
      /\ \/ Len(Got(n)) >= size' /\ Forward(Got(n), size')
         \/ Len(Got(n)) < size' /\ Keep(Got(n))
  BY DEF Fill, Recv
<1>2. Held(pkt, bytes, -4) /\ k <= Len(sent) /\ size' = Len(sent[k])
  BY <1>1 DEF StreamInv
<1>3. Held(Got(n), bytes', -4)
  BY <1>1, <1>2, RecvHeld
<1>4. k \in 1 .. Len(sent)
  BY <1>2, LenProperties DEF k, StreamInv
<1> QED
  BY <1>1, <1>2, <1>3, <1>4, ForwardStep, KeepStep

LEMMA NextStep ==
  ASSUME StreamInv, [Next]_vars
  PROVE  StreamInv' /\ ChannelStep
<1>1. CASE UNCHANGED vars
  BY <1>1 DEF vars, thread, StreamInv, Held, k, ChannelStep
<1> QED
  BY <1>1, SendStep, CollectStep, StripStep, FillStep DEF Next, Socket2Tun

(* What the inner loop holds is always a part of a frame, at a place that  *)
(* matches its state.                                                      *)
THEOREM InStep == Spec => []StreamInv
BY InitInv, NextStep, PTL DEF Spec

(* Packets reach the TUN device as the server sent them: whole, once and   *)
(* in order, however recv cuts the stream.                                 *)
THEOREM PacketsReachTheHost == Spec => ForwardsInOrder
<1>1. Init => sent = <<>> /\ received = <<>>
  BY DEF Init, FramingInit
<1>2. StreamInv /\ [Next]_vars
        => [Channel!Send \/ Channel!Deliver]_(Channel!channelVars)
  BY NextStep DEF ChannelStep, Channel!channelVars, Channel!Send, Channel!Deliver
<1> QED
  BY <1>1, <1>2, InStep, PTL DEF Spec, ForwardsInOrder, Channel!InOrder

-----------------------------------------------------------------------------
(* Blocks that lie end to end in a stream, from its first byte to its      *)
(* last, are what FlattenSeq puts together to that stream.                 *)
Tiles(full, blocks, at) ==
  LET m == Len(blocks)
  IN  /\ at[1] = 1 /\ at[m + 1] = Len(full) + 1
      /\ \A i \in 1 .. m + 1 : at[i] \in Int /\ at[i] <= Len(full) + 1
      /\ \A i \in 1 .. m :
           /\ at[i + 1] = at[i] + Len(blocks[i])
           /\ \A j \in 1 .. Len(blocks[i]) : full[at[i] + j - 1] = blocks[i][j]

LEMMA TileStep ==
  ASSUME NEW full \in Bytes, NEW b \in Bytes, NEW a \in Nat, a + Len(b) <= Len(full),
         \A j \in 1 .. Len(b) : full[a + j] = b[j]
  PROVE  SubSeq(full, 1, a) \o b = SubSeq(full, 1, a + Len(b))
<1>1. Len(full) \in Nat /\ Len(b) \in Nat /\ \A i \in 1 .. Len(full) : full[i] \in Nat
  BY LenProperties, ElementOfSeq DEF Bytes
<1>2. PICK n \in Nat : n = a + Len(b)
  BY <1>1
<1> DEFINE mid == SubSeq(full, a + 1, n)
<1>3. SubSeq(full, 1, a) \o mid = SubSeq(full, 1, n)
  <2>1. 1 \in 1 .. Len(full) + 1 /\ a \in 1 - 1 .. Len(full) /\ n \in a .. Len(full)
    BY <1>1, <1>2
  <2> QED
    BY <2>1, ConcatAdjacentSubSeq DEF Bytes
<1>4. /\ mid \in Seq(Nat) /\ Len(mid) = IF a + 1 <= n THEN n - (a + 1) + 1 ELSE 0
      /\ \A j \in 1 .. n - (a + 1) + 1 : mid[j] = full[(a + 1) + j - 1]
  <2>1. \A i \in a + 1 .. n : full[i] \in Nat
    BY <1>1, <1>2
  <2>2. a + 1 \in Int /\ n \in Int
    BY <1>2
  <2> QED
    BY <2>1, <2>2, SubSeqProperties
<1> HIDE DEF mid
<1>5. Len(mid) = Len(b)
  BY <1>1, <1>2, <1>4
<1>6. ASSUME NEW j \in 1 .. Len(mid) PROVE mid[j] = b[j]
  <2>1. j \in 1 .. n - (a + 1) + 1 /\ (a + 1) + j - 1 = a + j
    BY <1>1, <1>2, <1>5
  <2> QED
    BY <1>4, <1>5, <2>1
<1>7. mid = b
  BY <1>4, <1>5, <1>6, SeqEqual DEF Bytes
<1> QED
  BY <1>2, <1>3, <1>7

LEMMA Flattened ==
  ASSUME NEW full \in Bytes, NEW blocks \in Seq(Bytes), NEW at, Tiles(full, blocks, at)
  PROVE  FlattenSeq(blocks) = full
<1>1. PICK m \in Nat : m = Len(blocks)
  BY LenProperties
<1>2. Len(full) \in Nat /\ \A i \in 1 .. m : blocks[i] \in Bytes /\ Len(blocks[i]) \in Nat
  BY <1>1, LenProperties, ElementOfSeq DEF Bytes
<1>3. /\ at[1] = 1 /\ at[m + 1] = Len(full) + 1
      /\ \A i \in 1 .. m + 1 : at[i] \in Int /\ at[i] <= Len(full) + 1
      /\ \A i \in 1 .. m :
           /\ at[i + 1] = at[i] + Len(blocks[i])
           /\ \A j \in 1 .. Len(blocks[i]) : full[at[i] + j - 1] = blocks[i][j]
  BY <1>1 DEF Tiles
<1>4. \A i \in 0 .. m : at[i + 1] >= 1
  <2> DEFINE S == {i \in Nat : i <= m => at[i + 1] >= 1}
  <2>1. 0 \in S
    BY <1>3
  <2>2. ASSUME NEW i \in Nat, i \in S PROVE i + 1 \in S
    <3>1. ASSUME i + 1 <= m PROVE at[(i + 1) + 1] >= 1
      <4>1. i + 1 \in 1 .. m /\ i + 1 \in 1 .. m + 1 /\ at[i + 1] >= 1
        BY <2>2, <3>1
      <4> QED
        BY <1>2, <1>3, <4>1
    <3> QED
      BY <3>1
  <2> HIDE DEF S
  <2>3. Nat \subseteq S
    BY <2>1, <2>2, SetInduction
  <2> QED
    BY <2>3 DEF S
<1> DEFINE put == [i \in 1 .. m |-> SubSeq(full, 1, at[i + 1] - 1)]
           Def(f) == f = [i \in 1 .. m |-> IF i = 1 THEN blocks[i] ELSE f[i - 1] \o blocks[i]]
<1>5. ASSUME NEW i \in 1 .. m
      PROVE  SubSeq(full, 1, at[i] - 1) \o blocks[i] = SubSeq(full, 1, at[i + 1] - 1)
  <2>1. PICK a \in Nat : a = at[i] - 1
    <3>1. PICK q \in 0 .. m : q + 1 = i
      <4>1. i - 1 \in 0 .. m /\ (i - 1) + 1 = i
        OBVIOUS
      <4> QED
        BY <4>1
    <3>2. at[i] >= 1
      BY <1>4, <3>1
    <3>3. i \in 1 .. m + 1
      OBVIOUS
    <3>4. at[i] \in Int
      BY <1>3, <3>3
    <3> QED
      BY <3>2, <3>4
  <2>2. PICK b \in Bytes : b = blocks[i] /\ Len(b) \in Nat
    BY <1>2
  <2>3. at[i + 1] - 1 = a + Len(b) /\ a + Len(b) <= Len(full)
    <3>1. i + 1 \in 1 .. m + 1 /\ i \in 1 .. m + 1
      OBVIOUS
    <3>2. /\ at[i + 1] \in Int /\ at[i + 1] <= Len(full) + 1 /\ at[i] \in Int
          /\ at[i + 1] = at[i] + Len(b)
      BY <1>3, <2>2, <3>1
    <3>3. PICK x \in Int, y \in Int, z \in Nat, l \in Nat :
            x = at[i + 1] /\ y = at[i] /\ z = Len(full) /\ l = Len(b)
      BY <1>2, <2>2, <3>2
    <3>4. x - 1 = a + l /\ a + l <= z
      <4>1. x <= z + 1 /\ x = y + l /\ a = y - 1
        BY <2>1, <3>2, <3>3
      <4> QED
        BY ONLY <4>1
    <3> QED
      BY <3>3, <3>4
  <2>4. ASSUME NEW j \in 1 .. Len(b) PROVE full[a + j] = b[j]
    <3>1. full[at[i] + j - 1] = b[j]
      BY <1>3, <2>2
    <3>2. at[i] + j - 1 = a + j
      <4>1. i \in 1 .. m + 1
        OBVIOUS
      <4> QED
        BY <1>3, <2>1, <2>2, <4>1, SMTT(20)
    <3> QED
      BY <3>1, <3>2
  <2>5. SubSeq(full, 1, a) \o b = SubSeq(full, 1, a + Len(b))
    BY <2>3, <2>4, TileStep
  <2> QED
    BY <2>1, <2>2, <2>3, <2>5
<1>6. CASE m = 0
  <2>1. FlattenSeq(blocks) = blocks
    BY <1>1, <1>6 DEF FlattenSeq
  <2>2. blocks = <<>>
    BY <1>1, <1>6, EmptySeq
  <2>3. Len(full) = 0
    BY <1>2, <1>3, <1>6
  <2>4. full = <<>>
    BY <2>3, EmptySeq DEF Bytes
  <2> QED
    BY <2>1, <2>2, <2>4
<1>7. CASE m # 0
  <2>1. Def(put)
    <3>1. ASSUME NEW i \in 1 .. m
          PROVE  put[i] = IF i = 1 THEN blocks[i] ELSE put[i - 1] \o blocks[i]
      <4>1. CASE i = 1
        <5>1. SubSeq(full, 1, 0) \o blocks[1] = blocks[1]
          <6>1. SubSeq(full, 1, 0) = <<>>
            BY SubSeqEmpty DEF Bytes
          <6> QED
            BY <1>2, <4>1, <6>1, ConcatEmptySeq DEF Bytes
        <5> QED
          BY <1>3, <1>5, <4>1, <5>1, SMTT(20)
      <4>2. CASE i # 1
        <5>1. i - 1 \in 1 .. m /\ (i - 1) + 1 = i
          BY <4>2
        <5>2. put[i - 1] = SubSeq(full, 1, at[i] - 1)
          BY <5>1
        <5> QED
          BY <1>5, <4>2, <5>2
      <4> QED
        BY <4>1, <4>2
    <3>2. put = [i \in 1 .. m |-> IF i = 1 THEN blocks[i] ELSE put[i - 1] \o blocks[i]]
      BY <3>1
    <3> QED
      BY <3>2
  <2>2. PICK f : Def(f) /\ FlattenSeq(blocks) = f[m]
    <3>1. FlattenSeq(blocks) = (CHOOSE f : Def(f))[m]
      BY <1>1, <1>7 DEF FlattenSeq
    <3>2. Def(CHOOSE f : Def(f))
      BY <2>1
    <3> QED
      BY <3>1, <3>2
  <2>3. m \in {i \in Nat : i \in 1 .. m => f[i] = put[i]}
    <3> DEFINE S == {i \in Nat : i \in 1 .. m => f[i] = put[i]}
    <3>1. 0 \in S
      OBVIOUS
    <3>2. ASSUME NEW i \in Nat, i \in S PROVE i + 1 \in S
      <4>1. ASSUME i + 1 \in 1 .. m PROVE f[i + 1] = put[i + 1]
        <5>1. /\ f[i + 1] = IF i + 1 = 1 THEN blocks[i + 1] ELSE f[(i + 1) - 1] \o blocks[i + 1]
              /\ put[i + 1] = IF i + 1 = 1 THEN blocks[i + 1] ELSE put[(i + 1) - 1] \o blocks[i + 1]
          BY <2>1, <2>2, <4>1
        <5>2. i + 1 # 1 => i \in 1 .. m /\ (i + 1) - 1 = i
          BY <4>1
        <5> HIDE DEF put
        <5> QED
          BY <3>2, <5>1, <5>2
      <4> HIDE DEF put, Def
      <4> QED
        BY <4>1
    <3> HIDE DEF S
    <3>3. m \in S
      BY <3>1, <3>2, SetInduction
    <3> QED
      BY <3>3 DEF S
  <2>4. put[m] = SubSeq(full, 1, Len(full))
    <3>1. m \in 1 .. m /\ at[m + 1] - 1 = Len(full)
      BY <1>2, <1>3, <1>7
    <3> QED
      BY <3>1
  <2>5. SubSeq(full, 1, Len(full)) = full
    BY SubSeqFull DEF Bytes
  <2> HIDE DEF put, Def
  <2> QED
    BY <1>7, <2>2, <2>3, <2>4, <2>5
<1> QED
  BY <1>6, <1>7

-----------------------------------------------------------------------------
(* The packets still to be forwarded, and their frames.                    *)
LEMMA Ahead ==
  ASSUME StreamInv
  PROVE  \E m \in Nat, blocks \in Seq(Bytes) :
           /\ m = Len(sent) - Len(received) /\ Len(blocks) = m
           /\ \A i \in 1 .. m : blocks[i] = FrameOf(sent[Len(received) + i])
           /\ LET ahead == Drop(sent, Len(received))
              IN  [i \in DOMAIN ahead |-> FrameOf(ahead[i])] = blocks
<1>1. PICK r \in Nat, l \in Nat : r = Len(received) /\ l = Len(sent) /\ r <= l
  BY LenProperties DEF StreamInv
<1>2. sent \in Seq(Packets) /\ \A i \in 1 .. l : sent[i] \in Packets
  BY <1>1, ElementOfSeq DEF StreamInv
<1> DEFINE ahead == SubSeq(sent, r + 1, l)  m == l - r
<1>3. /\ ahead \in Seq(Packets) /\ Len(ahead) = IF r + 1 <= l THEN l - (r + 1) + 1 ELSE 0
      /\ \A i \in 1 .. l - (r + 1) + 1 : ahead[i] = sent[(r + 1) + i - 1]
  <2>1. \A i \in r + 1 .. l : sent[i] \in Packets
    BY <1>1, <1>2
  <2>2. r + 1 \in Int /\ l \in Int
    BY <1>1
  <2> QED
    BY <2>1, <2>2, SubSeqProperties
<1> HIDE DEF ahead
<1>4. m \in Nat /\ Len(ahead) = m /\ DOMAIN ahead = 1 .. m
  <2>1. m \in Nat /\ Len(ahead) = m
    BY <1>1, <1>3
  <2> QED
    BY <1>3, <2>1, LenProperties
<1>5. ASSUME NEW i \in 1 .. m
      PROVE  ahead[i] = sent[r + i] /\ FrameOf(sent[r + i]) \in Bytes
  <2>1. r + i \in 1 .. l /\ (r + 1) + i - 1 = r + i /\ i \in 1 .. l - (r + 1) + 1
    BY <1>1, <1>4
  <2> QED
    BY <1>2, <1>3, <2>1, FrameBytes
<1>6. PICK blocks : blocks = [i \in 1 .. m |-> FrameOf(sent[r + i])]
  OBVIOUS
<1>7. blocks \in Seq(Bytes) /\ Len(blocks) = m
  <2>1. blocks \in [1 .. m -> Bytes]
    BY <1>5, <1>6
  <2>2. blocks \in Seq(Bytes)
    BY <1>4, <2>1, SeqDef
  <2> QED
    BY <1>4, <2>1, <2>2, LenProperties
<1>8. [i \in DOMAIN ahead |-> FrameOf(ahead[i])] = blocks
  BY <1>4, <1>5, <1>6
<1> QED
  BY <1>1, <1>4, <1>6, <1>7, <1>8 DEF Drop, ahead

(* The prolog that has been removed, back in front of what is held.        *)
Removed == IF filling THEN MAGIC_NUMBER \o u2B(size) ELSE <<>>

LEMMA Restored ==
  ASSUME StreamInv
  PROVE  /\ Removed \in Bytes /\ Len(Removed) = IF filling THEN 5 ELSE 0
         /\ Removed \o pkt \o bytes = Removed \o (pkt \o bytes)
         /\ filling => \A j \in 1 .. 5 : Removed[j] = FrameOf(sent[k])[j]
<1>1. PICK front : front = Removed
  OBVIOUS
<1>2. pkt \in Bytes /\ bytes \in Bytes
  BY DEF StreamInv, Held
<1>3. CASE filling
  <2>1. k \in 1 .. Len(sent) /\ size = Len(sent[k]) /\ sent \in Seq(Packets)
    BY <1>3, LenProperties DEF StreamInv, k
  <2>2. PICK p \in Packets : p = sent[k] /\ Len(p) = size
    BY <2>1, ElementOfSeq
  <2>3. PICK z \in Bytes : z = u2B(size) /\ Len(z) = 2
    BY <2>2, PacketBytes, SizeBytes
  <2>4. /\ front = MAGIC_NUMBER \o z /\ front \in Bytes /\ Len(front) = 5
        /\ \A j \in 1 .. 5 : front[j] = IF j <= 3 THEN MAGIC_NUMBER[j] ELSE z[j - 3]
    <3>1. MAGIC_NUMBER \in Bytes /\ Len(MAGIC_NUMBER) = 3 /\ front = MAGIC_NUMBER \o z
      BY <1>1, <1>3, <2>3, ByteBasePositive DEF Removed
    <3>2. /\ MAGIC_NUMBER \o z \in Bytes /\ Len(MAGIC_NUMBER \o z) = Len(MAGIC_NUMBER) + Len(z)
          /\ \A j \in 1 .. Len(MAGIC_NUMBER) + Len(z) : (MAGIC_NUMBER \o z)[j] =
               IF j <= Len(MAGIC_NUMBER) THEN MAGIC_NUMBER[j] ELSE z[j - Len(MAGIC_NUMBER)]
      BY <3>1, Joined
    <3> QED
      BY <2>3, <3>1, <3>2
  <2>5. ASSUME NEW j \in 1 .. 5 PROVE front[j] = FrameOf(p)[j]
    <3>1. /\ \A i \in 1 .. 3 : FrameOf(p)[i] = MAGIC_NUMBER[i]
          /\ FrameOf(p)[4] = u2B(Len(p))[1]
          /\ FrameOf(p)[5] = u2B(Len(p))[2]
      BY FrameBytes
    <3>2. CASE j \in 1 .. 3
      BY <2>4, <3>1, <3>2
    <3>3. CASE j = 4
      BY <2>2, <2>3, <2>4, <3>1, <3>3
    <3>4. CASE j = 5
      BY <2>2, <2>3, <2>4, <3>1, <3>4
    <3> QED
      BY <3>2, <3>3, <3>4
  <2>6. (front \o pkt) \o bytes = front \o (pkt \o bytes)
    BY <1>2, <2>4, Regrouped
  <2> QED
    BY <1>1, <1>3, <2>2, <2>4, <2>5, <2>6
<1>4. CASE ~filling
  <2>1. front = <<>> /\ front \in Bytes /\ Len(front) = 0
    BY <1>1, <1>4, EmptySeq DEF Bytes, Removed
  <2>2. (front \o pkt) \o bytes = front \o (pkt \o bytes)
    BY <1>2, <2>1, Regrouped
  <2> QED
    BY <1>1, <1>4, <2>1, <2>2
<1> QED
  BY <1>3, <1>4

(* No frame but the next has begun.                                        *)
LEMMA LaterTiles ==
  ASSUME NEW m \in Nat, NEW at, at[1] = 1,
         \A i \in 1 .. m : \E n \in Nat : n >= 5 /\ at[i + 1] = at[i] + n
  PROVE  \A i \in 2 .. m + 1 : at[i] \in Nat /\ at[i] >= 6
<1> DEFINE S == {d \in Nat : d \in 1 .. m => at[d + 1] \in Nat /\ at[d + 1] >= 6}
<1>1. 0 \in S
  OBVIOUS
<1>2. ASSUME NEW d \in Nat, d \in S PROVE d + 1 \in S
  <2>1. ASSUME d + 1 \in 1 .. m PROVE at[(d + 1) + 1] \in Nat /\ at[(d + 1) + 1] >= 6
    <3>1. PICK n \in Nat : n >= 5 /\ at[(d + 1) + 1] = at[d + 1] + n
      BY <2>1
    <3>2. CASE d = 0
      BY <3>1, <3>2
    <3>3. CASE d # 0
      <4>1. at[d + 1] \in Nat /\ at[d + 1] >= 6
        BY <1>2, <2>1, <3>3
      <4> QED
        BY <3>1, <4>1
    <3> QED
      BY <3>2, <3>3
  <2> QED
    BY <2>1
<1> HIDE DEF S
<1>3. ASSUME NEW i \in 2 .. m + 1 PROVE at[i] \in Nat /\ at[i] >= 6
  <2>1. PICK d \in Nat : d = i - 1 /\ d \in 1 .. m /\ d + 1 = i
    OBVIOUS
  <2>2. d \in S
    BY <1>1, <1>2, SetInduction
  <2> QED
    BY <2>1, <2>2 DEF S
<1> QED
  BY <1>3

(* Nothing of the stream is lost and nothing is in it twice: what has been *)
(* removed of the next frame, what is held and what is in the socket are   *)
(* the frames not forwarded, end to end.                                   *)
THEOREM StreamIsWhole == Spec => []NothingLost
<1>1. StreamInv => NothingLost
  <2> SUFFICES ASSUME StreamInv PROVE NothingLost
    OBVIOUS
  <2>1. PICK m \in Nat, blocks \in Seq(Bytes) :
           /\ m = Len(sent) - Len(received) /\ Len(blocks) = m
           /\ \A i \in 1 .. m : blocks[i] = FrameOf(sent[Len(received) + i])
           /\ LET ahead == Drop(sent, Len(received))
              IN  [i \in DOMAIN ahead |-> FrameOf(ahead[i])] = blocks
    BY Ahead
  <2>2. PICK cut : Cuts(sent, pkt \o bytes, cut) /\ cut[k] = IF filling THEN -4 ELSE 1
    BY DEF StreamInv, Held
  <2>3. PICK rest \in Bytes : rest = pkt \o bytes /\ Len(rest) \in Nat
    <3>1. pkt \in Bytes /\ bytes \in Bytes
      BY DEF StreamInv, Held
    <3>2. pkt \o bytes \in Bytes
      BY <3>1, Joined
    <3> QED
      BY <3>2, LenProperties DEF Bytes
  <2>4. PICK front \in Bytes : /\ front = Removed /\ Len(front) = IF filling THEN 5 ELSE 0
                               /\ Removed \o pkt \o bytes = front \o rest
                               /\ filling => \A j \in 1 .. 5 : front[j] = FrameOf(sent[k])[j]
    BY <2>3, Restored
  <2>5. PICK f \in Nat : f = Len(front) /\ (f = 0 \/ f = 5) /\ cut[k] = 1 - f
    BY <2>2, <2>4
  <2>6. PICK full \in Bytes :
          /\ full = front \o rest /\ Len(full) = f + Len(rest)
          /\ \A j \in 1 .. f + Len(rest) : full[j] = IF j <= f THEN front[j] ELSE rest[j - f]
    <3>1. /\ front \o rest \in Bytes /\ Len(front \o rest) = Len(front) + Len(rest)
          /\ \A j \in 1 .. Len(front) + Len(rest) :
               (front \o rest)[j] = IF j <= Len(front) THEN front[j] ELSE rest[j - Len(front)]
      BY Joined
    <3> QED
      BY <2>5, <3>1
  <2>7. PICK r \in Nat, l \in Nat : r = Len(received) /\ l = Len(sent) /\ k = r + 1 /\ m = l - r
    BY <2>1, LenProperties DEF StreamInv, k
  <2> DEFINE at == [i \in 1 .. m + 1 |-> cut[r + i] + f]
  <2>8. /\ \A i \in 1 .. l + 1 : cut[i] \in Int /\ cut[i] <= Len(rest) + 1
        /\ cut[l + 1] = Len(rest) + 1
        /\ \A i \in 1 .. l : cut[i + 1] = cut[i] + Len(sent[i]) + 5
        /\ \A i \in 1 .. l : \A j \in 1 .. Len(sent[i]) + 5 :
             cut[i] + j - 1 >= 1 => rest[cut[i] + j - 1] = FrameOf(sent[i])[j]
    BY <2>2, <2>3, <2>7 DEF Cuts
  <2>9. ASSUME NEW i \in 1 .. m
        PROVE  /\ r + i \in 1 .. l /\ sent[r + i] \in Packets
               /\ Len(sent[r + i]) \in Nat
               /\ blocks[i] = FrameOf(sent[r + i]) /\ Len(blocks[i]) = Len(sent[r + i]) + 5
    <3>1. r + i \in 1 .. l
      BY <2>7
    <3>2. sent[r + i] \in Packets
      BY <2>7, <3>1, ElementOfSeq DEF StreamInv
    <3> QED
      BY <2>1, <2>7, <3>1, <3>2, FrameBytes, PacketBytes
  <2>10. /\ at[1] = 1 /\ at[m + 1] = Len(full) + 1
         /\ \A i \in 1 .. m + 1 : at[i] \in Int /\ at[i] <= Len(full) + 1
    <3>1. \A i \in 1 .. m + 1 : r + i \in 1 .. l + 1 /\ at[i] = cut[r + i] + f
      BY <2>7
    <3>2. at[1] = 1
      BY <2>5, <2>7, <3>1
    <3>3. at[m + 1] = Len(full) + 1
      <4>1. r + (m + 1) = l + 1 /\ m + 1 \in 1 .. m + 1
        BY <2>7
      <4>2. at[m + 1] = (Len(rest) + 1) + f
        BY <2>8, <3>1, <4>1
      <4> QED
        BY <2>3, <2>6, <4>2
    <3>4. ASSUME NEW i \in 1 .. m + 1 PROVE at[i] \in Int /\ at[i] <= Len(full) + 1
      <4>1. PICK c \in Int, n \in Nat : c = cut[r + i] /\ n = Len(rest) /\ c <= n + 1
        BY <2>3, <2>8, <3>1
      <4>2. at[i] = c + f /\ Len(full) = f + n
        BY <2>6, <3>1, <4>1
      <4> HIDE DEF at
      <4> QED
        BY <4>1, <4>2
    <3> HIDE DEF at
    <3> QED
      BY <3>2, <3>3, <3>4
  <2>11. ASSUME NEW i \in 1 .. m PROVE at[i + 1] = at[i] + Len(blocks[i])
    <3>1. i \in 1 .. m + 1 /\ i + 1 \in 1 .. m + 1 /\ (r + i) + 1 = r + (i + 1)
      OBVIOUS
    <3>2. cut[r + (i + 1)] = cut[r + i] + Len(sent[r + i]) + 5
      BY <2>8, <2>9, <3>1
    <3>3. cut[r + i] \in Int
      BY <2>8, <2>9, SMTT(20)
    <3> QED
      BY <2>9, <3>1, <3>2, <3>3, SMTT(20)
  <2>12. \A i \in 2 .. m + 1 : at[i] \in Nat /\ at[i] >= 6
    <3>1. \A i \in 1 .. m : \E n \in Nat : n >= 5 /\ at[i + 1] = at[i] + n
      <4> HIDE DEF at
      <4>1. ASSUME NEW i \in 1 .. m PROVE \E n \in Nat : n >= 5 /\ at[i + 1] = at[i] + n
        <5>1. PICK n \in Nat : n = Len(blocks[i]) /\ n >= 5
          <6>1. PICK h \in Nat : h = Len(sent[r + i]) /\ Len(blocks[i]) = h + 5
            BY <2>9
          <6> QED
            BY <6>1
        <5> QED
          BY <2>11, <5>1
      <4> QED
        BY <4>1
    <3>2. at[1] = 1
      BY <2>10
    <3> HIDE DEF at
    <3> QED
      BY <3>1, <3>2, LaterTiles
  <2>13. ASSUME NEW i \in 1 .. m, NEW j \in 1 .. Len(blocks[i])
         PROVE  full[at[i] + j - 1] = blocks[i][j]
    <3>1. j \in 1 .. Len(sent[r + i]) + 5 /\ Len(sent[r + i]) \in Nat /\ j \in Nat
      BY <2>9
    <3>2. PICK c \in Int, y \in Int : c = cut[r + i] /\ y = at[i] /\ y = c + f
      <4>1. r + i \in 1 .. l + 1 /\ i \in 1 .. m + 1
        BY <2>7
      <4>2. PICK c \in Int : c = cut[r + i]
        BY <2>8, <4>1
      <4>3. at[i] = c + f /\ c + f \in Int
        BY <4>1, <4>2
      <4> QED
        BY <4>2, <4>3
    <3> HIDE DEF at
    <3>3. c + Len(sent[r + i]) + 5 <= Len(rest) + 1
      <4>1. (r + i) + 1 \in 1 .. l + 1
        BY <2>7
      <4> QED
        BY <2>8, <2>9, <3>2, <4>1
    <3>4. CASE c + j - 1 >= 1
      <4>1. PICK q \in 1 .. f + Len(rest) : q = at[i] + j - 1 /\ ~(q <= f) /\ q - f = c + j - 1
        <5>1. PICK n \in Nat, h \in Nat : n = Len(rest) /\ h = Len(sent[r + i])
          BY <2>3, <2>9
        <5>2. c + j - 1 + f \in 1 .. f + n
          BY <3>1, <3>3, <3>4, <5>1
        <5>3. at[i] + j - 1 = c + j - 1 + f /\ ~(c + j - 1 + f <= f)
          <6>1. y + j - 1 = c + j - 1 + f /\ ~(c + j - 1 + f <= f)
            BY ONLY <3>1, <3>2, <3>4, SMTT(20)
          <6> QED
            BY <3>2, <6>1
        <5>4. (c + j - 1 + f) - f = c + j - 1
          BY <3>1
        <5> QED
          BY <5>1, <5>2, <5>3, <5>4
      <4>2. full[q] = rest[c + j - 1]
        BY <2>6, <4>1
      <4>3. rest[c + j - 1] = FrameOf(sent[r + i])[j]
        BY <2>8, <2>9, <3>1, <3>2, <3>4
      <4> QED
        BY <2>9, <4>1, <4>2, <4>3
    <3>5. CASE ~(c + j - 1 >= 1)
      <4>1. i = 1
        <5>1. i \in 2 .. m + 1 => at[i] >= 6
          BY <2>12
        <5>2. at[i] < 6
          <6>1. j >= 1 /\ c + j < 2
            BY ONLY <3>1, <3>2, <3>5
          <6>2. f <= 5
            <7>1. f = 0 \/ f = 5
              BY <2>5
            <7> QED
              BY ONLY <7>1
          <6>3. y < 6
            BY ONLY <3>1, <3>2, <6>1, <6>2
          <6> QED
            BY <3>2, <6>3
        <5>3. at[i] \in Int
          BY <3>2
        <5>4. i \in 2 .. m + 1 \/ i = 1
          OBVIOUS
        <5> QED
          BY <5>1, <5>2, <5>3, <5>4
      <4>2. c = 1 - f
        BY <2>5, <2>7, <3>2, <4>1
      <4>3. f = 5 /\ filling /\ j \in 1 .. 5
        BY <2>4, <2>5, <3>1, <3>5, <4>2
      <4>4. at[i] + j - 1 = j /\ j <= f /\ j \in 1 .. f + Len(rest)
        BY <2>3, <3>1, <3>2, <4>2, <4>3
      <4>5. full[j] = front[j]
        BY <2>6, <4>4
      <4>6. front[j] = FrameOf(sent[k])[j]
        BY <2>4, <4>3
      <4> QED
        BY <2>7, <2>9, <4>1, <4>4, <4>5, <4>6
    <3> QED
      BY <3>4, <3>5
  <2>14. Tiles(full, blocks, at)
    <3> HIDE DEF at
    <3> QED
      BY <2>1, <2>10, <2>11, <2>13 DEF Tiles
  <2>15. FlattenSeq(blocks) = full
    <3> HIDE DEF at
    <3> QED
      BY <2>14, Flattened
  <2> QED
    BY <2>1, <2>4, <2>6, <2>15 DEF NothingLost, Removed
<1> QED
  BY <1>1, InStep, PTL
=============================================================================
