---------------------------- MODULE SocketToTun -----------------------------
(***************************************************************************)
(* From the server to the host: sendRawPacket writes frames to the UART,   *)
(* the virtual machine writes its bytes into the socket, the thread        *)
(* socket2tun of eth2serial.py reads them in chunks of any size and writes *)
(* packets to the TUN device.                                              *)
(***************************************************************************)
EXTENDS Framing, SequencesExt

CONSTANT Chunk   (* the most bytes recv returns, 2048                      *)

VARIABLES
  pkt,      (* bytes received and not written to the TUN device            *)
  filling,  (* is the thread in the inner loop, completing a packet?       *)
  size      (* of that packet                                              *)

thread == <<pkt, filling, size>>
vars == <<sent, bytes, received, thread>>

Init == FramingInit /\ pkt = <<>> /\ filling = FALSE /\ size = 0

-----------------------------------------------------------------------------
SendRawPacket == SendFrame /\ UNCHANGED <<received, thread>>

Drop(s, n) == SubSeq(s, n + 1, Len(s))

(* recv(2048) returns n bytes: whatever is there, the first one at least;  *)
(* with them pkt is Got(n).                                                *)
Recv(n) == n <= Chunk /\ bytes' = Drop(bytes, n) /\ UNCHANGED sent
Got(n) == pkt \o SubSeq(bytes, 1, n)

(* "send packet" and "remove packet sent".  The thread then goes back to   *)
(* the outer recv, whatever is left in pkt.                                *)
ForwardAndForget(got, n) ==
  /\ received' = Append(received, SubSeq(got, 1, n))
  /\ pkt' = <<>>
  /\ filling' = FALSE
Forward(got, n) ==
  /\ received' = Append(received, SubSeq(got, 1, n))
  /\ pkt' = Drop(got, n)
  /\ filling' = FALSE

Keep(got) == pkt' = got /\ filling' = TRUE /\ UNCHANGED received

(* The outer recv returns: not a whole prolog yet ...                      *)
Collect(n) ==
  /\ ~filling /\ Recv(n) /\ Len(Got(n)) < 5
  /\ pkt' = Got(n)
  /\ UNCHANGED <<received, filling, size>>

(* ... or one, of which the first three bytes are not looked at.           *)
StripPrologShifted(n) ==
  /\ ~filling /\ Recv(n) /\ Len(Got(n)) >= 5
  /\ size' = B2u(Got(n)[3], Got(n)[4])
  /\ LET got == Drop(Got(n), 5)
     IN  \/ Len(got) >= size' /\ Forward(got, size')
         \/ Len(got) < size' /\ Keep(got)
StripProlog(n) ==
  /\ ~filling /\ Recv(n) /\ Len(Got(n)) >= 5
  /\ size' = B2u(Got(n)[4], Got(n)[5])
  /\ LET got == Drop(Got(n), 5)
     IN  \/ Len(got) >= size' /\ Forward(got, size')
         \/ Len(got) < size' /\ Keep(got)

(* The inner recv returns.                                                 *)
FillBeyond(n) ==
  /\ filling /\ Recv(n)
  /\ \/ Len(Got(n)) > size /\ Forward(Got(n), size)
     \/ Len(Got(n)) <= size /\ Keep(Got(n))
  /\ UNCHANGED size
Fill(n) ==
  /\ filling /\ Recv(n)
  /\ \/ Len(Got(n)) >= size /\ Forward(Got(n), size)
     \/ Len(Got(n)) < size /\ Keep(Got(n))
  /\ UNCHANGED size

Socket2Tun == \E n \in 1 .. Len(bytes) : Collect(n) \/ StripProlog(n) \/ Fill(n)

Next == SendRawPacket \/ Socket2Tun

Spec == Init /\ [][Next]_vars /\ WF_vars(Socket2Tun)

-----------------------------------------------------------------------------
(* However the stream is cut into chunks, the thread is always in step     *)
(* with the frames: what it holds, with what is still in the socket, is    *)
(* exactly the frames not forwarded.  So the three bytes it skips without  *)
(* looking are the magic number.                                           *)
NothingLost ==
  LET prolog == IF filling THEN MAGIC_NUMBER \o u2B(size) ELSE <<>>
      ahead == Drop(sent, Len(received))
  IN  prolog \o pkt \o bytes = FlattenSeq([i \in DOMAIN ahead |-> FrameOf(ahead[i])])

(* Packets reach the TUN device whole, once and in order.                  *)
ForwardsInOrder == Channel!InOrder

(* A packet that has not all arrived when everything before it has been    *)
(* forwarded is forwarded too, unless the next one comes on its heels: a   *)
(* server that sends nothing before its answer is through is heard.        *)
LoneFrameForwarded ==
  \A n \in 1 .. MaxFrames :
    Len(sent) = n /\ Len(received) = n - 1 /\ bytes # <<>> ~>
      Len(received) >= n \/ Len(sent) > n

(* readme.md line 54, the proxy sends tcp/ip packets in the socket "and    *)
(* vice-versa": a packet the server has sent gets to the TUN device.       *)
EveryPacketForwarded ==
  \A n \in 1 .. MaxFrames : Len(sent) = n ~> Len(received) >= n
=============================================================================
