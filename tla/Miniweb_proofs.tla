---------------------------- MODULE Miniweb_proofs ----------------------------
(***************************************************************************)
(* What the server and its clients guarantee together, for any number of   *)
(* clients and any loss.                                                   *)
(***************************************************************************)
EXTENDS Miniweb, WebServer_proofs, SequenceTheorems, FiniteSetTheorems

-----------------------------------------------------------------------------
(* Distances in sequence space, without the remainder.                     *)
LEMMA DistIs ==
  ASSUME NEW a \in SeqNumber, NEW b \in SeqNumber
  PROVE  /\ Dist(a, b) = IF a <= b THEN b - a ELSE b - a + SeqMod
         /\ Dist(a, b) \in 0 .. SeqMod - 1
  BY SegmentAssumption, SMT DEF Dist, SeqNumber

LEMMA PlusIs ==
  ASSUME NEW a \in SeqNumber, NEW n \in 0 .. SeqMod - 1
  PROVE  /\ Plus(a, n) = IF a + n < SeqMod THEN a + n ELSE a + n - SeqMod
         /\ Plus(a, n) \in SeqNumber
  BY SegmentAssumption, SMT DEF Plus, SeqNumber

(* A step of n in sequence space is n long, and one of 1 adds at most 1.   *)
LEMMA DistPlus ==
  ASSUME NEW a \in SeqNumber, NEW b \in SeqNumber, NEW n \in 0 .. SeqMod - 1
  PROVE  /\ Dist(a, Plus(a, n)) = n
         /\ 1 < SeqMod => Dist(a, Plus(b, 1)) <= Dist(a, b) + 1
<1>1. SeqMod \in Nat /\ a \in 0 .. SeqMod - 1 /\ b \in 0 .. SeqMod - 1
  BY SegmentAssumption DEF SeqNumber
<1>2. Dist(a, Plus(a, n)) = n
  <2>1. /\ Plus(a, n) = IF a + n < SeqMod THEN a + n ELSE a + n - SeqMod
        /\ Plus(a, n) \in SeqNumber
    BY PlusIs
  <2>2. Dist(a, Plus(a, n)) =
          IF a <= Plus(a, n) THEN Plus(a, n) - a ELSE Plus(a, n) - a + SeqMod
    BY <2>1, DistIs
  <2> QED
    BY <1>1, <2>1, <2>2
<1>3. ASSUME 1 < SeqMod
      PROVE  Dist(a, Plus(b, 1)) <= Dist(a, b) + 1
  <2>1. /\ Plus(b, 1) = IF b + 1 < SeqMod THEN b + 1 ELSE b + 1 - SeqMod
        /\ Plus(b, 1) \in SeqNumber
    BY <1>1, <1>3, PlusIs
  <2>2. Dist(a, Plus(b, 1)) =
          IF a <= Plus(b, 1) THEN Plus(b, 1) - a ELSE Plus(b, 1) - a + SeqMod
    BY <2>1, DistIs
  <2>3. Dist(a, b) = IF a <= b THEN b - a ELSE b - a + SeqMod
    BY DistIs
  <2> QED
    BY <1>1, <2>1, <2>2, <2>3
<1> QED
  BY <1>2, <1>3

(* Acknowledging what is outstanding leaves the less to acknowledge.       *)
LEMMA DistShrinks ==
  ASSUME NEW a \in SeqNumber, NEW b \in SeqNumber, NEW k \in SeqNumber,
         Dist(a, k) <= Dist(a, b)
  PROVE  Dist(k, b) <= Dist(a, b)
<1>1. SeqMod \in Nat /\ {a, b, k} \subseteq 0 .. SeqMod - 1
  BY SegmentAssumption DEF SeqNumber
<1>2. /\ Dist(a, k) = IF a <= k THEN k - a ELSE k - a + SeqMod
      /\ Dist(a, b) = IF a <= b THEN b - a ELSE b - a + SeqMod
      /\ Dist(k, b) = IF k <= b THEN b - k ELSE b - k + SeqMod
  BY DistIs
<1> QED
  BY <1>1, <1>2

LEMMA DistZero ==
  ASSUME NEW a \in SeqNumber, NEW b \in SeqNumber
  PROVE  Dist(a, b) = 0 <=> a = b
<1>1. SeqMod \in Nat /\ {a, b} \subseteq 0 .. SeqMod - 1
  BY SegmentAssumption DEF SeqNumber
<1>2. Dist(a, b) = IF a <= b THEN b - a ELSE b - a + SeqMod
  BY DistIs
<1> QED
  BY <1>1, <1>2

-----------------------------------------------------------------------------
(* What a client has outstanding: nothing before the request, then at most *)
(* the request and the FIN.                                                *)
Outstanding(e) ==
  /\ e.st = "open" => Dist(e.una, e.nxt) <= RequestLen
  /\ e.st = "open" /\ ~e.asked => e.una = e.nxt
  /\ e.st = "closing" => Dist(e.una, e.nxt) <= RequestLen + 1

TypeInv == TypeOK /\ \A c \in Clients : Outstanding(conn[c])

LEMMA Constants ==
  /\ SeqMod \in Nat /\ 1 < SeqMod /\ MaxLen \in Nat
  /\ RequestLen \in 0 .. SeqMod - 1 /\ RequestLen \in 1 .. MaxLen
  /\ PageLen \in 1 .. MaxLen
  /\ 0 \in SeqNumber /\ 1 \in 0 .. SeqMod - 1
  /\ Clients \subseteq Hosts /\ ServerHost \in Hosts
  BY SegmentAssumption, ClientsAssumption DEF SeqNumber

(* A client sends frames.                                                  *)
LEMMA MakeType ==
  ASSUME NEW c \in Clients, NEW e \in Connection, NEW seq \in SeqNumber,
         NEW flags \in SUBSET Flag, NEW len \in 0 .. MaxLen
  PROVE  Make(c, e, seq, flags, len) \in Frame
<1>1. c \in Hosts /\ ServerHost \in Hosts /\ e.rcv \in SeqNumber /\ len \in -MaxLen .. MaxLen
  BY Constants DEF Connection
<1> QED
  BY <1>1 DEF Make, Frame, Segment, IPv4, PROTOCOL_TCP

LEMMA PutType ==
  ASSUME rx \in Seq(Frame), NEW f \in Frame, Put(f)
  PROVE  rx' \in Seq(Frame)
  BY DEF Put

LEMMA AcknowledgeType ==
  ASSUME rx \in Seq(Frame), NEW c \in Clients, NEW e \in Connection, Acknowledge(c, e)
  PROVE  rx' \in Seq(Frame)
<1>1. e.nxt \in SeqNumber /\ {"ACK"} \in SUBSET Flag /\ 0 \in 0 .. MaxLen
  BY Constants DEF Connection, Flag
<1>2. Make(c, e, e.nxt, {"ACK"}, 0) \in Frame
  BY <1>1, MakeType
<1> QED
  BY <1>2, PutType DEF Acknowledge

(* A client's new end is an end.                                           *)
ClientsInv == conn \in [Clients -> Connection] /\ \A c \in Clients : Outstanding(conn[c])

LEMMA BecomeInv ==
  ASSUME ClientsInv, NEW c \in Clients, NEW e \in Connection, Outstanding(e), Become(c, e)
  PROVE  ClientsInv'
  BY DEF ClientsInv, Become

(* The segment that reaches a client, and what is left.                    *)
LEMMA ReachesType ==
  ASSUME tx \in Seq(Segment), NEW c \in Clients, Reaches(c)
  PROVE  /\ Head(tx) \in Segment /\ tx # <<>> /\ tx' = Tail(tx)
         /\ tx' \in Seq(Segment) /\ Len(tx') = Len(tx) - 1
         /\ Head(tx).dst = c
  BY DEF Reaches

(* Acknowledging keeps an end an end.                                      *)
LEMMA AckedType ==
  ASSUME NEW p \in Segment, NEW e \in Connection, Outstanding(e)
  PROVE  /\ AckedEnd(p, e) \in Connection
         /\ Outstanding(AckedEnd(p, e))
         /\ \E k \in SeqNumber : AckedEnd(p, e) = [e EXCEPT !.una = k]
<1>1. CASE ~AcksNew(p, e)
  <2>1. AckedEnd(p, e) = e /\ e = [e EXCEPT !.una = e.una] /\ e.una \in SeqNumber
    BY <1>1 DEF AckedEnd, Connection
  <2> QED
    BY <2>1
<1>2. CASE AcksNew(p, e)
  <2> DEFINE k == p.ack  a == [e EXCEPT !.una = k]
  <2>1. AckedEnd(p, e) = a
    BY <1>2 DEF AckedEnd
  <2>2. k \in SeqNumber /\ e.una \in SeqNumber /\ e.nxt \in SeqNumber
    BY DEF Segment, Connection
  <2>3. a \in Connection /\ a.st = e.st /\ a.asked = e.asked /\ a.una = k /\ a.nxt = e.nxt
    BY <2>2 DEF Connection
  <2>4. Dist(e.una, k) <= Dist(e.una, e.nxt)
    BY <1>2 DEF AcksNew
  <2>5. Dist(k, e.nxt) <= Dist(e.una, e.nxt)
    BY <2>2, <2>4, DistShrinks
  <2>6. Dist(e.una, k) \in Nat /\ Dist(k, e.nxt) \in Nat /\ Dist(e.una, e.nxt) \in Nat
    BY <2>2, DistIs
  <2>7. e.una = e.nxt => k = e.nxt
    <3>1. e.una = e.nxt => Dist(e.una, e.nxt) = 0
      BY <2>2, DistZero
    <3>2. e.una = e.nxt => Dist(e.una, k) = 0
      BY <2>4, <2>6, <3>1
    <3> QED
      BY <2>2, <3>2, DistZero
  <2>8. Outstanding(a)
    <3>1. RequestLen \in Nat
      BY Constants
    <3> HIDE DEF a, k
    <3> QED
      BY <2>3, <2>5, <2>6, <2>7, <3>1 DEF Outstanding
  <2> QED
    BY <2>1, <2>2, <2>3, <2>8
<1> QED
  BY <1>1, <1>2

-----------------------------------------------------------------------------
(* What a step leaves when it keeps every type.                            *)
LineType == rx \in Seq(Frame) /\ tx \in Seq(Segment)
EndsInv == LineType /\ ClientsInv /\ early \in [syn : Nat, data : Nat]

LEMMA TimerType ==
  ASSUME NEW c, NEW kind \in {"syn", "data"}, early \in [syn : Nat, data : Nat], Timer(c, kind)
  PROVE  early' \in [syn : Nat, data : Nat]
<1>1. CASE UNCHANGED early
  BY <1>1
<1>2. CASE early[kind] > 0 /\ early' = [early EXCEPT ![kind] = @ - 1]
  BY <1>2
<1> QED
  BY <1>1, <1>2 DEF Timer

(* What the applications and the timers of a client's host do.             *)
LEMMA ClientType ==
  ASSUME EndsInv, NEW c \in Clients, Client(c)
  PROVE  EndsInv' /\ tx' = tx
<1>0. rx \in Seq(Frame) /\ tx \in Seq(Segment) /\ early \in [syn : Nat, data : Nat]
  BY DEF EndsInv, LineType
<1>c. /\ ClientsInv /\ conn[c] \in Connection /\ Outstanding(conn[c])
      /\ conn \in [Clients -> Connection]
  BY DEF EndsInv, ClientsInv
<1>f. /\ conn[c].una \in SeqNumber /\ conn[c].nxt \in SeqNumber /\ conn[c].rcv \in SeqNumber
      /\ conn[c].st \in ClientStates
  BY <1>c DEF Connection
<1>l. /\ {"SYN"} \in SUBSET Flag /\ {"PSH", "ACK"} \in SUBSET Flag
      /\ {"FIN", "ACK"} \in SUBSET Flag /\ 0 \in 0 .. MaxLen
  BY Constants DEF Flag
<1>1. CASE Connect(c)
  <2>1. PICK isn \in InitialSeqs :
          LET e == [Closed EXCEPT !.st = "synSent", !.una = isn, !.nxt = Plus(isn, 1)]
          IN  Become(c, e) /\ Put(Make(c, e, isn, {"SYN"}, 0))
    BY <1>1 DEF Connect
  <2> DEFINE e == [Closed EXCEPT !.st = "synSent", !.una = isn, !.nxt = Plus(isn, 1)]
  <2>2. isn \in SeqNumber /\ Plus(isn, 1) \in SeqNumber
    BY ClientsAssumption, PlusType
  <2>3. e \in Connection /\ e.st = "synSent"
    <3> DEFINE z == Plus(isn, 1)  cl == Closed
    <3>1. cl \in Connection
      BY Constants DEF Connection, Closed, ClientStates
    <3>2. z \in SeqNumber /\ "synSent" \in ClientStates
      BY <2>2 DEF ClientStates
    <3>3. e = [cl EXCEPT !.st = "synSent", !.una = isn, !.nxt = z]
      OBVIOUS
    <3> HIDE DEF z, cl, e
    <3> QED
      BY <2>2, <3>1, <3>2, <3>3 DEF Connection
  <2>4. Become(c, e) /\ Put(Make(c, e, isn, {"SYN"}, 0))
    BY <2>1
  <2>5. tx' = tx /\ early' = early
    BY <1>1 DEF Connect
  <2> HIDE DEF e
  <2>6. Outstanding(e)
    BY <2>3 DEF Outstanding
  <2>7. rx' \in Seq(Frame)
    BY <1>0, <1>l, <2>2, <2>3, <2>4, MakeType, PutType
  <2> QED
    BY <1>0, <1>c, <2>3, <2>4, <2>5, <2>6, <2>7, BecomeInv DEF EndsInv, LineType
<1>2. CASE Ask(c)
  <2> DEFINE e == [conn[c] EXCEPT !.asked = TRUE, !.owes = FALSE, !.nxt = Plus(@, RequestLen)]
  <2>1. Become(c, e) /\ Put(Make(c, e, conn[c].nxt, {"PSH", "ACK"}, RequestLen))
        /\ tx' = tx /\ early' = early /\ conn[c].st = "open" /\ ~conn[c].asked
    BY <1>2 DEF Ask
  <2>2. Plus(conn[c].nxt, RequestLen) \in SeqNumber /\ RequestLen \in 0 .. MaxLen
    BY <1>f, Constants, PlusType
  <2>3. e \in Connection /\ e.st = "open" /\ e.asked
        /\ e.una = conn[c].una /\ e.nxt = Plus(conn[c].nxt, RequestLen)
    BY <1>c, <2>1, <2>2 DEF Connection
  <2>4. conn[c].una = conn[c].nxt
    BY <1>c, <2>1 DEF Outstanding
  <2> HIDE DEF e
  <2>5. Dist(e.una, e.nxt) = RequestLen
    BY <1>f, <2>3, <2>4, Constants, DistPlus
  <2>6. Outstanding(e)
    BY <2>3, <2>5, Constants DEF Outstanding
  <2>7. rx' \in Seq(Frame)
    BY <1>0, <1>f, <1>l, <2>1, <2>2, <2>3, MakeType, PutType
  <2> QED
    BY <1>0, <1>c, <2>1, <2>3, <2>6, <2>7, BecomeInv DEF EndsInv, LineType
<1>3. CASE Close(c)
  <2> DEFINE e == [conn[c] EXCEPT !.st = "closing", !.owes = FALSE, !.nxt = Plus(@, 1)]
  <2>1. Become(c, e) /\ Put(Make(c, e, conn[c].nxt, {"FIN", "ACK"}, 0))
        /\ tx' = tx /\ early' = early /\ conn[c].st = "open"
    BY <1>3 DEF Close
  <2>2. Plus(conn[c].nxt, 1) \in SeqNumber
    BY <1>f, PlusType
  <2>3. e \in Connection /\ e.st = "closing"
        /\ e.una = conn[c].una /\ e.nxt = Plus(conn[c].nxt, 1)
    BY <1>c, <2>1, <2>2 DEF Connection, ClientStates
  <2>4. Dist(conn[c].una, conn[c].nxt) <= RequestLen
    BY <1>c, <2>1 DEF Outstanding
  <2> HIDE DEF e
  <2>5. Dist(e.una, e.nxt) <= Dist(conn[c].una, conn[c].nxt) + 1
    BY <1>f, <2>3, Constants, DistPlus
  <2>6. Dist(e.una, e.nxt) <= RequestLen + 1
    <3>1. Dist(e.una, e.nxt) \in Nat /\ Dist(conn[c].una, conn[c].nxt) \in Nat
      BY <1>f, <2>2, <2>3, DistIs
    <3> QED
      BY <2>4, <2>5, <3>1, Constants
  <2>7. Outstanding(e)
    BY <2>3, <2>6 DEF Outstanding
  <2>8. rx' \in Seq(Frame)
    BY <1>0, <1>f, <1>l, <2>1, <2>3, MakeType, PutType
  <2> QED
    BY <1>0, <1>c, <2>1, <2>3, <2>7, <2>8, BecomeInv DEF EndsInv, LineType
<1>4. CASE DelayedAck(c)
  <2> DEFINE e == [conn[c] EXCEPT !.owes = FALSE]
  <2>1. Become(c, e) /\ Acknowledge(c, e) /\ tx' = tx /\ early' = early
    BY <1>4 DEF DelayedAck
  <2>2. e \in Connection /\ e.st = conn[c].st /\ e.asked = conn[c].asked
        /\ e.una = conn[c].una /\ e.nxt = conn[c].nxt
    BY <1>c DEF Connection
  <2> HIDE DEF e
  <2>3. Outstanding(e)
    BY <1>c, <2>2 DEF Outstanding
  <2>4. rx' \in Seq(Frame)
    BY <1>0, <2>1, <2>2, AcknowledgeType
  <2> QED
    BY <1>0, <1>c, <2>1, <2>2, <2>3, <2>4, BecomeInv DEF EndsInv, LineType
<1>5. CASE RetransmitSyn(c)
  <2>1. Put(Make(c, conn[c], conn[c].una, {"SYN"}, 0)) /\ tx' = tx /\ conn' = conn
        /\ Timer(c, "syn")
    BY <1>5 DEF RetransmitSyn
  <2>2. rx' \in Seq(Frame)
    BY <1>0, <1>c, <1>f, <1>l, <2>1, MakeType, PutType
  <2>3. early' \in [syn : Nat, data : Nat]
    BY <1>0, <2>1, TimerType
  <2> QED
    BY <1>0, <1>c, <2>1, <2>2, <2>3 DEF EndsInv, LineType, ClientsInv
<1>6. CASE RetransmitData(c)
  <2> DEFINE n == UnackedData(conn[c])
  <2>1. /\ conn[c].st \in {"open", "closing"} /\ conn[c].una # conn[c].nxt
        /\ tx' = tx /\ conn' = conn /\ Timer(c, "data")
        /\ \/ n > 0 /\ Put(Make(c, conn[c], conn[c].una, {"PSH", "ACK"}, n))
           \/ n = 0 /\ Put(Make(c, conn[c], conn[c].una, {"FIN", "ACK"}, n))
    BY <1>6 DEF RetransmitData
  <2>2. n \in 0 .. MaxLen
    <3> DEFINE d == Dist(conn[c].una, conn[c].nxt)
    <3>1. d \in Nat /\ d # 0
      BY <1>f, <2>1, DistIs, DistZero
    <3>2. /\ conn[c].st = "open" => n = d
          /\ conn[c].st = "closing" => n = d - 1
      BY <3>1 DEF UnackedData
    <3>3. /\ conn[c].st = "open" => d <= RequestLen
          /\ conn[c].st = "closing" => d <= RequestLen + 1
      BY <1>c DEF Outstanding
    <3> HIDE DEF d, n
    <3> QED
      BY <2>1, <3>1, <3>2, <3>3, Constants
  <2> HIDE DEF n
  <2>3. rx' \in Seq(Frame)
    BY <1>0, <1>c, <1>f, <1>l, <2>1, <2>2, MakeType, PutType
  <2>4. early' \in [syn : Nat, data : Nat]
    BY <1>0, <2>1, TimerType
  <2> QED
    BY <1>0, <1>c, <2>1, <2>3, <2>4 DEF EndsInv, LineType, ClientsInv
<1> QED
  BY <1>1, <1>2, <1>3, <1>4, <1>5, <1>6 DEF Client

(* What the host of a client does with the segment that reaches it.        *)
LEMMA ReceiveType ==
  ASSUME EndsInv, NEW c \in Clients, ClientReceives(c)
  PROVE  EndsInv' /\ Len(tx') = Len(tx) - 1
<1>0. rx \in Seq(Frame) /\ tx \in Seq(Segment) /\ early \in [syn : Nat, data : Nat]
  BY DEF EndsInv, LineType
<1>c. /\ ClientsInv /\ conn[c] \in Connection /\ Outstanding(conn[c])
      /\ conn \in [Clients -> Connection]
  BY DEF EndsInv, ClientsInv
<1>f. /\ conn[c].una \in SeqNumber /\ conn[c].nxt \in SeqNumber /\ conn[c].rcv \in SeqNumber
      /\ conn[c].st \in ClientStates
  BY <1>c DEF Connection
<1>r. Reaches(c)
  BY DEF ClientReceives, Establish, Discard, Challenge, AcceptAck, AcceptPage, Reset
<1> DEFINE p == Head(tx)
<1>p. /\ p \in Segment /\ tx' \in Seq(Segment) /\ Len(tx') = Len(tx) - 1 /\ early' = early
      /\ p.seq \in SeqNumber /\ p.ack \in SeqNumber /\ p.len \in Int
  <2>1. p \in Segment /\ tx' \in Seq(Segment) /\ Len(tx') = Len(tx) - 1 /\ early' = early
    BY <1>0, <1>r, ReachesType DEF Reaches
  <2> QED
    BY <2>1, Constants DEF Segment
<1> HIDE DEF p
<1>q. /\ AckedEnd(p, conn[c]) \in Connection
      /\ Outstanding(AckedEnd(p, conn[c]))
  BY <1>c, <1>p, AckedType
<1>1. CASE Establish(c)
  <2> DEFINE k == Plus(p.seq, 1)
             e == [conn[c] EXCEPT !.st = "open", !.una = p.ack, !.rcv = k]
  <2>1. Become(c, e) /\ Acknowledge(c, e) /\ p.ack = conn[c].nxt
    BY <1>1 DEF Establish, IsSynAck, p
  <2>2. k \in SeqNumber
    BY <1>p, PlusType
  <2> HIDE DEF k
  <2>3. e \in Connection /\ e.una = p.ack /\ e.nxt = conn[c].nxt /\ e.st = "open"
    BY <1>c, <1>p, <2>2 DEF Connection, ClientStates
  <2> HIDE DEF e
  <2>4. Outstanding(e)
    <3>1. e.una = e.nxt /\ e.una \in SeqNumber
      BY <1>p, <2>1, <2>3
    <3>2. Dist(e.una, e.nxt) = 0
      BY <3>1, DistZero
    <3> QED
      BY <2>3, <3>1, <3>2, Constants DEF Outstanding
  <2>5. rx' \in Seq(Frame)
    BY <1>0, <2>1, <2>3, AcknowledgeType
  <2> QED
    BY <1>0, <1>c, <1>p, <2>1, <2>3, <2>4, <2>5, BecomeInv DEF EndsInv, LineType
<1>2. CASE Discard(c)
  <2>1. rx' = rx /\ conn' = conn
    BY <1>2 DEF Discard
  <2> QED
    BY <1>0, <1>c, <1>p, <2>1 DEF EndsInv, LineType, ClientsInv
<1>3. CASE Challenge(c)
  <2>1. Acknowledge(c, conn[c]) /\ conn' = conn
    BY <1>3 DEF Challenge
  <2>2. rx' \in Seq(Frame)
    BY <1>0, <1>c, <2>1, AcknowledgeType
  <2> QED
    BY <1>0, <1>c, <1>p, <2>1, <2>2 DEF EndsInv, LineType, ClientsInv
<1>4. CASE AcceptAck(c)
  <2> DEFINE e == AckedEnd(p, conn[c])
             a == FinAcked(e)
             o == [a EXCEPT !.st = "done", !.rcv = Plus(@, 1)]
  <2>1. \/ Become(c, a) /\ rx' = rx
        \/ Become(c, o) /\ Acknowledge(c, o)
    BY <1>4 DEF AcceptAck, p
  <2> HIDE DEF e
  <2>2. e \in Connection /\ Outstanding(e)
    BY <1>q DEF e
  <2>3. a \in Connection /\ Outstanding(a)
    BY <2>2 DEF Connection, ClientStates, Outstanding, FinAcked
  <2> HIDE DEF a
  <2>4. o \in Connection /\ Outstanding(o)
    <3>1. Plus(a.rcv, 1) \in SeqNumber
      BY <2>3, PlusType DEF Connection
    <3> QED
      BY <2>3, <3>1 DEF Connection, ClientStates, Outstanding
  <2> HIDE DEF o
  <2>5. rx' \in Seq(Frame)
    BY <1>0, <2>1, <2>4, AcknowledgeType
  <2> QED
    BY <1>0, <1>c, <1>p, <2>1, <2>3, <2>4, <2>5, BecomeInv DEF EndsInv, LineType
<1>5. CASE AcceptPage(c)
  <2> DEFINE a == AckedEnd(p, conn[c])
             k == Plus(p.seq, p.len)
             d == Dist(p.seq, conn[c].rcv)
             g == a.got + p.len - d
             e == [a EXCEPT !.rcv = k, !.got = g]
             f == [e EXCEPT !.owes = TRUE]
  <2>1. \/ Become(c, e) /\ Acknowledge(c, e)
        \/ Become(c, f) /\ rx' = rx
    BY <1>5 DEF AcceptPage, p
  <2>2. k \in SeqNumber /\ d \in Nat
    <3>1. k \in SeqNumber
      BY <1>p, PlusType
    <3>2. d \in 0 .. SeqMod - 1
      BY <1>f, <1>p, DistIs
    <3> QED
      BY <3>1, <3>2
  <2> HIDE DEF a, k, d
  <2>3. a \in Connection /\ Outstanding(a) /\ g \in Int
    <3>1. a \in Connection /\ Outstanding(a)
      BY <1>q DEF a
    <3>2. a.got \in Int
      BY <3>1 DEF Connection
    <3> QED
      BY <1>p, <2>2, <3>1, <3>2
  <2> HIDE DEF g
  <2>4. /\ e \in Connection /\ f \in Connection
        /\ e.st = a.st /\ e.asked = a.asked /\ e.una = a.una /\ e.nxt = a.nxt
        /\ f.st = a.st /\ f.asked = a.asked /\ f.una = a.una /\ f.nxt = a.nxt
    BY <1>p, <2>2, <2>3 DEF Connection
  <2> HIDE DEF e, f
  <2>5. Outstanding(e) /\ Outstanding(f)
    BY <2>3, <2>4 DEF Outstanding
  <2>6. rx' \in Seq(Frame)
    BY <1>0, <2>1, <2>4, AcknowledgeType
  <2>7. ClientsInv'
    BY <1>c, <2>1, <2>4, <2>5, BecomeInv
  <2> QED
    BY <1>0, <1>p, <2>6, <2>7 DEF EndsInv, LineType
<1>6. CASE Reset(c)
  <2> DEFINE e == [conn[c] EXCEPT !.st = "done"]
  <2>1. Become(c, e) /\ Put(Make(c, conn[c], p.ack, {"RST"}, 0))
    BY <1>6 DEF Reset, p
  <2>2. e \in Connection /\ e.st = "done"
    BY <1>c DEF Connection, ClientStates
  <2> HIDE DEF e
  <2>3. Outstanding(e)
    BY <2>2 DEF Outstanding
  <2>4. rx' \in Seq(Frame)
    <3>1. {"RST"} \in SUBSET Flag /\ 0 \in 0 .. MaxLen
      BY Constants DEF Flag
    <3> QED
      BY <1>0, <1>c, <1>p, <2>1, <3>1, MakeType, PutType
  <2> QED
    BY <1>0, <1>c, <1>p, <2>1, <2>2, <2>3, <2>4, BecomeInv DEF EndsInv, LineType
<1> QED
  BY <1>1, <1>2, <1>3, <1>4, <1>5, <1>6 DEF ClientReceives

-----------------------------------------------------------------------------
(* Appending, taking the first and leaving one out, of a queue.            *)
LEMMA Appending ==
  ASSUME NEW S, NEW s \in Seq(S), NEW p, NEW t, t = Append(s, p)
  PROVE  /\ Len(s) \in Nat /\ Len(t) = Len(s) + 1
         /\ \A i \in 1 .. Len(s) : t[i] = s[i]
         /\ t[Len(s) + 1] = p
  OBVIOUS

LEMMA Taking ==
  ASSUME NEW S, NEW s \in Seq(S), s # <<>>, NEW t, t = Tail(s)
  PROVE  /\ Len(s) \in Nat \ {0} /\ Len(t) = Len(s) - 1
         /\ \A i \in 1 .. Len(t) : t[i] = s[i + 1]
         /\ Head(s) = s[1] /\ s[1] \in S
  OBVIOUS

LeaveOut(s, k) == SubSeq(s, 1, k) \o SubSeq(s, k + 2, Len(s))

LEMMA LeavingOut ==
  ASSUME NEW S, NEW s \in Seq(S), NEW k \in 0 .. Len(s) - 1
  PROVE  /\ LeaveOut(s, k) \in Seq(S) /\ Len(LeaveOut(s, k)) = Len(s) - 1
         /\ \A i \in 1 .. Len(s) - 1 : LeaveOut(s, k)[i] = s[IF i <= k THEN i ELSE i + 1]
<1> DEFINE n == Len(s)  a == SubSeq(s, 1, k)  b == SubSeq(s, k + 2, n)  c == a \o b
<1>1. n \in Nat /\ k \in Nat /\ k < n
  BY LenProperties
<1>2. a \in Seq(S) /\ Len(a) = k /\ \A i \in 1 .. k : a[i] = s[i]
  BY <1>1, SubSeqProperties
<1>3. b \in Seq(S) /\ Len(b) = n - 1 - k /\ \A i \in 1 .. n - 1 - k : b[i] = s[k + 1 + i]
  BY <1>1, SubSeqProperties
<1>4. LeaveOut(s, k) = c
  BY DEF LeaveOut
<1> HIDE DEF a, b
<1>5. /\ c \in Seq(S) /\ Len(c) = Len(a) + Len(b)
      /\ \A i \in 1 .. Len(a) + Len(b) : c[i] = IF i <= Len(a) THEN a[i] ELSE b[i - Len(a)]
  BY <1>2, <1>3, ConcatProperties
<1> HIDE DEF n, c
<1>6. c \in Seq(S) /\ Len(c) = n - 1
  BY <1>1, <1>2, <1>3, <1>5
<1>7. ASSUME NEW i \in 1 .. n - 1
      PROVE  c[i] = s[IF i <= k THEN i ELSE i + 1]
  <2>1. c[i] = IF i <= k THEN a[i] ELSE b[i - k]
    BY <1>1, <1>2, <1>3, <1>5
  <2>2. CASE i <= k
    BY <1>1, <1>2, <2>1, <2>2
  <2>3. CASE ~(i <= k)
    <3>1. i - k \in 1 .. n - 1 - k
      BY <1>1, <2>3
    <3>2. b[i - k] = s[k + 1 + (i - k)]
      BY <1>3, <3>1
    <3>3. k + 1 + (i - k) = i + 1
      BY <1>1
    <3> QED
      BY <2>1, <2>3, <3>2, <3>3
  <2> QED
    BY <2>2, <2>3
<1> QED
  BY <1>4, <1>6, <1>7 DEF n

(* The server's step, for the two ends of the line.                        *)
LEMMA AnsweringType ==
  ASSUME ServerTypeOK, Server
  PROVE  /\ ServerTypeOK'
         /\ Len(tx) \in Nat /\ Len(tx') \in Nat /\ Len(tx) <= Len(tx')
<1>0. rx \in Seq(Frame) /\ tx \in Seq(Segment)
  BY DEF ServerTypeOK
<1>1. ServerTypeOK'
  BY ServerStepType
<1>2. CASE tx' = tx
  BY <1>0, <1>1, <1>2
<1>3. ASSUME NEW flags \in SUBSET Flag, NEW len \in {0, PageLen}, SendAnswer(flags, len)
      PROVE  Len(tx) \in Nat /\ Len(tx') = Len(tx) + 1
  <2>1. tx' = Append(tx, buildRawTcpIpPacket(Packet, flags, len))
    BY <1>3 DEF SendAnswer
  <2> QED
    BY <1>0, <2>1
<1> QED
  BY <1>1, <1>2, <1>3, ServerStepLine

(* Every variable of the system keeps its type.                            *)
LEMMA TypeInvStep == TypeInv /\ [Next]_vars => TypeInv'
<1> SUFFICES ASSUME TypeInv, [Next]_vars
             PROVE  TypeInv'
  OBVIOUS
<1>0. /\ ServerTypeOK /\ EndsInv /\ held \in 0 .. Len(tx) /\ faults \in [loss : Nat, noise : Nat]
      /\ pc \in Waits /\ session \in Seq(Segment)
      /\ rx \in Seq(Frame) /\ tx \in Seq(Segment) /\ Len(tx) \in Nat
  BY DEF TypeInv, TypeOK, ServerTypeOK, ClientsTypeOK, EndsInv, LineType, ClientsInv
<1>q. ASSUME EndsInv', pc' \in Waits, session' \in Seq(Segment),
             held' \in 0 .. Len(tx'), faults' \in [loss : Nat, noise : Nat]
      PROVE  TypeInv'
  BY <1>q DEF TypeInv, TypeOK, ServerTypeOK, ClientsTypeOK, EndsInv, LineType, ClientsInv
<1>1. CASE ServerStep
  <2>1. /\ ServerTypeOK' /\ Len(tx') \in Nat /\ Len(tx) <= Len(tx')
        /\ conn' = conn /\ early' = early /\ held' = held /\ faults' = faults
    BY <1>0, <1>1, AnsweringType DEF ServerStep, clientOwn
  <2> QED
    BY <1>0, <1>q, <2>1 DEF ServerTypeOK, EndsInv, LineType, ClientsInv
<1>2. ASSUME NEW c \in Clients, ClientActs(Client(c))
      PROVE  TypeInv'
  <2>1. /\ EndsInv' /\ tx' = tx
        /\ pc' = pc /\ session' = session /\ held' = held /\ faults' = faults
    BY <1>0, <1>2, ClientType DEF ClientActs, serverOwn
  <2> QED
    BY <1>0, <1>q, <2>1
<1>3. ASSUME NEW c \in Clients, ClientTakes(c)
      PROVE  TypeInv'
  <2>1. /\ EndsInv' /\ Len(tx') = Len(tx) - 1
        /\ pc' = pc /\ session' = session /\ faults' = faults
    BY <1>0, <1>3, ReceiveType DEF ClientTakes, serverOwn
  <2>2. held' \in 0 .. Len(tx')
    <3>1. PICK n \in held .. Len(tx) : n >= 1 /\ held' = n - 1
      BY <1>3 DEF ClientTakes, ForwardOne
    <3> QED
      BY <1>0, <2>1, <3>1
  <2> QED
    BY <1>0, <1>q, <2>1, <2>2
<1>4. CASE Lose
  <2>1. /\ LoseRx \/ LoseTx
        /\ faults' = [faults EXCEPT !.loss = @ - 1] /\ faults.loss > 0
        /\ pc' = pc /\ session' = session /\ conn' = conn /\ early' = early /\ held' = held
    BY <1>4 DEF Lose, serverOwn, clientOwn
  <2>2. faults' \in [loss : Nat, noise : Nat]
    BY <1>0, <2>1
  <2>3. rx' \in Seq(Frame) /\ tx' \in Seq(Segment) /\ held \in 0 .. Len(tx')
    <3>1. CASE LoseRx
      BY <1>0, <3>1 DEF LoseRx
    <3>2. CASE LoseTx
      <4>1. held \in 0 .. Len(tx) - 1 /\ rx' = rx
            /\ tx' = LeaveOut(tx, held)
        BY <1>0, <3>2 DEF LoseTx, LeaveOut
      <4>2. tx' \in Seq(Segment) /\ Len(tx') = Len(tx) - 1
        BY <1>0, <4>1, LeavingOut
      <4> QED
        BY <1>0, <4>1, <4>2
    <3> QED
      BY <2>1, <3>1, <3>2
  <2> QED
    BY <1>0, <1>q, <2>1, <2>2, <2>3 DEF EndsInv, LineType, ClientsInv
<1>5. CASE Noise
  <2>1. /\ rx' \in Seq(Frame) /\ tx' = tx /\ pc' = pc /\ session' = session
        /\ conn' = conn /\ early' = early /\ held' = held
    BY <1>0, <1>5, ArrivalsAssumption DEF Noise, Arrive, clientOwn
  <2>2. faults' \in [loss : Nat, noise : Nat]
    BY <1>0, <1>5 DEF Noise
  <2> QED
    BY <1>0, <1>q, <2>1, <2>2 DEF EndsInv, LineType, ClientsInv
<1>6. CASE UNCHANGED vars
  BY <1>0, <1>q, <1>6 DEF vars, EndsInv, LineType, ClientsInv
<1> QED
  BY <1>1, <1>2, <1>3, <1>4, <1>5, <1>6 DEF Next

LEMMA InitType == Init => TypeInv
<1> SUFFICES ASSUME Init PROVE TypeInv
  OBVIOUS
<1>1. ServerTypeOK
  BY DEF Init, LineInit, ServerInit, ServerTypeOK, Waits
<1>2. conn = [c \in Clients |-> Closed] /\ early = [syn |-> EarlySyn, data |-> EarlyData]
  BY DEF Init, ClientsInit
<1>3. Closed \in Connection /\ Closed.st = "closed"
  BY Constants DEF Closed, Connection, ClientStates
<1>4. \A c \in Clients : Outstanding(conn[c])
  BY <1>2, <1>3 DEF Outstanding
<1>5. ClientsTypeOK
  BY <1>2, <1>3, ClientsAssumption DEF ClientsTypeOK
<1>6. held \in 0 .. Len(tx) /\ faults \in [loss : Nat, noise : Nat]
  BY MiniwebAssumption DEF Init, LineInit
<1> QED
  BY <1>1, <1>4, <1>5, <1>6 DEF TypeInv, TypeOK

LEMMA TypeInvHolds == Spec => []TypeInv
  BY InitType, TypeInvStep, PTL DEF Spec

(* Every variable keeps its type, whatever is lost and however early the   *)
(* timers fire: no segment is ever longer than a frame, because no client  *)
(* has more outstanding than a request and a FIN.                          *)
THEOREM TypesHold == Spec => []TypeOK
<1>1. TypeInv => TypeOK
  BY DEF TypeInv
<1> QED
  BY <1>1, TypeInvHolds, PTL

-----------------------------------------------------------------------------
(* What is under way for a client that has not asked: nothing before it    *)
(* connects; a single frame in all while it waits for the answer to its    *)
(* SYN; then only its bare acknowledgements and the answers to them, which *)
(* acknowledge one byte more than it has sent and so count for nothing.    *)
From(f, c) == f.seg.src = c /\ Accepted(f)

RxOf(c) == {i \in 1 .. Len(rx) : From(rx[i], c)}
TxOf(c) == {i \in 1 .. Len(tx) : tx[i].dst = c}

Silent(c) == RxOf(c) = {} /\ TxOf(c) = {}

Alone(c) ==
  /\ \A i, j \in RxOf(c) : i = j
  /\ \A i, j \in TxOf(c) : i = j
  /\ RxOf(c) = {} \/ TxOf(c) = {}

Idle(c) ==
  /\ \A i \in RxOf(c) : rx[i].seg.seq = conn[c].nxt /\ rx[i].seg.len = 0
  /\ \A i \in TxOf(c) : tx[i].ack = Plus(conn[c].nxt, 1)

Expected(c) ==
  /\ conn[c].got >= 0
  /\ conn[c].got > 0 => conn[c].asked
  /\ conn[c].st = "closed" => Silent(c)
  /\ conn[c].st = "synSent" => Alone(c)
  /\ conn[c].st \in {"closed", "synSent"} => ~conn[c].asked
  /\ conn[c].st = "open" /\ ~conn[c].asked => Idle(c)

(* A step adds nothing of c's to a queue: each element of c's there is now *)
(* was there before, once for once.                                        *)
RxThins(c) ==
  \E g : /\ \A i \in RxOf(c)' : g[i] \in RxOf(c) /\ rx[g[i]] = rx'[i]
         /\ \A i, j \in RxOf(c)' : g[i] = g[j] => i = j
TxThins(c) ==
  \E g : /\ \A i \in TxOf(c)' : g[i] \in TxOf(c) /\ tx[g[i]] = tx'[i]
         /\ \A i, j \in TxOf(c)' : g[i] = g[j] => i = j

LEMMA RxSame ==
  ASSUME NEW c, rx' = rx
  PROVE  RxThins(c)
<1> DEFINE g == [i \in 1 .. Len(rx') |-> i]
<1>2. \A i \in 1 .. Len(rx') : g[i] = i
  OBVIOUS
<1> HIDE DEF g
<1>3. \A i \in RxOf(c)' : g[i] \in RxOf(c) /\ rx[g[i]] = rx'[i]
  BY <1>2 DEF RxOf, From
<1>4. \A i, j \in RxOf(c)' : g[i] = g[j] => i = j
  BY <1>2 DEF RxOf
<1> QED
  BY <1>3, <1>4, Zenon DEF RxThins

LEMMA RxTail ==
  ASSUME NEW c, rx \in Seq(Frame), rx # <<>>, rx' = Tail(rx)
  PROVE  RxThins(c)
<1>1. /\ Len(rx) \in Nat \ {0} /\ Len(rx') = Len(rx) - 1
      /\ \A i \in 1 .. Len(rx') : rx'[i] = rx[i + 1]
  BY Taking
<1> DEFINE g == [i \in 1 .. Len(rx') |-> i + 1]
<1>2. \A i \in 1 .. Len(rx') : g[i] = i + 1
  OBVIOUS
<1> HIDE DEF g
<1>3. \A i \in RxOf(c)' : g[i] \in RxOf(c) /\ rx[g[i]] = rx'[i]
  BY <1>1, <1>2 DEF RxOf, From
<1>4. \A i, j \in RxOf(c)' : g[i] = g[j] => i = j
  BY <1>1, <1>2 DEF RxOf
<1> QED
  BY <1>3, <1>4, Zenon DEF RxThins

LEMMA TxSame ==
  ASSUME NEW c, tx' = tx
  PROVE  TxThins(c)
<1> DEFINE g == [i \in 1 .. Len(tx') |-> i]
<1>2. \A i \in 1 .. Len(tx') : g[i] = i
  OBVIOUS
<1> HIDE DEF g
<1>3. \A i \in TxOf(c)' : g[i] \in TxOf(c) /\ tx[g[i]] = tx'[i]
  BY <1>2 DEF TxOf, From
<1>4. \A i, j \in TxOf(c)' : g[i] = g[j] => i = j
  BY <1>2 DEF TxOf
<1> QED
  BY <1>3, <1>4, Zenon DEF TxThins

LEMMA TxTail ==
  ASSUME NEW c, tx \in Seq(Segment), tx # <<>>, tx' = Tail(tx)
  PROVE  TxThins(c)
<1>1. /\ Len(tx) \in Nat \ {0} /\ Len(tx') = Len(tx) - 1
      /\ \A i \in 1 .. Len(tx') : tx'[i] = tx[i + 1]
  BY Taking
<1> DEFINE g == [i \in 1 .. Len(tx') |-> i + 1]
<1>2. \A i \in 1 .. Len(tx') : g[i] = i + 1
  OBVIOUS
<1> HIDE DEF g
<1>3. \A i \in TxOf(c)' : g[i] \in TxOf(c) /\ tx[g[i]] = tx'[i]
  BY <1>1, <1>2 DEF TxOf, From
<1>4. \A i, j \in TxOf(c)' : g[i] = g[j] => i = j
  BY <1>1, <1>2 DEF TxOf
<1> QED
  BY <1>3, <1>4, Zenon DEF TxThins

LEMMA TxLeaveOut ==
  ASSUME NEW c, tx \in Seq(Segment), NEW k \in 0 .. Len(tx) - 1, tx' = LeaveOut(tx, k)
  PROVE  TxThins(c)
<1>1. /\ Len(tx) \in Nat \ {0} /\ Len(tx') = Len(tx) - 1
      /\ \A i \in 1 .. Len(tx') : tx'[i] = tx[IF i <= k THEN i ELSE i + 1]
  <2>1. Len(tx) \in Nat /\ Len(tx) # 0
    OBVIOUS
  <2>2. /\ Len(LeaveOut(tx, k)) = Len(tx) - 1
        /\ \A i \in 1 .. Len(tx) - 1 : LeaveOut(tx, k)[i] = tx[IF i <= k THEN i ELSE i + 1]
    BY LeavingOut
  <2> QED
    BY <2>1, <2>2
<1> DEFINE g == [i \in 1 .. Len(tx') |-> (IF i <= k THEN i ELSE i + 1)]
<1>2. \A i \in 1 .. Len(tx') : g[i] = (IF i <= k THEN i ELSE i + 1)
  OBVIOUS
<1> HIDE DEF g
<1>3. \A i \in TxOf(c)' : g[i] \in TxOf(c) /\ tx[g[i]] = tx'[i]
  BY <1>1, <1>2 DEF TxOf, From
<1>4. \A i, j \in TxOf(c)' : g[i] = g[j] => i = j
  BY <1>1, <1>2 DEF TxOf
<1> QED
  BY <1>3, <1>4, Zenon DEF TxThins

LEMMA RxOther ==
  ASSUME NEW c, rx \in Seq(Frame), NEW f, ~From(f, c), rx' = Append(rx, f)
  PROVE  RxThins(c)
<1>1. /\ Len(rx) \in Nat /\ Len(rx') = Len(rx) + 1
      /\ \A i \in 1 .. Len(rx) : rx'[i] = rx[i]
      /\ rx'[Len(rx) + 1] = f
  BY Appending
<1> DEFINE g == [i \in 1 .. Len(rx') |-> i]
<1>2. \A i \in 1 .. Len(rx') : g[i] = i
  OBVIOUS
<1> HIDE DEF g
<1>3. \A i \in RxOf(c)' : g[i] \in RxOf(c) /\ rx[g[i]] = rx'[i]
  BY <1>1, <1>2 DEF RxOf, From
<1>4. \A i, j \in RxOf(c)' : g[i] = g[j] => i = j
  BY <1>1, <1>2 DEF RxOf
<1> QED
  BY <1>3, <1>4, Zenon DEF RxThins

LEMMA TxOther ==
  ASSUME NEW c, tx \in Seq(Segment), NEW p, p.dst # c, tx' = Append(tx, p)
  PROVE  TxThins(c)
<1>1. /\ Len(tx) \in Nat /\ Len(tx') = Len(tx) + 1
      /\ \A i \in 1 .. Len(tx) : tx'[i] = tx[i]
      /\ tx'[Len(tx) + 1] = p
  BY Appending
<1> DEFINE g == [i \in 1 .. Len(tx') |-> i]
<1>2. \A i \in 1 .. Len(tx') : g[i] = i
  OBVIOUS
<1> HIDE DEF g
<1>3. \A i \in TxOf(c)' : g[i] \in TxOf(c) /\ tx[g[i]] = tx'[i]
  BY <1>1, <1>2 DEF TxOf, From
<1>4. \A i, j \in TxOf(c)' : g[i] = g[j] => i = j
  BY <1>1, <1>2 DEF TxOf
<1> QED
  BY <1>3, <1>4, Zenon DEF TxThins

(* A step that is of no concern to c leaves it what it may expect.         *)
LEMMA ThinKeeps ==
  ASSUME NEW c, Expected(c), conn'[c] = conn[c], RxThins(c), TxThins(c)
  PROVE  Expected(c)'
<1>g. PICK g : /\ \A i \in RxOf(c)' : g[i] \in RxOf(c) /\ rx[g[i]] = rx'[i]
               /\ \A i, j \in RxOf(c)' : g[i] = g[j] => i = j
  BY DEF RxThins
<1>h. PICK h : /\ \A i \in TxOf(c)' : h[i] \in TxOf(c) /\ tx[h[i]] = tx'[i]
               /\ \A i, j \in TxOf(c)' : h[i] = h[j] => i = j
  BY DEF TxThins
<1>1. ASSUME Silent(c) PROVE Silent(c)'
  BY <1>g, <1>h, <1>1 DEF Silent
<1>2. ASSUME Alone(c) PROVE Alone(c)'
  BY <1>g, <1>h, <1>2 DEF Alone
<1>3. ASSUME Idle(c) PROVE Idle(c)'
  BY <1>g, <1>h, <1>3 DEF Idle
<1> QED
  BY <1>1, <1>2, <1>3 DEF Expected

(* What is under way after a frame has been put or an answer sent.         *)
LEMMA RxAppended ==
  ASSUME NEW c, rx \in Seq(Frame), NEW f, rx' = Append(rx, f)
  PROVE  \A i \in RxOf(c)' : (i \in RxOf(c) /\ rx'[i] = rx[i]) \/ (i = Len(rx) + 1 /\ rx'[i] = f)
<1>1. /\ Len(rx) \in Nat /\ Len(rx') = Len(rx) + 1
      /\ \A i \in 1 .. Len(rx) : rx'[i] = rx[i]
      /\ rx'[Len(rx) + 1] = f
  BY Appending
<1> QED
  BY <1>1 DEF RxOf, From

LEMMA TxAppended ==
  ASSUME NEW c, tx \in Seq(Segment), NEW p, tx' = Append(tx, p)
  PROVE  \A i \in TxOf(c)' : (i \in TxOf(c) /\ tx'[i] = tx[i]) \/ (i = Len(tx) + 1 /\ tx'[i] = p)
<1>1. /\ Len(tx) \in Nat /\ Len(tx') = Len(tx) + 1
      /\ \A i \in 1 .. Len(tx) : tx'[i] = tx[i]
      /\ tx'[Len(tx) + 1] = p
  BY Appending
<1> QED
  BY <1>1 DEF TxOf

LEMMA RxTaken ==
  ASSUME NEW c, rx \in Seq(Frame), rx # <<>>, rx' = Tail(rx)
  PROVE  /\ \A i \in RxOf(c)' : i + 1 \in RxOf(c) /\ rx'[i] = rx[i + 1] /\ i + 1 # 1
         /\ From(Head(rx), c) => 1 \in RxOf(c)
         /\ Head(rx) = rx[1]
<1>1. /\ Len(rx) \in Nat \ {0} /\ Len(rx') = Len(rx) - 1
      /\ \A i \in 1 .. Len(rx') : rx'[i] = rx[i + 1]
      /\ Head(rx) = rx[1]
  BY Taking
<1> QED
  BY <1>1 DEF RxOf, From

LEMMA TxTaken ==
  ASSUME NEW c, tx \in Seq(Segment), tx # <<>>, tx' = Tail(tx)
  PROVE  /\ \A i \in TxOf(c)' : i + 1 \in TxOf(c) /\ tx'[i] = tx[i + 1] /\ i + 1 # 1
         /\ Head(tx).dst = c => 1 \in TxOf(c)
         /\ Head(tx) = tx[1]
<1>1. /\ Len(tx) \in Nat \ {0} /\ Len(tx') = Len(tx) - 1
      /\ \A i \in 1 .. Len(tx') : tx'[i] = tx[i + 1]
      /\ Head(tx) = tx[1]
  BY Taking
<1> QED
  BY <1>1 DEF TxOf

(* The answer to a bare acknowledgement acknowledges one byte too many.    *)
LEMMA AnswerToBareAck ==
  ASSUME NEW p \in Segment, p.len = 0, NEW flags, NEW len
  PROVE  buildRawTcpIpPacket(p, flags, len).ack = Plus(p.seq, 1)
  BY DEF buildRawTcpIpPacket, AckAdvance

(* The server answers whom it hears: one frame less, one segment more.     *)
LEMMA ServerKeepsExpected ==
  ASSUME TypeInv, NEW c \in Clients, Expected(c), ServerStep
  PROVE  Expected(c)'
<1>0. ServerTypeOK /\ rx \in Seq(Frame) /\ tx \in Seq(Segment)
  BY DEF TypeInv, TypeOK, ServerTypeOK
<1>1. Server /\ conn' = conn /\ rx # <<>> /\ rx' = Tail(rx)
  BY ServerStepLine DEF ServerStep, clientOwn
<1>2. CASE tx' = tx
  BY <1>0, <1>1, <1>2, RxTail, TxSame, ThinKeeps
<1>3. ASSUME NEW flags \in SUBSET Flag, NEW len \in {0, PageLen}, SendAnswer(flags, len),
             Accepted(Head(rx))
      PROVE  Expected(c)'
  <2> DEFINE p == buildRawTcpIpPacket(Packet, flags, len)
  <2>1. tx' = Append(tx, p) /\ Packet \in Segment /\ Packet = Head(rx).seg
    BY <1>0, <1>1, <1>3, PacketType DEF SendAnswer, Packet
  <2>2. p \in Segment
    BY <2>1, AnswerType, SegmentAssumption
  <2>3. p.dst = Packet.src /\ (Packet.len = 0 => p.ack = Plus(Packet.seq, 1))
    BY <2>1, AnswerToBareAck DEF buildRawTcpIpPacket
  <2> HIDE DEF p
  <2>4. CASE Packet.src # c
    BY <1>0, <1>1, <2>1, <2>2, <2>3, <2>4, RxTail, TxOther, ThinKeeps
  <2>5. CASE Packet.src = c
    <3>1. /\ \A i \in RxOf(c)' : i + 1 \in RxOf(c) /\ rx'[i] = rx[i + 1] /\ i + 1 # 1
          /\ 1 \in RxOf(c) /\ rx[1].seg = Packet
      BY <1>0, <1>1, <1>3, <2>1, <2>5, RxTaken DEF From
    <3>2. \A i \in TxOf(c)' : (i \in TxOf(c) /\ tx'[i] = tx[i]) \/ (i = Len(tx) + 1 /\ tx'[i] = p)
      BY <1>0, <2>1, <2>2, TxAppended
    <3>3. conn[c].st # "closed"
      BY <3>1 DEF Expected, Silent
    <3>4. ASSUME Alone(c) PROVE Alone(c)'
      <4>1. RxOf(c)' = {} /\ TxOf(c) = {}
        BY <3>1, <3>4 DEF Alone
      <4>2. \A i, j \in TxOf(c)' : i = j
        BY <3>2, <4>1
      <4> QED
        BY <4>1, <4>2 DEF Alone
    <3>5. ASSUME Idle(c) PROVE Idle(c)'
      <4>1. Packet.seq = conn[c].nxt /\ Packet.len = 0
        BY <3>1, <3>5 DEF Idle
      <4>2. \A i \in RxOf(c)' : rx'[i].seg.seq = conn[c].nxt /\ rx'[i].seg.len = 0
        BY <3>1, <3>5 DEF Idle
      <4>3. \A i \in TxOf(c)' : tx'[i].ack = Plus(conn[c].nxt, 1)
        BY <2>3, <3>2, <3>5, <4>1 DEF Idle
      <4> QED
        BY <1>1, <4>2, <4>3 DEF Idle
    <3> QED
      BY <1>1, <3>3, <3>4, <3>5 DEF Expected
  <2> QED
    BY <2>4, <2>5
<1> QED
  BY <1>1, <1>2, <1>3, ServerStepLine

(* What a client puts on the line is its own.                              *)
LEMMA MakeFrom ==
  ASSUME NEW c, NEW e, NEW seq, NEW flags, NEW len
  PROVE  /\ From(Make(c, e, seq, flags, len), c)
         /\ Make(c, e, seq, flags, len).seg.seq = seq
         /\ Make(c, e, seq, flags, len).seg.len = len
         /\ \A d : From(Make(c, e, seq, flags, len), d) => d = c
  BY DEF From, Make, Accepted, IPv4, PROTOCOL_TCP

(* A client's step, as the other clients see it.                           *)
Puts(d) == \E e, seq, flags, len : Put(Make(d, e, seq, flags, len))

LEMMA ClientMoves ==
  ASSUME NEW d \in Clients, Client(d)
  PROVE  Puts(d) /\ tx' = tx /\ (conn' = conn \/ \E e : Become(d, e))
<1>1. Puts(d)
  BY DEF Client, Connect, Ask, Close, DelayedAck, RetransmitSyn, RetransmitData,
         Acknowledge, Puts
<1>2. tx' = tx
  BY DEF Client, Connect, Ask, Close, DelayedAck, RetransmitSyn, RetransmitData
<1>3. conn' = conn \/ \E e : Become(d, e)
  BY DEF Client, Connect, Ask, Close, DelayedAck, RetransmitSyn, RetransmitData
<1> QED
  BY <1>1, <1>2, <1>3

LEMMA ReceiverMoves ==
  ASSUME NEW d \in Clients, ClientReceives(d)
  PROVE  /\ Reaches(d) /\ (rx' = rx \/ Puts(d))
         /\ (conn' = conn \/ \E e : Become(d, e))
<1>1. Reaches(d)
  BY DEF ClientReceives, Establish, Discard, Challenge, AcceptAck, AcceptPage, Reset
<1>2. rx' = rx \/ Puts(d)
  BY DEF ClientReceives, Establish, Discard, Challenge, AcceptAck, AcceptPage, Reset,
         Acknowledge, Puts
<1>3. conn' = conn \/ \E e : Become(d, e)
  BY DEF ClientReceives, Establish, Discard, Challenge, AcceptAck, AcceptPage, Reset
<1> QED
  BY <1>1, <1>2, <1>3

LEMMA OthersMove ==
  ASSUME TypeInv, NEW c \in Clients, NEW d \in Clients, d # c,
         Client(d) \/ ClientReceives(d)
  PROVE  conn'[c] = conn[c] /\ RxThins(c) /\ TxThins(c)
<1>0. rx \in Seq(Frame) /\ tx \in Seq(Segment) /\ conn \in [Clients -> Connection]
  BY DEF TypeInv, TypeOK, ServerTypeOK, ClientsTypeOK
<1>1. /\ rx' = rx \/ Puts(d)
      /\ tx' = tx \/ Reaches(d)
      /\ conn' = conn \/ \E e : Become(d, e)
  BY ClientMoves, ReceiverMoves
<1>2. conn'[c] = conn[c]
  BY <1>0, <1>1 DEF Become
<1>3. RxThins(c)
  <2>1. CASE rx' = rx
    BY <2>1, RxSame
  <2>2. ASSUME NEW e, NEW seq, NEW flags, NEW len, Put(Make(d, e, seq, flags, len))
        PROVE  RxThins(c)
    <3> DEFINE f == Make(d, e, seq, flags, len)
    <3>1. ~From(f, c) /\ rx' = Append(rx, f)
      BY <2>2, MakeFrom DEF Put
    <3> HIDE DEF f
    <3> QED
      BY <1>0, <3>1, RxOther
  <2> QED
    BY <1>1, <2>1, <2>2 DEF Puts
<1>4. TxThins(c)
  <2>1. CASE Reaches(d)
    BY <1>0, <2>1, TxTail DEF Reaches
  <2> QED
    BY <1>1, <2>1, TxSame
<1> QED
  BY <1>2, <1>3, <1>4

LEMMA OthersKeepExpected ==
  ASSUME TypeInv, NEW c \in Clients, NEW d \in Clients, d # c, Expected(c),
         Client(d) \/ ClientReceives(d)
  PROVE  Expected(c)'
  BY OthersMove, ThinKeeps

-----------------------------------------------------------------------------
(* One frame for a client nothing is under way for.                        *)
LEMMA FirstFrame ==
  ASSUME NEW c, rx \in Seq(Frame), Silent(c), NEW f, rx' = Append(rx, f), tx' = tx
  PROVE  Alone(c)'
<1>1. \A i \in RxOf(c)' : (i \in RxOf(c) /\ rx'[i] = rx[i]) \/ (i = Len(rx) + 1 /\ rx'[i] = f)
  BY RxAppended
<1>2. TxOf(c)' = {}
  BY DEF Silent, TxOf
<1>3. \A i, j \in RxOf(c)' : i = j
  BY <1>1 DEF Silent
<1> QED
  BY <1>2, <1>3 DEF Alone

(* A bare acknowledgement more.                                            *)
LEMMA OneMoreAck ==
  ASSUME NEW c, rx \in Seq(Frame), NEW e, Acknowledge(c, e), e.nxt = conn'[c].nxt,
         \A i \in RxOf(c) : rx[i].seg.seq = conn'[c].nxt /\ rx[i].seg.len = 0,
         \A i \in TxOf(c)' : tx'[i].ack = Plus(conn'[c].nxt, 1)
  PROVE  Idle(c)'
<1> DEFINE f == Make(c, e, e.nxt, {"ACK"}, 0)
<1>1. rx' = Append(rx, f) /\ f.seg.seq = conn'[c].nxt /\ f.seg.len = 0
  BY MakeFrom DEF Acknowledge, Put
<1> HIDE DEF f
<1>2. \A i \in RxOf(c)' : (i \in RxOf(c) /\ rx'[i] = rx[i]) \/ (i = Len(rx) + 1 /\ rx'[i] = f)
  BY <1>1, RxAppended
<1>3. \A i \in RxOf(c)' : rx'[i].seg.seq = conn'[c].nxt /\ rx'[i].seg.len = 0
  BY <1>1, <1>2
<1> QED
  BY <1>3 DEF Idle

(* The answer to an idle client's acknowledgement is of what it never      *)
(* sent, which RFC 793 has it refuse.                                      *)
LEMMA IdleRefuses ==
  ASSUME NEW p \in Segment, NEW e \in Connection, e.una = e.nxt,
         p.ack = Plus(e.nxt, 1), SeqMod >= 4
  PROVE  AcksUnsent(p, e)
<1>1. e.nxt \in SeqNumber /\ SeqMod \in Nat /\ 1 \in 0 .. SeqMod - 1
  BY Constants DEF Connection
<1>2. Dist(e.nxt, p.ack) = 1
  BY <1>1, DistPlus
<1>3. Dist(e.una, e.nxt) = 0
  BY <1>1, DistZero
<1>4. 1 < SeqMod \div 2
  BY <1>1, SMT
<1> QED
  BY <1>2, <1>3, <1>4 DEF AcksUnsent, AcksNew

(* What the applications and the timers of c's own host do.                *)
LEMMA ClientKeepsExpected ==
  ASSUME TypeInv, NEW c \in Clients, Expected(c), Client(c), early.syn = 0
  PROVE  Expected(c)' /\ early'.syn = 0
<1>0. /\ rx \in Seq(Frame) /\ tx \in Seq(Segment) /\ conn \in [Clients -> Connection]
      /\ conn[c] \in Connection /\ Outstanding(conn[c]) /\ early \in [syn : Nat, data : Nat]
  BY DEF TypeInv, TypeOK, ServerTypeOK, ClientsTypeOK
<1>1. CASE Connect(c)
  <2>1. PICK isn \in InitialSeqs :
          LET e == [Closed EXCEPT !.st = "synSent", !.una = isn, !.nxt = Plus(isn, 1)]
          IN  Become(c, e) /\ Put(Make(c, e, isn, {"SYN"}, 0))
    BY <1>1 DEF Connect
  <2> DEFINE e == [Closed EXCEPT !.st = "synSent", !.una = isn, !.nxt = Plus(isn, 1)]
             f == Make(c, e, isn, {"SYN"}, 0)
  <2>2. /\ conn'[c] = e /\ rx' = Append(rx, f) /\ tx' = tx /\ early' = early
        /\ conn[c].st = "closed"
    BY <1>0, <1>1, <2>1 DEF Connect, Become, Put
  <2>3. e.st = "synSent" /\ ~e.asked /\ e.got = 0
    BY DEF Closed
  <2> HIDE DEF e, f
  <2>4. Alone(c)'
    BY <1>0, <2>2, FirstFrame DEF Expected
  <2> QED
    BY <2>2, <2>3, <2>4 DEF Expected
<1>2. CASE Ask(c)
  <2>1. /\ conn'[c].st = "open" /\ conn'[c].asked /\ conn'[c].got = conn[c].got
        /\ early' = early
    BY <1>0, <1>2 DEF Ask, Become, Connection
  <2> QED
    BY <2>1 DEF Expected
<1>3. CASE Close(c)
  <2>1. /\ conn'[c].st = "closing" /\ conn'[c].asked = conn[c].asked
        /\ conn'[c].got = conn[c].got /\ early' = early
    BY <1>0, <1>3 DEF Close, Become, Connection
  <2> QED
    BY <2>1 DEF Expected
<1>4. CASE DelayedAck(c)
  <2> DEFINE e == [conn[c] EXCEPT !.owes = FALSE]
  <2>1. /\ conn'[c] = e /\ Acknowledge(c, e) /\ tx' = tx /\ early' = early
    BY <1>0, <1>4 DEF DelayedAck, Become
  <2>2. /\ e.st = "open" /\ e.asked = conn[c].asked /\ e.got = conn[c].got
        /\ e.nxt = conn[c].nxt /\ conn[c].st = "open"
    BY <1>0, <1>4 DEF DelayedAck, Connection
  <2> HIDE DEF e
  <2>3. ASSUME Idle(c) PROVE Idle(c)'
    <3>1. \A i \in RxOf(c) : rx[i].seg.seq = conn'[c].nxt /\ rx[i].seg.len = 0
      BY <2>1, <2>2, <2>3 DEF Idle
    <3>2. \A i \in TxOf(c)' : tx'[i].ack = Plus(conn'[c].nxt, 1)
      BY <2>1, <2>2, <2>3 DEF Idle, TxOf
    <3> QED
      BY <1>0, <2>1, <2>2, <3>1, <3>2, OneMoreAck
  <2> QED
    BY <2>1, <2>2, <2>3 DEF Expected
<1>5. CASE RetransmitSyn(c)
  <2>1. /\ conn' = conn /\ tx' = tx /\ conn[c].st = "synSent" /\ Timer(c, "syn")
        /\ rx' = Append(rx, Make(c, conn[c], conn[c].una, {"SYN"}, 0))
    BY <1>5 DEF RetransmitSyn, Put
  <2>2. ~UnderWay(c) /\ early' = early
    BY <2>1 DEF Timer
  <2>3. Silent(c)
    BY <2>2 DEF UnderWay, Silent, RxOf, TxOf, From
  <2>4. Alone(c)'
    BY <1>0, <2>1, <2>3, FirstFrame
  <2> QED
    BY <2>1, <2>2, <2>4 DEF Expected
<1>6. CASE RetransmitData(c)
  <2>1. /\ conn' = conn /\ conn[c].st \in {"open", "closing"} /\ conn[c].una # conn[c].nxt
        /\ Timer(c, "data")
    BY <1>6 DEF RetransmitData
  <2>2. early'.syn = 0
    BY <1>0, <2>1 DEF Timer
  <2>3. conn[c].st = "open" => conn[c].asked
    BY <1>0, <2>1 DEF Outstanding
  <2> QED
    BY <2>1, <2>2, <2>3 DEF Expected
<1> QED
  BY <1>1, <1>2, <1>3, <1>4, <1>5, <1>6 DEF Client

(* New data makes the page grow.                                           *)
LEMMA PageGrows ==
  ASSUME NEW p \in Segment, NEW e \in Connection, e.got >= 0, HasNewData(p, e)
  PROVE  e.got + p.len - Dist(p.seq, e.rcv) > 0
<1>1. e.got \in Int /\ e.rcv \in SeqNumber /\ p.seq \in SeqNumber /\ p.len \in Int
  BY Constants DEF Segment, Connection
<1>2. Dist(p.seq, e.rcv) \in 0 .. SeqMod - 1 /\ SeqMod \in Nat
  BY <1>1, DistIs, Constants
<1>3. Dist(p.seq, e.rcv) < p.len
  BY DEF HasNewData
<1> QED
  BY <1>1, <1>2, <1>3

LEMMA AckedFields ==
  ASSUME NEW p \in Segment, NEW e \in Connection, Outstanding(e)
  PROVE  /\ AckedEnd(p, e).st = e.st /\ AckedEnd(p, e).asked = e.asked
         /\ AckedEnd(p, e).got = e.got /\ AckedEnd(p, e) \in Connection
<1>1. PICK k \in SeqNumber : AckedEnd(p, e) = [e EXCEPT !.una = k]
  BY AckedType
<1>2. AckedEnd(p, e) \in Connection
  BY AckedType
<1> QED
  BY <1>1, <1>2 DEF Connection

(* What an acknowledgement does to c's end: an open one stays open; one    *)
(* that has sent its FIN never opens again.                                *)
LEMMA AckOutcome ==
  ASSUME conn \in [Clients -> Connection], NEW c \in Clients, Outstanding(conn[c]),
         Head(tx) \in Segment, AcceptAck(c)
  PROVE  /\ conn[c].st \in {"open", "closing", "halfClosed"} /\ InOrder(Head(tx), conn[c])
         /\ conn'[c].asked = conn[c].asked /\ conn'[c].got = conn[c].got
         /\ conn[c].st = "open" => conn'[c] = AckedEnd(Head(tx), conn[c]) /\ rx' = rx
         /\ conn[c].st # "open" => conn'[c].st \in {"closing", "halfClosed", "done"}
<1> DEFINE e == conn[c]
           a == AckedEnd(Head(tx), e)
           f == FinAcked(a)
           o == [f EXCEPT !.st = "done", !.rcv = Plus(@, 1)]
<1>1. /\ e.st \in {"open", "closing", "halfClosed"} /\ InOrder(Head(tx), e)
      /\ \/ conn'[c] = f /\ rx' = rx
         \/ conn'[c] = o /\ f.st = "halfClosed"
  BY DEF AcceptAck, Become, Synchronized
<1>2. a.st = e.st /\ a.asked = e.asked /\ a.got = e.got /\ a \in Connection
  BY AckedFields
<1> HIDE DEF a
<1>3. /\ f.asked = e.asked /\ f.got = e.got /\ f \in Connection
      /\ e.st = "open" => f = a
      /\ f.st \in {e.st, "halfClosed"}
  BY <1>2 DEF FinAcked, Connection, ClientStates
<1> HIDE DEF f
<1>4. o.asked = f.asked /\ o.got = f.got /\ o.st = "done"
  BY <1>3 DEF Connection
<1> HIDE DEF o
<1>5. e.st = "open" => f.st = "open"
  BY <1>2, <1>3
<1> QED
  BY <1>1, <1>3, <1>4, <1>5 DEF a

(* What c's own host does with a segment: before the request, none counts. *)
LEMMA ReceiverKeepsExpected ==
  ASSUME TypeInv, NEW c \in Clients, Expected(c), ClientReceives(c), SeqMod >= 4
  PROVE  Expected(c)' /\ early' = early
<1>0. /\ rx \in Seq(Frame) /\ tx \in Seq(Segment) /\ conn \in [Clients -> Connection]
      /\ conn[c] \in Connection /\ Outstanding(conn[c])
  BY DEF TypeInv, TypeOK, ServerTypeOK, ClientsTypeOK
<1> DEFINE p == Head(tx)  e == conn[c]
<1>1. /\ p \in Segment /\ tx # <<>> /\ tx' = Tail(tx) /\ early' = early /\ p.dst = c
  BY <1>0, ReceiverMoves, ReachesType DEF Reaches
<1>2. /\ \A i \in TxOf(c)' : i + 1 \in TxOf(c) /\ tx'[i] = tx[i + 1] /\ i + 1 # 1
      /\ 1 \in TxOf(c) /\ p = tx[1]
  BY <1>0, <1>1, TxTaken
<1>3. ASSUME e.st = "open", ~e.asked
      PROVE  AcksUnsent(p, e)
  <2>1. Idle(c) /\ e.una = e.nxt
    BY <1>0, <1>3 DEF Expected, Outstanding
  <2>2. p.ack = Plus(e.nxt, 1)
    BY <1>2, <2>1 DEF Idle
  <2> HIDE DEF p, e
  <2> QED
    BY <1>0, <1>1, <2>1, <2>2, IdleRefuses DEF e
<1>4. ASSUME Idle(c), conn'[c].nxt = e.nxt
      PROVE  /\ \A i \in RxOf(c) : rx[i].seg.seq = conn'[c].nxt /\ rx[i].seg.len = 0
             /\ \A i \in TxOf(c)' : tx'[i].ack = Plus(conn'[c].nxt, 1)
  BY <1>2, <1>4 DEF Idle
<1>5. CASE Establish(c)
  <2> DEFINE n == [e EXCEPT !.st = "open", !.una = p.ack, !.rcv = Plus(p.seq, 1)]
  <2>1. conn'[c] = n /\ Acknowledge(c, n) /\ e.st = "synSent"
    BY <1>0, <1>5 DEF Establish, Become
  <2>2. n.st = "open" /\ n.asked = e.asked /\ n.got = e.got /\ n.nxt = e.nxt
    BY <1>0 DEF Connection
  <2> HIDE DEF n
  <2>3. RxOf(c) = {} /\ TxOf(c)' = {}
    BY <1>2, <2>1 DEF Expected, Alone
  <2>4. Idle(c)'
    BY <1>0, <2>1, <2>3, OneMoreAck
  <2> QED
    BY <1>1, <2>1, <2>2, <2>4 DEF Expected
<1>6. CASE Discard(c)
  <2>1. rx' = rx /\ conn' = conn
    BY <1>6 DEF Discard
  <2> QED
    BY <1>0, <1>1, <2>1, RxSame, TxTail, ThinKeeps
<1>7. CASE Challenge(c)
  <2>1. Acknowledge(c, e) /\ conn' = conn /\ e.st \notin {"closed", "synSent"}
    BY <1>7 DEF Challenge, Synchronized
  <2>2. ASSUME Idle(c) PROVE Idle(c)'
    BY <1>0, <1>4, <2>1, <2>2, OneMoreAck
  <2> QED
    BY <1>1, <2>1, <2>2 DEF Expected
<1>8. CASE AcceptAck(c)
  <2>1. /\ e.st \in {"open", "closing", "halfClosed"} /\ InOrder(p, e)
        /\ conn'[c].asked = e.asked /\ conn'[c].got = e.got
        /\ e.st # "open" => conn'[c].st \in {"closing", "halfClosed", "done"}
        /\ e.st = "open" => conn'[c] = AckedEnd(p, e)
    BY <1>0, <1>1, <1>8, AckOutcome
  <2>2. e.st = "open" => e.asked
    BY <1>3, <2>1 DEF InOrder
  <2>3. AckedEnd(p, e).st = e.st
    BY <1>0, <1>1, AckedFields
  <2> QED
    BY <1>1, <2>1, <2>2, <2>3 DEF Expected
<1>9. CASE AcceptPage(c)
  <2> DEFINE a == AckedEnd(p, e)
             g == a.got + p.len - Dist(p.seq, e.rcv)
             n == [a EXCEPT !.rcv = Plus(p.seq, p.len), !.got = g]
             m == [n EXCEPT !.owes = TRUE]
  <2>1. conn'[c] \in {n, m} /\ e.st = "open" /\ InOrder(p, e) /\ p.len > 0
    BY <1>0, <1>9 DEF AcceptPage, Become
  <2>2. e.asked
    BY <1>3, <2>1 DEF InOrder
  <2>3. a.st = e.st /\ a.asked = e.asked /\ a.got = e.got /\ a \in Connection
    BY <1>0, <1>1, AckedFields
  <2>4. g > 0
    <3>1. e.got >= 0 /\ HasNewData(p, e)
      BY <2>1 DEF Expected, InOrder
    <3> QED
      BY <1>0, <1>1, <2>3, <3>1, PageGrows
  <2> HIDE DEF a, g
  <2>5. /\ n.st = e.st /\ n.asked = e.asked /\ n.got = g
        /\ m.st = e.st /\ m.asked = e.asked /\ m.got = g
    BY <2>3 DEF Connection
  <2>6. g >= 0
    <3>1. a.got \in Int /\ p.len \in Int /\ Dist(p.seq, e.rcv) \in Int
      <4>1. p.seq \in SeqNumber /\ e.rcv \in SeqNumber
        BY <1>0, <1>1 DEF Segment, Connection
      <4>2. Dist(p.seq, e.rcv) \in 0 .. SeqMod - 1 /\ SeqMod \in Nat
        BY <4>1, DistIs, Constants
      <4> QED
        BY <1>1, <2>3, <4>2, Constants DEF Segment, Connection
    <3> QED
      BY <2>4, <3>1 DEF g
  <2> HIDE DEF n, m
  <2>7. conn'[c].st = "open" /\ conn'[c].asked /\ conn'[c].got >= 0
    BY <2>1, <2>2, <2>5, <2>6
  <2> QED
    BY <1>1, <2>7 DEF Expected
<1>10. CASE Reset(c)
  <2>1. conn'[c].st = "done" /\ conn'[c].asked = e.asked /\ conn'[c].got = e.got
    BY <1>0, <1>10 DEF Reset, Become, Connection
  <2> QED
    BY <1>1, <2>1 DEF Expected
<1> QED
  BY <1>5, <1>6, <1>7, <1>8, <1>9, <1>10 DEF ClientReceives

(* Whatever is lost and however often: with SYN timeouts only when nothing *)
(* of the connection is under way, no client has bytes of the page before  *)
(* it has asked for it (kernel_main answers whatever comes "for the        *)
(* request" with the page, a bare acknowledgement of a challenge included, *)
(* and buildRawTcpIpPacket's numbering makes the client refuse it).        *)
PageInv == TypeInv /\ early.syn = 0 /\ \A c \in Clients : Expected(c)

LEMMA PageInvStep ==
  ASSUME SeqMod >= 4
  PROVE  PageInv /\ [Next]_vars => PageInv'
<1> SUFFICES ASSUME PageInv, [Next]_vars
             PROVE  PageInv'
  OBVIOUS
<1>0. /\ TypeInv /\ TypeInv' /\ early.syn = 0 /\ \A c \in Clients : Expected(c)
      /\ rx \in Seq(Frame) /\ tx \in Seq(Segment) /\ held \in 0 .. Len(tx)
  BY TypeInvStep DEF PageInv, TypeInv, TypeOK, ServerTypeOK
<1>e. early'.syn = 0
  <2>1. ASSUME NEW d \in Clients, ClientActs(Client(d))
        PROVE  early'.syn = 0
    BY <1>0, <2>1, ClientKeepsExpected DEF ClientActs
  <2>2. ASSUME NEW d \in Clients, ClientTakes(d)
        PROVE  early'.syn = 0
    <3>1. early' = early
      BY <2>2 DEF ClientTakes, ClientReceives, Establish, Discard, Challenge, AcceptAck,
                  AcceptPage, Reset, Reaches
    <3> QED
      BY <1>0, <3>1
  <2>3. CASE ServerStep \/ Lose \/ Noise \/ UNCHANGED vars
    BY <1>0, <2>3 DEF ServerStep, Lose, Noise, clientOwn, vars
  <2> QED
    BY <2>1, <2>2, <2>3 DEF Next
<1> SUFFICES ASSUME NEW c \in Clients
             PROVE  Expected(c)'
  BY <1>0, <1>e DEF PageInv
<1>1. CASE ServerStep
  BY <1>0, <1>1, ServerKeepsExpected DEF ServerStep, clientOwn
<1>2. ASSUME NEW d \in Clients, ClientActs(Client(d))
      PROVE  Expected(c)'
  BY <1>0, <1>2, ClientKeepsExpected, OthersKeepExpected DEF ClientActs
<1>3. ASSUME NEW d \in Clients, ClientTakes(d)
      PROVE  Expected(c)'
  BY <1>0, <1>3, ReceiverKeepsExpected, OthersKeepExpected DEF ClientTakes
<1>4. CASE Lose
  <2>1. conn' = conn /\ (LoseRx \/ LoseTx)
    BY <1>4 DEF Lose, clientOwn
  <2>2. CASE LoseRx
    BY <1>0, <2>1, <2>2, RxTail, TxSame, ThinKeeps DEF LoseRx
  <2>3. CASE LoseTx
    <3>1. held \in 0 .. Len(tx) - 1 /\ tx' = LeaveOut(tx, held) /\ rx' = rx
      BY <1>0, <2>3 DEF LoseTx, LeaveOut
    <3> QED
      BY <1>0, <2>1, <3>1, RxSame, TxLeaveOut, ThinKeeps
  <2> QED
    BY <2>1, <2>2, <2>3
<1>5. CASE Noise
  <2>1. conn' = conn /\ tx' = tx
    BY <1>5 DEF Noise, Arrive, clientOwn
  <2>2. PICK f \in Arrivals : rx' = Append(rx, f)
    BY <1>5 DEF Noise, Arrive
  <2>3. ~From(f, c)
    BY MiniwebAssumption DEF From
  <2> QED
    BY <1>0, <2>1, <2>2, <2>3, RxOther, TxSame, ThinKeeps
<1>6. CASE UNCHANGED vars
  <2>1. rx' = rx /\ tx' = tx /\ conn' = conn /\ early' = early
    BY <1>6 DEF vars
  <2> QED
    BY <1>0, <2>1, RxSame, TxSame, ThinKeeps
<1> QED
  BY <1>1, <1>2, <1>3, <1>4, <1>5, <1>6 DEF Next

LEMMA PageInvHolds ==
  ASSUME EarlySyn = 0, SeqMod >= 4
  PROVE  Spec => []PageInv
<1>1. Init => PageInv
  <2> SUFFICES ASSUME Init PROVE PageInv
    OBVIOUS
  <2>1. TypeInv
    BY InitType
  <2>2. early.syn = 0
    BY DEF Init, ClientsInit
  <2>3. ASSUME NEW c \in Clients
        PROVE  Expected(c)
    <3>1. rx = <<>> /\ tx = <<>> /\ conn[c] = Closed
      BY DEF Init, LineInit, ClientsInit
    <3>2. Silent(c)
      BY <3>1 DEF Silent, RxOf, TxOf
    <3>3. Closed.got = 0 /\ Closed.st = "closed" /\ ~Closed.asked
      BY DEF Closed
    <3> QED
      BY <3>1, <3>2, <3>3 DEF Expected
  <2> QED
    BY <2>1, <2>2, <2>3 DEF PageInv
<1>2. PageInv /\ [Next]_vars => PageInv'
  BY PageInvStep
<1> QED
  BY <1>1, <1>2, PTL DEF Spec

(* No client has bytes of the page before it has asked for it, for any     *)
(* number of clients, whatever is lost, at whatever sequence numbers.  The *)
(* server answers whatever comes "for the request" with the page; it is    *)
(* buildRawTcpIpPacket's acknowledgement of a byte the client never sent   *)
(* that makes the client refuse it.  EarlySyn = 0 is needed: a SYN sent    *)
(* again while the first is answered is such a packet, and its page counts.*)
THEOREM PageOnlyAfterRequest ==
  ASSUME EarlySyn = 0, SeqMod >= 4
  PROVE  Spec => []PageAfterRequest
<1>1. PageInv => PageAfterRequest
  BY DEF PageInv, Expected, PageAfterRequest
<1> QED
  BY <1>1, PageInvHolds, PTL

-----------------------------------------------------------------------------
(* A step changes at most one client's request and page: it asks, or its   *)
(* page grows, or neither.                                                 *)
LEMMA OneClientMoves ==
  ASSUME PageInv, [Next]_vars
  PROVE  \/ conn' = conn
         \/ \E d \in Clients : \E e :
              /\ Become(d, e)
              /\ \/ e.asked = conn[d].asked /\ e.got = conn[d].got
                 \/ ~conn[d].asked /\ e.asked /\ e.got = conn[d].got
                 \/ e.asked = conn[d].asked /\ e.got > 0
<1> DEFINE Moves(d, e) ==
             /\ Become(d, e)
             /\ \/ e.asked = conn[d].asked /\ e.got = conn[d].got
                \/ ~conn[d].asked /\ e.asked /\ e.got = conn[d].got
                \/ e.asked = conn[d].asked /\ e.got > 0
<1>0. /\ TypeInv /\ tx \in Seq(Segment) /\ conn \in [Clients -> Connection]
      /\ \A d \in Clients : Outstanding(conn[d]) /\ Expected(d)
  BY DEF PageInv, TypeInv, TypeOK, ServerTypeOK, ClientsTypeOK
<1>1. CASE ServerStep \/ Lose \/ Noise \/ UNCHANGED vars
  BY <1>1 DEF ServerStep, Lose, Noise, clientOwn, vars
<1>2. ASSUME NEW d \in Clients, Client(d)
      PROVE  conn' = conn \/ \E e : Moves(d, e)
  <2>1. conn[d] \in Connection
    BY <1>0
  <2>2. CASE Connect(d)
    <3>1. PICK isn \in InitialSeqs :
            Become(d, [Closed EXCEPT !.st = "synSent", !.una = isn, !.nxt = Plus(isn, 1)])
      BY <2>2 DEF Connect
    <3> DEFINE e == [Closed EXCEPT !.st = "synSent", !.una = isn, !.nxt = Plus(isn, 1)]
    <3>2. ~e.asked /\ e.got = 0
      BY DEF Closed
    <3>3. conn[d].st = "closed" /\ Become(d, e)
      BY <2>2, <3>1 DEF Connect
    <3>4. ~conn[d].asked /\ conn[d].got = 0
      <4>1. conn[d].got \in Int /\ conn[d].got >= 0 /\ ~conn[d].asked /\ ~(conn[d].got > 0)
        BY <1>0, <2>1, <3>3 DEF Expected, Connection
      <4> QED
        BY <4>1
    <3>5. e.asked = conn[d].asked
      BY <2>1, <3>2, <3>4 DEF Connection, Closed
    <3> HIDE DEF e
    <3> QED
      BY <3>2, <3>3, <3>4, <3>5
  <2>3. CASE Ask(d)
    <3> DEFINE e == [conn[d] EXCEPT !.asked = TRUE, !.owes = FALSE,
                                    !.nxt = Plus(@, RequestLen)]
    <3>1. Become(d, e) /\ ~conn[d].asked
      BY <2>3 DEF Ask
    <3>2. e.asked /\ e.got = conn[d].got
      BY <2>1 DEF Connection
    <3> HIDE DEF e
    <3> QED
      BY <3>1, <3>2
  <2>4. CASE Close(d)
    <3> DEFINE e == [conn[d] EXCEPT !.st = "closing", !.owes = FALSE, !.nxt = Plus(@, 1)]
    <3>1. Become(d, e)
      BY <2>4 DEF Close
    <3>2. e.asked = conn[d].asked /\ e.got = conn[d].got
      BY <2>1 DEF Connection
    <3> HIDE DEF e
    <3> QED
      BY <3>1, <3>2
  <2>5. CASE DelayedAck(d)
    <3> DEFINE e == [conn[d] EXCEPT !.owes = FALSE]
    <3>1. Become(d, e)
      BY <2>5 DEF DelayedAck
    <3>2. e.asked = conn[d].asked /\ e.got = conn[d].got
      BY <2>1 DEF Connection
    <3> HIDE DEF e
    <3> QED
      BY <3>1, <3>2
  <2>6. CASE RetransmitSyn(d) \/ RetransmitData(d)
    BY <2>6 DEF RetransmitSyn, RetransmitData
  <2> QED
    BY <1>2, <2>2, <2>3, <2>4, <2>5, <2>6 DEF Client
<1>3. ASSUME NEW d \in Clients, ClientReceives(d)
      PROVE  conn' = conn \/ \E e : Moves(d, e)
  <2> DEFINE p == Head(tx)  a == AckedEnd(p, conn[d])
  <2>1. conn[d] \in Connection /\ Outstanding(conn[d]) /\ p \in Segment
    BY <1>0, <1>3, ReceiverMoves, ReachesType
  <2>2. a.asked = conn[d].asked /\ a.got = conn[d].got /\ a \in Connection
    BY <2>1, AckedFields
  <2>3. CASE Establish(d)
    <3> DEFINE e == [conn[d] EXCEPT !.st = "open", !.una = p.ack, !.rcv = Plus(p.seq, 1)]
    <3>1. Become(d, e)
      BY <2>3 DEF Establish
    <3>2. e.asked = conn[d].asked /\ e.got = conn[d].got
      BY <2>1 DEF Connection
    <3> HIDE DEF e
    <3> QED
      BY <3>1, <3>2
  <2>4. CASE Discard(d) \/ Challenge(d)
    BY <2>4 DEF Discard, Challenge
  <2>5. CASE AcceptAck(d)
    <3>1. PICK e : Become(d, e)
      BY <2>5 DEF AcceptAck
    <3>2. conn'[d].asked = conn[d].asked /\ conn'[d].got = conn[d].got
      BY <1>0, <2>1, <2>5, AckOutcome
    <3>3. conn'[d] = e
      BY <1>0, <3>1 DEF Become
    <3> QED
      BY <3>1, <3>2, <3>3
  <2>6. CASE AcceptPage(d)
    <3> DEFINE g == a.got + p.len - Dist(p.seq, conn[d].rcv)
               n == [a EXCEPT !.rcv = Plus(p.seq, p.len), !.got = g]
               m == [n EXCEPT !.owes = TRUE]
    <3>1. (Become(d, n) \/ Become(d, m)) /\ InOrder(p, conn[d]) /\ p.len > 0
      BY <2>6 DEF AcceptPage
    <3>2. g > 0
      <4>1. conn[d].got >= 0 /\ HasNewData(p, conn[d])
        BY <1>0, <3>1 DEF Expected, InOrder
      <4> QED
        BY <2>1, <2>2, <4>1, PageGrows
    <3> HIDE DEF a, g
    <3>3. n.asked = conn[d].asked /\ n.got = g /\ m.asked = conn[d].asked /\ m.got = g
      BY <2>2 DEF Connection
    <3> HIDE DEF n, m
    <3> QED
      BY <3>1, <3>2, <3>3
  <2>7. CASE Reset(d)
    <3> DEFINE e == [conn[d] EXCEPT !.st = "done"]
    <3>1. Become(d, e)
      BY <2>7 DEF Reset
    <3>2. e.asked = conn[d].asked /\ e.got = conn[d].got
      BY <2>1 DEF Connection
    <3> HIDE DEF e
    <3> QED
      BY <3>1, <3>2
  <2> QED
    BY <1>3, <2>3, <2>4, <2>5, <2>6, <2>7 DEF ClientReceives
<1> QED
  BY <1>1, <1>2, <1>3 DEF Next, ClientActs, ClientTakes

-----------------------------------------------------------------------------
(* How many pages a client can get.  Wide: sequence space holds more than  *)
(* two frames (on the machine 2^32 against 2^16).                          *)
Wide == SeqMod >= 2 * MaxLen + 2

Pages == {0, PageLen, 2 * PageLen}

LEMMA WideConstants ==
  ASSUME Wide
  PROVE  /\ SeqMod \in Nat /\ SeqMod >= 4 /\ RequestLen \in 1 .. SeqMod - 2
         /\ PageLen \in Nat \ {0} /\ 2 * PageLen + 1 < SeqMod
         /\ \A g \in Pages : g \in Nat /\ 1 + g \in SeqNumber
<1>1. /\ SeqMod \in Nat /\ MaxLen \in Nat /\ PageLen \in 1 .. MaxLen
      /\ RequestLen \in 1 .. MaxLen /\ SeqMod >= 2 * MaxLen + 2
  BY Constants DEF Wide
<1>2. /\ SeqMod >= 4 /\ RequestLen \in 1 .. SeqMod - 2
      /\ PageLen \in Nat \ {0} /\ 2 * PageLen + 1 < SeqMod
  BY <1>1
<1>3. ASSUME NEW g \in Pages PROVE g \in Nat /\ 1 + g \in SeqNumber
  BY <1>1, <1>2 DEF Pages, SeqNumber
<1> QED
  BY <1>1, <1>2, <1>3

LEMMA PlusPlus ==
  ASSUME NEW a \in SeqNumber, NEW m \in 0 .. SeqMod - 1, NEW n \in 0 .. SeqMod - 1
  PROVE  Plus(Plus(a, m), n) = Plus(Plus(a, n), m)
<1>1. SeqMod \in Nat /\ a \in 0 .. SeqMod - 1
  BY SegmentAssumption DEF SeqNumber
<1>2. /\ Plus(a, m) = IF a + m < SeqMod THEN a + m ELSE a + m - SeqMod
      /\ Plus(a, m) \in SeqNumber
      /\ Plus(a, n) = IF a + n < SeqMod THEN a + n ELSE a + n - SeqMod
      /\ Plus(a, n) \in SeqNumber
  BY PlusIs
<1>3. PICK x \in Int, y \in Int : x = Plus(a, m) /\ y = Plus(a, n)
  BY <1>1, <1>2 DEF SeqNumber
<1>4. /\ Plus(x, n) = IF x + n < SeqMod THEN x + n ELSE x + n - SeqMod
      /\ Plus(y, m) = IF y + m < SeqMod THEN y + m ELSE y + m - SeqMod
  BY <1>2, <1>3, PlusIs
<1>5. /\ x = IF a + m < SeqMod THEN a + m ELSE a + m - SeqMod
      /\ y = IF a + n < SeqMod THEN a + n ELSE a + n - SeqMod
  BY <1>2, <1>3
<1>6. Plus(x, n) = Plus(y, m)
  BY <1>1, <1>4, <1>5
<1> QED
  BY <1>3, <1>6

LEMMA PlusDist ==
  ASSUME NEW a \in SeqNumber, NEW b \in SeqNumber
  PROVE  Plus(a, Dist(a, b)) = b
<1>1. SeqMod \in Nat /\ a \in 0 .. SeqMod - 1 /\ b \in 0 .. SeqMod - 1
  BY SegmentAssumption DEF SeqNumber
<1>2. PICK d \in 0 .. SeqMod - 1 :
        d = Dist(a, b) /\ d = IF a <= b THEN b - a ELSE b - a + SeqMod
  BY DistIs
<1>3. Plus(a, d) = IF a + d < SeqMod THEN a + d ELSE a + d - SeqMod
  BY PlusIs
<1>4. Plus(a, d) = b
  BY <1>1, <1>2, <1>3
<1> QED
  BY <1>2, <1>4

(* An acknowledgement of one byte more than was sent is refused, however   *)
(* much is outstanding.                                                    *)
LEMMA UnsentRefused ==
  ASSUME NEW p, NEW e \in Connection, Dist(e.una, e.nxt) <= RequestLen,
         p.ack = Plus(e.nxt, 1), Wide
  PROVE  AcksUnsent(p, e)
<1>1. /\ e.una \in SeqNumber /\ e.nxt \in SeqNumber /\ p.ack \in SeqNumber
      /\ SeqMod \in Nat /\ SeqMod >= 4 /\ RequestLen \in 1 .. SeqMod - 2
      /\ 1 \in 0 .. SeqMod - 1
  BY WideConstants, Constants, PlusIs DEF Connection
<1>2. Dist(e.nxt, p.ack) = 1
  BY <1>1, DistPlus
<1>3. PICK u \in 0 .. SeqMod - 1, n \in 0 .. SeqMod - 1, k \in 0 .. SeqMod - 1 :
        u = e.una /\ n = e.nxt /\ k = p.ack
  BY <1>1 DEF SeqNumber
<1>4. k = IF n + 1 < SeqMod THEN n + 1 ELSE n + 1 - SeqMod
  BY <1>1, <1>3, PlusIs
<1>5. /\ Dist(u, n) = IF u <= n THEN n - u ELSE n - u + SeqMod
      /\ Dist(u, k) = IF u <= k THEN k - u ELSE k - u + SeqMod
  BY <1>1, <1>3, DistIs
<1>6. Dist(u, n) <= RequestLen
  BY <1>3
<1>7. ~(Dist(u, k) <= Dist(u, n))
  BY <1>1, <1>4, <1>5, <1>6
<1>8. 1 < SeqMod \div 2
  BY <1>1, SMT
<1> QED
  BY <1>2, <1>3, <1>7, <1>8 DEF AcksUnsent, AcksNew

-----------------------------------------------------------------------------
(* Everything an open client that has asked has on the line carries how    *)
(* much of the page it had: g bytes.  It is a bare acknowledgement, as of  *)
(* now or (g = 0) from before the request; or the end of the request, sent *)
(* when there was less than two pages.                                     *)
SentInTurn(e, s) ==
  \E g \in Pages :
    /\ s.ack = 1 + g /\ g <= e.got
    /\ \/ s.len = 0 /\ s.seq = e.nxt
       \/ s.len = 0 /\ Plus(s.seq, RequestLen) = e.nxt /\ g = 0
       \/ s.len > 0 /\ Plus(s.seq, s.len) = e.nxt /\ g < 2 * PageLen

(* ... and the server's answers to all that.                               *)
AnsweredInTurn(e, p) ==
  \E g \in Pages :
    /\ p.seq = 1 + g /\ g <= e.got
    /\ \/ p.ack = Plus(e.nxt, 1)
       \/ Plus(p.ack, RequestLen) = Plus(e.nxt, 1) /\ g = 0
       \/ p.ack = e.nxt /\ g < 2 * PageLen

(* Before that the answers are to a SYN, then to bare acknowledgements.    *)
Waiting(c) ==
  /\ conn[c].rcv = 0 /\ conn[c].got = 0
  /\ \A i \in RxOf(c) : rx[i].seg.ack = 0
  /\ \A i \in TxOf(c) : tx[i].seq = 0

Ready(c) ==
  /\ conn[c].rcv = 1 /\ conn[c].got = 0
  /\ \A i \in RxOf(c) : rx[i].seg.ack = 1
  /\ \A i \in TxOf(c) : tx[i].seq = 1

Served(c) ==
  /\ conn[c].rcv = 1 + conn[c].got
  /\ conn[c].got = 2 * PageLen => conn[c].una = conn[c].nxt
  /\ \A i \in RxOf(c) : SentInTurn(conn[c], rx[i].seg)
  /\ \A i \in TxOf(c) : AnsweredInTurn(conn[c], tx[i])

Whole(c) == \A i \in TxOf(c) : tx[i].len \in {0, PageLen}

InTurn(c) ==
  /\ conn[c].got \in Pages /\ Whole(c)
  /\ conn[c].st = "synSent" => Waiting(c)
  /\ conn[c].st = "open" /\ ~conn[c].asked => Ready(c)
  /\ conn[c].st = "open" /\ conn[c].asked => Served(c)

(* The server's answer to what was sent in turn is in turn.                *)
LEMMA AnswerInTurn ==
  ASSUME Wide, NEW e \in Connection, NEW s \in Segment, SentInTurn(e, s), NEW flags, NEW len
  PROVE  AnsweredInTurn(e, buildRawTcpIpPacket(s, flags, len))
<1> DEFINE p == buildRawTcpIpPacket(s, flags, len)
<1> SUFFICES AnsweredInTurn(e, p)
  OBVIOUS
<1>1. PICK g \in Pages :
        /\ s.ack = 1 + g /\ g <= e.got
        /\ \/ s.len = 0 /\ s.seq = e.nxt
           \/ s.len = 0 /\ Plus(s.seq, RequestLen) = e.nxt /\ g = 0
           \/ s.len > 0 /\ Plus(s.seq, s.len) = e.nxt /\ g < 2 * PageLen
  BY DEF SentInTurn
<1>2. p.seq = 1 + g /\ p.ack = Plus(s.seq, AckAdvance(s))
  BY <1>1 DEF buildRawTcpIpPacket
<1>3. s.seq \in SeqNumber /\ s.len \in Int /\ 1 \in 0 .. SeqMod - 1 /\ RequestLen \in 0 .. SeqMod - 1
  BY Constants DEF Segment
<1> HIDE DEF p
<1>4. CASE s.len = 0 /\ s.seq = e.nxt
  BY <1>1, <1>2, <1>4 DEF AckAdvance, AnsweredInTurn
<1>5. CASE s.len = 0 /\ Plus(s.seq, RequestLen) = e.nxt /\ g = 0
  <2>1. p.ack = Plus(s.seq, 1)
    BY <1>2, <1>5 DEF AckAdvance
  <2>2. Plus(p.ack, RequestLen) = Plus(e.nxt, 1)
    BY <1>3, <1>5, <2>1, PlusPlus
  <2> QED
    BY <1>1, <1>2, <1>5, <2>2 DEF AnsweredInTurn
<1>6. CASE s.len > 0 /\ Plus(s.seq, s.len) = e.nxt /\ g < 2 * PageLen
  <2>1. s.len # 0
    BY <1>3, <1>6
  <2>2. p.ack = e.nxt
    BY <1>2, <1>6, <2>1 DEF AckAdvance
  <2> QED
    BY <1>1, <1>2, <1>6, <2>2 DEF AnsweredInTurn
<1> QED
  BY <1>1, <1>4, <1>5, <1>6

(* A page a client accepts is the next one; the second one settles the     *)
(* request, and there is no third.                                         *)
LEMMA PageInTurn ==
  ASSUME Wide, NEW e \in Connection, Dist(e.una, e.nxt) <= RequestLen,
         e.got \in Pages, e.rcv = 1 + e.got, NEW p \in Segment, AnsweredInTurn(e, p),
         p.len = PageLen, ~AcksUnsent(p, e), HasNewData(p, e)
  PROVE  /\ p.seq = e.rcv /\ Dist(p.seq, e.rcv) = 0
         /\ e.got + PageLen \in Pages
         /\ e.got + PageLen = 2 * PageLen => p.ack = e.nxt
<1>1. PICK g \in Pages :
        /\ p.seq = 1 + g /\ g <= e.got
        /\ \/ p.ack = Plus(e.nxt, 1)
           \/ Plus(p.ack, RequestLen) = Plus(e.nxt, 1) /\ g = 0
           \/ p.ack = e.nxt /\ g < 2 * PageLen
  BY DEF AnsweredInTurn
<1>2. p.ack # Plus(e.nxt, 1)
  BY UnsentRefused
<1>3. /\ g \in Nat /\ e.got \in Nat /\ 1 + g \in SeqNumber /\ 1 + e.got \in SeqNumber
      /\ PageLen \in Nat \ {0} /\ SeqMod \in Nat
  BY WideConstants
<1>4. Dist(p.seq, e.rcv) = e.got - g
  <2>1. Dist(1 + g, 1 + e.got) =
          IF 1 + g <= 1 + e.got THEN (1 + e.got) - (1 + g) ELSE (1 + e.got) - (1 + g) + SeqMod
    BY <1>3, DistIs
  <2> QED
    BY <1>1, <1>3, <2>1
<1>5. e.got - g < PageLen
  BY <1>4 DEF HasNewData
<1>6. g = e.got
  BY <1>1, <1>3, <1>5 DEF Pages
<1>7. g = 0 \/ (p.ack = e.nxt /\ g < 2 * PageLen)
  BY <1>1, <1>2
<1>8. g = 0 \/ g = PageLen
  BY <1>3, <1>7 DEF Pages
<1>9. e.got + PageLen \in Pages
  BY <1>3, <1>6, <1>8 DEF Pages
<1>10. e.got + PageLen = 2 * PageLen => p.ack = e.nxt
  BY <1>3, <1>6, <1>7, <1>8
<1> QED
  BY <1>1, <1>3, <1>4, <1>6, <1>9, <1>10

(* A step that is of no concern to c leaves its conversation in turn.      *)
LEMMA ThinKeepsTurn ==
  ASSUME NEW c, InTurn(c), conn'[c] = conn[c], RxThins(c), TxThins(c)
  PROVE  InTurn(c)'
<1>g. PICK g : \A i \in RxOf(c)' : g[i] \in RxOf(c) /\ rx[g[i]] = rx'[i]
  BY DEF RxThins
<1>h. PICK h : \A i \in TxOf(c)' : h[i] \in TxOf(c) /\ tx[h[i]] = tx'[i]
  BY DEF TxThins
<1>1. Whole(c) => Whole(c)'
  BY <1>h DEF Whole
<1>2. Waiting(c) => Waiting(c)'
  BY <1>g, <1>h DEF Waiting
<1>3. Ready(c) => Ready(c)'
  BY <1>g, <1>h DEF Ready
<1>4. Served(c) => Served(c)'
  BY <1>g, <1>h DEF Served
<1> QED
  BY <1>1, <1>2, <1>3, <1>4 DEF InTurn

LEMMA OthersKeepTurn ==
  ASSUME TypeInv, NEW c \in Clients, NEW d \in Clients, d # c, InTurn(c),
         Client(d) \/ ClientReceives(d)
  PROVE  InTurn(c)'
  BY OthersMove, ThinKeepsTurn

(* The server answers in turn.                                             *)
LEMMA ServerKeepsTurn ==
  ASSUME Wide, TypeInv, NEW c \in Clients, InTurn(c), ServerStep
  PROVE  InTurn(c)'
<1>0. /\ ServerTypeOK /\ rx \in Seq(Frame) /\ tx \in Seq(Segment)
      /\ conn[c] \in Connection
  BY DEF TypeInv, TypeOK, ServerTypeOK, ClientsTypeOK
<1>1. Server /\ conn' = conn /\ rx # <<>> /\ rx' = Tail(rx)
  BY ServerStepLine DEF ServerStep, clientOwn
<1>2. CASE tx' = tx
  BY <1>0, <1>1, <1>2, RxTail, TxSame, ThinKeepsTurn
<1>3. ASSUME NEW flags \in SUBSET Flag, NEW len \in {0, PageLen}, SendAnswer(flags, len),
             Accepted(Head(rx))
      PROVE  InTurn(c)'
  <2> DEFINE p == buildRawTcpIpPacket(Packet, flags, len)
  <2>1. tx' = Append(tx, p) /\ Packet \in Segment /\ Packet = Head(rx).seg
    BY <1>0, <1>1, <1>3, PacketType DEF SendAnswer, Packet
  <2>2. p \in Segment
    BY <2>1, AnswerType, SegmentAssumption
  <2>3. /\ p.dst = Packet.src /\ p.seq = Packet.ack /\ p.len = len
        /\ SentInTurn(conn[c], Packet) => AnsweredInTurn(conn[c], p)
    BY <1>0, <2>1, AnswerInTurn DEF buildRawTcpIpPacket
  <2> HIDE DEF p
  <2>4. CASE Packet.src # c
    BY <1>0, <1>1, <2>1, <2>2, <2>3, <2>4, RxTail, TxOther, ThinKeepsTurn
  <2>5. CASE Packet.src = c
    <3>1. /\ \A i \in RxOf(c)' : i + 1 \in RxOf(c) /\ rx'[i] = rx[i + 1]
          /\ 1 \in RxOf(c) /\ rx[1].seg = Packet
      BY <1>0, <1>1, <1>3, <2>1, <2>5, RxTaken DEF From
    <3>2. \A i \in TxOf(c)' : (i \in TxOf(c) /\ tx'[i] = tx[i]) \/ tx'[i] = p
      BY <1>0, <2>1, <2>2, TxAppended
    <3>3. Whole(c) => Whole(c)'
      BY <2>3, <3>2 DEF Whole
    <3>4. Waiting(c) => Waiting(c)'
      BY <1>1, <2>3, <3>1, <3>2 DEF Waiting
    <3>5. Ready(c) => Ready(c)'
      BY <1>1, <2>3, <3>1, <3>2 DEF Ready
    <3>6. Served(c) => Served(c)'
      BY <1>1, <2>3, <3>1, <3>2 DEF Served
    <3> QED
      BY <1>1, <3>3, <3>4, <3>5, <3>6 DEF InTurn
  <2> QED
    BY <2>4, <2>5
<1> QED
  BY <1>1, <1>2, <1>3, ServerStepLine

(* Neither what was sent nor what was answered comes out of turn when the  *)
(* page grows.                                                             *)
LEMMA TurnGrows ==
  ASSUME Wide, NEW e, NEW n, n.nxt = e.nxt, e.got \in Pages, n.got \in Pages, e.got <= n.got
  PROVE  /\ \A s : SentInTurn(e, s) => SentInTurn(n, s)
         /\ \A p : AnsweredInTurn(e, p) => AnsweredInTurn(n, p)
<1>1. \A g \in Pages : g <= e.got => g <= n.got
  BY WideConstants
<1>2. ASSUME NEW s, SentInTurn(e, s) PROVE SentInTurn(n, s)
  BY <1>1, <1>2 DEF SentInTurn
<1>3. ASSUME NEW p, AnsweredInTurn(e, p) PROVE AnsweredInTurn(n, p)
  BY <1>1, <1>3 DEF AnsweredInTurn
<1> QED
  BY <1>2, <1>3

LEMMA OneMoreInTurn ==
  ASSUME Wide, NEW c, rx \in Seq(Frame), NEW e, Acknowledge(c, e),
         e.got \in Pages, e.rcv = 1 + e.got,
         \A i \in RxOf(c) : SentInTurn(e, rx[i].seg)
  PROVE  \A i \in RxOf(c)' : SentInTurn(e, rx'[i].seg)
<1> DEFINE f == Make(c, e, e.nxt, {"ACK"}, 0)
<1>1. rx' = Append(rx, f)
  BY DEF Acknowledge, Put
<1>2. f.seg.ack = e.rcv /\ f.seg.seq = e.nxt /\ f.seg.len = 0
  BY DEF Make
<1>3. e.got <= e.got
  BY WideConstants
<1> HIDE DEF f
<1>4. SentInTurn(e, f.seg)
  BY <1>2, <1>3 DEF SentInTurn
<1>5. \A i \in RxOf(c)' : (i \in RxOf(c) /\ rx'[i] = rx[i]) \/ (i = Len(rx) + 1 /\ rx'[i] = f)
  BY <1>1, RxAppended
<1> QED
  BY <1>4, <1>5

(* Any other frame more, as long as nothing is asked.                      *)
LEMMA OneMoreAt ==
  ASSUME NEW c, rx \in Seq(Frame), NEW e, NEW seq, NEW flags, NEW len,
         Put(Make(c, e, seq, flags, len)), \A i \in RxOf(c) : rx[i].seg.ack = e.rcv
  PROVE  \A i \in RxOf(c)' : rx'[i].seg.ack = e.rcv
<1> DEFINE f == Make(c, e, seq, flags, len)
<1>1. rx' = Append(rx, f) /\ f.seg.ack = e.rcv
  BY DEF Make, Put
<1> HIDE DEF f
<1>2. \A i \in RxOf(c)' : (i \in RxOf(c) /\ rx'[i] = rx[i]) \/ (i = Len(rx) + 1 /\ rx'[i] = f)
  BY <1>1, RxAppended
<1> QED
  BY <1>1, <1>2

(* The request goes out: what was under way is from before it.             *)
LEMMA AskInTurn ==
  ASSUME Wide, TypeInv, NEW c \in Clients, InTurn(c), Expected(c), Ask(c)
  PROVE  InTurn(c)'
<1>0. rx \in Seq(Frame) /\ conn \in [Clients -> Connection] /\ conn[c] \in Connection
  BY DEF TypeInv, TypeOK, ServerTypeOK, ClientsTypeOK
<1> DEFINE e == conn[c]
           n == [e EXCEPT !.asked = TRUE, !.owes = FALSE, !.nxt = Plus(@, RequestLen)]
           f == Make(c, n, e.nxt, {"PSH", "ACK"}, RequestLen)
<1>1. /\ conn'[c] = n /\ rx' = Append(rx, f) /\ tx' = tx
      /\ e.st = "open" /\ ~e.asked
  BY <1>0 DEF Ask, Become, Put
<1>2. /\ n.st = "open" /\ n.asked /\ n.got = e.got /\ n.rcv = e.rcv
      /\ n.nxt = Plus(e.nxt, RequestLen) /\ e.nxt \in SeqNumber
  BY <1>0, <1>1 DEF Connection
<1>3. f.seg.ack = n.rcv /\ f.seg.seq = e.nxt /\ f.seg.len = RequestLen
  BY DEF Make
<1>4. /\ e.rcv = 1 /\ e.got = 0
      /\ \A i \in RxOf(c) : rx[i].seg.ack = 1 /\ rx[i].seg.seq = e.nxt /\ rx[i].seg.len = 0
      /\ \A i \in TxOf(c) : tx[i].seq = 1 /\ tx[i].ack = Plus(e.nxt, 1)
  BY <1>1 DEF InTurn, Ready, Expected, Idle
<1> HIDE DEF e, n, f
<1>5. \A i \in RxOf(c)' : (i \in RxOf(c) /\ rx'[i] = rx[i]) \/ (i = Len(rx) + 1 /\ rx'[i] = f)
  BY <1>0, <1>1, RxAppended
<1>6. /\ 0 \in Pages /\ 1 = 1 + 0 /\ 0 <= 0 /\ 0 < 2 * PageLen /\ RequestLen > 0
      /\ 0 # 2 * PageLen /\ 1 \in 0 .. SeqMod - 1 /\ RequestLen \in 0 .. SeqMod - 1
  BY WideConstants, Constants DEF Pages
<1>7. \A i \in RxOf(c)' : SentInTurn(n, rx'[i].seg)
  <2>1. SentInTurn(n, f.seg)
    BY <1>2, <1>3, <1>4, <1>6 DEF SentInTurn
  <2>2. \A i \in RxOf(c) : SentInTurn(n, rx[i].seg)
    BY <1>2, <1>4, <1>6 DEF SentInTurn
  <2> QED
    BY <1>5, <2>1, <2>2
<1>8. \A i \in TxOf(c)' : AnsweredInTurn(n, tx'[i])
  <2>1. Plus(Plus(e.nxt, 1), RequestLen) = Plus(n.nxt, 1)
    BY <1>2, <1>6, PlusPlus
  <2>2. \A i \in TxOf(c) : AnsweredInTurn(n, tx[i])
    BY <1>2, <1>4, <1>6, <2>1 DEF AnsweredInTurn
  <2> QED
    BY <1>1, <2>2 DEF TxOf
<1>9. Whole(c)'
  BY <1>1 DEF InTurn, Whole, TxOf
<1>10. Served(c)'
  BY <1>1, <1>2, <1>4, <1>6, <1>7, <1>8 DEF Served
<1> QED
  BY <1>1, <1>2, <1>4, <1>6, <1>9, <1>10 DEF InTurn

(* What c's own host sends unprompted is in turn.                          *)
LEMMA ClientKeepsTurn ==
  ASSUME Wide, TypeInv, NEW c \in Clients, InTurn(c), Expected(c), Client(c)
  PROVE  InTurn(c)'
<1>0. /\ rx \in Seq(Frame) /\ conn \in [Clients -> Connection]
      /\ conn[c] \in Connection /\ Outstanding(conn[c])
      /\ conn[c].got \in Pages /\ 0 \in Pages
  BY DEF TypeInv, TypeOK, ServerTypeOK, ClientsTypeOK, InTurn, Pages
<1>t. /\ tx' = tx /\ TxOf(c)' = TxOf(c) /\ Whole(c)'
  BY ClientMoves DEF InTurn, Whole, TxOf
<1>1. CASE Connect(c)
  <2>1. PICK isn \in InitialSeqs :
          LET e == [Closed EXCEPT !.st = "synSent", !.una = isn, !.nxt = Plus(isn, 1)]
          IN  Become(c, e) /\ Put(Make(c, e, isn, {"SYN"}, 0))
    BY <1>1 DEF Connect
  <2> DEFINE e == [Closed EXCEPT !.st = "synSent", !.una = isn, !.nxt = Plus(isn, 1)]
  <2>2. conn'[c] = e /\ Put(Make(c, e, isn, {"SYN"}, 0)) /\ conn[c].st = "closed"
    BY <1>0, <1>1, <2>1 DEF Connect, Become
  <2>3. e.st = "synSent" /\ e.rcv = 0 /\ e.got = 0
    BY DEF Closed
  <2> HIDE DEF e
  <2>4. RxOf(c) = {} /\ TxOf(c) = {}
    BY <2>2 DEF Expected, Silent
  <2>5. \A i \in RxOf(c)' : rx'[i].seg.ack = e.rcv
    BY <1>0, <2>2, <2>4, OneMoreAt
  <2>6. Waiting(c)'
    BY <1>t, <2>2, <2>3, <2>4, <2>5 DEF Waiting
  <2> QED
    BY <1>0, <1>t, <2>2, <2>3, <2>6 DEF InTurn
<1>2. CASE Ask(c)
  BY <1>2, AskInTurn
<1>3. CASE Close(c)
  <2>1. conn'[c].st = "closing" /\ conn'[c].got = conn[c].got
    BY <1>0, <1>3 DEF Close, Become, Connection
  <2> QED
    BY <1>0, <1>t, <2>1 DEF InTurn
<1>4. CASE DelayedAck(c)
  <2> DEFINE e == conn[c]  n == [e EXCEPT !.owes = FALSE]
  <2>1. conn'[c] = n /\ Acknowledge(c, n) /\ e.st = "open"
    BY <1>0, <1>4 DEF DelayedAck, Become
  <2>2. /\ n.st = "open" /\ n.asked = e.asked /\ n.got = e.got /\ n.rcv = e.rcv
        /\ n.nxt = e.nxt /\ n.una = e.una
    BY <1>0, <2>1 DEF Connection
  <2> HIDE DEF n
  <2>3. CASE ~e.asked
    <3>1. Ready(c)
      BY <2>1, <2>3 DEF InTurn
    <3>2. \A i \in RxOf(c)' : rx'[i].seg.ack = n.rcv
      BY <1>0, <2>1, <2>2, <3>1, OneMoreAt DEF Acknowledge, Ready
    <3>3. Ready(c)'
      BY <1>t, <2>1, <2>2, <3>1, <3>2 DEF Ready
    <3> QED
      BY <1>0, <1>t, <2>1, <2>2, <2>3, <3>3 DEF InTurn
  <2>4. CASE e.asked
    <3>1. Served(c)
      BY <2>1, <2>4 DEF InTurn
    <3>2. e.got <= n.got
      BY <1>0, <2>2, WideConstants
    <3>3. /\ \A s : SentInTurn(e, s) => SentInTurn(n, s)
          /\ \A p : AnsweredInTurn(e, p) => AnsweredInTurn(n, p)
      BY <1>0, <2>2, <3>2, TurnGrows
    <3>4. \A i \in RxOf(c)' : SentInTurn(n, rx'[i].seg)
      <4>1. \A i \in RxOf(c) : SentInTurn(n, rx[i].seg)
        BY <3>1, <3>3 DEF Served
      <4>2. n.got \in Pages /\ n.rcv = 1 + n.got
        BY <1>0, <2>2, <3>1 DEF Served
      <4> QED
        BY <1>0, <2>1, <4>1, <4>2, OneMoreInTurn
    <3>5. Served(c)'
      BY <1>t, <2>1, <2>2, <3>1, <3>3, <3>4 DEF Served
    <3> QED
      BY <1>0, <1>t, <2>1, <2>2, <2>4, <3>5 DEF InTurn
  <2> QED
    BY <2>3, <2>4
<1>5. CASE RetransmitSyn(c)
  <2>1. /\ conn' = conn /\ conn[c].st = "synSent"
        /\ Put(Make(c, conn[c], conn[c].una, {"SYN"}, 0))
    BY <1>5 DEF RetransmitSyn
  <2>2. Waiting(c)
    BY <2>1 DEF InTurn
  <2>3. \A i \in RxOf(c)' : rx'[i].seg.ack = conn[c].rcv
    BY <1>0, <2>1, <2>2, OneMoreAt DEF Waiting
  <2>4. Waiting(c)'
    BY <1>t, <2>1, <2>2, <2>3 DEF Waiting
  <2> QED
    BY <1>0, <1>t, <2>1, <2>4 DEF InTurn
<1>6. CASE RetransmitData(c)
  <2> DEFINE e == conn[c]  n == UnackedData(e)
             f == Make(c, e, e.una, {"PSH", "ACK"}, n)
  <2>1. /\ conn' = conn /\ e.st \in {"open", "closing"} /\ e.una # e.nxt
        /\ \/ n > 0 /\ Put(f)
           \/ n = 0
    BY <1>6 DEF RetransmitData
  <2>2. ASSUME e.st = "open" PROVE Served(c)'
    <3>1. e.una \in SeqNumber /\ e.nxt \in SeqNumber
      BY <1>0 DEF Connection
    <3>2. n = Dist(e.una, e.nxt) /\ n # 0 /\ n > 0
      <4>1. Dist(e.una, e.nxt) \in Nat /\ Dist(e.una, e.nxt) # 0
        BY <2>1, <3>1, DistIs, DistZero
      <4>2. n = Dist(e.una, e.nxt)
        BY <2>2, <4>1 DEF UnackedData
      <4> QED
        BY <4>1, <4>2
    <3>3. e.asked /\ Served(c)
      BY <1>0, <2>1, <2>2 DEF Outstanding, InTurn
    <3>4. rx' = Append(rx, f) /\ f.seg.ack = e.rcv /\ f.seg.seq = e.una /\ f.seg.len = n
      BY <2>1, <3>2 DEF Put, Make
    <3>5. Plus(e.una, n) = e.nxt
      BY <3>1, <3>2, PlusDist
    <3>6. e.rcv = 1 + e.got /\ e.got < 2 * PageLen /\ e.got <= e.got
      BY <1>0, <2>1, <3>3, WideConstants DEF Served, Pages
    <3> HIDE DEF n, f
    <3>7. SentInTurn(e, f.seg)
      BY <1>0, <3>2, <3>4, <3>5, <3>6 DEF SentInTurn
    <3>8. \A i \in RxOf(c)' : (i \in RxOf(c) /\ rx'[i] = rx[i]) \/ rx'[i] = f
      BY <1>0, <3>4, RxAppended
    <3>9. \A i \in RxOf(c)' : SentInTurn(e, rx'[i].seg)
      BY <3>3, <3>7, <3>8 DEF Served
    <3> QED
      BY <1>t, <2>1, <3>3, <3>9 DEF Served
  <2>3. e.st = "open" => e.asked
    BY <1>0, <2>1 DEF Outstanding
  <2> QED
    BY <1>0, <1>t, <2>1, <2>2, <2>3 DEF InTurn
<1> QED
  BY <1>1, <1>2, <1>3, <1>4, <1>5, <1>6 DEF Client

LEMMA AckedRest ==
  ASSUME NEW p \in Segment, NEW e \in Connection, Outstanding(e)
  PROVE  /\ AckedEnd(p, e).nxt = e.nxt /\ AckedEnd(p, e).rcv = e.rcv
         /\ e.una = e.nxt => AckedEnd(p, e).una = e.nxt
         /\ p.ack = e.nxt => AckedEnd(p, e).una = e.nxt
<1>0. e.una \in SeqNumber /\ e.nxt \in SeqNumber /\ p.ack \in SeqNumber
  BY DEF Connection, Segment
<1>1. PICK k \in SeqNumber : AckedEnd(p, e) = [e EXCEPT !.una = k]
  BY AckedType
<1>2. AckedEnd(p, e).nxt = e.nxt /\ AckedEnd(p, e).rcv = e.rcv
  BY <1>1 DEF Connection
<1>3. AckedEnd(p, e).una = IF AcksNew(p, e) THEN p.ack ELSE e.una
  BY DEF AckedEnd, Connection
<1>4. ASSUME e.una = e.nxt, AcksNew(p, e) PROVE p.ack = e.nxt
  <2>1. Dist(e.una, e.nxt) = 0 /\ Dist(e.una, p.ack) \in Nat
    BY <1>0, <1>4, DistZero, DistIs
  <2>2. Dist(e.una, p.ack) = 0
    BY <1>4, <2>1 DEF AcksNew
  <2> QED
    BY <1>0, <1>4, <2>2, DistZero
<1>5. ASSUME p.ack = e.nxt PROVE AcksNew(p, e)
  <2>1. Dist(e.una, e.nxt) \in Int
    BY <1>0, DistIs
  <2> QED
    BY <1>5, <2>1 DEF AcksNew
<1> QED
  BY <1>2, <1>3, <1>4, <1>5

LEMMA AcceptedInTurn ==
  ASSUME Wide, TypeInv, NEW c \in Clients, InTurn(c), Expected(c), AcceptPage(c)
  PROVE  InTurn(c)'
<1>0. /\ rx \in Seq(Frame) /\ tx \in Seq(Segment) /\ conn \in [Clients -> Connection]
      /\ conn[c] \in Connection /\ Outstanding(conn[c])
      /\ conn[c].got \in Pages
  BY DEF TypeInv, TypeOK, ServerTypeOK, ClientsTypeOK, InTurn
<1> DEFINE p == Head(tx)  e == conn[c]  a == AckedEnd(p, e)
           n == [a EXCEPT !.rcv = Plus(p.seq, p.len),
                          !.got = @ + p.len - Dist(p.seq, e.rcv)]
           m == [n EXCEPT !.owes = TRUE]
<1>1. p \in Segment /\ tx # <<>> /\ tx' = Tail(tx) /\ p.dst = c
  BY <1>0, ReachesType DEF AcceptPage
<1>2. /\ \A i \in TxOf(c)' : i + 1 \in TxOf(c) /\ tx'[i] = tx[i + 1]
      /\ 1 \in TxOf(c) /\ p = tx[1]
  BY <1>0, <1>1, TxTaken
<1>3. /\ e.st = "open" /\ p.len > 0 /\ ~AcksUnsent(p, e) /\ HasNewData(p, e)
      /\ \/ conn'[c] = n /\ Acknowledge(c, n)
         \/ conn'[c] = m /\ rx' = rx
  BY <1>0 DEF AcceptPage, InOrder, Become
<1>4. Whole(c)' /\ p.len = PageLen
  BY <1>2, <1>3 DEF InTurn, Whole
<1>5. e.asked
  <2> SUFFICES ASSUME ~e.asked PROVE FALSE
    OBVIOUS
  <2>1. e.una = e.nxt /\ p.ack = Plus(e.nxt, 1)
    BY <1>0, <1>2, <1>3 DEF Expected, Outstanding, Idle
  <2>2. Dist(e.una, e.nxt) <= RequestLen
    BY <1>0, <1>3 DEF Outstanding
  <2>3. AcksUnsent(p, e)
    <3> HIDE DEF p, e
    <3> QED
      BY <1>0, <2>1, <2>2, UnsentRefused DEF e
  <2> QED
    BY <1>3, <2>3
<1>6. /\ e.rcv = 1 + e.got /\ Dist(e.una, e.nxt) <= RequestLen
      /\ \A i \in RxOf(c) : SentInTurn(e, rx[i].seg)
      /\ \A i \in TxOf(c)' : AnsweredInTurn(e, tx'[i])
      /\ AnsweredInTurn(e, p)
  BY <1>0, <1>2, <1>3, <1>5 DEF InTurn, Served, Outstanding
<1>7. /\ p.seq = e.rcv /\ Dist(p.seq, e.rcv) = 0
      /\ e.got + PageLen \in Pages
      /\ e.got + PageLen = 2 * PageLen => p.ack = e.nxt
  <2> HIDE DEF p, e
  <2> QED
    BY <1>0, <1>1, <1>3, <1>4, <1>6, PageInTurn DEF e
<1>8. /\ a.st = e.st /\ a.asked = e.asked /\ a.got = e.got /\ a \in Connection
      /\ a.nxt = e.nxt /\ (p.ack = e.nxt => a.una = e.nxt)
  BY <1>0, <1>1, AckedFields, AckedRest
<1> HIDE DEF a
<1>9. /\ n.st = "open" /\ n.asked /\ n.nxt = e.nxt /\ n.una = a.una
      /\ n.got = a.got + p.len - Dist(p.seq, e.rcv) /\ n.rcv = Plus(p.seq, p.len)
      /\ m.st = "open" /\ m.asked /\ m.nxt = n.nxt /\ m.una = n.una
      /\ m.got = n.got /\ m.rcv = n.rcv
  BY <1>3, <1>5, <1>8 DEF Connection
<1> HIDE DEF n, m
<1>10. /\ n.got = e.got + PageLen /\ n.got \in Pages /\ e.got <= n.got
  <2>1. e.got \in Nat /\ PageLen \in Nat
    BY <1>0, WideConstants
  <2>2. PICK x \in Nat, y \in Nat : x = e.got /\ y = PageLen
    BY <2>1
  <2>3. n.got = e.got + PageLen
    <3>1. n.got = x + y - 0
      BY <1>4, <1>7, <1>8, <1>9, <2>2
    <3>2. n.got = x + y
      BY ONLY <2>2, <3>1
    <3> QED
      BY <2>2, <3>2
  <2> QED
    BY <1>7, <2>1, <2>3
<1>11. n.rcv = 1 + n.got
  <2>1. /\ 1 + e.got \in SeqNumber /\ 1 + n.got \in SeqNumber
        /\ e.got \in Nat /\ PageLen \in Nat /\ SeqMod \in Nat /\ PageLen \in 0 .. SeqMod - 1
    <3>1. PageLen \in Nat /\ SeqMod \in Nat /\ 2 * PageLen + 1 < SeqMod
      BY WideConstants
    <3>2. PageLen \in 0 .. SeqMod - 1
      BY ONLY <3>1
    <3> QED
      BY <1>0, <1>10, <3>1, <3>2, WideConstants
  <2>2. n.rcv = Plus(1 + e.got, PageLen)
    BY <1>4, <1>6, <1>7, <1>9
  <2>3. Plus(1 + e.got, PageLen) =
          IF (1 + e.got) + PageLen < SeqMod THEN (1 + e.got) + PageLen
                                            ELSE (1 + e.got) + PageLen - SeqMod
    BY <2>1, PlusIs
  <2>4. (1 + e.got) + PageLen = 1 + n.got /\ 1 + n.got < SeqMod
    BY <1>10, <2>1 DEF SeqNumber
  <2> QED
    BY <2>2, <2>3, <2>4
<1>12. n.got = 2 * PageLen => n.una = n.nxt
  BY <1>7, <1>8, <1>9, <1>10
<1>13. /\ \A s : SentInTurn(e, s) => SentInTurn(n, s)
       /\ \A q : AnsweredInTurn(e, q) => AnsweredInTurn(n, q)
  BY <1>0, <1>9, <1>10, TurnGrows
<1>14. /\ \A s : SentInTurn(n, s) => SentInTurn(m, s)
       /\ \A q : AnsweredInTurn(n, q) => AnsweredInTurn(m, q)
  <2>1. n.got <= m.got
    BY <1>9, <1>10, WideConstants
  <2> QED
    BY <1>9, <1>10, <2>1, TurnGrows
<1>15. \A i \in RxOf(c) : SentInTurn(n, rx[i].seg)
  BY <1>6, <1>13
<1>16. CASE conn'[c] = n /\ Acknowledge(c, n)
  <2>1. \A i \in RxOf(c)' : SentInTurn(n, rx'[i].seg)
    BY <1>0, <1>10, <1>11, <1>15, <1>16, OneMoreInTurn
  <2>2. Served(c)'
    BY <1>6, <1>11, <1>12, <1>13, <1>16, <2>1 DEF Served
  <2> QED
    BY <1>4, <1>9, <1>10, <1>16, <2>2 DEF InTurn
<1>17. CASE conn'[c] = m /\ rx' = rx
  <2>1. RxOf(c)' = RxOf(c)
    BY <1>17 DEF RxOf
  <2>2. Served(c)'
    BY <1>6, <1>9, <1>11, <1>12, <1>13, <1>14, <1>15, <1>17, <2>1 DEF Served
  <2> QED
    BY <1>4, <1>9, <1>10, <1>17, <2>2 DEF InTurn
<1> QED
  BY <1>3, <1>16, <1>17

(* What c's own host does with a segment keeps the conversation in turn.   *)
LEMMA ReceiverKeepsTurn ==
  ASSUME Wide, TypeInv, NEW c \in Clients, InTurn(c), Expected(c), ClientReceives(c)
  PROVE  InTurn(c)'
<1>0. /\ rx \in Seq(Frame) /\ tx \in Seq(Segment) /\ conn \in [Clients -> Connection]
      /\ conn[c] \in Connection /\ Outstanding(conn[c])
      /\ conn[c].got \in Pages
  BY DEF TypeInv, TypeOK, ServerTypeOK, ClientsTypeOK, InTurn
<1> DEFINE p == Head(tx)  e == conn[c]
<1>1. p \in Segment /\ tx # <<>> /\ tx' = Tail(tx) /\ p.dst = c
  BY <1>0, ReceiverMoves, ReachesType DEF Reaches
<1>2. /\ \A i \in TxOf(c)' : i + 1 \in TxOf(c) /\ tx'[i] = tx[i + 1] /\ i + 1 # 1
      /\ 1 \in TxOf(c) /\ p = tx[1]
  BY <1>0, <1>1, TxTaken
<1>3. Whole(c)' /\ p.len \in {0, PageLen}
  BY <1>2 DEF InTurn, Whole
<1>4. e.st = "open" /\ ~e.asked => AcksUnsent(p, e)
  <2> SUFFICES ASSUME e.st = "open", ~e.asked PROVE AcksUnsent(p, e)
    OBVIOUS
  <2>1. e.una = e.nxt /\ p.ack = Plus(e.nxt, 1)
    BY <1>0, <1>2 DEF Expected, Outstanding, Idle
  <2>2. Dist(e.una, e.nxt) <= RequestLen
    BY <1>0, Constants DEF Outstanding
  <2> HIDE DEF p, e
  <2> QED
    BY <1>0, <2>1, <2>2, UnsentRefused DEF e
<1>5. ASSUME e.st = "open", e.asked
      PROVE  /\ e.rcv = 1 + e.got /\ Dist(e.una, e.nxt) <= RequestLen
             /\ e.got = 2 * PageLen => e.una = e.nxt
             /\ \A i \in RxOf(c) : SentInTurn(e, rx[i].seg)
             /\ \A i \in TxOf(c)' : AnsweredInTurn(e, tx'[i])
             /\ AnsweredInTurn(e, p)
  BY <1>0, <1>2, <1>5 DEF InTurn, Served, Outstanding
<1>6. CASE Establish(c)
  <2> DEFINE n == [e EXCEPT !.st = "open", !.una = p.ack, !.rcv = Plus(p.seq, 1)]
  <2>1. conn'[c] = n /\ Acknowledge(c, n) /\ e.st = "synSent"
    BY <1>0, <1>6 DEF Establish, Become
  <2>2. n.st = "open" /\ n.asked = e.asked /\ n.got = e.got /\ n.rcv = Plus(p.seq, 1)
    BY <1>0 DEF Connection
  <2> HIDE DEF n
  <2>3. /\ RxOf(c) = {} /\ TxOf(c)' = {} /\ ~e.asked /\ e.got = 0 /\ p.seq = 0
    BY <1>2, <2>1 DEF Expected, Alone, InTurn, Waiting
  <2>4. n.rcv = 1
    BY <2>2, <2>3, Constants, PlusIs
  <2>5. \A i \in RxOf(c)' : rx'[i].seg.ack = n.rcv
    BY <1>0, <2>1, <2>3, OneMoreAt DEF Acknowledge
  <2>6. Ready(c)'
    BY <2>1, <2>2, <2>3, <2>4, <2>5 DEF Ready
  <2> QED
    BY <1>0, <1>3, <2>1, <2>2, <2>3, <2>6 DEF InTurn
<1>7. CASE Discard(c)
  <2>1. rx' = rx /\ conn' = conn
    BY <1>7 DEF Discard
  <2> QED
    BY <1>0, <1>1, <2>1, RxSame, TxTail, ThinKeepsTurn
<1>8. CASE Challenge(c)
  <2>1. Acknowledge(c, e) /\ conn' = conn /\ e.st \notin {"closed", "synSent"}
    BY <1>8 DEF Challenge, Synchronized
  <2>2. ASSUME e.st = "open", ~e.asked PROVE Ready(c)'
    <3>1. Ready(c)
      BY <2>2 DEF InTurn
    <3>2. \A i \in RxOf(c)' : rx'[i].seg.ack = e.rcv
      BY <1>0, <2>1, <3>1, OneMoreAt DEF Acknowledge, Ready
    <3> QED
      BY <1>2, <2>1, <3>1, <3>2 DEF Ready
  <2>3. ASSUME e.st = "open", e.asked PROVE Served(c)'
    <3>1. \A i \in RxOf(c)' : SentInTurn(e, rx'[i].seg)
      BY <1>0, <1>5, <2>1, <2>3, OneMoreInTurn
    <3> QED
      BY <1>5, <2>1, <2>3, <3>1 DEF Served
  <2> QED
    BY <1>0, <1>3, <2>1, <2>2, <2>3 DEF InTurn
<1>9. CASE AcceptAck(c)
  <2>1. /\ e.st \in {"open", "closing", "halfClosed"} /\ InOrder(p, e)
        /\ conn'[c].asked = e.asked /\ conn'[c].got = e.got
        /\ e.st # "open" => conn'[c].st \in {"closing", "halfClosed", "done"}
        /\ e.st = "open" => conn'[c] = AckedEnd(p, e) /\ rx' = rx
    BY <1>0, <1>1, <1>9, AckOutcome
  <2>4. CASE e.st # "open"
    BY <1>0, <1>3, <2>1, <2>4 DEF InTurn
  <2>5. CASE e.st = "open"
    <3> DEFINE a == AckedEnd(p, e)
    <3>1. a.st = e.st /\ a.asked = e.asked /\ a.got = e.got /\ a \in Connection
      BY <1>0, <1>1, AckedFields
    <3>2. a.nxt = e.nxt /\ a.rcv = e.rcv /\ (e.una = e.nxt => a.una = e.nxt)
      BY <1>0, <1>1, AckedRest
    <3>3. conn'[c] = a /\ rx' = rx /\ e.asked
      BY <1>4, <2>1, <2>5 DEF InOrder
    <3> HIDE DEF a
    <3>4. e.got <= a.got
      BY <1>0, <3>1, WideConstants
    <3>5. /\ \A s : SentInTurn(e, s) => SentInTurn(a, s)
          /\ \A q : AnsweredInTurn(e, q) => AnsweredInTurn(a, q)
      BY <1>0, <3>1, <3>2, <3>4, TurnGrows
    <3>6. RxOf(c)' = RxOf(c)
      BY <3>3 DEF RxOf
    <3>7. Served(c)'
      BY <1>5, <2>5, <3>1, <3>2, <3>3, <3>5, <3>6 DEF Served
    <3> QED
      BY <1>0, <1>3, <2>5, <3>1, <3>3, <3>7 DEF InTurn
  <2> QED
    BY <2>4, <2>5
<1>10. CASE AcceptPage(c)
  BY <1>10, AcceptedInTurn
<1>11. CASE Reset(c)
  <2>1. conn'[c].st = "done" /\ conn'[c].got = e.got
    BY <1>0, <1>11 DEF Reset, Become, Connection
  <2> QED
    BY <1>0, <1>3, <2>1 DEF InTurn
<1> QED
  BY <1>6, <1>7, <1>8, <1>9, <1>10, <1>11 DEF ClientReceives

(* The inductive invariant of WholePages.                                  *)
TurnInv == PageInv /\ \A c \in Clients : InTurn(c)

LEMMA TurnInvStep ==
  ASSUME Wide
  PROVE  TurnInv /\ [Next]_vars => TurnInv'
<1> SUFFICES ASSUME TurnInv, [Next]_vars
             PROVE  TurnInv'
  OBVIOUS
<1>0. /\ PageInv' /\ TypeInv /\ rx \in Seq(Frame) /\ tx \in Seq(Segment)
      /\ held \in 0 .. Len(tx)
      /\ \A c \in Clients : Expected(c) /\ InTurn(c)
  BY PageInvStep, WideConstants DEF TurnInv, PageInv, TypeInv, TypeOK, ServerTypeOK
<1> SUFFICES ASSUME NEW c \in Clients
             PROVE  InTurn(c)'
  BY <1>0 DEF TurnInv
<1>1. CASE ServerStep
  BY <1>0, <1>1, ServerKeepsTurn
<1>2. ASSUME NEW d \in Clients, ClientActs(Client(d))
      PROVE  InTurn(c)'
  BY <1>0, <1>2, ClientKeepsTurn, OthersKeepTurn DEF ClientActs
<1>3. ASSUME NEW d \in Clients, ClientTakes(d)
      PROVE  InTurn(c)'
  BY <1>0, <1>3, ReceiverKeepsTurn, OthersKeepTurn DEF ClientTakes
<1>4. CASE Lose
  <2>1. conn' = conn /\ (LoseRx \/ LoseTx)
    BY <1>4 DEF Lose, clientOwn
  <2>2. CASE LoseRx
    BY <1>0, <2>1, <2>2, RxTail, TxSame, ThinKeepsTurn DEF LoseRx
  <2>3. CASE LoseTx
    <3>1. held \in 0 .. Len(tx) - 1 /\ tx' = LeaveOut(tx, held) /\ rx' = rx
      BY <1>0, <2>3 DEF LoseTx, LeaveOut
    <3> QED
      BY <1>0, <2>1, <3>1, RxSame, TxLeaveOut, ThinKeepsTurn
  <2> QED
    BY <2>1, <2>2, <2>3
<1>5. CASE Noise
  <2>1. conn' = conn /\ tx' = tx
    BY <1>5 DEF Noise, Arrive, clientOwn
  <2>2. PICK f \in Arrivals : rx' = Append(rx, f)
    BY <1>5 DEF Noise, Arrive
  <2>3. ~From(f, c)
    BY MiniwebAssumption DEF From
  <2> QED
    BY <1>0, <2>1, <2>2, <2>3, RxOther, TxSame, ThinKeepsTurn
<1>6. CASE UNCHANGED vars
  <2>1. rx' = rx /\ tx' = tx /\ conn' = conn
    BY <1>6 DEF vars
  <2> QED
    BY <1>0, <2>1, RxSame, TxSame, ThinKeepsTurn
<1> QED
  BY <1>1, <1>2, <1>3, <1>4, <1>5, <1>6 DEF Next

LEMMA TurnInvHolds ==
  ASSUME EarlySyn = 0, Wide
  PROVE  Spec => []TurnInv
<1>1. Spec => []PageInv
  BY PageInvHolds, WideConstants
<1>2. Init /\ PageInv => TurnInv
  <2> SUFFICES ASSUME Init, PageInv, NEW c \in Clients PROVE InTurn(c)
    BY DEF TurnInv
  <2>1. tx = <<>> /\ conn[c] = Closed
    BY DEF Init, LineInit, ClientsInit
  <2>2. Whole(c)
    BY <2>1 DEF Whole, TxOf
  <2>3. Closed.got = 0 /\ Closed.st = "closed"
    BY DEF Closed
  <2> QED
    BY <2>1, <2>2, <2>3 DEF InTurn, Pages
<1>3. TurnInv /\ [Next]_vars => TurnInv'
  BY TurnInvStep
<1> QED
  BY <1>1, <1>2, <1>3, PTL DEF Spec

(* For any number of clients, whatever is lost and whenever the timers for *)
(* data fire: what a client gets of the page is nothing, the page or, at   *)
(* the worst, the page twice.  A page is never entered in the middle,      *)
(* although the server numbers it by whatever packet it answers and sends  *)
(* it in answer to anything: all a client ever acknowledges is a number of *)
(* whole pages, and once the second page has come its request is settled.  *)
THEOREM WholePagesOnly ==
  ASSUME EarlySyn = 0, SeqMod >= 2 * MaxLen + 2
  PROVE  Spec => []WholePages
<1>0. Wide
  BY DEF Wide
<1>1. Spec => []TurnInv
  BY <1>0, TurnInvHolds
<1>2. TurnInv => WholePages
  BY DEF TurnInv, InTurn, Pages, WholePages
<1> QED
  BY <1>1, <1>2, PTL

-----------------------------------------------------------------------------
(* Clients one at a time, on a line that loses nothing, none of which      *)
(* closes before it has the page: the conversation each of them has.       *)
OneByOne == MaxActive = 1 /\ MaxLoss = 0 /\ Impatient = FALSE /\ Wide

With(c) == session # <<>> /\ session[1].src = c

(* Its SYN is under way, or will be again; or the server's answer is.      *)
Connecting(c) ==
  /\ Plus(conn[c].una, 1) = conn[c].nxt
  /\ \/ /\ pc = "listen" /\ TxOf(c) = {}
        /\ \A i \in RxOf(c) :
             /\ rx[i].seg.flags = {"SYN"} /\ rx[i].seg.len = 0
             /\ Plus(rx[i].seg.seq, 1) = conn[c].nxt
     \/ /\ pc = "handshake" /\ With(c) /\ RxOf(c) = {} /\ TxOf(c) # {}
        /\ \A i \in TxOf(c) : tx[i].flags = {"SYN", "ACK"} /\ tx[i].ack = conn[c].nxt

(* What the server gets of it next completes the handshake, and then all   *)
(* is of the request until the page is sent.                               *)
BareAckFirst(c) ==
  \E k \in RxOf(c) :
    /\ rx[k].seg.flags = {"ACK"}
    /\ \A i \in RxOf(c) : i # k => k < i /\ rx[i].seg.len > 0

PageOrFin(c) ==
  /\ \A i \in TxOf(c) :
       \/ tx[i].flags = {"FIN"} /\ tx[i].len = 0
       \/ /\ tx[i].flags = {"ACK"} /\ tx[i].len > 0
          /\ tx[i].ack = conn[c].nxt /\ conn[c].got = 0
  /\ \A i, j \in TxOf(c) : tx[i].len > 0 /\ tx[j].len > 0 => i = j

Talking(c) ==
  /\ With(c)
  /\ \A i \in RxOf(c) : rx[i].seg.flags \in {{"ACK"}, {"PSH", "ACK"}}
  /\ \/ pc = "handshake" /\ conn[c].got = 0 /\ TxOf(c) = {} /\ BareAckFirst(c)
     \/ /\ pc = "request" /\ conn[c].got = 0 /\ TxOf(c) = {}
        /\ \A i \in RxOf(c) : rx[i].seg.len > 0
     \/ pc \in {"ack", "fin"} /\ conn[c].asked /\ PageOrFin(c)

(* Its FIN gets its acknowledgement, the last thing the server sends it.   *)
FinalAck(c) ==
  \E k \in TxOf(c) :
    /\ tx[k].flags = {"ACK"} /\ tx[k].len = 0 /\ tx[k].ack = conn[c].nxt
    /\ \A i \in TxOf(c) : i # k => i < k /\ tx[i].flags = {"FIN"}

Closes(c) ==
  \A i \in RxOf(c) :
    /\ rx[i].seg.flags \in {{"ACK"}, {"PSH", "ACK"}, {"FIN", "ACK"}}
    /\ "FIN" \in rx[i].seg.flags =>
         rx[i].seg.len = 0 /\ Plus(rx[i].seg.seq, 1) = conn[c].nxt

Leaving(c) ==
  /\ conn[c].got = PageLen /\ Closes(c)
  /\ \/ With(c) /\ pc \in {"ack", "fin"} /\ \A i \in TxOf(c) : tx[i].flags = {"FIN"}
     \/ pc = "listen" /\ FinalAck(c)

Away(c) ==
  ~With(c) /\ TxOf(c) = {} /\ \A i \in RxOf(c) : rx[i].seg.flags # {"SYN"}

Stage(c) ==
  /\ conn[c].got \in {0, PageLen} /\ (conn[c].owes => conn[c].got > 0)
  /\ conn[c].st = "synSent" => Connecting(c)
  /\ conn[c].st = "open" => Talking(c)
  /\ conn[c].st = "closing" => Leaving(c)
  /\ conn[c].st \in {"closed", "halfClosed", "done"} => Away(c)

(* The line and the server belong to one conversation; a SYN comes after   *)
(* everything an earlier one has left on the line.                         *)
Known == \A i \in 1 .. Len(rx) : Accepted(rx[i]) => rx[i].seg.src \in Clients
AllFrom(c) == \A i \in 1 .. Len(rx) : Accepted(rx[i]) => rx[i].seg.src = c
SynLast ==
  \A i, j \in 1 .. Len(rx) :
    i < j /\ Accepted(rx[i]) /\ rx[i].seg.flags = {"SYN"} => ~Accepted(rx[j])
Addressed == \A i \in 1 .. Len(tx) : tx[i].dst \in Clients

Heard == [listen |-> 0, handshake |-> 1, request |-> 2, ack |-> 3, fin |-> 4]

SessionInv ==
  /\ Len(session) = Heard[pc]
  /\ \A i \in 1 .. Len(session) : session[i].src \in Clients /\ session[i].src = session[1].src
  /\ Len(session) >= 3 => session[3].len > 0

LineInv ==
  /\ Known /\ Addressed
  /\ pc # "listen" => AllFrom(session[1].src)
  /\ pc = "listen" => SynLast

ConversationInv ==
  /\ faults.loss = 0 /\ SessionInv /\ LineInv
  /\ \A c, d \in Active : c = d
  /\ \A c \in Clients : Stage(c)

Inv == TurnInv /\ ConversationInv

LEMMA InvFacts ==
  ASSUME Inv
  PROVE  /\ TypeInv /\ rx \in Seq(Frame) /\ tx \in Seq(Segment) /\ session \in Seq(Segment)
         /\ pc \in Waits /\ conn \in [Clients -> Connection]
         /\ \A c \in Clients :
              /\ conn[c] \in Connection /\ conn[c].st \in ClientStates
              /\ Outstanding(conn[c]) /\ Expected(c) /\ InTurn(c) /\ Stage(c)
              /\ c \in Active <=> conn[c].st \in {"synSent", "open", "closing"}
         /\ SessionInv /\ LineInv /\ faults.loss = 0
         /\ \A c, d \in Active : c = d
  BY DEF Inv, TurnInv, PageInv, TypeInv, TypeOK, ServerTypeOK, ClientsTypeOK,
         ConversationInv, Connection, Active

(* In a conversation the server's peer is the one active client.           *)
LEMMA Ongoing ==
  ASSUME Inv, pc # "listen"
  PROVE  /\ session # <<>> /\ session[1].src \in Clients /\ With(session[1].src)
         /\ session[1].src \in Active
         /\ \A c \in Clients : c # session[1].src => Away(c)
<1>1. session \in Seq(Segment) /\ pc \in Waits /\ Len(session) = Heard[pc]
  BY InvFacts DEF SessionInv
<1>2. Len(session) \in Nat \ {0}
  BY <1>1 DEF Heard, Waits
<1>3. session # <<>> /\ session[1].src \in Clients /\ With(session[1].src)
  BY <1>1, <1>2, InvFacts DEF SessionInv, With
<1>4. session[1].src \in Active
  BY <1>3, InvFacts DEF Stage, Away, ClientStates
<1>5. ASSUME NEW c \in Clients, c # session[1].src PROVE Away(c)
  <2>1. c \notin Active
    BY <1>4, <1>5, InvFacts
  <2> QED
    BY <2>1, InvFacts DEF Stage, ClientStates
<1> QED
  BY <1>3, <1>4, <1>5

(* Whoever is not the active client is away.                               *)
LEMMA OthersAway ==
  ASSUME Inv, NEW c \in Active, NEW d \in Clients, d # c
  PROVE  Away(d)
<1>1. d \notin Active
  BY InvFacts
<1> QED
  BY <1>1, InvFacts DEF Stage, ClientStates

(* Between conversations there is no session.                              *)
LEMMA NoSession ==
  ASSUME Inv, pc = "listen"
  PROVE  session = <<>> /\ \A c : ~With(c)
  BY InvFacts DEF SessionInv, Heard, With

(* A client that is away stays so.                                         *)
LEMMA AwayStays ==
  ASSUME NEW c, Stage(c), Away(c), conn[c].st \in {"closed", "halfClosed", "done"},
         conn'[c] = conn[c], RxThins(c), TxThins(c), ~With(c)'
  PROVE  Stage(c)'
<1>g. PICK g : \A i \in RxOf(c)' : g[i] \in RxOf(c) /\ rx[g[i]] = rx'[i]
  BY DEF RxThins
<1>h. PICK h : \A i \in TxOf(c)' : h[i] \in TxOf(c) /\ tx[h[i]] = tx'[i]
  BY DEF TxThins
<1>1. Away(c)'
  BY <1>g, <1>h DEF Away
<1> QED
  BY <1>1 DEF Stage

-----------------------------------------------------------------------------
(* What taking a frame or a segment off the line, or putting one on it,    *)
(* leaves.                                                                 *)
LEMMA TailRx ==
  ASSUME rx \in Seq(Frame), rx # <<>>, rx' = Tail(rx)
  PROVE  /\ Known => Known'
         /\ SynLast => SynLast'
         /\ \A c : AllFrom(c) => \A i \in 1 .. Len(rx') : Accepted(rx'[i]) => rx'[i].seg.src = c
         /\ \A c : \A i \in RxOf(c)' : i + 1 \in RxOf(c) /\ rx'[i] = rx[i + 1] /\ i + 1 # 1
         /\ \A c : \A i \in RxOf(c) : i # 1 => i - 1 \in RxOf(c)' /\ rx'[i - 1] = rx[i]
<1>1. /\ Len(rx) \in Nat \ {0} /\ Len(rx') = Len(rx) - 1
      /\ \A i \in 1 .. Len(rx') : rx'[i] = rx[i + 1]
  BY Taking
<1>2. \A i \in 1 .. Len(rx') : i + 1 \in 1 .. Len(rx) /\ i + 1 # 1
  BY <1>1
<1>3. Known => Known'
  BY <1>1, <1>2 DEF Known
<1>4. SynLast => SynLast'
  <2> SUFFICES ASSUME SynLast, NEW i \in 1 .. Len(rx'), NEW j \in 1 .. Len(rx'), i < j,
                      Accepted(rx'[i]), rx'[i].seg.flags = {"SYN"}
               PROVE  ~Accepted(rx'[j])
    BY DEF SynLast
  <2>1. i + 1 < j + 1
    OBVIOUS
  <2> QED
    BY <1>1, <1>2, <2>1 DEF SynLast
<1>5. ASSUME NEW c, AllFrom(c), NEW i \in 1 .. Len(rx'), Accepted(rx'[i])
      PROVE  rx'[i].seg.src = c
  BY <1>1, <1>2, <1>5 DEF AllFrom
<1>6. ASSUME NEW c, NEW i \in RxOf(c)'
      PROVE  i + 1 \in RxOf(c) /\ rx'[i] = rx[i + 1] /\ i + 1 # 1
  BY <1>1, <1>2, <1>6 DEF RxOf, From
<1>7. ASSUME NEW c, NEW i \in RxOf(c), i # 1
      PROVE  i - 1 \in RxOf(c)' /\ rx'[i - 1] = rx[i]
  <2>1. i - 1 \in 1 .. Len(rx') /\ (i - 1) + 1 = i
    BY <1>1, <1>7 DEF RxOf
  <2> QED
    BY <1>1, <1>7, <2>1 DEF RxOf, From
<1> QED
  BY <1>3, <1>4, <1>5, <1>6, <1>7

LEMMA MoreRx ==
  ASSUME rx \in Seq(Frame), NEW f, rx' = Append(rx, f)
  PROVE  /\ \A i \in 1 .. Len(rx') :
              (i \in 1 .. Len(rx) /\ rx'[i] = rx[i]) \/ (i = Len(rx) + 1 /\ rx'[i] = f)
         /\ \A i \in 1 .. Len(rx) : i \in 1 .. Len(rx') /\ rx'[i] = rx[i] /\ i < Len(rx) + 1
         /\ Len(rx) + 1 \in 1 .. Len(rx') /\ rx'[Len(rx) + 1] = f
<1>1. /\ Len(rx) \in Nat /\ Len(rx') = Len(rx) + 1
      /\ \A i \in 1 .. Len(rx) : rx'[i] = rx[i]
      /\ rx'[Len(rx) + 1] = f
  BY Appending
<1> QED
  BY <1>1

LEMMA MoreRxOf ==
  ASSUME rx \in Seq(Frame), NEW f, rx' = Append(rx, f), NEW c
  PROVE  /\ \A i \in RxOf(c)' :
              (i \in RxOf(c) /\ rx'[i] = rx[i]) \/ (i = Len(rx) + 1 /\ rx'[i] = f)
         /\ \A i \in RxOf(c) : i \in RxOf(c)' /\ rx'[i] = rx[i] /\ i < Len(rx) + 1
         /\ From(f, c) => Len(rx) + 1 \in RxOf(c)' /\ rx'[Len(rx) + 1] = f
         /\ ~From(f, c) => RxOf(c)' = RxOf(c)
<1>1. /\ Len(rx) \in Nat /\ Len(rx') = Len(rx) + 1
      /\ \A i \in 1 .. Len(rx) : rx'[i] = rx[i]
      /\ rx'[Len(rx) + 1] = f
  BY Appending
<1> QED
  BY <1>1 DEF RxOf, From

LEMMA MoreTx ==
  ASSUME tx \in Seq(Segment), NEW p, tx' = Append(tx, p), Addressed, p.dst \in Clients
  PROVE  /\ Addressed'
         /\ \A c : \A i \in TxOf(c)' :
              (i \in TxOf(c) /\ tx'[i] = tx[i]) \/ (i = Len(tx) + 1 /\ tx'[i] = p)
         /\ \A c : \A i \in TxOf(c) : i < Len(tx) + 1
         /\ Len(tx) + 1 \in TxOf(p.dst)' /\ tx'[Len(tx) + 1] = p
<1>1. /\ Len(tx) \in Nat /\ Len(tx') = Len(tx) + 1
      /\ \A i \in 1 .. Len(tx) : tx'[i] = tx[i]
      /\ tx'[Len(tx) + 1] = p
  BY Appending
<1>2. Addressed'
  BY <1>1 DEF Addressed
<1> QED
  BY <1>1, <1>2 DEF TxOf

LEMMA TailTx ==
  ASSUME tx \in Seq(Segment), tx # <<>>, tx' = Tail(tx), Addressed
  PROVE  /\ Addressed'
         /\ \A c : \A i \in TxOf(c)' : i + 1 \in TxOf(c) /\ tx'[i] = tx[i + 1] /\ i + 1 # 1
         /\ \A c : \A i \in TxOf(c) : i # 1 => i - 1 \in TxOf(c)' /\ tx'[i - 1] = tx[i]
<1>1. /\ Len(tx) \in Nat \ {0} /\ Len(tx') = Len(tx) - 1
      /\ \A i \in 1 .. Len(tx') : tx'[i] = tx[i + 1]
  BY Taking
<1>2. \A i \in 1 .. Len(tx') : i + 1 \in 1 .. Len(tx) /\ i + 1 # 1
  BY <1>1
<1>3. Addressed'
  BY <1>1, <1>2 DEF Addressed
<1>4. ASSUME NEW c, NEW i \in TxOf(c)'
      PROVE  i + 1 \in TxOf(c) /\ tx'[i] = tx[i + 1] /\ i + 1 # 1
  BY <1>1, <1>2, <1>4 DEF TxOf
<1>5. ASSUME NEW c, NEW i \in TxOf(c), i # 1
      PROVE  i - 1 \in TxOf(c)' /\ tx'[i - 1] = tx[i]
  <2>1. i - 1 \in 1 .. Len(tx') /\ (i - 1) + 1 = i
    BY <1>1, <1>5 DEF TxOf
  <2> QED
    BY <1>1, <1>5, <2>1 DEF TxOf
<1> QED
  BY <1>3, <1>4, <1>5

-----------------------------------------------------------------------------
LEMMA FlagsDiffer ==
  /\ {"ACK"} # {"SYN"} /\ {"PSH", "ACK"} # {"SYN"} /\ {"FIN", "ACK"} # {"SYN"}
  /\ {"FIN"} # {"SYN"} /\ {"SYN", "ACK"} # {"SYN"}
  /\ "FIN" \notin {"ACK"} /\ "FIN" \notin {"PSH", "ACK"} /\ "FIN" \notin {"SYN"}
  /\ "ACK" \notin {"FIN"} /\ "SYN" \notin {"FIN"} /\ "SYN" \notin {"ACK"}
  OBVIOUS

(* Whoever is away when another is active stays so.                        *)
LEMMA OthersStay ==
  ASSUME Inv, NEW c \in Active, NEW d \in Clients, d # c, conn'[d] = conn[d],
         RxThins(d), TxThins(d), ~With(d)'
  PROVE  Stage(d)'
<1>1. d \notin Active
  BY InvFacts
<1>2. Away(d) /\ Stage(d) /\ conn[d].st \in {"closed", "halfClosed", "done"}
  BY <1>1, InvFacts DEF Stage, ClientStates
<1> QED
  BY <1>2, AwayStays

(* The conversation goes on with one packet more of the same client.       *)
LEMMA SessionMore ==
  ASSUME Inv, pc # "listen", NEW p \in Segment, p.src = session[1].src,
         session' = Append(session, p), pc' \in Waits, Heard[pc'] = Heard[pc] + 1,
         pc = "request" => p.len > 0
  PROVE  SessionInv' /\ session' # <<>> /\ session'[1] = session[1]
<1>1. /\ session \in Seq(Segment) /\ pc \in Waits /\ Len(session) = Heard[pc]
      /\ \A i \in 1 .. Len(session) : session[i].src \in Clients /\ session[i].src = session[1].src
      /\ Len(session) >= 3 => session[3].len > 0
      /\ session[1].src \in Clients
  BY InvFacts, Ongoing DEF SessionInv
<1>2. /\ Len(session) \in Nat /\ Len(session') = Len(session) + 1
      /\ \A i \in 1 .. Len(session) : session'[i] = session[i]
      /\ session'[Len(session) + 1] = p
  BY <1>1, Appending
<1>3. Len(session) # 0 /\ (Len(session) = 2 => pc = "request")
  BY <1>1 DEF Heard, Waits
<1>4. session'[1] = session[1] /\ session' # <<>>
  BY <1>2, <1>3
<1>5. \A i \in 1 .. Len(session') : i \in 1 .. Len(session) \/ i = Len(session) + 1
  BY <1>2
<1>6. \A i \in 1 .. Len(session') :
        session'[i].src \in Clients /\ session'[i].src = session'[1].src
  BY <1>1, <1>2, <1>4, <1>5
<1>7. ASSUME Len(session') >= 3 PROVE session'[3].len > 0
  <2>1. CASE Len(session) >= 3
    BY <1>1, <1>2, <2>1
  <2>2. CASE Len(session) = 2
    BY <1>2, <1>3, <2>2
  <2>3. Len(session) >= 3 \/ Len(session) = 2
    <3>1. PICK n \in Nat : n = Len(session)
      BY <1>2
    <3>2. n + 1 >= 3
      BY <1>2, <1>7, <3>1
    <3>3. n >= 3 \/ n = 2
      BY ONLY <3>2, n \in Nat
    <3> QED
      BY <3>1, <3>3
  <2> QED
    BY <2>1, <2>2, <2>3
<1> QED
  BY <1>1, <1>2, <1>4, <1>6, <1>7 DEF SessionInv

(* A frame the server drops or skips.                                      *)
LEMMA SkipKeeps ==
  ASSUME Inv, rx # <<>>, rx' = Tail(rx), UNCHANGED <<tx, pc, session, conn, faults>>,
         Accepted(Head(rx)) => pc # "handshake"
  PROVE  ConversationInv'
<1>0. /\ rx \in Seq(Frame) /\ SessionInv /\ LineInv /\ faults.loss = 0
      /\ \A c \in Clients : Stage(c)
  BY InvFacts
<1>1. /\ Known => Known'
      /\ SynLast => SynLast'
      /\ \A c : AllFrom(c) => \A i \in 1 .. Len(rx') : Accepted(rx'[i]) => rx'[i].seg.src = c
      /\ \A c : \A i \in RxOf(c)' : i + 1 \in RxOf(c) /\ rx'[i] = rx[i + 1] /\ i + 1 # 1
      /\ \A c : \A i \in RxOf(c) : i # 1 => i - 1 \in RxOf(c)' /\ rx'[i - 1] = rx[i]
  BY <1>0, TailRx
<1>2. LineInv'
  BY <1>0, <1>1 DEF LineInv, AllFrom, Addressed
<1>3. ASSUME NEW c \in Clients PROVE Stage(c)'
  <2>0. /\ Stage(c) /\ TxOf(c)' = TxOf(c) /\ conn'[c] = conn[c] /\ With(c)' = With(c)
        /\ tx' = tx /\ pc' = pc
    BY <1>0 DEF TxOf, With
  <2>r. /\ \A i \in RxOf(c)' : i + 1 \in RxOf(c) /\ rx'[i] = rx[i + 1]
        /\ \A i \in RxOf(c) : i # 1 => i - 1 \in RxOf(c)' /\ rx'[i - 1] = rx[i]
    BY <1>1
  <2>1. Connecting(c) => Connecting(c)'
    <3>1. RxOf(c) = {} => RxOf(c)' = {}
      BY <2>r
    <3> QED
      BY <2>0, <2>r, <3>1 DEF Connecting
  <2>2. Talking(c) => Talking(c)'
    <3>1. ASSUME pc = "handshake", BareAckFirst(c) PROVE BareAckFirst(c)'
      <4>1. PICK k \in RxOf(c) :
              /\ rx[k].seg.flags = {"ACK"}
              /\ \A i \in RxOf(c) : i # k => k < i /\ rx[i].seg.len > 0
        BY <3>1 DEF BareAckFirst
      <4>2. k # 1
        <5>1. Head(rx) = rx[1]
          BY <1>0
        <5>2. Accepted(rx[k])
          BY DEF RxOf, From
        <5> QED
          BY <3>1, <5>1, <5>2
      <4>3. k - 1 \in RxOf(c)' /\ rx'[k - 1] = rx[k]
        BY <1>1, <4>2
      <4>4. ASSUME NEW i \in RxOf(c)', i # k - 1 PROVE k - 1 < i /\ rx'[i].seg.len > 0
        <5>1. i + 1 \in RxOf(c) /\ rx'[i] = rx[i + 1] /\ i \in Int /\ k \in Int
          BY <2>r DEF RxOf
        <5>2. i + 1 # k
          BY <4>4, <5>1
        <5>3. k < i + 1 /\ rx[i + 1].seg.len > 0
          BY <4>1, <5>1, <5>2
        <5>4. k - 1 < i
          BY ONLY <5>1, <5>3
        <5> QED
          BY <5>1, <5>3, <5>4
      <4> QED
        BY <4>1, <4>3, <4>4 DEF BareAckFirst
    <3>2. PageOrFin(c) => PageOrFin(c)'
      BY <2>0 DEF PageOrFin
    <3> QED
      BY <2>0, <2>r, <3>1, <3>2 DEF Talking
  <2>3. Leaving(c) => Leaving(c)'
    <3>1. FinalAck(c) => FinalAck(c)'
      BY <2>0 DEF FinalAck
    <3>2. Closes(c) => Closes(c)'
      <4> SUFFICES ASSUME Closes(c), NEW i \in RxOf(c)'
                   PROVE  /\ rx'[i].seg.flags \in {{"ACK"}, {"PSH", "ACK"}, {"FIN", "ACK"}}
                          /\ "FIN" \in rx'[i].seg.flags =>
                               rx'[i].seg.len = 0 /\ Plus(rx'[i].seg.seq, 1) = conn'[c].nxt
        BY DEF Closes
      <4>1. i + 1 \in RxOf(c) /\ rx'[i] = rx[i + 1]
        BY <2>r
      <4> QED
        BY <2>0, <4>1 DEF Closes
    <3> QED
      BY <2>0, <3>1, <3>2 DEF Leaving
  <2>4. Away(c) => Away(c)'
    BY <2>0, <2>r DEF Away
  <2> QED
    BY <2>0, <2>1, <2>2, <2>3, <2>4 DEF Stage
<1>4. SessionInv'
  BY <1>0 DEF SessionInv
<1>5. Active' = Active /\ \A c, d \in Active : c = d
  BY InvFacts DEF Active
<1> QED
  BY <1>0, <1>2, <1>3, <1>4, <1>5 DEF ConversationInv

(* The answer the server sends.                                            *)
LEMMA Answered ==
  ASSUME Inv, rx # <<>>, NEW flags \in SUBSET Flag, NEW len \in {0, PageLen},
         SendAnswer(flags, len)
  PROVE  \E p \in Segment :
           /\ tx' = Append(tx, p) /\ p.dst = Packet.src /\ p.flags = flags /\ p.len = len
           /\ p.ack = Plus(Packet.seq, AckAdvance(Packet))
<1>1. rx \in Seq(Frame) /\ Packet \in Segment
  BY InvFacts, PacketType
<1> DEFINE p == buildRawTcpIpPacket(Packet, flags, len)
<1>2. p \in Segment
  BY <1>1, AnswerType, SegmentAssumption
<1>3. /\ tx' = Append(tx, p) /\ p.dst = Packet.src /\ p.flags = flags /\ p.len = len
      /\ p.ack = Plus(Packet.seq, AckAdvance(Packet))
  BY DEF SendAnswer, buildRawTcpIpPacket
<1> HIDE DEF p
<1> QED
  BY <1>2, <1>3

(* What the server takes is known to come from a client; in a conversation *)
(* from the one it is with.                                                *)
LEMMA Received ==
  ASSUME Inv, rx # <<>>, Accepted(Head(rx))
  PROVE  /\ Packet \in Segment /\ Packet.src \in Clients
         /\ 1 \in RxOf(Packet.src) /\ rx[1].seg = Packet /\ Accepted(rx[1])
         /\ pc # "listen" => Packet.src = session[1].src
<1>1. rx \in Seq(Frame) /\ Packet \in Segment /\ LineInv
  BY InvFacts, PacketType
<1>2. Head(rx) = rx[1] /\ 1 \in 1 .. Len(rx)
  BY <1>1, Taking
<1>3. rx[1].seg = Packet /\ Accepted(rx[1])
  BY <1>2 DEF Packet
<1>4. Packet.src \in Clients /\ (pc # "listen" => Packet.src = session[1].src)
  BY <1>1, <1>2, <1>3 DEF LineInv, Known, AllFrom
<1> QED
  BY <1>1, <1>2, <1>3, <1>4 DEF RxOf, From

(* The frames that are left after the first.                               *)
LEMMA Rest ==
  ASSUME Inv, rx # <<>>, rx' = Tail(rx)
  PROVE  /\ Known' /\ (pc = "listen" => SynLast')
         /\ pc # "listen" =>
              \A i \in 1 .. Len(rx') : Accepted(rx'[i]) => rx'[i].seg.src = session[1].src
         /\ \A c : \A i \in RxOf(c)' : i + 1 \in RxOf(c) /\ rx'[i] = rx[i + 1] /\ i + 1 # 1
         /\ \A c : RxThins(c)
<1>1. rx \in Seq(Frame) /\ LineInv
  BY InvFacts
<1>2. \A c : RxThins(c)
  BY <1>1, RxTail
<1> QED
  BY <1>1, <1>2, TailRx DEF LineInv

(* threeWayHandshake answers a SYN: its sender is connecting, and nothing  *)
(* else is left on the line.                                               *)
LEMMA AnswerSynKeeps ==
  ASSUME Inv, AnswerSyn, UNCHANGED <<conn, faults>>
  PROVE  ConversationInv'
<1>0. /\ rx \in Seq(Frame) /\ tx \in Seq(Segment) /\ faults.loss = 0 /\ LineInv
      /\ pc = "listen" /\ rx # <<>> /\ Accepted(Head(rx)) /\ rx' = Tail(rx)
      /\ Packet.flags = {"SYN"} /\ SendAnswer({"SYN", "ACK"}, 0)
      /\ pc' = "handshake" /\ session' = <<Packet>> /\ conn' = conn /\ faults' = faults
  BY InvFacts DEF AnswerSyn, NextTcpIpPacket
<1>1. PICK c \in Clients :
        /\ Packet \in Segment /\ c = Packet.src
        /\ 1 \in RxOf(c) /\ rx[1].seg = Packet /\ Accepted(rx[1])
  BY <1>0, Received
<1>2. /\ Stage(c) /\ conn[c].st \in ClientStates
      /\ c \in Active <=> conn[c].st \in {"synSent", "open", "closing"}
  BY <1>1, InvFacts
<1>3. conn[c].st = "synSent"
  <2>1. conn[c].st # "open"
    BY <1>0, <1>2, NoSession DEF Stage, Talking
  <2>2. conn[c].st # "closing"
    BY <1>0, <1>1, <1>2, FlagsDiffer DEF Stage, Leaving, Closes
  <2>3. conn[c].st \notin {"closed", "halfClosed", "done"}
    BY <1>0, <1>1, <1>2 DEF Stage, Away
  <2> QED
    BY <1>2, <2>1, <2>2, <2>3 DEF ClientStates
<1>4. /\ Plus(conn[c].una, 1) = conn[c].nxt /\ TxOf(c) = {}
      /\ Packet.len = 0 /\ Plus(Packet.seq, 1) = conn[c].nxt
  BY <1>0, <1>1, <1>2, <1>3 DEF Stage, Connecting
<1>5. PICK p \in Segment :
        /\ tx' = Append(tx, p) /\ p.dst = c /\ p.flags = {"SYN", "ACK"} /\ p.len = 0
        /\ p.ack = Plus(Packet.seq, AckAdvance(Packet))
  <2>1. {"SYN", "ACK"} \in SUBSET Flag
    BY DEF Flag
  <2> QED
    BY <1>0, <1>1, <2>1, Answered
<1>6. p.ack = conn[c].nxt
  BY <1>4, <1>5 DEF AckAdvance
<1>7. /\ Known' /\ \A d : RxThins(d)
  BY <1>0, Rest
<1>8. \A i \in 1 .. Len(rx') : ~Accepted(rx'[i])
  <2> SUFFICES ASSUME NEW i \in 1 .. Len(rx') PROVE ~Accepted(rx'[i])
    OBVIOUS
  <2>1. /\ Len(rx) \in Nat \ {0} /\ Len(rx') = Len(rx) - 1 /\ rx'[i] = rx[i + 1]
    BY <1>0, Taking
  <2>2. 1 \in 1 .. Len(rx) /\ i + 1 \in 1 .. Len(rx) /\ 1 < i + 1
    BY <2>1
  <2>3. SynLast
    BY <1>0 DEF LineInv
  <2> QED
    BY <1>0, <1>1, <2>1, <2>2, <2>3 DEF SynLast
<1>9. \A d : RxOf(d)' = {}
  BY <1>8 DEF RxOf, From
<1>10. /\ Addressed' /\ \A i \in TxOf(c)' : tx'[i] = p
       /\ Len(tx) + 1 \in TxOf(c)'
  <2>1. Addressed
    BY <1>0 DEF LineInv
  <2> QED
    BY <1>0, <1>1, <1>4, <1>5, <2>1, MoreTx
<1>11. /\ With(c)' /\ session'[1].src = c /\ Len(session') = 1 /\ session' # <<>>
  BY <1>0, <1>1 DEF With
<1>12. Stage(c)'
  <2>1. Connecting(c)'
    BY <1>0, <1>4, <1>5, <1>6, <1>9, <1>10, <1>11 DEF Connecting
  <2> QED
    BY <1>0, <1>2, <1>3, <2>1 DEF Stage
<1>13. ASSUME NEW d \in Clients, d # c PROVE Stage(d)'
  <2>1. c \in Active
    BY <1>2, <1>3
  <2>2. ~With(d)' /\ TxThins(d)
    BY <1>0, <1>5, <1>11, <1>13, TxOther DEF With
  <2> QED
    BY <1>0, <1>7, <1>13, <2>1, <2>2, OthersStay
<1>14. SessionInv'
  <2>1. Heard["handshake"] = 1
    BY DEF Heard
  <2>2. \A i \in 1 .. Len(session') : i = 1
    BY <1>11
  <2> QED
    BY <1>0, <1>1, <1>11, <2>1, <2>2 DEF SessionInv
<1>15. LineInv'
  BY <1>0, <1>7, <1>8, <1>10 DEF LineInv, AllFrom
<1>16. Active' = Active /\ \A d, e \in Active : d = e
  BY <1>0, InvFacts DEF Active
<1> QED
  BY <1>0, <1>12, <1>13, <1>14, <1>15, <1>16 DEF ConversationInv

(* Everything of a step in a conversation but the stage of its client.     *)
LEMMA GoesOn ==
  ASSUME Inv, pc # "listen", pc' # "listen", rx # <<>>, rx' = Tail(rx),
         UNCHANGED <<conn, faults>>, SessionInv', session' # <<>>, session'[1] = session[1],
         Addressed', tx' = tx \/ \E p \in Segment : tx' = Append(tx, p) /\ p.dst = session[1].src,
         NEW c \in Clients, c = session[1].src, Stage(c)'
  PROVE  ConversationInv'
<1>0. /\ tx \in Seq(Segment) /\ faults.loss = 0 /\ c \in Active
      /\ \A d, e \in Active : d = e
  BY InvFacts, Ongoing
<1>1. /\ Known' /\ \A d : RxThins(d)
      /\ \A i \in 1 .. Len(rx') : Accepted(rx'[i]) => rx'[i].seg.src = c
  BY Rest
<1>2. LineInv'
  BY <1>1 DEF LineInv, AllFrom
<1>3. ASSUME NEW d \in Clients, d # c PROVE Stage(d)'
  <2>1. ~With(d)'
    BY <1>3 DEF With
  <2>2. TxThins(d)
    BY <1>0, <1>3, TxSame, TxOther
  <2> QED
    BY <1>0, <1>1, <1>3, <2>1, <2>2, OthersStay
<1>4. Active' = Active
  BY DEF Active
<1> QED
  BY <1>0, <1>2, <1>3, <1>4 DEF ConversationInv

(* The handshake is completed, never abandoned.                            *)
LEMMA HandshakeKeeps ==
  ASSUME Inv, CompleteHandshake \/ AbandonHandshake, UNCHANGED <<conn, faults>>
  PROVE  ConversationInv'
<1>0. /\ rx \in Seq(Frame) /\ LineInv
      /\ pc = "handshake" /\ rx # <<>> /\ Accepted(Head(rx)) /\ rx' = Tail(rx)
      /\ tx' = tx /\ conn' = conn /\ faults' = faults
  BY InvFacts DEF CompleteHandshake, AbandonHandshake, NextTcpIpPacket
<1>1. PICK c \in Clients :
        /\ Packet \in Segment /\ c = Packet.src /\ c = session[1].src
        /\ 1 \in RxOf(c) /\ rx[1].seg = Packet /\ Accepted(rx[1])
  BY <1>0, Received
<1>2. Stage(c) /\ conn[c].st \in {"synSent", "open", "closing"} /\ With(c)
  BY <1>0, <1>1, InvFacts, Ongoing
<1>3. conn[c].st = "open"
  BY <1>0, <1>1, <1>2 DEF Stage, Connecting, Leaving
<1>4. /\ conn[c].got = 0 /\ TxOf(c) = {} /\ BareAckFirst(c)
      /\ \A i \in RxOf(c) : rx[i].seg.flags \in {{"ACK"}, {"PSH", "ACK"}}
  BY <1>0, <1>2, <1>3 DEF Stage, Talking
<1>5. /\ \A i \in RxOf(c)' : i + 1 \in RxOf(c) /\ rx'[i] = rx[i + 1] /\ i + 1 # 1
  BY <1>0, Rest
<1>6. /\ Packet.flags = {"ACK"}
      /\ \A i \in RxOf(c) : i # 1 => rx[i].seg.len > 0
  <2>1. PICK k \in RxOf(c) :
          /\ rx[k].seg.flags = {"ACK"}
          /\ \A i \in RxOf(c) : i # k => k < i /\ rx[i].seg.len > 0
    BY <1>4 DEF BareAckFirst
  <2>2. k \in 1 .. Len(rx)
    BY DEF RxOf
  <2>3. k = 1
    BY <1>1, <2>1, <2>2
  <2> QED
    BY <1>1, <2>1, <2>3
<1>7. CompleteHandshake /\ pc' = "request" /\ session' = Append(session, Packet)
  BY <1>6 DEF CompleteHandshake, AbandonHandshake
<1>8. SessionInv' /\ session' # <<>> /\ session'[1] = session[1]
  <2>1. pc' \in Waits /\ Heard[pc'] = Heard[pc] + 1
    BY <1>0, <1>7 DEF Waits, Heard
  <2> QED
    BY <1>0, <1>1, <1>7, <2>1, SessionMore
<1>9. Stage(c)'
  <2>1. With(c)' /\ TxOf(c)' = {}
    BY <1>0, <1>1, <1>4, <1>8 DEF With, TxOf
  <2>2. \A i \in RxOf(c)' :
          rx'[i].seg.len > 0 /\ rx'[i].seg.flags \in {{"ACK"}, {"PSH", "ACK"}}
    BY <1>4, <1>5, <1>6
  <2>3. Talking(c)'
    BY <1>0, <1>4, <1>7, <2>1, <2>2 DEF Talking
  <2> QED
    BY <1>0, <1>2, <1>3, <2>3 DEF Stage
<1>10. Addressed'
  BY <1>0 DEF LineInv, Addressed
<1> QED
  BY <1>0, <1>1, <1>7, <1>8, <1>9, <1>10, GoesOn

(* What comes for the request is of the request, and is acknowledged.      *)
LEMMA ServeKeeps ==
  ASSUME Inv, ServeRequest, UNCHANGED <<conn, faults>>
  PROVE  ConversationInv'
<1>0. /\ rx \in Seq(Frame) /\ tx \in Seq(Segment) /\ LineInv
      /\ pc = "request" /\ rx # <<>> /\ Accepted(Head(rx)) /\ rx' = Tail(rx)
      /\ SendAnswer({"ACK"}, PageLen) /\ pc' = "ack" /\ session' = Append(session, Packet)
      /\ conn' = conn /\ faults' = faults
  BY InvFacts DEF ServeRequest, NextTcpIpPacket
<1>1. PICK c \in Clients :
        /\ Packet \in Segment /\ c = Packet.src /\ c = session[1].src
        /\ 1 \in RxOf(c) /\ rx[1].seg = Packet /\ Accepted(rx[1])
  BY <1>0, Received
<1>2. /\ Stage(c) /\ conn[c].st \in {"synSent", "open", "closing"} /\ With(c)
      /\ Expected(c) /\ InTurn(c)
  BY <1>0, <1>1, InvFacts, Ongoing
<1>3. conn[c].st = "open"
  BY <1>0, <1>1, <1>2 DEF Stage, Connecting, Leaving
<1>4. /\ conn[c].got = 0 /\ TxOf(c) = {} /\ Packet.len > 0
      /\ \A i \in RxOf(c) : rx[i].seg.flags \in {{"ACK"}, {"PSH", "ACK"}}
  BY <1>0, <1>1, <1>2, <1>3 DEF Stage, Talking
<1>5. conn[c].asked
  <2> SUFFICES ASSUME ~conn[c].asked PROVE FALSE
    OBVIOUS
  <2>1. Packet.len = 0
    BY <1>1, <1>2, <1>3 DEF Expected, Idle
  <2> QED
    BY <1>4, <2>1
<1>6. Plus(Packet.seq, Packet.len) = conn[c].nxt
  <2>1. SentInTurn(conn[c], Packet)
    BY <1>1, <1>2, <1>3, <1>5 DEF InTurn, Served
  <2>2. Packet.len # 0
    BY <1>4
  <2> QED
    BY <2>1, <2>2 DEF SentInTurn
<1>7. PICK p \in Segment :
        /\ tx' = Append(tx, p) /\ p.dst = c /\ p.flags = {"ACK"} /\ p.len = PageLen
        /\ p.ack = Plus(Packet.seq, AckAdvance(Packet))
  <2>1. {"ACK"} \in SUBSET Flag
    BY DEF Flag
  <2> QED
    BY <1>0, <1>1, <2>1, Answered
<1>8. p.ack = conn[c].nxt /\ p.len > 0
  <2>1. Packet.len # 0
    BY <1>4
  <2> QED
    BY <1>6, <1>7, <2>1, Constants DEF AckAdvance
<1>9. /\ Addressed' /\ \A i \in TxOf(c)' : i = Len(tx) + 1 /\ tx'[i] = p
  <2>1. Addressed
    BY <1>0 DEF LineInv
  <2> QED
    BY <1>0, <1>1, <1>4, <1>7, <2>1, MoreTx
<1>10. SessionInv' /\ session' # <<>> /\ session'[1] = session[1]
  <2>1. pc' \in Waits /\ Heard[pc'] = Heard[pc] + 1
    BY <1>0 DEF Waits, Heard
  <2> QED
    BY <1>0, <1>1, <1>4, <2>1, SessionMore
<1>11. Stage(c)'
  <2>1. With(c)' /\ PageOrFin(c)'
    BY <1>0, <1>1, <1>4, <1>7, <1>8, <1>9, <1>10 DEF With, PageOrFin
  <2>2. \A i \in RxOf(c)' : rx'[i].seg.flags \in {{"ACK"}, {"PSH", "ACK"}}
    <3>1. \A i \in RxOf(c)' : i + 1 \in RxOf(c) /\ rx'[i] = rx[i + 1]
      BY <1>0, Rest
    <3> QED
      BY <1>4, <3>1
  <2>3. Talking(c)'
    BY <1>0, <1>5, <2>1, <2>2 DEF Talking
  <2> QED
    BY <1>0, <1>2, <1>3, <2>3 DEF Stage
<1> QED
  BY <1>0, <1>1, <1>7, <1>9, <1>10, <1>11, GoesOn

(* Whatever comes for the acknowledgement of the page has a FIN follow it. *)
LEMMA StartCloseKeeps ==
  ASSUME Inv, StartClose, UNCHANGED <<conn, faults>>
  PROVE  ConversationInv'
<1>0. /\ rx \in Seq(Frame) /\ tx \in Seq(Segment) /\ LineInv
      /\ pc = "ack" /\ rx # <<>> /\ Accepted(Head(rx)) /\ rx' = Tail(rx)
      /\ SendAnswer({"FIN"}, 0) /\ pc' = "fin" /\ session' = Append(session, Packet)
      /\ conn' = conn /\ faults' = faults
  BY InvFacts DEF StartClose, NextTcpIpPacket
<1>1. PICK c \in Clients :
        /\ Packet \in Segment /\ c = Packet.src /\ c = session[1].src
        /\ 1 \in RxOf(c) /\ rx[1].seg = Packet /\ Accepted(rx[1])
  BY <1>0, Received
<1>2. Stage(c) /\ conn[c].st \in {"synSent", "open", "closing"} /\ With(c)
  BY <1>0, <1>1, InvFacts, Ongoing
<1>3. conn[c].st # "synSent"
  BY <1>0, <1>2 DEF Stage, Connecting
<1>4. PICK p \in Segment :
        /\ tx' = Append(tx, p) /\ p.dst = c /\ p.flags = {"FIN"} /\ p.len = 0
  <2>1. {"FIN"} \in SUBSET Flag
    BY DEF Flag
  <2> QED
    BY <1>0, <1>1, <2>1, Answered
<1>5. /\ Addressed'
      /\ \A i \in TxOf(c)' : (i \in TxOf(c) /\ tx'[i] = tx[i]) \/ (i = Len(tx) + 1 /\ tx'[i] = p)
  <2>1. Addressed /\ p.dst \in Clients
    BY <1>0, <1>1, <1>4 DEF LineInv
  <2>2. Addressed'
    BY <1>0, <1>4, <2>1, MoreTx
  <2> QED
    BY <1>0, <1>4, <2>2, TxAppended
<1>6. SessionInv' /\ session' # <<>> /\ session'[1] = session[1]
  <2>1. pc' \in Waits /\ Heard[pc'] = Heard[pc] + 1
    BY <1>0 DEF Waits, Heard
  <2> QED
    BY <1>0, <1>1, <2>1, SessionMore
<1>7. \A i \in RxOf(c)' : i + 1 \in RxOf(c) /\ rx'[i] = rx[i + 1]
  BY <1>0, Rest
<1>8. With(c)'
  BY <1>1, <1>6 DEF With
<1>9. CASE conn[c].st = "open"
  <2>1. /\ conn[c].asked /\ PageOrFin(c)
        /\ \A i \in RxOf(c) : rx[i].seg.flags \in {{"ACK"}, {"PSH", "ACK"}}
    BY <1>0, <1>2, <1>9 DEF Stage, Talking
  <2>2. ~(p.len > 0)
    BY <1>4
  <2>3. PageOrFin(c)'
    <3>1. \A i \in TxOf(c)' :
            \/ tx'[i].flags = {"FIN"} /\ tx'[i].len = 0
            \/ /\ tx'[i].flags = {"ACK"} /\ tx'[i].len > 0
               /\ tx'[i].ack = conn'[c].nxt /\ conn'[c].got = 0
      <4> SUFFICES ASSUME NEW i \in TxOf(c)', tx'[i] # p
                   PROVE  \/ tx'[i].flags = {"FIN"} /\ tx'[i].len = 0
                          \/ /\ tx'[i].flags = {"ACK"} /\ tx'[i].len > 0
                             /\ tx'[i].ack = conn'[c].nxt /\ conn'[c].got = 0
        BY <1>4
      <4>1. i \in TxOf(c) /\ tx'[i] = tx[i]
        BY <1>5
      <4> QED
        BY <1>0, <2>1, <4>1 DEF PageOrFin
    <3>2. \A i, j \in TxOf(c)' : tx'[i].len > 0 /\ tx'[j].len > 0 => i = j
      BY <1>5, <2>1, <2>2 DEF PageOrFin
    <3> QED
      BY <3>1, <3>2 DEF PageOrFin
  <2>4. \A i \in RxOf(c)' : rx'[i].seg.flags \in {{"ACK"}, {"PSH", "ACK"}}
    BY <1>7, <2>1
  <2>5. Talking(c)'
    BY <1>0, <1>8, <2>1, <2>3, <2>4 DEF Talking
  <2>6. Stage(c)'
    BY <1>0, <1>2, <1>9, <2>5 DEF Stage
  <2> QED
    BY <1>0, <1>1, <1>4, <1>5, <1>6, <2>6, GoesOn
<1>10. CASE conn[c].st = "closing"
  <2>1. /\ conn[c].got = PageLen /\ Closes(c)
        /\ \A i \in TxOf(c) : tx[i].flags = {"FIN"}
    BY <1>0, <1>2, <1>10 DEF Stage, Leaving
  <2>2. Closes(c)'
    <3> SUFFICES ASSUME NEW i \in RxOf(c)'
                 PROVE  /\ rx'[i].seg.flags \in {{"ACK"}, {"PSH", "ACK"}, {"FIN", "ACK"}}
                        /\ "FIN" \in rx'[i].seg.flags =>
                             rx'[i].seg.len = 0 /\ Plus(rx'[i].seg.seq, 1) = conn'[c].nxt
      BY DEF Closes
    <3>1. i + 1 \in RxOf(c) /\ rx'[i] = rx[i + 1]
      BY <1>7
    <3> QED
      BY <1>0, <2>1, <3>1 DEF Closes
  <2>3. \A i \in TxOf(c)' : tx'[i].flags = {"FIN"}
    BY <1>4, <1>5, <2>1
  <2>4. Leaving(c)'
    BY <1>0, <1>8, <2>1, <2>2, <2>3 DEF Leaving
  <2>5. Stage(c)'
    BY <1>0, <1>2, <1>10, <2>4 DEF Stage
  <2> QED
    BY <1>0, <1>1, <1>4, <1>5, <1>6, <2>5, GoesOn
<1> QED
  BY <1>2, <1>3, <1>9, <1>10

(* The FIN of the client gets the acknowledgement it waits for.            *)
LEMMA FinishKeeps ==
  ASSUME Inv, FinishClose, UNCHANGED <<conn, faults>>
  PROVE  ConversationInv'
<1>0. /\ rx \in Seq(Frame) /\ tx \in Seq(Segment) /\ LineInv /\ faults.loss = 0
      /\ pc = "fin" /\ rx # <<>> /\ Accepted(Head(rx)) /\ rx' = Tail(rx)
      /\ "FIN" \in Packet.flags
      /\ SendAnswer({"ACK"}, 0) /\ pc' = "listen" /\ session' = <<>>
      /\ conn' = conn /\ faults' = faults
  BY InvFacts DEF FinishClose, NextTcpIpPacket
<1>1. PICK c \in Clients :
        /\ Packet \in Segment /\ c = Packet.src /\ c = session[1].src
        /\ 1 \in RxOf(c) /\ rx[1].seg = Packet /\ Accepted(rx[1])
  BY <1>0, Received
<1>2. /\ Stage(c) /\ conn[c].st \in {"synSent", "open", "closing"} /\ With(c)
      /\ c \in Active
  BY <1>0, <1>1, InvFacts, Ongoing
<1>3. conn[c].st = "closing"
  <2>1. conn[c].st # "synSent"
    BY <1>0, <1>2 DEF Stage, Connecting
  <2>2. conn[c].st # "open"
    BY <1>0, <1>1, <1>2, FlagsDiffer DEF Stage, Talking
  <2> QED
    BY <1>2, <2>1, <2>2
<1>4. /\ conn[c].got = PageLen /\ Closes(c)
      /\ \A i \in TxOf(c) : tx[i].flags = {"FIN"}
      /\ Packet.len = 0 /\ Plus(Packet.seq, 1) = conn[c].nxt
  BY <1>0, <1>1, <1>2, <1>3 DEF Stage, Leaving, Closes
<1>5. PICK p \in Segment :
        /\ tx' = Append(tx, p) /\ p.dst = c /\ p.flags = {"ACK"} /\ p.len = 0
        /\ p.ack = Plus(Packet.seq, AckAdvance(Packet))
  <2>1. {"ACK"} \in SUBSET Flag
    BY DEF Flag
  <2> QED
    BY <1>0, <1>1, <2>1, Answered
<1>6. p.ack = conn[c].nxt
  BY <1>4, <1>5 DEF AckAdvance
<1>7. /\ Addressed'
      /\ \A i \in TxOf(c)' : (i \in TxOf(c) /\ tx'[i] = tx[i]) \/ i = Len(tx) + 1
      /\ \A i \in TxOf(c) : i < Len(tx) + 1
      /\ Len(tx) + 1 \in TxOf(c)' /\ tx'[Len(tx) + 1] = p
  <2>1. Addressed
    BY <1>0 DEF LineInv
  <2> QED
    BY <1>0, <1>1, <1>5, <2>1, MoreTx
<1>8. /\ Known' /\ \A d : RxThins(d)
      /\ \A i \in 1 .. Len(rx') : Accepted(rx'[i]) => rx'[i].seg.src = c
      /\ \A i \in RxOf(c)' : i + 1 \in RxOf(c) /\ rx'[i] = rx[i + 1]
  BY <1>0, <1>1, Rest
<1>9. \A i \in RxOf(c)' :
        /\ rx'[i].seg.flags \in {{"ACK"}, {"PSH", "ACK"}, {"FIN", "ACK"}}
        /\ "FIN" \in rx'[i].seg.flags =>
             rx'[i].seg.len = 0 /\ Plus(rx'[i].seg.seq, 1) = conn'[c].nxt
  <2> SUFFICES ASSUME NEW i \in RxOf(c)'
               PROVE  /\ rx'[i].seg.flags \in {{"ACK"}, {"PSH", "ACK"}, {"FIN", "ACK"}}
                      /\ "FIN" \in rx'[i].seg.flags =>
                           rx'[i].seg.len = 0 /\ Plus(rx'[i].seg.seq, 1) = conn'[c].nxt
    OBVIOUS
  <2>1. i + 1 \in RxOf(c) /\ rx'[i] = rx[i + 1]
    BY <1>8
  <2> QED
    BY <1>0, <1>4, <2>1 DEF Closes
<1>10. Stage(c)'
  <2>1. Closes(c)'
    BY <1>9 DEF Closes
  <2>2. FinalAck(c)'
    <3>1. \A i \in TxOf(c)' : i # Len(tx) + 1 => i < Len(tx) + 1 /\ tx'[i].flags = {"FIN"}
      BY <1>4, <1>7
    <3> QED
      <4>1. Len(tx) + 1 \in TxOf(c)'
        BY <1>7
      <4>2. /\ tx'[Len(tx) + 1].flags = {"ACK"} /\ tx'[Len(tx) + 1].len = 0
            /\ tx'[Len(tx) + 1].ack = conn'[c].nxt
        BY <1>0, <1>5, <1>6, <1>7
      <4> QED
        BY <3>1, <4>1, <4>2 DEF FinalAck
  <2>3. Leaving(c)'
    BY <1>0, <1>4, <2>1, <2>2 DEF Leaving
  <2> QED
    BY <1>0, <1>2, <1>3, <2>3 DEF Stage
<1>11. ~With(c)' /\ \A d : ~With(d)'
  BY <1>0 DEF With
<1>12. ASSUME NEW d \in Clients, d # c PROVE Stage(d)'
  <2>1. TxThins(d)
    BY <1>0, <1>5, <1>12, TxOther
  <2> QED
    BY <1>0, <1>2, <1>8, <1>11, <1>12, <2>1, OthersStay
<1>13. SessionInv'
  <2>1. Heard["listen"] = 0
    BY DEF Heard
  <2> QED
    BY <1>0, <2>1 DEF SessionInv
<1>14. LineInv'
  <2>1. SynLast'
    <3> SUFFICES ASSUME NEW i \in 1 .. Len(rx'), Accepted(rx'[i])
                 PROVE  rx'[i].seg.flags # {"SYN"}
      BY DEF SynLast
    <3>1. i \in RxOf(c)'
      BY <1>8 DEF RxOf, From
    <3> QED
      BY <1>9, <3>1, FlagsDiffer
  <2> QED
    BY <1>0, <1>7, <1>8, <2>1 DEF LineInv
<1>15. Active' = Active /\ \A d, e \in Active : d = e
  BY <1>0, InvFacts DEF Active
<1> QED
  BY <1>0, <1>10, <1>12, <1>13, <1>14, <1>15 DEF ConversationInv

LEMMA ServerKeepsConversation ==
  ASSUME Inv, ServerStep
  PROVE  ConversationInv'
<1>0. Server /\ conn' = conn /\ faults' = faults /\ rx # <<>>
  BY ServerStepLine DEF ServerStep, clientOwn
<1>1. CASE DropFrame \/ IgnoreNotSyn \/ AwaitFin
  BY <1>0, <1>1, SkipKeeps DEF DropFrame, IgnoreNotSyn, AwaitFin, NextTcpIpPacket
<1>2. CASE AnswerSyn
  BY <1>0, <1>2, AnswerSynKeeps
<1>3. CASE CompleteHandshake \/ AbandonHandshake
  BY <1>0, <1>3, HandshakeKeeps
<1>4. CASE ServeRequest
  BY <1>0, <1>4, ServeKeeps
<1>5. CASE StartClose
  BY <1>0, <1>5, StartCloseKeeps
<1>6. CASE FinishClose
  BY <1>0, <1>6, FinishKeeps
<1> QED
  BY <1>0, <1>1, <1>2, <1>3, <1>4, <1>5, <1>6 DEF Server

-----------------------------------------------------------------------------
(* The active client is the only one that acts or is acted upon.           *)
LEMMA OnlyClient ==
  ASSUME Inv, NEW c \in Clients, \A d \in Active : d = c
  PROVE  /\ pc # "listen" => c = session[1].src /\ With(c)
         /\ \A d \in Clients :
              d # c => Stage(d) /\ Away(d) /\ conn[d].st \in {"closed", "halfClosed", "done"}
<1>1. pc # "listen" => c = session[1].src /\ With(c)
  BY Ongoing
<1>2. ASSUME NEW d \in Clients, d # c
      PROVE  Stage(d) /\ Away(d) /\ conn[d].st \in {"closed", "halfClosed", "done"}
  <2>1. d \notin Active
    BY <1>2
  <2> QED
    BY <2>1, InvFacts DEF Stage, ClientStates
<1> QED
  BY <1>1, <1>2

(* If none of its frames is a SYN, no frame is.                            *)
LEMMA NoSyn ==
  ASSUME Inv, NEW c \in Clients, \A d \in Active : d = c,
         \A i \in RxOf(c) : rx[i].seg.flags # {"SYN"}
  PROVE  \A i \in 1 .. Len(rx) : Accepted(rx[i]) => rx[i].seg.flags # {"SYN"}
<1> SUFFICES ASSUME NEW i \in 1 .. Len(rx), Accepted(rx[i])
             PROVE  rx[i].seg.flags # {"SYN"}
  OBVIOUS
<1>1. rx[i].seg.src \in Clients
  BY InvFacts DEF LineInv, Known
<1>2. i \in RxOf(rx[i].seg.src)
  BY DEF RxOf, From
<1> QED
  BY <1>1, <1>2, OnlyClient DEF Away

(* A step of the one client: it takes the next segment for it or none, and *)
(* puts a frame on the line or none.                                       *)
LEMMA ClientStepKeeps ==
  ASSUME Inv, NEW c \in Clients, \A d \in Active : d = c,
         \A d \in Clients : d # c => conn'[d] = conn[d],
         UNCHANGED <<pc, session, faults>>,
         NEW f, f.seg.src = c, rx' = rx \/ rx' = Append(rx, f),
         tx' = tx \/ (tx # <<>> /\ tx' = Tail(tx)),
         \/ rx' = rx \/ pc # "listen"
         \/ \A i \in RxOf(c) : rx[i].seg.flags # {"SYN"},
         Stage(c)'
  PROVE  ConversationInv'
<1>0. /\ rx \in Seq(Frame) /\ tx \in Seq(Segment) /\ faults'.loss = 0
      /\ SessionInv /\ LineInv /\ pc' = pc /\ session' = session
  BY InvFacts
<1>1. /\ pc # "listen" => c = session[1].src /\ With(c)
      /\ \A d \in Clients :
           d # c => Stage(d) /\ Away(d) /\ conn[d].st \in {"closed", "halfClosed", "done"}
  BY OnlyClient
<1>2. ASSUME NEW d \in Clients, d # c PROVE Stage(d)'
  <2>1. RxThins(d)
    <3>1. ~From(f, d)
      BY <1>2 DEF From
    <3> QED
      BY <1>0, <3>1, RxSame, RxOther
  <2>2. TxThins(d)
    BY <1>0, TxSame, TxTail
  <2>3. With(d)' = With(d)
    BY <1>0 DEF With
  <2>4. ~With(d)'
    BY <1>1, <1>2, <2>3 DEF Away
  <2> QED
    BY <1>1, <1>2, <2>1, <2>2, <2>4, AwayStays
<1>3. SessionInv'
  BY <1>0 DEF SessionInv
<1>4. Addressed'
  <2>1. Addressed
    BY <1>0 DEF LineInv
  <2>2. CASE tx' = tx
    BY <2>1, <2>2 DEF Addressed
  <2>3. CASE tx # <<>> /\ tx' = Tail(tx)
    BY <1>0, <2>1, <2>3, TailTx
  <2> QED
    BY <2>2, <2>3
<1>5. LineInv'
  <2>1. CASE rx' = rx
    BY <1>0, <1>4, <2>1 DEF LineInv, Known, AllFrom, SynLast
  <2>2. CASE rx' = Append(rx, f)
    <3>1. /\ \A i \in 1 .. Len(rx') :
               (i \in 1 .. Len(rx) /\ rx'[i] = rx[i]) \/ (i = Len(rx) + 1 /\ rx'[i] = f)
          /\ Len(rx) \in Nat
      BY <1>0, <2>2, MoreRx
    <3>2. Known'
      BY <1>0, <3>1 DEF LineInv, Known
    <3>3. pc # "listen" => AllFrom(session[1].src)'
      BY <1>0, <1>1, <3>1 DEF LineInv, AllFrom
    <3>4. ASSUME pc = "listen" PROVE SynLast'
      <4>1. SynLast /\ \A i \in RxOf(c) : rx[i].seg.flags # {"SYN"}
        <5>1. rx' # rx
          <6>1. Len(rx') = Len(rx) + 1
            BY <1>0, <2>2, Appending
          <6> QED
            BY <3>1, <6>1
        <5> QED
          BY <1>0, <3>4, <5>1 DEF LineInv
      <4>2. \A i \in 1 .. Len(rx) : Accepted(rx[i]) => rx[i].seg.flags # {"SYN"}
        BY <4>1, NoSyn
      <4> SUFFICES ASSUME NEW i \in 1 .. Len(rx'), NEW j \in 1 .. Len(rx'), i < j,
                          Accepted(rx'[i]), rx'[i].seg.flags = {"SYN"}
                   PROVE  ~Accepted(rx'[j])
        BY DEF SynLast
      <4>3. ~(i \in 1 .. Len(rx) /\ rx'[i] = rx[i])
        BY <4>2
      <4>4. i = Len(rx) + 1
        BY <3>1, <4>3
      <4>5. j \in 1 .. Len(rx) \/ j = Len(rx) + 1
        BY <3>1
      <4> QED
        BY <3>1, <4>4, <4>5
    <3> QED
      BY <1>0, <1>4, <3>2, <3>3, <3>4 DEF LineInv
  <2> QED
    BY <2>1, <2>2
<1>6. \A d, e \in Active' : d = e
  <2>1. \A d \in Active' : d = c
    <3> SUFFICES ASSUME NEW d \in Active', d # c PROVE FALSE
      OBVIOUS
    <3>1. d \in Clients /\ conn'[d] = conn[d] /\ conn'[d].st \in {"synSent", "open", "closing"}
      BY DEF Active
    <3> QED
      BY <1>1, <3>1
  <2> QED
    BY <2>1
<1> QED
  BY <1>0, <1>2, <1>3, <1>5, <1>6 DEF ConversationInv

(* One frame more of an open conversation, or of one that is closing.      *)
LEMMA SaysMore ==
  ASSUME Inv, NEW c \in Clients, Talking(c), NEW f, From(f, c), rx' = Append(rx, f),
         f.seg.flags \in {{"ACK"}, {"PSH", "ACK"}}, f.seg.len > 0 \/ pc \in {"ack", "fin"},
         UNCHANGED <<tx, pc, session>>, conn'[c].got = conn[c].got,
         pc \in {"ack", "fin"} => conn'[c].nxt = conn[c].nxt /\ conn'[c].asked
  PROVE  Talking(c)'
<1>0. /\ rx \in Seq(Frame) /\ tx' = tx /\ pc' = pc /\ session' = session
  BY InvFacts
<1>1. /\ \A i \in RxOf(c)' : (i \in RxOf(c) /\ rx'[i] = rx[i]) \/ (i = Len(rx) + 1 /\ rx'[i] = f)
      /\ \A i \in RxOf(c) : i \in RxOf(c)' /\ rx'[i] = rx[i] /\ i < Len(rx) + 1
  BY <1>0, MoreRxOf
<1>2. With(c)' /\ TxOf(c)' = TxOf(c)
  BY <1>0 DEF Talking, With, TxOf
<1>3. \A i \in RxOf(c)' : rx'[i].seg.flags \in {{"ACK"}, {"PSH", "ACK"}}
  BY <1>1 DEF Talking
<1>4. CASE pc = "handshake"
  <2>1. f.seg.len > 0 /\ BareAckFirst(c) /\ conn[c].got = 0 /\ TxOf(c) = {}
    BY <1>4 DEF Talking
  <2>2. PICK k \in RxOf(c) :
          /\ rx[k].seg.flags = {"ACK"}
          /\ \A i \in RxOf(c) : i # k => k < i /\ rx[i].seg.len > 0
    BY <2>1 DEF BareAckFirst
  <2>3. k \in RxOf(c)' /\ rx'[k] = rx[k] /\ k < Len(rx) + 1
    BY <1>1
  <2>4. \A i \in RxOf(c)' : i # k => k < i /\ rx'[i].seg.len > 0
    BY <1>1, <2>1, <2>2, <2>3
  <2>5. BareAckFirst(c)'
    BY <2>2, <2>3, <2>4 DEF BareAckFirst
  <2> QED
    BY <1>0, <1>2, <1>3, <1>4, <2>1, <2>5 DEF Talking
<1>5. CASE pc = "request"
  <2>1. conn[c].got = 0 /\ TxOf(c) = {} /\ \A i \in RxOf(c)' : rx'[i].seg.len > 0
    BY <1>1, <1>5 DEF Talking
  <2> QED
    BY <1>0, <1>2, <1>3, <1>5, <2>1 DEF Talking
<1>6. CASE pc \in {"ack", "fin"}
  <2>1. PageOrFin(c)
    BY <1>6 DEF Talking
  <2>2. PageOrFin(c)'
    BY <1>0, <1>2, <1>6, <2>1 DEF PageOrFin
  <2> QED
    BY <1>0, <1>2, <1>3, <1>6, <2>2 DEF Talking
<1> QED
  BY <1>4, <1>5, <1>6 DEF Talking

LEMMA ClosesMore ==
  ASSUME Inv, NEW c \in Clients, Closes(c), NEW f, rx' = Append(rx, f),
         f.seg.flags \in {{"ACK"}, {"PSH", "ACK"}, {"FIN", "ACK"}},
         "FIN" \in f.seg.flags => f.seg.len = 0 /\ Plus(f.seg.seq, 1) = conn'[c].nxt,
         conn'[c].nxt = conn[c].nxt
  PROVE  Closes(c)'
<1>1. \A i \in RxOf(c)' : (i \in RxOf(c) /\ rx'[i] = rx[i]) \/ (i = Len(rx) + 1 /\ rx'[i] = f)
  BY InvFacts, MoreRxOf
<1> SUFFICES ASSUME NEW i \in RxOf(c)', rx'[i] # f
             PROVE  /\ rx'[i].seg.flags \in {{"ACK"}, {"PSH", "ACK"}, {"FIN", "ACK"}}
                    /\ "FIN" \in rx'[i].seg.flags =>
                         rx'[i].seg.len = 0 /\ Plus(rx'[i].seg.seq, 1) = conn'[c].nxt
  BY DEF Closes
<1>2. i \in RxOf(c) /\ rx'[i] = rx[i]
  BY <1>1
<1> QED
  BY <1>2 DEF Closes

(* Connecting, when nobody else is connected.                              *)
LEMMA ConnectKeeps ==
  ASSUME Inv, OneByOne, NEW c \in Clients, Connect(c), UNCHANGED <<pc, session, faults>>
  PROVE  ConversationInv'
<1>0. /\ rx \in Seq(Frame) /\ conn \in [Clients -> Connection] /\ pc \in Waits
      /\ Expected(c) /\ conn[c].st = "closed" /\ pc' = pc /\ tx' = tx
  BY InvFacts DEF Connect
<1>1. Active = {}
  <2> SUFFICES ASSUME NEW d \in Active PROVE FALSE
    OBVIOUS
  <2>1. Active = {d}
    BY InvFacts
  <2>2. Cardinality(Active) = 1
    BY <2>1, FS_Singleton
  <2> QED
    BY <2>2 DEF Connect, OneByOne
<1>2. pc = "listen"
  BY <1>1, Ongoing
<1>3. RxOf(c) = {} /\ TxOf(c) = {}
  BY <1>0 DEF Expected, Silent
<1>4. PICK isn \in InitialSeqs :
        LET e == [Closed EXCEPT !.st = "synSent", !.una = isn, !.nxt = Plus(isn, 1)]
        IN  Become(c, e) /\ Put(Make(c, e, isn, {"SYN"}, 0))
  BY DEF Connect
<1> DEFINE e == [Closed EXCEPT !.st = "synSent", !.una = isn, !.nxt = Plus(isn, 1)]
           f == Make(c, e, isn, {"SYN"}, 0)
<1>5. /\ conn'[c] = e /\ rx' = Append(rx, f)
      /\ \A d \in Clients : d # c => conn'[d] = conn[d]
  BY <1>0, <1>4 DEF Become, Put
<1>6. /\ e.st = "synSent" /\ e.got = 0 /\ ~e.owes /\ Plus(e.una, 1) = e.nxt
      /\ Plus(isn, 1) = e.nxt
  BY DEF Closed
<1>7. /\ f.seg.src = c /\ f.seg.flags = {"SYN"} /\ f.seg.len = 0 /\ f.seg.seq = isn
  BY DEF Make
<1> HIDE DEF e, f
<1>8. \A i \in RxOf(c)' : rx'[i] = f
  BY <1>0, <1>3, <1>5, MoreRxOf
<1>9. Stage(c)'
  <2>1. TxOf(c)' = {}
    BY <1>0, <1>3 DEF TxOf
  <2>2. Connecting(c)'
    BY <1>0, <1>2, <1>5, <1>6, <1>7, <1>8, <2>1 DEF Connecting
  <2> QED
    BY <1>5, <1>6, <2>2 DEF Stage
<1>10. \A d \in Active : d = c
  BY <1>1
<1>11. \A i \in RxOf(c) : rx[i].seg.flags # {"SYN"}
  BY <1>3
<1> QED
  BY <1>0, <1>5, <1>7, <1>9, <1>10, <1>11, ClientStepKeeps

(* Sending the SYN again, when nothing is under way.                       *)
LEMMA SynAgainKeeps ==
  ASSUME Inv, NEW c \in Clients, RetransmitSyn(c), UNCHANGED <<pc, session, faults>>
  PROVE  ConversationInv'
<1>0. /\ rx \in Seq(Frame) /\ Stage(c) /\ conn[c].st = "synSent" /\ pc' = pc /\ tx' = tx
      /\ conn' = conn /\ early.syn = 0 /\ Timer(c, "syn")
      /\ c \in Active /\ \A d, e \in Active : d = e
  BY InvFacts DEF RetransmitSyn, Inv, TurnInv, PageInv
<1>1. RxOf(c) = {} /\ TxOf(c) = {}
  <2>1. ~UnderWay(c)
    BY <1>0 DEF Timer
  <2> QED
    BY <2>1 DEF UnderWay, RxOf, TxOf, From
<1> DEFINE f == Make(c, conn[c], conn[c].una, {"SYN"}, 0)
<1>2. rx' = Append(rx, f)
  BY DEF RetransmitSyn, Put
<1>3. /\ f.seg.src = c /\ f.seg.flags = {"SYN"} /\ f.seg.len = 0 /\ f.seg.seq = conn[c].una
  BY DEF Make
<1> HIDE DEF f
<1>4. \A i \in RxOf(c)' : rx'[i] = f
  BY <1>0, <1>1, <1>2, MoreRxOf
<1>5. Stage(c)'
  <2>1. TxOf(c)' = {}
    BY <1>0, <1>1 DEF TxOf
  <2>2. Plus(conn[c].una, 1) = conn[c].nxt /\ pc = "listen"
    BY <1>0, <1>1 DEF Stage, Connecting
  <2>3. Connecting(c)'
    BY <1>0, <1>3, <1>4, <2>1, <2>2 DEF Connecting
  <2> QED
    BY <1>0, <2>3 DEF Stage
<1>6. \A d \in Active : d = c
  BY <1>0
<1>7. \A i \in RxOf(c) : rx[i].seg.flags # {"SYN"}
  BY <1>1
<1> QED
  BY <1>0, <1>2, <1>3, <1>5, <1>6, <1>7, ClientStepKeeps

(* An open conversation is with the server, and is not over.               *)
LEMMA OpenTalks ==
  ASSUME Inv, NEW c \in Clients, conn[c].st = "open"
  PROVE  /\ Stage(c) /\ Talking(c) /\ pc # "listen" /\ conn[c].got \in {0, PageLen}
         /\ \A d \in Active : d = c
         /\ pc \in {"ack", "fin"} => conn[c].asked
         /\ conn[c].got > 0 => pc \in {"ack", "fin"}
<1>1. /\ Stage(c) /\ c \in Active /\ \A d, e \in Active : d = e
  BY InvFacts
<1>2. Talking(c) /\ conn[c].got \in {0, PageLen}
  BY <1>1 DEF Stage
<1> QED
  BY <1>1, <1>2 DEF Talking

(* The application asks, or closes; a delayed acknowledgement goes out.    *)
LEMMA ApplicationKeeps ==
  ASSUME Inv, OneByOne, NEW c \in Clients, Ask(c) \/ Close(c) \/ DelayedAck(c),
         UNCHANGED <<pc, session, faults>>
  PROVE  ConversationInv'
<1>0. /\ rx \in Seq(Frame) /\ conn \in [Clients -> Connection] /\ conn[c] \in Connection
      /\ conn[c].st = "open" /\ tx' = tx /\ pc' = pc /\ session' = session
      /\ PageLen > 0 /\ RequestLen > 0
  BY InvFacts, Constants DEF Ask, Close, DelayedAck
<1>1. /\ Stage(c) /\ Talking(c) /\ pc # "listen" /\ conn[c].got \in {0, PageLen}
      /\ \A d \in Active : d = c
      /\ pc \in {"ack", "fin"} => conn[c].asked
      /\ conn[c].got > 0 => pc \in {"ack", "fin"}
  BY <1>0, OpenTalks
<1>2. CASE Ask(c)
  <2> DEFINE e == [conn[c] EXCEPT !.asked = TRUE, !.owes = FALSE, !.nxt = Plus(@, RequestLen)]
             f == Make(c, e, conn[c].nxt, {"PSH", "ACK"}, RequestLen)
  <2>1. /\ conn'[c] = e /\ rx' = Append(rx, f) /\ ~conn[c].asked
        /\ \A d \in Clients : d # c => conn'[d] = conn[d]
    BY <1>0, <1>2 DEF Ask, Become, Put
  <2>2. e.st = "open" /\ e.got = conn[c].got /\ ~e.owes
    BY <1>0 DEF Connection
  <2>3. /\ f.seg.src = c /\ From(f, c) /\ f.seg.flags = {"PSH", "ACK"} /\ f.seg.len = RequestLen
    BY MakeFrom DEF Make
  <2> HIDE DEF e, f
  <2>4. Talking(c)'
    BY <1>0, <1>1, <2>1, <2>2, <2>3, SaysMore
  <2>5. Stage(c)'
    BY <1>1, <2>1, <2>2, <2>4 DEF Stage
  <2> QED
    BY <1>0, <1>1, <2>1, <2>3, <2>5, ClientStepKeeps
<1>3. CASE Close(c)
  <2> DEFINE e == [conn[c] EXCEPT !.st = "closing", !.owes = FALSE, !.nxt = Plus(@, 1)]
             f == Make(c, e, conn[c].nxt, {"FIN", "ACK"}, 0)
  <2>1. /\ conn'[c] = e /\ rx' = Append(rx, f)
        /\ \A d \in Clients : d # c => conn'[d] = conn[d]
    BY <1>0, <1>3 DEF Close, Become, Put
  <2>2. e.st = "closing" /\ e.got = conn[c].got /\ ~e.owes /\ e.nxt = Plus(conn[c].nxt, 1)
    BY <1>0 DEF Connection
  <2>3. /\ f.seg.src = c /\ f.seg.flags = {"FIN", "ACK"} /\ f.seg.len = 0
        /\ f.seg.seq = conn[c].nxt
    BY DEF Make
  <2> HIDE DEF e, f
  <2>4. conn[c].got = PageLen
    <3>1. ~(0 >= PageLen) /\ conn[c].got >= PageLen
      BY <1>0, <1>3, Constants DEF Close, OneByOne
    <3> QED
      BY <1>1, <3>1
  <2>5. pc \in {"ack", "fin"} /\ PageOrFin(c) /\ conn[c].got # 0
    BY <1>0, <1>1, <2>4 DEF Talking
  <2>6. With(c)' /\ TxOf(c)' = TxOf(c) /\ \A i \in TxOf(c) : tx[i].flags = {"FIN"}
    BY <1>0, <1>1, <2>5 DEF Talking, With, TxOf, PageOrFin
  <2>7. Closes(c)'
    <3>1. \A i \in RxOf(c)' : (i \in RxOf(c) /\ rx'[i] = rx[i]) \/ (i = Len(rx) + 1 /\ rx'[i] = f)
      BY <1>0, <2>1, MoreRxOf
    <3> SUFFICES ASSUME NEW i \in RxOf(c)'
                 PROVE  /\ rx'[i].seg.flags \in {{"ACK"}, {"PSH", "ACK"}, {"FIN", "ACK"}}
                        /\ "FIN" \in rx'[i].seg.flags =>
                             rx'[i].seg.len = 0 /\ Plus(rx'[i].seg.seq, 1) = conn'[c].nxt
      BY DEF Closes
    <3>2. CASE rx'[i] = f
      BY <2>1, <2>2, <2>3, <3>2
    <3>3. CASE i \in RxOf(c) /\ rx'[i] = rx[i]
      <4>1. rx'[i].seg.flags \in {{"ACK"}, {"PSH", "ACK"}}
        BY <1>1, <3>3 DEF Talking
      <4> QED
        BY <4>1, FlagsDiffer
    <3> QED
      BY <3>1, <3>2, <3>3
  <2>8. Leaving(c)'
    BY <1>0, <2>1, <2>2, <2>4, <2>5, <2>6, <2>7 DEF Leaving
  <2>9. Stage(c)'
    BY <1>1, <2>1, <2>2, <2>8 DEF Stage
  <2> QED
    BY <1>0, <1>1, <2>1, <2>3, <2>9, ClientStepKeeps
<1>4. CASE DelayedAck(c)
  <2> DEFINE e == [conn[c] EXCEPT !.owes = FALSE]
             f == Make(c, e, e.nxt, {"ACK"}, 0)
  <2>1. /\ conn'[c] = e /\ rx' = Append(rx, f) /\ conn[c].owes
        /\ \A d \in Clients : d # c => conn'[d] = conn[d]
    BY <1>0, <1>4 DEF DelayedAck, Become, Put, Acknowledge
  <2>2. e.st = "open" /\ e.got = conn[c].got /\ ~e.owes /\ e.nxt = conn[c].nxt
        /\ e.asked = conn[c].asked
    BY <1>0 DEF Connection
  <2>3. f.seg.src = c /\ From(f, c) /\ f.seg.flags = {"ACK"}
    BY MakeFrom DEF Make
  <2> HIDE DEF e, f
  <2>4. pc \in {"ack", "fin"} /\ conn[c].asked
    BY <1>1, <2>1 DEF Stage
  <2>5. Talking(c)'
    BY <1>0, <1>1, <2>1, <2>2, <2>3, <2>4, SaysMore
  <2>6. Stage(c)'
    BY <1>1, <2>1, <2>2, <2>5 DEF Stage
  <2> QED
    BY <1>0, <1>1, <2>1, <2>3, <2>6, ClientStepKeeps
<1> QED
  BY <1>2, <1>3, <1>4

(* The request or the FIN is sent again.                                   *)
LEMMA DataAgainKeeps ==
  ASSUME Inv, NEW c \in Clients, RetransmitData(c), UNCHANGED <<pc, session, faults>>
  PROVE  ConversationInv'
<1> DEFINE n == UnackedData(conn[c])
           f == Make(c, conn[c], conn[c].una, IF n = 0 THEN {"FIN", "ACK"} ELSE {"PSH", "ACK"}, n)
<1>0. /\ rx \in Seq(Frame) /\ conn[c] \in Connection /\ Stage(c)
      /\ conn[c].st \in {"open", "closing"} /\ conn[c].una # conn[c].nxt
      /\ tx' = tx /\ pc' = pc /\ session' = session /\ conn' = conn
      /\ c \in Active /\ \A d, e \in Active : d = e
  BY InvFacts DEF RetransmitData
<1>n. n \in Int
  <2>1. Dist(conn[c].una, conn[c].nxt) \in Int
    BY <1>0, DistIs DEF Connection
  <2> QED
    BY <2>1 DEF UnackedData
<1>1. n >= 0 /\ rx' = Append(rx, f)
  <2> DEFINE g(flags) == Make(c, conn[c], conn[c].una, flags, n)
  <2>1. \/ n > 0 /\ rx' = Append(rx, g({"PSH", "ACK"}))
        \/ n = 0 /\ rx' = Append(rx, g({"FIN", "ACK"}))
    BY DEF RetransmitData, Put
  <2>2. f = g(IF n = 0 THEN {"FIN", "ACK"} ELSE {"PSH", "ACK"})
    OBVIOUS
  <2> HIDE DEF f, g, n
  <2> QED
    BY <1>n, <2>1, <2>2
<1>2. /\ conn[c].st = "open" => n # 0
      /\ conn[c].st = "closing" /\ n = 0 => Plus(conn[c].una, 1) = conn[c].nxt
  <2>1. conn[c].una \in SeqNumber /\ conn[c].nxt \in SeqNumber
    BY <1>0 DEF Connection
  <2>2. Dist(conn[c].una, conn[c].nxt) \in Int /\ Dist(conn[c].una, conn[c].nxt) # 0
    BY <1>0, <2>1, DistIs, DistZero
  <2>3. conn[c].st = "open" => n = Dist(conn[c].una, conn[c].nxt)
    BY <2>2 DEF UnackedData
  <2>4. conn[c].st = "closing" => n = Dist(conn[c].una, conn[c].nxt) - 1
    BY DEF UnackedData
  <2>5. conn[c].st = "closing" /\ n = 0 => Dist(conn[c].una, conn[c].nxt) = 1
    BY <2>2, <2>4
  <2> QED
    BY <2>1, <2>2, <2>3, <2>5, PlusDist
<1>3. /\ f.seg.src = c /\ From(f, c) /\ f.seg.len = n /\ f.seg.seq = conn[c].una
      /\ f.seg.flags = IF n = 0 THEN {"FIN", "ACK"} ELSE {"PSH", "ACK"}
  BY MakeFrom DEF Make
<1> HIDE DEF n, f
<1>4. \A d \in Active : d = c
  BY <1>0
<1>5. CASE conn[c].st = "open"
  <2>1. /\ Talking(c) /\ pc # "listen" /\ (pc \in {"ack", "fin"} => conn[c].asked)
    BY <1>5, OpenTalks
  <2>2. f.seg.len > 0 /\ f.seg.flags = {"PSH", "ACK"}
    BY <1>1, <1>2, <1>3, <1>5, <1>n
  <2>3. Talking(c)'
    BY <1>0, <1>1, <1>3, <2>1, <2>2, SaysMore
  <2>4. Stage(c)'
    BY <1>0, <1>5, <2>3 DEF Stage
  <2> QED
    BY <1>0, <1>1, <1>3, <1>4, <2>1, <2>4, ClientStepKeeps
<1>6. CASE conn[c].st = "closing"
  <2>1. Leaving(c) /\ Closes(c)
    BY <1>0, <1>6 DEF Stage, Leaving
  <2>2. /\ f.seg.flags \in {{"ACK"}, {"PSH", "ACK"}, {"FIN", "ACK"}}
        /\ "FIN" \in f.seg.flags => f.seg.len = 0 /\ Plus(f.seg.seq, 1) = conn[c].nxt
    BY <1>2, <1>3, <1>6, FlagsDiffer
  <2>3. Closes(c)'
    BY <1>0, <1>1, <2>1, <2>2, ClosesMore
  <2>4. TxOf(c)' = TxOf(c) /\ With(c)' = With(c)
    BY <1>0 DEF TxOf, With
  <2>5. FinalAck(c) => FinalAck(c)'
    BY <1>0, <2>4 DEF FinalAck
  <2>6. Leaving(c)'
    BY <1>0, <2>1, <2>3, <2>4, <2>5 DEF Leaving
  <2>7. Stage(c)'
    BY <1>0, <1>6, <2>6 DEF Stage
  <2>8. \A i \in RxOf(c) : rx[i].seg.flags # {"SYN"}
    BY <2>1, FlagsDiffer DEF Closes
  <2> QED
    BY <1>0, <1>1, <1>3, <1>4, <2>7, <2>8, ClientStepKeeps
<1> QED
  BY <1>0, <1>5, <1>6

LEMMA ClientKeepsConversation ==
  ASSUME Inv, OneByOne, NEW c \in Clients, ClientActs(Client(c))
  PROVE  ConversationInv'
<1>1. Client(c) /\ UNCHANGED <<pc, session, faults>>
  BY DEF ClientActs, serverOwn
<1> QED
  BY <1>1, ConnectKeeps, ApplicationKeeps, SynAgainKeeps, DataAgainKeeps DEF Client

-----------------------------------------------------------------------------
(* The host that takes a segment is the active client's, and waits for it. *)
LEMMA Taken ==
  ASSUME Inv, NEW c \in Clients, Reaches(c)
  PROVE  /\ tx # <<>> /\ tx' = Tail(tx) /\ 1 \in TxOf(c) /\ Head(tx) = tx[1] /\ tx[1] \in Segment
         /\ \A i \in TxOf(c)' : i + 1 \in TxOf(c) /\ tx'[i] = tx[i + 1] /\ i + 1 # 1
         /\ \A i \in TxOf(c) : i # 1 => i - 1 \in TxOf(c)' /\ tx'[i - 1] = tx[i]
         /\ conn[c].st \in {"synSent", "open", "closing"} /\ \A d \in Active : d = c
<1>0. /\ tx \in Seq(Segment) /\ Addressed /\ Stage(c)
      /\ conn[c].st \in ClientStates
      /\ \A d, e \in Active : d = e
      /\ c \in Active <=> conn[c].st \in {"synSent", "open", "closing"}
  BY InvFacts DEF LineInv
<1>1. tx # <<>> /\ tx' = Tail(tx) /\ Head(tx).dst = c
  BY DEF Reaches
<1>2. /\ \A i \in TxOf(c)' : i + 1 \in TxOf(c) /\ tx'[i] = tx[i + 1] /\ i + 1 # 1
      /\ \A i \in TxOf(c) : i # 1 => i - 1 \in TxOf(c)' /\ tx'[i - 1] = tx[i]
  BY <1>0, <1>1, TailTx
<1>3. 1 \in TxOf(c) /\ Head(tx) = tx[1]
  BY <1>0, <1>1, TxTaken
<1>4. tx[1] \in Segment
  BY <1>0, <1>1
<1>5. conn[c].st \in {"synSent", "open", "closing"}
  BY <1>0, <1>3 DEF Stage, Away, ClientStates
<1> QED
  BY <1>0, <1>1, <1>2, <1>3, <1>4, <1>5

(* To a client that connects the answer to its SYN comes, alone.           *)
LEMMA EstablishKeeps ==
  ASSUME Inv, NEW c \in Clients, ClientReceives(c), conn[c].st = "synSent",
         UNCHANGED <<pc, session, faults>>
  PROVE  ConversationInv'
<1>r. Reaches(c)
  BY ReceiverMoves
<1>0. /\ rx \in Seq(Frame) /\ conn \in [Clients -> Connection] /\ conn[c] \in Connection
      /\ Stage(c) /\ Expected(c) /\ pc' = pc /\ session' = session
  BY InvFacts
<1>1. /\ tx # <<>> /\ tx' = Tail(tx) /\ 1 \in TxOf(c) /\ Head(tx) = tx[1] /\ tx[1] \in Segment
      /\ \A i \in TxOf(c)' : i + 1 \in TxOf(c) /\ tx'[i] = tx[i + 1] /\ i + 1 # 1
      /\ \A d \in Active : d = c
  BY <1>r, Taken
<1>2. /\ pc = "handshake" /\ With(c) /\ RxOf(c) = {}
      /\ \A i \in TxOf(c) : tx[i].flags = {"SYN", "ACK"} /\ tx[i].ack = conn[c].nxt
      /\ TxOf(c)' = {} /\ ~conn[c].asked
  BY <1>0, <1>1 DEF Stage, Connecting, Expected, Alone
<1>3. conn[c].got = 0 /\ ~conn[c].owes
  <2>1. ~(conn[c].got > 0) /\ PageLen > 0
    BY <1>0, <1>2, Constants DEF Expected
  <2> QED
    BY <1>0, <2>1 DEF Stage
<1>4. IsSynAck(Head(tx), conn[c])
  BY <1>1, <1>2 DEF IsSynAck
<1>5. Establish(c)
  BY <1>4, <1>1 DEF ClientReceives, Discard, Challenge, AcceptAck, AcceptPage, Reset, Synchronized
<1> DEFINE e == [conn[c] EXCEPT !.st = "open", !.una = Head(tx).ack, !.rcv = Plus(Head(tx).seq, 1)]
           f == Make(c, e, e.nxt, {"ACK"}, 0)
<1>6. /\ conn'[c] = e /\ rx' = Append(rx, f)
      /\ \A d \in Clients : d # c => conn'[d] = conn[d]
  BY <1>0, <1>5 DEF Establish, Become, Acknowledge, Put
<1>7. e.st = "open" /\ e.got = 0 /\ ~e.owes
  BY <1>0, <1>3 DEF Connection
<1> HIDE DEF e
<1>8. f.seg.src = c /\ From(f, c) /\ f.seg.flags = {"ACK"}
  <2>1. From(f, c)
    BY MakeFrom
  <2>2. f.seg.src = c /\ f.seg.flags = {"ACK"}
    BY DEF Make
  <2> QED
    BY <2>1, <2>2
<1> HIDE DEF f
<1>9. /\ \A i \in RxOf(c)' : i = Len(rx) + 1 /\ rx'[i] = f
      /\ Len(rx) + 1 \in RxOf(c)' /\ rx'[Len(rx) + 1] = f
  BY <1>0, <1>2, <1>6, <1>8, MoreRxOf
<1>10. Stage(c)'
  <2>1. BareAckFirst(c)'
    BY <1>8, <1>9 DEF BareAckFirst
  <2>2. With(c)'
    BY <1>0, <1>2 DEF With
  <2>3. Talking(c)'
    BY <1>0, <1>2, <1>6, <1>7, <1>8, <1>9, <2>1, <2>2 DEF Talking
  <2> QED
    BY <1>6, <1>7, <2>3 DEF Stage
<1> QED
  BY <1>0, <1>1, <1>2, <1>6, <1>8, <1>10, ClientStepKeeps

(* To an open client the page comes, once, or the server's FIN.            *)
LEMMA OpenKeeps ==
  ASSUME Inv, NEW c \in Clients, ClientReceives(c), conn[c].st = "open",
         UNCHANGED <<pc, session, faults>>
  PROVE  ConversationInv'
<1>r. Reaches(c)
  BY ReceiverMoves
<1>0. /\ rx \in Seq(Frame) /\ conn \in [Clients -> Connection] /\ conn[c] \in Connection
      /\ Outstanding(conn[c]) /\ InTurn(c) /\ pc' = pc /\ session' = session
  BY InvFacts
<1> DEFINE p == Head(tx)
<1>1. /\ tx # <<>> /\ tx' = Tail(tx) /\ 1 \in TxOf(c) /\ p = tx[1] /\ p \in Segment
      /\ \A i \in TxOf(c)' : i + 1 \in TxOf(c) /\ tx'[i] = tx[i + 1] /\ i + 1 # 1
      /\ \A d \in Active : d = c
  BY <1>r, Taken
<1>2. /\ Stage(c) /\ Talking(c) /\ pc \in {"ack", "fin"} /\ conn[c].asked /\ PageOrFin(c)
  BY <1>1, OpenTalks DEF Talking
<1>3. /\ \A i \in RxOf(c) : rx[i].seg.flags \in {{"ACK"}, {"PSH", "ACK"}}
      /\ With(c)' /\ pc # "listen"
  BY <1>0, <1>2 DEF Talking, With
<1>4. ASSUME NEW f, f.seg.flags = {"ACK"}, rx' = rx \/ rx' = Append(rx, f)
      PROVE  \A i \in RxOf(c)' : rx'[i].seg.flags \in {{"ACK"}, {"PSH", "ACK"}}
  <2>1. CASE rx' = rx
    BY <1>3, <2>1 DEF RxOf
  <2>2. CASE rx' = Append(rx, f)
    <3>1. \A i \in RxOf(c)' : (i \in RxOf(c) /\ rx'[i] = rx[i]) \/ rx'[i] = f
      BY <1>0, <2>2, RxAppended
    <3> QED
      BY <1>3, <1>4, <3>1
  <2> QED
    BY <1>4, <2>1, <2>2
<1>5. /\ "ACK" \in p.flags =>
           p.flags = {"ACK"} /\ p.len > 0 /\ p.ack = conn[c].nxt /\ conn[c].got = 0
      /\ "ACK" \notin p.flags => p.flags = {"FIN"}
  BY <1>1, <1>2, FlagsDiffer DEF PageOrFin
<1>6. ASSUME conn'[c] = conn[c], NEW f, f.seg.src = c, f.seg.flags = {"ACK"},
             rx' = rx \/ rx' = Append(rx, f),
             \A d \in Clients : d # c => conn'[d] = conn[d]
      PROVE  ConversationInv'
  <2>1. PageOrFin(c)'
    <3>1. \A i \in TxOf(c)' :
            \/ tx'[i].flags = {"FIN"} /\ tx'[i].len = 0
            \/ /\ tx'[i].flags = {"ACK"} /\ tx'[i].len > 0
               /\ tx'[i].ack = conn'[c].nxt /\ conn'[c].got = 0
      <4> SUFFICES ASSUME NEW i \in TxOf(c)'
                   PROVE  \/ tx'[i].flags = {"FIN"} /\ tx'[i].len = 0
                          \/ /\ tx'[i].flags = {"ACK"} /\ tx'[i].len > 0
                             /\ tx'[i].ack = conn'[c].nxt /\ conn'[c].got = 0
        OBVIOUS
      <4>1. i + 1 \in TxOf(c) /\ tx'[i] = tx[i + 1]
        BY <1>1
      <4> QED
        BY <1>2, <1>6, <4>1 DEF PageOrFin
    <3>2. ASSUME NEW i \in TxOf(c)', NEW j \in TxOf(c)', tx'[i].len > 0, tx'[j].len > 0
          PROVE  i = j
      <4>1. i + 1 = j + 1 /\ i \in Int /\ j \in Int
        BY <1>1, <1>2, <3>2 DEF PageOrFin, TxOf
      <4> QED
        BY <4>1
    <3> QED
      BY <3>1, <3>2 DEF PageOrFin
  <2>2. Talking(c)'
    BY <1>0, <1>2, <1>3, <1>4, <1>6, <2>1 DEF Talking
  <2>3. Stage(c)'
    BY <1>2, <1>6, <2>2 DEF Stage
  <2> QED
    BY <1>0, <1>1, <1>3, <1>6, <2>3, ClientStepKeeps
<1>7. CASE Discard(c)
  <2> DEFINE f == Make(c, conn[c], 0, {"ACK"}, 0)
  <2>1. f.seg.src = c /\ f.seg.flags = {"ACK"}
    BY DEF Make
  <2>2. rx' = rx /\ conn' = conn
    BY <1>7 DEF Discard
  <2> HIDE DEF f
  <2> QED
    BY <1>6, <2>1, <2>2
<1>8. CASE Challenge(c)
  <2> DEFINE f == Make(c, conn[c], conn[c].nxt, {"ACK"}, 0)
  <2>1. f.seg.src = c /\ f.seg.flags = {"ACK"}
    BY DEF Make
  <2>2. rx' = Append(rx, f) /\ conn' = conn
    BY <1>8 DEF Challenge, Acknowledge, Put
  <2> HIDE DEF f
  <2> QED
    BY <1>6, <2>1, <2>2
<1>9. ~AcceptAck(c)
  <2>1. p.len \in Int
    BY <1>1, Constants DEF Segment
  <2> QED
    BY <1>5, <2>1 DEF AcceptAck, InOrder
<1>10. CASE AcceptPage(c)
  <2> DEFINE a == AckedEnd(p, conn[c])
             n == [a EXCEPT !.rcv = Plus(p.seq, p.len),
                            !.got = @ + p.len - Dist(p.seq, conn[c].rcv)]
             m == [n EXCEPT !.owes = TRUE]
             f == Make(c, n, n.nxt, {"ACK"}, 0)
  <2>1. /\ p.len > 0 /\ "ACK" \in p.flags
        /\ \/ conn'[c] = n /\ rx' = Append(rx, f)
           \/ conn'[c] = m /\ rx' = rx
        /\ \A d \in Clients : d # c => conn'[d] = conn[d]
    BY <1>0, <1>10 DEF AcceptPage, InOrder, Become, Acknowledge, Put
  <2>2. conn[c].got = 0 /\ p.len = PageLen
    BY <1>0, <1>1, <1>5, <2>1 DEF InTurn, Whole
  <2>3. Dist(p.seq, conn[c].rcv) = 0
    <3>1. AnsweredInTurn(conn[c], p) /\ conn[c].rcv = 1 + conn[c].got
      BY <1>0, <1>1, <1>2 DEF InTurn, Served
    <3>2. PICK g \in Pages : p.seq = 1 + g /\ g <= conn[c].got
      BY <3>1 DEF AnsweredInTurn
    <3>3. g = 0
      <4>1. PageLen \in Nat /\ PageLen > 0 /\ g <= 0
        BY <2>2, <3>2, Constants
      <4> QED
        BY <4>1 DEF Pages
    <3>4. p.seq = conn[c].rcv /\ p.seq \in SeqNumber
      BY <1>1, <2>2, <3>1, <3>2, <3>3 DEF Segment
    <3> QED
      BY <3>4, DistZero
  <2>4. /\ a.st = "open" /\ a.asked /\ a.got = 0 /\ a.nxt = conn[c].nxt /\ a \in Connection
    BY <1>0, <1>1, <1>2, <2>2, AckedFields, AckedRest
  <2> HIDE DEF a
  <2>5. /\ n.st = "open" /\ n.asked /\ n.got = a.got + p.len - Dist(p.seq, conn[c].rcv)
        /\ n.nxt = conn[c].nxt
        /\ m.st = "open" /\ m.asked /\ m.got = n.got /\ m.nxt = n.nxt
    BY <2>4 DEF Connection
  <2>6. f.seg.src = c /\ f.seg.flags = {"ACK"}
    BY DEF Make
  <2> HIDE DEF n, m, f
  <2>7. n.got = PageLen /\ PageLen > 0
    <3>1. n.got = 0 + PageLen - 0 /\ PageLen \in Nat /\ PageLen > 0
      BY <2>2, <2>3, <2>4, <2>5, Constants
    <3> QED
      BY <3>1
  <2>8. /\ conn'[c].st = "open" /\ conn'[c].asked /\ conn'[c].got = PageLen
        /\ conn'[c].nxt = conn[c].nxt
    BY <2>1, <2>5, <2>7
  <2>9. PageOrFin(c)'
    <3>1. \A i \in TxOf(c)' : tx'[i].flags = {"FIN"} /\ tx'[i].len = 0
      <4> SUFFICES ASSUME NEW i \in TxOf(c)'
                   PROVE  tx'[i].flags = {"FIN"} /\ tx'[i].len = 0
        OBVIOUS
      <4>1. i + 1 \in TxOf(c) /\ tx'[i] = tx[i + 1] /\ i + 1 # 1
        BY <1>1
      <4>2. ~(tx[i + 1].len > 0)
        BY <1>1, <1>2, <2>1, <4>1 DEF PageOrFin
      <4> QED
        BY <1>2, <4>1, <4>2 DEF PageOrFin
    <3>2. \A i \in TxOf(c)' : ~(tx'[i].len > 0)
      BY <3>1
    <3> QED
      BY <3>1, <3>2 DEF PageOrFin
  <2>10. Talking(c)'
    BY <1>0, <1>2, <1>3, <1>4, <2>1, <2>6, <2>8, <2>9 DEF Talking
  <2>11. Stage(c)'
    BY <2>7, <2>8, <2>10 DEF Stage
  <2> QED
    BY <1>0, <1>1, <1>3, <2>1, <2>6, <2>11, ClientStepKeeps
<1> QED
  BY <1>7, <1>8, <1>9, <1>10 DEF ClientReceives, Establish, Reset

(* A client that closes gets FINs, of which none counts, and at last the   *)
(* acknowledgement of its own.                                             *)
LEMMA ClosingKeeps ==
  ASSUME Inv, NEW c \in Clients, ClientReceives(c), conn[c].st = "closing",
         UNCHANGED <<pc, session, faults>>
  PROVE  ConversationInv'
<1>r. Reaches(c)
  BY ReceiverMoves
<1>0. /\ rx \in Seq(Frame) /\ conn \in [Clients -> Connection] /\ conn[c] \in Connection
      /\ Outstanding(conn[c]) /\ pc' = pc /\ session' = session
      /\ PageLen \in Nat /\ PageLen > 0
  BY InvFacts, Constants
<1> DEFINE p == Head(tx)
<1>1. /\ tx # <<>> /\ tx' = Tail(tx) /\ 1 \in TxOf(c) /\ p = tx[1] /\ p \in Segment
      /\ \A i \in TxOf(c)' : i + 1 \in TxOf(c) /\ tx'[i] = tx[i + 1] /\ i + 1 # 1
      /\ \A i \in TxOf(c) : i # 1 => i - 1 \in TxOf(c)' /\ tx'[i - 1] = tx[i]
      /\ \A d \in Active : d = c
  BY <1>r, Taken
<1>2. Stage(c) /\ Leaving(c) /\ Closes(c) /\ conn[c].got = PageLen
  BY <1>0, InvFacts DEF Stage, Leaving
<1>3. \A i \in RxOf(c) : rx[i].seg.flags # {"SYN"}
  BY <1>2, FlagsDiffer DEF Closes
<1>4. \/ p.flags = {"FIN"}
      \/ /\ pc = "listen" /\ p.flags = {"ACK"} /\ p.len = 0 /\ p.ack = conn[c].nxt
         /\ \A i \in TxOf(c) : i = 1
  <2>1. CASE \A i \in TxOf(c) : tx[i].flags = {"FIN"}
    BY <1>1, <2>1
  <2>2. CASE pc = "listen" /\ FinalAck(c)
    <3>1. PICK k \in TxOf(c) :
            /\ tx[k].flags = {"ACK"} /\ tx[k].len = 0 /\ tx[k].ack = conn[c].nxt
            /\ \A i \in TxOf(c) : i # k => i < k /\ tx[i].flags = {"FIN"}
      BY <2>2 DEF FinalAck
    <3>2. CASE k = 1
      <4>1. \A i \in TxOf(c) : i \in Int /\ i >= 1
        BY DEF TxOf
      <4>2. \A i \in TxOf(c) : ~(i < 1)
        BY ONLY <4>1
      <4>3. \A i \in TxOf(c) : i = 1
        BY ONLY <3>1, <3>2, <4>2
      <4> QED
        BY <1>1, <2>2, <3>1, <3>2, <4>3
    <3>3. CASE k # 1
      BY <1>1, <3>1, <3>3
    <3> QED
      BY <3>2, <3>3
  <2> QED
    BY <1>2, <2>1, <2>2 DEF Leaving
<1>5. CASE p.flags = {"FIN"}
  <2>1. Discard(c)
    BY <1>5, FlagsDiffer DEF ClientReceives, Establish, Challenge, AcceptAck, AcceptPage, Reset, InOrder
  <2>2. rx' = rx /\ conn' = conn
    BY <2>1 DEF Discard
  <2>3. RxOf(c)' = RxOf(c) /\ Closes(c)'
    BY <1>2, <2>2 DEF RxOf, Closes
  <2>4. (\A i \in TxOf(c) : tx[i].flags = {"FIN"}) => \A i \in TxOf(c)' : tx'[i].flags = {"FIN"}
    <3> SUFFICES ASSUME \A i \in TxOf(c) : tx[i].flags = {"FIN"}, NEW i \in TxOf(c)'
                 PROVE  tx'[i].flags = {"FIN"}
      OBVIOUS
    <3>1. i + 1 \in TxOf(c) /\ tx'[i] = tx[i + 1]
      BY <1>1
    <3> QED
      BY <3>1
  <2>5. FinalAck(c) => FinalAck(c)'
    <3> SUFFICES ASSUME FinalAck(c) PROVE FinalAck(c)'
      OBVIOUS
    <3>1. PICK k \in TxOf(c) :
            /\ tx[k].flags = {"ACK"} /\ tx[k].len = 0 /\ tx[k].ack = conn[c].nxt
            /\ \A i \in TxOf(c) : i # k => i < k /\ tx[i].flags = {"FIN"}
      BY DEF FinalAck
    <3>2. k # 1 /\ k \in Int
      <4>1. k \in Int
        BY DEF TxOf
      <4>2. tx[1].flags = {"FIN"}
        BY <1>1, <1>5
      <4> QED
        BY <3>1, <4>1, <4>2, FlagsDiffer
    <3>3. k - 1 \in TxOf(c)' /\ tx'[k - 1] = tx[k]
      BY <1>1, <3>2
    <3>4. ASSUME NEW i \in TxOf(c)', i # k - 1
          PROVE  i < k - 1 /\ tx'[i].flags = {"FIN"}
      <4>1. i + 1 \in TxOf(c) /\ tx'[i] = tx[i + 1] /\ i \in Int
        BY <1>1 DEF TxOf
      <4>2. i + 1 # k
        BY <3>2, <3>4, <4>1
      <4>3. i + 1 < k /\ tx[i + 1].flags = {"FIN"}
        BY <3>1, <4>1, <4>2
      <4> QED
        BY <3>2, <4>1, <4>3
    <3> QED
      BY <2>2, <3>1, <3>3, <3>4 DEF FinalAck
  <2>6. With(c)' = With(c)
    BY <1>0 DEF With
  <2>7. Leaving(c)'
    BY <1>0, <1>2, <2>2, <2>3, <2>4, <2>5, <2>6 DEF Leaving
  <2>8. Stage(c)'
    BY <1>0, <1>2, <2>2, <2>7 DEF Stage
  <2> DEFINE f == Make(c, conn[c], 0, {"ACK"}, 0)
  <2>9. f.seg.src = c
    BY DEF Make
  <2> HIDE DEF f
  <2> QED
    BY <1>1, <2>2, <2>8, <2>9, ClientStepKeeps
<1>6. CASE /\ pc = "listen" /\ p.flags = {"ACK"} /\ p.len = 0 /\ p.ack = conn[c].nxt
           /\ \A i \in TxOf(c) : i = 1
  <2>1. AcksNew(p, conn[c])
    <3>1. Dist(conn[c].una, conn[c].nxt) \in Int
      BY <1>0, DistIs DEF Connection
    <3> QED
      BY <1>6, <3>1 DEF AcksNew
  <2>2. AcceptAck(c)
    BY <1>0, <1>6, <2>1, FlagsDiffer
       DEF ClientReceives, Establish, Discard, Challenge, AcceptPage, Reset, AcksUnsent
  <2> DEFINE a == AckedEnd(p, conn[c])
             e == [a EXCEPT !.st = "halfClosed"]
  <2>3. a.st = "closing" /\ a.got = PageLen /\ a.una = a.nxt /\ a \in Connection
    BY <1>0, <1>1, <1>2, <1>6, AckedFields, AckedRest
  <2>4. conn' = [conn EXCEPT ![c] = e] /\ rx' = rx
    BY <1>6, <2>2, <2>3, FlagsDiffer DEF AcceptAck, FinAcked, Become
  <2> HIDE DEF a
  <2>5. e.st = "halfClosed" /\ e.got = PageLen
    BY <2>3 DEF Connection
  <2> HIDE DEF e
  <2>6. conn'[c] = e /\ \A d \in Clients : d # c => conn'[d] = conn[d]
    BY <1>0, <2>4
  <2>7. TxOf(c)' = {}
    BY <1>1, <1>6
  <2>8. ~With(c)'
    BY <1>0, <1>6, NoSession DEF With
  <2>9. \A i \in RxOf(c)' : rx'[i].seg.flags # {"SYN"}
    BY <1>3, <2>4 DEF RxOf
  <2>10. Stage(c)'
    BY <1>0, <2>5, <2>6, <2>7, <2>8, <2>9 DEF Stage, Away
  <2> DEFINE f == Make(c, conn[c], 0, {"ACK"}, 0)
  <2>11. f.seg.src = c
    BY DEF Make
  <2> HIDE DEF f
  <2> QED
    BY <1>1, <2>4, <2>6, <2>10, <2>11, ClientStepKeeps
<1> QED
  BY <1>4, <1>5, <1>6

LEMMA TakesKeepsConversation ==
  ASSUME Inv, NEW c \in Clients, ClientTakes(c)
  PROVE  ConversationInv'
<1>1. ClientReceives(c) /\ UNCHANGED <<pc, session, faults>>
  BY DEF ClientTakes, serverOwn
<1>2. conn[c].st \in {"synSent", "open", "closing"}
  BY <1>1, ReceiverMoves, Taken
<1> QED
  BY <1>1, <1>2, EstablishKeeps, OpenKeeps, ClosingKeeps

(* A client none of whose segments comes or goes stands where it stood.    *)
LEMMA StageStays ==
  ASSUME NEW c, Stage(c), conn'[c] = conn[c], tx' = tx, pc' = pc, TxOf(c)' = TxOf(c),
         With(c)' = With(c), RxOf(c)' = RxOf(c), \A i \in RxOf(c) : rx'[i] = rx[i]
  PROVE  Stage(c)'
<1>1. Connecting(c) => Connecting(c)'
  BY DEF Connecting
<1>2. Talking(c) => Talking(c)'
  <2>1. (BareAckFirst(c) => BareAckFirst(c)') /\ (PageOrFin(c) => PageOrFin(c)')
    BY DEF BareAckFirst, PageOrFin
  <2> QED
    BY <2>1 DEF Talking
<1>3. Leaving(c) => Leaving(c)'
  <2>1. (FinalAck(c) => FinalAck(c)') /\ (Closes(c) => Closes(c)')
    BY DEF FinalAck, Closes
  <2> QED
    BY <2>1 DEF Leaving
<1>4. Away(c) => Away(c)'
  BY DEF Away
<1> QED
  BY <1>1, <1>2, <1>3, <1>4 DEF Stage

(* A frame that no client sent, and that the stack drops.                  *)
LEMMA NoiseKeepsConversation ==
  ASSUME Inv, Noise
  PROVE  ConversationInv'
<1>1. PICK f \in Arrivals : rx' = Append(rx, f)
  BY DEF Noise, Arrive
<1>2. /\ rx \in Seq(Frame) /\ SessionInv /\ LineInv /\ faults'.loss = 0 /\ ~Accepted(f)
      /\ UNCHANGED <<tx, pc, session, conn>> /\ \A c \in Clients : Stage(c)
  BY InvFacts, MiniwebAssumption DEF Noise, Arrive, clientOwn, serverOwn, Inv, TurnInv, PageInv, TypeInv, TypeOK
<1>3. /\ \A i \in 1 .. Len(rx') :
           (i \in 1 .. Len(rx) /\ rx'[i] = rx[i]) \/ (i = Len(rx) + 1 /\ rx'[i] = f)
  BY <1>1, <1>2, MoreRx
<1>4. ASSUME NEW c
      PROVE  RxOf(c)' = RxOf(c) /\ \A i \in RxOf(c) : rx'[i] = rx[i]
  <2>1. ~From(f, c)
    BY <1>2 DEF From
  <2> QED
    BY <1>1, <1>2, <2>1, MoreRxOf
<1>5. LineInv'
  <2>1. Known' /\ Addressed'
    BY <1>2, <1>3 DEF LineInv, Known, Addressed
  <2>2. ASSUME NEW c, AllFrom(c) PROVE \A i \in 1 .. Len(rx') : Accepted(rx'[i]) => rx'[i].seg.src = c
    BY <1>2, <1>3, <2>2 DEF AllFrom
  <2>3. SynLast => SynLast'
    BY <1>2, <1>3 DEF SynLast
  <2> QED
    BY <1>2, <2>1, <2>2, <2>3 DEF LineInv, AllFrom
<1>6. ASSUME NEW c \in Clients PROVE Stage(c)'
  <2>0. /\ Stage(c) /\ TxOf(c)' = TxOf(c) /\ conn'[c] = conn[c] /\ With(c)' = With(c)
        /\ tx' = tx /\ pc' = pc
        /\ RxOf(c)' = RxOf(c) /\ \A i \in RxOf(c) : rx'[i] = rx[i]
    BY <1>2, <1>4 DEF TxOf, With
  <2> QED
    BY <2>0, StageStays
<1>7. SessionInv'
  BY <1>2 DEF SessionInv
<1>8. Active' = Active /\ \A c, d \in Active : c = d
  BY <1>2, InvFacts DEF Active
<1> QED
  BY <1>2, <1>5, <1>6, <1>7, <1>8 DEF ConversationInv

LEMMA InvStep ==
  ASSUME OneByOne
  PROVE  Inv /\ [Next]_vars => Inv'
<1> SUFFICES ASSUME Inv, [Next]_vars
             PROVE  Inv'
  OBVIOUS
<1>0. TurnInv'
  BY TurnInvStep DEF Inv, OneByOne
<1>1. CASE ServerStep
  BY <1>0, <1>1, ServerKeepsConversation DEF Inv
<1>2. ASSUME NEW c \in Clients, ClientActs(Client(c)) PROVE Inv'
  BY <1>0, <1>2, ClientKeepsConversation DEF Inv
<1>3. ASSUME NEW c \in Clients, ClientTakes(c) PROVE Inv'
  BY <1>0, <1>3, TakesKeepsConversation DEF Inv
<1>4. ~Lose
  BY InvFacts DEF Lose
<1>5. CASE Noise
  BY <1>0, <1>5, NoiseKeepsConversation DEF Inv
<1>6. CASE UNCHANGED vars
  <2>0. rx' = rx /\ tx' = tx /\ pc' = pc /\ session' = session /\ conn' = conn /\ faults' = faults
    BY <1>6 DEF vars
  <2>1. \A c : RxOf(c)' = RxOf(c) /\ TxOf(c)' = TxOf(c) /\ With(c)' = With(c)
    BY <2>0 DEF RxOf, TxOf, With
  <2>2. ASSUME NEW c \in Clients PROVE Stage(c)'
    BY <2>0, <2>1, InvFacts, StageStays
  <2>3. SessionInv' /\ LineInv' /\ Active' = Active
    BY <2>0, InvFacts DEF SessionInv, LineInv, Known, Addressed, AllFrom, SynLast, Active
  <2>4. ConversationInv'
    BY <2>0, <2>2, <2>3 DEF Inv, ConversationInv
  <2> QED
    BY <1>0, <2>4 DEF Inv
<1> QED
  BY <1>1, <1>2, <1>3, <1>4, <1>5, <1>6 DEF Next

LEMMA InvHolds ==
  ASSUME EarlySyn = 0, OneByOne
  PROVE  Spec => []Inv
<1>0. Wide
  BY DEF OneByOne
<1>1. Spec => []TurnInv
  BY <1>0, TurnInvHolds
<1>2. Init /\ TurnInv => Inv
  <2> SUFFICES ASSUME Init, TurnInv PROVE ConversationInv
    BY DEF Inv
  <2>1. /\ rx = <<>> /\ tx = <<>> /\ pc = "listen" /\ session = <<>> /\ faults.loss = 0
        /\ \A c \in Clients : conn[c] = Closed
    BY DEF Init, LineInit, ServerInit, ClientsInit, OneByOne
  <2>2. Closed.st = "closed" /\ Closed.got = 0 /\ Closed.owes = FALSE
    BY DEF Closed
  <2>3. \A c \in Clients : Stage(c)
    BY <2>1, <2>2 DEF Stage, Away, With, RxOf, TxOf
  <2>4. Active = {}
    BY <2>1, <2>2 DEF Active
  <2>5. SessionInv /\ LineInv
    BY <2>1 DEF SessionInv, Heard, LineInv, Known, Addressed, SynLast
  <2> QED
    BY <2>1, <2>3, <2>4, <2>5 DEF ConversationInv
<1>3. Inv /\ [Next]_vars => Inv'
  BY InvStep
<1> QED
  BY <1>1, <1>2, <1>3, PTL DEF Spec

-----------------------------------------------------------------------------
(* Clients one at a time on a line that loses nothing, each of which stays *)
(* until it has the page, whenever their timers for data fire: what the    *)
(* server acts on from one SYN to the next is all of one client.           *)
THEOREM ConversationsDoNotMix ==
  ASSUME EarlySyn = 0, MaxActive = 1, MaxLoss = 0, Impatient = FALSE, SeqMod >= 2 * MaxLen + 2
  PROVE  Spec => []SessionIsOneConversation
<1>1. Inv => SessionIsOneConversation
  BY DEF Inv, ConversationInv, SessionInv, SessionIsOneConversation
<1> QED
  BY <1>1, InvHolds, PTL DEF OneByOne, Wide

(* Then kernel_main, which never looks, has a request when it takes a      *)
(* packet for one: no bare acknowledgement is left by then.                *)
THEOREM RequestsAreRequests ==
  ASSUME EarlySyn = 0, MaxActive = 1, MaxLoss = 0, Impatient = FALSE, SeqMod >= 2 * MaxLen + 2
  PROVE  Spec => []RequestIsRequest
<1>1. Inv => RequestIsRequest
  BY DEF Inv, ConversationInv, SessionInv, RequestIsRequest
<1> QED
  BY <1>1, InvHolds, PTL DEF OneByOne, Wide

(* The page comes once, and whole.                                         *)
THEOREM PageComesOnce ==
  ASSUME EarlySyn = 0, MaxActive = 1, MaxLoss = 0, Impatient = FALSE, SeqMod >= 2 * MaxLen + 2
  PROVE  Spec => []PageIntact
<1>1. Inv => PageIntact
  BY DEF Inv, ConversationInv, Stage, PageIntact
<1> QED
  BY <1>1, InvHolds, PTL DEF OneByOne, Wide

(* When fourWayClose is done and all it sent has arrived, its client knows *)
(* its FIN acknowledged: what is left of the connection is the half that   *)
(* the server's own FIN, without ACK, has not closed.                      *)
THEOREM NoEndIsLeftOpen ==
  ASSUME EarlySyn = 0, MaxActive = 1, MaxLoss = 0, Impatient = FALSE, SeqMod >= 2 * MaxLen + 2
  PROVE  Spec => []LeavesNoneOpen
<1>1. ASSUME Inv PROVE LeavesNoneOpen
  <2> SUFFICES ASSUME pc = "listen", tx = <<>>, NEW c \in Clients
               PROVE  conn[c].st \notin {"open", "closing"}
    BY DEF LeavesNoneOpen
  <2>1. Stage(c)
    BY <1>1, InvFacts
  <2>2. ~Talking(c)
    BY DEF Talking
  <2>3. ~FinalAck(c)
    BY DEF FinalAck, TxOf
  <2>4. ~Leaving(c)
    BY <2>3 DEF Leaving
  <2> QED
    BY <2>1, <2>2, <2>4 DEF Stage
<1>2. Inv => LeavesNoneOpen
  BY <1>1
<1> QED
  BY <1>2, InvHolds, PTL DEF OneByOne, Wide

(* The byte too many that the server acknowledges when it answers a bare   *)
(* acknowledgement is in a FIN, which no host takes.                       *)
THEOREM PhantomAcksAreInFins ==
  ASSUME EarlySyn = 0, MaxActive = 1, MaxLoss = 0, Impatient = FALSE, SeqMod >= 2 * MaxLen + 2
  PROVE  Spec => []PhantomAckOnlyInFin
<1>1. ASSUME Inv PROVE PhantomAckOnlyInFin
  <2> SUFFICES ASSUME NEW i \in 1 .. Len(tx),
                      Dist(conn[tx[i].dst].nxt, tx[i].ack) \in 1 .. SeqMod \div 2
               PROVE  tx[i].flags = {"FIN"}
    BY DEF PhantomAckOnlyInFin
  <2>1. PICK c \in Clients : c = tx[i].dst
    BY <1>1, InvFacts DEF LineInv, Addressed
  <2>2. i \in TxOf(c) /\ Stage(c) /\ conn[c].st \in ClientStates /\ conn[c].nxt \in SeqNumber
    BY <1>1, <2>1, InvFacts DEF TxOf, Connection
  <2>3. tx[i].ack # conn[c].nxt
    <3>1. Dist(conn[c].nxt, conn[c].nxt) = 0
      BY <2>2, DistZero
    <3>2. ~(0 \in 1 .. SeqMod \div 2)
      BY SegmentAssumption
    <3> QED
      BY <2>1, <3>1, <3>2
  <2>4. ~Connecting(c)
    BY <2>2, <2>3 DEF Connecting
  <2>5. Talking(c) => tx[i].flags = {"FIN"}
    BY <2>2, <2>3 DEF Talking, PageOrFin
  <2>6. Leaving(c) => tx[i].flags = {"FIN"}
    BY <2>2, <2>3 DEF Leaving, FinalAck
  <2>7. ~Away(c)
    BY <2>2 DEF Away
  <2> QED
    BY <2>2, <2>4, <2>5, <2>6, <2>7 DEF Stage, ClientStates
<1>2. Inv => PhantomAckOnlyInFin
  BY <1>1
<1> QED
  BY <1>2, InvHolds, PTL DEF OneByOne, Wide

(* The safety half of ImplementsService, for any number of clients, one at *)
(* a time: a client's stream jumps from nothing to the whole page, after   *)
(* its request and never again.                                            *)
THEOREM ServesWhoAsked ==
  ASSUME EarlySyn = 0, MaxActive = 1, MaxLoss = 0, Impatient = FALSE, SeqMod >= 2 * MaxLen + 2
  PROVE  Spec => Service!ServiceSafety
<1> DEFINE Asked == {c \in Clients : conn[c].asked}
           Stream == [c \in Clients |-> conn[c].got]
<1>1. Init => Service!ServiceInit
  BY DEF Init, ClientsInit, Closed, Service!ServiceInit
<1>2. Inv /\ Inv' /\ [Next]_vars => [Service!ServiceNext]_(Service!serviceVars)
  <2> SUFFICES ASSUME Inv, Inv', [Next]_vars
               PROVE  Service!ServiceNext \/ (Asked' = Asked /\ Stream' = Stream)
    BY DEF Service!serviceVars
  <2>0. /\ conn \in [Clients -> Connection] /\ PageInv
        /\ \A c \in Clients :
             /\ conn[c].got \in {0, PageLen} /\ conn'[c].got \in {0, PageLen}
             /\ conn'[c].got > 0 => conn'[c].asked
    BY DEF Inv, TurnInv, PageInv, TypeInv, TypeOK, ClientsTypeOK, ConversationInv, Stage,
           Expected
  <2>1. CASE conn' = conn
    BY <2>1
  <2>2. ASSUME NEW d \in Clients, NEW e, Become(d, e),
               \/ e.asked = conn[d].asked /\ e.got = conn[d].got
               \/ ~conn[d].asked /\ e.asked /\ e.got = conn[d].got
               \/ e.asked = conn[d].asked /\ e.got > 0
        PROVE  Service!ServiceNext \/ (Asked' = Asked /\ Stream' = Stream)
    <3>1. conn'[d] = e /\ \A c \in Clients \ {d} : conn'[c] = conn[c]
      BY <2>0, <2>2 DEF Become
    <3>2. CASE e.asked = conn[d].asked /\ e.got = conn[d].got
      BY <3>1, <3>2
    <3>3. CASE ~conn[d].asked /\ e.asked /\ e.got = conn[d].got
      <4>1. d \notin Asked /\ Asked' = Asked \cup {d} /\ Stream' = Stream
        BY <3>1, <3>3
      <4> QED
        BY <4>1 DEF Service!ServiceNext, Service!Request
    <3>4. CASE e.asked = conn[d].asked /\ e.got > 0
      <4>1. e.asked /\ e.got = PageLen
        BY <2>0, <3>1, <3>4
      <4>2. Asked' = Asked /\ Stream' = [Stream EXCEPT ![d] = PageLen] /\ d \in Asked
        BY <3>1, <3>4, <4>1
      <4>3. CASE conn[d].got = 0
        <5>1. Stream[d] = 0
          BY <4>3
        <5> QED
          BY <4>2, <5>1 DEF Service!ServiceNext, Service!Serve
      <4>4. CASE conn[d].got = PageLen
        BY <3>1, <4>1, <4>2, <4>4
      <4> QED
        BY <2>0, <4>3, <4>4
    <3> QED
      BY <2>2, <3>2, <3>3, <3>4
  <2> QED
    BY <2>0, <2>1, <2>2, OneClientMoves
<1> QED
  BY <1>1, <1>2, InvHolds, PTL DEF Spec, Service!ServiceSafety, OneByOne, Wide
=============================================================================
