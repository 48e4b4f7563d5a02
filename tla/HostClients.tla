---------------------------- MODULE HostClients -----------------------------
(***************************************************************************)
(* The TCP clients on the other end of the line.  They are not code of     *)
(* this repository (readme.md: curl, on the host's TCP stack); they follow *)
(* RFC 793 as far as the server can tell, with retransmission, delayed     *)
(* acknowledgements and the host's reaction to segments it did not expect. *)
(***************************************************************************)
EXTENDS SerialLine, FiniteSets

CONSTANTS
  Clients,      (* one per connection: address and port of the client      *)
  ServerHost,   (* the server's address and port                           *)
  InitialSeqs,  (* initial sequence numbers a client may choose            *)
  RequestLen,   (* bytes of the GET request                                *)
  MaxActive,    (* bound: connections that may be open at the same time    *)
  EarlySyn,     (* bound: SYN timeouts while an answer is under way        *)
  EarlyData,    (* bound: other timeouts while an answer is under way      *)
  Impatient     (* may a client close before it has the page?              *)

ASSUME ClientsAssumption ==
  /\ Clients \subseteq Hosts /\ ServerHost \in Hosts \ Clients
  /\ InitialSeqs \subseteq SeqNumber
  /\ RequestLen \in 1 .. MaxLen
  /\ {MaxActive, EarlySyn, EarlyData} \subseteq Nat
  /\ Impatient \in BOOLEAN

VARIABLES
  conn,   (* the client's end of each connection                           *)
  early   (* what is left of EarlySyn and EarlyData                        *)

clientOwn == <<conn, early>>

(* RFC 793's ESTABLISHED is open, FIN-WAIT-1 closing, FIN-WAIT-2           *)
(* halfClosed; done is over.  CLOSE-WAIT, CLOSING and LAST-ACK would take  *)
(* a FIN of the server before the client's own is acknowledged.            *)
ClientStates == {"closed", "synSent", "open", "closing", "halfClosed", "done"}
Synchronized == {"open", "closing", "halfClosed"}

(* una, nxt, rcv are RFC 793's SND.UNA, SND.NXT, RCV.NXT; got counts the   *)
(* bytes of the page; owes is set while an acknowledgement is delayed.     *)
Connection == [st : ClientStates, una : SeqNumber, nxt : SeqNumber,
               rcv : SeqNumber, asked : BOOLEAN, got : Int, owes : BOOLEAN]

Closed == [st |-> "closed", una |-> 0, nxt |-> 0, rcv |-> 0,
           asked |-> FALSE, got |-> 0, owes |-> FALSE]

ClientsInit ==
  /\ conn = [c \in Clients |-> Closed]
  /\ early = [syn |-> EarlySyn, data |-> EarlyData]

ClientsTypeOK ==
  /\ conn \in [Clients -> Connection]
  /\ early \in [syn : Nat, data : Nat]

-----------------------------------------------------------------------------
(* Distance from a to b in sequence space.                                 *)
Dist(a, b) == (b - a) % SeqMod

(* The frame in which client c, its end being e, sends a segment.          *)
Make(c, e, seq, flags, len) ==
  [ipOk |-> TRUE, ver |-> IPv4, protocol |-> PROTOCOL_TCP, tcpOk |-> TRUE,
   seg |-> [src |-> c, dst |-> ServerHost, seq |-> seq,
            ack |-> e.rcv, flags |-> flags, len |-> len]]

(* c's end becomes e; the host sends a frame; it sends nothing but where   *)
(* it stands.                                                              *)
Become(c, e) == conn' = [conn EXCEPT ![c] = e]
Put(f) == rx' = Append(rx, f)
Acknowledge(c, e) == Put(Make(c, e, e.nxt, {"ACK"}, 0))

(* What is half closed says nothing more of its own accord.                *)
Active == {c \in Clients : conn[c].st \in {"synSent", "open", "closing"}}

Connect(c) ==
  /\ conn[c].st = "closed" /\ Room /\ Cardinality(Active) < MaxActive
  /\ \E isn \in InitialSeqs :
       LET e == [Closed EXCEPT !.st = "synSent", !.una = isn,
                               !.nxt = Plus(isn, 1)]
       IN  Become(c, e) /\ Put(Make(c, e, isn, {"SYN"}, 0))
  /\ UNCHANGED <<tx, early>>

Ask(c) ==
  /\ conn[c].st = "open" /\ ~conn[c].asked /\ Room
  /\ LET e == [conn[c] EXCEPT !.asked = TRUE, !.owes = FALSE,
                              !.nxt = Plus(@, RequestLen)]
     IN  /\ Become(c, e)
         /\ Put(Make(c, e, conn[c].nxt, {"PSH", "ACK"}, RequestLen))
  /\ UNCHANGED <<tx, early>>

(* curl closes when the page is complete, an impatient user at any time.   *)
Close(c) ==
  /\ conn[c].st = "open" /\ Room
  /\ conn[c].got >= PageLen \/ Impatient
  /\ LET e == [conn[c] EXCEPT !.st = "closing", !.owes = FALSE,
                              !.nxt = Plus(@, 1)]
     IN  Become(c, e) /\ Put(Make(c, e, conn[c].nxt, {"FIN", "ACK"}, 0))
  /\ UNCHANGED <<tx, early>>

DelayedAck(c) ==
  /\ conn[c].st = "open" /\ conn[c].owes /\ Room
  /\ LET e == [conn[c] EXCEPT !.owes = FALSE]
     IN  Become(c, e) /\ Acknowledge(c, e)
  /\ UNCHANGED <<tx, early>>

-----------------------------------------------------------------------------
(* Retransmission of the oldest unacknowledged segment.  The timer may     *)
(* fire whenever nothing of the connection is under way; firing earlier    *)
(* uses up the bounds.                                                     *)
UnderWay(c) ==
  \/ \E i \in 1 .. Len(rx) : rx[i].seg.src = c /\ Accepted(rx[i])
  \/ \E i \in 1 .. Len(tx) : tx[i].dst = c

Timer(c, kind) ==
  IF UnderWay(c)
    THEN early[kind] > 0 /\ early' = [early EXCEPT ![kind] = @ - 1]
    ELSE UNCHANGED early

RetransmitSyn(c) ==
  /\ conn[c].st = "synSent" /\ Room
  /\ Timer(c, "syn")
  /\ Put(Make(c, conn[c], conn[c].una, {"SYN"}, 0))
  /\ UNCHANGED <<tx, conn>>

UnackedData(e) ==
  Dist(e.una, e.nxt) - (IF e.st = "closing" THEN 1 ELSE 0)

RetransmitData(c) ==
  /\ conn[c].st \in {"open", "closing"} /\ conn[c].una # conn[c].nxt /\ Room
  /\ Timer(c, "data")
  /\ LET e == conn[c]
         n == UnackedData(e)
     IN  \/ n > 0 /\ Put(Make(c, e, e.una, {"PSH", "ACK"}, n))
         \/ n = 0 /\ Put(Make(c, e, e.una, {"FIN", "ACK"}, n))
  /\ UNCHANGED <<tx, conn>>

-----------------------------------------------------------------------------
(* The client's host takes the next segment addressed to it.               *)
Reaches(c) ==
  /\ tx # <<>>
  /\ Head(tx).dst = c
  /\ tx' = Tail(tx)
  /\ UNCHANGED early

(* SYN-SENT: only the SYN/ACK of this very SYN counts.                     *)
IsSynAck(p, e) == p.flags = {"SYN", "ACK"} /\ p.ack = e.nxt

Establish(c) ==
  /\ Reaches(c)
  /\ conn[c].st = "synSent" /\ IsSynAck(Head(tx), conn[c])
  /\ LET e == [conn[c] EXCEPT !.st = "open", !.una = Head(tx).ack,
                              !.rcv = Plus(Head(tx).seq, 1)]
     IN  Become(c, e) /\ Acknowledge(c, e)

(* Acknowledgement field: new, or of something not sent yet.               *)
AcksNew(p, e) == Dist(e.una, p.ack) <= Dist(e.una, e.nxt)
AcksUnsent(p, e) == ~AcksNew(p, e) /\ Dist(e.nxt, p.ack) < SeqMod \div 2

(* RFC 793 p. 72: a segment without ACK is dropped.                        *)
Discard(c) ==
  /\ Reaches(c)
  /\ \/ conn[c].st = "synSent" /\ ~IsSynAck(Head(tx), conn[c])
     \/ conn[c].st \in Synchronized /\ "ACK" \notin Head(tx).flags
     \/ conn[c].st = "done" /\ Head(tx).len = 0
  /\ UNCHANGED <<rx, conn>>

(* An unexpected SYN/ACK, an acknowledgement of what was never sent, or    *)
(* data already seen: the host states where it is and drops the segment.   *)
HasNewData(p, e) == p.len > 0 /\ Dist(p.seq, e.rcv) < p.len

Challenge(c) ==
  /\ Reaches(c)
  /\ conn[c].st \in Synchronized /\ "ACK" \in Head(tx).flags
  /\ LET p == Head(tx)
         e == conn[c]
     IN  \/ "SYN" \in p.flags \/ AcksUnsent(p, e)
         \/ p.len > 0 /\ ~HasNewData(p, e)
  /\ Acknowledge(c, conn[c])
  /\ UNCHANGED conn

(* A segment that is in order: its acknowledgement and its data count.     *)
InOrder(p, e) ==
  /\ "ACK" \in p.flags /\ "SYN" \notin p.flags
  /\ ~AcksUnsent(p, e)
  /\ p.len > 0 => HasNewData(p, e)

AckedEnd(p, e) == IF AcksNew(p, e) THEN [e EXCEPT !.una = p.ack] ELSE e

(* Its FIN acknowledged the client is half closed, and waits for the       *)
(* server's FIN, which ends the connection if it has the ACK flag.         *)
FinAcked(e) ==
  IF e.st = "closing" /\ e.una = e.nxt THEN [e EXCEPT !.st = "halfClosed"] ELSE e

AcceptAck(c) ==
  /\ Reaches(c)
  /\ conn[c].st \in Synchronized
  /\ Head(tx).len = 0 /\ InOrder(Head(tx), conn[c])
  /\ LET e == FinAcked(AckedEnd(Head(tx), conn[c]))
         over == [e EXCEPT !.st = "done", !.rcv = Plus(@, 1)]
     IN  IF "FIN" \in Head(tx).flags /\ e.st = "halfClosed"
           THEN Become(c, over) /\ Acknowledge(c, over)
           ELSE Become(c, e) /\ UNCHANGED rx

AcceptPage(c) ==
  /\ Reaches(c)
  /\ conn[c].st = "open"
  /\ Head(tx).len > 0 /\ InOrder(Head(tx), conn[c])
  /\ LET p == Head(tx)
         e == [AckedEnd(p, conn[c]) EXCEPT
                 !.rcv = Plus(p.seq, p.len),
                 !.got = @ + p.len - Dist(p.seq, conn[c].rcv)]
     IN  \/ Become(c, e) /\ Acknowledge(c, e)
         \/ Become(c, [e EXCEPT !.owes = TRUE]) /\ UNCHANGED rx

(* Data for a socket the application has closed is answered with a reset.  *)
Reset(c) ==
  /\ Reaches(c)
  /\ Head(tx).len > 0
  /\ \/ conn[c].st \in {"closing", "halfClosed"} /\ InOrder(Head(tx), conn[c])
     \/ conn[c].st = "done"
  /\ Become(c, [conn[c] EXCEPT !.st = "done"])
  /\ Put(Make(c, conn[c], Head(tx).ack, {"RST"}, 0))

ClientReceives(c) ==
  \/ Establish(c) \/ Discard(c) \/ Challenge(c)
  \/ AcceptAck(c) \/ AcceptPage(c) \/ Reset(c)

Client(c) ==
  \/ Connect(c) \/ Ask(c) \/ Close(c) \/ DelayedAck(c)
  \/ RetransmitSyn(c) \/ RetransmitData(c)
=============================================================================
