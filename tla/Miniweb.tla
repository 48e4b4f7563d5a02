------------------------------ MODULE Miniweb -------------------------------
(***************************************************************************)
(* The web server and its clients, on the two FIFO queues of the serial    *)
(* line.  The bounds decide how many frames are lost and how many frames   *)
(* appear that no client sent.                                             *)
(***************************************************************************)
EXTENDS WebServer, HostClients

CONSTANTS
  MaxLoss,  (* bound: frames lost, in either direction                     *)
  MaxNoise, (* bound: frames of Arrivals that appear                       *)
  MaxHeld   (* bound: whole frames socket2tun keeps when it waits          *)

ASSUME MiniwebAssumption ==
  /\ {MaxLoss, MaxNoise, MaxHeld} \subseteq Nat
  /\ \A f \in Arrivals : ~Accepted(f)

VARIABLES
  held,   (* of the segments in tx, how many socket2tun has read           *)
  faults  (* what is left of MaxLoss and MaxNoise                          *)

vars == <<rx, tx, pc, session, conn, early, held, faults>>

Init ==
  /\ LineInit /\ ServerInit /\ ClientsInit
  /\ held = 0
  /\ faults = [loss |-> MaxLoss, noise |-> MaxNoise]

-----------------------------------------------------------------------------
ServerStep == Server /\ UNCHANGED <<clientOwn, held, faults>>

ClientActs(A) == A /\ UNCHANGED <<serverOwn, held, faults>>

(* socket2tun: recv returns, with all or part of the frames it has not     *)
(* read or just with some bytes of one; the first frame there is goes to   *)
(* the TUN device, and to its host.  The others wait for the next recv.    *)
ForwardOne ==
  /\ held < Len(tx)
  /\ \E n \in held .. Len(tx) :
       /\ n >= 1 /\ n - 1 <= MaxHeld
       /\ held' = n - 1

ClientTakes(c) == ClientReceives(c) /\ ForwardOne /\ UNCHANGED <<serverOwn, faults>>

(* The line loses a frame: the UART overruns, the TUN device is full.      *)
LoseRx == rx # <<>> /\ rx' = Tail(rx) /\ UNCHANGED tx
LoseTx ==
  /\ held < Len(tx)
  /\ tx' = SubSeq(tx, 1, held) \o SubSeq(tx, held + 2, Len(tx))
  /\ UNCHANGED rx

Lose ==
  /\ faults.loss > 0
  /\ LoseRx \/ LoseTx
  /\ faults' = [faults EXCEPT !.loss = @ - 1]
  /\ UNCHANGED <<serverOwn, clientOwn, held>>

Noise ==
  /\ faults.noise > 0
  /\ Arrive
  /\ faults' = [faults EXCEPT !.noise = @ - 1]
  /\ UNCHANGED <<clientOwn, held>>

Next ==
  \/ ServerStep
  \/ \E c \in Clients : ClientActs(Client(c)) \/ ClientTakes(c)
  \/ Lose
  \/ Noise

(* The server's one thread runs for ever; the hosts take what reaches      *)
(* them; applications connect, ask and, with the page complete, close;     *)
(* delayed acknowledgements and retransmission timers fire in the end.     *)
Fairness ==
  /\ WF_vars(ServerStep)
  /\ \A c \in Clients :
       /\ WF_vars(ClientTakes(c))
       /\ WF_vars(ClientActs(Connect(c)))
       /\ WF_vars(ClientActs(Ask(c)))
       /\ WF_vars(conn[c].got >= PageLen /\ ClientActs(Close(c)))
       /\ WF_vars(ClientActs(DelayedAck(c)))
       /\ WF_vars(~UnderWay(c) /\ ClientActs(RetransmitSyn(c)))
       /\ WF_vars(~UnderWay(c) /\ ClientActs(RetransmitData(c)))

Spec == Init /\ [][Next]_vars /\ Fairness

-----------------------------------------------------------------------------
(* Every variable keeps its type.                                          *)
TypeOK ==
  /\ ServerTypeOK
  /\ ClientsTypeOK
  /\ held \in 0 .. Len(tx)
  /\ faults \in [loss : Nat, noise : Nat]

(* The server keeps no address between two packets (the IP and TCP structs *)
(* are overwritten by every nextTcpIpPacket); still, one client at a time, *)
(* the packets it acts on from a SYN to the next are all of one client,    *)
(* even when timers of that client fire early.                             *)
SessionIsOneConversation ==
  \A i, j \in 1 .. Len(session) : session[i].src = session[j].src

(* kernel_main, "receive HTTP GET request": what it takes for the request  *)
(* carries one, although it looks at nothing in it.                        *)
RequestIsRequest == Len(session) >= 3 => session[3].len > 0

(* A client has bytes of the page only after it has asked for it: what the *)
(* server sends to packets it mistakes for requests never is data to the   *)
(* client it is sent to.                                                   *)
PageAfterRequest == \A c \in Clients : conn[c].got > 0 => conn[c].asked

(* One client at a time, a client's stream holds nothing of the page or    *)
(* exactly the page: never a page with its head cut off, never a second.   *)
PageIntact == \A c \in Clients : conn[c].got \in {0, PageLen}

(* In any crowd the stream still is a number of whole pages, although the  *)
(* server keeps nothing of any conversation.  It may be two of them: when  *)
(* others' packets have the server take a bare ACK for the request, the    *)
(* page acknowledges one byte of the request and the host repeats the rest *)
(* of it, which may be answered again; after that nothing can.             *)
WholePages == \A c \in Clients : conn[c].got \in {0, PageLen, 2 * PageLen}

(* When the server listens and the line is empty, every client that had    *)
(* the page knows its own FIN acknowledged: fourWayClose leaves no end     *)
(* open, although it leaves every one half closed (ClosesBothWays).        *)
LeavesNoneOpen ==
  pc = "listen" /\ rx = <<>> /\ tx = <<>> =>
    \A c \in Clients : conn[c].st \notin {"open", "closing"}

(* "ackN = 1 if there is no payload" acknowledges a byte the client never  *)
(* sent when the packet answered is a bare ACK; that happens only in the   *)
(* FIN of fourWayClose, which has no ACK flag, so that nobody reads it.    *)
PhantomAckOnlyInFin ==
  \A i \in 1 .. Len(tx) :
    LET c == tx[i].dst
    IN  Dist(conn[c].nxt, tx[i].ack) \in 1 .. SeqMod \div 2 => tx[i].flags = {"FIN"}

(* readme.txt: "app must respond to simple GET request": a client that     *)
(* connects gets the page, unless it has closed before.                    *)
EveryClientServed ==
  \A c \in Clients :
    conn[c].st = "synSent" ~>
      conn[c].got = PageLen \/ conn[c].st \in {"closing", "halfClosed", "done"}

(* fourWayClose answers a client's FIN: the client knows in the end, or    *)
(* the answer is among the frames that socket2tun keeps till the next.     *)
EveryCloseAnswered ==
  \A c \in Clients :
    conn[c].st = "closing" ~>
      conn[c].st # "closing" \/ \E i \in 1 .. held : tx[i].dst = c

(* kernel.c, "closing with client", and fourWayClose's "starting 4-way     *)
(* close": both directions of the connection are closed in the end.        *)
ClosesBothWays ==
  \A c \in Clients : conn[c].st = "closing" ~> conn[c].st = "done"

(* kernel_main's loop goes round: the server is never stuck in one of its  *)
(* waits with a conversation that is over for its client.                  *)
ListensAgain == []<>(pc = "listen")

(* What the clients see of the server, as the service it implements.       *)
Service == INSTANCE HttpService WITH
  Users <- Clients,
  asked <- {c \in Clients : conn[c].asked},
  stream <- [c \in Clients |-> conn[c].got]

(* The whole, stack and clients, implements the service: a client's stream *)
(* jumps once from nothing to the page, after the request, in the end.     *)
ImplementsService == Service!Service
=============================================================================
