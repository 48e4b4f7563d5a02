----------------------------- MODULE MCMiniweb ------------------------------
(* Values for Miniweb's constants that a .cfg cannot write.                *)
EXTENDS Miniweb, TLC

CONSTANTS c1, c2, srv

(* What the host sends to a new network interface of its own accord: an    *)
(* IPv6 packet, which fails the checksum of an IPv4 header, and a ping.    *)
MCArrivals ==
  LET ping == [ipOk |-> TRUE, ver |-> IPv4, protocol |-> 1, tcpOk |-> FALSE,
               seg |-> [src |-> c1, dst |-> srv, seq |-> 0, ack |-> 0,
                        flags |-> {"SYN"}, len |-> 0]]
  IN  {[ping EXCEPT !.ipOk = FALSE, !.ver = 6], ping}
=============================================================================
