---------------------------- MODULE HttpService -----------------------------
(***************************************************************************)
(* What the web server is for (readme.txt: the application must respond to *)
(* a simple GET request): whoever asks for the page gets all of it, once,  *)
(* in the end.                                                             *)
(***************************************************************************)
EXTENDS Naturals

CONSTANTS Users, PageLen

VARIABLES
  asked,   (* users who have asked for the page                            *)
  stream   (* how many bytes each user has got                             *)

serviceVars == <<asked, stream>>

ServiceInit == asked = {} /\ stream = [u \in Users |-> 0]

Request(u) ==
  /\ u \notin asked
  /\ asked' = asked \cup {u}
  /\ UNCHANGED stream

Serve(u) ==
  /\ u \in asked /\ stream[u] = 0
  /\ stream' = [stream EXCEPT ![u] = PageLen]
  /\ UNCHANGED asked

ServiceNext == \E u \in Users : Request(u) \/ Serve(u)

(* Nobody gets anything who has not asked, or a part, or a second page ... *)
ServiceSafety == ServiceInit /\ [][ServiceNext]_serviceVars

(* ... and whoever asks is served.                                         *)
Service == ServiceSafety /\ \A u \in Users : WF_serviceVars(Serve(u))
=============================================================================
