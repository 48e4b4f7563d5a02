----------------------------- MODULE MCBothWays -----------------------------
(* Frames in one direction, the other being idle: nothing that either does *)
(* changes what the other reads.  Towards the server packets hold          *)
(* beginnings of the magic number, or all of it with a size behind; from   *)
(* it they are shorter and longer than a chunk, one with a magic number.   *)
EXTENDS BothWays

MCMagic == <<1, 2, 3>>
MCPackets == {<<1, 1, 2, 3, 0, 1>>, <<0, 3, 1, 2>>}
MCOutPackets == {<<1>>, <<1, 2, 3, 0, 1>>}
MCFifoDepth == [c \in WithFifo |-> IF c = "16750" THEN 3 ELSE 2]

(* Is it the direction towards the server that has frames?                 *)
VARIABLE inwards

TwoLines == Init /\ Out!Init /\ inwards \in BOOLEAN

MCNext ==
  /\ UNCHANGED inwards
  /\ \/ inwards /\ Next /\ UNCHANGED outwards
     \/ ~inwards /\ Out!Next /\ UNCHANGED vars

MCVars == <<vars, outwards, inwards>>

MCSpec ==
  /\ TwoLines /\ [][MCNext]_MCVars
  /\ WF_MCVars(inwards /\ Server /\ UNCHANGED <<outwards, inwards>>)
  /\ WF_MCVars(inwards /\ Deliver /\ UNCHANGED <<outwards, inwards>>)
  /\ WF_MCVars(~inwards /\ Out!Socket2Tun /\ UNCHANGED <<vars, inwards>>)
=============================================================================
