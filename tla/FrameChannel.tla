---------------------------- MODULE FrameChannel ----------------------------
(***************************************************************************)
(* A reliable FIFO channel for packets, as the application on either side  *)
(* of the serial line takes it to be.                                      *)
(***************************************************************************)
EXTENDS Naturals, Sequences

CONSTANT Packets

VARIABLES sent, received

channelVars == <<sent, received>>

Send ==
  /\ \E p \in Packets : sent' = Append(sent, p)
  /\ UNCHANGED received

Deliver ==
  /\ Len(received) < Len(sent)
  /\ received' = Append(received, sent[Len(received) + 1])
  /\ UNCHANGED sent

InOrder ==
  /\ sent = <<>> /\ received = <<>>
  /\ [][Send \/ Deliver]_channelVars

Reliable == InOrder /\ WF_channelVars(Deliver)
=============================================================================
