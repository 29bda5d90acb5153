------------------------------ MODULE KeyChannel ------------------------------
(***************************************************************************)
(* What a watermark is for: the key that goes in comes out, once, and      *)
(* surely.                                                                 *)
(***************************************************************************)
EXTENDS Integers, Sequences

VARIABLES sent, received

channelVars == <<sent, received>>

ChannelInit ==
  /\ sent \in Seq({0, 1}) /\ sent # <<>>
  /\ received = <<>>

Deliver ==
  /\ received = <<>>
  /\ received' = sent
  /\ UNCHANGED sent

ChannelSpec ==
  ChannelInit /\ [][Deliver]_channelVars /\ WF_channelVars(Deliver)

=============================================================================
