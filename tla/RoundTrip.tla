------------------------------ MODULE RoundTrip ------------------------------
(***************************************************************************)
(* A key is encoded and the graph is decoded again by the plain decoder,   *)
(* which does not know the key.                                            *)
(***************************************************************************)
EXTENDS EncoderGrammar, Sequences

VARIABLES
  phase,                            \* "encode", then "decode", then "done"
  graphIdx, bits                    \* of the decoder

D == INSTANCE Decoder

decoderVars == <<graphIdx, bits>>
allVars == <<vars, phase, decoderVars>>

RTInit ==
  /\ Init
  /\ phase = "encode"
  /\ D!Begin

Encode ==
  /\ phase = "encode" /\ ~Encoded
  /\ Next
  /\ UNCHANGED <<phase, decoderVars>>

StartDecoding ==
  /\ phase = "encode" /\ Encoded
  /\ phase' = "decode"
  /\ UNCHANGED <<vars, decoderVars>>

Decode ==
  /\ phase = "decode"
  /\ D!Step
  /\ UNCHANGED <<data, start, i, idx, stack, history, phase>>

Return ==
  /\ phase = "decode" /\ D!Decoded
  /\ phase' = "done"
  /\ UNCHANGED <<vars, decoderVars>>

Rest == phase = "done" /\ UNCHANGED allVars

RTNext == Encode \/ StartDecoding \/ Decode \/ Return \/ Rest

(* Both functions run to their end: the only fairness is that a program    *)
(* that can take a step takes one.                                         *)
RTSpec == RTInit /\ [][RTNext]_allVars /\ WF_allVars(RTNext)

-----------------------------------------------------------------------------
(* The key as the graph stores it, from its first positive bit on.  Data   *)
(* with no positive bit are stored like a 1 followed by all of them.       *)
Key == [j \in 1..n |-> IF j = 1 THEN 1 ELSE data[start + j - 1]]

(* The decoder, which sees the graph only, tells the nodes that carry a    *)
(* bit from the mute ones as the encoder did, and returns no bit more or   *)
(* less, also when the key ends inside or right after a forward edge       *)
(* (decoder.c:192-208).                                                    *)
DecodedKey == phase = "done" => D!Result = Key

(* Encoder and decoder together are a channel: the key is delivered, and   *)
(* the mute nodes, for which both loops take back i++ (encoder.c:92,       *)
(* decoder.c:202), keep neither of them from ending.                       *)
Channel == INSTANCE KeyChannel WITH
             sent <- Key,
             received <- IF phase = "done" THEN D!Result ELSE <<>>
ImplementsChannel == Channel!ChannelSpec

=============================================================================
