------------------------------- MODULE Decoder -------------------------------
(***************************************************************************)
(* watermark_decode: reads the bits of a graph without knowing the key.    *)
(*                                                                         *)
(* One action is one iteration of the loop over the nodes.  bits is the    *)
(* part of the C array written so far, so the code's i is Len(bits): only  *)
(* the iterations of mute nodes write nothing, and those undo their i++.   *)
(***************************************************************************)
EXTENDS FlowGraph, Sequences

VARIABLES
  edges, numNodes,                  \* the graph, only read
  graphIdx, bits

(* The locals before the loop *)
Begin == graphIdx = 1 /\ bits = <<1>>

nBits == numNodes - 2
Looping == graphIdx < nBits

Mute == graphIdx > 1 /\ Connected(edges, graphIdx - 2, graphIdx)
Forward == Connected(edges, graphIdx, graphIdx + 2)

(* The bit of a node without forward edge: the parity of its backedge *)
BackedgeBit ==
  IF \E w \in BackedgeTargets(edges, graphIdx) : (graphIdx - w) % 2 = 1
  THEN 1 ELSE 0

Advance == graphIdx' = graphIdx + 1 /\ UNCHANGED <<edges, numNodes>>

(* MUTANT: the loop's step is undone instead of the bit's *)
SkipMuteStuck ==
  Looping /\ Mute /\ UNCHANGED <<edges, numNodes, graphIdx, bits>>

SkipMute == Looping /\ Mute /\ bits' = bits /\ Advance

ReadForward == Looping /\ ~Mute /\ Forward /\ bits' = Append(bits, 1) /\ Advance

ReadBackedge ==
  Looping /\ ~Mute /\ ~Forward /\ bits' = Append(bits, BackedgeBit) /\ Advance

Step == SkipMute \/ ReadForward \/ ReadBackedge

(* MUTANT: the third last node is never ignored *)
NeverIgnored == FALSE

(* is_prev_last_forward_destination: if the second last node is a forward  *)
(* edge destination, the third last was read and has to be ignored         *)
PrevLastIsForwardDestination ==
  nBits > 2 /\ Connected(edges, nBits - 2, nBits)

Decoded == ~Looping

(* The bits returned *)
Result ==
  SubSeq(bits, 1, Len(bits) - (IF PrevLastIsForwardDestination THEN 1 ELSE 0))

=============================================================================
