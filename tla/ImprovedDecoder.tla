--------------------------- MODULE ImprovedDecoder ---------------------------
(***************************************************************************)
(* watermark_decode_improved: reads the bits of a graph that may have lost *)
(* connections, with the key at hand to settle what they stood for.        *)
(*                                                                         *)
(* One action is one iteration of the loop.  bits is the part of the C     *)
(* array written so far; i stays a variable of its own because the loop    *)
(* tests it against the length of the key.                                 *)
(***************************************************************************)
EXTENDS BackedgeStacks, Sequences

CONSTANT NumBits                    \* *num_bits: the bits of the key given

VARIABLES
  key, keyBegin,                    \* data and data_begin
  edges, numNodes,                  \* the graph, only read
  graphIdx, i, bits,
  stack, history,
  forwardEdgesLeft,                 \* unsigned: below zero it is huge
  forwardDestination,               \* counts down to an assumed mute node
  lastWas27                         \* node_27_was_the_last

fixed == <<key, keyBegin, edges, numNodes>>
counters == <<forwardEdgesLeft, forwardDestination, lastWas27>>

nBits == numNodes - 2

(* The locals before the loop *)
FirstStack ==
  [odd |-> StackPush(StackCreate(nBits), 0), even |-> StackCreate(nBits)]
FirstHistory == [v \in 0..(2 * nBits - 1) |-> 0]
ForwardEdges == numNodes - 2 - (NumBits - keyBegin)

-----------------------------------------------------------------------------
Looping == graphIdx < nBits /\ keyBegin + i < NumBits
bit == key[keyBegin + i]

OutDegree(v) == Cardinality(Successors(edges, v))
InDegree(v) == Cardinality(Predecessors(edges, v))
OnlyToNext(v) == OutDegree(v) = 1 /\ Connected(edges, v, v + 1)

(* watermark_decode_improved_four_last_are_mute *)
FourLastAreMute ==
  /\ numNodes > 3
  /\ OutDegree(numNodes - 1) = 0
  /\ \A v \in (numNodes - 4)..(numNodes - 2) : OnlyToNext(v)
  /\ \A v \in (numNodes - 4)..(numNodes - 1) : InDegree(v) = 1

(* watermark_decode_improved_sequence_of_three *)
SequenceOfThree ==
  /\ numNodes - graphIdx - 1 > 3
  /\ \A v \in graphIdx..(graphIdx + 2) : OnlyToNext(v)

(* forward_destination after the decrement that starts the iteration *)
Countdown == IF forwardDestination > 0 THEN forwardDestination - 1 ELSE 0

(* MUTANT: the join node of a lost forward edge is not skipped *)
MuteByEdge == graphIdx > 1 /\ Connected(edges, graphIdx - 2, graphIdx)

Mute ==
  \/ graphIdx > 1 /\ Connected(edges, graphIdx - 2, graphIdx)
  \/ Countdown = 1

Possible == PossibleBackedges(graphIdx, bit)

(* The conditions of the else-if chain, in its order *)
Forward == Connected(edges, graphIdx, graphIdx + 2)
Back == ~Forward /\ HasBackedge(edges, graphIdx)
NoPathEdge == ~Forward /\ ~Back /\ ~Connected(edges, graphIdx, graphIdx + 1)
NextHasNoPathEdge ==
  /\ ~Forward /\ ~Back /\ ~NoPathEdge
  /\ ~Connected(edges, graphIdx + 1, graphIdx + 2)
Plain == ~Forward /\ ~Back /\ ~NoPathEdge /\ ~NextHasNoPathEdge
Rule27 ==
  /\ Plain /\ FourLastAreMute
  /\ graphIdx = numNodes - 4 /\ forwardEdgesLeft # 0 /\ bit = 1
Rule28 == Plain /\ ~Rule27 /\ FourLastAreMute /\ graphIdx = numNodes - 3 /\ lastWas27
(* MUTANT: it is not asked whether the node could have had a backedge *)
Rule29Always ==
  Plain /\ ~Rule27 /\ ~Rule28 /\ SequenceOfThree /\ bit = 1

Rule29 ==
  /\ Plain /\ ~Rule27 /\ ~Rule28 /\ SequenceOfThree
  /\ ~HasPossibleBackedge(edges, stack[Possible], graphIdx) /\ bit = 1
PlainZero == Plain /\ ~Rule27 /\ ~Rule29

-----------------------------------------------------------------------------
(* The end of an iteration that does not continue *)
SaveStacks ==
  IF HasForward(edges, graphIdx - 1)
  THEN UNCHANGED <<stack, history>>
  ELSE LET own == OwnStack(graphIdx)
       IN  /\ stack' = [stack EXCEPT ![own] = StackPush(@, graphIdx)]
           /\ history' = [history EXCEPT ![graphIdx] = stack[OtherStack(own)].n]

NextNode == graphIdx' = graphIdx + 1 /\ UNCHANGED fixed
Write(b) == bits' = Append(bits, b) /\ i' = i + 1

SkipMute ==
  /\ Looping /\ Mute
  /\ SaveStacks
  /\ forwardDestination' = Countdown /\ lastWas27' = FALSE
  /\ UNCHANGED <<bits, i, forwardEdgesLeft>>
  /\ NextNode

ReadForward ==
  /\ Looping /\ ~Mute /\ Forward
  /\ Write(1) /\ SaveStacks
  /\ forwardEdgesLeft' = forwardEdgesLeft - 1
  /\ forwardDestination' = Countdown /\ lastWas27' = FALSE
  /\ NextNode

(* The position of the destination in the stack, 0 if it is not there *)
PositionOf(w) ==
  LET s == stack[Possible]
      found == {p \in 0..(s.n - 1) : s.mem[p] = w}
  IN  IF found = {} THEN 0 ELSE CHOOSE p \in found : \A q \in found : p <= q

(* The other stack is cut to the history entry at the position of the      *)
(* destination in its stack, not to that of the destination                *)
CutTo(w) == history[PositionOf(w)]

ReadBackedge ==
  /\ Looping /\ ~Mute /\ Back
  /\ \E w \in BackedgeTargets(edges, graphIdx) :
       /\ Write((graphIdx - w) % 2)
       /\ stack' = [stack EXCEPT ![Possible] = StackPopUntil(@, PositionOf(w)),
                                 ![OtherStack(Possible)] = StackPopUntil(@, CutTo(w))]
  /\ forwardDestination' = Countdown /\ lastWas27' = FALSE
  /\ UNCHANGED <<history, forwardEdgesLeft>>
  /\ NextNode

ReadLostBackedge ==
  /\ Looping /\ ~Mute /\ NoPathEdge
  /\ Write(1) /\ SaveStacks
  /\ forwardDestination' = Countdown /\ lastWas27' = FALSE
  /\ UNCHANGED forwardEdgesLeft
  /\ NextNode

(* Rule 2.6: a while block that lost its forward edge *)
ReadLostForward ==
  /\ Looping /\ ~Mute /\ NextHasNoPathEdge
  /\ Write(1) /\ SaveStacks
  /\ forwardEdgesLeft' = forwardEdgesLeft - 1
  /\ forwardDestination' = 3 /\ lastWas27' = FALSE
  /\ NextNode

(* Rules 2.7 and 2.9: an if block that lost its forward edge *)
AssumeForward ==
  /\ Looping /\ ~Mute /\ (Rule27 \/ Rule29)
  /\ Write(1)
  /\ forwardEdgesLeft' = forwardEdgesLeft - 1
  /\ forwardDestination' = 3
  /\ lastWas27' = (IF Rule27 THEN TRUE ELSE lastWas27)
  /\ UNCHANGED <<stack, history>>
  /\ NextNode

(* Rules 2.8, 2.10 and 2.11 *)
ReadZero ==
  /\ Looping /\ ~Mute /\ PlainZero
  /\ Write(0) /\ SaveStacks
  /\ forwardDestination' = Countdown /\ lastWas27' = FALSE
  /\ UNCHANGED forwardEdgesLeft
  /\ NextNode

Step ==
  \/ SkipMute
  \/ ReadForward
  \/ ReadBackedge
  \/ ReadLostBackedge
  \/ ReadLostForward
  \/ AssumeForward
  \/ ReadZero

Decoded == ~Looping

(* MUTANT: as in watermark_decode, which does not know the key *)
PrevLastWithoutKey == nBits > 2 /\ Connected(edges, nBits - 2, nBits)

PrevLastIsForwardDestination ==
  /\ nBits > 2
  /\ Connected(edges, nBits - 2, nBits)
  /\ keyBegin + i < NumBits

(* The bits returned *)
Result == SubSeq(bits, 1, i - (IF PrevLastIsForwardDestination THEN 1 ELSE 0))

=============================================================================
