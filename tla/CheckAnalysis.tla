----------------------------- MODULE CheckAnalysis -----------------------------
(***************************************************************************)
(* watermark_check_analysis: the loop of watermark_check once more, which  *)
(* refuses nothing.  It writes one mark for each bit of the key: the bit,  *)
(* or x where the graph does not agree.                                    *)
(***************************************************************************)
EXTENDS Checker, Sequences

VARIABLE marks                      \* bits, as far as it is written

FirstMarks == <<"1">>

Mark(agrees, b) == IF ~agrees THEN "x" ELSE IF b = 1 THEN "1" ELSE "0"

AnalyseMute ==
  /\ Looping /\ Status = "mute"
  /\ SaveStacks
  /\ Goto(graphIdx + 1, i)
  /\ UNCHANGED marks

AnalyseZero ==
  /\ Looping /\ Status = "zero"
  /\ marks' = Append(marks, Mark(bit = 0, 0))
  /\ SaveStacks
  /\ Goto(graphIdx + 1, i + 1)

AnalyseBackedge ==
  /\ Looping /\ Status \in {"back0", "back1"}
  /\ \E w \in BackedgeTargets(edges, graphIdx) :
       /\ BackedgeAgrees(w)
       /\ marks' = Append(marks, Mark(TRUE, bit))
       /\ stack' = [stack EXCEPT ![Possible] = StackPopUntil(@, position[w]),
                                 ![OtherStack(Possible)] = StackPopUntil(@, history[w])]
  /\ UNCHANGED <<history, position>>
  /\ Goto(graphIdx + 1, i + 1)

(* MUTANT: the destination is popped although the bit is wrong *)
AnalyseWrongBackedgePops ==
  /\ Looping /\ Status \in {"back0", "back1"}
  /\ \A w \in BackedgeTargets(edges, graphIdx) : ~BackedgeAgrees(w)
  /\ marks' = Append(marks, "x")
  /\ \E w \in BackedgeTargets(edges, graphIdx) :
       stack' = [stack EXCEPT ![OtherStack(Possible)] = StackPopUntil(@, history[w])]
  /\ UNCHANGED <<history, position>>
  /\ Goto(graphIdx + 1, i + 1)

(* The node becomes a destination like one that has no backedge *)
AnalyseWrongBackedge ==
  /\ Looping /\ Status \in {"back0", "back1"}
  /\ \A w \in BackedgeTargets(edges, graphIdx) : ~BackedgeAgrees(w)
  /\ marks' = Append(marks, "x")
  /\ SaveStacks
  /\ Goto(graphIdx + 1, i + 1)

(* MUTANT: the node inside the forward edge is visited again *)
AnalyseForwardOnce ==
  /\ Looping /\ Status \in {"forward0", "forward1"}
  /\ IF i = NumBits - 1
     THEN marks' = Append(marks, Mark(bit = 1, 1)) /\ Goto(graphIdx + 1, i + 1)
     ELSE /\ \E next \in IF i + 1 < NumBits THEN {key[i + 1]} ELSE {0, 1} :
               marks' = marks \o <<Mark(bit = 1, 1), Mark(next = InnerBit, InnerBit)>>
          /\ Goto(graphIdx + 1, i + 2)
  /\ SaveStacks

(* MUTANT: both bits are written also when the key has one left *)
AnalyseForwardAlwaysTwo ==
  /\ Looping /\ Status \in {"forward0", "forward1"}
  /\ \E next \in IF i + 1 < NumBits THEN {key[i + 1]} ELSE {0, 1} :
       marks' = marks \o <<Mark(bit = 1, 1), Mark(next = InnerBit, InnerBit)>>
  /\ Goto(graphIdx + 2, i + 2)
  /\ SaveStacks

(* Both bits of a forward edge; past the end of the key, where the bit is  *)
(* taken for 0, the next one is read from whatever follows the key         *)
AnalyseForward ==
  /\ Looping /\ Status \in {"forward0", "forward1"}
  /\ IF i = NumBits - 1
     THEN marks' = Append(marks, Mark(bit = 1, 1)) /\ Goto(graphIdx + 2, i + 1)
     ELSE /\ \E next \in IF i + 1 < NumBits THEN {key[i + 1]} ELSE {0, 1} :
               marks' = marks \o <<Mark(bit = 1, 1), Mark(next = InnerBit, InnerBit)>>
          /\ Goto(graphIdx + 2, i + 2)
  /\ SaveStacks

AnalysisStep ==
  \/ AnalyseMute
  \/ AnalyseZero
  \/ AnalyseBackedge
  \/ AnalyseWrongBackedge
  \/ AnalyseForward

Analysed == ~Looping

=============================================================================
