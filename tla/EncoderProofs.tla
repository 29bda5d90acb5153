---------------------------- MODULE EncoderProofs ----------------------------
(***************************************************************************)
(* Proofs about the encoder for keys of every length.                      *)
(*                                                                         *)
(* That no access leaves its array rests on how many nodes the loop can    *)
(* visit, which rests on forward edges not overlapping: each adds a node   *)
(* that stands for no bit, and takes the bits of two others.  They do not  *)
(* overlap because the node that opens one is pushed on the very stack     *)
(* that the next node's 1 looks in, so a backedge is possible there.       *)
(***************************************************************************)
EXTENDS EncoderGrammar, FiniteSetTheorems, SequenceTheorems, TLAPS

Forward(v) == <<v, v + 2>> \in edges

(* A connection leads to the next node, to the one after it, or back *)
Shape ==
  \A e \in edges : \/ e[2] = e[1] + 1
                   \/ e[1] < idx /\ e[2] = e[1] + 2
                   \/ e[1] < idx /\ e[2] < e[1]

Apart == \A v \in Nat : Forward(v) => ~Forward(v + 1) /\ ~Forward(v + 2)

(* The start of a forward edge is in its stack when the next node looks    *)
OpenStart ==
  Forward(idx - 1) => /\ stack[OwnStack(idx - 1)].n > 0
                      /\ \A w \in Nat : w < idx - 1 => <<idx - 1, w>> \notin edges

(* Every mute node, visited or ahead, comes with a node added to the graph *)
NodeCount ==
  numNodes = n + 2 + (idx - (i - start))
               + (IF Forward(idx - 1) \/ Forward(idx - 2) THEN 1 ELSE 0)

(* and with two bits already read                                          *)
MuteCount ==
  2 * (idx - (i - start))
    + (IF Forward(idx - 1) THEN 1 ELSE IF Forward(idx - 2) THEN 2 ELSE 0)
  <= i - start - 1

StackBound ==
  /\ 2 * stack["odd"].n <= idx + 1
  /\ 2 * stack["even"].n <= idx
  /\ \A s \in StackNames : \A p \in 0..(n - 1) : stack[s].mem[p] < idx

HistoryBound == \A v \in 0..(2 * n - 1) : 2 * history[v] <= v + 1

IInv ==
  /\ TypeOK /\ i - start <= idx
  /\ Shape /\ Apart /\ OpenStart
  /\ NodeCount /\ MuteCount
  /\ StackBound /\ HistoryBound

-----------------------------------------------------------------------------
(* The number of bits that the graph stands for is positive and constant. *)
LEMMA LengthOfKey ==
  ASSUME TypeOK
  PROVE  /\ n \in Nat \ {0} /\ NumBits \in Nat /\ start \in Int /\ i \in Int
         /\ i - start \in 1..n
         /\ Looping => i - start <= n - 1
  BY NumBitsAssumption DEF TypeOK, n, Looping

(* Forward edges start before the current node, and forward connections *)
(* of the previous node are exactly Forward(idx - 1).                   *)
LEMMA ForwardEdges ==
  ASSUME IInv
  PROVE  /\ \A v \in Int : Forward(v) => v \in 0..(idx - 1)
         /\ HasForward(edges, idx - 1) <=> Forward(idx - 1)
         /\ Mute <=> Forward(idx - 2)
         /\ Inner <=> Forward(idx - 1)
<1>1. idx \in Nat \ {0} /\ numNodes \in Nat
      /\ edges \subseteq (0..(numNodes - 1)) \X (0..(numNodes - 1))
  BY DEF IInv, TypeOK
<1>2. \A v \in Int : Forward(v) => v \in 0..(idx - 1)
  <2> SUFFICES ASSUME NEW v \in Int, <<v, v + 2>> \in edges
               PROVE  v \in 0..(idx - 1)
    BY DEF Forward
  <2>1. v \in 0..(numNodes - 1)
    BY <1>1
  <2>2. v < idx
    BY <1>1, <2>1 DEF IInv, Shape
  <2> QED BY <1>1, <2>1, <2>2
<1>3. HasForward(edges, idx - 1) <=> Forward(idx - 1)
  <2>1. ASSUME NEW e \in edges, e[1] = idx - 1, e[2] > idx
        PROVE  Forward(idx - 1)
    <3>1. e = <<e[1], e[2]>> /\ e[1] \in Int /\ e[2] \in Int
      BY <1>1
    <3>2. e[2] = e[1] + 2
      BY <1>1, <2>1, <3>1 DEF IInv, Shape
    <3> QED BY <2>1, <3>1, <3>2 DEF Forward
  <2>2. ASSUME Forward(idx - 1)
        PROVE  \E e \in edges : e[1] = idx - 1 /\ e[2] > (idx - 1) + 1
    <3>1. <<idx - 1, idx + 1>> \in edges
      BY <1>1, <2>2 DEF Forward
    <3> QED BY <1>1, <3>1
  <2> QED BY <1>1, <2>1, <2>2 DEF HasForward
<1>4. Mute <=> Forward(idx - 2)
  <2>1. Forward(idx - 2) => idx - 2 >= 0
    BY <1>1, <1>2
  <2> QED BY <1>1, <2>1 DEF Mute, Connected, Forward
<1>5. Inner <=> Forward(idx - 1)
  BY <1>1 DEF Inner, Connected, Forward
<1> QED BY <1>2, <1>3, <1>4, <1>5

(* What MuteCount is for: the number of nodes visited is bounded. *)
LEMMA Bounds ==
  ASSUME IInv, Looping
  PROVE  /\ 2 * idx <= 3 * (i - start) - 1
         /\ 2 * idx <= 3 * n - 4
         /\ idx < 2 * n /\ idx + 2 < numNodes
         /\ \A s \in StackNames : stack[s].n \in Nat /\ stack[s].n < n
<1>1. idx \in Nat \ {0} /\ numNodes \in Nat
      /\ n \in Nat \ {0} /\ i - start \in 1..(n - 1)
  BY LengthOfKey DEF IInv, TypeOK
<1>2. 2 * (idx - (i - start)) <= i - start - 1
  <2> DEFINE m == IF Forward(idx - 1) THEN 1 ELSE IF Forward(idx - 2) THEN 2 ELSE 0
  <2>1. m \in Nat /\ 2 * (idx - (i - start)) + m <= i - start - 1
    BY DEF IInv, MuteCount
  <2> HIDE DEF m
  <2> QED BY <1>1, <2>1
<1>3. 2 * idx <= 3 * (i - start) - 1 /\ 2 * idx <= 3 * n - 4 /\ idx < 2 * n
  BY <1>1, <1>2
<1>4. idx + 2 < numNodes
  <2> DEFINE b == IF Forward(idx - 1) \/ Forward(idx - 2) THEN 1 ELSE 0
  <2>1. b \in Nat /\ numNodes = n + 2 + (idx - (i - start)) + b
    BY DEF IInv, NodeCount
  <2> HIDE DEF b
  <2> QED BY <1>1, <2>1
<1>5. ASSUME NEW s \in StackNames
      PROVE  stack[s].n \in Nat /\ stack[s].n < n
  <2>1. stack[s].n \in 0..n /\ 2 * stack[s].n <= idx + 1
    BY <1>1 DEF IInv, TypeOK, StackBound, StackNames
  <2> QED BY <1>1, <1>3, <2>1
<1> QED BY <1>3, <1>4, <1>5

-----------------------------------------------------------------------------
StacksTyped ==
  /\ stack \in [StackNames -> [mem : [0..(n - 1) -> Nat], n : 0..n]]
  /\ history \in [0..(2 * n - 1) -> Nat]

StacksOK == StacksTyped /\ StackBound /\ HistoryBound

(* What holds of the stacks before a node holds of them after it *)
LEMMA KeptStacks ==
  ASSUME IInv, idx' = idx + 1, start' = start, UNCHANGED <<stack, history>>
  PROVE  StacksOK'
<1>1. n' = n
  BY DEF n
<1>2. /\ idx \in Nat \ {0} /\ n \in Nat \ {0}
      /\ StacksTyped /\ StackBound /\ HistoryBound
  BY LengthOfKey DEF IInv, TypeOK, StacksTyped
<1>3. ASSUME NEW s \in StackNames, NEW q \in 0..(n - 1)
      PROVE  stack[s].mem[q] < idx + 1
  <2>1. stack[s].mem[q] \in Nat /\ stack[s].mem[q] < idx
    BY <1>2 DEF StacksTyped, StackBound
  <2> QED BY <1>2, <2>1
<1>4. /\ 2 * stack["odd"].n <= idx + 2
      /\ 2 * stack["even"].n <= idx + 1
  BY <1>2 DEF StacksTyped, StackBound, StackNames
<1>5. StackBound'
  <2>1. /\ 2 * stack'["odd"].n <= idx' + 1
        /\ 2 * stack'["even"].n <= idx'
        /\ \A s \in StackNames : \A q \in 0..(n' - 1) : stack'[s].mem[q] < idx'
    BY <1>1, <1>2, <1>3, <1>4
  <2> QED BY <2>1 DEF StackBound
<1> QED BY <1>1, <1>2, <1>5 DEF StacksOK, StacksTyped, HistoryBound

(* The end of an iteration leaves room in the stacks for the next node: a *)
(* node goes to the stack of its own parity.                              *)
LEMMA SavedStacks ==
  ASSUME IInv, Looping, NEW E, SaveStacks(E), idx' = idx + 1, start' = start
  PROVE  StacksOK'
<1> DEFINE own == OwnStack(idx)
           old == stack[own]
<1>1. n' = n
  BY DEF n
<1>2. /\ idx \in Nat \ {0} /\ n \in Nat \ {0} /\ idx < 2 * n
      /\ StacksTyped /\ StackBound /\ HistoryBound
  BY LengthOfKey, Bounds DEF IInv, TypeOK, StacksTyped
<1>3. CASE UNCHANGED <<stack, history>>
  BY <1>3, KeptStacks
<1>4. CASE ~UNCHANGED <<stack, history>>
  <2>1. /\ stack' = [stack EXCEPT ![own] = StackPush(old, idx)]
        /\ history' = [history EXCEPT ![idx] = stack[OtherStack(own)].n]
    BY <1>4 DEF SaveStacks
  <2>2. own \in StackNames /\ OtherStack(own) \in StackNames
    BY DEF OwnStack, OtherStack, StackNames
  <2>3. /\ old \in [mem : [0..(n - 1) -> Nat], n : 0..n]
        /\ old.n < n
    BY <1>2, <2>2, Bounds DEF StacksTyped
  <2>4. StackPush(old, idx) \in [mem : [0..(n - 1) -> Nat], n : 0..n]
    BY <1>2, <2>3 DEF StackPush
  <2>5. StacksTyped'
    <3>1. stack[OtherStack(own)].n \in Nat
      BY <1>2, <2>2 DEF StacksTyped
    <3> QED BY <1>1, <1>2, <2>1, <2>2, <2>4, <3>1 DEF StacksTyped
  <2>6. StackBound'
    <3>1. /\ stack'[own] = [mem |-> [old.mem EXCEPT ![old.n] = idx], n |-> old.n + 1]
          /\ \A s \in StackNames \ {own} : stack'[s] = stack[s]
      BY <1>2, <2>1, <2>2 DEF StacksTyped, StackPush
    <3>2. /\ 2 * stack'["odd"].n <= idx + 2
          /\ 2 * stack'["even"].n <= idx + 1
      <4>1. /\ stack["odd"].n \in Nat /\ 2 * stack["odd"].n <= idx + 1
            /\ stack["even"].n \in Nat /\ 2 * stack["even"].n <= idx
        BY <1>2 DEF StacksTyped, StackBound, StackNames
      <4>2. CASE idx % 2 = 0
        <5>1. own = "odd" /\ "even" \in StackNames \ {own}
          BY <4>2 DEF OwnStack, IsOdd, StackNames
        <5>2. 2 * stack["odd"].n <= idx
          BY <1>2, <4>1, <4>2
        <5> QED BY <1>2, <3>1, <4>1, <5>1, <5>2
      <4>3. CASE idx % 2 # 0
        <5>1. own = "even" /\ "odd" \in StackNames \ {own}
          BY <4>3 DEF OwnStack, IsOdd, StackNames
        <5>2. 2 * stack["even"].n <= idx - 1
          BY <1>2, <4>1, <4>3
        <5> QED BY <1>2, <3>1, <4>1, <5>1, <5>2
      <4> QED BY <4>2, <4>3
    <3>3. ASSUME NEW s \in StackNames, NEW q \in 0..(n - 1)
          PROVE  stack'[s].mem[q] < idx + 1
      <4>1. stack[s].mem[q] \in Nat /\ stack[s].mem[q] < idx
        BY <1>2 DEF StacksTyped, StackBound
      <4>2. CASE s = own
        <5> DEFINE m == old.mem
        <5>1. stack'[s].mem = [m EXCEPT ![old.n] = idx]
          BY <3>1, <4>2
        <5>2. m \in [0..(n - 1) -> Nat] /\ m[q] < idx
          BY <2>3, <4>1, <4>2
        <5> HIDE DEF m
        <5>3. [m EXCEPT ![old.n] = idx][q] < idx + 1
          BY <1>2, <5>2
        <5> QED BY <5>1, <5>3
      <4>3. CASE s # own
        BY <1>2, <3>1, <4>1, <4>3
      <4> QED BY <4>2, <4>3
    <3>4. /\ 2 * stack'["odd"].n <= idx' + 1
          /\ 2 * stack'["even"].n <= idx'
          /\ \A s \in StackNames : \A q \in 0..(n' - 1) : stack'[s].mem[q] < idx'
      BY <1>1, <1>2, <3>2, <3>3
    <3> QED BY <3>4 DEF StackBound
  <2>7. HistoryBound'
    <3>1. 2 * stack[OtherStack(own)].n <= idx + 1
      BY <1>2, <2>2 DEF StacksTyped, StackBound, StackNames
    <3> QED BY <1>1, <1>2, <2>1, <3>1 DEF StacksTyped, HistoryBound
  <2> QED BY <2>5, <2>6, <2>7 DEF StacksOK
<1> QED BY <1>3, <1>4

(* A position that a backedge may be drawn from *)
LEMMA Drawn ==
  ASSUME IInv, Looping, CanGoBack,
         NEW p \in BackedgeIndexes(edges, stack[Possible], idx)
  PROVE  /\ Possible \in StackNames
         /\ p \in 0..(stack[Possible].n - 1) /\ p \in 0..(n - 1)
         /\ stack[Possible].mem[p] \in 0..(idx - 1)
<1>1. Possible \in StackNames
  BY DEF Possible, PossibleBackedges, StackNames
<1>2. stack[Possible].n \in Nat /\ stack[Possible].n < n /\ n \in Nat
      /\ idx \in Nat \ {0}
      /\ stack[Possible].mem \in [0..(n - 1) -> Nat]
  BY <1>1, Bounds, LengthOfKey DEF IInv, TypeOK
<1>3. BackedgeTargets(edges, idx - 1) = {}
  BY DEF CanGoBack, HasPossibleBackedge, HasBackedge
<1>4. p \in 0..(stack[Possible].n - 1)
  BY <1>2, <1>3 DEF BackedgeIndexes
<1>5. stack[Possible].mem[p] < idx
  BY <1>1, <1>2, <1>4 DEF IInv, StackBound
<1> QED BY <1>1, <1>2, <1>4, <1>5

(* Cutting the stacks keeps them as bounded as the node gone back to *)
LEMMA PoppedStacks ==
  ASSUME IInv, Looping, CanGoBack,
         NEW p \in BackedgeIndexes(edges, stack[Possible], idx),
         stack' = PopStacks(p), history' = history,
         idx' = idx + 1, start' = start
  PROVE  StacksOK'
<1> DEFINE other == OtherStack(Possible)
           w == stack[Possible].mem[p]
<1>1. n' = n
  BY DEF n
<1>2. /\ idx \in Nat \ {0} /\ n \in Nat \ {0} /\ idx < 2 * n
      /\ StacksTyped /\ StackBound /\ HistoryBound
  BY LengthOfKey, Bounds DEF IInv, TypeOK, StacksTyped
<1>3. /\ Possible \in StackNames /\ other \in StackNames /\ other # Possible
      /\ p \in Nat /\ p < stack[Possible].n /\ p <= n
      /\ w \in Nat /\ w < idx
  <2>1. /\ Possible \in StackNames /\ p \in 0..(stack[Possible].n - 1)
        /\ p \in 0..(n - 1) /\ w \in 0..(idx - 1)
    BY Drawn
  <2>2. other \in StackNames /\ other # Possible
    BY <2>1 DEF OtherStack, StackNames
  <2>3. stack[Possible].n \in Nat
    BY <2>1, <1>2 DEF StacksTyped
  <2> HIDE DEF other, w
  <2> QED BY <2>1, <2>2, <2>3, <1>2
<1>4. stack' = [stack EXCEPT ![Possible] = StackPopUntil(@, p),
                             ![other] = StackPopUntil(@, history[w])]
  BY DEF PopStacks
<1> HIDE DEF other, w
<1>5. history[w] \in Nat /\ 2 * history[w] <= idx /\ history[w] <= n
  <2>1. w \in 0..(2 * n - 1) /\ history[w] \in Nat
    BY <1>2, <1>3 DEF StacksTyped
  <2>2. 2 * history[w] <= w + 1
    BY <2>1, <1>2 DEF HistoryBound
  <2> QED BY <1>2, <1>3, <2>1, <2>2
<1>6. /\ stack'[Possible] = [mem |-> stack[Possible].mem, n |-> p]
      /\ stack'[other] = [mem |-> stack[other].mem, n |-> history[w]]
      /\ \A s \in StackNames : s = Possible \/ s = other
      /\ stack' = [s \in StackNames |-> stack'[s]]
  <2>1. DOMAIN stack = StackNames
    BY <1>2 DEF StacksTyped
  <2>2. /\ stack'[Possible] = StackPopUntil(stack[Possible], p)
        /\ stack'[other] = StackPopUntil(stack[other], history[w])
        /\ stack' = [s \in StackNames |-> stack'[s]]
    BY <1>3, <1>4, <2>1
  <2>3. \A s \in StackNames : s = Possible \/ s = other
    BY <1>3 DEF StackNames
  <2> QED BY <2>2, <2>3 DEF StackPopUntil
<1>7. StacksTyped'
  <2>1. stack'[Possible] \in [mem : [0..(n - 1) -> Nat], n : 0..n]
    BY <1>2, <1>3, <1>6 DEF StacksTyped
  <2>2. stack'[other] \in [mem : [0..(n - 1) -> Nat], n : 0..n]
    BY <1>2, <1>3, <1>5, <1>6 DEF StacksTyped
  <2> QED BY <1>1, <1>2, <1>6, <2>1, <2>2 DEF StacksTyped
<1>8. StackBound'
  <2>1. /\ 2 * stack'["odd"].n <= idx + 2
        /\ 2 * stack'["even"].n <= idx + 1
    BY <1>2, <1>3, <1>5, <1>6 DEF StacksTyped, StackBound, StackNames
  <2>2. ASSUME NEW s \in StackNames, NEW q \in 0..(n - 1)
        PROVE  stack'[s].mem[q] < idx + 1
    <3>1. stack[s].mem[q] \in Nat /\ stack[s].mem[q] < idx
      BY <1>2 DEF StacksTyped, StackBound
    <3>2. stack'[s].mem = stack[s].mem
      <4>1. CASE s = Possible
        BY <1>6, <4>1
      <4>2. CASE s = other
        BY <1>6, <4>2
      <4> QED BY <1>6, <4>1, <4>2
    <3> QED BY <1>2, <3>1, <3>2
  <2> QED BY <1>1, <1>2, <2>1, <2>2 DEF StackBound
<1> QED BY <1>1, <1>2, <1>7, <1>8 DEF StacksOK, HistoryBound

-----------------------------------------------------------------------------
(* What every iteration knows of the counters and of the graph before it. *)
LEMMA Iteration ==
  ASSUME IInv, Looping
  PROVE  /\ idx \in Nat \ {0} /\ idx + 2 < numNodes /\ numNodes \in Nat
         /\ n \in Nat \ {0} /\ NumBits \in Nat /\ start \in Int /\ i \in Int
         /\ i < NumBits /\ i >= start + 1 /\ i - start <= idx
         /\ edges \subseteq (0..(numNodes - 1)) \X (0..(numNodes - 1))
         /\ ~Forward(idx)
  BY LengthOfKey, Bounds, ForwardEdges DEF IInv, TypeOK, Looping

(* A node that does not carry a bit: no forward edge is open before or *)
(* after it, and the two counts move by its one.                       *)
LEMMA VisitMuteStep ==
  ASSUME IInv, VisitMute
  PROVE  IInv'
<1>1. /\ Looping /\ Mute /\ SaveStacks(edges) /\ idx' = idx + 1
      /\ UNCHANGED <<data, start, i, edges, numNodes>>
  BY DEF VisitMute
<1>2. n' = n
  BY <1>1 DEF n
<1>3. Forward(idx - 2) /\ ~Forward(idx - 1) /\ ~Forward(idx)
  <2>1. Forward(idx - 2)
    BY <1>1, ForwardEdges
  <2>2. idx - 2 \in Nat /\ (idx - 2) + 1 = idx - 1 /\ (idx - 2) + 2 = idx
    BY <1>1, <2>1, Iteration, ForwardEdges
  <2> QED BY <1>1, <2>1, <2>2, Iteration DEF IInv, Apart
<1>4. StacksOK'
  BY <1>1, SavedStacks
<1>5. TypeOK' /\ (i - start <= idx)'
  BY <1>1, <1>2, <1>4, Iteration DEF IInv, TypeOK, StacksOK, StacksTyped
<1>6. Shape' /\ Apart'
  <2>1. \A e \in edges : e[1] < idx => e[1] < idx + 1
    BY <1>1, Iteration
  <2> QED BY <1>1, <2>1 DEF IInv, Shape, Apart, Forward
<1>7. /\ ~Forward(idx - 1)' /\ ~Forward(idx - 2)'
  BY <1>1, <1>3, Iteration DEF Forward
<1>8. OpenStart' /\ NodeCount' /\ MuteCount'
  BY <1>1, <1>2, <1>3, <1>7, Iteration DEF IInv, OpenStart, NodeCount, MuteCount
<1> QED BY <1>4, <1>5, <1>6, <1>8 DEF IInv, StacksOK

(* The node inside a forward edge, whatever its bit *)
LEMMA BuildInnerStep ==
  ASSUME IInv, BuildWhile \/ BuildIf
  PROVE  IInv'
<1>1. /\ Looping /\ Inner /\ i' = i + 1 /\ idx' = idx + 1
      /\ UNCHANGED <<data, start, numNodes, stack, history>>
      /\ \/ edges' = edges
         \/ edges' = (edges \cup {<<idx, idx - 1>>}) \ {<<idx, idx + 1>>}
  BY DEF BuildWhile, BuildIf, ReadBit
<1>2. n' = n
  BY <1>1 DEF n
<1>3. Forward(idx - 1) /\ ~Forward(idx)
  BY <1>1, Iteration, ForwardEdges
<1>4. \A v \in Int : Forward(v)' <=> Forward(v)
  BY <1>1, Iteration DEF Forward
<1>5. TypeOK' /\ (i - start <= idx)'
  <2>1. edges' \subseteq (0..(numNodes - 1)) \X (0..(numNodes - 1))
    BY <1>1, Iteration
  <2> QED BY <1>1, <1>2, <2>1, Iteration DEF IInv, TypeOK
<1>6. Shape' /\ Apart'
  <2>1. \A e \in edges' : e \in edges \/ e = <<idx, idx - 1>>
    BY <1>1
  <2>2. Shape'
    BY <1>1, <2>1, Iteration DEF IInv, Shape
  <2>3. Apart'
    BY <1>4 DEF IInv, Apart
  <2> QED BY <2>2, <2>3
<1>7. ~Forward(idx - 1)' /\ Forward(idx - 2)'
  BY <1>1, <1>3, <1>4, Iteration DEF Forward
<1>8. OpenStart' /\ NodeCount' /\ MuteCount'
  BY <1>1, <1>2, <1>3, <1>7, Iteration DEF IInv, OpenStart, NodeCount, MuteCount
<1>9. StackBound' /\ HistoryBound'
  BY <1>1, KeptStacks DEF StacksOK
<1> QED BY <1>5, <1>6, <1>8, <1>9 DEF IInv

(* A backedge adds no forward edge *)
LEMMA BuildRepeatStep ==
  ASSUME IInv, BuildRepeat
  PROVE  IInv'
<1>1. PICK p \in BackedgeIndexes(edges, stack[Possible], idx) :
        /\ edges' = edges \cup {<<idx, stack[Possible].mem[p]>>}
        /\ stack' = PopStacks(p)
  BY DEF BuildRepeat
<1>2. /\ Looping /\ ~Mute /\ CanGoBack /\ ~Inner /\ i' = i + 1 /\ idx' = idx + 1
      /\ UNCHANGED <<data, start, numNodes, history>>
  BY DEF BuildRepeat, ReadBit
<1>3. n' = n
  BY <1>2 DEF n
<1> DEFINE w == stack[Possible].mem[p]
<1>4. w \in 0..(idx - 1)
  BY <1>2, Drawn
<1>5. edges' = edges \cup {<<idx, w>>}
  BY <1>1
<1> HIDE DEF w
<1>6. ~Forward(idx) /\ ~Forward(idx - 1) /\ ~Forward(idx - 2)
  BY <1>2, Iteration, ForwardEdges
<1>7. \A v \in Int : Forward(v)' <=> Forward(v)
  BY <1>2, <1>4, <1>5, Iteration DEF Forward
<1>8. StacksOK'
  BY <1>1, <1>2, PoppedStacks
<1>9. TypeOK' /\ (i - start <= idx)'
  <2>1. edges' \subseteq (0..(numNodes - 1)) \X (0..(numNodes - 1))
    BY <1>2, <1>4, <1>5, Iteration
  <2> QED BY <1>2, <1>3, <1>8, <2>1, Iteration DEF IInv, TypeOK, StacksOK, StacksTyped
<1>10. Shape' /\ Apart'
  <2>1. Shape'
    BY <1>2, <1>4, <1>5, Iteration DEF IInv, Shape
  <2>2. Apart'
    BY <1>7 DEF IInv, Apart
  <2> QED BY <2>1, <2>2
<1>11. ~Forward(idx - 1)' /\ ~Forward(idx - 2)'
  BY <1>2, <1>6, <1>7, Iteration DEF Forward
<1>12. OpenStart' /\ NodeCount' /\ MuteCount'
  BY <1>2, <1>3, <1>6, <1>11, Iteration DEF IInv, OpenStart, NodeCount, MuteCount
<1> QED BY <1>8, <1>9, <1>10, <1>12 DEF IInv, StacksOK

(* The node after the start of a forward edge can always go back with a 1: *)
(* the start is in the stack that the 1 looks in, and it does not go back. *)
LEMMA ForwardEdgesDoNotOverlap ==
  ASSUME IInv, Looping, Forward(idx - 1), data[i] = 1
  PROVE  CanGoBack
<1>1. /\ idx \in Nat \ {0} /\ n \in Nat \ {0}
      /\ edges \subseteq (0..(numNodes - 1)) \X (0..(numNodes - 1))
  BY Iteration
<1>2. Possible = OwnStack(idx - 1) /\ Possible \in StackNames
  <2>1. CASE idx % 2 = 0
    <3>1. (idx - 1) % 2 # 0
      BY <1>1, <2>1
    <3> QED BY <2>1, <3>1 DEF Possible, PossibleBackedges, OwnStack, IsOdd, StackNames
  <2>2. CASE idx % 2 # 0
    <3>1. (idx - 1) % 2 = 0
      BY <1>1, <2>2
    <3> QED BY <2>2, <3>1 DEF Possible, PossibleBackedges, OwnStack, IsOdd, StackNames
  <2> QED BY <2>1, <2>2
<1>3. /\ stack[Possible].n > 0
      /\ \A w \in Nat : w < idx - 1 => <<idx - 1, w>> \notin edges
  BY <1>2 DEF IInv, OpenStart
<1>4. ~HasBackedge(edges, idx - 1)
  <2>1. ASSUME NEW w \in 0..((idx - 1) - 1)
        PROVE  <<idx - 1, w>> \notin edges
    <3>1. w \in Nat /\ w < idx - 1
      BY <1>1, <2>1
    <3> QED BY <1>3, <3>1
  <2> QED BY <2>1 DEF HasBackedge, BackedgeTargets, Connected
<1>5. ~Connected(edges, idx - 1, stack[Possible].mem[0])
  <2> DEFINE w == stack[Possible].mem[0]
  <2>1. stack[Possible].mem \in [0..(n - 1) -> Nat] /\ 0 \in 0..(n - 1)
    BY <1>1, <1>2 DEF IInv, TypeOK
  <2>2. w \in Nat /\ w < idx
    BY <1>2, <2>1 DEF IInv, StackBound
  <2> HIDE DEF w
  <2>3. <<idx - 1, idx - 1>> \notin edges
    BY <1>1 DEF IInv, Shape
  <2>4. <<idx - 1, w>> \notin edges
    BY <1>1, <1>3, <2>2, <2>3
  <2> QED BY <2>4 DEF Connected, w
<1> QED BY <1>3, <1>4, <1>5 DEF CanGoBack, HasPossibleBackedge

(* A new forward edge opens where none is open *)
LEMMA OpenForwardStep ==
  ASSUME IInv, OpenForward
  PROVE  IInv'
<1>1. /\ Looping /\ ~Mute /\ ~CanGoBack /\ data[i] = 1
      /\ numNodes' = numNodes + 1
      /\ edges' = edges \cup {<<numNodes - 1, numNodes>>, <<idx, idx + 2>>}
      /\ SaveStacks(edges') /\ i' = i + 1 /\ idx' = idx + 1
      /\ UNCHANGED <<data, start>>
  BY DEF OpenForward, ReadBit
<1>2. n' = n
  BY <1>1 DEF n
<1>3. ~Forward(idx) /\ ~Forward(idx - 1) /\ ~Forward(idx - 2)
  BY <1>1, Iteration, ForwardEdges, ForwardEdgesDoNotOverlap
<1>4. \A v \in Int : Forward(v)' <=> Forward(v) \/ v = idx
  BY <1>1, Iteration DEF Forward
<1>5. StacksOK'
  BY <1>1, SavedStacks
<1>6. TypeOK' /\ (i - start <= idx)'
  <2>1. edges' \subseteq (0..numNodes) \X (0..numNodes)
    <3>1. edges \subseteq (0..numNodes) \X (0..numNodes)
      BY <1>1, Iteration
    <3>2. /\ numNodes - 1 \in 0..numNodes /\ numNodes \in 0..numNodes
          /\ idx \in 0..numNodes /\ idx + 2 \in 0..numNodes
      BY <1>1, Iteration
    <3> QED BY <1>1, <3>1, <3>2
  <2> QED BY <1>1, <1>2, <1>5, <2>1, Iteration DEF IInv, TypeOK, StacksOK, StacksTyped
<1>7. Shape'
  <2>1. ASSUME NEW e \in edges
        PROVE  \/ e[2] = e[1] + 1
               \/ e[1] < idx' /\ e[2] = e[1] + 2
               \/ e[1] < idx' /\ e[2] < e[1]
    BY <1>1, Iteration DEF IInv, Shape
  <2>2. numNodes = (numNodes - 1) + 1 /\ idx < idx'
    BY <1>1, Iteration
  <2> QED BY <1>1, <2>1, <2>2 DEF Shape
<1>8. Apart'
  <2> SUFFICES ASSUME NEW v \in Nat, Forward(v)'
               PROVE  ~Forward(v + 1)' /\ ~Forward(v + 2)'
    BY DEF Apart
  <2>1. \A u \in Int : Forward(u) => u < idx
    BY <1>1, Iteration, ForwardEdges
  <2>2. CASE v = idx
    BY <1>1, <1>4, <2>1, <2>2, Iteration
  <2>3. CASE v # idx
    <3>1. Forward(v) /\ ~Forward(v + 1) /\ ~Forward(v + 2)
      BY <1>4, <2>3 DEF IInv, Apart
    <3>2. v + 1 # idx /\ v + 2 # idx
      <4>1. v + 1 = idx => v = idx - 1
        BY <1>1, Iteration
      <4>2. v + 2 = idx => v = idx - 2
        BY <1>1, Iteration
      <4> QED BY <1>3, <3>1, <4>1, <4>2
    <3> QED BY <1>4, <3>1, <3>2
  <2> QED BY <2>2, <2>3
<1>9. Forward(idx - 1)'
  BY <1>1, Iteration DEF Forward
<1>10. NodeCount' /\ MuteCount'
  BY <1>1, <1>2, <1>3, <1>9, Iteration DEF IInv, NodeCount, MuteCount
<1>11. OpenStart'
  <2>1. stack[OwnStack(idx)].n \in Nat /\ OwnStack(idx) \in StackNames
    BY <1>1, Bounds DEF OwnStack, StackNames
  <2>2. stack'[OwnStack(idx)].n > 0
    <3>1. ~HasForward(edges', idx - 1)
      <4>1. ~HasForward(edges, idx - 1)
        BY <1>3, ForwardEdges
      <4>2. numNodes - 1 # idx - 1 /\ idx # idx - 1
        BY <1>1, Iteration
      <4> QED BY <1>1, <4>1, <4>2 DEF HasForward
    <3>2. stack' = [stack EXCEPT ![OwnStack(idx)] = StackPush(@, idx)]
      BY <1>1, <3>1 DEF SaveStacks
    <3>3. OwnStack(idx) \in DOMAIN stack
      BY <2>1 DEF IInv, TypeOK
    <3>4. stack'[OwnStack(idx)] = StackPush(stack[OwnStack(idx)], idx)
      BY <3>2, <3>3
    <3> QED BY <2>1, <3>4 DEF StackPush
  <2>3. ASSUME NEW w \in Nat, w < idx
        PROVE  <<idx, w>> \notin edges'
    <3>1. <<idx, w>> \notin edges
      BY <1>1, <2>3, Iteration DEF IInv, Shape
    <3> QED BY <1>1, <2>3, <3>1, Iteration
  <2>4. idx' - 1 = idx
    BY <1>1, Iteration
  <2> QED BY <2>2, <2>3, <2>4 DEF OpenStart
<1> QED BY <1>5, <1>6, <1>7, <1>8, <1>10, <1>11 DEF IInv, StacksOK

(* A zero leaves the graph as it is, inside a forward edge or not *)
LEMMA VisitZeroStep ==
  ASSUME IInv, VisitZero
  PROVE  IInv'
<1>1. /\ Looping /\ ~Mute /\ SaveStacks(edges) /\ i' = i + 1 /\ idx' = idx + 1
      /\ UNCHANGED <<data, start, edges, numNodes>>
  BY DEF VisitZero, ReadBit
<1>2. n' = n
  BY <1>1 DEF n
<1>3. ~Forward(idx) /\ ~Forward(idx - 2)
  BY <1>1, Iteration, ForwardEdges
<1>4. StacksOK'
  BY <1>1, SavedStacks
<1>5. TypeOK' /\ (i - start <= idx)'
  BY <1>1, <1>2, <1>4, Iteration DEF IInv, TypeOK, StacksOK, StacksTyped
<1>6. Shape' /\ Apart'
  <2>1. \A e \in edges : e[1] < idx => e[1] < idx + 1
    BY <1>1, Iteration
  <2> QED BY <1>1, <2>1 DEF IInv, Shape, Apart, Forward
<1>7. ~Forward(idx - 1)' /\ (Forward(idx - 2)' <=> Forward(idx - 1))
  BY <1>1, <1>3, Iteration DEF Forward
<1>8. OpenStart' /\ NodeCount' /\ MuteCount'
  BY <1>1, <1>2, <1>3, <1>7, Iteration DEF IInv, OpenStart, NodeCount, MuteCount
<1> QED BY <1>4, <1>5, <1>6, <1>8 DEF IInv, StacksOK

-----------------------------------------------------------------------------
(* The state before the loop satisfies the invariant                      *)
LEMMA InitInv == Init => IInv
<1> SUFFICES ASSUME Init
             PROVE  IInv
  OBVIOUS
<1>1. /\ NumBits \in Nat \ {0} /\ start \in -1..(NumBits - 1) /\ n \in Nat \ {0}
      /\ data \in [0..(NumBits - 1) -> Bit]
      /\ i = start + 1 /\ idx = 1 /\ numNodes = n + 2
  BY NumBitsAssumption DEF Init, FirstPositiveBitIndex, n
<1>2. edges = {<<v, v + 1>> : v \in 0..n}
  BY <1>1 DEF Init, HamiltonianPath
<1>3. /\ edges \subseteq (0..(n + 1)) \X (0..(n + 1))
      /\ \A e \in edges : e[2] = e[1] + 1
      /\ \A v \in Int : ~Forward(v)
  BY <1>1, <1>2 DEF Forward
<1>4. /\ stack["odd"] = [mem |-> [[q \in 0..(n - 1) |-> 0] EXCEPT ![0] = 0], n |-> 0 + 1]
      /\ stack["even"] = [mem |-> [q \in 0..(n - 1) |-> 0], n |-> 0]
      /\ stack = [s \in StackNames |-> stack[s]]
      /\ history = [v \in 0..(2 * n - 1) |-> 0]
  BY DEF Init, StackCreate, StackPush, StackNames
<1>5. StacksTyped
  <2>1. [q \in 0..(n - 1) |-> 0] \in [0..(n - 1) -> Nat]
    OBVIOUS
  <2>2. /\ stack["odd"] \in [mem : [0..(n - 1) -> Nat], n : 0..n]
        /\ stack["even"] \in [mem : [0..(n - 1) -> Nat], n : 0..n]
    BY <1>1, <1>4, <2>1
  <2> QED BY <1>1, <1>4, <2>2 DEF StacksTyped, StackNames
<1>6. StackBound
  BY <1>1, <1>4 DEF StackBound, StackNames
<1>7. HistoryBound
  BY <1>1, <1>4 DEF HistoryBound
<1>8. TypeOK /\ i - start <= idx
  BY <1>1, <1>3, <1>5 DEF TypeOK, StacksTyped
<1>9. Shape /\ Apart /\ OpenStart /\ NodeCount /\ MuteCount
  BY <1>1, <1>3 DEF Shape, Apart, OpenStart, NodeCount, MuteCount
<1> QED BY <1>6, <1>7, <1>8, <1>9 DEF IInv

(* Every iteration of the loop preserves the invariant                    *)
LEMMA StepInv == IInv /\ [Next]_vars => IInv'
<1> SUFFICES ASSUME IInv, [Next]_vars
             PROVE  IInv'
  OBVIOUS
<1>1. CASE VisitMute
  BY <1>1, VisitMuteStep
<1>2. CASE BuildWhile \/ BuildIf
  BY <1>2, BuildInnerStep
<1>3. CASE BuildRepeat
  BY <1>3, BuildRepeatStep
<1>4. CASE OpenForward
  BY <1>4, OpenForwardStep
<1>5. CASE VisitZero
  BY <1>5, VisitZeroStep
<1>6. CASE UNCHANGED vars
  BY <1>6 DEF IInv, vars, TypeOK, Bit, n, Shape, Apart, OpenStart, NodeCount, MuteCount,
              StackBound, HistoryBound, Forward
<1> QED BY <1>1, <1>2, <1>3, <1>4, <1>5, <1>6 DEF Next, Stop

(* The strengthened invariant holds of every reachable state *)
THEOREM Inductive == Spec => []IInv
BY InitInv, StepInv, PTL DEF Spec

(* Every variable of watermark_encode keeps its type, the counts of the    *)
(* two stacks and the nodes of the graph included, for keys of any length. *)
THEOREM TypeCorrect == Spec => []TypeOK
<1>1. IInv => TypeOK
  BY DEF IInv
<1> QED BY <1>1, Inductive, PTL

(* No iteration of watermark_encode touches a node, a history entry or a   *)
(* stack slot that was not allocated, for keys of any length: 2*n entries  *)
(* of history and n of each stack are enough (encoder.c:68-81).            *)
THEOREM AccessesInBounds == Spec => []MemorySafe
<1>1. IInv => MemorySafe
  <2> SUFFICES ASSUME IInv, Looping
               PROVE  /\ idx + 2 < numNodes /\ idx < 2 * n
                      /\ stack[OwnStack(idx)].n < n
                      /\ \A s \in StackNames : \A v \in Entries(stack[s]) : v < idx
    BY DEF MemorySafe
  <2>1. stack[OwnStack(idx)].n < n
    BY Bounds DEF OwnStack, StackNames
  <2>2. ASSUME NEW s \in StackNames, NEW q \in 0..(stack[s].n - 1)
        PROVE  stack[s].mem[q] < idx
    <3>1. q \in 0..(n - 1)
      BY Bounds, Iteration
    <3> QED BY <3>1 DEF IInv, StackBound
  <2> QED BY Bounds, <2>1, <2>2 DEF Entries
<1> QED BY <1>1, Inductive, PTL

-----------------------------------------------------------------------------
(* Closing a repeat block only discards destinations.  stack_pop_until     *)
(* assigns the count of a stack (utils.c:39), so it pops only if the size  *)
(* that was saved with a destination is still at most the count of the     *)
(* other stack.  A count that was saved outlives many pops of the stack it *)
(* is about: it stays valid because a pop that goes below it also discards *)
(* the destination it was saved with.                                      *)

(* The count of the other stack when the entry at position p was pushed *)
SavedCount(s, p) == history[stack[s].mem[p]]

Positions(s) == 0..(stack[s].n - 1)

(* It does not exceed what that stack holds now *)
SavedFits ==
  \A s \in StackNames : \A p \in Positions(s) :
    SavedCount(s, p) <= stack[OtherStack(s)].n

(* The entries it counts were pushed before: they saved at most p *)
SavedCross ==
  \A s \in StackNames : \A p \in Positions(s) :
    \A q \in 0..(SavedCount(s, p) - 1) : SavedCount(OtherStack(s), q) <= p

(* Later entries of a stack saved no less *)
SavedOrdered ==
  \A s \in StackNames : \A p, q \in Positions(s) :
    p < q => SavedCount(s, p) <= SavedCount(s, q)

SavedInv == SavedFits /\ SavedCross /\ SavedOrdered

-----------------------------------------------------------------------------
(* What the positions of the stacks stand for *)
LEMMA Positioned ==
  ASSUME IInv
  PROVE  /\ idx \in Nat \ {0} /\ n \in Nat \ {0}
         /\ \A s \in StackNames :
              /\ OtherStack(s) \in StackNames /\ OtherStack(s) # s
              /\ OtherStack(OtherStack(s)) = s
              /\ \A r \in StackNames : r = s \/ r = OtherStack(s)
              /\ stack[s].n \in Nat /\ stack[s].n <= n
              /\ stack[s].mem \in [0..(n - 1) -> Nat]
         /\ Looping =>
              \A s \in StackNames : \A p \in Positions(s) :
                /\ p \in 0..(n - 1)
                /\ stack[s].mem[p] \in 0..(idx - 1)
                /\ stack[s].mem[p] \in 0..(2 * n - 1)
                /\ SavedCount(s, p) \in Nat
<1>1. /\ idx \in Nat \ {0} /\ n \in Nat \ {0}
      /\ stack \in [StackNames -> [mem : [0..(n - 1) -> Nat], n : 0..n]]
      /\ history \in [0..(2 * n - 1) -> Nat]
  BY LengthOfKey DEF IInv, TypeOK
<1>2. \A s \in StackNames :
        /\ OtherStack(s) \in StackNames /\ OtherStack(s) # s
        /\ OtherStack(OtherStack(s)) = s
        /\ \A r \in StackNames : r = s \/ r = OtherStack(s)
  BY DEF OtherStack, StackNames
<1>3. \A s \in StackNames :
        /\ stack[s].n \in 0..n /\ stack[s].n \in Nat /\ stack[s].n <= n
        /\ stack[s].mem \in [0..(n - 1) -> Nat]
  BY <1>1
<1>4. ASSUME Looping, NEW s \in StackNames, NEW p \in Positions(s)
      PROVE  /\ p \in 0..(n - 1)
             /\ stack[s].mem[p] \in 0..(idx - 1)
             /\ stack[s].mem[p] \in 0..(2 * n - 1)
             /\ SavedCount(s, p) \in Nat
  <2>1. p \in 0..(n - 1)
    BY <1>1, <1>3, <1>4 DEF Positions
  <2>2. stack[s].mem[p] \in Nat /\ stack[s].mem[p] < idx
    BY <1>3, <2>1 DEF IInv, StackBound
  <2>3. idx < 2 * n
    BY <1>4, Bounds
  <2>4. stack[s].mem[p] \in 0..(idx - 1) /\ stack[s].mem[p] \in 0..(2 * n - 1)
    BY <1>1, <2>2, <2>3
  <2> QED BY <1>1, <2>1, <2>4 DEF SavedCount
<1> QED BY <1>1, <1>2, <1>3, <1>4

(* Nothing is saved or popped *)
LEMMA KeptSaved ==
  ASSUME SavedInv, UNCHANGED <<stack, history>>
  PROVE  SavedInv'
BY DEF SavedInv, SavedFits, SavedCross, SavedOrdered, SavedCount, Positions

(* A node saves the whole count of the other stack, which no entry of its  *)
(* own stack exceeds.                                                      *)
LEMMA PushedSaved ==
  ASSUME IInv, SavedInv, Looping, NEW E, SaveStacks(E)
  PROVE  SavedInv'
<1>1. CASE UNCHANGED <<stack, history>>
  BY <1>1, KeptSaved
<1>2. CASE ~UNCHANGED <<stack, history>>
  <2>1. PICK own \in StackNames, other \in StackNames, top \in Nat :
          /\ own = OwnStack(idx) /\ other = OtherStack(own) /\ top = stack[own].n
    <3>1. OwnStack(idx) \in StackNames /\ OtherStack(OwnStack(idx)) \in StackNames
      BY DEF OwnStack, OtherStack, StackNames
    <3>2. stack[OwnStack(idx)].n \in Nat
      BY <3>1, Positioned
    <3> QED BY <3>1, <3>2
  <2>2. /\ other # own /\ OtherStack(own) = other /\ OtherStack(other) = own
        /\ \A r \in StackNames : r = own \/ r = other
        /\ stack[own].n = top /\ top < n /\ stack[other].n \in Nat
        /\ idx \in 0..(2 * n - 1) /\ idx \in Nat /\ n \in Nat
        /\ stack[own].mem \in [0..(n - 1) -> Nat]
        /\ stack' = [stack EXCEPT ![own] = StackPush(@, idx)]
        /\ history' = [history EXCEPT ![idx] = stack[other].n]
    <3>1. /\ stack' = [stack EXCEPT ![own] = StackPush(@, idx)]
          /\ history' = [history EXCEPT ![idx] = stack[other].n]
      BY <1>2, <2>1 DEF SaveStacks
    <3>2. idx < 2 * n /\ top < n
      BY <2>1, Bounds
    <3> QED BY <2>1, <3>1, <3>2, Positioned
  <2>3. /\ stack'[own].n = top + 1 /\ stack'[other] = stack[other]
        /\ stack'[own].mem = [stack[own].mem EXCEPT ![top] = idx]
    <3>1. own \in DOMAIN stack /\ other \in DOMAIN stack
      BY <2>2 DEF IInv, TypeOK
    <3>2. stack'[own] = StackPush(stack[own], idx) /\ stack'[other] = stack[other]
      BY <2>2, <3>1
    <3> QED BY <2>2, <3>2 DEF StackPush
  <2>4. ASSUME NEW s \in StackNames, NEW p \in Positions(s)
        PROVE  SavedCount(s, p)' = SavedCount(s, p)
    <3>1. /\ stack[s].mem[p] \in 0..(idx - 1) /\ stack[s].mem[p] \in 0..(2 * n - 1)
          /\ p \in 0..(n - 1)
      BY <2>4, Positioned
    <3>2. stack'[s].mem[p] = stack[s].mem[p]
      <4>1. CASE s = own
        <5>1. p # top
          BY <2>2, <2>4, <4>1 DEF Positions
        <5> DEFINE m == stack[own].mem
        <5>2. m \in [0..(n - 1) -> Nat] /\ stack'[own].mem = [m EXCEPT ![top] = idx]
          BY <2>2, <2>3
        <5> HIDE DEF m
        <5>3. stack'[own].mem[p] = m[p]
          BY <3>1, <5>1, <5>2
        <5> QED BY <4>1, <5>3 DEF m
      <4>2. CASE s = other
        BY <2>3, <4>2
      <4> QED BY <2>2, <4>1, <4>2
    <3>3. history'[stack[s].mem[p]] = history[stack[s].mem[p]]
      <4>1. stack[s].mem[p] # idx /\ DOMAIN history = 0..(2 * n - 1)
        BY <2>2, <3>1 DEF IInv, TypeOK
      <4> QED BY <2>2, <3>1, <4>1
    <3> QED BY <3>2, <3>3 DEF SavedCount
  <2>5. SavedCount(own, top)' = stack[other].n
    <3>1. stack'[own].mem[top] = idx
      BY <2>2, <2>3
    <3>2. idx \in DOMAIN history
      BY <2>2 DEF IInv, TypeOK
    <3> QED BY <2>2, <3>1, <3>2 DEF SavedCount
  <2>6. /\ Positions(own)' = Positions(own) \cup {top} /\ top \notin Positions(own)
        /\ Positions(other)' = Positions(other)
    BY <2>2, <2>3 DEF Positions
  <2>7. \A s \in StackNames : \A p \in Positions(s) :
           SavedCount(s, p) \in Nat /\ p \in Nat
    BY Positioned
  <2>8. /\ \A p \in Positions(own) : SavedCount(own, p) <= stack[other].n
        /\ \A p \in Positions(other) : SavedCount(other, p) <= top
    BY <2>2 DEF SavedInv, SavedFits
  <2>9. SavedFits'
    <3>1. ASSUME NEW p \in Positions(own)'
          PROVE  SavedCount(own, p)' <= stack'[other].n
      BY <2>2, <2>3, <2>4, <2>5, <2>6, <2>8, <3>1
    <3>2. ASSUME NEW p \in Positions(other)'
          PROVE  SavedCount(other, p)' <= stack'[own].n
      <4>1. SavedCount(other, p)' = SavedCount(other, p) /\ SavedCount(other, p) <= top
        BY <2>2, <2>4, <2>6, <2>8, <3>2
      <4> QED BY <2>2, <2>3, <2>6, <2>7, <3>2, <4>1
    <3> QED BY <2>2, <3>1, <3>2 DEF SavedFits
  <2>10. SavedCross'
    <3>1. ASSUME NEW p \in Positions(own)', NEW q \in 0..(SavedCount(own, p)' - 1)
          PROVE  SavedCount(other, q)' <= p
      <4>1. CASE p = top
        <5>1. q \in Positions(other)
          BY <2>2, <2>5, <3>1, <4>1 DEF Positions
        <5> QED BY <2>2, <2>4, <2>8, <4>1, <5>1
      <4>2. CASE p \in Positions(own)
        <5>1. q \in 0..(SavedCount(own, p) - 1) /\ q \in Positions(other)
          BY <2>2, <2>4, <2>7, <2>8, <3>1, <4>2 DEF Positions
        <5>2. SavedCount(other, q) <= p
          BY <2>2, <4>2, <5>1 DEF SavedInv, SavedCross
        <5> QED BY <2>2, <2>4, <5>1, <5>2
      <4> QED BY <2>6, <3>1, <4>1, <4>2
    <3>2. ASSUME NEW p \in Positions(other)', NEW q \in 0..(SavedCount(other, p)' - 1)
          PROVE  SavedCount(own, q)' <= p
      <4>1. p \in Positions(other) /\ SavedCount(other, p)' = SavedCount(other, p)
        BY <2>2, <2>4, <2>6, <3>2
      <4>2. q \in 0..(SavedCount(other, p) - 1) /\ q \in Positions(own)
        BY <2>2, <2>7, <2>8, <3>2, <4>1 DEF Positions
      <4>3. SavedCount(own, q) <= p
        BY <2>2, <4>1, <4>2 DEF SavedInv, SavedCross
      <4> QED BY <2>2, <2>4, <4>2, <4>3
    <3> QED BY <2>2, <3>1, <3>2 DEF SavedCross
  <2>11. SavedOrdered'
    <3>1. ASSUME NEW p \in Positions(own)', NEW q \in Positions(own)', p < q
          PROVE  SavedCount(own, p)' <= SavedCount(own, q)'
      <4>1. p \in Positions(own)
        <5>1. p \in 0..top /\ q \in 0..top
          BY <2>2, <2>3 DEF Positions
        <5>2. p # top
          BY <3>1, <5>1
        <5> QED BY <2>6, <5>2
      <4>2. CASE q = top
        BY <2>2, <2>4, <2>5, <2>8, <4>1, <4>2
      <4>3. CASE q \in Positions(own)
        BY <2>2, <2>4, <3>1, <4>1, <4>3 DEF SavedInv, SavedOrdered
      <4> QED BY <2>6, <3>1, <4>2, <4>3
    <3>2. ASSUME NEW p \in Positions(other)', NEW q \in Positions(other)', p < q
          PROVE  SavedCount(other, p)' <= SavedCount(other, q)'
      <4>1. SavedCount(other, p) <= SavedCount(other, q)
        BY <2>2, <2>6, <3>2 DEF SavedInv, SavedOrdered
      <4> QED BY <2>2, <2>4, <2>6, <3>2, <4>1
    <3> QED BY <2>2, <3>1, <3>2 DEF SavedOrdered
  <2> QED BY <2>9, <2>10, <2>11 DEF SavedInv
<1> QED BY <1>1, <1>2

(* Closing a block cuts the other stack to what was saved with the node    *)
(* gone back to: the entries that are left saved no more than the cuts.    *)
LEMMA PoppedSaved ==
  ASSUME IInv, SavedInv, BuildRepeat
  PROVE  /\ SavedInv'
         /\ \A s \in StackNames : stack'[s].n <= stack[s].n
<1>1. /\ Looping /\ CanGoBack /\ history' = history
      /\ \E p \in BackedgeIndexes(edges, stack[Possible], idx) : stack' = PopStacks(p)
  BY DEF BuildRepeat
<1>2. PICK cut \in StackNames, other \in StackNames, p \in Nat, h \in Nat :
        /\ p \in Positions(cut) /\ cut = Possible /\ other = OtherStack(cut) /\ h = SavedCount(cut, p)
        /\ stack' = PopStacks(p)
  <2>1. PICK p \in BackedgeIndexes(edges, stack[Possible], idx) : stack' = PopStacks(p)
    BY <1>1
  <2>2. Possible \in StackNames /\ p \in Positions(Possible) /\ p \in Nat
    BY <1>1, Drawn DEF Positions
  <2>3. OtherStack(Possible) \in StackNames /\ SavedCount(Possible, p) \in Nat
    BY <1>1, <2>2, Positioned
  <2> QED BY <2>1, <2>2, <2>3
<1>3. /\ other # cut /\ OtherStack(cut) = other /\ OtherStack(other) = cut
      /\ \A r \in StackNames : r = cut \/ r = other
      /\ stack[cut].n \in Nat /\ stack[other].n \in Nat
      /\ p \in Nat /\ p < stack[cut].n
      /\ \A s \in StackNames : \A q \in Positions(s) : SavedCount(s, q) \in Nat
  BY <1>1, <1>2, Positioned DEF Positions
<1>4. h <= stack[other].n
  BY <1>2, <1>3 DEF SavedInv, SavedFits
<1>5. /\ stack'[cut] = [mem |-> stack[cut].mem, n |-> p]
      /\ stack'[other] = [mem |-> stack[other].mem, n |-> h]
  <2>1. cut \in DOMAIN stack /\ other \in DOMAIN stack
    BY DEF IInv, TypeOK
  <2>2. stack' = [stack EXCEPT ![cut] = StackPopUntil(@, p),
                               ![other] = StackPopUntil(@, h)]
    BY <1>2 DEF PopStacks, SavedCount
  <2>3. /\ stack'[cut] = StackPopUntil(stack[cut], p)
        /\ stack'[other] = StackPopUntil(stack[other], h)
    BY <1>3, <2>1, <2>2
  <2> QED BY <2>3 DEF StackPopUntil
<1>6. /\ Positions(cut)' = 0..(p - 1) /\ Positions(cut)' \subseteq Positions(cut)
      /\ Positions(other)' = 0..(h - 1) /\ Positions(other)' \subseteq Positions(other)
  BY <1>3, <1>4, <1>5 DEF Positions
<1>7. \A s \in StackNames : \A q : SavedCount(s, q)' = SavedCount(s, q)
  BY <1>1, <1>3, <1>5 DEF SavedCount
<1>8. SavedFits'
  <2>1. ASSUME NEW q \in Positions(cut)'
        PROVE  SavedCount(cut, q)' <= stack'[other].n
    <3>1. q \in Positions(cut) /\ q < p
      BY <1>3, <1>6
    <3>2. SavedCount(cut, q) <= h
      BY <1>2, <3>1 DEF SavedInv, SavedOrdered
    <3> QED BY <1>5, <1>7, <3>2
  <2>2. ASSUME NEW q \in Positions(other)'
        PROVE  SavedCount(other, q)' <= stack'[cut].n
    <3>1. q \in 0..(SavedCount(cut, p) - 1)
      BY <1>2, <1>6
    <3>2. SavedCount(other, q) <= p
      BY <1>2, <1>3, <3>1 DEF SavedInv, SavedCross
    <3> QED BY <1>5, <1>7, <3>2
  <2> QED BY <1>3, <2>1, <2>2 DEF SavedFits
<1>9. \A s \in StackNames : Positions(s)' \subseteq Positions(s)
  BY <1>3, <1>6
<1>10. SavedCross'
  <2> SUFFICES ASSUME NEW s \in StackNames, NEW q \in Positions(s)',
                      NEW r \in 0..(SavedCount(s, q)' - 1)
               PROVE  SavedCount(OtherStack(s), r)' <= q
    BY DEF SavedCross
  <2>1. q \in Positions(s) /\ r \in 0..(SavedCount(s, q) - 1)
    BY <1>7, <1>9
  <2>2. SavedCount(OtherStack(s), r) <= q
    BY <2>1 DEF SavedInv, SavedCross
  <2> QED BY <1>3, <1>7, <2>2
<1>11. SavedOrdered'
  <2> SUFFICES ASSUME NEW s \in StackNames, NEW q \in Positions(s)',
                      NEW r \in Positions(s)', q < r
               PROVE  SavedCount(s, q)' <= SavedCount(s, r)'
    BY DEF SavedOrdered
  <2>1. SavedCount(s, q) <= SavedCount(s, r)
    BY <1>9 DEF SavedInv, SavedOrdered
  <2> QED BY <1>7, <2>1
<1>12. \A s \in StackNames : stack'[s].n <= stack[s].n
  BY <1>3, <1>4, <1>5
<1> QED BY <1>8, <1>10, <1>11, <1>12 DEF SavedInv

-----------------------------------------------------------------------------
(* Before the loop only the first node is in a stack, and it saved nothing *)
LEMMA InitSaved == Init => SavedInv
<1> SUFFICES ASSUME Init
             PROVE  SavedInv
  OBVIOUS
<1>1. n \in Nat \ {0}
  BY InitInv, LengthOfKey DEF IInv
<1>2. /\ stack["odd"] = [mem |-> [[q \in 0..(n - 1) |-> 0] EXCEPT ![0] = 0], n |-> 0 + 1]
      /\ stack["even"] = [mem |-> [q \in 0..(n - 1) |-> 0], n |-> 0]
      /\ history = [v \in 0..(2 * n - 1) |-> 0]
  BY DEF Init, StackCreate, StackPush
<1>3. Positions("odd") = {0} /\ Positions("even") = {}
  BY <1>2 DEF Positions
<1>4. SavedCount("odd", 0) = 0
  BY <1>1, <1>2 DEF SavedCount
<1>5. \A s \in StackNames : \A p \in Positions(s) : s = "odd" /\ p = 0
  BY <1>3 DEF StackNames
<1>6. stack["even"].n = 0 /\ OtherStack("odd") = "even"
  BY <1>2 DEF OtherStack
<1> QED BY <1>4, <1>5, <1>6 DEF SavedInv, SavedFits, SavedCross, SavedOrdered

(* Every iteration keeps the saved counts valid *)
LEMMA StepSaved == IInv /\ SavedInv /\ [Next]_vars => SavedInv'
<1> SUFFICES ASSUME IInv, SavedInv, [Next]_vars
             PROVE  SavedInv'
  OBVIOUS
<1>1. CASE VisitMute
  BY <1>1, PushedSaved DEF VisitMute
<1>2. CASE BuildWhile \/ BuildIf
  BY <1>2, KeptSaved DEF BuildWhile, BuildIf
<1>3. CASE BuildRepeat
  BY <1>3, PoppedSaved
<1>4. CASE OpenForward
  BY <1>4, PushedSaved DEF OpenForward
<1>5. CASE VisitZero
  BY <1>5, PushedSaved DEF VisitZero
<1>6. CASE UNCHANGED vars
  BY <1>6, KeptSaved DEF vars
<1> QED BY <1>1, <1>2, <1>3, <1>4, <1>5, <1>6 DEF Next, Stop

(* The counts that watermark_encode saves in history are valid for every   *)
(* destination still in a stack (encoder.c:143-147).                       *)
THEOREM SavedCountsValid == Spec => []SavedInv
BY InitInv, StepInv, InitSaved, StepSaved, PTL DEF Spec

(* Closing a repeat block never raises the count of a stack, for keys of   *)
(* any length: stack_pop_until (utils.c:39) only ever pops in              *)
(* watermark_encode (encoder.c:118-120).                                   *)
THEOREM NothingComesBack == Spec => RewindsOnlyPop
<1>1. /\ IInv /\ SavedInv
      => [BuildRepeat => \A s \in StackNames : stack'[s].n <= stack[s].n]_vars
  BY PoppedSaved
<1> QED BY <1>1, Inductive, SavedCountsValid, PTL DEF RewindsOnlyPop

-----------------------------------------------------------------------------
(***************************************************************************)
(* Proof that the two stacks of the encoder hold exactly the nodes that    *)
(* the graph leaves open, and that its blocks nest, for keys of every      *)
(* length.  An iteration looks at one or two of the edges and at one stack *)
(* only.                                                                   *)
(*                                                                         *)
(* A stack is ordered, and the count that was saved with a node separates  *)
(* the entries of the other stack before the node from those after it.  So *)
(* cutting both stacks at a node is cutting the nodes from there on.       *)
(***************************************************************************)
Entry(s, p) == stack[s].mem[p]

Sorted ==
  \A s \in StackNames : \A p, q \in Positions(s) : p < q => Entry(s, p) < Entry(s, q)

(* A saved count tells the earlier entries of the other stack from later ones *)
Split ==
  \A s \in StackNames : \A p \in Positions(s) : \A q \in Positions(OtherStack(s)) :
    q < SavedCount(s, p) <=> Entry(OtherStack(s), q) < Entry(s, p)

OwnParity ==
  \A s \in StackNames : \A p \in Positions(s) : OwnStack(Entry(s, p)) = s

StacksOrdered == Sorted /\ Split /\ OwnParity

-----------------------------------------------------------------------------
Back(u, v) == v < u /\ <<u, v>> \in edges

(* A backedge that closes a repeat block, and not a while *)
Repeats(u, v) == Back(u, v) /\ ~Forward(u - 1)

(* w lies in a repeat block that is closed, its two ends included *)
Within(w) == \E u, v \in Nat : Repeats(u, v) /\ v <= w /\ w <= u

IsOpen(w) == w < idx /\ ~Forward(w - 1) /\ ~Within(w)
InStack(w) == \E s \in StackNames : \E p \in Positions(s) : Entry(s, p) = w

ExactlyOpen == \A w \in 0..(idx - 1) : InStack(w) <=> IsOpen(w)

OpenInv == StacksOrdered /\ ExactlyOpen

-----------------------------------------------------------------------------
(* The node inside a while block has left the path *)
OnPath ==
  \A v \in 0..(numNodes - 2) :
    <<v, v + 1>> \notin edges <=> Forward(v - 1) /\ Back(v, v - 1)

(* A backedge does not leave the start of a forward edge, it leaves the    *)
(* node inside one for its start only, and it leads into none              *)
BackedgeEnds ==
  \A u, v \in Nat : Back(u, v) =>
    /\ ~Forward(u) /\ ~Forward(v - 1)
    /\ Forward(u - 1) => v = u - 1

(* A node has one backedge; two of them enclose each other or lie apart;   *)
(* repeat blocks do not start at the same node                             *)
Nested ==
  \A u, v, x, y \in Nat : Back(u, v) /\ Back(x, y) =>
    /\ u = x => v = y
    /\ u < x => y <= v \/ y > u
    /\ u < x /\ Repeats(u, v) /\ Repeats(x, y) => v # y

NestInv == OnPath /\ BackedgeEnds /\ Nested

-----------------------------------------------------------------------------
(* The current node is pushed, and the count of the other stack saved *)
PushNode ==
  LET own == OwnStack(idx)
  IN  /\ stack' = [stack EXCEPT ![own] = StackPush(@, idx)]
      /\ history' = [history EXCEPT ![idx] = stack[OtherStack(own)].n]

(* A node is pushed: the entries that were there stay as they are, and     *)
(* what is saved with the new one is the count of the other stack          *)
LEMMA Pushed ==
  ASSUME IInv, Looping, PushNode, NEW own \in StackNames, own = OwnStack(idx),
         NEW top \in Nat, top = stack[own].n
  PROVE  /\ \A s \in StackNames : \A p \in Positions(s) :
              /\ p \in Positions(s)' /\ Entry(s, p)' = Entry(s, p)
              /\ SavedCount(s, p)' = SavedCount(s, p)
         /\ \A s \in StackNames : \A p \in Positions(s)' :
              p \in Positions(s) \/ (s = own /\ p = top)
         /\ top \in Positions(own)' /\ Entry(own, top)' = idx
         /\ SavedCount(own, top)' = stack[OtherStack(own)].n
<1>1. PICK other \in StackNames : other = OtherStack(own)
  BY DEF OtherStack, StackNames
<1>2. /\ own \in StackNames /\ other # own
      /\ \A r \in StackNames : r = own \/ r = other
      /\ stack[own].n = top /\ top < n /\ stack[other].n \in Nat
      /\ idx \in 0..(2 * n - 1) /\ idx \in Nat /\ n \in Nat
      /\ stack[own].mem \in [0..(n - 1) -> Nat]
  <2>1. own \in StackNames /\ other # own /\ \A r \in StackNames : r = own \/ r = other
    BY <1>1 DEF OwnStack, OtherStack, StackNames
  <2>2. idx < 2 * n /\ top < n
    BY <1>1, <2>1, Bounds
  <2> QED
    BY <1>1, <2>1, <2>2, Positioned
<1>3. /\ stack'[own].n = top + 1 /\ stack'[other] = stack[other]
      /\ stack'[own].mem = [stack[own].mem EXCEPT ![top] = idx]
  <2>1. own \in DOMAIN stack /\ other \in DOMAIN stack
    BY <1>1, <1>2 DEF IInv, TypeOK
  <2>2. stack'[own] = StackPush(stack[own], idx) /\ stack'[other] = stack[other]
    BY <1>2, <2>1 DEF PushNode
  <2>3. stack'[own] = [mem |-> [stack[own].mem EXCEPT ![top] = idx], n |-> top + 1]
    BY <1>2, <2>2 DEF StackPush
  <2> QED
    BY <2>2, <2>3
<1>4. ASSUME NEW s \in StackNames, NEW p \in Positions(s)
      PROVE  Entry(s, p)' = Entry(s, p) /\ SavedCount(s, p)' = SavedCount(s, p)
  <2>1. /\ stack[s].mem[p] \in 0..(idx - 1) /\ stack[s].mem[p] \in 0..(2 * n - 1)
        /\ p \in 0..(n - 1)
    BY Positioned
  <2>2. stack'[s].mem[p] = stack[s].mem[p]
    <3>1. CASE s = own
      <4>1. p # top
        BY <1>2, <3>1 DEF Positions
      <4> DEFINE m == stack[own].mem
      <4>2. m \in [0..(n - 1) -> Nat] /\ stack'[own].mem = [m EXCEPT ![top] = idx]
        BY <1>2, <1>3
      <4> HIDE DEF m
      <4>3. stack'[own].mem[p] = m[p]
        BY <2>1, <4>1, <4>2
      <4> QED
        BY <3>1, <4>3 DEF m
    <3>2. CASE s = other
      BY <1>3, <3>2
    <3> QED
      BY <1>2, <3>1, <3>2
  <2>3. history'[stack[s].mem[p]] = history[stack[s].mem[p]]
    <3>1. stack[s].mem[p] # idx /\ DOMAIN history = 0..(2 * n - 1)
      BY <1>2, <2>1 DEF IInv, TypeOK
    <3> QED
      BY <1>2, <2>1, <3>1 DEF PushNode
  <2> QED
    BY <2>2, <2>3 DEF Entry, SavedCount
<1>5. Entry(own, top)' = idx /\ SavedCount(own, top)' = stack[other].n
  <2>1. stack'[own].mem[top] = idx
    BY <1>2, <1>3
  <2>2. history'[idx] = stack[other].n
    <3>1. idx \in DOMAIN history
      BY <1>2 DEF IInv, TypeOK
    <3> QED
      BY <1>1, <3>1 DEF PushNode
  <2> QED
    BY <2>1, <2>2 DEF Entry, SavedCount
<1>6. ASSUME NEW s \in StackNames, NEW p \in Positions(s)
      PROVE  p \in Positions(s)'
  BY <1>2, <1>3 DEF Positions
<1>7. ASSUME NEW s \in StackNames, NEW p \in Positions(s)'
      PROVE  p \in Positions(s) \/ (s = own /\ p = top)
  BY <1>2, <1>3 DEF Positions
<1>8. top \in Positions(own)'
  BY <1>2, <1>3 DEF Positions
<1> QED
  BY <1>1, <1>4, <1>5, <1>6, <1>7, <1>8

(* The new entry comes after all others of both stacks *)
LEMMA PushedOrdered ==
  ASSUME IInv, SavedInv, StacksOrdered, Looping, PushNode,
         NEW own \in StackNames, own = OwnStack(idx), NEW top \in Nat, top = stack[own].n
  PROVE  StacksOrdered'
<1>1. /\ \A s \in StackNames : \A p \in Positions(s) :
           /\ Entry(s, p)' = Entry(s, p) /\ SavedCount(s, p)' = SavedCount(s, p)
      /\ \A s \in StackNames : \A p \in Positions(s)' :
           p \in Positions(s) \/ (s = own /\ p = top)
      /\ Entry(own, top)' = idx /\ SavedCount(own, top)' = stack[OtherStack(own)].n
  BY Pushed
<1>2. /\ own \in StackNames /\ idx \in Nat /\ top \in Nat
      /\ OtherStack(own) \in StackNames /\ OtherStack(own) # own
      /\ \A s \in StackNames : OtherStack(OtherStack(s)) = s /\ OtherStack(s) \in StackNames
      /\ \A s \in StackNames : OtherStack(s) # s
      /\ \A s \in StackNames : stack[s].n \in Nat
  <2>1. own \in StackNames
    BY DEF OwnStack, StackNames
  <2> QED
    BY <2>1, Positioned
<1>3. \A s \in StackNames : \A p \in Positions(s) :
        /\ Entry(s, p) \in 0..(idx - 1) /\ Entry(s, p) < idx
        /\ p \in Nat /\ p < stack[s].n /\ SavedCount(s, p) \in Nat
        /\ SavedCount(s, p) <= stack[OtherStack(s)].n
  <2> SUFFICES ASSUME NEW s \in StackNames, NEW p \in Positions(s)
               PROVE  /\ Entry(s, p) \in 0..(idx - 1) /\ Entry(s, p) < idx
                      /\ p \in Nat /\ p < stack[s].n /\ SavedCount(s, p) \in Nat
                      /\ SavedCount(s, p) <= stack[OtherStack(s)].n
    OBVIOUS
  <2>1. Entry(s, p) \in 0..(idx - 1) /\ SavedCount(s, p) \in Nat
    BY Positioned DEF Entry
  <2>2. SavedCount(s, p) <= stack[OtherStack(s)].n
    BY DEF SavedInv, SavedFits
  <2> QED
    BY <1>2, <2>1, <2>2 DEF Positions
<1>4. Sorted'
  <2> SUFFICES ASSUME NEW s \in StackNames, NEW p \in Positions(s)', NEW q \in Positions(s)',
                      p < q
               PROVE  Entry(s, p)' < Entry(s, q)'
    BY DEF Sorted
  <2>1. CASE p \in Positions(s) /\ q \in Positions(s)
    BY <1>1, <2>1 DEF StacksOrdered, Sorted
  <2>2. CASE p \in Positions(s) /\ s = own /\ q = top
    BY <1>1, <1>3, <2>2
  <2>3. CASE s = own /\ p = top
    BY <1>1, <1>2, <1>3, <2>3
  <2> QED
    BY <1>1, <2>1, <2>2, <2>3
<1>5. Split'
  <2> SUFFICES ASSUME NEW s \in StackNames, NEW p \in Positions(s)',
                      NEW q \in Positions(OtherStack(s))'
               PROVE  q < SavedCount(s, p)' <=> Entry(OtherStack(s), q)' < Entry(s, p)'
    BY DEF Split
  <2>1. CASE p \in Positions(s) /\ q \in Positions(OtherStack(s))
    BY <1>1, <1>2, <2>1 DEF StacksOrdered, Split
  <2>2. CASE s = own /\ p = top /\ q \in Positions(OtherStack(s))
    BY <1>1, <1>2, <1>3, <2>2
  <2>3. CASE p \in Positions(s) /\ OtherStack(s) = own /\ q = top
    <3>1. SavedCount(s, p) <= top /\ s = OtherStack(own)
      BY <1>2, <1>3, <2>3
    <3> QED
      BY <1>1, <1>2, <1>3, <2>3, <3>1
  <2> QED
    BY <1>1, <1>2, <2>1, <2>2, <2>3
<1>6. OwnParity'
  <2> SUFFICES ASSUME NEW s \in StackNames, NEW p \in Positions(s)'
               PROVE  OwnStack(Entry(s, p)') = s
    BY DEF OwnParity
  <2>1. CASE p \in Positions(s)
    BY <1>1, <2>1 DEF StacksOrdered, OwnParity
  <2>2. CASE s = own /\ p = top
    BY <1>1, <2>2
  <2> QED
    BY <1>1, <2>1, <2>2
<1> QED
  BY <1>4, <1>5, <1>6 DEF StacksOrdered

(* Both stacks are cut at w, an entry of one of them: what is left are the *)
(* entries before w                                                        *)
LEMMA PoppedOrdered ==
  ASSUME IInv, SavedInv, StacksOrdered, BuildRepeat
  PROVE  /\ StacksOrdered'
         /\ \E w \in 0..(idx - 1) :
              /\ edges' = edges \cup {<<idx, w>>}
              /\ InStack(w) /\ OwnStack(w) = Possible
              /\ \A v \in Nat : InStack(v)' <=> InStack(v) /\ v < w
<1>1. PICK p \in BackedgeIndexes(edges, stack[Possible], idx) :
        edges' = edges \cup {<<idx, stack[Possible].mem[p]>>} /\ stack' = PopStacks(p)
  BY DEF BuildRepeat
<1>2. /\ Looping /\ CanGoBack /\ history' = history
  BY DEF BuildRepeat
<1>3. PICK cut \in StackNames, other \in StackNames, w \in 0..(idx - 1), h \in Nat :
        /\ cut = Possible /\ other = OtherStack(cut)
        /\ p \in Positions(cut) /\ p \in Nat /\ w = Entry(cut, p) /\ h = SavedCount(cut, p)
  <2>1. Possible \in StackNames /\ p \in Positions(Possible) /\ p \in Nat
    BY <1>1, <1>2, Drawn DEF Positions
  <2>2. OtherStack(Possible) \in StackNames /\ SavedCount(Possible, p) \in Nat
    BY <1>2, <2>1, Positioned
  <2>3. Entry(Possible, p) \in 0..(idx - 1)
    BY <1>2, <2>1, Positioned DEF Entry
  <2> QED
    BY <2>1, <2>2, <2>3
<1>4. /\ other # cut /\ OtherStack(cut) = other /\ OtherStack(other) = cut
      /\ \A r \in StackNames : r = cut \/ r = other
      /\ stack[cut].n \in Nat /\ stack[other].n \in Nat /\ idx \in Nat
      /\ p < stack[cut].n /\ h <= stack[other].n
  BY <1>2, <1>3, Positioned DEF Positions, SavedInv, SavedFits
<1>5. /\ stack'[cut] = [mem |-> stack[cut].mem, n |-> p]
      /\ stack'[other] = [mem |-> stack[other].mem, n |-> h]
  <2>1. cut \in DOMAIN stack /\ other \in DOMAIN stack
    BY DEF IInv, TypeOK
  <2>2. stack' = [stack EXCEPT ![cut] = StackPopUntil(@, p),
                               ![other] = StackPopUntil(@, h)]
    BY <1>1, <1>3 DEF PopStacks, SavedCount
  <2>3. /\ stack'[cut] = StackPopUntil(stack[cut], p)
        /\ stack'[other] = StackPopUntil(stack[other], h)
    BY <1>4, <2>1, <2>2
  <2> QED
    BY <2>3 DEF StackPopUntil
<1>6. /\ \A q : q \in Positions(cut)' <=> q \in Positions(cut) /\ q < p
      /\ \A q : q \in Positions(other)' <=> q \in Positions(other) /\ q < h
  BY <1>3, <1>4, <1>5 DEF Positions
<1>7. \A s \in StackNames : \A q :
        /\ SavedCount(s, q)' = SavedCount(s, q) /\ Entry(s, q)' = Entry(s, q)
        /\ q \in Positions(s)' => q \in Positions(s)
  BY <1>2, <1>4, <1>5, <1>6 DEF SavedCount, Entry
<1>8. StacksOrdered'
  <2>1. Sorted'
    BY <1>7 DEF StacksOrdered, Sorted
  <2>2. Split'
    BY <1>4, <1>7 DEF StacksOrdered, Split
  <2>3. OwnParity'
    BY <1>7 DEF StacksOrdered, OwnParity
  <2> QED
    BY <2>1, <2>2, <2>3 DEF StacksOrdered
<1>9. \A q \in Positions(cut) : q < p <=> Entry(cut, q) < w
  <2> SUFFICES ASSUME NEW q \in Positions(cut) PROVE q < p <=> Entry(cut, q) < w
    OBVIOUS
  <2>1. q \in Nat /\ Entry(cut, q) \in Nat
    BY <1>2, <1>4, Positioned DEF Positions, Entry
  <2>2. /\ q < p => Entry(cut, q) < Entry(cut, p)
        /\ p < q => Entry(cut, p) < Entry(cut, q)
    BY <1>3 DEF StacksOrdered, Sorted
  <2> QED
    BY <1>3, <2>1, <2>2
<1>10. \A q \in Positions(other) : q < h <=> Entry(other, q) < w
  BY <1>3, <1>4 DEF StacksOrdered, Split
<1>11. \A v \in Nat : InStack(v)' <=> InStack(v) /\ v < w
  <2> SUFFICES ASSUME NEW v \in Nat PROVE InStack(v)' <=> InStack(v) /\ v < w
    OBVIOUS
  <2>1. InStack(v)' <=> \E s \in StackNames : \E q \in Positions(s)' : Entry(s, q) = v
    BY <1>7 DEF InStack
  <2>2. \A s \in StackNames : \A q : q \in Positions(s)' <=> q \in Positions(s) /\ Entry(s, q) < w
    BY <1>4, <1>6, <1>9, <1>10
  <2> QED
    BY <2>1, <2>2 DEF InStack
<1>12. /\ InStack(w) /\ OwnStack(w) = Possible
       /\ edges' = edges \cup {<<idx, w>>}
  <2>1. InStack(w)
    BY <1>3 DEF InStack
  <2>2. OwnStack(w) = Possible
    BY <1>3 DEF StacksOrdered, OwnParity
  <2>3. edges' = edges \cup {<<idx, w>>}
    BY <1>1, <1>3 DEF Entry
  <2> QED
    BY <2>1, <2>2, <2>3
<1> QED
  BY <1>3, <1>8, <1>11, <1>12

-----------------------------------------------------------------------------
(* Forward edges and backedges leave nodes that have been visited *)
LEMMA EdgesBehind ==
  ASSUME IInv
  PROVE  /\ idx \in Nat \ {0}
         /\ \A v \in Int : Forward(v) => v \in 0..(idx - 1) /\ ~Forward(v + 1) /\ ~Forward(v + 2)
         /\ \A u, v \in Int : Back(u, v) => u \in 0..(idx - 1) /\ v \in 0..(idx - 1)
<1>1. /\ idx \in Nat \ {0} /\ numNodes \in Nat
      /\ edges \subseteq (0..(numNodes - 1)) \X (0..(numNodes - 1))
  BY DEF IInv, TypeOK
<1>2. ASSUME NEW v \in Int, Forward(v)
      PROVE  v \in 0..(idx - 1) /\ ~Forward(v + 1) /\ ~Forward(v + 2)
  <2>1. v \in 0..(idx - 1)
    BY <1>2, ForwardEdges
  <2> QED
    BY <1>1, <1>2, <2>1 DEF IInv, Apart
<1>3. ASSUME NEW u \in Int, NEW v \in Int, Back(u, v)
      PROVE  u \in 0..(idx - 1) /\ v \in 0..(idx - 1)
  <2>1. <<u, v>> \in edges /\ v < u
    BY <1>3 DEF Back
  <2>2. u \in Nat /\ v \in Nat
    BY <1>1, <2>1
  <2>3. u < idx
    BY <1>1, <2>1, <2>2 DEF IInv, Shape
  <2> QED
    BY <1>1, <2>1, <2>2, <2>3
<1> QED
  BY <1>1, <1>2, <1>3

(* What is in a stack has been visited *)
LEMMA StackedBehind ==
  ASSUME IInv, Looping
  PROVE  \A w \in Int : InStack(w) => w \in 0..(idx - 1)
  BY Positioned DEF InStack, Entry

(* A node is pushed where no forward edge is open *)
LEMMA SavedNodes ==
  ASSUME IInv, SavedInv, StacksOrdered, Looping, NEW E, SaveStacks(E),
         HasForward(E, idx - 1) <=> Forward(idx - 1)
  PROVE  /\ StacksOrdered'
         /\ \A w \in Nat : InStack(w)' <=> InStack(w) \/ (w = idx /\ ~Forward(idx - 1))
<1>1. CASE Forward(idx - 1)
  <2>1. stack' = stack /\ history' = history
    BY <1>1 DEF SaveStacks
  <2>2. StacksOrdered'
    BY <2>1 DEF StacksOrdered, Sorted, Split, OwnParity, Positions, SavedCount, Entry
  <2>3. \A w \in Nat : InStack(w)' <=> InStack(w)
    BY <2>1 DEF InStack, Positions, Entry
  <2> QED
    BY <1>1, <2>2, <2>3
<1>2. CASE ~Forward(idx - 1)
  <2>1. PushNode
    BY <1>2 DEF SaveStacks, PushNode
  <2>2. PICK own \in StackNames, top \in Nat : own = OwnStack(idx) /\ top = stack[own].n
    <3>1. OwnStack(idx) \in StackNames
      BY DEF OwnStack, StackNames
    <3> QED
      BY <3>1, Positioned
  <2>3. StacksOrdered'
    BY <2>1, <2>2, PushedOrdered
  <2>4. /\ \A s \in StackNames : \A p \in Positions(s) :
             p \in Positions(s)' /\ Entry(s, p)' = Entry(s, p)
        /\ \A s \in StackNames : \A p \in Positions(s)' :
             p \in Positions(s) \/ (s = own /\ p = top)
        /\ top \in Positions(own)' /\ Entry(own, top)' = idx
    BY <2>1, <2>2, Pushed
  <2>5. ASSUME NEW w \in Nat
        PROVE  InStack(w)' <=> InStack(w) \/ w = idx
    <3>1. ASSUME InStack(w)'
          PROVE  InStack(w) \/ w = idx
      <4> PICK s \in StackNames : \E p \in Positions(s)' : Entry(s, p)' = w
        BY <3>1 DEF InStack
      <4>1. PICK p \in Positions(s)' : Entry(s, p)' = w
        OBVIOUS
      <4>2. CASE p \in Positions(s)
        BY <2>4, <4>1, <4>2 DEF InStack
      <4>3. CASE s = own /\ p = top
        BY <2>4, <4>1, <4>3
      <4> QED
        BY <2>4, <4>2, <4>3
    <3>2. ASSUME InStack(w)
          PROVE  InStack(w)'
      <4> PICK s \in StackNames : \E p \in Positions(s) : Entry(s, p) = w
        BY <3>2 DEF InStack
      <4>1. PICK p \in Positions(s) : Entry(s, p) = w
        OBVIOUS
      <4>2. p \in Positions(s)' /\ Entry(s, p)' = w
        BY <2>4, <4>1
      <4> QED
        BY <4>2 DEF InStack
    <3>3. ASSUME w = idx
          PROVE  InStack(w)'
      BY <2>4, <3>3 DEF InStack
    <3> QED
      BY <3>1, <3>2, <3>3
  <2> QED
    BY <1>2, <2>3, <2>5
<1> QED
  BY <1>1, <1>2

(* A step that closes no repeat block leaves open what was open, and the   *)
(* current node if it is inside no forward edge                            *)
LEMMA OpenKept ==
  ASSUME IInv, Looping, ExactlyOpen, idx' = idx + 1,
         \A v \in Int : v < idx => (Forward(v)' <=> Forward(v)),
         \A u, v \in Nat : Repeats(u, v)' <=> Repeats(u, v),
         \A w \in Nat : InStack(w)' <=> InStack(w) \/ (w = idx /\ ~Forward(idx - 1))
  PROVE  ExactlyOpen'
<1>1. idx \in Nat \ {0}
  BY EdgesBehind
<1>2. \A w \in Nat : Within(w)' <=> Within(w)
  BY DEF Within
<1>3. SUFFICES ASSUME NEW w \in 0..idx
               PROVE  InStack(w)' <=> IsOpen(w)'
  BY <1>1 DEF ExactlyOpen
<1>4. w \in Nat /\ w - 1 \in Int /\ w - 1 < idx
  BY <1>1, <1>3
<1>5. IsOpen(w)' <=> ~Forward(w - 1) /\ ~Within(w)
  <2>1. IsOpen(w)' <=> w < idx' /\ ~Forward(w - 1)' /\ ~Within(w)'
    BY DEF IsOpen
  <2>2. w < idx'
    BY <1>1, <1>3
  <2> QED
    BY <1>2, <1>4, <2>1, <2>2
<1>6. CASE w = idx
  <2>1. ~InStack(w) /\ ~Within(w)
    BY <1>1, <1>4, <1>6, StackedBehind, EdgesBehind DEF Within, Repeats
  <2> QED
    BY <1>4, <1>5, <1>6, <2>1
<1>7. CASE w # idx
  <2>1. w \in 0..(idx - 1) /\ w < idx
    BY <1>1, <1>3, <1>7
  <2>2. InStack(w) <=> IsOpen(w)
    BY <2>1 DEF ExactlyOpen
  <2> QED
    BY <1>4, <1>5, <1>7, <2>1, <2>2 DEF IsOpen
<1> QED
  BY <1>6, <1>7

(* A step that closes a repeat block at w leaves open what was before w *)
LEMMA OpenClosed ==
  ASSUME IInv, Looping, ExactlyOpen, idx' = idx + 1, NEW w \in 0..(idx - 1),
         \A v \in Int : Forward(v)' <=> Forward(v),
         \A u, v \in Nat : Repeats(u, v)' <=> Repeats(u, v) \/ (u = idx /\ v = w),
         \A v \in Nat : InStack(v)' <=> InStack(v) /\ v < w
  PROVE  ExactlyOpen'
<1>1. idx \in Nat \ {0} /\ w \in Nat /\ w < idx
  BY EdgesBehind
<1>2. SUFFICES ASSUME NEW x \in 0..idx
               PROVE  InStack(x)' <=> IsOpen(x)'
  BY <1>1 DEF ExactlyOpen
<1>3. x \in Nat /\ x <= idx /\ x - 1 \in Int
  BY <1>1, <1>2
<1>4. IsOpen(x)' <=> ~Forward(x - 1) /\ ~Within(x)'
  <2>1. IsOpen(x)' <=> x < idx' /\ ~Forward(x - 1)' /\ ~Within(x)'
    BY DEF IsOpen
  <2>2. x < idx'
    BY <1>1, <1>3
  <2> QED
    BY <1>3, <2>1, <2>2
<1>5. Within(x)' <=> Within(x) \/ w <= x
  <2>1. Within(x)' <=> \E u, v \in Nat : Repeats(u, v)' /\ v <= x /\ x <= u
    BY DEF Within
  <2>2. w <= x /\ x <= idx <=> w <= x
    BY <1>3
  <2> QED
    BY <1>1, <2>1, <2>2 DEF Within
<1>6. CASE x < w
  <2>1. InStack(x) <=> IsOpen(x)
    BY <1>1, <1>3, <1>6 DEF ExactlyOpen
  <2> QED
    BY <1>1, <1>3, <1>4, <1>5, <1>6, <2>1 DEF IsOpen
<1>7. CASE w <= x
  BY <1>1, <1>3, <1>4, <1>5, <1>7
<1> QED
  BY <1>1, <1>3, <1>6, <1>7
-----------------------------------------------------------------------------
(* The connections that are not forward and lead back are those of before *)
(* and the one that the step adds                                          *)
LEMMA BackedgeAdded ==
  ASSUME IInv, Looping, NEW w \in 0..(idx - 1),
         \/ edges' = edges \cup {<<idx, w>>}
         \/ edges' = (edges \cup {<<idx, w>>}) \ {<<idx, idx + 1>>}
  PROVE  /\ \A v \in Int : Forward(v)' <=> Forward(v)
         /\ \A u, v \in Nat : Back(u, v)' <=> Back(u, v) \/ (u = idx /\ v = w)
<1>1. idx \in Nat \ {0} /\ w \in Nat /\ w < idx
  BY EdgesBehind
<1>2. ASSUME NEW v \in Int
      PROVE  Forward(v)' <=> Forward(v)
  <2>1. <<v, v + 2>> # <<idx, w>> /\ <<v, v + 2>> # <<idx, idx + 1>>
    BY <1>1
  <2> QED
    BY <2>1 DEF Forward
<1>3. ASSUME NEW u \in Nat, NEW v \in Nat
      PROVE  Back(u, v)' <=> Back(u, v) \/ (u = idx /\ v = w)
  <2>1. Back(u, v)' <=> v < u /\ <<u, v>> \in edges'
    BY DEF Back
  <2>2. v < u => <<u, v>> # <<idx, idx + 1>>
    BY <1>1
  <2>3. <<u, v>> = <<idx, w>> <=> u = idx /\ v = w
    OBVIOUS
  <2> QED
    BY <1>1, <2>1, <2>2, <2>3 DEF Back
<1> QED
  BY <1>2, <1>3

LEMMA ForwardAdded ==
  ASSUME IInv, Looping,
         edges' = edges \cup {<<numNodes - 1, numNodes>>, <<idx, idx + 2>>}
  PROVE  /\ \A v \in Int : Forward(v)' <=> Forward(v) \/ v = idx
         /\ \A u, v \in Nat : Back(u, v)' <=> Back(u, v)
<1>1. idx \in Nat \ {0} /\ numNodes \in Nat
  BY Iteration
<1>2. ASSUME NEW v \in Int
      PROVE  Forward(v)' <=> Forward(v) \/ v = idx
  <2>1. <<v, v + 2>> # <<numNodes - 1, numNodes>>
    BY <1>1
  <2>2. <<v, v + 2>> = <<idx, idx + 2>> <=> v = idx
    BY <1>1
  <2> QED
    BY <2>1, <2>2 DEF Forward
<1>3. ASSUME NEW u \in Nat, NEW v \in Nat
      PROVE  Back(u, v)' <=> Back(u, v)
  <2>1. v < u => <<u, v>> # <<numNodes - 1, numNodes>> /\ <<u, v>> # <<idx, idx + 2>>
    BY <1>1
  <2> QED
    BY <2>1 DEF Back
<1> QED
  BY <1>2, <1>3

(* A while block is closed around its one node *)
LEMMA WhileNests ==
  ASSUME IInv, NestInv, Looping, Forward(idx - 1), numNodes' = numNodes,
         edges' = (edges \cup {<<idx, idx - 1>>}) \ {<<idx, idx + 1>>}
  PROVE  NestInv'
<1> DEFINE w == idx - 1
<1>1. /\ idx \in Nat \ {0} /\ w \in 0..(idx - 1) /\ w \in Nat /\ w = idx - 1
      /\ numNodes \in Nat /\ idx + 2 < numNodes
      /\ ~Forward(idx) /\ ~Forward(idx - 2)
      /\ \A v \in Nat : ~Back(idx - 1, v)
  <2>1. idx \in Nat \ {0} /\ numNodes \in Nat /\ idx + 2 < numNodes /\ ~Forward(idx)
    BY Iteration
  <2>2. ~Forward(idx - 2)
    <3>1. Forward(idx - 2) => ~Forward((idx - 2) + 1)
      BY <2>1, EdgesBehind
    <3>2. (idx - 2) + 1 = idx - 1
      BY <2>1
    <3> QED
      BY <3>1, <3>2
  <2>3. \A v \in Nat : ~Back(idx - 1, v)
    BY DEF IInv, OpenStart, Back
  <2> QED
    BY <2>1, <2>2, <2>3
<1>2. edges' = (edges \cup {<<idx, w>>}) \ {<<idx, idx + 1>>}
  OBVIOUS
<1> HIDE DEF w
<1>3. /\ \A v \in Int : Forward(v)' <=> Forward(v)
      /\ \A u, v \in Nat : Back(u, v)' <=> Back(u, v) \/ (u = idx /\ v = w)
  BY <1>1, <1>2, BackedgeAdded
<1>4. OnPath'
  <2> SUFFICES ASSUME NEW v \in 0..(numNodes - 2)
               PROVE  <<v, v + 1>> \notin edges' <=> Forward(v - 1)' /\ Back(v, v - 1)'
    BY DEF OnPath
  <2>1. CASE v = idx
    <3>1. <<v, v + 1>> \notin edges' /\ Forward(v - 1)
      BY <1>2, <2>1
    <3>2. Back(v, v - 1)'
      <4> DEFINE x == v - 1
      <4>1. x \in Nat /\ v \in Nat /\ x = w
        BY <1>1, <2>1
      <4> HIDE DEF x
      <4>2. Back(v, x)'
        BY <1>1, <1>3, <2>1, <4>1
      <4> QED
        BY <4>2 DEF x
    <3> QED
      BY <1>1, <1>3, <2>1, <3>1, <3>2
  <2>2. CASE v # idx
    <3>1. <<v, v + 1>> \in edges' <=> <<v, v + 1>> \in edges
      BY <1>1, <1>2, <2>2
    <3>2. Back(v, v - 1)' <=> Back(v, v - 1)
      BY <1>1, <1>2, <2>2 DEF Back
    <3>3. Forward(v - 1)' <=> Forward(v - 1)
      BY <1>3
    <3> QED
      BY <3>1, <3>2, <3>3 DEF NestInv, OnPath
  <2> QED
    BY <2>1, <2>2
<1>5. BackedgeEnds'
  <2> SUFFICES ASSUME NEW u \in Nat, NEW v \in Nat, Back(u, v)'
               PROVE  /\ ~Forward(u)' /\ ~Forward(v - 1)'
                      /\ Forward(u - 1)' => v = u - 1
    BY DEF BackedgeEnds
  <2>1. (Forward(u)' <=> Forward(u)) /\ (Forward(v - 1)' <=> Forward(v - 1))
        /\ (Forward(u - 1)' <=> Forward(u - 1))
    BY <1>3
  <2>2. CASE Back(u, v)
    BY <2>1, <2>2 DEF NestInv, BackedgeEnds
  <2>3. CASE u = idx /\ v = w
    <3>1. v - 1 = idx - 2 /\ v = u - 1
      BY <1>1, <2>3
    <3> QED
      BY <1>1, <2>1, <2>3, <3>1
  <2> QED
    BY <1>3, <2>2, <2>3
<1>6. Nested'
  <2> SUFFICES ASSUME NEW u \in Nat, NEW v \in Nat, NEW x \in Nat, NEW y \in Nat,
                      Back(u, v)', Back(x, y)'
               PROVE  /\ u = x => v = y
                      /\ u < x => y <= v \/ y > u
                      /\ u < x /\ Repeats(u, v)' /\ Repeats(x, y)' => v # y
    BY DEF Nested
  <2>1. /\ Back(u, v) => u < idx
        /\ Back(x, y) => x < idx
    BY EdgesBehind
  <2>2. CASE Back(u, v) /\ Back(x, y)
    <3>1. (Repeats(u, v)' => Repeats(u, v)) /\ (Repeats(x, y)' => Repeats(x, y))
      <4>1. (Forward(u - 1)' <=> Forward(u - 1)) /\ (Forward(x - 1)' <=> Forward(x - 1))
        BY <1>3
      <4> QED
        BY <2>2, <4>1 DEF Repeats
    <3> QED
      BY <2>2, <3>1 DEF NestInv, Nested
  <2>3. CASE Back(u, v) /\ x = idx /\ y = w
    <3>1. u < x /\ u # idx - 1
      BY <1>1, <2>1, <2>3
    <3>2. y > u
      BY <1>1, <2>1, <2>3, <3>1
    <3>3. ~Repeats(x, y)'
      <4>1. Forward(x - 1)'
        BY <1>1, <1>3, <2>3
      <4> QED
        BY <4>1 DEF Repeats
    <3> QED
      BY <3>1, <3>2, <3>3
  <2>4. CASE u = idx /\ v = w /\ Back(x, y)
    BY <1>1, <2>1, <2>4
  <2>5. CASE u = idx /\ v = w /\ x = idx /\ y = w
    BY <1>1, <2>5
  <2> QED
    BY <1>3, <2>2, <2>3, <2>4, <2>5
<1> QED
  BY <1>4, <1>5, <1>6 DEF NestInv
(* A repeat block is closed at a node that is open *)
LEMMA RepeatNests ==
  ASSUME IInv, NestInv, Looping, ~Forward(idx - 1), numNodes' = numNodes,
         NEW w \in 0..(idx - 1), IsOpen(w), edges' = edges \cup {<<idx, w>>}
  PROVE  NestInv'
<1>1. /\ idx \in Nat \ {0} /\ w \in Nat /\ w < idx
      /\ numNodes \in Nat /\ idx + 2 < numNodes
      /\ ~Forward(idx) /\ ~Forward(w - 1) /\ ~Within(w)
  BY Iteration DEF IsOpen
<1>2. /\ \A v \in Int : Forward(v)' <=> Forward(v)
      /\ \A u, v \in Nat : Back(u, v)' <=> Back(u, v) \/ (u = idx /\ v = w)
  BY BackedgeAdded
<1>3. OnPath'
  <2> SUFFICES ASSUME NEW v \in 0..(numNodes - 2)
               PROVE  <<v, v + 1>> \notin edges' <=> Forward(v - 1)' /\ Back(v, v - 1)'
    BY DEF OnPath
  <2>1. Forward(v - 1)' <=> Forward(v - 1)
    BY <1>2
  <2>2. <<v, v + 1>> \in edges' <=> <<v, v + 1>> \in edges
    BY <1>1
  <2>3. CASE v = idx
    <3>1. ~Forward(v - 1)
      BY <2>3
    <3> QED
      BY <2>1, <2>2, <3>1 DEF NestInv, OnPath
  <2>4. CASE v # idx
    <3>1. Back(v, v - 1)' <=> Back(v, v - 1)
      BY <1>1, <2>4 DEF Back
    <3> QED
      BY <2>1, <2>2, <3>1 DEF NestInv, OnPath
  <2> QED
    BY <2>3, <2>4
<1>4. BackedgeEnds'
  <2> SUFFICES ASSUME NEW u \in Nat, NEW v \in Nat, Back(u, v)'
               PROVE  /\ ~Forward(u)' /\ ~Forward(v - 1)'
                      /\ Forward(u - 1)' => v = u - 1
    BY DEF BackedgeEnds
  <2>1. (Forward(u)' <=> Forward(u)) /\ (Forward(v - 1)' <=> Forward(v - 1))
        /\ (Forward(u - 1)' <=> Forward(u - 1))
    BY <1>2
  <2>2. CASE Back(u, v)
    BY <2>1, <2>2 DEF NestInv, BackedgeEnds
  <2>3. CASE u = idx /\ v = w
    BY <1>1, <2>1, <2>3
  <2> QED
    BY <1>2, <2>2, <2>3
<1>5. Nested'
  <2> SUFFICES ASSUME NEW u \in Nat, NEW v \in Nat, NEW x \in Nat, NEW y \in Nat,
                      Back(u, v)', Back(x, y)'
               PROVE  /\ u = x => v = y
                      /\ u < x => y <= v \/ y > u
                      /\ u < x /\ Repeats(u, v)' /\ Repeats(x, y)' => v # y
    BY DEF Nested
  <2>1. /\ Back(u, v) => u < idx
        /\ Back(x, y) => x < idx
    BY EdgesBehind
  <2>2. (Forward(u - 1)' <=> Forward(u - 1)) /\ (Forward(x - 1)' <=> Forward(x - 1))
    BY <1>2
  <2>3. CASE Back(u, v) /\ Back(x, y)
    <3>1. (Repeats(u, v)' => Repeats(u, v)) /\ (Repeats(x, y)' => Repeats(x, y))
      BY <2>2, <2>3 DEF Repeats
    <3> QED
      BY <2>3, <3>1 DEF NestInv, Nested
  <2>4. CASE Back(u, v) /\ x = idx /\ y = w
    <3>1. v < u /\ u # x
      BY <1>1, <2>1, <2>4 DEF Back
    <3>2. CASE Forward(u - 1)
      <4>1. v = u - 1
        BY <2>4, <3>2 DEF NestInv, BackedgeEnds
      <4>2. w # u
        BY <1>1, <3>2
      <4>3. y <= v \/ y > u
        BY <1>1, <2>4, <4>1, <4>2
      <4>4. ~Repeats(u, v)'
        BY <2>2, <3>2 DEF Repeats
      <4> QED
        BY <3>1, <4>3, <4>4
    <3>3. CASE ~Forward(u - 1)
      <4>1. Repeats(u, v)
        BY <2>4, <3>3 DEF Repeats
      <4>2. ~(v <= w /\ w <= u)
        BY <1>1, <4>1 DEF Within
      <4> QED
        BY <1>1, <2>4, <3>1, <4>2
    <3> QED
      BY <3>2, <3>3
  <2>5. CASE u = idx /\ v = w /\ Back(x, y)
    BY <1>1, <2>1, <2>5
  <2>6. CASE u = idx /\ v = w /\ x = idx /\ y = w
    BY <1>1, <2>6
  <2> QED
    BY <1>2, <2>3, <2>4, <2>5, <2>6
<1> QED
  BY <1>3, <1>4, <1>5 DEF NestInv

(* A forward edge leaves a node that no backedge has reached or left, and  *)
(* the path grows by one node                                              *)
LEMMA ForwardNests ==
  ASSUME IInv, NestInv, Looping, numNodes' = numNodes + 1,
         edges' = edges \cup {<<numNodes - 1, numNodes>>, <<idx, idx + 2>>}
  PROVE  NestInv'
<1>1. idx \in Nat \ {0} /\ numNodes \in Nat /\ idx + 2 < numNodes
  BY Iteration
<1>2. /\ \A v \in Int : Forward(v)' <=> Forward(v) \/ v = idx
      /\ \A u, v \in Nat : Back(u, v)' <=> Back(u, v)
      /\ \A u, v \in Int : Back(u, v) => u < idx /\ v < idx
  BY ForwardAdded, EdgesBehind, <1>1
<1>3. OnPath'
  <2> SUFFICES ASSUME NEW v \in 0..(numNodes' - 2)
               PROVE  <<v, v + 1>> \notin edges' <=> Forward(v - 1)' /\ Back(v, v - 1)'
    BY DEF OnPath
  <2>1. v \in Nat /\ v <= numNodes - 1
    BY <1>1
  <2>2. Back(v, v - 1)' <=> Back(v, v - 1)
    <3>1. v - 1 < v => <<v, v - 1>> # <<numNodes - 1, numNodes>> /\ <<v, v - 1>> # <<idx, idx + 2>>
      BY <1>1, <2>1
    <3> QED
      BY <3>1, <2>1 DEF Back
  <2>3. Back(v, v - 1) => (Forward(v - 1)' <=> Forward(v - 1))
    BY <1>1, <1>2, <2>1
  <2>4. CASE v = numNodes - 1
    <3>1. <<v, v + 1>> \in edges'
      BY <1>1, <2>4
    <3>2. ~Back(v, v - 1)
      BY <1>1, <1>2, <2>1, <2>4
    <3> QED
      BY <2>2, <3>1, <3>2
  <2>5. CASE v # numNodes - 1
    <3>1. v \in 0..(numNodes - 2)
      BY <1>1, <2>1, <2>5
    <3>2. <<v, v + 1>> \in edges' <=> <<v, v + 1>> \in edges
      BY <1>1, <2>1, <2>5
    <3> QED
      BY <2>2, <2>3, <3>1, <3>2 DEF NestInv, OnPath
  <2> QED
    BY <2>4, <2>5
<1>4. BackedgeEnds'
  <2> SUFFICES ASSUME NEW u \in Nat, NEW v \in Nat, Back(u, v)'
               PROVE  /\ ~Forward(u)' /\ ~Forward(v - 1)'
                      /\ Forward(u - 1)' => v = u - 1
    BY DEF BackedgeEnds
  <2>1. Back(u, v) /\ u < idx /\ v < idx
    BY <1>2
  <2>2. (Forward(u)' <=> Forward(u)) /\ (Forward(v - 1)' <=> Forward(v - 1))
        /\ (Forward(u - 1)' <=> Forward(u - 1))
    BY <1>1, <1>2, <2>1
  <2> QED
    BY <2>1, <2>2 DEF NestInv, BackedgeEnds
<1>5. Nested'
  <2> SUFFICES ASSUME NEW u \in Nat, NEW v \in Nat, NEW x \in Nat, NEW y \in Nat,
                      Back(u, v)', Back(x, y)'
               PROVE  /\ u = x => v = y
                      /\ u < x => y <= v \/ y > u
                      /\ u < x /\ Repeats(u, v)' /\ Repeats(x, y)' => v # y
    BY DEF Nested
  <2>1. Back(u, v) /\ Back(x, y)
    BY <1>2
  <2>2. (Repeats(u, v)' => Repeats(u, v)) /\ (Repeats(x, y)' => Repeats(x, y))
    <3>1. (Forward(u - 1) => Forward(u - 1)') /\ (Forward(x - 1) => Forward(x - 1)')
      BY <1>2
    <3> QED
      BY <2>1, <3>1 DEF Repeats
  <2> QED
    BY <2>1, <2>2 DEF NestInv, Nested
<1> QED
  BY <1>3, <1>4, <1>5 DEF NestInv

-----------------------------------------------------------------------------
BlocksInv == OpenInv /\ NestInv

(* A step that leaves the graph as it is *)
LEMMA GraphKept ==
  ASSUME UNCHANGED <<edges, numNodes>>
  PROVE  /\ \A v \in Int : Forward(v)' <=> Forward(v)
         /\ \A u, v \in Nat : Repeats(u, v)' <=> Repeats(u, v)
         /\ NestInv => NestInv'
<1>1. \A v \in Int : Forward(v)' <=> Forward(v)
  BY DEF Forward
<1>2. \A u, v \in Nat : Repeats(u, v)' <=> Repeats(u, v)
  BY DEF Repeats, Back, Forward
<1>3. NestInv => NestInv'
  BY DEF NestInv, OnPath, BackedgeEnds, Nested, Repeats, Back, Forward
<1> QED
  BY <1>1, <1>2, <1>3

LEMMA VisitKeepsBlocks ==
  ASSUME IInv, SavedInv, BlocksInv, VisitMute \/ VisitZero
  PROVE  BlocksInv'
<1>1. /\ Looping /\ SaveStacks(edges) /\ idx' = idx + 1 /\ UNCHANGED <<edges, numNodes>>
      /\ HasForward(edges, idx - 1) <=> Forward(idx - 1)
  BY ForwardEdges DEF VisitMute, VisitZero, ReadBit
<1>2. /\ StacksOrdered'
      /\ \A w \in Nat : InStack(w)' <=> InStack(w) \/ (w = idx /\ ~Forward(idx - 1))
  BY <1>1, SavedNodes DEF BlocksInv, OpenInv
<1>3. ExactlyOpen'
  BY <1>1, <1>2, GraphKept, OpenKept DEF BlocksInv, OpenInv
<1> QED
  BY <1>1, <1>2, <1>3, GraphKept DEF BlocksInv, OpenInv

LEMMA StacksKept ==
  ASSUME IInv, UNCHANGED <<stack, history>>
  PROVE  /\ StacksOrdered => StacksOrdered'
         /\ \A w \in Nat : InStack(w)' <=> InStack(w)
<1>1. StacksOrdered => StacksOrdered'
  BY DEF StacksOrdered, Sorted, Split, OwnParity, Positions, SavedCount, Entry
<1>2. \A w \in Nat : InStack(w)' <=> InStack(w)
  BY DEF InStack, Positions, Entry
<1> QED
  BY <1>1, <1>2

LEMMA BuildInnerKeepsBlocks ==
  ASSUME IInv, BlocksInv, BuildWhile \/ BuildIf
  PROVE  BlocksInv'
<1>1. /\ Looping /\ Forward(idx - 1) /\ idx' = idx + 1
      /\ UNCHANGED <<numNodes, stack, history>>
  BY ForwardEdges DEF BuildWhile, BuildIf, ReadBit
<1>2. StacksOrdered' /\ \A w \in Nat : InStack(w)' <=> InStack(w)
  BY <1>1, StacksKept DEF BlocksInv, OpenInv
<1>3. CASE BuildIf
  <2>1. UNCHANGED <<edges, numNodes>>
    BY <1>3 DEF BuildIf
  <2>2. ExactlyOpen'
    BY <1>1, <1>2, <2>1, GraphKept, OpenKept DEF BlocksInv, OpenInv
  <2> QED
    BY <1>2, <2>1, <2>2, GraphKept DEF BlocksInv, OpenInv
<1>4. CASE BuildWhile
  <2>1. edges' = (edges \cup {<<idx, idx - 1>>}) \ {<<idx, idx + 1>>}
    BY <1>4 DEF BuildWhile
  <2>2. PICK w \in 0..(idx - 1) : w = idx - 1
    BY EdgesBehind
  <2>3. /\ \A v \in Int : Forward(v)' <=> Forward(v)
        /\ \A u, v \in Nat : Back(u, v)' <=> Back(u, v) \/ (u = idx /\ v = w)
    BY <1>1, <2>1, <2>2, BackedgeAdded
  <2>4. ASSUME NEW u \in Nat, NEW v \in Nat
        PROVE  Repeats(u, v)' <=> Repeats(u, v)
    <3>1. Forward(u - 1)' <=> Forward(u - 1)
      BY <2>3
    <3>2. ~Forward(u - 1) => u # idx
      BY <1>1
    <3> QED
      BY <2>3, <3>1, <3>2 DEF Repeats
  <2>5. ExactlyOpen'
    BY <1>1, <1>2, <2>3, <2>4, OpenKept DEF BlocksInv, OpenInv
  <2>6. NestInv'
    BY <1>1, <2>1, WhileNests DEF BlocksInv
  <2> QED
    BY <1>2, <2>5, <2>6 DEF BlocksInv, OpenInv
<1> QED
  BY <1>3, <1>4

LEMMA BuildRepeatKeepsBlocks ==
  ASSUME IInv, SavedInv, BlocksInv, BuildRepeat
  PROVE  BlocksInv'
<1>1. Looping /\ ~Forward(idx - 1) /\ idx' = idx + 1 /\ numNodes' = numNodes
  BY ForwardEdges DEF BuildRepeat, ReadBit
<1>2. StacksOrdered'
  BY PoppedOrdered DEF BlocksInv, OpenInv
<1>3. PICK w \in 0..(idx - 1) :
        /\ edges' = edges \cup {<<idx, w>>} /\ InStack(w)
        /\ \A v \in Nat : InStack(v)' <=> InStack(v) /\ v < w
  BY PoppedOrdered DEF BlocksInv, OpenInv
<1>4. IsOpen(w)
  BY <1>3 DEF BlocksInv, OpenInv, ExactlyOpen
<1>5. /\ \A v \in Int : Forward(v)' <=> Forward(v)
      /\ \A u, v \in Nat : Back(u, v)' <=> Back(u, v) \/ (u = idx /\ v = w)
  BY <1>1, <1>3, BackedgeAdded
<1>6. ASSUME NEW u \in Nat, NEW v \in Nat
      PROVE  Repeats(u, v)' <=> Repeats(u, v) \/ (u = idx /\ v = w)
  <2>1. Forward(u - 1)' <=> Forward(u - 1)
    BY <1>5
  <2>2. u = idx => ~Forward(u - 1)
    BY <1>1
  <2> QED
    BY <1>5, <2>1, <2>2 DEF Repeats
<1>7. ExactlyOpen'
  BY <1>1, <1>3, <1>5, <1>6, OpenClosed DEF BlocksInv, OpenInv
<1>8. NestInv'
  BY <1>1, <1>3, <1>4, RepeatNests DEF BlocksInv
<1> QED
  BY <1>2, <1>7, <1>8 DEF BlocksInv, OpenInv

LEMMA OpenForwardKeepsBlocks ==
  ASSUME IInv, SavedInv, BlocksInv, OpenForward
  PROVE  BlocksInv'
<1>1. /\ Looping /\ SaveStacks(edges') /\ idx' = idx + 1 /\ numNodes' = numNodes + 1
      /\ edges' = edges \cup {<<numNodes - 1, numNodes>>, <<idx, idx + 2>>}
  BY DEF OpenForward, ReadBit
<1>2. idx \in Nat \ {0} /\ numNodes \in Nat /\ idx + 2 < numNodes
  BY <1>1, Iteration
<1>3. /\ \A v \in Int : Forward(v)' <=> Forward(v) \/ v = idx
      /\ \A u, v \in Nat : Back(u, v)' <=> Back(u, v)
  BY <1>1, ForwardAdded
<1>4. HasForward(edges', idx - 1) <=> Forward(idx - 1)
  <2>1. HasForward(edges', idx - 1) <=> HasForward(edges, idx - 1)
    BY <1>1, <1>2 DEF HasForward
  <2> QED
    BY <2>1, ForwardEdges
<1>5. /\ StacksOrdered'
      /\ \A w \in Nat : InStack(w)' <=> InStack(w) \/ (w = idx /\ ~Forward(idx - 1))
  BY <1>1, <1>4, SavedNodes DEF BlocksInv, OpenInv
<1>6. ASSUME NEW u \in Nat, NEW v \in Nat
      PROVE  Repeats(u, v)' <=> Repeats(u, v)
  <2>1. Back(u, v) => (Forward(u - 1)' <=> Forward(u - 1))
    <3>1. Back(u, v) => u < idx
      BY EdgesBehind
    <3> QED
      BY <1>2, <1>3, <3>1
  <2> QED
    BY <1>3, <2>1 DEF Repeats
<1>7. \A v \in Int : v < idx => (Forward(v)' <=> Forward(v))
  BY <1>2, <1>3
<1>8. ExactlyOpen'
  BY <1>1, <1>5, <1>6, <1>7, OpenKept DEF BlocksInv, OpenInv
<1>9. NestInv'
  BY <1>1, ForwardNests DEF BlocksInv
<1> QED
  BY <1>5, <1>8, <1>9 DEF BlocksInv, OpenInv

LEMMA InitBlocks == Init => BlocksInv
<1> SUFFICES ASSUME Init
             PROVE  BlocksInv
  OBVIOUS
<1>1. n \in Nat \ {0}
  BY InitInv, LengthOfKey DEF IInv
<1>2. idx = 1 /\ numNodes = n + 2 /\ edges = HamiltonianPath(n + 2)
  BY DEF Init
<1>3. /\ stack["odd"] = [mem |-> [[q \in 0..(n - 1) |-> 0] EXCEPT ![0] = 0], n |-> 0 + 1]
      /\ stack["even"] = [mem |-> [q \in 0..(n - 1) |-> 0], n |-> 0]
      /\ history = [v \in 0..(2 * n - 1) |-> 0]
  BY DEF Init, StackCreate, StackPush
<1>4. /\ Positions("odd") = {0} /\ Positions("even") = {}
      /\ Entry("odd", 0) = 0
  BY <1>1, <1>3 DEF Positions, Entry
<1>5. \A s \in StackNames : \A p \in Positions(s) : s = "odd" /\ p = 0
  BY <1>4 DEF StackNames
<1>6. StacksOrdered
  <2>1. OtherStack("odd") = "even" /\ OwnStack(0) = "odd"
    BY DEF OtherStack, OwnStack, IsOdd
  <2> QED
    BY <1>4, <1>5, <2>1 DEF StacksOrdered, Sorted, Split, OwnParity
<1>7. \A u, v \in Int : <<u, v>> \in edges <=> u \in 0..n /\ v = u + 1
  BY <1>1, <1>2 DEF HamiltonianPath
<1>8. /\ \A v \in Int : ~Forward(v)
      /\ \A u, v \in Int : ~Back(u, v)
  BY <1>7 DEF Forward, Back
<1>9. ExactlyOpen
  <2>1. InStack(0)
    BY <1>4 DEF InStack, StackNames
  <2>2. IsOpen(0)
    BY <1>2, <1>8 DEF IsOpen, Within, Repeats
  <2> QED
    BY <1>2, <2>1, <2>2 DEF ExactlyOpen
<1>10. NestInv
  <2>1. OnPath
    BY <1>1, <1>2, <1>7, <1>8 DEF OnPath
  <2> QED
    BY <1>8, <2>1 DEF NestInv, BackedgeEnds, Nested
<1> QED
  BY <1>6, <1>9, <1>10 DEF BlocksInv, OpenInv

LEMMA StepBlocks == IInv /\ SavedInv /\ BlocksInv /\ [Next]_vars => BlocksInv'
<1> SUFFICES ASSUME IInv, SavedInv, BlocksInv, [Next]_vars
             PROVE  BlocksInv'
  OBVIOUS
<1>1. CASE VisitMute \/ VisitZero
  BY <1>1, VisitKeepsBlocks
<1>2. CASE BuildWhile \/ BuildIf
  BY <1>2, BuildInnerKeepsBlocks
<1>3. CASE BuildRepeat
  BY <1>3, BuildRepeatKeepsBlocks
<1>4. CASE OpenForward
  BY <1>4, OpenForwardKeepsBlocks
<1>5. CASE UNCHANGED vars
  <2>1. UNCHANGED <<idx, stack, history, edges, numNodes>>
    BY <1>5 DEF vars
  <2>2. StacksOrdered' /\ \A w \in Nat : InStack(w)' <=> InStack(w)
    BY <2>1, StacksKept DEF BlocksInv, OpenInv
  <2>3. ExactlyOpen'
    <3>1. ASSUME NEW w \in Nat
          PROVE  IsOpen(w)' <=> IsOpen(w)
      <4>1. Within(w)' <=> Within(w)
        BY <2>1, GraphKept DEF Within
      <4> QED
        BY <2>1, <4>1, GraphKept DEF IsOpen
    <3>2. \A w \in 0..(idx - 1) : w \in Nat
      BY EdgesBehind
    <3> QED
      BY <2>1, <2>2, <3>1, <3>2 DEF BlocksInv, OpenInv, ExactlyOpen
  <2> QED
    BY <2>1, <2>2, <2>3, GraphKept DEF BlocksInv, OpenInv
<1> QED
  BY <1>1, <1>2, <1>3, <1>4, <1>5 DEF Next, Stop

(* The stacks of watermark_encode hold the nodes that the graph leaves     *)
(* open and no others, in order, and the blocks nest (encoder.c:87-149).   *)
THEOREM StacksHoldOpenNodes == Spec => []BlocksInv
<1> QED
  BY InitBlocks, StepBlocks, Inductive, SavedCountsValid, PTL DEF Spec

-----------------------------------------------------------------------------
(***************************************************************************)
(* Proof that the encoder implements the grammar of blocks, that what it   *)
(* builds is structured at every moment, and that its nodes can be         *)
(* numbered with the bits that they mean.                                  *)
(*                                                                         *)
(* The grammar lets a node go back to whatever the graph leaves open; the  *)
(* encoder looks in a stack.  The stacks hold what is open, so the two     *)
(* find the same destinations, and find none at the same nodes.            *)
(***************************************************************************)
(* The word is as long as the bits read, and reading a bit appends it *)
LEMMA WordOfBits ==
  ASSUME TypeOK
  PROVE  Word \in Seq(Bit) /\ Len(Word) = i - start
<1>1. i - start \in Nat /\ start \in Int /\ i \in Int
  BY LengthOfKey
<1>2. ASSUME NEW j \in 1..(i - start)
      PROVE  (IF j = 1 THEN 1 ELSE data[start + j - 1]) \in Bit
  <2>1. CASE j = 1
    BY <2>1 DEF Bit
  <2>2. CASE j # 1
    <3>1. start + j - 1 \in 0..(NumBits - 1)
      BY <2>2, LengthOfKey DEF TypeOK
    <3> QED
      BY <2>2, <3>1 DEF TypeOK
  <2> QED
    BY <2>1, <2>2
<1>3. Word \in [1..(i - start) -> Bit]
  BY <1>2 DEF Word
<1>4. Word \in Seq(Bit)
  BY <1>1, <1>3, SeqDef
<1>5. PICK l \in Nat : l = Len(Word) /\ 1..l = 1..(i - start)
  BY <1>3, <1>4, LenProperties
<1>6. PICK k \in Nat : k = i - start
  BY <1>1
<1>7. (l = 0 \/ l \in 1..k) /\ (k = 0 \/ k \in 1..l)
  BY <1>5, <1>6
<1>8. l = k
  BY <1>7
<1> QED
  BY <1>4, <1>5, <1>6, <1>8

LEMMA WordGrows ==
  ASSUME TypeOK, TypeOK', Looping, ReadBit
  PROVE  Word' = Append(Word, data[i])
<1>1. /\ i' = i + 1 /\ start' = start /\ data' = data
      /\ i \in Int /\ start \in Int /\ i - start \in Nat \ {0}
  BY LengthOfKey DEF ReadBit
<1>2. data[i] \in Bit
  <2>1. /\ data \in [0..(NumBits - 1) -> Bit] /\ i \in (start + 1)..NumBits
        /\ start \in -1..(NumBits - 1) /\ i < NumBits
    BY DEF TypeOK, Looping
  <2>2. i \in 0..(NumBits - 1)
    BY <2>1, NumBitsAssumption
  <2> QED
    BY <2>1, <2>2
<1>3. /\ Word \in Seq(Bit) /\ Len(Word) = i - start
      /\ Word' \in Seq(Bit) /\ Len(Word') = i - start + 1
  <2>1. (Word \in Seq(Bit) /\ Len(Word) = i - start)'
    <3>1. (TypeOK => Word \in Seq(Bit) /\ Len(Word) = i - start)'
      BY WordOfBits, PTL
    <3> QED
      BY <3>1
  <2>2. Bit' = Bit
    BY DEF Bit
  <2> QED
    BY <1>1, <2>1, WordOfBits
<1>4. /\ Append(Word, data[i]) \in Seq(Bit)
      /\ Len(Append(Word, data[i])) = i - start + 1
      /\ \A j \in 1..(i - start + 1) :
           Append(Word, data[i])[j] = IF j = i - start + 1 THEN data[i] ELSE Word[j]
  BY <1>1, <1>2, <1>3, AppendProperties
<1>5. ASSUME NEW j \in 1..(i - start + 1)
      PROVE  Word'[j] = Append(Word, data[i])[j]
  <2>1. Word'[j] = IF j = 1 THEN 1 ELSE data[start + j - 1]
    BY <1>1 DEF Word
  <2>2. j # i - start + 1 => Word[j] = IF j = 1 THEN 1 ELSE data[start + j - 1]
    BY <1>1 DEF Word
  <2>3. j = i - start + 1 => j # 1 /\ start + j - 1 = i
    BY <1>1
  <2> QED
    BY <1>4, <2>1, <2>2, <2>3
<1> QED
  BY <1>3, <1>4, <1>5, SeqEqual

-----------------------------------------------------------------------------
(* The words of the grammar, said of the encoder's state *)
LEMMA SameForwardEdges ==
  ASSUME IInv
  PROVE  /\ Grammar!AfterForward(edges, idx) <=> Mute
         /\ Grammar!InsideForward(edges, idx) <=> Inner
         /\ \A v \in Int : Grammar!InsideForward(edges, v) <=> Forward(v - 1)
<1>1. idx \in Nat \ {0}
  BY EdgesBehind
<1>2. ASSUME NEW v \in Int
      PROVE  Grammar!InsideForward(edges, v) <=> Forward(v - 1)
  <2>1. (v - 1) + 2 = v + 1
    OBVIOUS
  <2> QED
    BY <2>1 DEF Grammar!InsideForward, Grammar!Connected, Forward
<1>3. Grammar!AfterForward(edges, idx) <=> Forward(idx - 2)
  <2>1. (idx - 2) + 2 = idx
    BY <1>1
  <2> QED
    BY <2>1 DEF Grammar!AfterForward, Grammar!Connected, Forward
<1> QED
  BY <1>1, <1>2, <1>3, ForwardEdges

LEMMA SameRepeats ==
  ASSUME IInv
  PROVE  /\ \A e \in Grammar!RepeatEdges(edges) :
              /\ e[1] \in Nat /\ e[2] \in Nat /\ e = <<e[1], e[2]>>
              /\ Repeats(e[1], e[2])
         /\ \A u, v \in Nat : Repeats(u, v) => <<u, v>> \in Grammar!RepeatEdges(edges)
<1>1. /\ numNodes \in Nat
      /\ edges \subseteq (0..(numNodes - 1)) \X (0..(numNodes - 1))
  BY DEF IInv, TypeOK
<1>2. ASSUME NEW e \in Grammar!RepeatEdges(edges)
      PROVE  /\ e[1] \in Nat /\ e[2] \in Nat /\ e = <<e[1], e[2]>>
             /\ Repeats(e[1], e[2])
  <2>1. e \in edges /\ e[2] < e[1] /\ ~Grammar!InsideForward(edges, e[1])
    BY DEF Grammar!RepeatEdges
  <2>2. e[1] \in Nat /\ e[2] \in Nat /\ e = <<e[1], e[2]>>
    BY <1>1, <2>1
  <2> QED
    BY <2>1, <2>2, SameForwardEdges DEF Repeats, Back
<1>3. ASSUME NEW u \in Nat, NEW v \in Nat, Repeats(u, v)
      PROVE  <<u, v>> \in Grammar!RepeatEdges(edges)
  BY <1>3, SameForwardEdges DEF Repeats, Back, Grammar!RepeatEdges
<1> QED
  BY <1>2, <1>3

LEMMA SameOpenNodes ==
  ASSUME IInv
  PROVE  \A w : w \in Grammar!OpenNodes(edges, idx) <=> w \in 0..(idx - 1) /\ IsOpen(w)
<1>1. idx \in Nat \ {0}
  BY EdgesBehind
<1>2. ASSUME NEW w \in 0..(idx - 1)
      PROVE  Within(w) <=> \E e \in Grammar!RepeatEdges(edges) : w \in e[2]..e[1]
  <2>1. w \in Nat
    BY <1>1, <1>2
  <2>2. ASSUME Within(w)
        PROVE  \E e \in Grammar!RepeatEdges(edges) : w \in e[2]..e[1]
    <3>1. PICK u \in Nat, v \in Nat : Repeats(u, v) /\ v <= w /\ w <= u
      BY <2>2 DEF Within
    <3>2. <<u, v>> \in Grammar!RepeatEdges(edges) /\ w \in v..u
      BY <2>1, <3>1, SameRepeats
    <3> QED
      BY <3>2
  <2>3. ASSUME NEW e \in Grammar!RepeatEdges(edges), w \in e[2]..e[1]
        PROVE  Within(w)
    <3>1. e[1] \in Nat /\ e[2] \in Nat /\ Repeats(e[1], e[2])
      BY SameRepeats
    <3>2. e[2] <= w /\ w <= e[1]
      BY <2>3, <3>1
    <3> QED
      BY <3>1, <3>2 DEF Within
  <2> QED
    BY <2>2, <2>3
<1>3. ASSUME NEW w \in 0..(idx - 1)
      PROVE  Grammar!InsideForward(edges, w) <=> Forward(w - 1)
  BY <1>1, SameForwardEdges
<1>4. \A w \in 0..(idx - 1) : w < idx
  BY <1>1
<1> QED
  BY <1>2, <1>3, <1>4 DEF Grammar!OpenNodes, IsOpen

(* A bit is the parity of the backedge's length, and so is the choice of   *)
(* the stack                                                               *)
LEMMA SameParity ==
  ASSUME IInv, Looping, NEW w \in 0..(idx - 1)
  PROVE  OwnStack(w) = Possible <=> (idx - w) % 2 = data[i]
<1>1. idx \in Nat /\ w \in Nat /\ data[i] \in {0, 1}
  <2>1. data[i] \in {0, 1}
    <3>1. i \in 0..(NumBits - 1)
      BY LengthOfKey DEF IInv, TypeOK, Looping
    <3> QED
      BY <3>1 DEF IInv, TypeOK, Bit
  <2> QED
    BY <2>1, EdgesBehind
<1>2. /\ idx % 2 \in {0, 1} /\ w % 2 \in {0, 1}
      /\ (idx - w) % 2 = IF idx % 2 = w % 2 THEN 0 ELSE 1
  BY <1>1
<1>3. /\ OwnStack(w) = IF w % 2 = 0 THEN "odd" ELSE "even"
      /\ Possible = IF idx % 2 = 0 <=> data[i] = 1 THEN "even" ELSE "odd"
  BY <1>1 DEF OwnStack, Possible, PossibleBackedges, IsOdd
<1> QED
  BY <1>1, <1>2, <1>3

LEMMA SameGoingBack ==
  ASSUME IInv
  PROVE  Grammar!HasBackedge(edges, idx - 1) <=> HasBackedge(edges, idx - 1)
  BY DEF Grammar!HasBackedge, Grammar!BackedgeTargets, Grammar!Connected,
         HasBackedge, BackedgeTargets, Connected

(* Where the encoder finds no entry to go back to, no open node would do *)
LEMMA NoneToGoBackTo ==
  ASSUME IInv, BlocksInv, Looping, ~CanGoBack
  PROVE  Grammar!Destinations(edges, idx, data[i]) = {}
<1>1. CASE HasBackedge(edges, idx - 1)
  BY <1>1, SameGoingBack DEF Grammar!Destinations
<1>2. CASE ~HasBackedge(edges, idx - 1)
  <2>1. /\ Possible \in StackNames /\ idx \in Nat \ {0} /\ n \in Nat \ {0}
        /\ stack[Possible].n \in Nat /\ stack[Possible].mem \in [0..(n - 1) -> Nat]
    <3>1. Possible \in StackNames
      BY DEF Possible, PossibleBackedges, StackNames
    <3> QED
      BY <3>1, Positioned
  <2>2. ~Connected(edges, idx - 1, stack[Possible].mem[0])
    <3> DEFINE w == stack[Possible].mem[0]
    <3>1. w \in Nat /\ w < idx
      BY <2>1 DEF IInv, StackBound
    <3> HIDE DEF w
    <3>2. <<idx - 1, idx - 1>> \notin edges
      BY <2>1 DEF IInv, Shape
    <3>3. ASSUME <<idx - 1, w>> \in edges
          PROVE  FALSE
      <4>1. w # idx - 1
        BY <3>2, <3>3
      <4>2. w \in 0..((idx - 1) - 1)
        BY <2>1, <3>1, <4>1
      <4> QED
        BY <1>2, <3>3, <4>2 DEF HasBackedge, BackedgeTargets, Connected
    <3> QED
      BY <3>3 DEF Connected, w
  <2>3. stack[Possible].n = 0
    BY <1>2, <2>1, <2>2 DEF CanGoBack, HasPossibleBackedge
  <2>4. ASSUME NEW w \in 0..(idx - 1), IsOpen(w), (idx - w) % 2 = data[i]
        PROVE  FALSE
    <3>1. InStack(w)
      BY <2>4 DEF BlocksInv, OpenInv, ExactlyOpen
    <3> PICK s \in StackNames : \E p \in Positions(s) : Entry(s, p) = w
      BY <3>1 DEF InStack
    <3>2. PICK p \in Positions(s) : Entry(s, p) = w
      OBVIOUS
    <3>3. s = Possible
      BY <2>4, <3>2, SameParity DEF BlocksInv, OpenInv, StacksOrdered, OwnParity
    <3> QED
      BY <2>3, <3>2, <3>3 DEF Positions
  <2> QED
    BY <1>2, <2>4, SameGoingBack, SameOpenNodes DEF Grammar!Destinations
<1> QED
  BY <1>1, <1>2

-----------------------------------------------------------------------------
LEMMA InitImplements == Init => Grammar!GrammarInit
<1> SUFFICES ASSUME Init
             PROVE  Grammar!GrammarInit
  OBVIOUS
<1>1. n \in Nat \ {0} /\ start \in Int /\ i = start + 1
  BY InitInv, LengthOfKey DEF IInv, Init
<1>2. Word = <<1>>
  <2>1. i - start = 1
    BY <1>1
  <2>2. Word = [j \in 1..1 |-> IF j = 1 THEN 1 ELSE data[start + j - 1]]
    BY <2>1 DEF Word
  <2> QED
    BY <2>2
<1>3. idx = 1 /\ numNodes = n + 2 /\ edges = Grammar!HamiltonianPath(n + 2)
  BY DEF Init, HamiltonianPath, Grammar!HamiltonianPath
<1> QED
  BY <1>1, <1>2, <1>3 DEF Grammar!GrammarInit

LEMMA BitIsWritten ==
  ASSUME IInv, IInv', Looping, ~Mute, ReadBit
  PROVE  Grammar!Write(data[i]) /\ data[i] \in {0, 1}
<1>1. Word' = Append(Word, data[i])
  BY WordGrows DEF IInv
<1>2. Len(Word) < n
  <2>1. Len(Word) = i - start /\ i \in Int /\ start \in Int /\ NumBits \in Nat
    BY WordOfBits, LengthOfKey DEF IInv
  <2> QED
    BY <2>1 DEF Looping, n
<1>3. n' = n /\ idx' = idx + 1
  BY DEF ReadBit, n
<1>4. ~Grammar!AfterForward(edges, idx)
  BY SameForwardEdges
<1>5. data[i] \in {0, 1}
  <2>1. i \in 0..(NumBits - 1)
    BY LengthOfKey DEF IInv, TypeOK, Looping
  <2> QED
    BY <2>1 DEF IInv, TypeOK, Bit
<1> QED
  BY <1>1, <1>2, <1>3, <1>4, <1>5 DEF Grammar!Write

LEMMA VisitMuteJoins ==
  ASSUME IInv, VisitMute
  PROVE  Grammar!Join
<1>1. Mute /\ idx' = idx + 1 /\ UNCHANGED <<data, start, i, edges, numNodes>>
  BY DEF VisitMute
<1>2. n' = n /\ Word' = Word
  BY <1>1 DEF n, Word
<1> QED
  BY <1>1, <1>2, SameForwardEdges DEF Grammar!Join

LEMMA BuildWhileCloses ==
  ASSUME IInv, IInv', BuildWhile
  PROVE  Grammar!CloseWhile
<1>1. /\ Looping /\ ~Mute /\ Inner /\ data[i] = 1 /\ ReadBit /\ numNodes' = numNodes
      /\ edges' = (edges \cup {<<idx, idx - 1>>}) \ {<<idx, idx + 1>>}
  BY DEF BuildWhile
<1>2. Grammar!Write(1) /\ Grammar!InsideForward(edges, idx)
  BY <1>1, BitIsWritten, SameForwardEdges
<1> QED
  BY <1>1, <1>2 DEF Grammar!CloseWhile

LEMMA BuildIfCloses ==
  ASSUME IInv, IInv', BuildIf
  PROVE  Grammar!CloseIf
<1>1. /\ Looping /\ ~Mute /\ Inner /\ data[i] = 0 /\ ReadBit
      /\ numNodes' = numNodes /\ edges' = edges
  BY DEF BuildIf
<1>2. Grammar!Write(0) /\ Grammar!InsideForward(edges, idx)
  BY <1>1, BitIsWritten, SameForwardEdges
<1> QED
  BY <1>1, <1>2 DEF Grammar!CloseIf

(* The entry that was drawn is open, and its parity the bit *)
LEMMA BuildRepeatRepeats ==
  ASSUME IInv, IInv', SavedInv, BlocksInv, BuildRepeat
  PROVE  Grammar!Repeat
<1>1. /\ Looping /\ ~Mute /\ CanGoBack /\ ~Inner /\ ReadBit /\ numNodes' = numNodes
  BY DEF BuildRepeat
<1>2. PICK w \in 0..(idx - 1) :
        edges' = edges \cup {<<idx, w>>} /\ InStack(w) /\ OwnStack(w) = Possible
  BY PoppedOrdered DEF BlocksInv, OpenInv
<1>3. w \in Grammar!Destinations(edges, idx, data[i])
  <2>1. w \in Grammar!OpenNodes(edges, idx)
    BY <1>2, SameOpenNodes DEF BlocksInv, OpenInv, ExactlyOpen
  <2>2. (idx - w) % 2 = data[i]
    BY <1>1, <1>2, SameParity
  <2>3. ~Grammar!HasBackedge(edges, idx - 1)
    BY <1>1, SameGoingBack DEF CanGoBack, HasPossibleBackedge
  <2> QED
    BY <2>1, <2>2, <2>3 DEF Grammar!Destinations
<1>4. Grammar!Write(data[i]) /\ data[i] \in {0, 1} /\ ~Grammar!InsideForward(edges, idx)
  BY <1>1, BitIsWritten, SameForwardEdges
<1> QED
  BY <1>1, <1>2, <1>3, <1>4 DEF Grammar!Repeat

LEMMA OpenForwardOpens ==
  ASSUME IInv, IInv', BlocksInv, OpenForward
  PROVE  Grammar!Open
<1>1. /\ Looping /\ ~Mute /\ ~CanGoBack /\ data[i] = 1 /\ ReadBit
      /\ numNodes' = numNodes + 1
      /\ edges' = edges \cup {<<numNodes - 1, numNodes>>, <<idx, idx + 2>>}
  BY DEF OpenForward
<1>2. ~Forward(idx - 1)
  BY <1>1, ForwardEdgesDoNotOverlap
<1>3. Grammar!Write(1) /\ ~Grammar!InsideForward(edges, idx)
  BY <1>1, <1>2, BitIsWritten, SameForwardEdges, ForwardEdges
<1>4. Grammar!Destinations(edges, idx, 1) = {}
  BY <1>1, NoneToGoBackTo
<1> QED
  BY <1>1, <1>3, <1>4 DEF Grammar!Open

LEMMA VisitZeroGoesOn ==
  ASSUME IInv, IInv', BlocksInv, VisitZero
  PROVE  Grammar!CloseIf \/ Grammar!Straight
<1>1. /\ Looping /\ ~Mute /\ ~CanGoBack /\ data[i] = 0 /\ ReadBit
      /\ UNCHANGED <<edges, numNodes>>
  BY DEF VisitZero
<1>2. Grammar!Write(0)
  BY <1>1, BitIsWritten
<1>3. Grammar!Destinations(edges, idx, 0) = {}
  BY <1>1, NoneToGoBackTo
<1> QED
  BY <1>1, <1>2, <1>3 DEF Grammar!CloseIf, Grammar!Straight

LEMMA StepImplements ==
  IInv /\ IInv' /\ SavedInv /\ BlocksInv /\ [Next]_vars
    => [Grammar!GrammarNext]_(Grammar!grammarVars)
<1> SUFFICES ASSUME IInv, IInv', SavedInv, BlocksInv, [Next]_vars
             PROVE  Grammar!GrammarNext \/ UNCHANGED Grammar!grammarVars
  OBVIOUS
<1>1. CASE VisitMute
  BY <1>1, VisitMuteJoins DEF Grammar!GrammarNext
<1>2. CASE BuildWhile
  BY <1>2, BuildWhileCloses DEF Grammar!GrammarNext
<1>3. CASE BuildIf
  BY <1>3, BuildIfCloses DEF Grammar!GrammarNext
<1>4. CASE BuildRepeat
  BY <1>4, BuildRepeatRepeats DEF Grammar!GrammarNext
<1>5. CASE OpenForward
  BY <1>5, OpenForwardOpens DEF Grammar!GrammarNext
<1>6. CASE VisitZero
  BY <1>6, VisitZeroGoesOn DEF Grammar!GrammarNext
<1>7. CASE UNCHANGED vars
  <2>1. UNCHANGED <<data, start, i, idx, edges, numNodes>>
    BY <1>7 DEF vars
  <2>2. n' = n /\ Word' = Word
    BY <2>1 DEF n, Word
  <2> QED
    BY <2>1, <2>2 DEF Grammar!grammarVars
<1> QED
  BY <1>1, <1>2, <1>3, <1>4, <1>5, <1>6, <1>7 DEF Next, Stop

(* watermark_encode implements the grammar of blocks, for keys of every    *)
(* length and every draw of rand(): each iteration is a step of the        *)
(* grammar, which knows the graph and no stacks (encoder.c:87-149).        *)
THEOREM EncoderFollowsGrammar == Spec => ImplementsGrammar
<1>1. Init => Grammar!GrammarInit
  BY InitImplements
<1>2. IInv /\ IInv' /\ SavedInv /\ BlocksInv /\ [Next]_vars
        => [Grammar!GrammarNext]_(Grammar!grammarVars)
  BY StepImplements
<1> QED
  BY <1>1, <1>2, Inductive, SavedCountsValid, StacksHoldOpenNodes, PTL
     DEF Spec, ImplementsGrammar, Grammar!GrammarSpec

-----------------------------------------------------------------------------
(* The connections that leave the start of a forward edge and the node     *)
(* inside it, and those that reach that node                               *)
LEMMA ForwardBlock ==
  ASSUME IInv, NestInv, NEW v \in Int, Forward(v)
  PROVE  /\ Grammar!Successors(edges, v) = {v + 1, v + 2}
         /\ Grammar!Predecessors(edges, v + 1) = {v}
         /\ Grammar!Successors(edges, v + 1) \in {{v}, {v + 2}}
<1>1. /\ numNodes \in Nat /\ idx \in Nat
      /\ edges \subseteq (0..(numNodes - 1)) \X (0..(numNodes - 1))
  BY DEF IInv, TypeOK
<1>2. /\ v \in Nat /\ v + 1 \in 0..(numNodes - 2) /\ v \in 0..(numNodes - 2)
      /\ ~Forward(v - 1) /\ ~Forward(v + 1)
  <2>1. v \in Nat /\ v + 2 <= numNodes - 1
    BY <1>1 DEF Forward
  <2>2. ~Forward(v + 1)
    BY EdgesBehind
  <2>3. ~Forward(v - 1)
    <3>1. Forward(v - 1) => ~Forward((v - 1) + 1)
      BY EdgesBehind
    <3>2. (v - 1) + 1 = v
      OBVIOUS
    <3> QED
      BY <3>1, <3>2
  <2> QED
    BY <1>1, <2>1, <2>2, <2>3
<1>3. \A x, y \in Int : <<x, y>> \in edges =>
        x \in Nat /\ y \in Nat /\ (y = x + 1 \/ (y = x + 2 /\ Forward(x)) \/ Back(x, y))
  BY <1>1 DEF IInv, Shape, Forward, Back
<1>4. \A e \in edges : e = <<e[1], e[2]>> /\ e[1] \in Int /\ e[2] \in Int
  BY <1>1
<1>5. \A y \in Nat : ~Back(v, y) /\ ~Back(y, v + 1)
  <2> SUFFICES ASSUME NEW y \in Nat
               PROVE  ~Back(v, y) /\ ~Back(y, v + 1)
    OBVIOUS
  <2>1. ~Back(v, y)
    BY <1>2 DEF NestInv, BackedgeEnds
  <2>2. Back(y, v + 1) => ~Forward((v + 1) - 1)
    BY <1>2 DEF NestInv, BackedgeEnds
  <2>3. (v + 1) - 1 = v
    OBVIOUS
  <2> QED
    BY <2>1, <2>2, <2>3
<1>6. <<v, v + 1>> \in edges /\ <<v, v + 2>> \in edges
  BY <1>2 DEF NestInv, OnPath, Forward
<1>7. <<v + 1, v + 2>> \notin edges <=> Back(v + 1, v)
  <2> DEFINE x == v + 1
  <2>1. x \in 0..(numNodes - 2) /\ x - 1 = v /\ x + 1 = v + 2
    BY <1>2
  <2> HIDE DEF x
  <2>2. <<x, x + 1>> \notin edges <=> Forward(x - 1) /\ Back(x, x - 1)
    BY <2>1 DEF NestInv, OnPath
  <2>3. <<x, v + 2>> \notin edges <=> Back(x, v)
    BY <2>1, <2>2
  <2> QED
    BY <2>3 DEF x
<1>8. Grammar!Successors(edges, v) = {v + 1, v + 2}
  <2>1. ASSUME NEW y, y \in Grammar!Successors(edges, v)
        PROVE  y \in {v + 1, v + 2}
    <3>1. PICK e \in edges : e[1] = v /\ e[2] = y
      BY <2>1 DEF Grammar!Successors
    <3>2. y \in Int /\ <<v, y>> \in edges
      BY <1>4, <3>1
    <3> QED
      BY <1>3, <1>5, <3>2
  <2>2. v + 1 \in Grammar!Successors(edges, v) /\ v + 2 \in Grammar!Successors(edges, v)
    BY <1>6 DEF Grammar!Successors
  <2> QED
    BY <2>1, <2>2
<1>9. Grammar!Predecessors(edges, v + 1) = {v}
  <2>1. ASSUME NEW x, x \in Grammar!Predecessors(edges, v + 1)
        PROVE  x = v
    <3>1. PICK e \in edges : e[1] = x /\ e[2] = v + 1
      BY <2>1 DEF Grammar!Predecessors
    <3>2. x \in Int /\ <<x, v + 1>> \in edges
      BY <1>4, <3>1
    <3>3. x \in Nat /\ (v + 1 = x + 1 \/ (v + 1 = x + 2 /\ Forward(x)) \/ Back(x, v + 1))
      BY <1>2, <1>3, <3>2
    <3>4. v + 1 = x + 2 => x = v - 1
      BY <3>3
    <3> QED
      BY <1>2, <1>5, <3>3, <3>4
  <2>2. v \in Grammar!Predecessors(edges, v + 1)
    BY <1>6 DEF Grammar!Predecessors
  <2> QED
    BY <2>1, <2>2
<1>10. Grammar!Successors(edges, v + 1) \in {{v}, {v + 2}}
  <2>1. ASSUME NEW y, y \in Grammar!Successors(edges, v + 1)
        PROVE  (y = v /\ Back(v + 1, v)) \/ (y = v + 2 /\ <<v + 1, v + 2>> \in edges)
    <3>1. PICK e \in edges : e[1] = v + 1 /\ e[2] = y
      BY <2>1 DEF Grammar!Successors
    <3>2. y \in Int /\ <<v + 1, y>> \in edges
      BY <1>4, <3>1
    <3>3. y \in Nat /\ (y = v + 2 \/ Back(v + 1, y))
      <4>1. y \in Nat /\ (y = (v + 1) + 1 \/ (y = (v + 1) + 2 /\ Forward(v + 1)) \/ Back(v + 1, y))
        BY <1>2, <1>3, <3>2
      <4> QED
        BY <1>2, <4>1
    <3>4. Back(v + 1, y) => y = v
      <4> DEFINE x == v + 1
      <4>1. x \in Nat /\ x - 1 = v
        BY <1>2
      <4> HIDE DEF x
      <4>2. Back(x, y) => y = v
        BY <3>3, <4>1 DEF NestInv, BackedgeEnds
      <4> QED
        BY <4>2 DEF x
    <3> QED
      BY <3>2, <3>3, <3>4
  <2>2. /\ Back(v + 1, v) => v \in Grammar!Successors(edges, v + 1)
        /\ <<v + 1, v + 2>> \in edges => v + 2 \in Grammar!Successors(edges, v + 1)
    BY DEF Back, Grammar!Successors
  <2>3. CASE Back(v + 1, v)
    <3>1. Grammar!Successors(edges, v + 1) = {v}
      BY <1>7, <2>1, <2>2, <2>3
    <3> QED
      BY <3>1
  <2>4. CASE ~Back(v + 1, v)
    <3>1. Grammar!Successors(edges, v + 1) = {v + 2}
      BY <1>7, <2>1, <2>2, <2>4
    <3> QED
      BY <3>1
  <2> QED
    BY <2>3, <2>4
<1> QED
  BY <1>8, <1>9, <1>10

LEMMA StartsForward ==
  ASSUME IInv
  PROVE  \A v : v \in Grammar!ForwardStarts(edges) <=> v \in Int /\ Forward(v)
<1>1. /\ numNodes \in Nat /\ idx \in Nat
      /\ edges \subseteq (0..(numNodes - 1)) \X (0..(numNodes - 1))
  BY DEF IInv, TypeOK
<1>2. ASSUME NEW v, v \in Grammar!ForwardStarts(edges)
      PROVE  v \in Int /\ Forward(v)
  <2>1. PICK e \in edges : e[1] = v /\ e[2] > e[1] + 1
    BY <1>2 DEF Grammar!ForwardStarts
  <2>2. e = <<e[1], e[2]>> /\ e[1] \in Int /\ e[2] \in Int
    BY <1>1
  <2>3. e[2] = e[1] + 2
    BY <1>1, <2>1, <2>2 DEF IInv, Shape
  <2> QED
    BY <2>1, <2>2, <2>3 DEF Forward
<1>3. ASSUME NEW v \in Int, Forward(v)
      PROVE  v \in Grammar!ForwardStarts(edges)
  <2>1. <<v, v + 2>> \in edges /\ v + 2 > v + 1
    BY <1>3 DEF Forward
  <2> QED
    BY <2>1 DEF Grammar!ForwardStarts
<1> QED
  BY <1>2, <1>3

LEMMA NestInvNests ==
  ASSUME IInv, NestInv
  PROVE  BlocksNest
<1>1. /\ numNodes \in Nat /\ idx \in Nat
      /\ edges \subseteq (0..(numNodes - 1)) \X (0..(numNodes - 1))
  BY DEF IInv, TypeOK
<1>2. ASSUME NEW v \in Grammar!ForwardStarts(edges)
      PROVE  /\ Grammar!Successors(edges, v) = {v + 1, v + 2}
             /\ Grammar!Predecessors(edges, v + 1) = {v}
             /\ Grammar!Successors(edges, v + 1) \in {{v}, {v + 2}}
             /\ Grammar!ForwardStarts(edges) \cap {v + 1, v + 2} = {}
  <2>1. v \in Int /\ Forward(v)
    BY StartsForward
  <2>2. ~Forward(v + 1) /\ ~Forward(v + 2)
    BY <2>1, EdgesBehind
  <2> QED
    BY <2>1, <2>2, ForwardBlock, StartsForward
<1>3. \A e \in Grammar!BackedgesOf(edges) :
        e[1] \in Nat /\ e[2] \in Nat /\ e = <<e[1], e[2]>> /\ Back(e[1], e[2])
  <2> SUFFICES ASSUME NEW e \in Grammar!BackedgesOf(edges)
               PROVE  e[1] \in Nat /\ e[2] \in Nat /\ e = <<e[1], e[2]>> /\ Back(e[1], e[2])
    OBVIOUS
  <2>1. e \in edges /\ e[2] <= e[1]
    BY DEF Grammar!BackedgesOf
  <2>2. e[1] \in Nat /\ e[2] \in Nat /\ e = <<e[1], e[2]>>
    BY <1>1, <2>1
  <2>3. e[2] < e[1]
    BY <2>1, <2>2 DEF IInv, Shape
  <2> QED
    BY <2>1, <2>2, <2>3 DEF Back
<1>4. ASSUME NEW e \in Grammar!BackedgesOf(edges), NEW f \in Grammar!BackedgesOf(edges), e # f
      PROVE  /\ e[1] # f[1]
             /\ e[1] < f[1] => f[2] <= e[2] \/ f[2] > e[1]
  BY <1>3, <1>4 DEF NestInv, Nested
<1>5. ASSUME NEW e \in Grammar!RepeatEdges(edges), NEW f \in Grammar!RepeatEdges(edges), e # f
      PROVE  e[2] # f[2]
  <2>1. /\ e[1] \in Nat /\ e[2] \in Nat /\ e = <<e[1], e[2]>> /\ Repeats(e[1], e[2])
        /\ f[1] \in Nat /\ f[2] \in Nat /\ f = <<f[1], f[2]>> /\ Repeats(f[1], f[2])
    BY SameRepeats
  <2>2. Back(e[1], e[2]) /\ Back(f[1], f[2])
    BY <2>1 DEF Repeats
  <2>3. CASE e[1] = f[1]
    BY <1>5, <2>1, <2>2, <2>3 DEF NestInv, Nested
  <2>4. CASE e[1] < f[1]
    BY <2>1, <2>2, <2>4 DEF NestInv, Nested
  <2>5. CASE f[1] < e[1]
    BY <2>1, <2>2, <2>5 DEF NestInv, Nested
  <2> QED
    BY <2>1, <2>3, <2>4, <2>5
<1>6. Grammar!WellNested(edges)
  BY <1>2, <1>4, <1>5 DEF Grammar!WellNested
<1> QED
  BY <1>6 DEF BlocksNest

(* What watermark_encode builds is structured after every iteration, for   *)
(* keys of every length: blocks nest and are entered and left at their     *)
(* ends only (encoder.c:87-149).                                           *)
THEOREM EveryGraphIsStructured == Spec => []BlocksNest
<1>1. IInv /\ BlocksInv => BlocksNest
  BY NestInvNests DEF BlocksInv
<1> QED
  BY <1>1, Inductive, StacksHoldOpenNodes, PTL

-----------------------------------------------------------------------------
(* The bit that the connections of node v stand for *)
Odd(v) == \E w \in Nat : Back(v, w) /\ (v - w) % 2 = 1
Meaning(v) == IF Forward(v) \/ Odd(v) THEN 1 ELSE 0

(* pos[v] bits were read before node v: the next is that of v, if v is not *)
(* mute                                                                    *)
Numbers(pos) ==
  /\ pos \in [1..idx -> 1..(i - start)]
  /\ pos[1] = 1 /\ pos[idx] = i - start
  /\ \A v \in 1..(idx - 1) :
       IF Forward(v - 2)
       THEN pos[v + 1] = pos[v]
       ELSE pos[v + 1] = pos[v] + 1 /\ data[start + pos[v]] = Meaning(v)

ReadsBack == \E pos : Numbers(pos)

EncoderInv == IInv /\ SavedInv /\ BlocksInv /\ ReadsBack

-----------------------------------------------------------------------------
(* The connections of a node do not change after its iteration, so that a  *)
(* numbering only grows by the node that is visited: it takes no bit, or   *)
(* the one that was read.                                                  *)
LEMMA NumberingGrows ==
  ASSUME IInv, Looping, ReadsBack, idx' = idx + 1, UNCHANGED <<data, start>>,
         NEW node \in Nat, node = idx,
         \A v \in Int : v # node => (Forward(v)' <=> Forward(v)),
         \A u, v \in Nat : u # node => (Back(u, v)' <=> Back(u, v)),
         \/ Forward(node - 2) /\ i' = i
         \/ ~Forward(node - 2) /\ i' = i + 1 /\ data[i] = Meaning(node)'
  PROVE  ReadsBack'
<1>1. /\ node \in Nat \ {0} /\ i \in Int /\ start \in Int
      /\ i - start \in Nat \ {0}
      /\ i' \in Int /\ i - start <= i' - start /\ i' - start \in Nat \ {0}
  BY Iteration
<1>2. PICK pos : Numbers(pos)
  BY DEF ReadsBack
<1>3. /\ pos \in [1..node -> 1..(i - start)]
      /\ pos[1] = 1 /\ pos[node] = i - start
      /\ \A v \in 1..(node - 1) :
           IF Forward(v - 2)
           THEN pos[v + 1] = pos[v]
           ELSE pos[v + 1] = pos[v] + 1 /\ data[start + pos[v]] = Meaning(v)
  BY <1>2 DEF Numbers
<1>4. PICK last \in Nat \ {0} : last = i' - start /\ i - start <= last
  BY <1>1
<1> DEFINE new == [v \in 1..(node + 1) |-> IF v = node + 1 THEN last ELSE pos[v]]
<1>5. ASSUME NEW v \in 1..(node + 1)
      PROVE  new[v] \in 1..last
  <2>1. CASE v = node + 1
    BY <1>4, <2>1
  <2>2. CASE v # node + 1
    <3>1. v \in 1..node
      BY <1>1, <2>2
    <3>2. pos[v] \in 1..(i - start)
      BY <1>3, <3>1
    <3>3. pos[v] \in 1..last
      BY <1>1, <1>4, <3>2
    <3> QED
      BY <2>2, <3>3
  <2> QED
    BY <2>1, <2>2
<1>6. /\ new \in [1..(node + 1) -> 1..last]
      /\ new[node + 1] = last /\ \A v \in 1..node : new[v] = pos[v]
  BY <1>1, <1>5
<1> HIDE DEF new
<1>7. new[1] = 1
  BY <1>1, <1>3, <1>6
<1>8. ASSUME NEW v \in 1..node
      PROVE  IF Forward(v - 2)'
             THEN new[v + 1] = new[v]
             ELSE new[v + 1] = new[v] + 1 /\ data[start + new[v]] = Meaning(v)'
  <2>1. v \in Nat /\ v - 2 \in Int /\ v - 2 # node /\ new[v] = pos[v]
    BY <1>1, <1>6
  <2>2. Forward(v - 2)' <=> Forward(v - 2)
    BY <2>1
  <2>3. CASE v = node
    <3>1. new[v + 1] = last /\ pos[v] = i - start /\ start + pos[v] = i
      BY <1>1, <1>3, <1>4, <1>6, <2>3
    <3>2. Forward(v - 2) => i' = i
      BY <1>1, <2>3
    <3>3. ~Forward(v - 2) => i' = i + 1 /\ data[i] = Meaning(v)'
      BY <2>3
    <3>4. Forward(v - 2) => new[v + 1] = new[v]
      BY <1>1, <1>4, <2>1, <3>1, <3>2
    <3>5. ~Forward(v - 2) => new[v + 1] = new[v] + 1 /\ data[start + new[v]] = Meaning(v)'
      <4>1. i' = i + 1 => new[v + 1] = new[v] + 1
        BY <1>1, <1>4, <2>1, <3>1
      <4> QED
        BY <2>1, <3>1, <3>3, <4>1
    <3> QED
      BY <2>2, <3>4, <3>5
  <2>4. CASE v # node
    <3>1. v \in 1..(node - 1) /\ v + 1 \in 1..node
      BY <1>1, <2>4
    <3>2. Meaning(v)' = Meaning(v)
      <4>1. Odd(v)' <=> Odd(v)
        BY <2>1, <2>4 DEF Odd
      <4>2. Forward(v)' <=> Forward(v)
        BY <2>1, <2>4
      <4> QED
        BY <4>1, <4>2 DEF Meaning
    <3>3. new[v + 1] = pos[v + 1]
      BY <1>6, <3>1
    <3> QED
      BY <1>3, <2>1, <2>2, <3>1, <3>2, <3>3
  <2> QED
    BY <2>3, <2>4
<1>9. idx' = node + 1 /\ idx' - 1 = node /\ data' = data /\ start' = start
  BY <1>1
<1>10. Numbers(new)'
  BY <1>4, <1>6, <1>7, <1>8, <1>9 DEF Numbers
<1> QED
  BY <1>10 DEF ReadsBack

(* A node that has not been visited has no connections but the path's *)
LEMMA NotVisited ==
  ASSUME IInv
  PROVE  ~Forward(idx) /\ \A w \in Nat : ~Back(idx, w)
<1>1. idx \in Nat
  BY EdgesBehind
<1>2. ASSUME NEW w \in Nat
      PROVE  ~Back(idx, w)
  BY <1>1, EdgesBehind
<1>3. ~Forward(idx)
  BY <1>1, EdgesBehind
<1> QED
  BY <1>2, <1>3

(* Every bit that is read is what the new connections of the node mean:    *)
(* the backedge of a while is odd, and a backedge of a repeat has the      *)
(* parity of the stack that its end was taken from (encoder.c:87-149).     *)
LEMMA StepReads ==
  ASSUME IInv, SavedInv, BlocksInv, ReadsBack, Next
  PROVE  ReadsBack'
<1>1. PICK node \in Nat : node = idx
  BY EdgesBehind
<1>2. CASE VisitMute
  <2>1. /\ Looping /\ idx' = idx + 1 /\ UNCHANGED <<data, start, i, edges, numNodes>>
        /\ Forward(node - 2)
    BY <1>1, <1>2, ForwardEdges DEF VisitMute
  <2>2. /\ \A v \in Int : Forward(v)' <=> Forward(v)
        /\ \A u, v \in Nat : Back(u, v)' <=> Back(u, v)
    BY <2>1 DEF Forward, Back
  <2> QED
    BY <1>1, <2>1, <2>2, NumberingGrows
<1>3. ASSUME BuildWhile \/ BuildIf \/ BuildRepeat \/ OpenForward \/ VisitZero
      PROVE  /\ Looping /\ idx' = idx + 1 /\ UNCHANGED <<data, start>> /\ i' = i + 1
             /\ ~Forward(node - 2)
             /\ ~Forward(node) /\ \A w \in Nat : ~Back(node, w)
  BY <1>1, <1>3, ForwardEdges, NotVisited
     DEF BuildWhile, BuildIf, BuildRepeat, OpenForward, VisitZero, ReadBit
<1>4. CASE BuildIf \/ VisitZero
  <2>1. data[i] = 0 /\ edges' = edges
    BY <1>4 DEF BuildIf, VisitZero
  <2>2. /\ \A v \in Int : Forward(v)' <=> Forward(v)
        /\ \A u, v \in Nat : Back(u, v)' <=> Back(u, v)
    BY <2>1 DEF Forward, Back
  <2>3. Meaning(node)' = 0
    BY <1>3, <1>4, <2>2 DEF Meaning, Odd
  <2> QED
    BY <1>1, <1>3, <1>4, <2>1, <2>2, <2>3, NumberingGrows
<1>5. ASSUME BuildWhile \/ BuildRepeat, NEW w \in 0..(idx - 1),
             /\ \A v \in Int : Forward(v)' <=> Forward(v)
             /\ \A u, v \in Nat : Back(u, v)' <=> Back(u, v) \/ (u = idx /\ v = w),
             (node - w) % 2 = data[i]
      PROVE  ReadsBack'
  <2>1. data[i] \in {0, 1} /\ w \in Nat
    <3>1. i \in 0..(NumBits - 1)
      BY <1>3, <1>5, LengthOfKey DEF IInv, TypeOK, Looping
    <3> QED
      BY <1>5, <3>1, EdgesBehind DEF IInv, TypeOK, Bit
  <2>2. Odd(node)' <=> (node - w) % 2 = 1
    BY <1>1, <1>3, <1>5, <2>1 DEF Odd
  <2>3. ~Forward(node)'
    BY <1>3, <1>5
  <2>4. Meaning(node)' = data[i]
    BY <1>5, <2>1, <2>2, <2>3 DEF Meaning
  <2>5. /\ \A v \in Int : v # node => (Forward(v)' <=> Forward(v))
        /\ \A u, v \in Nat : u # node => (Back(u, v)' <=> Back(u, v))
    BY <1>1, <1>5
  <2> QED
    BY <1>1, <1>3, <1>5, <2>4, <2>5, NumberingGrows
<1>6. CASE BuildWhile
  <2>1. /\ edges' = (edges \cup {<<idx, idx - 1>>}) \ {<<idx, idx + 1>>}
        /\ data[i] = 1
    BY <1>6 DEF BuildWhile
  <2>2. PICK w \in 0..(idx - 1) : w = idx - 1
    BY EdgesBehind
  <2>3. (node - w) % 2 = 1
    BY <1>1, <2>2
  <2>4. /\ \A v \in Int : Forward(v)' <=> Forward(v)
        /\ \A u, v \in Nat : Back(u, v)' <=> Back(u, v) \/ (u = idx /\ v = w)
    BY <1>3, <1>6, <2>1, <2>2, BackedgeAdded
  <2> QED
    BY <1>5, <1>6, <2>1, <2>3, <2>4
<1>7. CASE BuildRepeat
  <2>1. PICK w \in 0..(idx - 1) : edges' = edges \cup {<<idx, w>>} /\ OwnStack(w) = Possible
    BY <1>7, PoppedOrdered DEF BlocksInv, OpenInv
  <2>2. (node - w) % 2 = data[i]
    BY <1>1, <1>3, <1>7, <2>1, SameParity
  <2>3. /\ \A v \in Int : Forward(v)' <=> Forward(v)
        /\ \A u, v \in Nat : Back(u, v)' <=> Back(u, v) \/ (u = idx /\ v = w)
    BY <1>3, <1>7, <2>1, BackedgeAdded
  <2> QED
    BY <1>5, <1>7, <2>2, <2>3
<1>8. CASE OpenForward
  <2>1. /\ edges' = edges \cup {<<numNodes - 1, numNodes>>, <<idx, idx + 2>>}
        /\ data[i] = 1
    BY <1>8 DEF OpenForward
  <2>2. /\ \A v \in Int : Forward(v)' <=> Forward(v) \/ v = idx
        /\ \A u, v \in Nat : Back(u, v)' <=> Back(u, v)
    BY <1>3, <1>8, <2>1, ForwardAdded
  <2>3. Meaning(node)' = 1
    BY <1>1, <2>2 DEF Meaning
  <2>4. \A v \in Int : v # node => (Forward(v)' <=> Forward(v))
    BY <1>1, <2>2
  <2> QED
    BY <1>1, <1>3, <1>8, <2>1, <2>2, <2>3, <2>4, NumberingGrows
<1>9. CASE Stop
  BY <1>9 DEF Stop, vars, ReadsBack, Numbers, Meaning, Odd, Forward, Back
<1> QED
  BY <1>2, <1>4, <1>6, <1>7, <1>8, <1>9 DEF Next

LEMMA InitReads == Init => ReadsBack
<1> SUFFICES ASSUME Init
             PROVE  ReadsBack
  OBVIOUS
<1>1. idx = 1 /\ i - start = 1
  BY NumBitsAssumption DEF Init, FirstPositiveBitIndex
<1> DEFINE pos == [v \in 1..1 |-> 1]
<1>2. pos \in [1..1 -> 1..1] /\ pos[1] = 1
  OBVIOUS
<1> HIDE DEF pos
<1>3. Numbers(pos)
  BY <1>1, <1>2 DEF Numbers
<1> QED
  BY <1>3 DEF ReadsBack

(* Everything that is known of the encoder *)
LEMMA InitEncoder == Init => EncoderInv
  BY InitInv, InitSaved, InitBlocks, InitReads DEF EncoderInv

LEMMA EncoderStep == EncoderInv /\ [Next]_vars => EncoderInv'
<1> SUFFICES ASSUME EncoderInv, [Next]_vars
             PROVE  EncoderInv'
  OBVIOUS
<1>1. IInv' /\ SavedInv' /\ BlocksInv'
  BY StepInv, StepSaved, StepBlocks DEF EncoderInv
<1>2. ReadsBack'
  <2>1. CASE Next
    BY <2>1, StepReads DEF EncoderInv
  <2>2. CASE UNCHANGED vars
    <3>1. UNCHANGED <<data, start, i, idx, edges>>
      BY <2>2 DEF vars
    <3>2. PICK pos : Numbers(pos)
      BY DEF EncoderInv, ReadsBack
    <3>3. Numbers(pos)'
      BY <3>1, <3>2 DEF Numbers, Meaning, Odd, Forward, Back
    <3> QED
      BY <3>3 DEF ReadsBack
  <2> QED
    BY <2>1, <2>2
<1> QED
  BY <1>1, <1>2 DEF EncoderInv

(* What the encoder leaves: the nodes it has visited, and one more if the  *)
(* key ends inside a forward edge or right after one.                      *)
LEMMA LastNodes ==
  ASSUME IInv, Encoded
  PROVE  /\ i = NumBits /\ i - start = n /\ n \in Nat \ {0}
         /\ idx \in Nat \ {0} /\ numNodes \in Nat
         /\ numNodes - 2 = idx + (IF Forward(idx - 1) \/ Forward(idx - 2) THEN 1 ELSE 0)
         /\ Forward(idx - 1) => idx > 1 /\ ~Forward(idx - 2)
<1>1. i = NumBits /\ i - start = n /\ n \in Nat \ {0}
      /\ i \in Int /\ start \in Int
      /\ idx \in Nat \ {0} /\ numNodes \in Nat
  BY NumBitsAssumption, LengthOfKey DEF IInv, TypeOK, Encoded, Looping, n
<1>2. numNodes - 2 = idx + (IF Forward(idx - 1) \/ Forward(idx - 2) THEN 1 ELSE 0)
  <2> DEFINE b == IF Forward(idx - 1) \/ Forward(idx - 2) THEN 1 ELSE 0
  <2>1. numNodes = n + 2 + (idx - n) + b /\ b \in Nat
    BY <1>1 DEF IInv, NodeCount
  <2> HIDE DEF b
  <2>2. numNodes - 2 = idx + b
    BY <1>1, <2>1
  <2> QED
    BY <2>2 DEF b
<1>3. ASSUME Forward(idx - 1)
      PROVE  idx > 1 /\ ~Forward(idx - 2)
  <2>1. 2 * (idx - n) + 1 <= n - 1 /\ n <= idx
    BY <1>1, <1>3 DEF IInv, MuteCount
  <2>2. idx > 1
    BY <1>1, <2>1
  <2>3. (idx - 2) + 1 = idx - 1 /\ idx - 2 \in Int
    BY <1>1
  <2> QED
    BY <1>3, <2>2, <2>3, EdgesBehind
<1> QED
  BY <1>1, <1>2, <1>3

(* In every graph that watermark_encode builds, at every moment, the nodes *)
(* that are not inside or right after a forward edge can be numbered with  *)
(* the bits read, and mean them (encoder.c:87-149).                        *)
THEOREM NodesMeanTheirBits == Spec => []EncoderInv
  BY InitEncoder, EncoderStep, PTL DEF Spec

-----------------------------------------------------------------------------
(***************************************************************************)
(* A zero that no connection stands for was written because the encoder    *)
(* had nowhere to go back to.  This is what a reader may rely on who finds *)
(* a node without connections where its key has a 1.                       *)
(***************************************************************************)
(* Node v has the connections of the path only, and is inside or right     *)
(* after no forward edge                                                   *)
Bare(v) ==
  /\ ~Forward(v) /\ ~Forward(v - 1) /\ ~Forward(v - 2)
  /\ \A y \in Nat : ~Back(v, y)

(* w was open when node v was visited *)
OpenAt(w, v) ==
  /\ ~Forward(w - 1)
  /\ \A x, y \in Nat : Repeats(x, y) /\ x < v /\ y <= w => w > x

MutesAreStraight == \A u, y \in Nat : Back(u, y) => ~Forward(u - 2)

ZerosAreForced ==
  \A v \in Nat : v < idx /\ v > 0 /\ Bare(v) =>
    \/ \E y \in Nat : Back(v - 1, y)
    \/ \A w \in Nat : w < v /\ (v - w) % 2 = 0 => ~OpenAt(w, v)

ForcedInv == MutesAreStraight /\ ZerosAreForced

(* What an iteration does to the nodes before it: nothing *)
LEMMA NodesBehindStay ==
  ASSUME EncoderInv, Next
  PROVE  /\ idx' = idx \/ (idx' = idx + 1 /\ Looping)
         /\ \A v \in Int : v < idx => (Forward(v)' <=> Forward(v))
         /\ \A u, v \in Nat : u < idx => (Back(u, v)' <=> Back(u, v))
         /\ \A u, v \in Nat : u < idx => (Repeats(u, v)' <=> Repeats(u, v))
<1>1. IInv /\ SavedInv /\ OpenInv /\ idx \in Nat \ {0}
  BY EdgesBehind DEF EncoderInv, BlocksInv
<1>2. \/ idx' = idx /\ edges' = edges
      \/ /\ idx' = idx + 1 /\ Looping
         /\ \/ edges' = edges
            \/ edges' = edges \cup {<<numNodes - 1, numNodes>>, <<idx, idx + 2>>}
            \/ \E w \in 0..(idx - 1) :
                 \/ edges' = edges \cup {<<idx, w>>}
                 \/ edges' = (edges \cup {<<idx, w>>}) \ {<<idx, idx + 1>>}
  <2>1. CASE BuildRepeat
    BY <1>1, <2>1, PoppedOrdered DEF OpenInv, BuildRepeat, ReadBit
  <2>2. CASE BuildWhile
    <3>1. idx - 1 \in 0..(idx - 1)
      BY <1>1
    <3> QED
      BY <2>2, <3>1 DEF BuildWhile, ReadBit
  <2>3. CASE VisitMute \/ BuildIf \/ OpenForward \/ VisitZero \/ Stop
    BY <2>3 DEF VisitMute, BuildIf, OpenForward, VisitZero, Stop, vars, ReadBit
  <2> QED
    BY <2>1, <2>2, <2>3 DEF Next
<1>3. /\ \A v \in Int : v < idx => (Forward(v)' <=> Forward(v))
      /\ \A u, v \in Nat : u < idx => (Back(u, v)' <=> Back(u, v))
  <2>1. CASE edges' = edges
    BY <2>1 DEF Forward, Back
  <2>2. CASE Looping /\ edges' = edges \cup {<<numNodes - 1, numNodes>>, <<idx, idx + 2>>}
    BY <1>1, <2>2, ForwardAdded
  <2>3. ASSUME NEW w \in 0..(idx - 1), Looping,
               \/ edges' = edges \cup {<<idx, w>>}
               \/ edges' = (edges \cup {<<idx, w>>}) \ {<<idx, idx + 1>>}
        PROVE  /\ \A v \in Int : v < idx => (Forward(v)' <=> Forward(v))
               /\ \A u, v \in Nat : u < idx => (Back(u, v)' <=> Back(u, v))
    BY <1>1, <2>3, BackedgeAdded
  <2> QED
    BY <1>2, <2>1, <2>2, <2>3
<1>4. \A u, v \in Nat : u < idx => (Repeats(u, v)' <=> Repeats(u, v))
  BY <1>1, <1>3 DEF Repeats
<1> QED
  BY <1>2, <1>3, <1>4

(* and what it writes for a zero, if it is not inside a forward edge       *)
LEMMA ZeroIsForced ==
  ASSUME EncoderInv, VisitZero, NEW v \in Nat, v = idx, ~Forward(v - 1),
         NEW w \in Nat, w < v, (v - w) % 2 = 0, OpenAt(w, v)
  PROVE  \E y \in Nat : Back(v - 1, y)
<1>1. /\ IInv /\ BlocksInv /\ Looping /\ ~CanGoBack /\ data[i] = 0 /\ v \in Nat \ {0}
  BY EdgesBehind DEF EncoderInv, VisitZero
<1>2. Grammar!Destinations(edges, idx, 0) = {}
  BY <1>1, NoneToGoBackTo
<1>3. ASSUME Within(w)
      PROVE  FALSE
  <2>1. PICK x \in Nat, y \in Nat : Repeats(x, y) /\ y <= w /\ w <= x
    BY <1>3 DEF Within
  <2>2. x \in 0..(v - 1)
    BY <1>1, <2>1, EdgesBehind DEF Repeats
  <2>3. w > x
    BY <2>1, <2>2 DEF OpenAt
  <2> QED
    BY <2>1, <2>2, <2>3
<1>4. w \in 0..(idx - 1) /\ IsOpen(w)
  BY <1>3 DEF IsOpen, OpenAt
<1>5. w \in Grammar!OpenNodes(edges, idx)
  BY <1>1, <1>4, SameOpenNodes
<1>6. Grammar!HasBackedge(edges, idx - 1)
  BY <1>2, <1>5 DEF Grammar!Destinations
<1>7. HasBackedge(edges, v - 1)
  BY <1>1, <1>6, SameGoingBack
<1>8. PICK y \in BackedgeTargets(edges, v - 1) : TRUE
  BY <1>7 DEF HasBackedge
<1>9. y \in Nat /\ y < v - 1 /\ <<v - 1, y>> \in edges
  BY <1>1, <1>8 DEF BackedgeTargets, Connected
<1> QED
  BY <1>9 DEF Back

LEMMA BackSources == IInv => \A u, v \in Nat : Back(u, v) => u < idx
<1> SUFFICES ASSUME IInv, NEW u \in Nat, NEW v \in Nat, Back(u, v)
             PROVE  u < idx
  OBVIOUS
<1>1. u \in 0..(idx - 1) /\ idx \in Nat \ {0}
  BY EdgesBehind
<1> QED
  BY <1>1

(* What the node that is visited becomes                                   *)
LEMMA NodeBecomes ==
  ASSUME EncoderInv, Next, NEW v \in Nat \ {0}, v = idx, idx' = v + 1
  PROVE  \/ Forward(v - 2) /\ \A y \in Nat : ~Back(v, y)'
         \/ ~Forward(v - 2) /\ (Forward(v - 1) \/ Forward(v)' \/ \E y \in Nat : Back(v, y)')
         \/ ~Forward(v - 2) /\ ~Forward(v - 1) /\ VisitZero
<1>1. /\ IInv /\ SavedInv /\ OpenInv
      /\ Mute <=> Forward(v - 2)
      /\ Inner <=> Forward(v - 1)
      /\ \A y \in Nat : ~Back(v, y)
  BY ForwardEdges, NotVisited DEF EncoderInv, BlocksInv
<1>2. CASE VisitMute
  BY <1>1, <1>2 DEF VisitMute, Back
<1>3. CASE BuildWhile \/ BuildIf \/ VisitZero
  BY <1>1, <1>3 DEF BuildWhile, BuildIf, VisitZero
<1>4. CASE BuildRepeat
  <2>1. PICK w \in 0..(idx - 1) : edges' = edges \cup {<<idx, w>>}
    BY <1>1, <1>4, PoppedOrdered DEF OpenInv
  <2>2. Back(v, w)' /\ w \in Nat
    BY <2>1 DEF Back
  <2> QED
    BY <1>1, <1>4, <2>2 DEF BuildRepeat
<1>5. CASE OpenForward
  <2>1. Forward(v)'
    BY <1>5 DEF OpenForward, Forward
  <2> QED
    BY <1>1, <1>5, <2>1 DEF OpenForward
<1>6. CASE Stop
  BY <1>6 DEF Stop, vars
<1> QED
  BY <1>2, <1>3, <1>4, <1>5, <1>6 DEF Next

LEMMA StepForces ==
  ASSUME EncoderInv, EncoderInv', ForcedInv, Next
  PROVE  ForcedInv'
<1>1. PICK node \in Nat \ {0} : node = idx
  BY EdgesBehind DEF EncoderInv
<1>2. /\ idx' = node \/ idx' = node + 1
      /\ \A v \in Int : v < node => (Forward(v)' <=> Forward(v))
      /\ \A u, v \in Nat : u < node => (Back(u, v)' <=> Back(u, v))
      /\ \A u, v \in Nat : u < node => (Repeats(u, v)' <=> Repeats(u, v))
  BY <1>1, NodesBehindStay
<1>3. \A u, v \in Nat : Back(u, v)' => u < idx'
  <2>1. (IInv => \A u, v \in Nat : Back(u, v) => u < idx)'
    BY BackSources, PTL
  <2> QED
    BY <2>1 DEF EncoderInv
<1>4. idx' = node + 1 =>
         \/ Forward(node - 2) /\ \A y \in Nat : ~Back(node, y)'
         \/ ~Forward(node - 2) /\ (Forward(node - 1) \/ Forward(node)' \/ \E y \in Nat : Back(node, y)')
         \/ ~Forward(node - 2) /\ ~Forward(node - 1) /\ VisitZero
  BY <1>1, NodeBecomes
<1>5. MutesAreStraight'
  <2> SUFFICES ASSUME NEW u \in Nat, NEW y \in Nat, Back(u, y)'
               PROVE  ~Forward(u - 2)'
    BY DEF MutesAreStraight
  <2>1. CASE u < node
    <3>1. Back(u, y) /\ (Forward(u - 2)' <=> Forward(u - 2))
      BY <1>1, <1>2, <2>1
    <3> QED
      BY <3>1 DEF ForcedInv, MutesAreStraight
  <2>2. CASE ~(u < node)
    <3>1. u = node /\ idx' = node + 1
      BY <1>1, <1>2, <1>3, <2>2
    <3>2. ~Forward(node - 2)
      BY <1>4, <3>1
    <3> QED
      BY <1>1, <1>2, <3>1, <3>2
  <2> QED
    BY <2>1, <2>2
<1>6. ZerosAreForced'
  <2> SUFFICES ASSUME NEW v \in Nat, v < idx', v > 0, Bare(v)',
                      NEW w \in Nat, w < v, (v - w) % 2 = 0, OpenAt(w, v)'
               PROVE  \E y \in Nat : Back(v - 1, y)'
    BY DEF ZerosAreForced
  <2>1. /\ v <= node /\ v - 1 < node /\ v - 2 < node /\ w - 1 < node
        /\ v - 1 \in Nat /\ v - 2 \in Int /\ w - 1 \in Int
    BY <1>1, <1>2
  <2>2. /\ ~Forward(v)' /\ ~Forward(v - 1) /\ ~Forward(v - 2)
        /\ \A y \in Nat : ~Back(v, y)'
    BY <1>2, <2>1 DEF Bare
  <2>3. OpenAt(w, v)
    BY <1>1, <1>2, <2>1 DEF OpenAt
  <2>4. \E y \in Nat : Back(v - 1, y)
    <3>1. CASE v < node
      <4>1. Bare(v)
        BY <1>1, <1>2, <2>2, <3>1 DEF Bare
      <4> QED
        BY <1>1, <2>3, <3>1, <4>1 DEF ForcedInv, ZerosAreForced
    <3>2. CASE v = node
      <4>1. idx' = node + 1
        BY <1>1, <1>2, <3>2
      <4>2. VisitZero
        BY <1>4, <2>2, <3>2, <4>1
      <4> QED
        BY <1>1, <2>2, <2>3, <3>2, <4>2, ZeroIsForced
    <3> QED
      BY <1>1, <2>1, <3>1, <3>2
  <2> QED
    BY <1>1, <1>2, <2>1, <2>4
<1> QED
  BY <1>5, <1>6 DEF ForcedInv

LEMMA InitForces == Init => ForcedInv
<1> SUFFICES ASSUME Init
             PROVE  ForcedInv
  OBVIOUS
<1>1. IInv /\ idx = 1
  BY InitInv DEF Init
<1>2. \A u, y \in Nat : ~Back(u, y)
  BY DEF Init, HamiltonianPath, Back
<1>3. \A v \in Nat : v < idx => ~(v > 0)
  BY <1>1
<1> QED
  BY <1>2, <1>3 DEF ForcedInv, MutesAreStraight, ZerosAreForced

-----------------------------------------------------------------------------
(***************************************************************************)
(* What a reader may rely on who finds a 1: for a 1 the node just before   *)
(* is always a destination, whatever else the stacks hold, so that the     *)
(* encoder goes back unless that node goes back itself.                    *)
(***************************************************************************)
ForwardFollowsBack == \A v \in Nat : Forward(v) => \E y \in Nat : Back(v - 1, y)
RepeatsApart == \A u, v, y \in Nat : Repeats(u, v) => ~Back(u - 1, y)
ApartInv == ForwardFollowsBack /\ RepeatsApart

(* A forward edge is opened where the node before goes back                *)
LEMMA OpenedAfterBack ==
  ASSUME EncoderInv, OpenForward, NEW v \in Nat, v = idx
  PROVE  \E y \in Nat : Back(v - 1, y)
<1>1. /\ Looping /\ ~Mute /\ ~CanGoBack /\ data[i] = 1
  BY DEF OpenForward
<1>2. /\ IInv /\ OpenInv /\ v \in Nat \ {0} /\ v - 1 \in Nat
      /\ v - 1 \in 0..(v - 1)
  <2>1. idx \in Nat \ {0}
    BY EdgesBehind DEF EncoderInv
  <2> QED
    BY <2>1 DEF EncoderInv, BlocksInv
<1> SUFFICES ASSUME \A y \in Nat : ~Back(v - 1, y)
             PROVE  FALSE
  OBVIOUS
<1>3. ~Forward(v - 2)
  <2>1. (v - 2) + 2 = v
    BY <1>2
  <2>2. Forward(v - 2) => v > 1
    BY <1>2, EdgesBehind
  <2> QED
    BY <1>1, <2>1, <2>2 DEF Mute, Connected, Forward
<1>4. IsOpen(v - 1)
  <2>1. ~Within(v - 1)
    <3> SUFFICES ASSUME NEW x \in Nat, NEW y \in Nat, Repeats(x, y), y <= v - 1, v - 1 <= x
                 PROVE  FALSE
      BY DEF Within
    <3>1. Back(x, y) /\ x < v
      BY <1>2, BackSources DEF Repeats
    <3>2. x = v - 1
      BY <1>2, <3>1
    <3> QED
      BY <3>1, <3>2
  <2>2. (v - 1) - 1 = v - 2 /\ v - 1 < v
    BY <1>2
  <2> QED
    BY <1>3, <2>1, <2>2 DEF IsOpen
<1>5. PICK s \in StackNames : \E p \in Positions(s) : Entry(s, p) = v - 1
  BY <1>2, <1>4 DEF OpenInv, ExactlyOpen, InStack
<1>6. PICK p \in Positions(s) : Entry(s, p) = v - 1
  BY <1>5
<1>7. s = Possible
  <2>1. OwnStack(v - 1) = s
    BY <1>2, <1>6 DEF OpenInv, StacksOrdered, OwnParity
  <2>2. IsOdd(v - 1) <=> ~IsOdd(v)
    BY <1>2 DEF IsOdd
  <2> QED
    BY <1>1, <2>1, <2>2 DEF Possible, PossibleBackedges, OwnStack
<1>8. stack[Possible].n \in Nat /\ stack[Possible].n > 0
  <2>1. stack[s].n \in 0..n /\ n \in Nat
    BY <1>2, LengthOfKey DEF IInv, TypeOK
  <2> QED
    BY <1>6, <1>7, <2>1 DEF Positions
<1>9. stack[Possible].n = 1 => ~Connected(edges, idx - 1, stack[Possible].mem[0])
  <2> SUFFICES ASSUME stack[Possible].n = 1, Connected(edges, v - 1, stack[Possible].mem[0])
               PROVE  FALSE
    OBVIOUS
  <2>1. p = 0
    BY <1>6, <1>7, <1>8 DEF Positions
  <2>2. <<v - 1, v - 1>> \in edges
    BY <1>6, <1>7, <2>1 DEF Entry, Connected
  <2>3. \/ v - 1 = (v - 1) + 1 \/ v - 1 = (v - 1) + 2 \/ v - 1 < v - 1
    BY <1>2, <2>2 DEF IInv, Shape
  <2> QED
    BY <1>2, <2>3
<1>10. ~HasBackedge(edges, idx - 1)
  <2> SUFFICES ASSUME NEW w \in 0..((v - 1) - 1), <<v - 1, w>> \in edges
               PROVE  FALSE
    BY DEF HasBackedge, BackedgeTargets, Connected
  <2>1. w \in Nat /\ w < v - 1
    BY <1>2
  <2> QED
    BY <2>1 DEF Back
<1> QED
  BY <1>1, <1>8, <1>9, <1>10 DEF CanGoBack, HasPossibleBackedge

(* and a repeat block is closed where it does not                          *)
LEMMA ClosedApart ==
  ASSUME EncoderInv, BuildRepeat, NEW v \in Nat, v = idx, NEW y \in Nat
  PROVE  ~Back(v - 1, y)
<1>1. ~HasBackedge(edges, v - 1)
  BY DEF BuildRepeat, CanGoBack, HasPossibleBackedge
<1>2. v \in Nat \ {0}
  BY EdgesBehind DEF EncoderInv
<1>3. Back(v - 1, y) => y \in 0..((v - 1) - 1)
  BY <1>2 DEF Back
<1> QED
  BY <1>1, <1>3 DEF HasBackedge, BackedgeTargets, Connected, Back

LEMMA ForwardSources == IInv => \A v \in Nat : Forward(v) => v < idx
<1> SUFFICES ASSUME IInv, NEW v \in Nat, Forward(v)
             PROVE  v < idx
  OBVIOUS
<1>1. v \in 0..(idx - 1) /\ idx \in Nat \ {0}
  BY EdgesBehind
<1> QED
  BY <1>1

(* No other iteration opens a forward edge, and none but that of a while   *)
(* block closes one otherwise                                              *)
LEMMA OpensOnly ==
  ASSUME IInv, SavedInv, OpenInv, Next, NEW v \in Nat, v = idx, Forward(v)'
  PROVE  OpenForward
<1>1. ~Forward(v)
  BY ForwardSources
<1>2. CASE VisitMute \/ BuildIf \/ VisitZero \/ Stop
  BY <1>1, <1>2 DEF VisitMute, BuildIf, VisitZero, Stop, vars, Forward
<1>3. CASE BuildWhile
  BY <1>1, <1>3 DEF BuildWhile, Forward
<1>4. CASE BuildRepeat
  <2>1. PICK w \in 0..(idx - 1) : edges' = edges \cup {<<idx, w>>}
    BY <1>4, PoppedOrdered DEF OpenInv
  <2>2. <<v, v + 2>> # <<idx, w>>
    OBVIOUS
  <2> QED
    BY <1>1, <2>1, <2>2 DEF Forward
<1> QED
  BY <1>2, <1>3, <1>4 DEF Next

LEMMA ClosesOnly ==
  ASSUME IInv, OpenInv, Next, NEW u \in Nat, u = idx, NEW v \in Nat, Repeats(u, v)'
  PROVE  BuildRepeat
<1>1. ~Back(u, v) /\ v < u /\ <<u, v>> \in edges' /\ ~Forward(u - 1)'
  BY BackSources DEF Repeats, Back
<1>2. CASE VisitMute \/ BuildIf \/ VisitZero \/ Stop
  BY <1>1, <1>2 DEF VisitMute, BuildIf, VisitZero, Stop, vars, Back
<1>3. CASE BuildWhile
  <2>1. Forward(u - 1)
    <3>1. (u - 1) + 2 = u + 1
      OBVIOUS
    <3> QED
      BY <1>3, <3>1 DEF BuildWhile, Inner, Connected, Forward
  <2>2. Forward(u - 1)'
    <3>1. <<u - 1, (u - 1) + 2>> # <<idx, idx + 1>>
      OBVIOUS
    <3> QED
      BY <1>3, <2>1, <3>1 DEF BuildWhile, Forward
  <2> QED
    BY <1>1, <2>2
<1>4. CASE OpenForward
  <2>1. numNodes \in Nat
    BY DEF IInv, TypeOK
  <2>2. <<u, v>> # <<numNodes - 1, numNodes>> /\ <<u, v>> # <<idx, idx + 2>>
    BY <1>1, <2>1
  <2> QED
    BY <1>1, <1>4, <2>2 DEF OpenForward, Back
<1> QED
  BY <1>2, <1>3, <1>4 DEF Next

LEMMA StepApart ==
  ASSUME EncoderInv, ApartInv, Next, EncoderInv'
  PROVE  ApartInv'
<1>1. PICK node \in Nat \ {0} : node = idx
  BY EdgesBehind DEF EncoderInv
<1>2. /\ idx' = node \/ idx' = node + 1
      /\ \A v \in Int : v < node => (Forward(v)' <=> Forward(v))
      /\ \A u, v \in Nat : u < node => (Back(u, v)' <=> Back(u, v))
      /\ \A u, v \in Nat : u < node => (Repeats(u, v)' <=> Repeats(u, v))
  BY <1>1, NodesBehindStay
<1>3. /\ \A u, v \in Nat : Back(u, v)' => u < idx'
      /\ \A v \in Nat : Forward(v)' => v < idx'
  <2>1. (IInv => \A u, v \in Nat : Back(u, v) => u < idx)'
    BY BackSources, PTL
  <2>2. (IInv => \A v \in Nat : Forward(v) => v < idx)'
    BY ForwardSources, PTL
  <2> QED
    BY <2>1, <2>2 DEF EncoderInv
<1>4. IInv /\ SavedInv /\ OpenInv /\ \A u, v \in Nat : Back(u, v) => u < node
  BY <1>1, BackSources DEF EncoderInv, BlocksInv
<1>5. ForwardFollowsBack'
  <2> SUFFICES ASSUME NEW v \in Nat, Forward(v)'
               PROVE  \E y \in Nat : Back(v - 1, y)'
    BY DEF ForwardFollowsBack
  <2>1. /\ v <= node /\ v # 0 => v - 1 \in Nat
        /\ v - 1 < node
    BY <1>1, <1>2, <1>3
  <2>2. \E y \in Nat : Back(v - 1, y)
    <3>1. CASE v < node
      <4>1. Forward(v)
        BY <1>2, <3>1
      <4> QED
        BY <4>1 DEF ApartInv, ForwardFollowsBack
    <3>2. CASE v = node
      <4>1. idx' = node + 1 /\ OpenForward
        BY <1>1, <1>2, <1>3, <1>4, <3>2, OpensOnly
      <4> QED
        BY <1>1, <3>2, <4>1, OpenedAfterBack
    <3> QED
      BY <1>1, <2>1, <3>1, <3>2
  <2>3. PICK y \in Nat : Back(v - 1, y)
    BY <2>2
  <2>4. v - 1 \in Nat
    BY <2>3 DEF Back
  <2> QED
    BY <1>2, <2>1, <2>3, <2>4
<1>6. RepeatsApart'
  <2> SUFFICES ASSUME NEW u \in Nat, NEW v \in Nat, NEW y \in Nat, Repeats(u, v)', Back(u - 1, y)'
               PROVE  FALSE
    BY DEF RepeatsApart
  <2>1. /\ u <= node /\ u - 1 < node /\ u - 1 \in Nat
        /\ Back(u - 1, y)
    <3>1. u - 1 \in Nat
      BY DEF Back
    <3>2. u <= node
      BY <1>1, <1>2, <1>3 DEF Repeats
    <3> QED
      BY <1>1, <1>2, <3>1, <3>2
  <2>2. CASE u < node
    <3>1. Repeats(u, v)
      BY <1>2, <2>2
    <3> QED
      BY <2>1, <3>1 DEF ApartInv, RepeatsApart
  <2>3. CASE u = node
    <3>1. BuildRepeat
      BY <1>1, <1>4, <2>3, ClosesOnly
    <3> QED
      BY <1>1, <2>1, <2>3, <3>1, ClosedApart
  <2> QED
    BY <1>1, <2>1, <2>2, <2>3
<1> QED
  BY <1>5, <1>6 DEF ApartInv

LEMMA InitApart == Init => ApartInv
<1> SUFFICES ASSUME Init
             PROVE  ApartInv
  OBVIOUS
<1>1. \A u, y : ~Back(u, y)
  BY DEF Init, HamiltonianPath, Back
<1>2. \A v \in Nat : ~Forward(v)
  BY DEF Init, HamiltonianPath, Forward
<1> QED
  BY <1>1, <1>2 DEF ApartInv, ForwardFollowsBack, RepeatsApart, Repeats

-----------------------------------------------------------------------------
(* What a step of the encoder does to forward edges: nothing, or it opens  *)
(* one at the node it visits and adds a node to the graph                  *)
LEMMA ForwardStep ==
  ASSUME IInv, Next
  PROVE  /\ n' = n
         /\ \/ /\ \A v \in Int : Forward(v)' <=> Forward(v)
               /\ numNodes' = numNodes /\ idx' \in {idx, idx + 1}
            \/ /\ \A v \in Int : Forward(v)' <=> Forward(v) \/ v = idx
               /\ numNodes' = numNodes + 1 /\ idx' = idx + 1
<1>1. n' = n
  BY DEF Next, VisitMute, BuildWhile, BuildIf, BuildRepeat, OpenForward, VisitZero, Stop,
         ReadBit, vars, n
<1>2. CASE VisitMute \/ BuildIf \/ VisitZero \/ Stop
  <2>1. edges' = edges /\ numNodes' = numNodes /\ idx' \in {idx, idx + 1}
    BY <1>2 DEF VisitMute, BuildIf, VisitZero, Stop, vars, ReadBit
  <2> QED
    BY <1>1, <2>1 DEF Forward
<1>3. CASE BuildWhile
  <2>1. /\ Looping /\ edges' = (edges \cup {<<idx, idx - 1>>}) \ {<<idx, idx + 1>>}
        /\ numNodes' = numNodes /\ idx' = idx + 1
    BY <1>3 DEF BuildWhile, ReadBit
  <2>2. PICK w \in 0..(idx - 1) : w = idx - 1
    BY EdgesBehind
  <2> QED
    BY <1>1, <2>1, <2>2, BackedgeAdded
<1>4. CASE BuildRepeat
  <2>1. Looping /\ CanGoBack /\ numNodes' = numNodes /\ idx' = idx + 1
    BY <1>4 DEF BuildRepeat, ReadBit
  <2>2. PICK p \in BackedgeIndexes(edges, stack[Possible], idx) :
          edges' = edges \cup {<<idx, stack[Possible].mem[p]>>}
    BY <1>4 DEF BuildRepeat
  <2>3. stack[Possible].mem[p] \in 0..(idx - 1)
    BY <2>1, Drawn
  <2> QED
    BY <1>1, <2>1, <2>2, <2>3, BackedgeAdded
<1>5. CASE OpenForward
  <2>1. /\ Looping /\ numNodes' = numNodes + 1 /\ idx' = idx + 1
        /\ edges' = edges \cup {<<numNodes - 1, numNodes>>, <<idx, idx + 2>>}
    BY <1>5 DEF OpenForward, ReadBit
  <2> QED
    BY <1>1, <2>1, ForwardAdded
<1> QED
  BY <1>2, <1>3, <1>4, <1>5 DEF Next

(* A node is added to the graph for each forward edge                      *)
Opened == {v \in 0..(idx - 1) : Forward(v)}
NodesAdded == Cardinality(Opened) = numNodes - 2 - n

LEMMA StepAdds ==
  ASSUME IInv, Next, NodesAdded
  PROVE  NodesAdded'
<1>1. PICK node \in Nat \ {0} : node = idx
  BY EdgesBehind
<1>2. /\ n \in Int /\ numNodes \in Int
  BY LengthOfKey DEF IInv, TypeOK
<1>3. Opened = {v \in 0..(node - 1) : Forward(v)}
  BY <1>1 DEF Opened
<1>4. Opened' = {v \in 0..(idx' - 1) : Forward(v)'}
  BY DEF Opened
<1>5. IsFiniteSet(Opened)
  <2>1. Opened \in SUBSET (0..(node - 1)) /\ node - 1 \in Int
    BY <1>1, <1>3
  <2>2. IsFiniteSet(0..(node - 1))
    BY <2>1, FS_Interval
  <2> QED
    BY <2>1, <2>2, FS_Subset
<1>6. \A v \in Int : Forward(v) => v \in 0..(node - 1)
  BY <1>1, EdgesBehind
<1>7. CASE /\ \A v \in Int : Forward(v)' <=> Forward(v)
           /\ numNodes' = numNodes /\ idx' \in {idx, idx + 1}
  <2>1. Opened' = Opened
    BY <1>1, <1>3, <1>4, <1>6, <1>7
  <2> QED
    BY <1>7, <2>1, ForwardStep DEF NodesAdded
<1>8. CASE /\ \A v \in Int : Forward(v)' <=> Forward(v) \/ v = idx
           /\ numNodes' = numNodes + 1 /\ idx' = idx + 1
  <2>1. Opened' = Opened \cup {node} /\ node \notin Opened
    BY <1>1, <1>3, <1>4, <1>6, <1>8
  <2>2. Cardinality(Opened') = Cardinality(Opened) + 1
    BY <1>5, <2>1, FS_AddElement
  <2> QED
    BY <1>2, <1>8, <2>2, ForwardStep DEF NodesAdded
<1> QED
  BY <1>7, <1>8, ForwardStep

LEMMA InitAdds == Init => NodesAdded
<1> SUFFICES ASSUME Init
             PROVE  NodesAdded
  OBVIOUS
<1>1. Opened = {}
  BY DEF Init, HamiltonianPath, Opened, Forward
<1>2. n \in Int
  BY InitInv, LengthOfKey DEF IInv
<1> QED
  BY <1>1, <1>2, FS_EmptySet DEF Init, NodesAdded

=============================================================================
