------------------------- MODULE KeyedDecodingProofs -------------------------
(***************************************************************************)
(* Proofs about the improved decoder, for keys of every length and         *)
(* whatever connections the graph has lost.                                *)
(*                                                                         *)
(* The decoder guesses where a forward edge was lost, and cuts its stacks  *)
(* at entries of history that are not those of the nodes it goes back to.  *)
(* Neither does harm.  A guess is about a 1, and for a 1 the node just     *)
(* before is a destination whatever else the stacks hold; so the decoder   *)
(* guesses at a node with a bit of its own only where the graph had a      *)
(* forward edge, or when it is ahead of the key.                           *)
(*                                                                         *)
(* If no loss hides another it guesses every forward edge that was lost    *)
(* and none besides, and stays at the bit of its node.  Then a wrong bit   *)
(* is a lost backedge, and costs the parity one symbol.                    *)
(***************************************************************************)
EXTENDS KeyedDecoding, EncoderProofs, RsFramingProofs, FiniteSetTheorems

(* The graph as it was encoded *)
Intact == edges \cup removed

WasForward(v) == <<v, v + 2>> \in Intact
WasBack(u, v) == v < u /\ <<u, v>> \in Intact
WasOdd(v) == \E w \in Nat : WasBack(v, w) /\ (v - w) % 2 = 1

(* The encoder stops with the path complete but for the nodes inside while *)
(* blocks                                                                  *)
IntactShape ==
  /\ data \in [0..(NumBits - 1) -> Bit] /\ start \in -1..(NumBits - 1)
  /\ numNodes \in Nat /\ idx \in Nat \ {0} /\ n \in Nat \ {0}
  /\ numNodes - 2 = idx + (IF WasForward(idx - 1) \/ WasForward(idx - 2) THEN 1 ELSE 0)
  /\ Intact \subseteq (0..(numNodes - 1)) \X (0..(numNodes - 1))
  /\ \A e \in Intact : \/ e[2] = e[1] + 1
                       \/ e[1] < idx /\ e[2] = e[1] + 2
                       \/ e[1] < idx /\ e[2] < e[1]
  /\ \A e \in removed : e[2] # e[1] + 1

IntactPath ==
  \A v \in 0..(numNodes - 2) :
    <<v, v + 1>> \notin Intact <=> WasForward(v - 1) /\ WasBack(v, v - 1)

(* A forward edge was opened because the node before it goes back, and     *)
(* where a repeat block was closed the node before it does not             *)
IntactBlocks ==
  /\ \A v \in Nat : WasForward(v) =>
       /\ ~WasForward(v + 1) /\ ~WasForward(v + 2)
       /\ \E y \in Nat : WasBack(v - 1, y)
  /\ \A u, v \in Nat : WasBack(u, v) =>
       /\ ~WasForward(u) /\ ~WasForward(v - 1) /\ ~WasForward(u - 2)
       /\ WasForward(u - 1) => v = u - 1
       /\ ~WasForward(u - 1) => \A y \in Nat : ~WasBack(u - 1, y)
       /\ \A y \in Nat : WasBack(u, y) => y = v

(* The numbering of the nodes with the bits of the key                     *)
WasMeaning(v) == IF WasForward(v) \/ WasOdd(v) THEN 1 ELSE 0
WasNumbered(pos) ==
  /\ pos \in [1..idx -> 1..n]
  /\ pos[1] = 1 /\ pos[idx] = n
  /\ \A v \in 1..(idx - 1) :
       IF WasForward(v - 2)
       THEN pos[v + 1] = pos[v]
       ELSE pos[v + 1] = pos[v] + 1 /\ data[start + pos[v]] = WasMeaning(v)

ForwardNodes == {v \in 0..(idx - 1) : WasForward(v)}
IntactCount == Cardinality(ForwardNodes) = numNodes - 2 - n

IntactInv ==
  /\ IntactShape /\ IntactPath /\ IntactBlocks /\ IntactCount
  /\ \E pos : WasNumbered(pos)

-----------------------------------------------------------------------------
WalkTyped ==
  /\ dIdx \in 1..idx /\ dI \in 1..n
  /\ bits \in Seq(Bit) /\ Len(bits) = dI
  /\ forwardDestination \in 0..3

DecoderStacks ==
  /\ dStack \in [StackNames -> [mem : [0..(D!nBits - 1) -> Nat], n : Nat]]
  /\ dHistory \in [0..(2 * D!nBits - 1) -> Nat]
  /\ 2 * dStack["odd"].n <= dIdx + 1
  /\ 2 * dStack["even"].n <= dIdx
  /\ \A s \in StackNames : \A p \in 0..(D!nBits - 1) : dStack[s].mem[p] < dIdx
  /\ \A v \in 0..(2 * D!nBits - 1) : 2 * dHistory[v] <= v + 1

(* What the stacks hold does not matter, but that they are not empty where *)
(* the node before could be gone back to                                   *)
BeforeIsStacked ==
  \/ forwardDestination = 3
  \/ \E y \in Nat : y < dIdx - 1 /\ <<dIdx - 1, y>> \in edges
  \/ <<dIdx - 2, dIdx>> \in edges
  \/ dStack[OwnStack(dIdx - 1)].n > 0

(* A guess that is wrong will skip a node that has a bit, and is made only *)
(* by a decoder that is ahead of the key                                   *)
NotBehind(pos) ==
  /\ pos[dIdx] <= dI
  /\ forwardDestination = 3 /\ ~WasForward(dIdx - 1) /\ dIdx < D!nBits - 1 => pos[dIdx] < dI
  /\ forwardDestination = 2 /\ ~WasForward(dIdx - 2) /\ dIdx < D!nBits => pos[dIdx] < dI

BoundsInv ==
  /\ WalkTyped /\ DecoderStacks /\ BeforeIsStacked
  /\ \E pos : WasNumbered(pos) /\ NotBehind(pos)

-----------------------------------------------------------------------------
LostOdd(v) == \E y \in Nat : y < v /\ (v - y) % 2 = 1 /\ <<v, y>> \in removed
Explained(pos, j) ==
  \/ bits[j] = Key[j]
  \/ Key[j] = 1 /\ \E v \in 1..(idx - 1) : pos[v] = j - 1 /\ LostOdd(v)

InStep(pos) ==
  /\ dI = pos[dIdx]
  /\ \A j \in 1..dI : Explained(pos, j)
  /\ forwardDestination = 3 => WasForward(dIdx - 1)
  /\ forwardDestination = 2 => WasForward(dIdx - 2)
  /\ WasForward(dIdx - 1) => <<dIdx - 1, dIdx + 1>> \in edges \/ forwardDestination = 3
  /\ WasForward(dIdx - 2) => <<dIdx - 2, dIdx>> \in edges \/ forwardDestination = 2
  /\ forwardEdgesLeft = Cardinality({v \in ForwardNodes : v >= dIdx})

InStepInv == LossesApart => \E pos : WasNumbered(pos) /\ InStep(pos)

-----------------------------------------------------------------------------
(* What the encoder hands over                                             *)
LEMMA EncodedIsIntact ==
  ASSUME EncoderInv, ForcedInv, ApartInv, NodesAdded, Encoded,
         removed' \subseteq NonHamiltonianEdges(edges), Intact' = edges,
         UNCHANGED <<data, start, i, idx, numNodes>>
  PROVE  IntactInv'
<1>1. /\ idx \in Nat \ {0} /\ numNodes \in Nat
      /\ i - start = n /\ n \in Nat \ {0} /\ i \in Int /\ start \in Int
      /\ numNodes - 2 = idx + (IF Forward(idx - 1) \/ Forward(idx - 2) THEN 1 ELSE 0)
      /\ edges \subseteq (0..(numNodes - 1)) \X (0..(numNodes - 1))
      /\ data \in [0..(NumBits - 1) -> Bit] /\ start \in -1..(NumBits - 1)
  BY LastNodes, LengthOfKey DEF EncoderInv, IInv, TypeOK
<1>2. n' = n /\ idx' = idx /\ numNodes' = numNodes /\ data' = data /\ start' = start
  BY DEF n
<1>3. /\ \A v : WasForward(v)' <=> Forward(v)
      /\ \A u, v : WasBack(u, v)' <=> Back(u, v)
  BY DEF WasForward, WasBack, Forward, Back
<1>4. IntactShape'
  <2>1. \A e \in edges : \/ e[2] = e[1] + 1
                         \/ e[1] < idx /\ e[2] = e[1] + 2
                         \/ e[1] < idx /\ e[2] < e[1]
    BY DEF EncoderInv, IInv, Shape
  <2>2. \A e \in removed' : e[2] # e[1] + 1
    BY DEF NonHamiltonianEdges
  <2>3. numNodes' - 2 = idx'
          + (IF Forward(idx - 1) \/ Forward(idx - 2) THEN 1 ELSE 0)
    BY <1>1, <1>2
  <2>4. /\ (WasForward(idx - 1))' <=> Forward(idx - 1)
        /\ (WasForward(idx - 2))' <=> Forward(idx - 2)
    BY <1>2 DEF WasForward, Forward
  <2> QED
    BY <1>1, <1>2, <2>1, <2>2, <2>3, <2>4 DEF IntactShape
<1>5. IntactPath'
  BY <1>2, <1>3 DEF EncoderInv, BlocksInv, NestInv, OnPath, IntactPath
<1>6. IntactBlocks'
  <2>1. /\ \A v \in Nat : Forward(v) => ~Forward(v + 1) /\ ~Forward(v + 2)
        /\ \A v \in Nat : Forward(v) => \E y \in Nat : Back(v - 1, y)
    BY DEF EncoderInv, IInv, Apart, ApartInv, ForwardFollowsBack
  <2>2. \A u, v \in Nat : Back(u, v) =>
          /\ ~Forward(u) /\ ~Forward(v - 1) /\ ~Forward(u - 2)
          /\ Forward(u - 1) => v = u - 1
    BY DEF EncoderInv, BlocksInv, NestInv, BackedgeEnds, ForcedInv, MutesAreStraight
  <2>3. \A u, v \in Nat : Back(u, v) =>
          /\ ~Forward(u - 1) => \A y \in Nat : ~Back(u - 1, y)
          /\ \A y \in Nat : Back(u, y) => y = v
    BY DEF EncoderInv, BlocksInv, NestInv, Nested, ApartInv, RepeatsApart, Repeats
  <2> QED
    BY <1>3, <2>1, <2>2, <2>3 DEF IntactBlocks
<1>7. IntactCount'
  <2>1. ForwardNodes' = Opened
    BY <1>2, <1>3 DEF ForwardNodes, Opened
  <2> QED
    BY <1>2, <2>1 DEF IntactCount, NodesAdded
<1>8. (\E pos : WasNumbered(pos))'
  <2>1. PICK pos : Numbers(pos)
    BY DEF EncoderInv, ReadsBack
  <2>2. \A v : WasMeaning(v)' = Meaning(v)
    BY <1>3 DEF WasMeaning, Meaning, WasOdd, Odd
  <2>3. WasNumbered(pos)'
    BY <1>1, <1>2, <1>3, <2>1, <2>2 DEF WasNumbered, Numbers
  <2> QED
    BY <2>3
<1> QED
  BY <1>4, <1>5, <1>6, <1>7, <1>8 DEF IntactInv

-----------------------------------------------------------------------------
(* The path is never lost, and what is there was encoded                   *)
LEMMA PathKept ==
  ASSUME IntactInv
  PROVE  /\ edges \subseteq Intact
         /\ \A v \in 0..(numNodes - 2) :
              <<v, v + 1>> \notin edges <=> WasForward(v - 1) /\ WasBack(v, v - 1)
<1>1. edges \subseteq Intact
  BY DEF Intact
<1>2. \A v : <<v, v + 1>> \in Intact => <<v, v + 1>> \in edges
  <2>1. \A v : <<v, v + 1>> \notin removed
    BY DEF IntactInv, IntactShape
  <2> QED
    BY <2>1 DEF Intact
<1> QED
  BY <1>1, <1>2 DEF IntactInv, IntactPath

(* The connections of the graph, as the decoder asks for them              *)
LEMMA IntactEdges ==
  ASSUME IntactInv
  PROVE  /\ \A e \in edges : /\ e = <<e[1], e[2]>> /\ e[1] \in Nat /\ e[2] \in Nat
                             /\ e[1] < numNodes /\ e[2] < numNodes
                             /\ \/ e[2] = e[1] + 1
                                \/ e[2] = e[1] + 2 /\ WasForward(e[1])
                                \/ WasBack(e[1], e[2])
         /\ \A v \in Int : WasForward(v) => v \in 1..(idx - 1)
         /\ \A u, v : WasBack(u, v) => u \in 1..(idx - 1) /\ v \in Nat /\ v < u
         /\ \A v \in Int : ~(WasForward(v) /\ WasForward(v + 1))
         /\ \A v \in Int : ~(WasForward(v) /\ WasForward(v + 2))
<1>1. /\ numNodes \in Nat /\ idx \in Nat \ {0}
      /\ Intact \subseteq (0..(numNodes - 1)) \X (0..(numNodes - 1))
      /\ \A e \in Intact : \/ e[2] = e[1] + 1
                           \/ e[1] < idx /\ e[2] = e[1] + 2
                           \/ e[1] < idx /\ e[2] < e[1]
  BY DEF IntactInv, IntactShape
<1>2. ASSUME NEW u, NEW v, WasBack(u, v)
      PROVE  u \in 1..(idx - 1) /\ v \in Nat /\ v < u
  <2>1. <<u, v>> \in Intact /\ v < u
    BY <1>2 DEF WasBack
  <2>2. u \in Nat /\ v \in Nat
    BY <1>1, <2>1
  <2>3. u < idx
    BY <1>1, <2>1, <2>2
  <2> QED
    BY <1>1, <2>1, <2>2, <2>3
<1>3. ASSUME NEW v \in Int, WasForward(v)
      PROVE  v \in 1..(idx - 1)
  <2>1. <<v, v + 2>> \in Intact
    BY <1>3 DEF WasForward
  <2>2. v \in Nat /\ v < idx
    BY <1>1, <2>1
  <2>3. \E y \in Nat : WasBack(v - 1, y)
    BY <1>3, <2>2 DEF IntactInv, IntactBlocks
  <2>4. v - 1 \in 1..(idx - 1)
    BY <1>2, <2>3
  <2> QED
    BY <1>1, <2>2, <2>4
<1>4. ASSUME NEW e \in edges
      PROVE  /\ e = <<e[1], e[2]>> /\ e[1] \in Nat /\ e[2] \in Nat
             /\ e[1] < numNodes /\ e[2] < numNodes
             /\ \/ e[2] = e[1] + 1
                \/ e[2] = e[1] + 2 /\ WasForward(e[1])
                \/ WasBack(e[1], e[2])
  <2>1. e \in Intact
    BY DEF Intact
  <2>2. PICK u \in 0..(numNodes - 1), v \in 0..(numNodes - 1) : e = <<u, v>>
    BY <1>1, <2>1
  <2>3. e[1] = u /\ e[2] = v
    BY <2>2
  <2>4. v = u + 1 \/ v = u + 2 \/ v < u
    BY <1>1, <2>1, <2>3
  <2> QED
    BY <1>1, <2>1, <2>2, <2>3, <2>4 DEF WasForward, WasBack
<1>5. \A v \in Int : WasForward(v) => ~WasForward(v + 1) /\ ~WasForward(v + 2)
  BY <1>3 DEF IntactInv, IntactBlocks
<1> QED
  BY <1>2, <1>3, <1>4, <1>5

-----------------------------------------------------------------------------
(* What an iteration reads: the node is one that the encoder visited, and  *)
(* the key has a bit there                                                 *)
LEMMA IterationReads ==
  ASSUME IntactInv, WalkTyped, D!Looping, NEW pos, WasNumbered(pos), pos[dIdx] <= dI
  PROVE  /\ dIdx \in 1..(idx - 1) /\ dIdx < D!nBits /\ dI \in 1..(n - 1)
         /\ D!nBits \in Nat /\ D!nBits = numNodes - 2
         /\ pos[dIdx] \in 1..n /\ pos[dIdx + 1] \in 1..n
         /\ D!bit \in Bit /\ D!bit = data[start + dI]
         /\ WasForward(dIdx - 2) => pos[dIdx + 1] = pos[dIdx]
         /\ ~WasForward(dIdx - 2) =>
              pos[dIdx + 1] = pos[dIdx] + 1 /\ data[start + pos[dIdx]] = WasMeaning(dIdx)
<1>1. /\ numNodes \in Nat /\ idx \in Nat \ {0} /\ n \in Nat \ {0}
      /\ data \in [0..(NumBits - 1) -> Bit] /\ start \in -1..(NumBits - 1)
      /\ dIdx \in 1..idx /\ dI \in 1..n
  BY DEF IntactInv, IntactShape, WalkTyped
<1>2. /\ pos \in [1..idx -> 1..n] /\ pos[idx] = n
      /\ \A v \in 1..(idx - 1) :
           IF WasForward(v - 2)
           THEN pos[v + 1] = pos[v]
           ELSE pos[v + 1] = pos[v] + 1 /\ data[start + pos[v]] = WasMeaning(v)
  BY DEF WasNumbered
<1>3. dIdx < numNodes - 2 /\ start + dI < NumBits
  BY DEF D!Looping, D!nBits
<1>4. dI \in 1..(n - 1) /\ start + dI \in 0..(NumBits - 1)
  BY <1>1, <1>3, NumBitsAssumption DEF n
<1>5. dIdx # idx
  BY <1>1, <1>2, <1>4
<1>6. dIdx \in 1..(idx - 1) /\ dIdx + 1 \in 1..idx
  BY <1>1, <1>5
<1>7. D!bit = data[start + dI] /\ D!nBits = numNodes - 2
  BY DEF D!bit, D!nBits
<1>8. numNodes - 2 \in Nat
  BY <1>1, <1>3
<1> QED
  BY <1>1, <1>2, <1>3, <1>4, <1>6, <1>7, <1>8

(* What the conditions of the chain say of the graph                       *)
LEMMA ConditionsTell ==
  ASSUME IntactInv, NEW u \in Nat \ {0}, u = dIdx, forwardDestination \in 0..3
  PROVE  /\ D!Mute <=> <<u - 2, u>> \in edges \/ forwardDestination = 2
         /\ D!Forward <=> <<u, u + 2>> \in edges
         /\ ~D!Forward => (D!Back <=> \E y \in Nat : y < u /\ <<u, y>> \in edges)
         /\ D!NoPathEdge => <<u, u + 1>> \notin edges
         /\ D!NextHasNoPathEdge => <<u + 1, u + 2>> \notin edges
         /\ D!Plain => /\ <<u, u + 2>> \notin edges /\ <<u, u + 1>> \in edges
                       /\ <<u + 1, u + 2>> \in edges
                       /\ \A y \in Nat : y < u => <<u, y>> \notin edges
         /\ D!HasForward(edges, u - 1) => <<u - 1, u + 1>> \in edges
<1>1. D!Mute <=> <<u - 2, u>> \in edges \/ forwardDestination = 2
  <2>1. <<u - 2, u>> \in edges => u > 1
    BY IntactEdges
  <2>2. D!Countdown = 1 <=> forwardDestination = 2
    BY DEF D!Countdown
  <2> QED
    BY <2>1, <2>2 DEF D!Mute, D!Connected
<1>2. D!Forward <=> <<u, u + 2>> \in edges
  BY DEF D!Forward, D!Connected
<1>3. D!HasBackedge(edges, u) <=> \E y \in Nat : y < u /\ <<u, y>> \in edges
  <2>1. D!HasBackedge(edges, u) <=> \E y \in 0..(u - 1) : <<u, y>> \in edges
    BY DEF D!HasBackedge, D!BackedgeTargets, D!Connected
  <2> QED
    BY <2>1
<1>4. D!HasForward(edges, u - 1) => <<u - 1, u + 1>> \in edges
  <2> SUFFICES ASSUME NEW e \in edges, e[1] = u - 1, e[2] > (u - 1) + 1
               PROVE  <<u - 1, u + 1>> \in edges
    BY DEF D!HasForward
  <2>1. e = <<e[1], e[2]>> /\ e[2] \in Nat
        /\ \/ e[2] = e[1] + 1
           \/ e[2] = e[1] + 2
           \/ e[2] < e[1]
    BY IntactEdges
  <2>2. e[2] = u + 1
    BY <2>1
  <2> QED
    BY <2>1, <2>2
<1>5. D!Connected(edges, u, u + 1) <=> <<u, u + 1>> \in edges
  BY DEF D!Connected
<1>6. D!Connected(edges, u + 1, u + 2) <=> <<u + 1, u + 2>> \in edges
  BY DEF D!Connected
<1> QED
  BY <1>1, <1>2, <1>3, <1>4, <1>5, <1>6
     DEF D!Back, D!NoPathEdge, D!NextHasNoPathEdge, D!Plain

(* Where the next node has left the path, or the node itself, a while was  *)
(* opened                                                                  *)
LEMMA PathTells ==
  ASSUME IntactInv, NEW u \in Nat, u + 1 \in 0..(numNodes - 2), <<u + 1, u + 2>> \notin edges
  PROVE  WasForward(u) /\ WasBack(u + 1, u)
<1>1. (u + 1) - 1 = u /\ (u + 1) + 1 = u + 2
  OBVIOUS
<1> QED
  BY <1>1, PathKept

(* Of a 1 that a repeat block meant the decoder does not make a forward    *)
(* edge: the node before is in its stack                                   *)
LEMMA RepeatIsPossible ==
  ASSUME IntactInv, DecoderStacks, BeforeIsStacked, forwardDestination \in 0..3,
         NEW u \in 1..(idx - 1), u = dIdx, u < D!nBits, D!bit = 1,
         D!Plain, ~WasForward(u - 2), WasOdd(u), forwardDestination = 3 => WasForward(u - 1)
  PROVE  D!HasPossibleBackedge(edges, dStack[D!Possible], u)
<1> DEFINE s == dStack[D!Possible]
<1>1. PICK w \in Nat : WasBack(u, w)
  BY DEF WasOdd
<1>2. <<u, u + 1>> \in edges /\ \A y \in Nat : y < u => <<u, y>> \notin edges
  <2>1. u \in Nat \ {0}
    BY DEF IntactInv, IntactShape
  <2> QED
    BY <2>1, ConditionsTell
<1>3. ~WasForward(u - 1)
  <2> SUFFICES ASSUME WasForward(u - 1)
               PROVE  FALSE
    OBVIOUS
  <2>1. w = u - 1
    BY <1>1 DEF IntactInv, IntactBlocks
  <2>2. idx - 1 <= numNodes - 2
    BY DEF IntactInv, IntactShape
  <2>3. u \in 0..(numNodes - 2)
    BY <2>2 DEF IntactInv, IntactShape
  <2> QED
    BY <1>1, <1>2, <2>1, <2>3, PathKept
<1>4. \A y \in Nat : ~WasBack(u - 1, y)
  BY <1>1, <1>3 DEF IntactInv, IntactBlocks
<1>5. \A y \in Nat : y < u - 1 => <<u - 1, y>> \notin edges
  <2> SUFFICES ASSUME NEW y \in Nat, y < u - 1, <<u - 1, y>> \in edges
               PROVE  FALSE
    OBVIOUS
  <2>1. WasBack(u - 1, y)
    BY PathKept DEF WasBack
  <2> QED
    BY <1>4, <2>1, IntactEdges
<1>6. D!Possible = OwnStack(u - 1)
  BY DEF D!Possible, D!PossibleBackedges, D!IsOdd, OwnStack, IsOdd
<1>7. s.n > 0
  <2>1. <<u - 2, u>> \notin edges
    <3>1. <<u - 2, u>> \in edges => WasForward(u - 2)
      BY PathKept DEF WasForward
    <3> QED
      BY <3>1
  <2> QED
    BY <1>3, <1>5, <1>6, <2>1 DEF BeforeIsStacked
<1>8. <<u - 1, s.mem[0]>> \notin edges
  <2>1. s.mem[0] \in Nat /\ s.mem[0] < u
    <3>1. D!Possible \in StackNames /\ 0 \in 0..(D!nBits - 1)
      <4>1. D!nBits \in Int
        BY DEF IntactInv, IntactShape, D!nBits
      <4> QED
        BY <1>6, <4>1 DEF OwnStack, StackNames
    <3> QED
      BY <3>1 DEF DecoderStacks
  <2>2. <<u - 1, u - 1>> \notin edges
    <3>1. u - 1 \in Int
      BY DEF IntactInv, IntactShape
    <3>2. \A e \in edges : e[2] = e[1] + 1 \/ e[2] = e[1] + 2 \/ WasBack(e[1], e[2])
      BY IntactEdges
    <3>3. ~WasBack(u - 1, u - 1)
      BY <3>1 DEF WasBack
    <3> QED
      BY <3>1, <3>2, <3>3
  <2>3. PICK first \in Nat : first = s.mem[0]
    BY <2>1
  <2>4. first < u - 1 \/ first = u - 1
    BY <2>1, <2>3
  <2> QED
    BY <1>5, <2>2, <2>3, <2>4
<1>9. ~D!HasBackedge(edges, u - 1)
  <2>1. \A y \in 0..((u - 1) - 1) : <<u - 1, y>> \notin edges
    <3>1. u \in Int
      BY DEF IntactInv, IntactShape
    <3> QED
      BY <1>5, <3>1
  <2> QED
    BY <2>1 DEF D!HasBackedge, D!BackedgeTargets, D!Connected
<1> QED
  BY <1>7, <1>8, <1>9 DEF D!HasPossibleBackedge, D!Connected

-----------------------------------------------------------------------------
(* A set of positions has a first                                          *)
LEMMA FirstPosition ==
  ASSUME NEW S \in SUBSET Nat, S # {}
  PROVE  \E p \in S : \A q \in S : p <= q
<1> DEFINE R == {ss \in Nat \X Nat : ss[1] < ss[2]}
<1>1. IsWellFoundedOn(R, Nat)
  BY NatLessThanWellFounded DEF OpToRel
<1> HIDE DEF R
<1>2. PICK p \in S : \A q \in S : ~(<<q, p>> \in R)
  BY <1>1, WFMin
<1>3. ASSUME NEW q \in S
      PROVE  p <= q
  <2>1. <<q, p>> \notin R /\ q \in Nat /\ p \in Nat
    BY <1>2
  <2>2. ~(q < p)
    BY <2>1 DEF R
  <2> QED
    BY <2>1, <2>2
<1> QED
  BY <1>3

(* The stacks grow by one node, of the parity that the other one has not   *)
LEMMA DecoderSaves ==
  ASSUME IntactInv, DecoderStacks, D!Looping, dIdx \in Nat \ {0}, D!SaveStacks,
         dIdx' = dIdx + 1, numNodes' = numNodes
  PROVE  DecoderStacks'
<1> DEFINE own == OwnStack(dIdx)
           old == dStack[own]
<1>0. PICK size \in Nat : size = D!nBits /\ D!nBits' = size /\ dIdx < size
  BY DEF D!Looping, D!nBits, IntactInv, IntactShape
<1>1. /\ dStack \in [StackNames -> [mem : [0..(size - 1) -> Nat], n : Nat]]
      /\ dHistory \in [0..(2 * size - 1) -> Nat]
      /\ \A s \in StackNames : \A p \in 0..(size - 1) : dStack[s].mem[p] < dIdx
      /\ \A v \in 0..(2 * size - 1) : 2 * dHistory[v] <= v + 1
  BY <1>0 DEF DecoderStacks
<1>2. /\ dStack["odd"].n \in Nat /\ dStack["even"].n \in Nat
      /\ 2 * dStack["odd"].n <= dIdx + 1 /\ 2 * dStack["even"].n <= dIdx
  BY <1>1 DEF DecoderStacks, StackNames
<1>3. CASE UNCHANGED <<dStack, dHistory>>
  <2>1. 2 * dStack["odd"].n <= dIdx' + 1 /\ 2 * dStack["even"].n <= dIdx'
    BY <1>2
  <2>2. ASSUME NEW s \in StackNames, NEW p \in 0..(size - 1)
        PROVE  dStack[s].mem[p] < dIdx'
    <3>1. dStack[s].mem[p] \in Nat /\ dStack[s].mem[p] < dIdx
      BY <1>1
    <3> QED
      BY <3>1
  <2> QED
    BY <1>0, <1>1, <1>3, <2>1, <2>2 DEF DecoderStacks
<1>4. CASE ~UNCHANGED <<dStack, dHistory>>
  <2>1. /\ dStack' = [dStack EXCEPT ![own] = [mem |-> [old.mem EXCEPT ![old.n] = dIdx],
                                              n |-> old.n + 1]]
        /\ dHistory' = [dHistory EXCEPT ![dIdx] = dStack[OtherStack(own)].n]
    BY <1>4 DEF D!SaveStacks, D!StackPush, D!OwnStack, D!IsOdd, D!OtherStack,
                OwnStack, IsOdd, OtherStack
  <2>2. own \in StackNames /\ OtherStack(own) \in StackNames
    BY DEF OwnStack, OtherStack, StackNames
  <2>3. /\ old \in [mem : [0..(size - 1) -> Nat], n : Nat]
        /\ old.mem \in [0..(size - 1) -> Nat] /\ old.n \in Nat
        /\ \A p \in 0..(size - 1) : old.mem[p] < dIdx
        /\ dStack[OtherStack(own)].n \in Nat
    BY <1>1, <2>2
  <2>4. PICK m \in [0..(size - 1) -> Nat] : m = [old.mem EXCEPT ![old.n] = dIdx]
    BY <2>3
  <2>5. \A p \in 0..(size - 1) : m[p] < dIdx + 1
    <3> SUFFICES ASSUME NEW p \in 0..(size - 1)
                 PROVE  m[p] < dIdx + 1
      OBVIOUS
    <3>1. m[p] = dIdx \/ m[p] = old.mem[p]
      BY <2>3, <2>4
    <3>2. m[p] \in Nat /\ old.mem[p] < dIdx
      BY <2>3
    <3> QED
      BY <3>1, <3>2
  <2>6. /\ dStack'[own] = [mem |-> m, n |-> old.n + 1]
        /\ \A s \in StackNames \ {own} : dStack'[s] = dStack[s]
        /\ dStack' \in [StackNames -> [mem : [0..(size - 1) -> Nat], n : Nat]]
    <3>1. [mem |-> m, n |-> old.n + 1] \in [mem : [0..(size - 1) -> Nat], n : Nat]
      BY <2>3
    <3> QED
      BY <1>1, <2>1, <2>2, <2>4, <3>1
  <2>7. /\ 2 * dStack'["odd"].n <= dIdx + 2 /\ 2 * dStack'["even"].n <= dIdx + 1
    <3>1. PICK o \in Nat, e \in Nat : o = dStack["odd"].n /\ e = dStack["even"].n
      BY <1>2
    <3>2. 2 * o <= dIdx + 1 /\ 2 * e <= dIdx
      BY <1>2, <3>1
    <3>3. CASE dIdx % 2 = 0
      <4>1. own = "odd" /\ "even" \in StackNames \ {own}
        BY <3>3 DEF OwnStack, IsOdd, StackNames
      <4>2. dStack'["odd"].n = o + 1
        <5>1. dStack'[own].n = old.n + 1 /\ old.n = o
          BY <2>6, <3>1, <4>1
        <5> QED
          BY <4>1, <5>1
      <4>3. dStack'["even"].n = e
        BY <2>6, <3>1, <4>1
      <4>4. 2 * (o + 1) <= dIdx + 2 /\ 2 * e <= dIdx + 1
        BY <3>2, <3>3
      <4> QED
        BY <4>2, <4>3, <4>4
    <3>4. CASE dIdx % 2 # 0
      <4>1. own = "even" /\ "odd" \in StackNames \ {own}
        BY <3>4 DEF OwnStack, IsOdd, StackNames
      <4>2. dStack'["even"].n = e + 1
        <5>1. dStack'[own].n = old.n + 1 /\ old.n = e
          BY <2>6, <3>1, <4>1
        <5> QED
          BY <4>1, <5>1
      <4>3. dStack'["odd"].n = o
        BY <2>6, <3>1, <4>1
      <4>4. 2 * o <= dIdx + 2 /\ 2 * (e + 1) <= dIdx + 1
        BY <3>2, <3>4
      <4> QED
        BY <4>2, <4>3, <4>4
    <3> QED
      BY <3>3, <3>4
  <2>8. ASSUME NEW s \in StackNames, NEW p \in 0..(size - 1)
        PROVE  dStack'[s].mem[p] < dIdx + 1
    <3>1. CASE s = own
      <4>1. dStack'[s].mem = m
        BY <2>6, <3>1
      <4> QED
        BY <2>5, <4>1
    <3>2. CASE s # own
      <4>1. dStack'[s] = dStack[s] /\ dStack[s].mem[p] \in Nat /\ dStack[s].mem[p] < dIdx
        BY <1>1, <2>6, <3>2
      <4> QED
        BY <4>1
    <3> QED
      BY <3>1, <3>2
  <2>9. /\ dHistory' \in [0..(2 * size - 1) -> Nat]
        /\ \A v \in 0..(2 * size - 1) : 2 * dHistory'[v] <= v + 1
    <3>1. 2 * dStack[OtherStack(own)].n <= dIdx + 1
      BY <1>2, <2>2 DEF StackNames
    <3> QED
      BY <1>0, <1>1, <2>1, <2>3, <3>1
  <2> QED
    <3>1. dIdx' + 1 = dIdx + 2 /\ dIdx' = dIdx + 1
      OBVIOUS
    <3>2. 2 * dStack'["odd"].n <= dIdx' + 1 /\ 2 * dStack'["even"].n <= dIdx'
      BY <2>7, <3>1
    <3>3. \A s \in StackNames : \A p \in 0..(size - 1) : dStack'[s].mem[p] < dIdx'
      BY <2>8
    <3> QED
      BY <1>0, <2>6, <2>9, <3>2, <3>3 DEF DecoderStacks
<1> QED
  BY <1>3, <1>4

(* Cutting the stacks keeps them short, whatever they are cut at           *)
LEMMA DecoderCuts ==
  ASSUME IntactInv, DecoderStacks, D!Looping, dIdx \in Nat \ {0}, D!ReadBackedge
  PROVE  DecoderStacks'
<1>1. /\ numNodes' = numNodes /\ dIdx' = dIdx + 1 /\ dHistory' = dHistory
  BY DEF D!ReadBackedge, D!NextNode, D!fixed
<1>0. PICK size \in Nat : size = D!nBits /\ D!nBits' = size /\ dIdx < size
  BY <1>1 DEF D!Looping, D!nBits, IntactInv, IntactShape
<1>2. /\ dStack \in [StackNames -> [mem : [0..(size - 1) -> Nat], n : Nat]]
      /\ dHistory \in [0..(2 * size - 1) -> Nat]
      /\ \A s \in StackNames : \A p \in 0..(size - 1) : dStack[s].mem[p] < dIdx
      /\ \A v \in 0..(2 * size - 1) : 2 * dHistory[v] <= v + 1
  BY <1>0 DEF DecoderStacks
<1>3. PICK w : dStack' = [dStack EXCEPT
                 ![D!Possible] = D!StackPopUntil(@, D!PositionOf(w)),
                 ![D!OtherStack(D!Possible)] = D!StackPopUntil(@, D!CutTo(w))]
  BY DEF D!ReadBackedge
<1>4. /\ D!Possible \in StackNames /\ D!OtherStack(D!Possible) \in StackNames
      /\ D!OtherStack(D!Possible) # D!Possible
  BY DEF D!Possible, D!PossibleBackedges, D!OtherStack, StackNames
<1>5. /\ \A s \in StackNames : dStack[s].n \in Nat /\ 2 * dStack[s].n <= dIdx + 1
  BY <1>2 DEF DecoderStacks, StackNames
<1>6. PICK p \in 0..(size - 1) : p = D!PositionOf(w) /\ 2 * p <= dIdx
  <2> DEFINE s == dStack[D!Possible]
             found == {q \in 0..(s.n - 1) : s.mem[q] = w}
  <2>1. s.n \in Nat /\ 2 * s.n <= dIdx + 1
    BY <1>4, <1>5
  <2>2. D!PositionOf(w) = IF found = {} THEN 0 ELSE CHOOSE q \in found : \A r \in found : q <= r
    BY DEF D!PositionOf
  <2>3. found # {} => \E q \in found : \A r \in found : q <= r
    <3>1. found \in SUBSET Nat
      BY <2>1
    <3> HIDE DEF found
    <3> QED
      BY <3>1, FirstPosition
  <2>4. found # {} => D!PositionOf(w) \in found
    <3> HIDE DEF found
    <3> QED
      BY <2>2, <2>3
  <2>5. D!PositionOf(w) = 0 \/ D!PositionOf(w) \in 0..(s.n - 1)
    BY <2>2, <2>4
  <2>6. PICK k \in Nat : k = s.n
    BY <2>1
  <2>7. PICK p \in Nat : p = D!PositionOf(w) /\ (p = 0 \/ p <= k - 1)
    BY <2>5, <2>6
  <2>8. 2 * k <= dIdx + 1
    BY <2>1, <2>6
  <2>9. p \in 0..(size - 1) /\ 2 * p <= dIdx
    BY <1>0, <2>7, <2>8
  <2> QED
    BY <2>7, <2>9
<1>7. PICK c \in Nat : c = D!CutTo(w) /\ 2 * c <= p + 1
  <2>1. D!CutTo(w) = dHistory[p] /\ p \in 0..(2 * size - 1)
    BY <1>0, <1>6 DEF D!CutTo
  <2> QED
    BY <1>2, <2>1
<1>8. /\ dStack'[D!Possible] = [mem |-> dStack[D!Possible].mem, n |-> p]
      /\ dStack'[D!OtherStack(D!Possible)]
           = [mem |-> dStack[D!OtherStack(D!Possible)].mem, n |-> c]
      /\ DOMAIN dStack' = StackNames
  BY <1>2, <1>3, <1>4, <1>6, <1>7 DEF D!StackPopUntil
<1>9. ASSUME NEW s \in StackNames
      PROVE  /\ dStack'[s].mem = dStack[s].mem
             /\ dStack'[s] \in [mem : [0..(size - 1) -> Nat], n : Nat]
             /\ dStack'[s].n \in Nat /\ 2 * dStack'[s].n <= dIdx + 1
  <2>1. dStack[s].mem \in [0..(size - 1) -> Nat]
    BY <1>2
  <2>2. CASE s = D!Possible
    BY <1>6, <1>8, <2>1, <2>2
  <2>3. CASE s # D!Possible
    <3>1. s = D!OtherStack(D!Possible)
      BY <1>4, <2>3 DEF StackNames
    <3>2. 2 * c <= dIdx + 1
      BY <1>0, <1>2, <1>6, <1>7
    <3> QED
      BY <1>7, <1>8, <2>1, <3>1, <3>2
  <2> QED
    BY <2>2, <2>3
<1>10. /\ dStack' \in [StackNames -> [mem : [0..(size - 1) -> Nat], n : Nat]]
  <2>1. dStack' = [s \in StackNames |-> dStack'[s]]
    BY <1>2, <1>3, <1>8
  <2> QED
    BY <1>9, <2>1
<1>11. \A s \in StackNames : \A q \in 0..(size - 1) : dStack'[s].mem[q] < dIdx + 1
  <2> SUFFICES ASSUME NEW s \in StackNames, NEW q \in 0..(size - 1)
               PROVE  dStack'[s].mem[q] < dIdx + 1
    OBVIOUS
  <2>1. dStack[s].mem[q] \in Nat /\ dStack[s].mem[q] < dIdx
    BY <1>2
  <2> QED
    BY <1>9, <2>1
<1>12. 2 * dStack'["odd"].n <= dIdx' + 1 /\ 2 * dStack'["even"].n <= dIdx'
  BY <1>1, <1>9 DEF StackNames
<1> QED
  BY <1>0, <1>1, <1>2, <1>10, <1>11, <1>12 DEF DecoderStacks

-----------------------------------------------------------------------------
Guesses == D!NextHasNoPathEdge \/ D!Rule27 \/ D!Rule29

(* What an iteration does, whichever it is                                 *)
LEMMA IterationOutline ==
  ASSUME Decode, dIdx \in Nat \ {0}
  PROVE  /\ phase = "decode" /\ D!Looping /\ dIdx' = dIdx + 1
         /\ UNCHANGED <<data, start, edges, numNodes, idx, removed, phase>>
         /\ \/ /\ D!Mute /\ dI' = dI /\ bits' = bits
               /\ forwardDestination' = D!Countdown
            \/ /\ ~D!Mute /\ dI' = dI + 1 /\ \E b \in Bit : bits' = Append(bits, b)
               /\ \/ forwardDestination' = D!Countdown
                  \/ forwardDestination' = 3 /\ Guesses
         /\ \/ D!SaveStacks
            \/ D!ReadBackedge /\ D!Back
            \/ forwardDestination' = 3 /\ UNCHANGED <<dStack, dHistory>>
<1>1. phase = "decode" /\ D!Step /\ UNCHANGED <<idx, removed, phase>>
  BY DEF Decode
<1>2. CASE D!SkipMute
  BY <1>1, <1>2 DEF D!SkipMute, D!NextNode, D!fixed
<1>3. CASE D!ReadForward
  BY <1>1, <1>3 DEF D!ReadForward, D!NextNode, D!fixed, D!Write, Bit
<1>4. CASE D!ReadBackedge
  <2>1. PICK w \in D!BackedgeTargets(edges, dIdx) : D!Write((dIdx - w) % 2)
    BY <1>4 DEF D!ReadBackedge
  <2>2. (dIdx - w) % 2 \in Bit
    BY <2>1 DEF D!BackedgeTargets, Bit
  <2>3. dI' = dI + 1 /\ \E b \in Bit : bits' = Append(bits, b)
    BY <2>1, <2>2 DEF D!Write
  <2> QED
    BY <1>1, <1>4, <2>3 DEF D!ReadBackedge, D!NextNode, D!fixed
<1>5. CASE D!ReadLostBackedge
  BY <1>1, <1>5 DEF D!ReadLostBackedge, D!NextNode, D!fixed, D!Write, Bit
<1>6. CASE D!ReadLostForward
  BY <1>1, <1>6 DEF D!ReadLostForward, D!NextNode, D!fixed, D!Write, Bit, Guesses
<1>7. CASE D!AssumeForward
  BY <1>1, <1>7 DEF D!AssumeForward, D!NextNode, D!fixed, D!Write, Bit, Guesses
<1>8. CASE D!ReadZero
  BY <1>1, <1>8 DEF D!ReadZero, D!NextNode, D!fixed, D!Write, Bit
<1> QED
  BY <1>1, <1>2, <1>3, <1>4, <1>5, <1>6, <1>7, <1>8 DEF D!Step

(* The graph as it was encoded does not change any more                    *)
Given == <<data, start, edges, numNodes, idx, removed>>

LEMMA GraphStays ==
  ASSUME UNCHANGED Given
  PROVE  /\ n' = n /\ Intact' = Intact /\ D!nBits' = D!nBits
         /\ \A v : WasForward(v)' <=> WasForward(v)
         /\ \A u, v : WasBack(u, v)' <=> WasBack(u, v)
         /\ \A v : WasOdd(v)' <=> WasOdd(v)
         /\ \A pos : WasNumbered(pos)' <=> WasNumbered(pos)
         /\ ForwardNodes' = ForwardNodes
         /\ IntactInv => IntactInv'
<1>1. /\ data' = data /\ start' = start /\ edges' = edges /\ numNodes' = numNodes
      /\ idx' = idx /\ removed' = removed
  BY DEF Given
<1>2. n' = n /\ Intact' = Intact /\ D!nBits' = D!nBits
  BY <1>1 DEF n, Intact, D!nBits
<1>3. /\ \A v : WasForward(v)' <=> WasForward(v)
      /\ \A u, v : WasBack(u, v)' <=> WasBack(u, v)
  BY <1>2 DEF WasForward, WasBack
<1>4. \A v : WasOdd(v)' <=> WasOdd(v)
  BY <1>3 DEF WasOdd
<1>5. \A pos : WasNumbered(pos)' <=> WasNumbered(pos)
  BY <1>1, <1>2, <1>3, <1>4 DEF WasNumbered, WasMeaning
<1>6. ForwardNodes' = ForwardNodes
  BY <1>1, <1>3 DEF ForwardNodes
<1>7. ASSUME IntactInv
      PROVE  IntactInv'
  <2>1. IntactShape'
    BY <1>1, <1>2, <1>3, <1>7 DEF IntactInv, IntactShape
  <2>2. IntactPath' /\ IntactBlocks'
    BY <1>1, <1>2, <1>3, <1>7 DEF IntactInv, IntactPath, IntactBlocks
  <2>3. IntactCount'
    BY <1>1, <1>2, <1>6, <1>7 DEF IntactInv, IntactCount
  <2> QED
    BY <1>5, <1>7, <2>1, <2>2, <2>3 DEF IntactInv
<1> QED
  BY <1>2, <1>3, <1>4, <1>5, <1>6, <1>7

(* A guess about a node with a bit of its own is right while the decoder   *)
(* is in step: for the last nodes of the loop it does not matter           *)
LEMMA GuessInStep ==
  ASSUME IntactInv, BoundsInv, D!Looping, ~D!Mute, Guesses,
         NEW pos, WasNumbered(pos), NotBehind(pos), pos[dIdx] = dI,
         ~WasForward(dIdx - 2), dIdx + 1 < D!nBits - 1
  PROVE  WasForward(dIdx)
<1>1. /\ dIdx \in 1..(idx - 1) /\ dIdx < D!nBits /\ D!nBits = numNodes - 2
      /\ numNodes \in Nat /\ idx \in Nat /\ dIdx \in Nat \ {0}
      /\ D!bit = data[start + dI]
      /\ data[start + pos[dIdx]] = WasMeaning(dIdx)
      /\ forwardDestination \in 0..3 /\ dI \in Int
      /\ DecoderStacks /\ BeforeIsStacked
  <2>1. pos[dIdx] <= dI
    BY DEF NotBehind
  <2>2. numNodes \in Nat /\ idx \in Nat /\ WalkTyped /\ DecoderStacks /\ BeforeIsStacked
    BY DEF IntactInv, IntactShape, BoundsInv
  <2> QED
    BY <2>1, <2>2, IterationReads DEF WalkTyped
<1>2. CASE D!NextHasNoPathEdge
  <2>1. <<dIdx + 1, dIdx + 2>> \notin edges
    BY <1>1, <1>2, ConditionsTell
  <2>2. dIdx + 1 \in 0..(numNodes - 2)
    BY <1>1
  <2> QED
    BY <1>1, <2>1, <2>2, PathTells
<1>3. CASE D!Rule27
  BY <1>1, <1>3 DEF D!Rule27
<1>4. CASE D!Rule29
  <2> SUFFICES ASSUME ~WasForward(dIdx)
               PROVE  FALSE
    OBVIOUS
  <2>1. /\ D!Plain /\ D!bit = 1
        /\ ~D!HasPossibleBackedge(edges, dStack[D!Possible], dIdx)
    BY <1>4 DEF D!Rule29
  <2>2. forwardDestination = 3 => WasForward(dIdx - 1)
    BY <1>1 DEF NotBehind
  <2>3. WasOdd(dIdx)
    BY <1>1, <2>1 DEF WasMeaning
  <2> QED
    BY <1>1, <2>1, <2>2, <2>3, RepeatIsPossible
<1> QED
  BY <1>2, <1>3, <1>4 DEF Guesses

(* The decoder does not fall behind the key                                *)
LEMMA StaysNotBehind ==
  ASSUME IntactInv, BoundsInv, Decode, NEW pos, WasNumbered(pos), NotBehind(pos)
  PROVE  NotBehind(pos)'
<1>1. /\ forwardDestination \in 0..3 /\ dIdx \in Nat \ {0} /\ pos[dIdx] <= dI
      /\ IntactInv /\ WalkTyped
  BY DEF BoundsInv, WalkTyped, NotBehind, IntactInv, IntactShape
<1>2. /\ D!Looping /\ dIdx' = dIdx + 1
      /\ UNCHANGED Given
      /\ \/ /\ D!Mute /\ dI' = dI
            /\ forwardDestination' = D!Countdown
         \/ /\ ~D!Mute /\ dI' = dI + 1
            /\ \/ forwardDestination' = D!Countdown
               \/ forwardDestination' = 3 /\ Guesses
  BY <1>1, IterationOutline DEF Given
<1>3. PICK u \in Nat \ {0}, here \in Nat, next \in Nat, read \in Nat, size \in Nat :
        /\ u = dIdx /\ here = pos[u] /\ next = pos[u + 1] /\ read = dI /\ size = D!nBits
        /\ here <= read /\ u < size
        /\ WasForward(u - 2) => next = here
        /\ ~WasForward(u - 2) => next = here + 1
  BY <1>1, <1>2, IterationReads
<1>4. /\ read = here /\ forwardDestination = 3 /\ ~WasForward(u - 1) => u >= size - 1
      /\ ~(read = here /\ forwardDestination = 2 /\ ~WasForward(u - 2))
  BY <1>3 DEF NotBehind
<1>5. D!Mute <=> <<u - 2, u>> \in edges \/ forwardDestination = 2
  BY <1>1, <1>3, ConditionsTell
<1>6. <<u - 2, u>> \in edges => WasForward(u - 2)
  BY PathKept DEF WasForward
<1>7. /\ D!Countdown = 2 <=> forwardDestination = 3
      /\ D!Countdown # 3
  BY <1>1 DEF D!Countdown
<1>8. /\ (WasForward(dIdx - 1))' <=> WasForward(u)
      /\ (WasForward(dIdx - 2))' <=> WasForward(u - 1)
      /\ D!nBits' = size
  <2>1. dIdx' - 1 = u /\ dIdx' - 2 = u - 1
    BY <1>2, <1>3
  <2> QED
    BY <1>2, <1>3, <2>1, GraphStays
<1>9. next <= dI'
  <2>1. CASE D!Mute /\ dI' = dI
    BY <1>3, <1>4, <1>5, <1>6, <2>1
  <2>2. CASE dI' = dI + 1
    BY <1>3, <2>2
  <2> QED
    BY <1>2, <2>1, <2>2
<1>10. ASSUME forwardDestination' = 3, ~WasForward(u), u + 1 < size - 1
       PROVE  next < dI'
  <2>1. ~D!Mute /\ dI' = dI + 1 /\ Guesses
    BY <1>2, <1>7, <1>10
  <2>2. read = here => WasForward(u - 2)
    BY <1>1, <1>2, <1>3, <1>10, <2>1, GuessInStep
  <2> QED
    BY <1>3, <2>1, <2>2
<1>11. ASSUME forwardDestination' = 2, ~WasForward(u - 1), u + 1 < size
       PROVE  next < dI'
  <2>1. forwardDestination = 3
    BY <1>2, <1>7, <1>11
  <2>2. here < read
    BY <1>3, <1>4, <1>11, <2>1
  <2>3. CASE D!Mute /\ dI' = dI
    BY <1>3, <1>5, <1>6, <2>1, <2>2, <2>3
  <2>4. CASE dI' = dI + 1
    BY <1>3, <2>2, <2>4
  <2> QED
    BY <1>2, <2>3, <2>4
<1>12. (pos[dIdx])' = next /\ dIdx' = u + 1
  BY <1>2, <1>3
<1> QED
  BY <1>8, <1>9, <1>10, <1>11, <1>12 DEF NotBehind

(* A node that goes back to nothing is stacked, inside forward edges apart *)
LEMMA BeforeStays ==
  ASSUME IntactInv, BoundsInv, Decode
  PROVE  BeforeIsStacked'
<1>1. /\ forwardDestination \in 0..3 /\ dIdx \in Nat \ {0}
  BY DEF BoundsInv, WalkTyped, IntactInv, IntactShape
<1>2. /\ dIdx' = dIdx + 1 /\ edges' = edges
      /\ \/ D!SaveStacks
         \/ D!ReadBackedge /\ D!Back
         \/ forwardDestination' = 3 /\ UNCHANGED <<dStack, dHistory>>
  BY <1>1, IterationOutline
<1>3. dIdx' - 1 = dIdx /\ dIdx' - 2 = dIdx - 1
  BY <1>1, <1>2
<1>4. CASE D!SaveStacks
  <2>1. CASE D!HasForward(edges, dIdx - 1)
    <3>1. <<dIdx - 1, dIdx + 1>> \in edges
      BY <1>1, <2>1, ConditionsTell
    <3> QED
      BY <1>2, <1>3, <3>1 DEF BeforeIsStacked
  <2>2. CASE ~D!HasForward(edges, dIdx - 1)
    <3>1. dStack' = [dStack EXCEPT ![OwnStack(dIdx)] = D!StackPush(@, dIdx)]
      BY <1>4, <2>2 DEF D!SaveStacks, D!OwnStack, D!IsOdd, OwnStack, IsOdd
    <3>2. OwnStack(dIdx) \in DOMAIN dStack /\ dStack[OwnStack(dIdx)].n \in Nat
      BY DEF BoundsInv, DecoderStacks, OwnStack, StackNames
    <3>3. dStack'[OwnStack(dIdx)].n > 0
      BY <3>1, <3>2 DEF D!StackPush
    <3> QED
      BY <1>3, <3>3 DEF BeforeIsStacked
  <2> QED
    BY <2>1, <2>2
<1>5. CASE D!Back
  <2>1. \E y \in Nat : y < dIdx /\ <<dIdx, y>> \in edges
    BY <1>1, <1>5, ConditionsTell DEF D!Back
  <2> QED
    BY <1>2, <1>3, <2>1 DEF BeforeIsStacked
<1>6. CASE forwardDestination' = 3
  BY <1>6 DEF BeforeIsStacked
<1> QED
  BY <1>2, <1>4, <1>5, <1>6

LEMMA DecodeKeepsBounds ==
  ASSUME IntactInv, BoundsInv, Decode
  PROVE  BoundsInv'
<1>1. /\ forwardDestination \in 0..3 /\ dIdx \in Nat \ {0} /\ WalkTyped /\ DecoderStacks
      /\ idx \in Nat /\ n \in Nat
  BY DEF BoundsInv, WalkTyped, IntactInv, IntactShape
<1>2. /\ D!Looping /\ dIdx' = dIdx + 1 /\ UNCHANGED Given /\ numNodes' = numNodes
      /\ \/ /\ D!Mute /\ dI' = dI /\ bits' = bits
            /\ forwardDestination' = D!Countdown
         \/ /\ ~D!Mute /\ dI' = dI + 1 /\ \E b \in Bit : bits' = Append(bits, b)
            /\ \/ forwardDestination' = D!Countdown
               \/ forwardDestination' = 3 /\ Guesses
      /\ \/ D!SaveStacks
         \/ D!ReadBackedge /\ D!Back
         \/ forwardDestination' = 3 /\ UNCHANGED <<dStack, dHistory>>
  BY <1>1, IterationOutline DEF Given
<1>3. PICK pos : WasNumbered(pos) /\ NotBehind(pos)
  BY DEF BoundsInv
<1>4. (WasNumbered(pos) /\ NotBehind(pos))'
  BY <1>2, <1>3, StaysNotBehind, GraphStays
<1>5. WalkTyped'
  <2>1. /\ dIdx \in 1..(idx - 1) /\ dI \in 1..(n - 1)
    BY <1>1, <1>2, <1>3, IterationReads DEF NotBehind
  <2>2. dIdx' \in 1..idx' /\ dI' \in 1..n' /\ n' = n /\ idx' = idx
    <3>1. n' = n /\ idx' = idx
      BY <1>2, GraphStays DEF Given
    <3>2. dI + 1 \in 1..n /\ dI \in 1..n /\ dIdx + 1 \in 1..idx
      BY <1>1, <2>1
    <3> QED
      BY <1>2, <3>1, <3>2
  <2>3. bits' \in Seq(Bit) /\ Len(bits') = dI'
    BY <1>1, <1>2 DEF WalkTyped
  <2>4. forwardDestination' \in 0..3
    BY <1>1, <1>2 DEF D!Countdown
  <2> QED
    BY <2>2, <2>3, <2>4 DEF WalkTyped
<1>6. DecoderStacks'
  <2>1. CASE D!SaveStacks
    BY <1>1, <1>2, <2>1, DecoderSaves
  <2>2. CASE D!ReadBackedge
    BY <1>1, <1>2, <2>2, DecoderCuts
  <2>3. CASE UNCHANGED <<dStack, dHistory>>
    <3>1. /\ dStack["odd"].n \in Nat /\ dStack["even"].n \in Nat
          /\ D!nBits' = D!nBits
          /\ \A s \in StackNames : \A p \in 0..(D!nBits - 1) : dStack[s].mem[p] \in Nat
      BY <1>1, <1>2, GraphStays DEF DecoderStacks, StackNames
    <3>2. 2 * dStack["odd"].n <= dIdx' + 1 /\ 2 * dStack["even"].n <= dIdx'
      BY <1>1, <1>2, <3>1 DEF DecoderStacks
    <3>3. ASSUME NEW s \in StackNames, NEW p \in 0..(D!nBits - 1)
          PROVE  dStack[s].mem[p] < dIdx'
      <4>1. dStack[s].mem[p] \in Nat /\ dStack[s].mem[p] < dIdx
        BY <1>1, <3>1 DEF DecoderStacks
      <4> QED
        BY <1>1, <1>2, <4>1
    <3> QED
      BY <1>1, <2>3, <3>1, <3>2, <3>3 DEF DecoderStacks
  <2> QED
    BY <1>2, <2>1, <2>2, <2>3
<1>7. BeforeIsStacked'
  BY BeforeStays
<1> QED
  BY <1>4, <1>5, <1>6, <1>7 DEF BoundsInv

-----------------------------------------------------------------------------
Fresh ==
  /\ EncoderInv /\ ForcedInv /\ ApartInv /\ NodesAdded
  /\ removed = {} /\ dIdx = 1 /\ dI = 1 /\ bits = <<1>> /\ forwardDestination = 0

KDInv ==
  /\ phase = "encode" => Fresh
  /\ phase # "encode" => IntactInv
  /\ phase = "decode" => BoundsInv

LEMMA InitDecoding == KDInit => KDInv
<1> SUFFICES ASSUME KDInit
             PROVE  KDInv
  OBVIOUS
<1>1. Init /\ phase = "encode" /\ removed = {} /\ dIdx = 1 /\ dI = 1 /\ bits = <<1>>
      /\ forwardDestination = 0
  BY DEF KDInit
<1>2. EncoderInv /\ ForcedInv /\ ApartInv /\ NodesAdded
  BY <1>1, InitEncoder, InitForces, InitApart, InitAdds
<1> QED
  BY <1>1, <1>2 DEF KDInv, Fresh

LEMMA EncodeStaysFresh == KDInv /\ Encode => KDInv'
<1> SUFFICES ASSUME KDInv, Encode
             PROVE  KDInv'
  OBVIOUS
<1>1. Fresh /\ Next /\ phase = "encode" /\ phase' = "encode" /\ UNCHANGED <<removed, decoderVars>>
  BY DEF KDInv, Encode
<1>2. EncoderInv /\ IInv /\ EncoderInv' /\ ForcedInv /\ ApartInv /\ NodesAdded
  BY <1>1, EncoderStep DEF Fresh, EncoderInv
<1>3. ForcedInv'
  BY <1>1, <1>2, StepForces
<1>4. ApartInv' /\ NodesAdded'
  BY <1>1, <1>2, StepApart, StepAdds
<1> QED
  BY <1>1, <1>2, <1>3, <1>4 DEF KDInv, Fresh, decoderVars

(* The decoder starts in step with the key                                 *)
LEMMA RemoveHandsOver ==
  ASSUME Fresh, Remove
  PROVE  /\ IntactInv' /\ n' = n
         /\ dIdx' = 1 /\ dI' = 1 /\ bits' = <<1>> /\ forwardDestination' = 0
         /\ dStack' = D!FirstStack' /\ dHistory' = D!FirstHistory'
         /\ forwardEdgesLeft' = D!ForwardEdges'
<1>1. PICK R \in SUBSET NonHamiltonianEdges(edges) : removed' = R /\ edges' = edges \ R
  BY DEF Remove
<1>2. /\ Encoded /\ UNCHANGED <<data, start, i, idx, numNodes>>
      /\ UNCHANGED <<dIdx, dI, bits, forwardDestination>>
      /\ dStack' = D!FirstStack' /\ dHistory' = D!FirstHistory'
      /\ forwardEdgesLeft' = D!ForwardEdges'
  BY DEF Remove
<1>3. Intact' = edges
  BY <1>1 DEF Intact, NonHamiltonianEdges
<1>4. removed' \subseteq NonHamiltonianEdges(edges)
  BY <1>1
<1>5. IntactInv'
  BY <1>2, <1>3, <1>4, EncodedIsIntact DEF Fresh
<1> QED
  BY <1>2, <1>5 DEF Fresh, n

LEMMA IntactSizes ==
  IntactInv => /\ numNodes \in Nat /\ idx \in Nat \ {0} /\ n \in Nat \ {0}
               /\ D!nBits \in Nat \ {0}
               /\ \E pos : WasNumbered(pos)
<1> SUFFICES ASSUME IntactInv
             PROVE  D!nBits \in Nat \ {0}
  BY DEF IntactInv, IntactShape
<1>1. numNodes - 2 >= idx /\ numNodes - 2 \in Nat \ {0}
  BY DEF IntactInv, IntactShape
<1> QED
  BY <1>1 DEF D!nBits

LEMMA RemoveStarts == KDInv /\ Remove => KDInv'
<1> SUFFICES ASSUME KDInv, Remove
             PROVE  KDInv'
  OBVIOUS
<1>1. Fresh /\ phase' = "decode"
  BY DEF KDInv, Remove
<1>2. /\ IntactInv' /\ n' = n
      /\ dIdx' = 1 /\ dI' = 1 /\ bits' = <<1>> /\ forwardDestination' = 0
      /\ dStack' = D!FirstStack' /\ dHistory' = D!FirstHistory'
  BY <1>1, RemoveHandsOver
<1>3. /\ numNodes' \in Nat /\ idx' \in Nat \ {0} /\ n' \in Nat \ {0}
      /\ D!nBits' \in Nat \ {0}
      /\ (\E pos : WasNumbered(pos))'
  <2>1. (IntactInv => /\ numNodes \in Nat /\ idx \in Nat \ {0} /\ n \in Nat \ {0}
                      /\ D!nBits \in Nat \ {0}
                      /\ \E pos : WasNumbered(pos))'
    BY IntactSizes, PTL
  <2> QED
    BY <1>2, <2>1
<1>4. PICK size \in Nat \ {0} : size = D!nBits'
  BY <1>3
<1>5. WalkTyped'
  <2>1. <<1>> \in Seq(Bit) /\ Len(<<1>>) = 1
    BY DEF Bit
  <2> QED
    BY <1>2, <1>3, <2>1 DEF WalkTyped
<1>6. /\ dStack' = [odd |-> [mem |-> [[p \in 0..(size - 1) |-> 0] EXCEPT ![0] = 0], n |-> 1],
                    even |-> [mem |-> [p \in 0..(size - 1) |-> 0], n |-> 0]]
      /\ dHistory' = [v \in 0..(2 * size - 1) |-> 0]
  BY <1>2, <1>4 DEF D!FirstStack, D!FirstHistory, D!StackPush, D!StackCreate
<1>7. DecoderStacks'
  <2> DEFINE zeros == [p \in 0..(size - 1) |-> 0]
  <2>1. /\ [zeros EXCEPT ![0] = 0] = zeros /\ zeros \in [0..(size - 1) -> Nat]
        /\ \A p \in 0..(size - 1) : zeros[p] = 0
    OBVIOUS
  <2> HIDE DEF zeros
  <2>2. dStack' = [odd |-> [mem |-> zeros, n |-> 1], even |-> [mem |-> zeros, n |-> 0]]
    BY <1>6, <2>1 DEF zeros
  <2>3. /\ dStack' \in [StackNames -> [mem : [0..(size - 1) -> Nat], n : Nat]]
        /\ dStack'["odd"].n = 1 /\ dStack'["even"].n = 0
        /\ \A s \in StackNames : dStack'[s].mem = zeros
    BY <2>1, <2>2 DEF StackNames
  <2>4. /\ dHistory' \in [0..(2 * size - 1) -> Nat]
        /\ \A v \in 0..(2 * size - 1) : 2 * dHistory'[v] <= v + 1
    BY <1>6
  <2>5. \A s \in StackNames : \A p \in 0..(size - 1) : dStack'[s].mem[p] < 1
    BY <2>1, <2>3
  <2>6. 2 * dStack'["odd"].n <= dIdx' + 1 /\ 2 * dStack'["even"].n <= dIdx'
    BY <1>2, <2>3
  <2> QED
    BY <1>2, <1>4, <2>3, <2>4, <2>5, <2>6 DEF DecoderStacks
<1>8. BeforeIsStacked'
  <2>1. dStack'["odd"].n > 0
    BY <1>6
  <2>2. OwnStack(dIdx' - 1) = "odd"
    BY <1>2 DEF OwnStack, IsOdd
  <2> QED
    BY <2>1, <2>2 DEF BeforeIsStacked
<1>9. (\E pos : WasNumbered(pos) /\ NotBehind(pos))'
  <2>1. PICK pos : (WasNumbered(pos))'
    BY <1>3
  <2>2. pos[1] = 1
    BY <2>1 DEF WasNumbered
  <2>3. (NotBehind(pos))'
    BY <1>2, <2>2 DEF NotBehind
  <2> QED
    BY <2>1, <2>3
<1> QED
  BY <1>1, <1>2, <1>5, <1>7, <1>8, <1>9 DEF KDInv, BoundsInv

LEMMA DecodeGoesOn == KDInv /\ Decode => KDInv'
<1> SUFFICES ASSUME KDInv, Decode
             PROVE  KDInv'
  OBVIOUS
<1>1. IntactInv /\ BoundsInv /\ phase = "decode"
  BY DEF KDInv, Decode
<1>2. dIdx \in Nat \ {0}
  BY <1>1 DEF BoundsInv, WalkTyped, IntactInv, IntactShape
<1>3. UNCHANGED Given /\ phase' = "decode"
  BY <1>1, <1>2, IterationOutline DEF Given
<1> QED
  BY <1>1, <1>3, GraphStays, DecodeKeepsBounds DEF KDInv

LEMMA OthersStay == KDInv /\ (Correct \/ Rest \/ UNCHANGED allVars) => KDInv'
<1> SUFFICES ASSUME KDInv, Correct \/ Rest \/ UNCHANGED allVars
             PROVE  KDInv'
  OBVIOUS
<1>1. /\ UNCHANGED vars /\ UNCHANGED Given
      /\ UNCHANGED <<dIdx, dI, bits, dStack, dHistory, forwardDestination>>
      /\ UNCHANGED phase \/ (phase = "decode" /\ phase' = "corrected")
  BY DEF Correct, Rest, allVars, decoderVars, Given, vars
<1>2. phase = "encode" => Fresh'
  <2> SUFFICES ASSUME phase = "encode"
               PROVE  Fresh'
    OBVIOUS
  <2>1. Fresh /\ edges' = edges /\ removed' = removed /\ numNodes' = numNodes /\ idx' = idx
    BY <1>1 DEF KDInv, Given
  <2>2. EncoderInv'
    BY <1>1, <2>1, EncoderStep DEF Fresh
  <2>3. n' = n /\ Opened' = Opened
    BY <1>1, <2>1, GraphStays DEF Opened, Forward
  <2>4. ForcedInv'
    BY <2>1 DEF Fresh, ForcedInv, MutesAreStraight, ZerosAreForced, Bare, OpenAt, Forward, Back, Repeats
  <2>5. ApartInv'
    BY <2>1 DEF Fresh, ApartInv, ForwardFollowsBack, RepeatsApart, Forward, Back, Repeats
  <2> QED
    BY <1>1, <2>1, <2>2, <2>3, <2>4, <2>5 DEF Fresh, NodesAdded
<1>3. phase # "encode" => IntactInv'
  BY <1>1, GraphStays DEF KDInv
<1>4. phase = "decode" => BoundsInv'
  <2> SUFFICES ASSUME phase = "decode"
               PROVE  BoundsInv'
    OBVIOUS
  <2>1. BoundsInv
    BY DEF KDInv
  <2>2. /\ D!nBits' = D!nBits /\ n' = n /\ edges' = edges /\ idx' = idx
        /\ \A v : WasForward(v)' <=> WasForward(v)
    BY <1>1, GraphStays DEF Given
  <2>3. WalkTyped' /\ DecoderStacks' /\ BeforeIsStacked'
    BY <1>1, <2>1, <2>2 DEF BoundsInv, WalkTyped, DecoderStacks, BeforeIsStacked
  <2>4. PICK pos : WasNumbered(pos) /\ NotBehind(pos)
    BY <2>1 DEF BoundsInv
  <2>5. (WasNumbered(pos) /\ NotBehind(pos))'
    <3>1. WasNumbered(pos)'
      BY <1>1, <2>4, GraphStays
    <3>2. NotBehind(pos)'
      BY <1>1, <2>2, <2>4 DEF NotBehind
    <3> QED
      BY <3>1, <3>2
  <2> QED
    BY <2>3, <2>5 DEF BoundsInv
<1> QED
  BY <1>1, <1>2, <1>3, <1>4 DEF KDInv

LEMMA StepDecoding == KDInv /\ [KDNext]_allVars => KDInv'
  BY EncodeStaysFresh, RemoveStarts, DecodeGoesOn, OthersStay DEF KDNext

(* Whatever a graph has lost, the stacks of the improved decoder grow no   *)
(* faster than its index, and it does not fall behind the key              *)
(* (decoder.c:50-183).                                                     *)
THEOREM DecoderDoesNotFallBehind == KDSpec => []KDInv
  BY InitDecoding, StepDecoding, PTL DEF KDSpec

(* Whatever is lost, the decoder returns as many bits as the key has, and  *)
(* its stacks and bits stay inside their n_bits entries                    *)
(* (decoder.c:61-68,78,174-178).                                           *)
THEOREM DecoderStaysInBounds == KDSpec => []DecoderKeepsBounds
<1>1. KDInv => DecoderKeepsBounds
  <2> SUFFICES ASSUME KDInv, phase = "decode"
               PROVE  DecoderKeepsBounds
    BY DEF DecoderKeepsBounds, Finished
  <2>1. IntactInv /\ BoundsInv
    BY DEF KDInv
  <2>2. /\ dIdx \in 1..idx /\ dI \in 1..n /\ bits \in Seq(Bit) /\ Len(bits) = dI
        /\ numNodes \in Nat /\ idx \in Nat \ {0} /\ n \in Nat \ {0}
        /\ D!nBits = numNodes - 2 /\ numNodes - 2 >= idx
        /\ start \in Int /\ NumBits \in Nat /\ n = NumBits - start
    BY <2>1, NumBitsAssumption DEF BoundsInv, WalkTyped, IntactInv, IntactShape, D!nBits, n
  <2>3. PICK pos : WasNumbered(pos) /\ pos[dIdx] <= dI
    BY <2>1 DEF BoundsInv, NotBehind
  <2>4. D!Decoded => dI = n
    <3> SUFFICES ASSUME D!Decoded, dI # n
                 PROVE  FALSE
      OBVIOUS
    <3>1. start + dI < NumBits
      BY <2>2
    <3>2. dIdx = idx
      BY <2>2, <3>1 DEF D!Decoded, D!Looping
    <3> QED
      BY <2>2, <2>3, <3>2 DEF WasNumbered
  <2>5. Finished => Len(D!Result) = n
    <3> SUFFICES ASSUME Finished
                 PROVE  Len(D!Result) = n
      OBVIOUS
    <3>1. dI = n
      BY <2>4 DEF Finished
    <3>2. ~D!PrevLastIsForwardDestination
      BY <2>2, <3>1 DEF D!PrevLastIsForwardDestination
    <3>3. D!Result = SubSeq(bits, 1, n)
      BY <2>2, <3>1, <3>2 DEF D!Result
    <3> QED
      BY <2>2, <3>1, <3>3
  <2>6. ASSUME D!Looping
        PROVE  /\ \A s \in StackNames : dStack[s].n < D!nBits
               /\ dI < D!nBits
    <3>1. PICK size \in Nat : size = D!nBits /\ dIdx < size /\ start + dI < NumBits
      BY <2>2, <2>6 DEF D!Looping
    <3>2. /\ dStack["odd"].n \in Nat /\ 2 * dStack["odd"].n <= dIdx + 1
          /\ dStack["even"].n \in Nat /\ 2 * dStack["even"].n <= dIdx
      BY <2>1 DEF BoundsInv, DecoderStacks, StackNames
    <3>3. dStack["odd"].n < size /\ dStack["even"].n < size
      BY <2>2, <3>1, <3>2
    <3>4. n <= size
      <4>1. IsFiniteSet(ForwardNodes)
        <5>1. ForwardNodes \in SUBSET (0..(idx - 1)) /\ idx - 1 \in Int
          BY <2>2 DEF ForwardNodes
        <5>2. IsFiniteSet(0..(idx - 1))
          BY <5>1, FS_Interval
        <5> QED
          BY <5>1, <5>2, FS_Subset
      <4>2. Cardinality(ForwardNodes) \in Nat
        BY <4>1, FS_CardinalityType
      <4>3. Cardinality(ForwardNodes) = size - n
        BY <2>1, <2>2, <3>1 DEF IntactInv, IntactCount
      <4> QED
        BY <2>2, <4>2, <4>3
    <3>5. dI < size
      BY <2>2, <3>1, <3>4
    <3> QED
      BY <3>1, <3>3, <3>5 DEF StackNames
  <2> QED
    BY <2>5, <2>6 DEF DecoderKeepsBounds
<1> QED
  BY <1>1, DecoderDoesNotFallBehind, PTL

-----------------------------------------------------------------------------
(* In step with the key, the decoder skips the mute nodes and no others    *)
LEMMA MuteInStep ==
  ASSUME IntactInv, dIdx \in Nat \ {0}, forwardDestination \in 0..3, NEW pos, InStep(pos)
  PROVE  D!Mute <=> WasForward(dIdx - 2)
<1>1. D!Mute <=> <<dIdx - 2, dIdx>> \in edges \/ forwardDestination = 2
  BY ConditionsTell
<1>2. <<dIdx - 2, dIdx>> \in edges => WasForward(dIdx - 2)
  BY PathKept DEF WasForward
<1> QED
  BY <1>1, <1>2 DEF InStep

LEMMA SameCardinality == \A S : D!Cardinality(S) = Cardinality(S)
  BY DEF D!Cardinality, Cardinality

(* A node with the connection of the path only                             *)
LEMMA OnlyNext ==
  ASSUME IntactInv, NEW v \in Nat, <<v, v + 1>> \in edges, <<v, v + 2>> \notin edges,
         \A y \in Nat : y < v => <<v, y>> \notin edges
  PROVE  D!OnlyToNext(v)
<1>1. D!Successors(edges, v) = {v + 1}
  <2>1. ASSUME NEW e \in edges, e[1] = v
        PROVE  e[2] = v + 1
    <3>1. /\ e = <<v, e[2]>> /\ e[2] \in Nat
          /\ e[2] = v + 1 \/ e[2] = v + 2 \/ e[2] < v
      BY <2>1, IntactEdges DEF WasBack
    <3> QED
      BY <3>1
  <2>2. \E e \in edges : e[1] = v /\ e[2] = v + 1
    <3>1. <<v, v + 1>>[1] = v /\ <<v, v + 1>>[2] = v + 1
      OBVIOUS
    <3> QED
      BY <3>1
  <2> QED
    BY <2>1, <2>2 DEF D!Successors
<1>2. Cardinality({v + 1}) = 1
  BY FS_Singleton
<1> QED
  BY <1>1, <1>2, SameCardinality DEF D!OnlyToNext, D!OutDegree, D!Connected

(* A node that only the path leads to                                      *)
LEMMA OnlyFromPrevious ==
  ASSUME IntactInv, NEW v \in Nat, <<v - 1, v>> \in edges, <<v - 2, v>> \notin edges,
         \A x \in Nat : ~WasBack(x, v)
  PROVE  D!InDegree(v) = 1
<1>1. D!Predecessors(edges, v) = {v - 1}
  <2>1. ASSUME NEW e \in edges, e[2] = v
        PROVE  e[1] = v - 1
    <3>1. /\ e = <<e[1], v>> /\ e[1] \in Nat
          /\ v = e[1] + 1 \/ v = e[1] + 2 \/ WasBack(e[1], v)
      BY <2>1, IntactEdges
    <3>2. v # e[1] + 2
      <4> SUFFICES ASSUME v = e[1] + 2
                   PROVE  FALSE
        OBVIOUS
      <4>1. e[1] = v - 2
        BY <3>1
      <4> QED
        BY <3>1, <4>1
    <3> QED
      BY <3>1, <3>2
  <2>2. \E e \in edges : e[2] = v /\ e[1] = v - 1
    <3>1. <<v - 1, v>>[1] = v - 1 /\ <<v - 1, v>>[2] = v
      OBVIOUS
    <3> QED
      BY <3>1
  <2> QED
    BY <2>1, <2>2 DEF D!Predecessors
<1>2. Cardinality({v - 1}) = 1
  BY FS_Singleton
<1> QED
  BY <1>1, <1>2, SameCardinality DEF D!InDegree

(* The forward edges that are left from a node on                          *)
Left(u) == Cardinality({v \in ForwardNodes : v >= u})

LEMMA ForwardLeft ==
  ASSUME IntactInv, NEW u \in Nat
  PROVE  /\ Left(u) = Left(u + 1) + (IF WasForward(u) THEN 1 ELSE 0)
         /\ Left(u) \in Nat /\ Left(u + 1) \in Nat
<1>1. idx - 1 \in Int /\ ForwardNodes \in SUBSET (0..(idx - 1)) /\ ForwardNodes \in SUBSET Int
  BY DEF ForwardNodes, IntactInv, IntactShape
<1>2. IsFiniteSet(0..(idx - 1))
  BY <1>1, FS_Interval
<1> DEFINE here == {v \in ForwardNodes : v >= u}
           next == {v \in ForwardNodes : v >= u + 1}
<1>3. IsFiniteSet(here) /\ IsFiniteSet(next)
  <2>1. here \in SUBSET (0..(idx - 1)) /\ next \in SUBSET (0..(idx - 1))
    BY <1>1
  <2> HIDE DEF here, next
  <2> QED
    BY <1>2, <2>1, FS_Subset
<1>4. u \in ForwardNodes <=> WasForward(u)
  <2>1. WasForward(u) => u \in 0..(idx - 1)
    BY IntactEdges, <1>1
  <2> QED
    BY <2>1 DEF ForwardNodes
<1>5. here = IF WasForward(u) THEN next \cup {u} ELSE next
  <2>1. \A v \in ForwardNodes : v >= u <=> v = u \/ v >= u + 1
    BY <1>1
  <2> QED
    BY <1>4, <2>1
<1>6. u \notin next
  OBVIOUS
<1> HIDE DEF here, next
<1>7. WasForward(u) => Cardinality(here) = Cardinality(next) + 1
  BY <1>3, <1>5, <1>6, FS_AddElement
<1>8. Cardinality(here) \in Nat /\ Cardinality(next) \in Nat
  BY <1>3, FS_CardinalityType
<1> QED
  BY <1>5, <1>7, <1>8 DEF Left, here, next

LEMMA LossesTell ==
  ASSUME IntactInv, LossesApart, NEW u \in Nat, NEW y \in Nat,
         <<u, u + 2>> \in removed, y < u - 1, ~WasBack(u + 1, u)
  PROVE  <<u - 1, y>> \notin removed
<1> SUFFICES ASSUME <<u - 1, y>> \in removed
             PROVE  FALSE
  OBVIOUS
<1> DEFINE e == <<u, u + 2>>
           f == <<u - 1, y>>
<1>1. e[2] = e[1] + 2 /\ f[1] = e[1] - 1 /\ f[2] < f[1] /\ e[1] = u
  OBVIOUS
<1>2. <<e[1] + 1, e[1]>> \in edges \cup removed
  BY <1>1 DEF LossesApart
<1>3. WasBack(u + 1, u)
  BY <1>1, <1>2 DEF WasBack, Intact
<1> QED
  BY <1>3

(* Where a forward edge was lost and nothing tells of it, the node before  *)
(* still goes back, and what follows looks like an if block: the decoder   *)
(* makes the guess                                                         *)
LEMMA LostForwardIsGuessed ==
  ASSUME IntactInv, LossesApart, NEW u \in 1..(idx - 1), u = dIdx, forwardDestination \in 0..3,
         D!Plain, D!bit = 1, WasForward(u), ~WasForward(u - 2), forwardEdgesLeft = Left(u)
  PROVE  D!Rule27 \/ D!Rule29
<1>1. /\ numNodes \in Nat /\ idx \in Nat \ {0} /\ u \in Nat \ {0}
      /\ numNodes - 2 = idx + (IF WasForward(idx - 1) \/ WasForward(idx - 2) THEN 1 ELSE 0)
  BY DEF IntactInv, IntactShape
<1>2. u <= numNodes - 4
  <2>1. CASE u = idx - 1 \/ u = idx - 2
    <3>1. numNodes - 2 = idx + 1
      BY <1>1, <2>1
    <3> QED
      BY <1>1, <2>1, <3>1
  <2>2. CASE u <= idx - 3
    BY <1>1, <2>2
  <2> QED
    BY <1>1, <2>1, <2>2
<1>3. /\ <<u, u + 2>> \notin edges /\ <<u, u + 1>> \in edges /\ <<u + 1, u + 2>> \in edges
      /\ \A y \in Nat : y < u => <<u, y>> \notin edges
  BY <1>1, ConditionsTell
<1>4. /\ ~WasForward(u + 1) /\ ~WasForward(u + 2) /\ ~WasForward(u - 1)
  <2>1. u - 1 \in Int /\ (u - 1) + 1 = u
    BY <1>1
  <2>2. WasForward(u - 1) => ~WasForward((u - 1) + 1)
    BY <2>1, IntactEdges
  <2> QED
    BY <1>1, <2>1, <2>2, IntactEdges
<1>5. ~WasBack(u + 1, u)
  <2>1. u + 1 \in 0..(numNodes - 2) /\ (u + 1) - 1 = u /\ (u + 1) + 1 = u + 2
    BY <1>1, <1>2
  <2> QED
    BY <1>3, <2>1, PathKept
<1>6. D!HasBackedge(edges, u - 1)
  <2>1. PICK y \in Nat : WasBack(u - 1, y)
    BY <1>1 DEF IntactInv, IntactBlocks
  <2>2. <<u, u + 2>> \in removed
    BY <1>3 DEF WasForward, Intact
  <2>3. <<u - 1, y>> \in Intact /\ y < u - 1
    BY <2>1 DEF WasBack
  <2>4. <<u - 1, y>> \notin removed
    BY <1>1, <1>5, <2>2, <2>3, LossesTell
  <2>5. <<u - 1, y>> \in edges /\ y \in 0..((u - 1) - 1)
    BY <1>1, <2>3, <2>4 DEF Intact
  <2> QED
    BY <2>5 DEF D!HasBackedge, D!BackedgeTargets, D!Connected
<1>7. /\ \A y \in Nat : ~WasBack(u + 1, y)
      /\ \A y \in Nat : ~WasBack(u + 2, y)
  <2>1. (u + 1) - 1 = u /\ (u + 2) - 2 = u /\ u + 1 \in Nat /\ u + 2 \in Nat
    BY <1>1
  <2>2. \A y \in Nat : ~WasBack(u + 2, y)
    BY <2>1 DEF IntactInv, IntactBlocks
  <2>3. \A y \in Nat : WasBack(u + 1, y) => y = u
    BY <2>1 DEF IntactInv, IntactBlocks
  <2> QED
    BY <1>5, <2>2, <2>3
<1>8. <<u + 2, u + 3>> \in edges
  <2>1. u + 2 \in 0..(numNodes - 2) /\ (u + 2) - 1 = u + 1 /\ (u + 2) + 1 = u + 3
    BY <1>1, <1>2
  <2> QED
    BY <1>4, <2>1, PathKept
<1>9. D!OnlyToNext(u) /\ D!OnlyToNext(u + 1) /\ D!OnlyToNext(u + 2)
  <2>1. D!OnlyToNext(u)
    BY <1>1, <1>3, OnlyNext
  <2>2. \A v \in Nat : ~WasForward(v) => <<v, v + 2>> \notin edges
    BY PathKept DEF WasForward
  <2>3. \A v, y \in Nat : ~WasBack(v, y) /\ y < v => <<v, y>> \notin edges
    BY PathKept DEF WasBack
  <2>4. D!OnlyToNext(u + 1)
    <3>1. PICK v \in Nat : v = u + 1
      BY <1>1
    <3>2. v + 1 = u + 2
      BY <1>1, <3>1
    <3>3. <<v, v + 1>> \in edges /\ <<v, v + 2>> \notin edges
          /\ \A y \in Nat : y < v => <<v, y>> \notin edges
      BY <1>3, <1>4, <1>7, <2>2, <2>3, <3>1, <3>2
    <3>4. D!OnlyToNext(v)
      BY <3>3, OnlyNext
    <3> QED
      BY <3>1, <3>4
  <2>5. D!OnlyToNext(u + 2)
    <3>1. PICK v \in Nat : v = u + 2
      BY <1>1
    <3>2. v + 1 = u + 3
      BY <1>1, <3>1
    <3>3. <<v, v + 1>> \in edges /\ <<v, v + 2>> \notin edges
          /\ \A y \in Nat : y < v => <<v, y>> \notin edges
      BY <1>8, <1>4, <1>7, <2>2, <2>3, <3>1, <3>2
    <3>4. D!OnlyToNext(v)
      BY <3>3, OnlyNext
    <3> QED
      BY <3>1, <3>4
  <2> QED
    BY <2>1, <2>4, <2>5
<1>10. CASE u < numNodes - 4
  <2>1. numNodes - u - 1 > 3 /\ u # numNodes - 4 /\ u # numNodes - 3
    BY <1>1, <1>10
  <2>2. D!SequenceOfThree
    <3>1. \A v \in u..(u + 2) : v = u \/ v = u + 1 \/ v = u + 2
      BY <1>1
    <3> QED
      BY <1>9, <2>1, <3>1 DEF D!SequenceOfThree
  <2>3. ~D!Rule27 /\ ~D!Rule28
    BY <2>1 DEF D!Rule27, D!Rule28
  <2>4. ~D!HasPossibleBackedge(edges, dStack[D!Possible], u)
    BY <1>6 DEF D!HasPossibleBackedge
  <2> QED
    BY <2>2, <2>3, <2>4 DEF D!Rule29
<1>11. CASE u = numNodes - 4
  <2>1. idx = u + 1
    <3>1. CASE idx = u + 2
      <4>1. WasForward(idx - 2)
        BY <1>1, <3>1
      <4> QED
        BY <1>1, <1>11, <3>1, <4>1
    <3>2. idx <= numNodes - 2
      BY <1>1
    <3> QED
      BY <1>1, <1>11, <3>1, <3>2
  <2>2. D!OutDegree(numNodes - 1) = 0
    <3>1. ASSUME NEW e \in edges, e[1] = numNodes - 1
          PROVE  FALSE
      <4>1. /\ e[2] < numNodes
            /\ e[2] = e[1] + 1 \/ WasForward(e[1]) \/ WasBack(e[1], e[2])
        BY IntactEdges
      <4>2. e[1] \notin 1..(idx - 1) /\ e[1] \in Int
        BY <1>1, <1>11, <2>1, <3>1
      <4> QED
        BY <1>1, <3>1, <4>1, <4>2, IntactEdges
    <3>2. D!Successors(edges, numNodes - 1) = {}
      BY <3>1 DEF D!Successors
    <3> QED
      BY <3>2, FS_EmptySet, SameCardinality DEF D!OutDegree
  <2>3. \A v \in (numNodes - 4)..(numNodes - 2) : D!OnlyToNext(v)
    <3>1. \A v \in (numNodes - 4)..(numNodes - 2) : v = u \/ v = u + 1 \/ v = u + 2
      BY <1>1, <1>11
    <3> QED
      BY <1>9, <3>1
  <2>4. ASSUME NEW v \in (numNodes - 4)..(numNodes - 1)
        PROVE  D!InDegree(v) = 1
    <3>1. /\ v \in Nat /\ v >= u /\ v - 1 \in 0..(numNodes - 2)
          /\ v = u \/ v = u + 1 \/ v = u + 2 \/ v = u + 3
      BY <1>1, <1>11
    <3>2. \A x \in Nat : ~WasBack(x, v)
      <4> SUFFICES ASSUME NEW x \in Nat, WasBack(x, v)
                   PROVE  FALSE
        OBVIOUS
      <4>1. x \in 1..(idx - 1) /\ v < x
        BY IntactEdges
      <4> QED
        BY <1>1, <2>1, <3>1, <4>1
    <3>3. v - 2 = u \/ ~WasForward(v - 2)
      <4>1. v - 2 \in {u - 2, u - 1, u, u + 1}
        BY <1>1, <3>1
      <4> QED
        BY <1>4, <4>1
    <3>4. <<v - 2, v>> \notin edges
      <4>1. CASE v - 2 = u
        <5>1. v = u + 2
          BY <1>1, <3>1, <4>1
        <5> QED
          BY <1>3, <4>1, <5>1
      <4>2. CASE ~WasForward(v - 2)
        <5>1. (v - 2) + 2 = v
          BY <3>1
        <5> QED
          BY <4>2, <5>1, PathKept DEF WasForward
      <4> QED
        BY <3>3, <4>1, <4>2
    <3>5. <<v - 1, v>> \in edges
      <4>1. (v - 1) + 1 = v /\ (v - 1) - 1 = v - 2
        BY <3>1
      <4>2. ~(WasForward(v - 2) /\ WasBack(v - 1, v - 2))
        <5>1. CASE v - 2 = u
          <6>1. v - 1 = u + 1
            BY <1>1, <3>1, <5>1
          <6> QED
            BY <1>5, <5>1, <6>1
        <5>2. CASE ~WasForward(v - 2)
          BY <5>2
        <5> QED
          BY <3>3, <5>1, <5>2
      <4> QED
        BY <3>1, <4>1, <4>2, PathKept
    <3> QED
      BY <3>1, <3>2, <3>4, <3>5, OnlyFromPrevious
  <2>5. D!FourLastAreMute
    <3>1. numNodes > 3
      BY <1>1, <1>11
    <3> QED
      BY <2>2, <2>3, <2>4, <3>1 DEF D!FourLastAreMute
  <2>6. forwardEdgesLeft # 0
    BY <1>1, ForwardLeft
  <2> QED
    BY <1>11, <2>5, <2>6 DEF D!Rule27
<1> QED
  BY <1>1, <1>2, <1>10, <1>11

-----------------------------------------------------------------------------
(* What was read of node u: its bit, or a 0 where its backedge was lost    *)
Reads(u, b) ==
  \/ b = WasMeaning(u)
  \/ b = 0 /\ WasMeaning(u) = 1 /\ LostOdd(u)

(* A forward edge is seen, or guessed where it was lost                    *)
Counts(u) ==
  /\ forwardEdgesLeft' = forwardEdgesLeft - (IF WasForward(u) THEN 1 ELSE 0)
  /\ forwardDestination' = D!Countdown \/ (forwardDestination' = 3 /\ WasForward(u))
  /\ WasForward(u) => <<u, u + 2>> \in edges \/ forwardDestination' = 3

(* In step with the key, a node that is not mute is read as what it was,   *)
(* or as a 0 if its backedge was lost                                      *)
LEMMA ReadInStep ==
  ASSUME IntactInv, BoundsInv, LossesApart, Decode, ~D!Mute,
         NEW pos, WasNumbered(pos), InStep(pos), NEW u \in Nat \ {0}, u = dIdx
  PROVE  /\ \E b \in Bit : bits' = Append(bits, b) /\ Reads(u, b)
         /\ dI' = dI + 1 /\ Counts(u)
<1>1. /\ forwardDestination \in 0..3 /\ DecoderStacks /\ BeforeIsStacked /\ WalkTyped
      /\ D!Looping /\ D!Step /\ pos[dIdx] <= dI /\ dI \in Int
      /\ numNodes \in Nat /\ idx \in Nat
  <2>1. /\ forwardDestination \in 0..3 /\ DecoderStacks /\ BeforeIsStacked /\ WalkTyped
        /\ numNodes \in Nat /\ idx \in Nat /\ dI \in Int
    BY DEF BoundsInv, WalkTyped, IntactInv, IntactShape
  <2>2. D!Looping /\ D!Step
    BY IterationOutline DEF Decode
  <2>3. dI = pos[dIdx]
    BY DEF InStep
  <2> QED
    BY <2>1, <2>2, <2>3
<1>2. /\ u \in 1..(idx - 1) /\ u < D!nBits /\ D!nBits = numNodes - 2
      /\ D!bit \in Bit /\ D!bit = data[start + dI]
      /\ ~WasForward(u - 2) => data[start + pos[u]] = WasMeaning(u)
  BY <1>1, IterationReads
<1>3. ~WasForward(u - 2)
  BY <1>1, MuteInStep
<1>4. D!bit = WasMeaning(u)
  BY <1>2, <1>3 DEF InStep
<1>5. WasMeaning(u) \in Bit /\ 0 \in Bit /\ 1 \in Bit
  BY DEF WasMeaning, Bit
<1>6. /\ D!Forward <=> <<u, u + 2>> \in edges
      /\ ~D!Forward => (D!Back <=> \E y \in Nat : y < u /\ <<u, y>> \in edges)
      /\ D!NoPathEdge => <<u, u + 1>> \notin edges
      /\ D!NextHasNoPathEdge => <<u + 1, u + 2>> \notin edges
      /\ D!Plain => /\ <<u, u + 2>> \notin edges /\ <<u, u + 1>> \in edges
                    /\ <<u + 1, u + 2>> \in edges
                    /\ \A y \in Nat : y < u => <<u, y>> \notin edges
  BY <1>1, ConditionsTell
<1>7. <<u, u + 2>> \in edges => WasForward(u)
  BY PathKept DEF WasForward
<1>8. \A y \in Nat : WasBack(u, y) => ~WasForward(u)
  BY DEF IntactInv, IntactBlocks
<1>9. forwardEdgesLeft = Left(u) /\ forwardEdgesLeft \in Nat
  BY ForwardLeft DEF InStep, Left
<1>10. ~D!SkipMute
  BY DEF D!SkipMute
<1>11. CASE D!ReadForward
  <2>1. /\ bits' = Append(bits, 1) /\ dI' = dI + 1
        /\ forwardEdgesLeft' = forwardEdgesLeft - 1 /\ forwardDestination' = D!Countdown
        /\ D!Forward
    BY <1>11 DEF D!ReadForward, D!Write
  <2>2. WasForward(u)
    BY <1>6, <1>7, <2>1
  <2> QED
    BY <1>5, <1>6, <2>1, <2>2 DEF Reads, WasMeaning, Counts
<1>12. CASE D!ReadBackedge
  <2>1. PICK w \in D!BackedgeTargets(edges, u) : D!Write((u - w) % 2)
    BY <1>12 DEF D!ReadBackedge
  <2>2. /\ w \in Nat /\ w < u /\ <<u, w>> \in edges
        /\ dI' = dI + 1 /\ bits' = Append(bits, (u - w) % 2)
        /\ forwardEdgesLeft' = forwardEdgesLeft /\ forwardDestination' = D!Countdown
    BY <1>12, <2>1 DEF D!ReadBackedge, D!BackedgeTargets, D!Connected, D!Write
  <2>3. WasBack(u, w)
    BY <2>2, PathKept DEF WasBack
  <2>4. ~WasForward(u)
    BY <1>8, <2>2, <2>3
  <2>5. WasOdd(u) <=> (u - w) % 2 = 1
    <3>1. \A y \in Nat : WasBack(u, y) => y = w
      BY <2>2, <2>3 DEF IntactInv, IntactBlocks
    <3> QED
      BY <2>2, <2>3, <3>1 DEF WasOdd
  <2>6. (u - w) % 2 \in Bit
    BY <2>2 DEF Bit
  <2>7. (u - w) % 2 = WasMeaning(u)
    BY <2>4, <2>5, <2>6 DEF WasMeaning, Bit
  <2>8. Counts(u)
    BY <1>9, <2>2, <2>4 DEF Counts
  <2> QED
    BY <2>2, <2>6, <2>7, <2>8 DEF Reads
<1>13. CASE D!ReadLostBackedge
  <2>1. /\ bits' = Append(bits, 1) /\ dI' = dI + 1
        /\ forwardEdgesLeft' = forwardEdgesLeft /\ forwardDestination' = D!Countdown
        /\ D!NoPathEdge
    BY <1>13 DEF D!ReadLostBackedge, D!Write
  <2>2. u \in 0..(numNodes - 2) /\ <<u, u + 1>> \notin edges
    BY <1>1, <1>2, <1>6, <2>1
  <2>3. WasBack(u, u - 1)
    BY <2>2, PathKept
  <2>4. u - 1 \in Nat /\ (u - (u - 1)) % 2 = 1
    OBVIOUS
  <2>5. WasOdd(u) /\ ~WasForward(u)
    BY <1>8, <2>3, <2>4 DEF WasOdd
  <2>6. Counts(u)
    BY <1>9, <2>1, <2>5 DEF Counts
  <2> QED
    BY <1>5, <2>1, <2>5, <2>6 DEF Reads, WasMeaning
<1>14. ASSUME D!ReadLostForward \/ D!AssumeForward, WasForward(u)
       PROVE  /\ \E b \in Bit : bits' = Append(bits, b) /\ Reads(u, b)
              /\ dI' = dI + 1 /\ Counts(u)
  <2>1. /\ bits' = Append(bits, 1) /\ dI' = dI + 1
        /\ forwardEdgesLeft' = forwardEdgesLeft - 1 /\ forwardDestination' = 3
    BY <1>14 DEF D!ReadLostForward, D!AssumeForward, D!Write
  <2> QED
    BY <1>5, <1>14, <2>1 DEF Reads, WasMeaning, Counts
<1>15. CASE D!ReadLostForward
  <2>1. D!NextHasNoPathEdge
    BY <1>15 DEF D!ReadLostForward
  <2>2. u + 1 \in 0..(numNodes - 2) /\ <<u + 1, u + 2>> \notin edges
    BY <1>1, <1>2, <1>6, <2>1
  <2>3. WasForward(u)
    BY <2>2, PathTells
  <2> QED
    BY <1>14, <1>15, <2>3
<1>16. CASE D!AssumeForward
  <2>1. D!Rule27 \/ D!Rule29
    BY <1>16 DEF D!AssumeForward
  <2>2. CASE D!Rule27
    <3>1. u = numNodes - 4 /\ forwardEdgesLeft # 0
      BY <2>2 DEF D!Rule27
    <3>2. numNodes - 2 = idx + (IF WasForward(idx - 1) \/ WasForward(idx - 2) THEN 1 ELSE 0)
      BY DEF IntactInv, IntactShape
    <3>3. Left(u + 1) = 0
      <4>1. {v \in ForwardNodes : v >= u + 1} = {}
        <5> SUFFICES ASSUME NEW v \in ForwardNodes, v >= u + 1
                     PROVE  FALSE
          OBVIOUS
        <5>1. v \in Int /\ v <= idx - 1 /\ WasForward(v)
          BY <1>1 DEF ForwardNodes
        <5>2. idx = u + 2
          <6>1. idx <= numNodes - 2
            BY <1>1, <3>2
          <6> QED
            BY <1>1, <3>1, <5>1, <6>1
        <5>3. v = idx - 1
          BY <1>1, <5>1, <5>2
        <5> QED
          BY <1>1, <3>1, <3>2, <5>1, <5>2, <5>3
      <4> QED
        BY <4>1, FS_EmptySet DEF Left
    <3>4. WasForward(u)
      BY <1>9, <3>1, <3>3, ForwardLeft
    <3> QED
      BY <1>14, <1>16, <3>4
  <2>3. CASE D!Rule29
    <3>1. /\ D!Plain /\ D!bit = 1
          /\ ~D!HasPossibleBackedge(edges, dStack[D!Possible], u)
      BY <2>3 DEF D!Rule29
    <3>2. forwardDestination = 3 => WasForward(u - 1)
      BY DEF InStep
    <3>3. ~WasOdd(u)
      BY <1>1, <1>2, <1>3, <3>1, <3>2, RepeatIsPossible
    <3>4. WasForward(u)
      BY <1>4, <3>1, <3>3 DEF WasMeaning
    <3> QED
      BY <1>14, <1>16, <3>4
  <2> QED
    BY <2>1, <2>2, <2>3
<1>17. CASE D!ReadZero
  <2>1. /\ bits' = Append(bits, 0) /\ dI' = dI + 1
        /\ forwardEdgesLeft' = forwardEdgesLeft /\ forwardDestination' = D!Countdown
        /\ D!Plain /\ ~D!Rule27 /\ ~D!Rule29
    BY <1>17 DEF D!ReadZero, D!Write, D!PlainZero
  <2>2. ~WasForward(u)
    <3> SUFFICES ASSUME WasForward(u)
                 PROVE  FALSE
      OBVIOUS
    <3>1. D!bit = 1
      BY <1>4 DEF WasMeaning
    <3> QED
      BY <1>1, <1>2, <1>3, <1>9, <2>1, <3>1, LostForwardIsGuessed
  <2>3. Reads(u, 0)
    <3>1. CASE WasOdd(u)
      <4>1. PICK w \in Nat : WasBack(u, w) /\ (u - w) % 2 = 1
        BY <3>1 DEF WasOdd
      <4>2. w < u /\ <<u, w>> \in Intact
        BY <4>1 DEF WasBack
      <4>3. <<u, w>> \in removed
        BY <1>6, <2>1, <4>2 DEF Intact
      <4>4. LostOdd(u)
        BY <4>1, <4>2, <4>3 DEF LostOdd
      <4> QED
        BY <3>1, <4>4 DEF Reads, WasMeaning
    <3>2. CASE ~WasOdd(u)
      BY <2>2, <3>2 DEF Reads, WasMeaning
    <3> QED
      BY <3>1, <3>2
  <2>4. Counts(u)
    BY <1>9, <2>1, <2>2 DEF Counts
  <2> QED
    BY <1>5, <2>1, <2>3, <2>4
<1> QED
  BY <1>1, <1>10, <1>11, <1>12, <1>13, <1>15, <1>16, <1>17 DEF D!Step
-----------------------------------------------------------------------------
LEMMA LossesStay ==
  ASSUME UNCHANGED Given
  PROVE  /\ Key' = Key /\ LossesApart' = LossesApart
         /\ \A v : LostOdd(v)' <=> LostOdd(v)
         /\ \A u : Left(u)' = Left(u)
<1>1. removed' = removed /\ data' = data /\ start' = start
  BY DEF Given
<1>2. n' = n /\ ForwardNodes' = ForwardNodes /\ \A u, v : WasBack(u, v)' <=> WasBack(u, v)
  BY GraphStays
<1>3. Key' = Key
  BY <1>1, <1>2 DEF Key
<1>4. LossesApart' = LossesApart
  BY <1>1 DEF LossesApart, Given
<1>5. \A v : LostOdd(v)' <=> LostOdd(v)
  BY <1>1 DEF LostOdd
<1>6. \A u : Left(u)' = Left(u)
  BY <1>2 DEF Left
<1> QED
  BY <1>3, <1>4, <1>5, <1>6

(* A bit that is read as its node was, or as a 0 for a lost backedge, is   *)
(* explained                                                               *)
LEMMA ReadIsExplained ==
  ASSUME IntactInv, NEW pos, WasNumbered(pos), NEW u \in 1..(idx - 1), ~WasForward(u - 2),
         NEW d \in Nat \ {0},
         pos[u] = d, d + 1 <= n,
         bits \in Seq(Bit), Len(bits) = d,
         NEW b \in Bit, bits' = Append(bits, b), Reads(u, b), UNCHANGED Given,
         \A j \in 1..d : Explained(pos, j)
  PROVE  \A j \in 1..(d + 1) : Explained(pos, j)'
<1>1. Key' = Key /\ (\A v : LostOdd(v)' <=> LostOdd(v)) /\ idx' = idx /\ n \in Nat
  BY LossesStay DEF Given, IntactInv, IntactShape
<1>2. /\ \A j \in 1..d : bits'[j] = bits[j]
      /\ bits'[d + 1] = b
  OBVIOUS
<1>3. ASSUME NEW j \in 1..d
      PROVE  Explained(pos, j)'
  <2>1. bits'[j] = bits[j] /\ Explained(pos, j)
    BY <1>2
  <2> QED
    BY <1>1, <2>1 DEF Explained
<1>4. Key[d + 1] = WasMeaning(u)
  <2>1. data[start + pos[u]] = WasMeaning(u)
    BY DEF WasNumbered
  <2>3. d + 1 \in 1..n /\ d + 1 # 1
    BY <1>1
  <2>4. Key[d + 1] = data[start + (d + 1) - 1]
    BY <2>3 DEF Key
  <2>5. start + (d + 1) - 1 = start + d
    BY DEF IntactInv, IntactShape
  <2> QED
    BY <2>1, <2>4, <2>5
<1>5. Explained(pos, d + 1)'
  <2>1. CASE b = WasMeaning(u)
    BY <1>1, <1>2, <1>4, <2>1 DEF Explained
  <2>2. CASE WasMeaning(u) = 1 /\ LostOdd(u)
    <3>1. pos[u] = (d + 1) - 1
      OBVIOUS
    <3>2. Key'[d + 1] = 1 /\ u \in 1..(idx' - 1) /\ LostOdd(u)'
      BY <1>1, <1>4, <2>2
    <3>3. \E v \in 1..(idx' - 1) : pos[v] = (d + 1) - 1 /\ LostOdd(v)'
      BY <3>1, <3>2
    <3> QED
      BY <3>2, <3>3 DEF Explained
  <2> QED
    BY <2>1, <2>2 DEF Reads
<1>6. \A j \in 1..(d + 1) : j \in 1..d \/ j = d + 1
  OBVIOUS
<1> QED
  BY <1>3, <1>5, <1>6

(* In step with the key, the decoder stays in step                         *)
LEMMA StepStaysInStep ==
  ASSUME IntactInv, BoundsInv, LossesApart, Decode,
         NEW pos, WasNumbered(pos), InStep(pos)
  PROVE  InStep(pos)'
<1>1. /\ forwardDestination \in 0..3 /\ dIdx \in Nat \ {0} /\ WalkTyped
      /\ numNodes \in Nat /\ idx \in Nat \ {0} /\ pos[dIdx] = dI /\ dI \in Nat \ {0}
      /\ bits \in Seq(Bit) /\ Len(bits) = dI
      /\ \A j \in 1..dI : Explained(pos, j)
  BY DEF BoundsInv, WalkTyped, IntactInv, IntactShape, InStep
<1>2. D!Looping /\ dIdx' = dIdx + 1 /\ UNCHANGED Given /\ D!Step
  BY <1>1, IterationOutline DEF Given, Decode
<1>3. /\ dIdx \in 1..(idx - 1) /\ dI \in 1..(n - 1)
      /\ WasForward(dIdx - 2) => pos[dIdx + 1] = pos[dIdx]
      /\ ~WasForward(dIdx - 2) => pos[dIdx + 1] = pos[dIdx] + 1
  <2>1. pos[dIdx] <= dI
    BY <1>1
  <2> QED
    BY <1>1, <1>2, <2>1, IterationReads
<1>4. PICK u \in Nat \ {0}, d \in Nat \ {0} :
        /\ u = dIdx /\ d = dI /\ u \in 1..(idx - 1) /\ pos[u] = d /\ d + 1 <= n
        /\ dIdx' = u + 1
        /\ WasForward(u - 2) => pos[u + 1] = d
        /\ ~WasForward(u - 2) => pos[u + 1] = d + 1
  <2>1. n \in Nat
    BY DEF IntactInv, IntactShape
  <2> QED
    BY <1>1, <1>2, <1>3, <2>1
<1>5. /\ D!Mute <=> WasForward(u - 2)
      /\ D!Mute <=> <<u - 2, u>> \in edges \/ forwardDestination = 2
  BY <1>1, <1>4, MuteInStep, ConditionsTell
<1>6. /\ forwardDestination = 3 => WasForward(u - 1)
      /\ WasForward(u - 1) => <<u - 1, u + 1>> \in edges \/ forwardDestination = 3
      /\ forwardEdgesLeft = Left(u)
  BY <1>4 DEF InStep, Left
<1>7. /\ D!Countdown = 2 <=> forwardDestination = 3
      /\ D!Countdown # 3
  BY <1>1 DEF D!Countdown
<1>8. /\ u + 1 = (u - 1) + 2 /\ (u - 1) + 1 = u /\ (u - 2) + 1 = u - 1 /\ (u - 2) + 2 = u
      /\ (u + 1) - 1 = u /\ (u + 1) - 2 = u - 1
  BY <1>4
<1>9. /\ ~(WasForward(u - 1) /\ WasForward(u))
      /\ ~(WasForward(u - 2) /\ WasForward(u - 1))
      /\ ~(WasForward(u - 2) /\ WasForward(u))
  <2>1. u - 1 \in Int /\ u - 2 \in Int
    BY <1>4
  <2> QED
    BY <1>8, <2>1, IntactEdges
<1>10. /\ forwardDestination' = 3 => WasForward(u)
       /\ forwardDestination' = 2 => WasForward(u - 1)
       /\ WasForward(u) => <<u, u + 2>> \in edges \/ forwardDestination' = 3
       /\ WasForward(u - 1) => <<u - 1, u + 1>> \in edges \/ forwardDestination' = 2
       /\ forwardEdgesLeft' = Left(u + 1)
       /\ dI' = pos[u + 1]
       /\ \A j \in 1..dI' : Explained(pos, j)'
  <2>1. CASE D!Mute
    <3>1. D!SkipMute
      BY <1>2, <2>1 DEF D!Step, D!ReadForward, D!ReadBackedge, D!ReadLostBackedge,
                        D!ReadLostForward, D!AssumeForward, D!ReadZero
    <3>2. /\ dI' = dI /\ bits' = bits /\ forwardEdgesLeft' = forwardEdgesLeft
          /\ forwardDestination' = D!Countdown
      BY <3>1 DEF D!SkipMute
    <3>3. WasForward(u - 2) /\ ~WasForward(u - 1) /\ ~WasForward(u)
      BY <1>5, <1>9, <2>1
    <3>4. forwardDestination' # 3 /\ forwardDestination' # 2
      BY <1>6, <1>7, <3>2, <3>3
    <3>5. Left(u) = Left(u + 1)
      <4>1. u \in Nat
        BY <1>4
      <4>2. Left(u) = Left(u + 1) + 0 /\ Left(u + 1) \in Nat
        BY <3>3, <4>1, ForwardLeft
      <4> QED
        BY <4>2
    <3>6. ASSUME NEW j \in 1..dI
          PROVE  Explained(pos, j)'
      <4>1. Explained(pos, j)
        BY <1>1
      <4> QED
        BY <1>2, <3>2, <4>1, LossesStay DEF Explained, Given
    <3> QED
      BY <1>4, <1>6, <3>2, <3>3, <3>4, <3>5, <3>6
  <2>2. CASE ~D!Mute
    <3>1. /\ \E b \in Bit : bits' = Append(bits, b) /\ Reads(u, b)
          /\ dI' = dI + 1 /\ Counts(u)
      BY <1>4, <2>2, ReadInStep
    <3>2. ~WasForward(u - 2)
      BY <1>5, <2>2
    <3>3. PICK b \in Bit : bits' = Append(bits, b) /\ Reads(u, b)
      BY <3>1
    <3>4. \A j \in 1..(d + 1) : Explained(pos, j)'
      BY <1>1, <1>2, <1>4, <3>2, <3>3, ReadIsExplained
    <3>5. /\ forwardDestination' = 3 => WasForward(u)
          /\ forwardDestination' = 2 => WasForward(u - 1)
          /\ WasForward(u) => <<u, u + 2>> \in edges \/ forwardDestination' = 3
      BY <1>6, <1>7, <3>1 DEF Counts
    <3>6. WasForward(u - 1) => <<u - 1, u + 1>> \in edges \/ forwardDestination' = 2
      BY <1>6, <1>7, <1>9, <3>1 DEF Counts
    <3>7. forwardEdgesLeft' = Left(u + 1)
      <4>1. u \in Nat
        BY <1>4
      <4>2. /\ Left(u) = Left(u + 1) + (IF WasForward(u) THEN 1 ELSE 0)
            /\ Left(u + 1) \in Nat
        BY <4>1, ForwardLeft
      <4>3. forwardEdgesLeft' = Left(u) - (IF WasForward(u) THEN 1 ELSE 0)
        BY <1>6, <3>1 DEF Counts
      <4> QED
        BY <4>2, <4>3
    <3> QED
      BY <1>4, <3>1, <3>2, <3>4, <3>5, <3>6, <3>7
  <2> QED
    BY <2>1, <2>2
<1>11. /\ dIdx' - 1 = u /\ dIdx' - 2 = u - 1 /\ dIdx' + 1 = u + 2 /\ dIdx' = u + 1
       /\ edges' = edges
  BY <1>2, <1>4 DEF Given
<1>12. /\ (WasForward(dIdx - 1))' <=> WasForward(u)
       /\ (WasForward(dIdx - 2))' <=> WasForward(u - 1)
  BY <1>2, <1>11, GraphStays
<1>13. (Cardinality({v \in ForwardNodes : v >= dIdx}))' = Left(u + 1)
  <2>1. ForwardNodes' = ForwardNodes
    BY <1>2, GraphStays
  <2> QED
    BY <1>11, <2>1 DEF Left
<1> QED
  BY <1>10, <1>11, <1>12, <1>13 DEF InStep

LEMMA StartsInStep ==
  IntactInv /\ dIdx = 1 /\ dI = 1 /\ bits = <<1>> /\ forwardDestination = 0
  /\ forwardEdgesLeft = D!ForwardEdges => InStepInv
<1> SUFFICES ASSUME IntactInv, dIdx = 1, dI = 1, bits = << 1 >>, forwardDestination = 0,
                    forwardEdgesLeft = D!ForwardEdges
             PROVE  InStepInv
  OBVIOUS
<1>1. PICK pos : WasNumbered(pos)
  BY DEF IntactInv
<1>2. pos[1] = 1 /\ n \in Nat \ {0}
  BY <1>1 DEF WasNumbered, IntactInv, IntactShape
<1>3. ~WasForward(0) /\ ~WasForward(-1)
  <2>1. 0 \in Int /\ -1 \in Int /\ 0 \notin 1..(idx - 1) /\ -1 \notin 1..(idx - 1)
    BY DEF IntactInv, IntactShape
  <2> QED
    BY <2>1, IntactEdges
<1>4. \A j \in 1..dI : Explained(pos, j)
  <2>1. Key[1] = 1 /\ bits[1] = 1
    BY <1>2 DEF Key
  <2>2. \A j \in 1..dI : j = 1
    OBVIOUS
  <2> QED
    BY <2>1, <2>2 DEF Explained
<1>5. forwardEdgesLeft = Cardinality({v \in ForwardNodes : v >= dIdx})
  <2>1. ForwardNodes = {v \in ForwardNodes : v >= dIdx}
    <3>1. \A v \in ForwardNodes : v >= 1
      <4>1. \A v \in ForwardNodes : v \in Int /\ WasForward(v)
        BY DEF ForwardNodes, IntactInv, IntactShape
      <4>2. \A v \in Int : WasForward(v) => v >= 1
        BY IntactEdges DEF IntactInv, IntactShape
      <4> QED
        BY <4>1, <4>2
    <3> QED
      BY <3>1
  <2>2. Cardinality(ForwardNodes) = numNodes - 2 - n
    BY DEF IntactInv, IntactCount
  <2>3. D!ForwardEdges = numNodes - 2 - n
    BY DEF D!ForwardEdges, n
  <2> QED
    BY <2>1, <2>2, <2>3
<1>6. /\ dI = pos[dIdx] /\ dIdx - 1 = 0 /\ dIdx - 2 = -1
  BY <1>2
<1>7. InStep(pos)
  BY <1>3, <1>4, <1>5, <1>6 DEF InStep
<1> QED
  BY <1>1, <1>7 DEF InStepInv

KDStepInv == phase = "decode" => InStepInv

LEMMA StepKeepsStep == KDInv /\ KDStepInv /\ [KDNext]_allVars => KDStepInv'
<1> SUFFICES ASSUME KDInv, KDStepInv, [KDNext]_allVars, (phase = "decode")'
             PROVE  InStepInv'
  BY DEF KDStepInv
<1>1. CASE Encode
  BY <1>1 DEF Encode
<1>2. CASE Remove
  <2>1. Fresh
    BY <1>2 DEF KDInv, Remove
  <2>2. /\ IntactInv'
        /\ dIdx' = 1 /\ dI' = 1 /\ bits' = <<1>> /\ forwardDestination' = 0
        /\ forwardEdgesLeft' = D!ForwardEdges'
    BY <1>2, <2>1, RemoveHandsOver
  <2>3. (IntactInv /\ dIdx = 1 /\ dI = 1 /\ bits = <<1>> /\ forwardDestination = 0
         /\ forwardEdgesLeft = D!ForwardEdges => InStepInv)'
    BY StartsInStep, PTL
  <2> QED
    BY <2>2, <2>3
<1>3. CASE Decode
  <2>1. IntactInv /\ BoundsInv /\ InStepInv
    BY <1>3 DEF KDInv, KDStepInv, Decode
  <2>2. dIdx \in Nat \ {0}
    BY <2>1 DEF BoundsInv, WalkTyped, IntactInv, IntactShape
  <2>3. UNCHANGED Given
    BY <1>3, <2>2, IterationOutline DEF Given
  <2> SUFFICES ASSUME LossesApart
               PROVE  (\E pos : WasNumbered(pos) /\ InStep(pos))'
    BY <2>3, LossesStay DEF InStepInv
  <2>4. PICK pos : WasNumbered(pos) /\ InStep(pos)
    BY <2>1 DEF InStepInv
  <2>5. InStep(pos)'
    BY <1>3, <2>1, <2>4, StepStaysInStep
  <2>6. WasNumbered(pos)'
    BY <2>3, <2>4, GraphStays
  <2> QED
    BY <2>5, <2>6
<1>4. CASE Correct
  BY <1>4 DEF Correct
<1>5. CASE Rest \/ UNCHANGED allVars
  <2>1. /\ UNCHANGED Given
        /\ UNCHANGED <<dIdx, dI, bits, forwardDestination, forwardEdgesLeft>>
        /\ phase = "decode"
    BY <1>5 DEF Rest, allVars, decoderVars, Given, vars
  <2>2. InStepInv
    BY <2>1 DEF KDStepInv
  <2> SUFFICES ASSUME LossesApart
               PROVE  (\E pos : WasNumbered(pos) /\ InStep(pos))'
    BY <2>1, LossesStay DEF InStepInv
  <2>3. PICK pos : WasNumbered(pos) /\ InStep(pos)
    BY <2>2 DEF InStepInv
  <2>4. WasNumbered(pos)'
    BY <2>1, <2>3, GraphStays
  <2>5. /\ Key' = Key /\ (\A v : LostOdd(v)' <=> LostOdd(v)) /\ ForwardNodes' = ForwardNodes
        /\ (\A v : WasForward(v)' <=> WasForward(v)) /\ edges' = edges /\ idx' = idx
    BY <2>1, LossesStay, GraphStays DEF Given
  <2>6. (\A j \in 1..dI : Explained(pos, j))'
    BY <2>1, <2>3, <2>5 DEF InStep, Explained
  <2>7. InStep(pos)'
    BY <2>1, <2>3, <2>5, <2>6 DEF InStep
  <2> QED
    BY <2>4, <2>7
<1> QED
  BY <1>1, <1>2, <1>3, <1>4, <1>5 DEF KDNext

(* A decoder of a graph that lost no forward edge together with the        *)
(* backedge it was opened after stays in step with the key: it skips the   *)
(* nodes that had no bit and no others, and a bit it reads wrong is a 1    *)
(* whose backedge was lost (decoder.c:61-183).                             *)
THEOREM DecoderStaysInStep == KDSpec => []KDStepInv
<1>1. KDInit => KDStepInv
  BY DEF KDInit, KDStepInv
<1>2. KDSpec => []KDInv
  BY DecoderDoesNotFallBehind
<1> QED
  BY <1>1, <1>2, StepKeepsStep, PTL DEF KDSpec

-----------------------------------------------------------------------------
(* What is returned is what was read, bit for bit                          *)
LEMMA ResultIsExplained ==
  ASSUME KDInv, KDStepInv, Finished, LossesApart
  PROVE  /\ D!Result = bits /\ bits \in Seq(Bit) /\ Len(bits) = n /\ n \in Nat \ {0}
         /\ \E pos : WasNumbered(pos) /\ \A j \in 1..n : Explained(pos, j)
<1>1. IntactInv /\ BoundsInv /\ phase = "decode" /\ D!Decoded
  BY DEF KDInv, Finished
<1>2. PICK pos : WasNumbered(pos) /\ InStep(pos)
  BY <1>1 DEF KDStepInv, InStepInv
<1>3. /\ dIdx \in 1..idx /\ dI \in 1..n /\ bits \in Seq(Bit) /\ Len(bits) = dI
      /\ numNodes \in Nat /\ idx \in Nat \ {0} /\ n \in Nat \ {0}
      /\ D!nBits = numNodes - 2 /\ numNodes - 2 >= idx
      /\ start \in Int /\ NumBits \in Nat /\ n = NumBits - start
  BY <1>1, NumBitsAssumption DEF BoundsInv, WalkTyped, IntactInv, IntactShape, D!nBits, n
<1>4. dI = n
  <2> SUFFICES ASSUME dI # n
               PROVE  FALSE
    OBVIOUS
  <2>1. dIdx = idx
    BY <1>1, <1>3 DEF D!Decoded, D!Looping
  <2>2. dI = pos[idx] /\ pos[idx] = n
    BY <1>2, <2>1 DEF InStep, WasNumbered
  <2> QED
    BY <2>2
<1>5. ~D!PrevLastIsForwardDestination
  BY <1>3, <1>4 DEF D!PrevLastIsForwardDestination
<1>6. D!Result = bits
  <2>1. D!Result = SubSeq(bits, 1, n)
    BY <1>3, <1>4, <1>5 DEF D!Result
  <2> QED
    BY <1>3, <1>4, <2>1
<1> QED
  BY <1>2, <1>3, <1>4, <1>6 DEF InStep

(* However many forward edges are lost, and nothing else, the key is read  *)
(* without an error: the decoder finds every one of them and sees none     *)
(* where there was none (decoder.c:116-139).                               *)
THEOREM LostForwardsAreFound == KDSpec => []LostForwardEdgesAreRecovered
<1>1. KDInv /\ KDStepInv => LostForwardEdgesAreRecovered
  <2> SUFFICES ASSUME KDInv, KDStepInv, Finished, \A e \in removed : e[2] > e[1]
               PROVE  D!Result = Key
    BY DEF LostForwardEdgesAreRecovered
  <2>1. \A u, y \in Nat : y < u => <<u, y>> \notin removed
    <3> SUFFICES ASSUME NEW u \in Nat, NEW y \in Nat, y < u, <<u, y>> \in removed
                 PROVE  FALSE
      OBVIOUS
    <3>1. <<u, y>>[2] > <<u, y>>[1]
      OBVIOUS
    <3> QED
      BY <3>1
  <2>2. LossesApart
    <3> SUFFICES ASSUME NEW f \in removed, f[2] < f[1]
                 PROVE  FALSE
      BY DEF LossesApart
    <3>1. f[1] \in Nat /\ f[2] \in Nat
      BY DEF KDInv, Finished, IntactInv, IntactShape, Intact
    <3> QED
      BY <3>1
  <2>3. \A v \in Nat : ~LostOdd(v)
    BY <2>1 DEF LostOdd
  <2>4. /\ D!Result = bits /\ bits \in Seq(Bit) /\ Len(bits) = n /\ n \in Nat \ {0}
    BY <2>2, ResultIsExplained
  <2>5. PICK pos : WasNumbered(pos) /\ \A j \in 1..n : Explained(pos, j)
    BY <2>2, ResultIsExplained
  <2>6. \A v \in 1..(idx - 1) : v \in Nat
    OBVIOUS
  <2>7. \A j \in 1..n : bits[j] = Key[j]
    BY <2>3, <2>5, <2>6 DEF Explained
  <2>8. Key = [j \in 1..n |-> Key[j]]
    BY DEF Key
  <2>9. bits = [j \in 1..n |-> bits[j]]
    BY <2>4
  <2> QED
    BY <2>4, <2>7, <2>8, <2>9
<1> QED
  BY <1>1, DecoderDoesNotFallBehind, DecoderStaysInStep, PTL

LEMMA LostAreFinite ==
  ASSUME IntactInv
  PROVE  IsFiniteSet(removed)
<1>1. /\ numNodes \in Nat /\ removed \subseteq (0..(numNodes - 1)) \X (0..(numNodes - 1))
  BY DEF IntactInv, IntactShape, Intact
<1>2. IsFiniteSet(0..(numNodes - 1))
  <2>1. 0 \in Int /\ numNodes - 1 \in Int
    BY <1>1
  <2> QED
    BY <2>1, FS_Interval
<1>3. IsFiniteSet((0..(numNodes - 1)) \X (0..(numNodes - 1)))
  BY <1>2, FS_Product
<1>4. removed \in SUBSET ((0..(numNodes - 1)) \X (0..(numNodes - 1)))
  BY <1>1
<1> QED
  BY <1>3, <1>4, FS_Subset

(* Two lost connections would be counted                                   *)
LEMMA OneRemoved ==
  ASSUME IntactInv, Cardinality(removed) <= 1
  PROVE  \A e, f \in removed : e = f
<1>1. IsFiniteSet(removed)
  BY LostAreFinite
<1> SUFFICES ASSUME NEW e \in removed, NEW f \in removed, e # f
             PROVE  FALSE
  OBVIOUS
<1>2. Cardinality({e}) = 1 /\ IsFiniteSet({e})
  BY FS_Singleton
<1>3. Cardinality({e} \cup {f}) = 2
  BY <1>2, FS_AddElement
<1>4. Cardinality({e} \cup {f}) <= Cardinality(removed)
  <2>1. {e} \cup {f} \in SUBSET removed
    OBVIOUS
  <2> QED
    BY <1>1, <2>1, FS_Subset
<1>5. Cardinality(removed) \in Nat
  BY <1>1, FS_CardinalityType
<1> QED
  BY <1>3, <1>4, <1>5

(* One lost connection costs at most one bit: a 1 whose backedge was lost, *)
(* read as 0 (decoder.c:61-183, watermark.c:280).                          *)
THEOREM OneLossIsOneBit == KDSpec => []OneLossCostsOneBit
<1>1. KDInv /\ KDStepInv => OneLossCostsOneBit
  <2> SUFFICES ASSUME KDInv, KDStepInv, Finished, Cardinality(removed) <= 1
               PROVE  /\ Cardinality(WrongBits) <= 1
                      /\ \A j \in WrongBits :
                           Key[j] = 1 /\ \E e \in removed : e[2] < e[1] /\ (e[1] - e[2]) % 2 = 1
    BY DEF OneLossCostsOneBit
  <2>1. IntactInv
    BY DEF KDInv, Finished
  <2>2. \A e, f \in removed : e = f
    BY <2>1, OneRemoved
  <2>3. LossesApart
    <3> SUFFICES ASSUME NEW e \in removed, e[1] = e[1] - 1
                 PROVE  FALSE
      BY <2>2 DEF LossesApart
    <3>1. e[1] \in Nat
      BY <2>1 DEF IntactInv, IntactShape, Intact
    <3> QED
      BY <3>1
  <2>4. /\ D!Result = bits /\ bits \in Seq(Bit) /\ Len(bits) = n /\ n \in Nat \ {0}
    BY <2>3, ResultIsExplained
  <2>5. PICK pos : WasNumbered(pos) /\ \A j \in 1..n : Explained(pos, j)
    BY <2>3, ResultIsExplained
  <2>6. ASSUME NEW j \in WrongBits
        PROVE  /\ j \in 1..n /\ Key[j] = 1
               /\ \E v \in 1..(idx - 1) : pos[v] = j - 1 /\ LostOdd(v)
    <3>1. j \in 1..n /\ bits[j] # Key[j]
      BY <2>4 DEF WrongBits
    <3> QED
      BY <2>5, <3>1 DEF Explained
  <2>7. ASSUME NEW j \in WrongBits
        PROVE  \E e \in removed : e[2] < e[1] /\ (e[1] - e[2]) % 2 = 1
    <3>1. PICK v \in 1..(idx - 1) : LostOdd(v)
      BY <2>6
    <3>2. PICK y \in Nat : y < v /\ (v - y) % 2 = 1 /\ <<v, y>> \in removed
      BY <3>1 DEF LostOdd
    <3>3. <<v, y>>[1] = v /\ <<v, y>>[2] = y
      OBVIOUS
    <3> QED
      BY <3>2, <3>3
  <2>8. ASSUME NEW j \in WrongBits, NEW k \in WrongBits
        PROVE  j = k
    <3>1. PICK v \in 1..(idx - 1) : pos[v] = j - 1 /\ LostOdd(v)
      BY <2>6
    <3>2. PICK w \in 1..(idx - 1) : pos[w] = k - 1 /\ LostOdd(w)
      BY <2>6
    <3>3. PICK y \in Nat : <<v, y>> \in removed
      BY <3>1 DEF LostOdd
    <3>4. PICK z \in Nat : <<w, z>> \in removed
      BY <3>2 DEF LostOdd
    <3>5. v = w
      BY <2>2, <3>3, <3>4
    <3>6. j \in 1..n /\ k \in 1..n /\ j - 1 = k - 1
      BY <2>6, <3>1, <3>2, <3>5
    <3> QED
      BY <2>4, <3>6
  <2>9. Cardinality(WrongBits) <= 1
    <3>1. CASE WrongBits = {}
      BY <3>1, FS_EmptySet
    <3>2. CASE WrongBits # {}
      <4>1. PICK j : j \in WrongBits
        BY <3>2
      <4>2. WrongBits = {j}
        BY <2>8, <4>1
      <4>3. Cardinality({j}) = 1
        BY FS_Singleton
      <4> QED
        BY <4>2, <4>3
    <3> QED
      BY <3>1, <3>2
  <2> QED
    BY <2>6, <2>7, <2>9
<1> QED
  BY <1>1, DecoderDoesNotFallBehind, DecoderStaysInStep, PTL

-----------------------------------------------------------------------------
FirstBitInv == start \in FirstPositiveBitIndex(data)

LEMMA FirstBitStays == KDSpec => []FirstBitInv
<1>1. KDInit => FirstBitInv
  BY DEF KDInit, Init, FirstBitInv
<1>2. FirstBitInv /\ [KDNext]_allVars => FirstBitInv'
  <2> SUFFICES ASSUME FirstBitInv, [KDNext]_allVars
               PROVE  start' = start /\ data' = data
    BY DEF FirstBitInv, FirstPositiveBitIndex
  <2>1. CASE Encode
    BY <2>1 DEF Encode, Next, VisitMute, BuildWhile, BuildIf, BuildRepeat, OpenForward,
                VisitZero, Stop, ReadBit, vars
  <2>2. CASE Remove
    BY <2>2 DEF Remove
  <2>3. CASE Decode
    <3>1. UNCHANGED D!fixed
      BY <2>3 DEF Decode, D!Step, D!SkipMute, D!ReadForward, D!ReadBackedge, D!ReadLostBackedge,
                  D!ReadLostForward, D!AssumeForward, D!ReadZero, D!NextNode
    <3> QED
      BY <3>1 DEF D!fixed
  <2>4. CASE Correct \/ Rest \/ UNCHANGED allVars
    BY <2>4 DEF Correct, Rest, allVars, vars
  <2> QED
    BY <2>1, <2>2, <2>3, <2>4 DEF KDNext
<1> QED
  BY <1>1, <1>2, PTL DEF KDSpec

(* The bits that differ from the key, once they are back in its places,    *)
(* are those that were read wrong                                          *)
LEMMA BitsAreBack ==
  ASSUME NumBits \in Nat \ {0}, start \in 0..(NumBits - 1),
         \A j \in 0..(start - 1) : data[j] = 0, D!Result = bits, Len(bits) = NumBits - start,
         bits[1] = 1
  PROVE  /\ WithLeftZeros # NULL
         /\ \A k \in 0..(NumBits - 1) :
              WithLeftZeros[k] # data[k] =>
                k >= start /\ WithLeftZeros[k] = bits[k - start + 1]
<1>1. PICK m \in Nat \ {0} : m = NumBits - start /\ m = Len(bits)
  OBVIOUS
<1> DEFINE result == RemoveLeftZeros(SequenceFromBitArr(bits))
<1>2. DOMAIN result = Block(BytesFor(m)) /\ \A k \in 0..(m - 1) : result[k] = bits[k + 1]
  BY <1>1, ZerosAreRemoved
<1>3. PICK bytes \in Nat, size \in Nat \ {0} :
        /\ bytes = BytesFor(m) /\ size = ByteBits * bytes /\ Block(bytes) = 0..(size - 1)
        /\ m <= size
  <2>1. /\ BytesFor(m) \in Nat /\ ByteBits * BytesFor(m) - m \in 0..(ByteBits - 1)
        /\ ByteBits * BytesFor(m) \in Nat /\ Block(BytesFor(m)) = 0..(ByteBits * BytesFor(m) - 1)
    BY BytesForBits, BlockBits
  <2>2. PICK bytes \in Nat, size \in Nat : bytes = BytesFor(m) /\ size = ByteBits * bytes
    BY <2>1
  <2>3. size - m \in 0..(ByteBits - 1)
    BY <2>1, <2>2
  <2>4. m <= size /\ size # 0
    BY <2>3, ByteBitsAssumption
  <2> QED
    BY <2>1, <2>2, <2>4
<1>4. DOMAIN NULL = {}
  BY DEF NULL
<1>5. WithLeftZeros = IF start > 0 THEN AddLeftZeros(result, start) ELSE result
  <2>1. NumBits - Len(D!Result) = start
    BY <1>1
  <2> QED
    BY <2>1 DEF WithLeftZeros
<1> HIDE DEF result
<1>6. CASE start = 0
  <2>1. WithLeftZeros = result
    BY <1>5, <1>6
  <2>2. 0 \in DOMAIN result
    BY <1>2, <1>3
  <2>3. ASSUME NEW k \in 0..(NumBits - 1)
        PROVE  WithLeftZeros[k] = bits[k - start + 1]
    <3>1. k \in 0..(m - 1) /\ k - start + 1 = k + 1
      BY <1>1, <1>6
    <3> QED
      BY <1>2, <2>1, <3>1
  <2> QED
    BY <1>4, <1>6, <2>1, <2>2, <2>3
<1>7. CASE start > 0
  <2>1. WithLeftZeros = AddLeftZeros(result, start) /\ start \in Nat
    BY <1>5, <1>7
  <2>2. DOMAIN result = Block(bytes)
    BY <1>2, <1>3
  <2>3. /\ \A k \in 0..(start - 1) : ByteBits * bytes > 0 => WithLeftZeros[k] = 0
        /\ \A k \in Block(bytes) : WithLeftZeros[start + k] = result[k]
        /\ DOMAIN WithLeftZeros = Block(BytesFor(start + ByteBits * bytes))
    BY <2>1, <2>2, ZerosAreAdded
  <2>4. WithLeftZeros # NULL
    <3>1. start + size \in Nat /\ start + size > 0
      BY <1>3, <2>1
    <3>2. PICK b \in Nat : b = BytesFor(start + size) /\ start + size <= ByteBits * b
      <4>1. /\ BytesFor(start + size) \in Nat
            /\ ByteBits * BytesFor(start + size) - (start + size) \in 0..(ByteBits - 1)
            /\ ByteBits * BytesFor(start + size) \in Nat
        BY <3>1, BytesForBits, BlockBits
      <4>2. PICK b \in Nat, all \in Nat : b = BytesFor(start + size) /\ all = ByteBits * b
        BY <4>1
      <4>3. all - (start + size) \in 0..(ByteBits - 1)
        BY <4>1, <4>2
      <4> QED
        BY <3>1, <4>2, <4>3, ByteBitsAssumption
    <3>3. ByteBits * b \in Nat /\ Block(b) = 0..(ByteBits * b - 1)
      BY BlockBits
    <3>4. 0 \in DOMAIN WithLeftZeros
      BY <1>3, <2>3, <3>1, <3>2, <3>3
    <3> QED
      BY <1>4, <3>4
  <2>5. ASSUME NEW k \in 0..(NumBits - 1), k < start
        PROVE  WithLeftZeros[k] = data[k]
    <3>1. k \in 0..(start - 1)
      BY <2>1, <2>5
    <3>2. ByteBits * bytes > 0
      BY <1>3
    <3> QED
      BY <2>3, <3>1, <3>2
  <2>6. ASSUME NEW k \in 0..(NumBits - 1), k >= start
        PROVE  WithLeftZeros[k] = bits[k - start + 1]
    <3>1. PICK h \in Nat : h = k - start /\ start + h = k /\ h \in 0..(m - 1)
      <4>1. k - start \in Nat /\ k - start <= m - 1 /\ start + (k - start) = k
        BY <1>1, <2>1, <2>6
      <4> QED
        BY <4>1
    <3>2. h \in Block(bytes)
      BY <1>3, <3>1
    <3>3. WithLeftZeros[start + h] = result[h]
      BY <2>3, <3>2
    <3>4. result[h] = bits[h + 1]
      BY <1>2, <3>1
    <3> QED
      BY <3>1, <3>3, <3>4
  <2>7. \A k \in 0..(NumBits - 1) : k < start \/ k >= start
    BY <2>1
  <2> QED
    BY <2>4, <2>5, <2>6, <2>7
<1> QED
  BY <1>6, <1>7

LEMMA SymbolSizes ==
  \E w, count \in Nat \ {0}, parity \in Nat :
    /\ w = SymbolBits /\ count = DataSymbols /\ parity = ParitySymbols
    /\ (count + parity) * w = NumBits
<1>1. PICK w \in Nat \ {0}, parity \in Nat, all \in Nat \ {0} :
        /\ w = SymbolBits /\ parity = ParitySymbols /\ all = NumBits
        /\ all % w = 0 /\ all > w * parity
  BY KeyedDecodingAssumption, NumBitsAssumption, ByteBitsAssumption
<1>2. PICK q \in Nat : q = all \div w /\ all = w * q
  <2>1. all \div w \in Nat /\ all = w * (all \div w) + (all % w)
    BY SymbolsAndBits
  <2>2. w * (all \div w) \in Int
    BY <2>1
  <2>3. all = w * (all \div w)
    BY <1>1, <2>1, <2>2
  <2> QED
    BY <2>1, <2>3
<1>3. parity < q
  <2>1. w * parity < w * q
    BY <1>1, <1>2
  <2> QED
    BY <2>1, FewerSymbols
<1>4. PICK count \in Nat \ {0} : count = q - parity /\ count + parity = q
  BY <1>3
<1>5. count = DataSymbols
  BY <1>1, <1>2, <1>4 DEF DataSymbols
<1>6. (count + parity) * w = all
  BY <1>2, <1>4
<1> QED
  BY <1>1, <1>4, <1>5, <1>6

LEMMA KeyIsItsParity == \A k \in 0..(NumBits - 1) : KeyWithParity[k] = data[k]
<1>1. PICK w \in Nat \ {0}, count \in Nat \ {0}, parity \in Nat :
        /\ w = SymbolBits /\ count = DataSymbols /\ parity = ParitySymbols
        /\ (count + parity) * w = NumBits
  BY SymbolSizes
<1>2. \A s \in 0..(parity - 1) : \A j \in 0..(w - 1) : Parity[s][j] = data[(count + s) * w + j]
  BY <1>1 DEF Parity
<1>3. KeyWithParity = AppendRsCode(data, Parity, count, parity, w)
  BY <1>1 DEF KeyWithParity
<1>4. \A k \in 0..((count + parity) * w - 1) :
        AppendRsCode(data, Parity, count, parity, w)[k] = data[k]
  BY <1>2, RsCodeAppended
<1> QED
  BY <1>1, <1>3, <1>4

(* Each wrong bit of the word is that of the node of a lost backedge       *)
LEMMA WrongBitsAreLost ==
  ASSUME KDInv, KDStepInv, FirstBitInv, Finished, LossesApart, start \in 0..(NumBits - 1)
  PROVE  /\ WithLeftZeros # NULL
         /\ \E place : \A k \in 0..(NumBits - 1) :
              WithLeftZeros[k] # KeyWithParity[k] => \E e \in removed : place[e] = k
<1>1. /\ D!Result = bits /\ Len(bits) = n /\ n \in Nat \ {0} /\ n = NumBits - start
      /\ NumBits \in Nat \ {0} /\ start \in Nat
  BY ResultIsExplained, NumBitsAssumption DEF n
<1>2. PICK pos : WasNumbered(pos) /\ \A j \in 1..n : Explained(pos, j)
  BY ResultIsExplained
<1>3. data[start] = 1 /\ \A j \in 0..(start - 1) : data[j] = 0
  BY <1>1 DEF FirstBitInv, FirstPositiveBitIndex
<1>4. \A v \in 1..(idx - 1) : pos[v] \in 1..n
  <2>1. idx \in Nat
    BY DEF KDInv, Finished, IntactInv, IntactShape
  <2> QED
    BY <1>2, <2>1 DEF WasNumbered
<1>5. bits[1] = 1
  <2>1. Explained(pos, 1) /\ Key[1] = 1
    BY <1>1, <1>2 DEF Key
  <2>2. \A v \in 1..(idx - 1) : pos[v] # 1 - 1
    BY <1>1, <1>4
  <2> QED
    BY <2>1, <2>2 DEF Explained
<1>6. /\ WithLeftZeros # NULL
      /\ \A k \in 0..(NumBits - 1) :
           WithLeftZeros[k] # data[k] =>
             k >= start /\ WithLeftZeros[k] = bits[k - start + 1]
  BY <1>1, <1>3, <1>5, BitsAreBack
<1> DEFINE place == [e \in removed |-> start + pos[e[1]]]
<1>7. ASSUME NEW k \in 0..(NumBits - 1), WithLeftZeros[k] # KeyWithParity[k]
      PROVE  \E e \in removed : place[e] = k
  <2>1. WithLeftZeros[k] # data[k]
    BY <1>7, KeyIsItsParity
  <2>2. k >= start /\ WithLeftZeros[k] = bits[k - start + 1]
    BY <1>6, <2>1
  <2>3. PICK j \in 1..n : j = k - start + 1 /\ start + (j - 1) = k
    <3>1. k - start + 1 \in 1..n /\ start + ((k - start + 1) - 1) = k
      BY <1>1, <2>2
    <3> QED
      BY <3>1
  <2>4. Key[j] = data[k]
    <3>1. start + j - 1 = k
      BY <1>1, <2>3
    <3> QED
      BY <1>3, <2>3, <3>1 DEF Key
  <2>5. bits[j] # Key[j]
    BY <2>1, <2>2, <2>3, <2>4
  <2>6. PICK v \in 1..(idx - 1) : pos[v] = j - 1 /\ LostOdd(v)
    BY <1>2, <2>5 DEF Explained
  <2>7. PICK y \in Nat : <<v, y>> \in removed
    BY <2>6 DEF LostOdd
  <2>8. place[<<v, y>>] = start + pos[v]
    BY <2>7
  <2> QED
    BY <2>3, <2>6, <2>7, <2>8
<1> QED
  BY <1>6, <1>7

(* What Correct leaves is the payload                                      *)
LEMMA PayloadIsRepaired ==
  ASSUME KDInv, KDStepInv, FirstBitInv, Correct, LossesApart,
         Cardinality(removed) <= ParitySymbols \div 2
  PROVE  /\ recovered' # NULL
         /\ \A j \in 0..(DataSymbols * SymbolBits - 1) : recovered'[j] = data[j]
<1>1. PICK w \in Nat \ {0}, count \in Nat \ {0}, parity \in Nat :
        /\ w = SymbolBits /\ count = DataSymbols /\ parity = ParitySymbols
        /\ (count + parity) * w = NumBits
  BY SymbolSizes
<1>2. /\ count * w \in Nat /\ parity * w \in Nat /\ NumBits \in Nat
      /\ count * w <= NumBits
  <2>1. count * w \in Nat /\ parity * w \in Nat
    OBVIOUS
  <2>2. (count + parity) * w = count * w + parity * w
    OBVIOUS
  <2> QED
    BY <1>1, <2>1, <2>2
<1>3. Finished /\ start \in 0..(NumBits - 1)
  <2>1. Finished /\ start \in 0..(count * w - 1)
    BY <1>1 DEF Correct, Finished
  <2> QED
    BY <1>2, <2>1
<1>4. WithLeftZeros # NULL
  BY <1>3, WrongBitsAreLost
<1>5. PICK place : \A k \in 0..(NumBits - 1) :
        WithLeftZeros[k] # KeyWithParity[k] => \E e \in removed : place[e] = k
  BY <1>3, WrongBitsAreLost
<1>6. recovered' \in RemoveRsCode(WithLeftZeros, KeyWithParity, count, parity, w)
  BY <1>1, <1>4 DEF Correct
<1>7. IsFiniteSet(removed)
  BY <1>3, LostAreFinite DEF KDInv, Finished
<1>8. Cardinality(removed) <= parity \div 2
  BY <1>1
<1>9. \A k \in 0..((count + parity) * w - 1) :
        WithLeftZeros[k] # KeyWithParity[k] => \E e \in removed : place[e] = k
  BY <1>1, <1>5
<1>10. \A corrected \in RemoveRsCode(WithLeftZeros, KeyWithParity, count, parity, w) :
         /\ corrected # NULL /\ DOMAIN corrected = Block(BytesFor(count * w))
         /\ \A k \in 0..(count * w - 1) : corrected[k] = KeyWithParity[k]
  BY <1>7, <1>8, <1>9, FewFaultsAreCorrected
<1>11. /\ recovered' # NULL
       /\ \A k \in 0..(count * w - 1) : recovered'[k] = KeyWithParity[k]
  BY <1>6, <1>10
<1>12. \A k \in 0..(count * w - 1) : KeyWithParity[k] = data[k]
  <2>1. \A k \in 0..(count * w - 1) : k \in 0..(NumBits - 1)
    BY <1>2
  <2> QED
    BY <2>1, KeyIsItsParity
<1> QED
  BY <1>1, <1>11, <1>12

(* Losses that do not hide each other cost nothing, as long as they are no *)
(* more than half the parity symbols: the payload of a key with its parity *)
(* comes out as it went in, for symbols and bytes of every size and        *)
(* whatever zeros the key starts with (decoder.c:236-285).                 *)
THEOREM PayloadsAreRepaired == KDSpec => []LossesAreRepaired
<1>1. KDInit => LossesAreRepaired
  BY DEF KDInit, LossesAreRepaired
<1>2. KDInv /\ KDStepInv /\ FirstBitInv /\ LossesAreRepaired /\ [KDNext]_allVars
        => LossesAreRepaired'
  <2> SUFFICES ASSUME KDInv, KDStepInv, FirstBitInv, LossesAreRepaired, [KDNext]_allVars
               PROVE  LossesAreRepaired'
    OBVIOUS
  <2>1. CASE Encode
    BY <2>1 DEF Encode, LossesAreRepaired
  <2>2. CASE Remove
    BY <2>2 DEF Remove, LossesAreRepaired
  <2>3. CASE Decode
    BY <2>3 DEF Decode, LossesAreRepaired
  <2>4. CASE Correct
    <3>1. data' = data /\ edges' = edges /\ removed' = removed
      BY <2>4 DEF Correct, vars
    <3>2. LossesApart' = LossesApart
      BY <3>1 DEF LossesApart
    <3> SUFFICES ASSUME LossesApart, Cardinality(removed) <= ParitySymbols \div 2
                 PROVE  /\ recovered' # NULL
                        /\ \A j \in 0..(DataSymbols * SymbolBits - 1) : recovered'[j] = data'[j]
      BY <3>1, <3>2 DEF LossesAreRepaired
    <3> QED
      BY <2>4, <3>1, PayloadIsRepaired
  <2>5. CASE Rest \/ UNCHANGED allVars
    <3>1. /\ data' = data /\ edges' = edges /\ removed' = removed
          /\ phase' = phase /\ recovered' = recovered
      BY <2>5 DEF Rest, allVars, vars
    <3>2. LossesApart' = LossesApart
      BY <3>1 DEF LossesApart
    <3> QED
      BY <3>1, <3>2 DEF LossesAreRepaired
  <2> QED
    BY <2>1, <2>2, <2>3, <2>4, <2>5 DEF KDNext
<1> QED
  BY <1>1, <1>2, DecoderDoesNotFallBehind, DecoderStaysInStep, FirstBitStays, PTL DEF KDSpec

=============================================================================
