---------------------------- MODULE KeyCheckProofs ----------------------------
(***************************************************************************)
(* Proofs about the checker and the analysis, for keys of every length,    *)
(* whatever connections the graph has lost and whatever key it is compared *)
(* with.                                                                   *)
(*                                                                         *)
(* The stacks of the two loops are not those of the encoder: a backedge    *)
(* that is lost, or that does not agree with the key, pops nothing.  But   *)
(* they never pop more.  What they pop lies in a repeat block of the graph *)
(* as it was encoded, and no backedge leads into one from behind it.  So a *)
(* node that a backedge still leads to is where its position says.         *)
(***************************************************************************)
EXTENDS KeyCheck, EncoderProofs, RsFramingProofs, FiniteSetTheorems, SequenceTheorems

(* The graph as it was encoded *)
Intact == edges \cup removed

WasForward(v) == <<v, v + 2>> \in Intact
WasBack(u, v) == v < u /\ <<u, v>> \in Intact
WasRepeat(u, v) == WasBack(u, v) /\ ~WasForward(u - 1)

(* The encoder stops with the path complete but for the nodes inside while *)
(* blocks, and with blocks that nest                                       *)
IntactShape ==
  /\ numNodes \in Nat /\ idx \in Nat \ {0}
  /\ numNodes - 2 = idx + (IF WasForward(idx - 1) \/ WasForward(idx - 2) THEN 1 ELSE 0)
  /\ Intact \subseteq (0..(numNodes - 1)) \X (0..(numNodes - 1))
  /\ \A e \in Intact : \/ e[2] = e[1] + 1
                       \/ e[1] < idx /\ e[2] = e[1] + 2
                       \/ e[1] < idx /\ e[2] < e[1]
  /\ \A e \in removed : e[2] # e[1] + 1

IntactForward ==
  /\ ~WasForward(0)
  /\ \A v \in Nat : WasForward(v) => ~WasForward(v + 1) /\ ~WasForward(v + 2)

IntactPath ==
  \A v \in 0..(numNodes - 2) :
    <<v, v + 1>> \notin Intact <=> WasForward(v - 1) /\ WasBack(v, v - 1)

IntactBlocks ==
  /\ \A u, v \in Nat : WasBack(u, v) =>
       /\ ~WasForward(u) /\ ~WasForward(v - 1)
       /\ WasForward(u - 1) => v = u - 1
  /\ \A u, v, x, y \in Nat : WasBack(u, v) /\ WasBack(x, y) =>
       /\ u = x => v = y
       /\ u < x => y <= v \/ y > u
       /\ u < x /\ WasRepeat(u, v) /\ WasRepeat(x, y) => v # y

(* A mute node was added for every forward edge, and there are at most     *)
(* half as many as bits                                                    *)
ForwardNodes == {v \in 0..(idx - 1) : WasForward(v)}
IntactCount ==
  /\ n \in Nat \ {0}
  /\ Cardinality(ForwardNodes) = numNodes - 2 - n
  /\ 2 * (numNodes - 2 - n) <= n

IntactInv == IntactShape /\ IntactForward /\ IntactPath /\ IntactBlocks /\ IntactCount

-----------------------------------------------------------------------------
Own(v) == OwnStack(v)
Other(v) == OtherStack(OwnStack(v))

(* A node that the loop has gone past and that no repeat block has         *)
(* enclosed since                                                          *)
Enclosed(w) == \E u, v \in Nat : WasRepeat(u, v) /\ u < cIdx /\ v <= w /\ w < u
Alive(w) == w < cIdx /\ position[w] # C!Unset /\ ~Enclosed(w)

(* It is in its stack, at its position, and what was saved with it is not  *)
(* more than the other stack holds                                         *)
Holds(w) ==
  /\ position[w] < cStack[Own(w)].n
  /\ cStack[Own(w)].mem[position[w]] = w
  /\ cHistory[w] <= cStack[Other(w)].n

(* Cutting both stacks at the later node leaves the earlier one in its own *)
Before(w, v) ==
  IF Own(w) = Own(v)
  THEN position[w] < position[v] /\ cHistory[w] <= cHistory[v]
  ELSE position[w] < cHistory[v] /\ cHistory[w] <= position[v]

WalkTyped ==
  /\ cIdx \in 1..(numNodes - 1)
  /\ cStack \in [StackNames -> [mem : [0..(C!nBits - 1) -> Nat], n : Nat]]
  /\ position \in [C!Nodes -> Nat] /\ cHistory \in [C!Nodes -> Nat]

WalkBound ==
  /\ 2 * cStack["odd"].n <= cIdx + 1
  /\ 2 * cStack["even"].n <= cIdx

(* The node inside a while block is never visited *)
WalkOnPath == cIdx <= numNodes - 2 => <<cIdx, cIdx + 1>> \in edges

WalkStacks ==
  /\ \A w \in C!Nodes : w >= cIdx => position[w] = C!Unset
  /\ \A w \in C!Nodes : Alive(w) => Holds(w)
  /\ \A w, v \in C!Nodes : w < v /\ Alive(w) /\ Alive(v) => Before(w, v)

WalkInv == WalkTyped /\ WalkBound /\ WalkOnPath /\ WalkStacks

(* The key that the graph is checked for has no fewer bits than the one    *)
(* that was encoded                                                        *)
Room == C!nBits \in Nat /\ n <= C!nBits

ClaimTyped ==
  /\ claim \in [0..(NumBits - 1) -> Bit] /\ claimStart \in -1..(NumBits - 1)
  /\ cI \in Nat

Fresh ==
  /\ EncoderInv /\ removed = {} /\ ~Forward(0) /\ cIdx = 1
  /\ Cardinality(ForwardNodes) = numNodes - 2 - n

KCInv ==
  /\ ClaimTyped
  /\ phase = "encode" => Fresh
  /\ phase # "encode" => IntactInv
  /\ phase \in {"check", "analyse"} => WalkInv
  /\ (phase = "check" /\ verdict = "none") \/ phase = "analyse" => Room

-----------------------------------------------------------------------------
(* A node is added to the graph for each forward edge                      *)
LEMMA CountStep ==
  ASSUME IInv, Next, removed = {}, removed' = {}, ~Forward(0),
         Cardinality(ForwardNodes) = numNodes - 2 - n
  PROVE  ~Forward(0)' /\ (Cardinality(ForwardNodes) = numNodes - 2 - n)'
<1>1. PICK node \in Nat \ {0} : node = idx
  BY EdgesBehind
<1>2. /\ n \in Int /\ numNodes \in Int
  BY LengthOfKey DEF IInv, TypeOK
<1>3. ForwardNodes = {v \in 0..(node - 1) : Forward(v)}
  BY <1>1 DEF ForwardNodes, WasForward, Intact, Forward
<1>4. ForwardNodes' = {v \in 0..(idx' - 1) : Forward(v)'}
  BY DEF ForwardNodes, WasForward, Intact, Forward
<1>5. IsFiniteSet(ForwardNodes)
  <2>1. ForwardNodes \in SUBSET (0..(node - 1)) /\ node - 1 \in Int
    BY <1>1, <1>3
  <2>2. IsFiniteSet(0..(node - 1))
    BY <2>1, FS_Interval
  <2> QED
    BY <2>1, <2>2, FS_Subset
<1>6. \A v \in Int : Forward(v) => v \in 0..(node - 1)
  BY <1>1, EdgesBehind
<1>7. CASE /\ \A v \in Int : Forward(v)' <=> Forward(v)
           /\ numNodes' = numNodes /\ idx' \in {idx, idx + 1}
  <2>1. ForwardNodes' = ForwardNodes
    BY <1>1, <1>3, <1>4, <1>6, <1>7
  <2> QED
    BY <1>7, <2>1, ForwardStep
<1>8. CASE /\ \A v \in Int : Forward(v)' <=> Forward(v) \/ v = idx
           /\ numNodes' = numNodes + 1 /\ idx' = idx + 1
  <2>1. ForwardNodes' = ForwardNodes \cup {node} /\ node \notin ForwardNodes
    BY <1>1, <1>3, <1>4, <1>6, <1>8
  <2>2. Cardinality(ForwardNodes') = Cardinality(ForwardNodes) + 1
    BY <1>5, <2>1, FS_AddElement
  <2>3. ~Forward(0)'
    BY <1>1, <1>8
  <2> QED
    BY <1>2, <1>8, <2>2, <2>3, ForwardStep
<1> QED
  BY <1>7, <1>8, ForwardStep

(* What the encoder hands over                                             *)
LEMMA EncodedIsIntact ==
  ASSUME EncoderInv, Encoded, ~Forward(0), removed = {},
         Cardinality(ForwardNodes) = numNodes - 2 - n,
         removed' \subseteq NonHamiltonianEdges(edges),
         Intact' = edges, UNCHANGED <<data, start, i, idx, numNodes>>
  PROVE  IntactInv'
<1>1. /\ idx \in Nat \ {0} /\ numNodes \in Nat
      /\ i - start = n /\ n \in Nat \ {0} /\ i \in Int /\ start \in Int
      /\ numNodes - 2 = idx + (IF Forward(idx - 1) \/ Forward(idx - 2) THEN 1 ELSE 0)
      /\ edges \subseteq (0..(numNodes - 1)) \X (0..(numNodes - 1))
  BY LastNodes, LengthOfKey DEF EncoderInv, IInv, TypeOK
<1>2. n' = n /\ idx' = idx /\ numNodes' = numNodes
  BY DEF n
<1>3. /\ \A v : WasForward(v)' <=> Forward(v)
      /\ \A u, v : WasBack(u, v)' <=> Back(u, v)
      /\ \A u, v : WasRepeat(u, v)' <=> Repeats(u, v)
  BY DEF WasForward, WasBack, WasRepeat, Forward, Back, Repeats
<1>4. IntactShape'
  <2>1. \A e \in edges : \/ e[2] = e[1] + 1
                         \/ e[1] < idx /\ e[2] = e[1] + 2
                         \/ e[1] < idx /\ e[2] < e[1]
    BY DEF EncoderInv, IInv, Shape
  <2>2. \A e \in removed' : e[2] # e[1] + 1
    BY DEF NonHamiltonianEdges
  <2>3. numNodes' - 2 = idx'
          + (IF Forward(idx - 1) \/ Forward(idx - 2) THEN 1 ELSE 0)
    BY <1>1, <1>2
  <2>4. /\ (WasForward(idx - 1))' <=> Forward(idx - 1)
        /\ (WasForward(idx - 2))' <=> Forward(idx - 2)
    BY <1>2 DEF WasForward, Forward
  <2> QED
    BY <1>1, <1>2, <2>1, <2>2, <2>3, <2>4 DEF IntactShape
<1>5. IntactForward'
  BY <1>3 DEF EncoderInv, IInv, Apart, IntactForward
<1>6. IntactPath'
  BY <1>2, <1>3 DEF EncoderInv, BlocksInv, NestInv, OnPath, IntactPath
<1>7. IntactBlocks'
  BY <1>3 DEF EncoderInv, BlocksInv, NestInv, BackedgeEnds, Nested, IntactBlocks
<1>8. IntactCount'
  <2>1. ForwardNodes' = ForwardNodes
    BY <1>2, <1>3 DEF ForwardNodes, WasForward, Intact, Forward
  <2>2. 2 * (numNodes - 2 - n) <= n
    <3>1. 2 * (idx - n) + (IF Forward(idx - 1) THEN 1 ELSE IF Forward(idx - 2) THEN 2 ELSE 0)
            <= n - 1
      BY <1>1 DEF EncoderInv, IInv, MuteCount
    <3>2. CASE Forward(idx - 1)
      BY <1>1, <3>1, <3>2
    <3>3. CASE ~Forward(idx - 1) /\ Forward(idx - 2)
      BY <1>1, <3>1, <3>3
    <3>4. CASE ~Forward(idx - 1) /\ ~Forward(idx - 2)
      BY <1>1, <3>1, <3>4
    <3> QED
      BY <3>2, <3>3, <3>4
  <2> QED
    BY <1>1, <1>2, <2>1, <2>2 DEF IntactCount
<1> QED
  BY <1>4, <1>5, <1>6, <1>7, <1>8 DEF IntactInv

-----------------------------------------------------------------------------
(* The path is never lost, and what is there was encoded                   *)
LEMMA PathKept ==
  ASSUME IntactInv
  PROVE  /\ edges \subseteq Intact
         /\ \A v : <<v, v + 1>> \in Intact => <<v, v + 1>> \in edges
         /\ \A v \in 0..(numNodes - 2) :
              <<v, v + 1>> \notin edges => WasForward(v - 1) /\ WasBack(v, v - 1)
<1>1. edges \subseteq Intact
  BY DEF Intact
<1>2. \A v : <<v, v + 1>> \in Intact => <<v, v + 1>> \in edges
  <2>1. \A v : <<v, v + 1>> \notin removed
    BY DEF IntactInv, IntactShape
  <2> QED
    BY <2>1 DEF Intact
<1> QED
  BY <1>1, <1>2 DEF IntactInv, IntactPath

Statuses == {"mute", "forward0", "forward1", "back0", "back1", "zero"}
BackStatus == C!Status \in {"back0", "back1"}
ForwardStatus == C!Status \in {"forward0", "forward1"}

(* A node whose successors are those of the path only is followed          *)
LEMMA HamiltonianNode ==
  ASSUME IntactInv, NEW v \in Int, C!OnlyHamiltonian(v)
  PROVE  v = numNodes - 1 \/ <<v, v + 1>> \in edges
<1>1. v # numNodes - 1 => C!Successors(edges, v) = {v + 1}
  BY DEF C!OnlyHamiltonian
<1>2. ASSUME C!Successors(edges, v) = {v + 1}
      PROVE  <<v, v + 1>> \in edges
  <2>1. PICK e \in edges : e[1] = v /\ e[2] = v + 1
    BY <1>2 DEF C!Successors
  <2>2. e \in Intact
    BY PathKept
  <2>3. e = <<e[1], e[2]>>
    BY <2>2 DEF IntactInv, IntactShape
  <2> QED
    BY <2>1, <2>3
<1> QED
  BY <1>1, <1>2

(* What the status of a node tells of the graph: none says of a node that  *)
(* it is passed over before the next when that one is off the path.        *)
LEMMA StatusTells ==
  ASSUME IntactInv, cIdx \in Nat \ {0}, cIdx < numNodes - 2
  PROVE  /\ C!Status \in Statuses
         /\ C!Status = "mute" => cIdx > 1 /\ <<cIdx - 2, cIdx>> \in edges
         /\ BackStatus => \E w \in 0..(cIdx - 1) : <<cIdx, w>> \in edges
         /\ C!Status = "zero" => <<cIdx + 1, cIdx + 2>> \in edges
         /\ ForwardStatus =>
              \/ WasForward(cIdx)
              \/ cIdx + 2 = numNodes - 1
              \/ <<cIdx + 2, cIdx + 3>> \in edges
<1>1. numNodes \in Nat /\ cIdx \in Nat
  BY DEF IntactInv, IntactShape
<1> DEFINE mute == cIdx > 1 /\ <<cIdx - 2, cIdx>> \in edges
           back == {w \in 0..(cIdx - 1) : <<cIdx, w>> \in edges}
           odd == \E w \in back : (cIdx - w) % 2 = 1
           fwd == <<cIdx, cIdx + 2>> \in edges
           path == <<cIdx + 1, cIdx + 2>> \in edges
           last == C!LastFourOnlyHamiltonian /\ cIdx = numNodes - 4 /\ C!bit = 1
           looks == C!LooksLikeIf
<1>2. C!Status =
        IF mute THEN "mute"
        ELSE IF fwd THEN IF path THEN "forward0" ELSE "forward1"
        ELSE IF odd THEN "back1"
        ELSE IF back # {} THEN "back0"
        ELSE IF ~path THEN "forward1"
        ELSE IF last THEN "forward0"
        ELSE IF looks THEN "forward0"
        ELSE "zero"
  BY DEF C!Status, C!Connected, C!BackedgeTargets
<1>3. fwd => WasForward(cIdx)
  BY PathKept DEF WasForward
<1>4. ~path => WasForward(cIdx)
  <2>1. cIdx + 1 \in 0..(numNodes - 2) /\ (cIdx + 1) + 1 = cIdx + 2 /\ (cIdx + 1) - 1 = cIdx
    BY <1>1
  <2>2. <<cIdx + 1, (cIdx + 1) + 1>> \notin edges => WasForward((cIdx + 1) - 1)
    BY <2>1, PathKept
  <2> QED
    BY <2>1, <2>2
<1>5. ASSUME C!OnlyHamiltonian(cIdx + 2)
      PROVE  cIdx + 2 = numNodes - 1 \/ <<cIdx + 2, cIdx + 3>> \in edges
  <2>1. cIdx + 2 \in Int /\ (cIdx + 2) + 1 = cIdx + 3
    BY <1>1
  <2> QED
    BY <1>5, <2>1, HamiltonianNode
<1>6. last => C!OnlyHamiltonian(cIdx + 2)
  <2>1. cIdx = numNodes - 4 => cIdx + 2 \in (numNodes - 4)..(numNodes - 1)
    BY <1>1
  <2> QED
    BY <2>1 DEF C!LastFourOnlyHamiltonian
<1>7. looks => C!OnlyHamiltonian(cIdx + 2)
  <2>1. cIdx + 2 \in cIdx..(cIdx + 2)
    BY <1>1
  <2> QED
    BY <2>1 DEF C!LooksLikeIf
<1>8. odd => back # {}
  OBVIOUS
<1>9. back # {} => \E w \in 0..(cIdx - 1) : <<cIdx, w>> \in edges
  OBVIOUS
<1> HIDE DEF mute, back, odd, fwd, path, last, looks
<1>10. /\ C!Status \in Statuses
       /\ C!Status = "mute" => mute
       /\ BackStatus => back # {}
       /\ C!Status = "zero" => path
       /\ ForwardStatus => fwd \/ ~path \/ last \/ looks
  BY <1>2, <1>8 DEF Statuses, BackStatus, ForwardStatus
<1> QED
  BY <1>3, <1>4, <1>5, <1>6, <1>7, <1>9, <1>10 DEF mute, path

-----------------------------------------------------------------------------
(* The two loops as one: what they do with the nodes and the stacks.       *)
PushVisited ==
  /\ position' = [position EXCEPT ![cIdx] = cStack[Own(cIdx)].n]
  /\ cStack' = [cStack EXCEPT ![Own(cIdx)] = StackPush(@, cIdx)]
  /\ cHistory' = [cHistory EXCEPT ![cIdx] = cStack[Other(cIdx)].n]

PopVisited(w) ==
  /\ cStack' = [cStack EXCEPT ![C!Possible] = StackPopUntil(@, position[w]),
                              ![OtherStack(C!Possible)] = StackPopUntil(@, cHistory[w])]
  /\ UNCHANGED <<cHistory, position>>

PassOne == ~ForwardStatus /\ PushVisited /\ cIdx' = cIdx + 1
PassTwo == ForwardStatus /\ PushVisited /\ cIdx' = cIdx + 2
GoBack ==
  /\ BackStatus
  /\ \E w \in BackedgeTargets(edges, cIdx) : C!BackedgeAgrees(w) /\ PopVisited(w)
  /\ cIdx' = cIdx + 1

Walk == cIdx < numNodes - 2 /\ (PassOne \/ PassTwo \/ GoBack)

Given == <<data, start, i, idx, removed, edges, numNodes, claim, claimStart>>

(* The loop of watermark_check (checker.c:86-166) *)
CheckMove ==
  /\ cIdx < numNodes - 2 /\ verdict' = "none"
  /\ \/ C!Status = "mute" /\ PassOne /\ cI' = cI
     \/ C!Status = "zero" /\ C!bit = 0 /\ PassOne /\ cI' = cI + 1
     \/ GoBack /\ cI' = cI + 1
     \/ /\ C!ForwardAgrees /\ PassTwo
        /\ cI' = IF cI # NumBits - 1 THEN cI + 2 ELSE cI + 1

CheckEnd ==
  /\ UNCHANGED <<cIdx, cI, cStack, cHistory, position>>
  /\ \/ cIdx < numNodes - 2 /\ C!Mismatch /\ verdict' = "reject"
     \/ ~(cIdx < numNodes - 2) /\ verdict' = "accept"

LEMMA CheckMoves ==
  ASSUME Check
  PROVE  /\ UNCHANGED Given /\ phase = "check" /\ phase' = "check"
         /\ verdict = "none" /\ (CheckMove \/ CheckEnd)
<1>1. /\ UNCHANGED Given /\ phase = "check" /\ phase' = "check" /\ verdict = "none"
  BY DEF Check, Given, C!Step, C!PassMute, C!PassZero, C!PassBackedge, C!PassForward,
         C!Reject, C!Accept, C!Goto, C!fixed, C!Looping
<1>2. C!SaveStacks => PushVisited
  BY DEF C!SaveStacks, PushVisited, Own, Other, C!OwnStack, OwnStack, C!OtherStack,
         OtherStack, C!StackPush, StackPush, C!IsOdd, IsOdd
<1>3. CASE C!PassMute
  BY <1>1, <1>2, <1>3 DEF C!PassMute, C!Goto, C!Looping, C!maxNumNodes, CheckMove, PassOne,
                          ForwardStatus
<1>4. CASE C!PassZero
  BY <1>1, <1>2, <1>4 DEF C!PassZero, C!Goto, C!Looping, C!maxNumNodes, CheckMove, PassOne,
                          ForwardStatus
<1>5. CASE C!PassForward
  BY <1>1, <1>2, <1>5 DEF C!PassForward, C!Goto, C!Looping, C!maxNumNodes, CheckMove,
                          PassTwo, ForwardStatus
<1>6. CASE C!PassBackedge
  <2>1. PICK w \in C!BackedgeTargets(edges, cIdx) :
          /\ C!BackedgeAgrees(w)
          /\ cStack' = [cStack EXCEPT
               ![C!Possible] = C!StackPopUntil(@, position[w]),
               ![C!OtherStack(C!Possible)] = C!StackPopUntil(@, cHistory[w])]
    BY <1>6 DEF C!PassBackedge
  <2>2. /\ UNCHANGED <<cHistory, position>> /\ BackStatus
        /\ cIdx' = cIdx + 1 /\ cI' = cI + 1 /\ verdict' = verdict /\ cIdx < numNodes - 2
    BY <1>6 DEF C!PassBackedge, C!Goto, C!Looping, C!maxNumNodes, BackStatus
  <2>3. PopVisited(w)
    BY <2>1, <2>2 DEF PopVisited, C!StackPopUntil, StackPopUntil, C!OtherStack, OtherStack
  <2>4. w \in BackedgeTargets(edges, cIdx)
    BY <2>1 DEF C!BackedgeTargets, BackedgeTargets, C!Connected, Connected
  <2>5. GoBack
    BY <2>1, <2>2, <2>3, <2>4 DEF GoBack
  <2> QED
    BY <1>1, <2>2, <2>5 DEF CheckMove
<1>7. CASE C!Reject
  BY <1>1, <1>7 DEF C!Reject, C!Looping, C!maxNumNodes, CheckEnd
<1>8. CASE C!Accept
  BY <1>1, <1>8 DEF C!Accept, C!Looping, C!maxNumNodes, CheckEnd
<1> QED
  BY <1>3, <1>4, <1>5, <1>6, <1>7, <1>8 DEF Check, C!Step

LEMMA CheckWalks ==
  ASSUME Check
  PROVE  /\ UNCHANGED Given /\ phase = "check" /\ phase' = "check"
         /\ verdict = "none" /\ cI' \in {cI, cI + 1, cI + 2}
         /\ Walk \/ UNCHANGED <<cIdx, cStack, cHistory, position>>
<1>1. CASE CheckMove
  BY <1>1, CheckMoves DEF CheckMove, Walk
<1>2. CASE CheckEnd
  BY <1>2, CheckMoves DEF CheckEnd
<1> QED
  BY <1>1, <1>2, CheckMoves

(* The analysis reads the nodes as the checker does                        *)
LEMMA SameStatus ==
  /\ A!Status = C!Status /\ A!Possible = C!Possible /\ A!bit = C!bit
  /\ \A w : A!BackedgeAgrees(w) <=> C!BackedgeAgrees(w)
<1>1. A!bit = C!bit
  BY DEF A!bit, A!KeyBit, C!bit, C!KeyBit
<1>2. A!Possible = C!Possible
  BY <1>1 DEF A!Possible, C!Possible, A!PossibleBackedges, C!PossibleBackedges,
              A!IsOdd, C!IsOdd
<1>3. \A v : A!OnlyHamiltonian(v) <=> C!OnlyHamiltonian(v)
  <2>1. /\ \A v : A!Successors(edges, v) = C!Successors(edges, v)
        /\ \A v : A!Predecessors(edges, v) = C!Predecessors(edges, v)
    BY DEF A!Successors, C!Successors, A!Predecessors, C!Predecessors
  <2>2. ASSUME NEW v
        PROVE  A!OnlyHamiltonian(v) <=> C!OnlyHamiltonian(v)
    <3>1. /\ A!Successors(edges, v) = C!Successors(edges, v)
          /\ A!Predecessors(edges, v) = C!Predecessors(edges, v)
      BY <2>1
    <3> QED
      BY ONLY <3>1 DEF A!OnlyHamiltonian, C!OnlyHamiltonian, A!Cardinality, C!Cardinality
  <2> QED
    BY <2>2
<1>4. A!CanHaveBackedge <=> C!CanHaveBackedge
  BY <1>2 DEF A!CanHaveBackedge, C!CanHaveBackedge, A!HasPossibleBackedge,
              C!HasPossibleBackedge, A!HasBackedge, C!HasBackedge, A!Connected,
              C!Connected, A!BackedgeTargets, C!BackedgeTargets
<1>5. /\ A!LooksLikeIf <=> C!LooksLikeIf
      /\ A!LastFourOnlyHamiltonian <=> C!LastFourOnlyHamiltonian
  BY <1>1, <1>3, <1>4 DEF A!LooksLikeIf, C!LooksLikeIf, A!LastFourOnlyHamiltonian,
                          C!LastFourOnlyHamiltonian
<1>6. A!Status = C!Status
  BY <1>1, <1>5 DEF A!Status, C!Status, A!Connected, C!Connected, A!BackedgeTargets,
                    C!BackedgeTargets
<1>7. \A w : A!BackedgeAgrees(w) <=> C!BackedgeAgrees(w)
  BY <1>1, <1>2 DEF A!BackedgeAgrees, C!BackedgeAgrees
<1> QED
  BY <1>1, <1>2, <1>6, <1>7

(* The loop of watermark_check_analysis (checker.c:276-339)                *)
AnalysisMove ==
  \/ C!Status = "mute" /\ PassOne /\ cI' = cI /\ marks' = marks
  \/ C!Status = "zero" /\ PassOne /\ cI' = cI + 1
       /\ marks' = Append(marks, A!Mark(C!bit = 0, 0))
  \/ GoBack /\ cI' = cI + 1 /\ marks' = Append(marks, A!Mark(TRUE, C!bit))
  \/ /\ BackStatus /\ \A w \in BackedgeTargets(edges, cIdx) : ~C!BackedgeAgrees(w)
     /\ PassOne /\ cI' = cI + 1 /\ marks' = Append(marks, "x")
  \/ /\ cI = NumBits - 1 /\ PassTwo
     /\ cI' = cI + 1 /\ marks' = Append(marks, A!Mark(C!bit = 1, 1))
  \/ /\ cI # NumBits - 1 /\ PassTwo /\ cI' = cI + 2
     /\ \E next \in IF cI + 1 < NumBits THEN {claim[cI + 1]} ELSE {0, 1} :
          marks' = marks \o <<A!Mark(C!bit = 1, 1), A!Mark(next = A!InnerBit, A!InnerBit)>>

LEMMA AnalysisMoves ==
  ASSUME Analyse
  PROVE  /\ UNCHANGED Given /\ phase = "analyse" /\ phase' = "analyse"
         /\ cIdx < numNodes - 2 /\ verdict' = verdict /\ AnalysisMove
<1>1. /\ UNCHANGED Given /\ phase = "analyse" /\ phase' = "analyse" /\ verdict' = verdict
  BY DEF Analyse, Given, A!AnalysisStep, A!AnalyseMute, A!AnalyseZero, A!AnalyseBackedge,
         A!AnalyseWrongBackedge, A!AnalyseForward, A!Goto, A!fixed
<1>2. cIdx < numNodes - 2
  BY DEF Analyse, A!AnalysisStep, A!AnalyseMute, A!AnalyseZero, A!AnalyseBackedge,
         A!AnalyseWrongBackedge, A!AnalyseForward, A!Looping, A!maxNumNodes
<1>3. A!SaveStacks => PushVisited
  BY DEF A!SaveStacks, PushVisited, Own, Other, A!OwnStack, OwnStack, A!OtherStack,
         OtherStack, A!StackPush, StackPush, A!IsOdd, IsOdd
<1>4. A!BackedgeTargets(edges, cIdx) = BackedgeTargets(edges, cIdx)
  BY DEF A!BackedgeTargets, BackedgeTargets, A!Connected, Connected
<1>5. ASSUME A!AnalyseMute
      PROVE  AnalysisMove
  BY <1>3, <1>5, SameStatus DEF A!AnalyseMute, A!Goto, AnalysisMove, PassOne, ForwardStatus
<1>6. ASSUME A!AnalyseZero
      PROVE  AnalysisMove
  BY <1>3, <1>6, SameStatus DEF A!AnalyseZero, A!Goto, AnalysisMove, PassOne, ForwardStatus
<1>7. ASSUME A!AnalyseForward
      PROVE  AnalysisMove
  <2>1. ForwardStatus /\ PassTwo
    BY <1>3, <1>7, SameStatus DEF A!AnalyseForward, A!Goto, PassTwo, ForwardStatus
  <2>2. CASE cI = NumBits - 1
    BY <1>7, <2>1, <2>2, SameStatus DEF A!AnalyseForward, A!Goto, AnalysisMove
  <2>3. CASE cI # NumBits - 1
    BY <1>7, <2>1, <2>3, SameStatus DEF A!AnalyseForward, A!Goto, AnalysisMove
  <2> QED
    BY <2>2, <2>3
<1>8. ASSUME A!AnalyseBackedge
      PROVE  AnalysisMove
  <2>1. PICK w \in BackedgeTargets(edges, cIdx) :
          /\ A!BackedgeAgrees(w)
          /\ marks' = Append(marks, A!Mark(TRUE, A!bit))
          /\ cStack' = [cStack EXCEPT
               ![A!Possible] = A!StackPopUntil(@, position[w]),
               ![A!OtherStack(A!Possible)] = A!StackPopUntil(@, cHistory[w])]
    BY <1>4, <1>8 DEF A!AnalyseBackedge
  <2>2. UNCHANGED <<cHistory, position>> /\ BackStatus /\ cIdx' = cIdx + 1 /\ cI' = cI + 1
    BY <1>8, SameStatus DEF A!AnalyseBackedge, A!Goto, BackStatus
  <2>3. PopVisited(w) /\ C!BackedgeAgrees(w)
    BY <2>1, <2>2, SameStatus
       DEF PopVisited, A!StackPopUntil, StackPopUntil, A!OtherStack, OtherStack
  <2>4. GoBack
    BY <2>2, <2>3 DEF GoBack
  <2> QED
    BY <2>1, <2>2, <2>4, SameStatus DEF AnalysisMove
<1>9. ASSUME A!AnalyseWrongBackedge
      PROVE  AnalysisMove
  BY <1>3, <1>4, <1>9, SameStatus
     DEF A!AnalyseWrongBackedge, A!Goto, AnalysisMove, PassOne, ForwardStatus, BackStatus
<1> QED
  BY <1>1, <1>2, <1>5, <1>6, <1>7, <1>8, <1>9 DEF Analyse, A!AnalysisStep

LEMMA AnalysisWalks ==
  ASSUME Analyse
  PROVE  /\ UNCHANGED Given /\ phase = "analyse" /\ phase' = "analyse"
         /\ cI' \in {cI, cI + 1, cI + 2} /\ Walk
<1>1. AnalysisMove /\ cIdx < numNodes - 2
  BY AnalysisMoves
<1> QED
  BY <1>1, AnalysisMoves DEF AnalysisMove, Walk

-----------------------------------------------------------------------------
LEMMA OwnAndOther ==
  /\ \A v \in Int : /\ Own(v) \in StackNames /\ Other(v) \in StackNames
                    /\ Own(v) # Other(v) /\ OtherStack(Own(v)) = Other(v)
  /\ \A v, w \in Int : /\ Own(w) = Own(v) => Other(w) = Other(v)
                       /\ Own(w) # Own(v) => Own(w) = Other(v) /\ Other(w) = Own(v)
  BY DEF Own, Other, OwnStack, OtherStack, StackNames

(* The node lies in the stack of the nodes that its length lets be reached *)
LEMMA OwnIsPossible ==
  ASSUME NEW v \in Int, NEW w \in Int, NEW b, b = (v - w) % 2
  PROVE  PossibleBackedges(v, b) = Own(w)
  BY DEF PossibleBackedges, Own, OwnStack, IsOdd

(* What the loop has at hand where it goes on                              *)
LEMMA WalkFacts ==
  ASSUME IntactInv, WalkTyped, WalkBound, Room, cIdx < numNodes - 2
  PROVE  /\ numNodes \in Nat /\ cIdx \in Nat \ {0} /\ cIdx \in C!Nodes
         /\ C!nBits \in Nat
         /\ \A s \in StackNames : /\ cStack[s].n \in Nat
                                 /\ cStack[s].n < C!nBits /\ cStack[s].n < numNodes
<1>1. /\ numNodes \in Nat /\ n \in Nat /\ C!nBits \in Nat /\ n <= C!nBits
      /\ 2 * (numNodes - 2 - n) <= n
  BY DEF IntactInv, IntactShape, IntactCount, Room
<1>2. cIdx \in 1..(numNodes - 1)
  BY DEF WalkTyped
<1>3. ASSUME NEW s \in StackNames
      PROVE  cStack[s].n \in Nat /\ 2 * cStack[s].n <= cIdx + 1
  BY <1>1, <1>2 DEF WalkTyped, WalkBound, StackNames
<1> QED
  BY <1>1, <1>2, <1>3 DEF C!Nodes

(* The loop never lands on the node inside a while block                   *)
LEMMA WalkStaysOnPath ==
  ASSUME IntactInv, WalkTyped, WalkOnPath, Walk, UNCHANGED Given
  PROVE  cIdx' \in 1..(numNodes - 1) /\ cIdx < cIdx' /\ WalkOnPath'
<1>1. /\ numNodes \in Nat /\ cIdx \in Nat \ {0} /\ cIdx < numNodes - 2
      /\ edges' = edges /\ numNodes' = numNodes
  BY DEF IntactInv, IntactShape, WalkTyped, Walk, Given
<1>2. PICK v \in Nat \ {0} : v = cIdx
  BY <1>1
<1>3. CASE cIdx' = v + 1 /\ ~ForwardStatus
  <2>1. <<v + 1, v + 2>> \in edges
    <3> SUFFICES ASSUME <<v + 1, v + 2>> \notin edges
                 PROVE  FALSE
      OBVIOUS
    <3>1. v + 1 \in 0..(numNodes - 2) /\ (v + 1) + 1 = v + 2 /\ (v + 1) - 1 = v
      BY <1>1, <1>2
    <3>2. WasForward((v + 1) - 1)
      BY <3>1, PathKept
    <3>3. WasForward(v)
      BY <3>1, <3>2
    <3>4. CASE C!Status = "mute"
      <4>1. v > 1 /\ <<v - 2, v>> \in edges
        BY <1>1, <1>2, <3>4, StatusTells
      <4>2. v - 2 \in Nat /\ (v - 2) + 2 = v
        BY <1>2, <4>1
      <4>3. WasForward(v - 2)
        BY <4>1, <4>2, PathKept DEF WasForward
      <4> QED
        BY <3>3, <4>2, <4>3 DEF IntactInv, IntactForward
    <3>5. CASE BackStatus
      <4>1. PICK w \in 0..(v - 1) : <<v, w>> \in edges
        BY <1>1, <1>2, <3>5, StatusTells
      <4>2. WasBack(v, w) /\ w \in Nat
        BY <1>2, <4>1, PathKept DEF WasBack
      <4> QED
        BY <1>2, <3>3, <4>2 DEF IntactInv, IntactBlocks
    <3>6. CASE C!Status = "zero"
      BY <1>1, <1>2, <3>6, StatusTells
    <3> QED
      BY <1>1, <1>3, <3>4, <3>5, <3>6, StatusTells DEF Statuses, BackStatus, ForwardStatus
  <2>2. cIdx' + 1 = v + 2
    BY <1>2, <1>3
  <2> QED
    BY <1>1, <1>2, <1>3, <2>1, <2>2 DEF WalkOnPath
<1>4. CASE cIdx' = v + 2 /\ ForwardStatus
  <2>1. ASSUME v + 2 <= numNodes - 2
        PROVE  <<v + 2, v + 3>> \in edges
    <3> SUFFICES ASSUME <<v + 2, v + 3>> \notin edges
                 PROVE  FALSE
      OBVIOUS
    <3>1. /\ v + 2 \in 0..(numNodes - 2) /\ (v + 2) + 1 = v + 3 /\ (v + 2) - 1 = v + 1
          /\ v + 2 # numNodes - 1
      BY <1>1, <1>2, <2>1
    <3>2. WasForward((v + 2) - 1)
      BY <3>1, PathKept
    <3>3. WasForward(v + 1)
      BY <3>1, <3>2
    <3>4. WasForward(v)
      BY <1>1, <1>2, <1>4, <3>1, StatusTells
    <3> QED
      BY <1>2, <3>3, <3>4 DEF IntactInv, IntactForward
  <2>2. cIdx' + 1 = v + 3
    BY <1>2, <1>4
  <2> QED
    BY <1>1, <1>2, <1>4, <2>1, <2>2 DEF WalkOnPath
<1> QED
  BY <1>2, <1>3, <1>4 DEF Walk, PassOne, PassTwo, GoBack, BackStatus, ForwardStatus

(* A node that becomes a possible destination                              *)
LEMMA PushKeepsStacks ==
  ASSUME IntactInv, WalkInv, Room, cIdx < numNodes - 2, PushVisited,
         cIdx' \in {cIdx + 1, cIdx + 2}, UNCHANGED Given
  PROVE  (WalkTyped /\ WalkBound /\ WalkStacks)'
<1> DEFINE own == Own(cIdx)
           other == Other(cIdx)
           top == cStack[own].n
           saved == cStack[other].n
<1>1. PICK node \in Nat \ {0} : node = cIdx
  BY WalkFacts DEF WalkInv
<1>2. /\ numNodes \in Nat /\ node \in C!Nodes /\ C!nBits \in Nat
      /\ node < numNodes - 2
      /\ own \in StackNames /\ other \in StackNames /\ own # other
      /\ top \in Nat /\ top < C!nBits /\ saved \in Nat /\ top < numNodes
  BY <1>1, WalkFacts, OwnAndOther DEF WalkInv
<1>3. /\ numNodes' = numNodes /\ C!nBits' = C!nBits /\ C!Nodes' = C!Nodes
      /\ C!Unset' = C!Unset /\ C!Unset = numNodes /\ Intact' = Intact
  BY DEF Given, C!nBits, C!Nodes, C!Unset, Intact
<1>4. /\ cStack \in [StackNames -> [mem : [0..(C!nBits - 1) -> Nat], n : Nat]]
      /\ position \in [C!Nodes -> Nat] /\ cHistory \in [C!Nodes -> Nat]
  BY DEF WalkInv, WalkTyped
<1>5. /\ position' = [position EXCEPT ![node] = top]
      /\ cHistory' = [cHistory EXCEPT ![node] = saved]
      /\ cStack' = [cStack EXCEPT ![own] =
                      [mem |-> [cStack[own].mem EXCEPT ![top] = node], n |-> top + 1]]
  BY <1>1 DEF PushVisited, StackPush
<1> HIDE DEF own, other, top, saved
<1>6. /\ cStack'[own].n = top + 1 /\ cStack'[other] = cStack[other]
      /\ cStack'[own].mem[top] = node
      /\ \A p \in 0..(C!nBits - 1) \ {top} : cStack'[own].mem[p] = cStack[own].mem[p]
  BY <1>2, <1>4, <1>5
<1>7. /\ position'[node] = top /\ cHistory'[node] = saved
      /\ \A w \in C!Nodes \ {node} : position'[w] = position[w] /\ cHistory'[w] = cHistory[w]
  BY <1>2, <1>4, <1>5
<1>8. cStack[own].n = top /\ cStack[other].n = saved
  BY DEF own, other, top, saved
<1>9. own = Own(node) /\ other = Other(node)
  BY <1>1 DEF own, other
<1>10. node < cIdx' /\ cIdx' \in {node + 1, node + 2}
  BY <1>1
<1>11. WalkTyped'
  <2>1. [mem |-> [cStack[own].mem EXCEPT ![top] = node], n |-> top + 1]
          \in [mem : [0..(C!nBits - 1) -> Nat], n : Nat]
    BY <1>1, <1>2, <1>4
  <2>2. cStack' \in [StackNames -> [mem : [0..(C!nBits - 1) -> Nat], n : Nat]]
    BY <1>2, <1>4, <1>5, <2>1
  <2>3. position' \in [C!Nodes -> Nat] /\ cHistory' \in [C!Nodes -> Nat]
    BY <1>2, <1>4, <1>5
  <2> QED
    BY <1>1, <1>2, <1>3, <1>10, <2>2, <2>3 DEF WalkTyped
<1>12. WalkBound'
  <2>1. /\ 2 * cStack["odd"].n <= node + 1 /\ cStack["odd"].n \in Nat
        /\ 2 * cStack["even"].n <= node /\ cStack["even"].n \in Nat
    BY <1>1, <1>4 DEF WalkInv, WalkBound, StackNames
  <2>2. CASE node % 2 = 0
    <3>1. own = "odd" /\ other = "even"
      BY <1>9, <2>2 DEF Own, Other, OwnStack, OtherStack, IsOdd
    <3>2. 2 * cStack'["odd"].n <= node + 2 /\ 2 * cStack'["even"].n <= node
      BY <1>2, <1>6, <1>8, <2>1, <2>2, <3>1
    <3>3. cStack'["even"].n \in Nat /\ cStack'["odd"].n \in Nat
      BY <1>2, <1>6, <1>8, <2>1, <3>1
    <3> QED
      BY <1>10, <3>2, <3>3 DEF WalkBound
  <2>3. CASE node % 2 # 0
    <3>1. own = "even" /\ other = "odd"
      BY <1>9, <2>3 DEF Own, Other, OwnStack, OtherStack, IsOdd
    <3>2. 2 * cStack'["even"].n <= node + 1 /\ 2 * cStack'["odd"].n <= node + 1
      BY <1>2, <1>6, <1>8, <2>1, <2>3, <3>1
    <3>3. cStack'["even"].n \in Nat /\ cStack'["odd"].n \in Nat
      BY <1>2, <1>6, <1>8, <2>1, <3>1
    <3> QED
      BY <1>10, <3>2, <3>3 DEF WalkBound
  <2> QED
    BY <2>2, <2>3
<1>13. \A w \in C!Nodes : w >= node => position[w] = C!Unset
  BY <1>1 DEF WalkInv, WalkStacks
<1>14. \A w \in C!Nodes : w \in Nat
  BY DEF C!Nodes
<1>15. ASSUME NEW w \in C!Nodes, Alive(w)'
       PROVE  Alive(w) \/ w = node
  <2>1. w < cIdx' /\ position'[w] # C!Unset /\ ~Enclosed(w)'
    BY <1>3, <1>15 DEF Alive
  <2>2. Enclosed(w) => Enclosed(w)'
    <3>1. ASSUME NEW u \in Nat, NEW v \in Nat, WasRepeat(u, v), u < cIdx, v <= w, w < u
          PROVE  WasRepeat(u, v)' /\ u < cIdx'
      BY <1>1, <1>3, <1>10, <3>1 DEF WasRepeat, WasBack, WasForward
    <3> QED
      BY <3>1 DEF Enclosed
  <2>3. w # node => position[w] # C!Unset /\ w < node
    BY <1>7, <1>13, <1>14, <2>1
  <2> QED
    BY <1>1, <2>1, <2>2, <2>3 DEF Alive
<1>16. \A w \in C!Nodes : Alive(w) => Holds(w) /\ w # node /\ w < node
  BY <1>1, <1>14 DEF WalkInv, WalkStacks, Alive
<1>17. ASSUME NEW w \in C!Nodes, Alive(w)
       PROVE  Holds(w)' /\ Before(w, node)'
  <2>1. /\ position[w] < cStack[Own(w)].n
        /\ cStack[Own(w)].mem[position[w]] = w
        /\ cHistory[w] <= cStack[Other(w)].n
        /\ w # node /\ w \in Int
        /\ position'[w] = position[w] /\ cHistory'[w] = cHistory[w]
        /\ position[w] \in Nat /\ cHistory[w] \in Nat
    BY <1>4, <1>7, <1>14, <1>16, <1>17 DEF Holds
  <2>2. CASE Own(w) = own
    <3>1. Other(w) = other
      BY <1>1, <1>9, <2>1, <2>2, OwnAndOther
    <3>2. position[w] \in 0..(C!nBits - 1) \ {top}
      BY <1>2, <1>8, <2>1, <2>2
    <3>3. Holds(w)'
      <4>1. /\ position[w] < top + 1
            /\ cStack'[own].mem[position[w]] = w
            /\ cHistory[w] <= cStack'[other].n
        BY <1>2, <1>6, <1>8, <2>1, <2>2, <3>1, <3>2
      <4> QED
        BY <1>6, <2>1, <2>2, <3>1, <4>1 DEF Holds
    <3>4. Before(w, node)'
      BY <1>7, <1>8, <1>9, <2>1, <2>2, <3>1 DEF Before
    <3> QED
      BY <3>3, <3>4
  <2>3. CASE Own(w) # own
    <3>1. Own(w) = other /\ Other(w) = own
      BY <1>1, <1>9, <2>1, <2>3, OwnAndOther
    <3>2. Holds(w)'
      BY <1>2, <1>6, <1>8, <2>1, <3>1 DEF Holds
    <3>3. Before(w, node)'
      BY <1>2, <1>7, <1>8, <1>9, <2>1, <3>1 DEF Before
    <3> QED
      BY <3>2, <3>3
  <2> QED
    BY <2>2, <2>3
<1>18. Holds(node)'
  BY <1>2, <1>6, <1>7, <1>8, <1>9 DEF Holds
<1>19. ASSUME NEW w \in C!Nodes, NEW v \in C!Nodes, w < v, Alive(w), Alive(v)
       PROVE  Before(w, v)'
  <2>1. Before(w, v)
    BY <1>19 DEF WalkInv, WalkStacks
  <2>2. w # node /\ v # node
    BY <1>16, <1>19
  <2> QED
    BY <1>7, <2>1, <2>2 DEF Before
<1>20. WalkStacks'
  <2>1. ASSUME NEW w \in C!Nodes, w >= cIdx'
        PROVE  position'[w] = C!Unset
    BY <1>7, <1>10, <1>13, <1>14, <2>1
  <2>2. ASSUME NEW w \in C!Nodes, NEW v \in C!Nodes, w < v, Alive(w)', Alive(v)'
        PROVE  Before(w, v)'
    <3>1. (Alive(w) \/ w = node) /\ (Alive(v) \/ v = node)
      BY <1>15, <2>2
    <3>2. CASE Alive(w) /\ Alive(v)
      BY <1>19, <2>2, <3>2
    <3>3. CASE Alive(w) /\ v = node
      BY <1>17, <3>3
    <3>4. w # node
      <4>1. w = node => ~Alive(v) /\ v # node
        BY <1>14, <1>16, <2>2
      <4> QED
        BY <3>1, <4>1
    <3> QED
      BY <3>1, <3>2, <3>3, <3>4
  <2>3. \A w \in C!Nodes : Alive(w)' => Holds(w)'
    BY <1>15, <1>17, <1>18
  <2> QED
    BY <1>3, <2>1, <2>2, <2>3 DEF WalkStacks
<1> QED
  BY <1>11, <1>12, <1>20

(* A backedge at a node that the loop comes to ends a repeat block of the  *)
(* graph, and leads to a node that no other has enclosed                   *)
LEMMA RepeatEnd ==
  ASSUME IntactInv, WalkInv, Room, cIdx < numNodes - 2,
         NEW w \in BackedgeTargets(edges, cIdx)
  PROVE  /\ w \in Nat /\ w < cIdx /\ w \in C!Nodes /\ <<cIdx, w>> \in edges
         /\ WasRepeat(cIdx, w) /\ ~Enclosed(w)
<1>1. PICK node \in Nat \ {0} : node = cIdx
  BY WalkFacts DEF WalkInv
<1>2. /\ numNodes \in Nat /\ node < numNodes - 2 /\ w \in 0..(node - 1)
      /\ <<node, w>> \in edges /\ w \in C!Nodes
  BY <1>1, WalkFacts DEF WalkInv, BackedgeTargets, Connected, C!Nodes
<1>3. WasBack(node, w) /\ w \in Nat
  BY <1>2, PathKept DEF WasBack
<1>4. WasRepeat(node, w)
  <2>1. ASSUME WasForward(node - 1)
        PROVE  FALSE
    <3>1. w = node - 1
      BY <1>1, <1>3, <2>1 DEF IntactInv, IntactBlocks
    <3>2. <<node, node + 1>> \in Intact
      BY <1>1, <1>2, PathKept DEF WalkInv, WalkOnPath
    <3> QED
      BY <1>2, <1>3, <2>1, <3>1, <3>2 DEF IntactInv, IntactPath
  <2> QED
    BY <1>3, <2>1 DEF WasRepeat
<1>5. ~Enclosed(w)
  <2> SUFFICES ASSUME NEW u \in Nat, NEW v \in Nat,
                      WasRepeat(u, v), u < node, v <= w, w < u
               PROVE  FALSE
    BY <1>1 DEF Enclosed
  <2>1. WasBack(u, v)
    BY DEF WasRepeat
  <2>2. w <= v \/ w > u
    BY <1>3, <2>1 DEF IntactInv, IntactBlocks
  <2>3. v = w
    BY <1>3, <2>2
  <2> QED
    BY <1>3, <1>4, <2>1, <2>3 DEF IntactInv, IntactBlocks
<1> QED
  BY <1>1, <1>2, <1>3, <1>4, <1>5

(* If it agrees with the key as well, that node is in its stack            *)
LEMMA AgreedEnd ==
  ASSUME IntactInv, WalkInv, Room, cIdx < numNodes - 2,
         NEW w \in BackedgeTargets(edges, cIdx), C!BackedgeAgrees(w)
  PROVE  /\ w \in Nat /\ w < cIdx /\ w \in C!Nodes
         /\ Own(w) = C!Possible /\ Other(w) = OtherStack(C!Possible)
         /\ WasRepeat(cIdx, w) /\ Alive(w) /\ Holds(w)
<1>1. PICK node \in Nat \ {0} : node = cIdx
  BY WalkFacts DEF WalkInv
<1>2. /\ numNodes \in Nat /\ node < numNodes - 2 /\ C!Unset = numNodes
      /\ w \in Nat /\ w < node /\ w \in C!Nodes /\ WasRepeat(node, w) /\ ~Enclosed(w)
  BY <1>1, WalkFacts, RepeatEnd DEF WalkInv, C!Unset
<1>3. /\ Own(w) = C!Possible /\ Other(w) = OtherStack(C!Possible)
      /\ position[w] < cStack[Own(w)].n
  <2>1. C!bit = (node - w) % 2 /\ position[w] < cStack[C!Possible].n
    BY <1>1 DEF C!BackedgeAgrees
  <2>2. C!Possible = PossibleBackedges(node, C!bit)
    BY <1>1 DEF C!Possible, C!PossibleBackedges, PossibleBackedges, C!IsOdd, IsOdd
  <2> QED
    BY <1>2, <2>1, <2>2, OwnIsPossible, OwnAndOther
<1>4. position[w] # C!Unset
  <2>1. cStack[Own(w)].n \in Nat /\ cStack[Own(w)].n < numNodes /\ position[w] \in Nat
    <3>1. Own(w) \in StackNames
      BY <1>2, OwnAndOther
    <3>2. position[w] \in Nat
      BY <1>2 DEF WalkInv, WalkTyped
    <3> QED
      BY <1>1, <1>2, <3>1, <3>2, WalkFacts DEF WalkInv
  <2> QED
    BY <1>2, <1>3, <2>1
<1>5. Alive(w)
  BY <1>1, <1>2, <1>4 DEF Alive
<1>6. Holds(w)
  BY <1>2, <1>5 DEF WalkInv, WalkStacks
<1> QED
  BY <1>1, <1>2, <1>3, <1>5, <1>6

(* What it pops is what the block has enclosed                             *)
LEMMA PopKeepsStacks ==
  ASSUME IntactInv, WalkInv, Room, cIdx < numNodes - 2,
         NEW x \in BackedgeTargets(edges, cIdx), C!BackedgeAgrees(x), PopVisited(x),
         cIdx' = cIdx + 1, UNCHANGED Given
  PROVE  (WalkTyped /\ WalkBound /\ WalkStacks)'
<1> DEFINE own == Own(x)
           other == Other(x)
<1>1. PICK node \in Nat \ {0} : node = cIdx
  BY WalkFacts DEF WalkInv
<1>2. /\ numNodes \in Nat /\ node \in C!Nodes /\ C!nBits \in Nat
      /\ node < numNodes - 2 /\ x \in Nat /\ x < node /\ x \in C!Nodes
      /\ own \in StackNames /\ other \in StackNames /\ own # other
  BY <1>1, WalkFacts, OwnAndOther, AgreedEnd DEF WalkInv
<1>3. /\ numNodes' = numNodes /\ C!nBits' = C!nBits /\ C!Nodes' = C!Nodes
      /\ C!Unset' = C!Unset /\ C!Unset = numNodes /\ Intact' = Intact
  BY DEF Given, C!nBits, C!Nodes, C!Unset, Intact
<1>4. /\ cStack \in [StackNames -> [mem : [0..(C!nBits - 1) -> Nat], n : Nat]]
      /\ position \in [C!Nodes -> Nat] /\ cHistory \in [C!Nodes -> Nat]
  BY DEF WalkInv, WalkTyped
<1>5. /\ position[x] \in Nat /\ cHistory[x] \in Nat
      /\ position[x] < cStack[own].n /\ cHistory[x] <= cStack[other].n
      /\ cStack[own].n \in Nat /\ cStack[other].n \in Nat
      /\ Alive(x) /\ WasRepeat(node, x)
  BY <1>1, <1>2, <1>4, AgreedEnd DEF Holds
<1>6. /\ UNCHANGED <<cHistory, position>>
      /\ cStack' = [cStack EXCEPT ![own] = [mem |-> cStack[own].mem, n |-> position[x]],
                                  ![other] = [mem |-> cStack[other].mem, n |-> cHistory[x]]]
  BY AgreedEnd, <1>2 DEF PopVisited, StackPopUntil
<1> HIDE DEF own, other
<1>7. /\ cStack'[own].n = position[x] /\ cStack'[other].n = cHistory[x]
      /\ \A s \in StackNames : cStack'[s].mem = cStack[s].mem
  BY <1>2, <1>4, <1>6
<1>8. own = Own(x) /\ other = Other(x)
  BY DEF own, other
<1>9. WalkTyped'
  <2>1. /\ [mem |-> cStack[own].mem, n |-> position[x]]
             \in [mem : [0..(C!nBits - 1) -> Nat], n : Nat]
        /\ [mem |-> cStack[other].mem, n |-> cHistory[x]]
             \in [mem : [0..(C!nBits - 1) -> Nat], n : Nat]
    BY <1>2, <1>4, <1>5
  <2>2. cStack' \in [StackNames -> [mem : [0..(C!nBits - 1) -> Nat], n : Nat]]
    BY <1>2, <1>4, <1>6, <2>1
  <2>3. position' \in [C!Nodes -> Nat] /\ cHistory' \in [C!Nodes -> Nat]
    BY <1>4, <1>6
  <2>4. cIdx' \in 1..(numNodes - 1)
    BY <1>1, <1>2
  <2> QED
    BY <1>3, <2>2, <2>3, <2>4 DEF WalkTyped
<1>10. WalkBound'
  <2>1. /\ 2 * cStack["odd"].n <= node + 1 /\ cStack["odd"].n \in Nat
        /\ 2 * cStack["even"].n <= node /\ cStack["even"].n \in Nat
    BY <1>1, <1>4 DEF WalkInv, WalkBound, StackNames
  <2>2. \A s \in StackNames : cStack'[s].n \in Nat /\ cStack'[s].n <= cStack[s].n
    BY <1>2, <1>5, <1>7 DEF StackNames
  <2>3. /\ cStack'["odd"].n \in Nat /\ cStack'["odd"].n <= cStack["odd"].n
        /\ cStack'["even"].n \in Nat /\ cStack'["even"].n <= cStack["even"].n
    BY <2>2 DEF StackNames
  <2> QED
    BY <1>1, <2>1, <2>3 DEF WalkBound
<1>11. \A w \in C!Nodes : w \in Nat
  BY DEF C!Nodes
<1>12. \A w \in C!Nodes : w >= node => position[w] = C!Unset
  BY <1>1 DEF WalkInv, WalkStacks
<1>13. ASSUME NEW w \in C!Nodes, Alive(w)'
       PROVE  Alive(w) /\ w < x
  <2>1. w < node + 1 /\ position[w] # C!Unset /\ ~Enclosed(w)'
    BY <1>1, <1>3, <1>6, <1>13 DEF Alive
  <2>2. w < node
    BY <1>11, <1>12, <2>1
  <2>3. ASSUME NEW u \in Nat, NEW v \in Nat, WasRepeat(u, v), u < node + 1, v <= w, w < u
        PROVE  FALSE
    <3>1. WasRepeat(u, v)' /\ u < cIdx'
      BY <1>1, <1>3, <2>3 DEF WasRepeat, WasBack, WasForward
    <3> QED
      BY <2>1, <2>3, <3>1 DEF Enclosed
  <2>4. w < x
    BY <1>2, <1>5, <1>11, <2>2, <2>3
  <2>5. ~Enclosed(w)
    <3> SUFFICES ASSUME NEW u \in Nat, NEW v \in Nat,
                        WasRepeat(u, v), u < node, v <= w, w < u
                 PROVE  FALSE
      BY <1>1 DEF Enclosed
    <3> QED
      BY <2>3
  <2> QED
    BY <1>1, <2>1, <2>2, <2>4, <2>5 DEF Alive
<1>14. ASSUME NEW w \in C!Nodes, Alive(w)'
       PROVE  Holds(w)'
  <2>1. Before(w, x) /\ Holds(w)
    BY <1>2, <1>5, <1>13, <1>14 DEF WalkInv, WalkStacks
  <2>2. /\ cStack[Own(w)].mem[position[w]] = w /\ w \in Int /\ Own(w) \in StackNames
    BY <1>11, <2>1, OwnAndOther DEF Holds
  <2>3. CASE Own(w) = own
    <3>1. Other(w) = other
      BY <1>2, <1>8, <2>2, <2>3, OwnAndOther
    <3>2. position[w] < position[x] /\ cHistory[w] <= cHistory[x]
      BY <1>8, <2>1, <2>3 DEF Before
    <3> QED
      BY <1>6, <1>7, <2>2, <2>3, <3>1, <3>2 DEF Holds
  <2>4. CASE Own(w) # own
    <3>1. Own(w) = other /\ Other(w) = own
      BY <1>2, <1>8, <2>2, <2>4, OwnAndOther
    <3>2. position[w] < cHistory[x] /\ cHistory[w] <= position[x]
      BY <1>8, <2>1, <2>4 DEF Before
    <3> QED
      BY <1>6, <1>7, <2>2, <3>1, <3>2 DEF Holds
  <2> QED
    BY <2>3, <2>4
<1>15. WalkStacks'
  <2>1. ASSUME NEW w \in C!Nodes, w >= cIdx'
        PROVE  position'[w] = C!Unset
    BY <1>1, <1>6, <1>11, <1>12, <2>1
  <2>2. ASSUME NEW w \in C!Nodes, NEW v \in C!Nodes, w < v, Alive(w)', Alive(v)'
        PROVE  Before(w, v)'
    <3>1. Before(w, v)
      BY <1>13, <2>2 DEF WalkInv, WalkStacks
    <3> QED
      BY <1>6, <3>1 DEF Before
  <2> QED
    BY <1>3, <1>14, <2>1, <2>2 DEF WalkStacks
<1> QED
  BY <1>9, <1>10, <1>15

(* Both loops keep to the path and to their stacks                         *)
LEMMA WalkKeeps ==
  ASSUME IntactInv, WalkInv, Room, Walk, UNCHANGED Given
  PROVE  WalkInv'
<1>1. cIdx' \in 1..(numNodes - 1) /\ WalkOnPath'
  BY WalkStaysOnPath DEF WalkInv
<1>2. (WalkTyped /\ WalkBound /\ WalkStacks)'
  <2>1. CASE PassOne \/ PassTwo
    BY <2>1, PushKeepsStacks DEF Walk, PassOne, PassTwo
  <2>2. CASE GoBack
    BY <2>2, PopKeepsStacks DEF Walk, GoBack
  <2> QED
    BY <2>1, <2>2 DEF Walk
<1> QED
  BY <1>1, <1>2 DEF WalkInv

-----------------------------------------------------------------------------
(* The checker counts the forward edges that are left                      *)
LEMMA SizeLeavesRoom ==
  IntactInv /\ ClaimTyped /\ C!SizeMatches => Room
<1> SUFFICES ASSUME IntactInv, ClaimTyped, C!SizeMatches
             PROVE  Room
  OBVIOUS
<1> DEFINE left == {v \in C!Nodes : C!HasForward(edges, v)}
<1>1. /\ numNodes \in Nat /\ idx \in Nat \ {0} /\ n \in Nat
      /\ Cardinality(ForwardNodes) = numNodes - 2 - n
      /\ Intact \subseteq (0..(numNodes - 1)) \X (0..(numNodes - 1))
  BY DEF IntactInv, IntactShape, IntactCount
<1>2. C!nBits \in Nat
  BY NumBitsAssumption DEF ClaimTyped, C!nBits
<1>3. C!nBits = numNodes - 2 - Cardinality(left)
  BY DEF C!SizeMatches, C!Cardinality, Cardinality
<1>4. left \subseteq ForwardNodes
  <2> SUFFICES ASSUME NEW v \in Nat, NEW e \in edges, e[1] = v, e[2] > v + 1
               PROVE  v \in ForwardNodes
    BY DEF C!Nodes, C!HasForward
  <2>1. e \in Intact /\ e = <<e[1], e[2]>> /\ e[1] \in Nat /\ e[2] \in Nat
    BY <1>1, PathKept
  <2>2. e[1] < idx /\ e[2] = e[1] + 2
    BY <2>1 DEF IntactInv, IntactShape
  <2> QED
    BY <1>1, <2>1, <2>2 DEF ForwardNodes, WasForward
<1>5. IsFiniteSet(ForwardNodes)
  <2>1. IsFiniteSet(0..(idx - 1))
    BY <1>1, FS_Interval
  <2>2. ForwardNodes \in SUBSET (0..(idx - 1))
    BY DEF ForwardNodes
  <2> QED
    BY <2>1, <2>2, FS_Subset
<1> HIDE DEF left
<1>6. IsFiniteSet(left) /\ Cardinality(left) <= Cardinality(ForwardNodes)
  BY <1>4, <1>5, FS_Subset
<1>7. Cardinality(left) \in Nat /\ Cardinality(ForwardNodes) \in Nat
  BY <1>5, <1>6, FS_CardinalityType
<1> QED
  BY <1>1, <1>2, <1>3, <1>6, <1>7 DEF Room

(* Before its first iteration only node 0 can be gone back to              *)
Start ==
  /\ cIdx = 1 /\ cStack = C!FirstStack /\ cHistory = C!FirstHistory
  /\ position = C!FirstPosition

LEMMA StartWalks ==
  IntactInv /\ ClaimTyped /\ Start => WalkInv
<1> SUFFICES ASSUME IntactInv, ClaimTyped, Start
             PROVE  WalkInv
  OBVIOUS
<1>1. numNodes \in Nat /\ numNodes >= 3
  <2> DEFINE m == IF WasForward(idx - 1) \/ WasForward(idx - 2) THEN 1 ELSE 0
  <2>1. m \in Nat /\ numNodes - 2 = idx + m /\ idx \in Nat \ {0} /\ numNodes \in Nat
    BY DEF IntactInv, IntactShape
  <2> HIDE DEF m
  <2> QED
    BY <2>1
<1>2. C!nBits \in Nat \ {0}
  BY NumBitsAssumption DEF ClaimTyped, C!nBits
<1>3. /\ cStack = [odd |-> [mem |-> [[p \in 0..(C!nBits - 1) |-> 0] EXCEPT ![0] = 0], n |-> 1],
                   even |-> [mem |-> [p \in 0..(C!nBits - 1) |-> 0], n |-> 0]]
      /\ cHistory = [v \in C!Nodes |-> 0]
      /\ position = [v \in C!Nodes |-> IF v = 0 THEN 0 ELSE numNodes]
      /\ cIdx = 1 /\ C!Nodes = 0..(numNodes - 1) /\ C!Unset = numNodes
  BY DEF Start, C!FirstStack, C!FirstHistory, C!FirstPosition, C!StackPush, C!StackCreate,
         C!Unset, C!Nodes
<1>4. /\ cStack["odd"].n = 1 /\ cStack["even"].n = 0
      /\ cStack["odd"].mem = [p \in 0..(C!nBits - 1) |-> 0]
      /\ cStack["even"].mem = [p \in 0..(C!nBits - 1) |-> 0]
  BY <1>2, <1>3
<1>5. WalkTyped
  <2>1. /\ cStack["odd"] \in [mem : [0..(C!nBits - 1) -> Nat], n : Nat]
        /\ cStack["even"] \in [mem : [0..(C!nBits - 1) -> Nat], n : Nat]
    BY <1>2, <1>3
  <2>2. cStack \in [StackNames -> [mem : [0..(C!nBits - 1) -> Nat], n : Nat]]
    BY <1>3, <2>1 DEF StackNames
  <2>3. position \in [C!Nodes -> Nat] /\ cHistory \in [C!Nodes -> Nat]
    BY <1>1, <1>3
  <2>4. cIdx \in 1..(numNodes - 1)
    BY <1>1, <1>3
  <2> QED
    BY <2>2, <2>3, <2>4 DEF WalkTyped
<1>6. WalkBound
  BY <1>3, <1>4 DEF WalkBound
<1>7. WalkOnPath
  <2>1. <<1, 2>> \in edges
    <3>1. 1 \in 0..(numNodes - 2) /\ 1 + 1 = 2 /\ 1 - 1 = 0
      BY <1>1
    <3>2. <<1, 1 + 1>> \notin edges => WasForward(1 - 1)
      BY <3>1, PathKept
    <3> QED
      BY <3>1, <3>2 DEF IntactInv, IntactForward
  <2> QED
    BY <1>3, <2>1 DEF WalkOnPath
<1>8. WalkStacks
  <2>1. \A w \in C!Nodes : w >= 1 => position[w] = C!Unset
    BY <1>1, <1>3
  <2>2. \A w \in C!Nodes : Alive(w) => w = 0
    BY <1>1, <1>3, <2>1 DEF Alive
  <2>3. Holds(0)
    <3>1. Own(0) = "odd" /\ Other(0) = "even"
      BY DEF Own, Other, OwnStack, OtherStack, IsOdd
    <3>2. position[0] = 0 /\ cHistory[0] = 0
      BY <1>1, <1>3
    <3> QED
      BY <1>2, <1>4, <3>1, <3>2 DEF Holds
  <2> QED
    BY <1>1, <1>3, <2>1, <2>2, <2>3 DEF WalkStacks
<1> QED
  BY <1>5, <1>6, <1>7, <1>8 DEF WalkInv

LEMMA InitKeyCheck == KCInit => KCInv
<1> SUFFICES ASSUME KCInit
             PROVE  KCInv
  OBVIOUS
<1>1. Init /\ phase = "encode" /\ removed = {} /\ claim = data /\ claimStart = start
      /\ cI = start + 1 /\ verdict = "none" /\ cIdx = 1
  BY DEF KCInit
<1>2. EncoderInv
  BY <1>1, InitEncoder
<1>3. /\ edges = HamiltonianPath(n + 2) /\ numNodes = n + 2 /\ idx = 1
  BY <1>1 DEF Init
<1>4. \A v \in Int : ~Forward(v)
  BY <1>3 DEF Forward, HamiltonianPath
<1>5. ForwardNodes = {}
  BY <1>1, <1>3, <1>4 DEF ForwardNodes, WasForward, Intact, Forward
<1>6. Cardinality(ForwardNodes) = 0
  BY <1>5, FS_EmptySet
<1>7. n \in Nat
  BY <1>2, LengthOfKey DEF EncoderInv, IInv
<1>8. Fresh
  BY <1>1, <1>2, <1>3, <1>4, <1>6, <1>7 DEF Fresh
<1>9. ClaimTyped
  <2>1. data \in [0..(NumBits - 1) -> Bit] /\ start \in -1..(NumBits - 1)
    BY <1>2 DEF EncoderInv, IInv, TypeOK
  <2> QED
    BY <1>1, <2>1, NumBitsAssumption DEF ClaimTyped
<1> QED
  BY <1>1, <1>8, <1>9 DEF KCInv

LEMMA EncodeKeeps == KCInv /\ Encode => KCInv'
<1> SUFFICES ASSUME KCInv, Encode
             PROVE  KCInv'
  OBVIOUS
<1>1. Fresh /\ ClaimTyped /\ Next /\ phase = "encode" /\ phase' = "encode"
      /\ removed = {} /\ removed' = {} /\ UNCHANGED checkerVars
  BY DEF KCInv, Encode, Fresh
<1>2. EncoderInv'
  BY <1>1, EncoderStep DEF Fresh
<1>3. IInv
  BY <1>1 DEF Fresh, EncoderInv
<1>4. (~Forward(0))' /\ (Cardinality(ForwardNodes) = numNodes - 2 - n)'
  BY <1>1, <1>3, CountStep DEF Fresh
<1>5. Fresh'
  BY <1>1, <1>2, <1>4 DEF Fresh, checkerVars
<1>6. ClaimTyped'
  BY <1>1 DEF ClaimTyped, checkerVars
<1> QED
  BY <1>1, <1>5, <1>6 DEF KCInv

LEMMA StartCheckingKeeps == KCInv /\ StartChecking => KCInv'
<1> SUFFICES ASSUME KCInv, StartChecking
             PROVE  KCInv'
  OBVIOUS
<1>1. Fresh /\ phase = "encode" /\ phase' = "check" /\ Encoded
      /\ UNCHANGED <<data, start, i, idx, numNodes, cIdx>>
  BY DEF KCInv, StartChecking
<1>2. removed' \subseteq NonHamiltonianEdges(edges) /\ edges' = edges \ removed'
  BY DEF StartChecking
<1>3. Intact' = edges
  BY <1>2 DEF Intact, NonHamiltonianEdges
<1>4. IntactInv'
  BY <1>1, <1>2, <1>3, EncodedIsIntact DEF Fresh
<1>5. ClaimTyped'
  <2>1. claim' \in [0..(NumBits - 1) -> Bit] /\ claimStart' \in FirstPositiveBitIndex(claim')
        /\ cI' = claimStart' + 1
    BY DEF StartChecking
  <2>2. FirstPositiveBitIndex(claim') \subseteq -1..(NumBits - 1)
    BY NumBitsAssumption DEF FirstPositiveBitIndex
  <2>3. claimStart' \in -1..(NumBits - 1)
    BY <2>1, <2>2
  <2>4. cI' \in Nat
    <3>1. cI' = claimStart' + 1
      BY DEF StartChecking
    <3>2. \A s \in -1..(NumBits - 1) : s + 1 \in Nat
      BY NumBitsAssumption
    <3> QED
      BY <2>3, <3>1, <3>2
  <2> QED
    BY <2>1, <2>3, <2>4 DEF ClaimTyped
<1>6. cIdx = 1
  BY <1>1 DEF Fresh
<1>7. Start'
  BY <1>1, <1>6 DEF StartChecking, Start
<1>8. (IntactInv /\ ClaimTyped /\ Start)' => WalkInv'
  BY StartWalks, PTL
<1>9. (IntactInv /\ ClaimTyped /\ C!SizeMatches)' => Room'
  BY SizeLeavesRoom, PTL
<1>10. verdict' = "none" => C!SizeMatches'
  BY DEF StartChecking
<1> QED
  BY <1>1, <1>4, <1>5, <1>7, <1>8, <1>9, <1>10 DEF KCInv

(* Once the graph is encoded it is only read                               *)
LEMMA GivenKeeps ==
  ASSUME UNCHANGED Given
  PROVE  /\ IntactInv => IntactInv'
         /\ Room => Room'
         /\ ClaimTyped /\ cI' \in {cI, cI + 1, cI + 2} => ClaimTyped'
<1>1. /\ Intact' = Intact /\ edges' = edges /\ removed' = removed
      /\ numNodes' = numNodes /\ idx' = idx /\ n' = n /\ C!nBits' = C!nBits
      /\ claim' = claim /\ claimStart' = claimStart
  BY DEF Given, Intact, n, C!nBits
<1>2. IntactShape => IntactShape'
  BY <1>1 DEF IntactShape, WasForward
<1>3. IntactForward => IntactForward'
  BY <1>1 DEF IntactForward, WasForward
<1>4. IntactPath => IntactPath'
  BY <1>1 DEF IntactPath, WasForward, WasBack
<1>5. IntactBlocks => IntactBlocks'
  BY <1>1 DEF IntactBlocks, WasForward, WasBack, WasRepeat
<1>6. IntactCount => IntactCount'
  BY <1>1 DEF IntactCount, ForwardNodes, WasForward
<1>7. IntactInv => IntactInv'
  BY <1>2, <1>3, <1>4, <1>5, <1>6 DEF IntactInv
<1>8. Room => Room'
  BY <1>1 DEF Room
<1>9. ClaimTyped /\ cI' \in {cI, cI + 1, cI + 2} => ClaimTyped'
  BY <1>1 DEF ClaimTyped
<1> QED
  BY <1>7, <1>8, <1>9

LEMMA SameWalk ==
  ASSUME WalkInv, UNCHANGED Given, UNCHANGED <<cIdx, cStack, cHistory, position>>
  PROVE  WalkInv'
<1>1. /\ cIdx' = cIdx /\ cStack' = cStack /\ cHistory' = cHistory /\ position' = position
      /\ numNodes' = numNodes /\ edges' = edges /\ Intact' = Intact
      /\ C!nBits' = C!nBits /\ C!Nodes' = C!Nodes /\ C!Unset' = C!Unset
  BY DEF Given, Intact, C!nBits, C!Nodes, C!Unset
<1>2. \A w : (Alive(w)' <=> Alive(w)) /\ (Holds(w)' <=> Holds(w))
  BY <1>1 DEF Alive, Holds, Enclosed, WasRepeat, WasBack, WasForward
<1>3. \A w, v : Before(w, v)' <=> Before(w, v)
  BY <1>1 DEF Before
<1>4. WalkStacks'
  BY <1>1, <1>2, <1>3 DEF WalkInv, WalkStacks
<1> QED
  BY <1>1, <1>4 DEF WalkInv, WalkTyped, WalkBound, WalkOnPath

LEMMA CheckKeeps == KCInv /\ Check => KCInv'
<1> SUFFICES ASSUME KCInv, Check
             PROVE  KCInv'
  OBVIOUS
<1>1. /\ UNCHANGED Given /\ phase = "check" /\ phase' = "check"
      /\ verdict = "none" /\ cI' \in {cI, cI + 1, cI + 2}
      /\ Walk \/ UNCHANGED <<cIdx, cStack, cHistory, position>>
  BY CheckWalks
<1>2. IntactInv /\ WalkInv /\ Room /\ ClaimTyped
  BY <1>1 DEF KCInv
<1>3. WalkInv'
  BY <1>1, <1>2, WalkKeeps, SameWalk
<1> QED
  BY <1>1, <1>2, <1>3, GivenKeeps DEF KCInv

LEMMA StartAnalysingKeeps == KCInv /\ StartAnalysing => KCInv'
<1> SUFFICES ASSUME KCInv, StartAnalysing
             PROVE  KCInv'
  OBVIOUS
<1>1. /\ phase = "check" /\ phase' = "analyse" /\ C!SizeMatches /\ UNCHANGED Given
      /\ cIdx' = 1 /\ cI' = claimStart + 1
      /\ cStack' = C!FirstStack /\ cHistory' = C!FirstHistory
      /\ position' = C!FirstPosition
  BY DEF StartAnalysing, Given, vars
<1>2. IntactInv /\ ClaimTyped
  BY <1>1 DEF KCInv
<1>3. Room
  BY <1>1, <1>2, SizeLeavesRoom
<1>4. ClaimTyped'
  BY <1>1, <1>2, NumBitsAssumption DEF ClaimTyped, Given
<1>5. Start'
  <2>1. /\ C!FirstStack' = C!FirstStack /\ C!FirstHistory' = C!FirstHistory
        /\ C!FirstPosition' = C!FirstPosition
    BY <1>1 DEF Given, C!FirstStack, C!FirstHistory, C!FirstPosition, C!nBits, C!Nodes,
                C!Unset
  <2> QED
    BY <1>1, <2>1 DEF Start
<1>6. (IntactInv /\ ClaimTyped /\ Start)' => WalkInv'
  BY StartWalks, PTL
<1> QED
  BY <1>1, <1>2, <1>3, <1>4, <1>5, <1>6, GivenKeeps DEF KCInv

LEMMA AnalyseKeeps == KCInv /\ Analyse => KCInv'
<1> SUFFICES ASSUME KCInv, Analyse
             PROVE  KCInv'
  OBVIOUS
<1>1. /\ UNCHANGED Given /\ phase = "analyse" /\ phase' = "analyse"
      /\ cI' \in {cI, cI + 1, cI + 2} /\ Walk
  BY AnalysisWalks
<1>2. IntactInv /\ WalkInv /\ Room /\ ClaimTyped
  BY <1>1 DEF KCInv
<1>3. WalkInv'
  BY <1>1, <1>2, WalkKeeps
<1> QED
  BY <1>1, <1>2, <1>3, GivenKeeps DEF KCInv

LEMMA OthersKeep ==
  KCInv /\ (ReturnNoMarks \/ RsCheck \/ RsCheckNoMarks \/ Rest \/ UNCHANGED allVars) => KCInv'
<1> SUFFICES ASSUME KCInv,
                    ReturnNoMarks \/ RsCheck \/ RsCheckNoMarks \/ Rest \/ UNCHANGED allVars
             PROVE  KCInv'
  OBVIOUS
<1>1. /\ UNCHANGED Given /\ UNCHANGED <<cIdx, cStack, cHistory, position>> /\ cI' = cI
      /\ UNCHANGED vars /\ verdict' = verdict
      /\ \/ UNCHANGED phase
         \/ phase # "encode" /\ phase' \in {"no marks", "corrected", "crashed"}
  BY DEF ReturnNoMarks, RsCheck, RsCheckNoMarks, Rest, allVars, checkerVars, Given, vars
<1>2. ClaimTyped'
  BY <1>1, GivenKeeps DEF KCInv
<1>3. phase = "encode" => Fresh'
  <2> SUFFICES ASSUME phase = "encode"
               PROVE  Fresh'
    OBVIOUS
  <2>1. Fresh
    BY DEF KCInv
  <2>2. EncoderInv'
    BY <1>1, <2>1, EncoderStep DEF Fresh
  <2>3. /\ edges' = edges /\ removed' = removed /\ numNodes' = numNodes /\ n' = n
        /\ ForwardNodes' = ForwardNodes /\ cIdx' = cIdx
    BY <1>1 DEF Given, ForwardNodes, WasForward, Intact, n
  <2> QED
    BY <2>1, <2>2, <2>3 DEF Fresh, Forward
<1>4. phase # "encode" => IntactInv'
  BY <1>1, GivenKeeps DEF KCInv
<1>5. phase \in {"check", "analyse"} => WalkInv'
  BY <1>1, SameWalk DEF KCInv
<1>6. Room => Room'
  BY <1>1, GivenKeeps
<1> QED
  BY <1>1, <1>2, <1>3, <1>4, <1>5, <1>6 DEF KCInv

LEMMA StepKeyCheck == KCInv /\ [KCNext]_allVars => KCInv'
  BY EncodeKeeps, StartCheckingKeeps, CheckKeeps, StartAnalysingKeeps, AnalyseKeeps,
     OthersKeep DEF KCNext

(* The graph that the checker reads is the one encoded less some           *)
(* connections off the path, and the two loops keep to the path and to     *)
(* their stacks (encoder.c:67-163, checker.c:68-166,231-341).              *)
THEOREM StacksFollowTheGraph == KCSpec => []KCInv
<1>1. KCInit => KCInv
  BY InitKeyCheck
<1>2. KCInv /\ [KCNext]_allVars => KCInv'
  BY StepKeyCheck
<1> QED
  BY <1>1, <1>2, PTL DEF KCSpec

-----------------------------------------------------------------------------
(* A backedge that the checker accepts leads to a node that is in the      *)
(* stack, and cuts the other stack to no more than it holds                *)
(* (checker.c:125,131-132).                                                *)
THEOREM CheckerOnlyPops == KCSpec => []CheckerRewindsOnlyPop
<1>1. KCInv => CheckerRewindsOnlyPop
  <2> SUFFICES ASSUME KCInv, phase = "check", C!Looping,
                      NEW w \in BackedgeTargets(edges, cIdx), C!BackedgeAgrees(w)
               PROVE  /\ cStack[C!Possible].mem[position[w]] = w
                      /\ cHistory[w] <= cStack[OtherStack(C!Possible)].n
    BY DEF CheckerRewindsOnlyPop
  <2>1. IntactInv /\ WalkInv /\ Room /\ cIdx < numNodes - 2
    BY DEF KCInv, C!Looping, C!maxNumNodes
  <2> QED
    BY <2>1, AgreedEnd DEF Holds
<1> QED
  BY <1>1, StacksFollowTheGraph, PTL

(* What both loops push fits in the stacks that they allocate              *)
LEMMA StacksFit ==
  ASSUME IntactInv, WalkInv, Room
  PROVE  \A s \in StackNames : cStack[s].n <= C!nBits
<1>1. /\ numNodes \in Nat /\ n \in Nat \ {0} /\ C!nBits \in Nat /\ n <= C!nBits
      /\ 2 * (numNodes - 2 - n) <= n
  BY DEF IntactInv, IntactShape, IntactCount, Room
<1>2. cIdx \in 1..(numNodes - 1)
  BY DEF WalkInv, WalkTyped
<1>3. ASSUME NEW s \in StackNames
      PROVE  cStack[s].n \in Nat /\ 2 * cStack[s].n <= cIdx + 1
  BY <1>1, <1>2 DEF WalkInv, WalkTyped, WalkBound, StackNames
<1> QED
  BY <1>1, <1>2, <1>3

(* The stacks of n_bits entries hold what the checker pushes, and it reads *)
(* no bit past the end of the key (checker.c:72-77,135,143).               *)
THEOREM CheckerStaysInBounds == KCSpec => []CheckerMemorySafe
<1>1. KCInv => CheckerMemorySafe
  <2> SUFFICES ASSUME KCInv, phase = "check", verdict = "none"
               PROVE  /\ \A s \in StackNames : cStack[s].n <= C!nBits
                      /\ C!Looping => /\ cStack[OwnStack(cIdx)].n < C!nBits
                                      /\ cIdx + 2 < numNodes
                                      /\ C!bit = 1 => cI <= NumBits - 1
    BY DEF CheckerMemorySafe
  <2>1. IntactInv /\ WalkInv /\ Room /\ ClaimTyped
    BY DEF KCInv
  <2>2. \A s \in StackNames : cStack[s].n <= C!nBits
    BY <2>1, StacksFit
  <2>3. ASSUME C!Looping
        PROVE  cStack[OwnStack(cIdx)].n < C!nBits /\ cIdx + 2 < numNodes
    <3>1. cIdx < numNodes - 2
      BY <2>3 DEF C!Looping, C!maxNumNodes
    <3> QED
      BY <2>1, <3>1, WalkFacts DEF WalkInv, OwnStack, StackNames
  <2>4. C!bit = 1 => cI <= NumBits - 1
    BY <2>1, NumBitsAssumption DEF ClaimTyped, C!bit, C!KeyBit
  <2> QED
    BY <2>2, <2>3, <2>4
<1> QED
  BY <1>1, StacksFollowTheGraph, PTL

-----------------------------------------------------------------------------
(* watermark_check_analysis writes a mark for each bit of the key, no more *)
(* and no fewer.  Each node takes a mark, a forward edge that is left      *)
(* takes two and makes the node it leads to mute.  The loop may take nodes *)
(* for a forward edge where there is none, but never jumps over the start  *)
(* of one, nor over a mute node: so the marks and the nodes differ by the  *)
(* mute nodes it has come across, and by all of them in the end.           *)

Left(u) == <<u, u + 2>> \in edges

(* The forward edges whose end the loop has gone past, and the others      *)
Crossed(x) == {u \in 0..(x - 3) : Left(u)}
Ahead(x) == {u \in (x - 2)..(numNodes - 4) : Left(u)}

Marks == {"0", "1", "x"}

MarksInv ==
  /\ marks \in Seq(Marks) /\ Len(marks) = cI - claimStart
  /\ C!SizeMatches
  /\ cIdx < numNodes - 2 => ~Left(cIdx - 1) /\ Len(marks) = cIdx - Cardinality(Crossed(cIdx))
  /\ cIdx >= numNodes - 2 => Len(marks) = C!nBits

AnalysisInv ==
  /\ phase \in {"encode", "check"} => marks = <<"1">>
  /\ phase = "analyse" => MarksInv

-----------------------------------------------------------------------------
LEMMA LeftApart ==
  ASSUME IntactInv
  PROVE  /\ numNodes \in Nat /\ ~Left(0)
         /\ \A u \in Int : Left(u) => /\ u \in 1..(numNodes - 4)
                                      /\ ~Left(u + 1) /\ ~Left(u + 2)
<1>1. /\ numNodes \in Nat /\ idx \in Nat \ {0}
      /\ Intact \subseteq (0..(numNodes - 1)) \X (0..(numNodes - 1))
  BY DEF IntactInv, IntactShape
<1>2. \A u \in Int : Left(u) => WasForward(u)
  BY PathKept DEF Left, WasForward
<1>3. ASSUME NEW u \in Int, WasForward(u)
      PROVE  u \in 1..(numNodes - 4) /\ ~WasForward(u + 1) /\ ~WasForward(u + 2)
  <2>1. <<u, u + 2>> \in Intact /\ u \in 0..(numNodes - 1) /\ u \in Nat
    BY <1>1, <1>3 DEF WasForward
  <2>2. u < idx
    BY <1>1, <2>1 DEF IntactInv, IntactShape
  <2>3. u # 0 /\ ~WasForward(u + 1) /\ ~WasForward(u + 2)
    BY <1>3, <2>1 DEF IntactInv, IntactForward
  <2>4. numNodes - 2 = idx + (IF WasForward(idx - 1) \/ WasForward(idx - 2) THEN 1 ELSE 0)
    BY DEF IntactInv, IntactShape
  <2>5. CASE u = idx - 1 \/ u = idx - 2
    <3>1. numNodes - 2 = idx + 1
      BY <1>3, <2>4, <2>5
    <3> QED
      BY <1>1, <2>1, <2>2, <2>3, <3>1
  <2>6. CASE u < idx - 2
    <3> DEFINE m == IF WasForward(idx - 1) \/ WasForward(idx - 2) THEN 1 ELSE 0
    <3>1. m \in Nat /\ numNodes - 2 = idx + m
      BY <2>4
    <3> HIDE DEF m
    <3> QED
      BY <1>1, <2>1, <2>3, <2>6, <3>1
  <2> QED
    BY <1>1, <2>1, <2>2, <2>3, <2>5, <2>6
<1>4. ~Left(0)
  BY <1>2 DEF IntactInv, IntactForward
<1>5. \A u \in Int : Left(u) => ~Left(u + 1) /\ ~Left(u + 2)
  <2>1. \A u \in Int : u + 1 \in Int /\ u + 2 \in Int
    OBVIOUS
  <2> QED
    BY <1>2, <1>3, <2>1
<1> QED
  BY <1>1, <1>2, <1>3, <1>4, <1>5

(* The forward edges that are left are crossed or ahead                    *)
LEMMA CrossedOrAhead ==
  ASSUME IntactInv, C!SizeMatches, C!nBits \in Nat, NEW x \in 1..(numNodes - 1)
  PROVE  /\ IsFiniteSet(Crossed(x)) /\ IsFiniteSet(Ahead(x))
         /\ Cardinality(Crossed(x)) \in Nat /\ Cardinality(Ahead(x)) \in Nat
         /\ C!nBits = numNodes - 2 - Cardinality(Crossed(x)) - Cardinality(Ahead(x))
<1> DEFINE left == {v \in C!Nodes : C!HasForward(edges, v)}
<1>1. numNodes \in Nat /\ \A u \in Int : Left(u) => u \in 1..(numNodes - 4)
  BY LeftApart
<1>2. C!nBits = numNodes - 2 - Cardinality(left)
  BY DEF C!SizeMatches, C!Cardinality, Cardinality
<1>3. IsFiniteSet(Crossed(x)) /\ IsFiniteSet(Ahead(x))
  <2>1. Crossed(x) \in SUBSET (0..(x - 3)) /\ Ahead(x) \in SUBSET ((x - 2)..(numNodes - 4))
    BY DEF Crossed, Ahead
  <2>2. IsFiniteSet(0..(x - 3)) /\ IsFiniteSet((x - 2)..(numNodes - 4))
    BY <1>1, FS_Interval
  <2> QED
    BY <2>1, <2>2, FS_Subset
<1>4. Crossed(x) \cap Ahead(x) = {}
  BY <1>1 DEF Crossed, Ahead
<1>5. left = Crossed(x) \cup Ahead(x)
  <2>1. \A v \in C!Nodes : C!HasForward(edges, v) <=> Left(v)
    <3>1. ASSUME NEW v \in C!Nodes, NEW e \in edges, e[1] = v, e[2] > v + 1
          PROVE  Left(v)
      <4>1. e \in Intact /\ v \in Nat
        BY PathKept DEF C!Nodes
      <4>2. e = <<e[1], e[2]>> /\ e[1] \in Nat /\ e[2] \in Nat
        BY <4>1 DEF IntactInv, IntactShape
      <4>3. e[2] = v + 2
        BY <3>1, <4>1, <4>2 DEF IntactInv, IntactShape
      <4> QED
        BY <3>1, <4>2, <4>3 DEF Left
    <3>2. ASSUME NEW v \in C!Nodes, Left(v)
          PROVE  C!HasForward(edges, v)
      <4>1. <<v, v + 2>>[1] = v /\ <<v, v + 2>>[2] > v + 1
        BY DEF C!Nodes
      <4> QED
        BY <3>2, <4>1 DEF Left, C!HasForward
    <3> QED
      BY <3>1, <3>2 DEF C!HasForward
  <2>2. \A v \in Crossed(x) \cup Ahead(x) : v \in C!Nodes /\ Left(v)
    BY <1>1 DEF Crossed, Ahead, C!Nodes
  <2>3. \A v \in C!Nodes : Left(v) => v \in Crossed(x) \cup Ahead(x)
    BY <1>1 DEF Crossed, Ahead, C!Nodes
  <2> QED
    BY <2>1, <2>2, <2>3
<1> HIDE DEF left
<1>6. Cardinality(left) = Cardinality(Crossed(x)) + Cardinality(Ahead(x))
  <2>1. Cardinality(Crossed(x) \cap Ahead(x)) = 0
    BY <1>4, FS_EmptySet
  <2>2. Cardinality(Crossed(x)) \in Nat /\ Cardinality(Ahead(x)) \in Nat
    BY <1>3, FS_CardinalityType
  <2> QED
    BY <1>3, <1>5, <2>1, <2>2, FS_Union
<1>7. Cardinality(Crossed(x)) \in Nat /\ Cardinality(Ahead(x)) \in Nat
  BY <1>3, FS_CardinalityType
<1> QED
  BY <1>1, <1>2, <1>3, <1>6, <1>7

(* How many bits of the key are left at node x: none for a mute node at    *)
(* the end, and elsewhere one only if the loop ends with the node          *)
LEMMA BitsLeft ==
  ASSUME IntactInv, C!SizeMatches, C!nBits \in Nat,
         NEW x \in 1..(numNodes - 3), ~Left(x - 1),
         NEW m, m = x - Cardinality(Crossed(x))
  PROVE  /\ m \in Int /\ m <= C!nBits
         /\ Left(x - 2) /\ x = numNodes - 3 => m = C!nBits
         /\ ~Left(x - 2) => m < C!nBits
         /\ ~Left(x - 2) /\ m = C!nBits - 1 => x >= numNodes - 4
         /\ ~Left(x - 2) /\ x = numNodes - 3 => m = C!nBits - 1
         /\ ~Left(x - 2) /\ x = numNodes - 4 =>
              m = IF Left(x) THEN C!nBits - 1 ELSE C!nBits - 2
<1> DEFINE k == Cardinality(Ahead(x))
<1>1. numNodes \in Nat /\ \A u \in Int : Left(u) => ~Left(u + 1)
  BY LeftApart
<1>2. /\ IsFiniteSet(Ahead(x)) /\ k \in Nat /\ Cardinality(Crossed(x)) \in Nat
      /\ m \in Int /\ C!nBits - m = numNodes - 2 - x - k
  <2>1. x \in 1..(numNodes - 1)
    BY <1>1
  <2> QED
    BY <1>1, <2>1, CrossedOrAhead
<1> HIDE DEF k
<1>3. x \in Nat
  OBVIOUS
<1>4. IsFiniteSet(x..(numNodes - 4)) /\ Cardinality(x..(numNodes - 4)) = numNodes - 3 - x
  <2>1. numNodes - 4 \in Int /\ x \in Int
    BY <1>1, <1>3
  <2>2. /\ IsFiniteSet(x..(numNodes - 4))
        /\ Cardinality(x..(numNodes - 4)) =
             IF x > numNodes - 4 THEN 0 ELSE (numNodes - 4) - x + 1
    BY <2>1, FS_Interval
  <2>3. IF x > numNodes - 4 THEN numNodes - 3 - x = 0
        ELSE (numNodes - 4) - x + 1 = numNodes - 3 - x
    BY <1>1, <1>3
  <2> QED
    BY <2>2, <2>3
<1>5. CASE ~Left(x - 2)
  <2>1. Ahead(x) \subseteq x..(numNodes - 4)
    <3> SUFFICES ASSUME NEW u \in (x - 2)..(numNodes - 4), Left(u)
                 PROVE  u \in x..(numNodes - 4)
      BY DEF Ahead
    <3>1. u # x - 2 /\ u # x - 1
      BY <1>5
    <3> QED
      BY <1>1, <1>3, <3>1
  <2>2. k <= numNodes - 3 - x
    BY <1>4, <2>1, FS_Subset DEF k
  <2>3. ASSUME k = numNodes - 3 - x, x < numNodes - 4
        PROVE  FALSE
    <3>1. Ahead(x) = x..(numNodes - 4)
      BY <1>4, <2>1, <2>3, FS_Subset DEF k
    <3>2. x \in x..(numNodes - 4) /\ x + 1 \in x..(numNodes - 4)
      BY <1>1, <1>3, <2>3
    <3>3. Left(x) /\ Left(x + 1)
      BY <3>1, <3>2 DEF Ahead
    <3> QED
      BY <1>1, <1>3, <3>3
  <2>4. x = numNodes - 4 => k = IF Left(x) THEN 1 ELSE 0
    <3> SUFFICES ASSUME x = numNodes - 4
                 PROVE  k = IF Left(x) THEN 1 ELSE 0
      OBVIOUS
    <3>1. Ahead(x) = IF Left(x) THEN {x} ELSE {}
      <4>1. \A u \in Ahead(x) : u = x /\ Left(u)
        BY <1>3, <2>1 DEF Ahead
      <4>2. Left(x) => x \in Ahead(x)
        BY <1>3 DEF Ahead
      <4> QED
        BY <4>1, <4>2
    <3> QED
      BY <3>1, FS_EmptySet, FS_Singleton DEF k
  <2> QED
    BY <1>1, <1>2, <1>3, <1>5, <2>2, <2>3, <2>4
<1>6. CASE Left(x - 2)
  <2>1. Ahead(x) \subseteq {x - 2} \cup (x..(numNodes - 4))
    <3> SUFFICES ASSUME NEW u \in (x - 2)..(numNodes - 4), Left(u)
                 PROVE  u = x - 2 \/ u \in x..(numNodes - 4)
      BY DEF Ahead
    <3>1. u # x - 1
      OBVIOUS
    <3> QED
      BY <1>1, <1>3, <3>1
  <2>2. /\ IsFiniteSet({x - 2} \cup (x..(numNodes - 4)))
        /\ Cardinality({x - 2} \cup (x..(numNodes - 4))) = numNodes - 2 - x
    <3>1. x - 2 \notin x..(numNodes - 4)
      BY <1>3
    <3>2. (x..(numNodes - 4)) \cup {x - 2} = {x - 2} \cup (x..(numNodes - 4))
      OBVIOUS
    <3> QED
      <4>1. /\ IsFiniteSet((x..(numNodes - 4)) \cup {x - 2})
            /\ Cardinality((x..(numNodes - 4)) \cup {x - 2})
                 = Cardinality(x..(numNodes - 4)) + 1
        BY <1>4, <3>1, FS_AddElement
      <4>2. (numNodes - 3 - x) + 1 = numNodes - 2 - x
        BY <1>1, <1>3
      <4> QED
        BY <1>4, <3>2, <4>1, <4>2
  <2>3. k <= numNodes - 2 - x
    BY <2>1, <2>2, FS_Subset DEF k
  <2>4. x = numNodes - 3 => k = 1
    <3> SUFFICES ASSUME x = numNodes - 3
                 PROVE  k = 1
      OBVIOUS
    <3>1. Ahead(x) = {x - 2}
      <4>1. \A u \in Ahead(x) : u = x - 2
        <5>1. x..(numNodes - 4) = {}
          BY <1>1, <1>3
        <5> QED
          BY <2>1, <5>1
      <4>2. x - 2 \in Ahead(x)
        <5>1. x - 2 \in (x - 2)..(numNodes - 4)
          BY <1>1, <1>3
        <5> QED
          BY <1>6, <5>1 DEF Ahead
      <4> QED
        BY <4>1, <4>2
    <3> QED
      BY <3>1, FS_Singleton DEF k
  <2> QED
    BY <1>1, <1>2, <1>3, <1>6, <2>3, <2>4
<1> QED
  BY <1>5, <1>6

(* A node is mute if and only if a forward edge that is left leads to it,  *)
(* and what the loop jumps over is the start of none                       *)
LEMMA StatusSeesLeft ==
  ASSUME IntactInv, NEW x \in Nat \ {0}, x = cIdx, x < numNodes - 2
  PROVE  /\ C!Status = "mute" <=> Left(x - 2)
         /\ ForwardStatus => ~Left(x - 2) /\ ~Left(x + 1)
         /\ ~ForwardStatus => ~Left(x)
<1> DEFINE mute == x > 1 /\ <<x - 2, x>> \in edges
           back == BackedgeTargets(edges, x)
           odd == \E w \in back : (x - w) % 2 = 1
           fwd == <<x, x + 2>> \in edges
           path == <<x + 1, x + 2>> \in edges
           last == C!LastFourOnlyHamiltonian /\ x = numNodes - 4 /\ C!bit = 1
           looks == C!LooksLikeIf
<1>1. /\ numNodes \in Nat
      /\ \A u \in Int : Left(u) => u \in 1..(numNodes - 4) /\ ~Left(u + 1) /\ ~Left(u + 2)
  BY LeftApart
<1>2. C!Status =
        IF mute THEN "mute"
        ELSE IF fwd THEN IF path THEN "forward0" ELSE "forward1"
        ELSE IF odd THEN "back1"
        ELSE IF back # {} THEN "back0"
        ELSE IF ~path THEN "forward1"
        ELSE IF last THEN "forward0"
        ELSE IF looks THEN "forward0"
        ELSE "zero"
  BY DEF C!Status, C!Connected, C!BackedgeTargets, BackedgeTargets, Connected
<1>3. mute <=> Left(x - 2)
  <2>1. x - 2 \in Int /\ (x - 2) + 2 = x
    OBVIOUS
  <2>2. Left(x - 2) => x > 1
    BY <1>1, <2>1
  <2> QED
    BY <2>1, <2>2 DEF Left
<1>4. fwd <=> Left(x)
  BY DEF Left
<1>5. ~path => ~Left(x + 1)
  <2>1. x + 1 \in 0..(numNodes - 2) /\ (x + 1) + 1 = x + 2 /\ (x + 1) - 1 = x
    BY <1>1
  <2>2. ASSUME ~path
        PROVE  ~WasForward(x + 1)
    <3>1. WasForward((x + 1) - 1)
      BY <2>1, <2>2, PathKept
    <3> QED
      BY <2>1, <3>1 DEF IntactInv, IntactForward
  <2>3. Left(x + 1) => WasForward(x + 1)
    BY PathKept DEF Left, WasForward
  <2> QED
    BY <2>2, <2>3
<1>6. C!OnlyHamiltonian(x + 1) => ~Left(x + 1)
  <2> SUFFICES ASSUME C!OnlyHamiltonian(x + 1), Left(x + 1)
               PROVE  FALSE
    OBVIOUS
  <2>1. C!Successors(edges, x + 1) = {(x + 1) + 1}
    BY <1>1 DEF C!OnlyHamiltonian
  <2>2. (x + 1) + 2 \in C!Successors(edges, x + 1)
    <3>1. <<x + 1, (x + 1) + 2>> \in {f \in edges : f[1] = x + 1}
      BY DEF Left
    <3>2. <<x + 1, (x + 1) + 2>>[2] = (x + 1) + 2
      OBVIOUS
    <3> QED
      BY <3>1, <3>2 DEF C!Successors
  <2> QED
    BY <2>1, <2>2
<1>7. last => ~Left(x + 1)
  <2>1. x = numNodes - 4 => x + 1 \in (numNodes - 4)..(numNodes - 1)
    BY <1>1
  <2> QED
    BY <1>6, <2>1 DEF C!LastFourOnlyHamiltonian
<1>8. looks => ~Left(x + 1)
  <2>1. x + 1 \in x..(x + 2)
    OBVIOUS
  <2> QED
    BY <1>6, <2>1 DEF C!LooksLikeIf
<1>9. Left(x) => ~Left(x + 1)
  BY <1>1
<1>10. Left(x - 2) => ~Left(x)
  <2>1. (x - 2) + 2 = x /\ x - 2 \in Int
    OBVIOUS
  <2> QED
    BY <1>1, <2>1
<1>11. odd => back # {}
  OBVIOUS
<1> HIDE DEF mute, back, odd, fwd, path, last, looks
<1>12. /\ C!Status = "mute" <=> mute
       /\ ForwardStatus => ~mute /\ (fwd \/ ~path \/ last \/ looks)
       /\ ~ForwardStatus => mute \/ ~fwd
  BY <1>2, <1>11 DEF ForwardStatus
<1> QED
  BY <1>3, <1>4, <1>5, <1>7, <1>8, <1>9, <1>10, <1>12

(* What the loop crosses with a node                                       *)
LEMMA Crossing ==
  ASSUME IntactInv, NEW x \in 1..(numNodes - 3), C!SizeMatches, C!nBits \in Nat
  PROVE  /\ Cardinality(Crossed(x)) \in Nat
         /\ Left(x - 2) => Cardinality(Crossed(x + 1)) = Cardinality(Crossed(x)) + 1
         /\ ~Left(x - 2) => Crossed(x + 1) = Crossed(x)
         /\ ~Left(x - 2) /\ ~Left(x - 1) => Crossed(x + 2) = Crossed(x)
<1>1. numNodes \in Nat /\ \A u \in Int : Left(u) => u \in 1..(numNodes - 4)
  BY LeftApart
<1>2. IsFiniteSet(Crossed(x)) /\ Cardinality(Crossed(x)) \in Nat /\ x \in Nat
  <2>1. x \in 1..(numNodes - 1)
    BY <1>1
  <2> QED
    BY <2>1, CrossedOrAhead
<1>3. ASSUME Left(x - 2)
      PROVE  Cardinality(Crossed(x + 1)) = Cardinality(Crossed(x)) + 1
  <2>1. x - 2 \in 0..((x + 1) - 3)
    BY <1>1, <1>2, <1>3
  <2>2. Crossed(x + 1) = Crossed(x) \cup {x - 2}
    BY <1>2, <1>3, <2>1 DEF Crossed
  <2>3. x - 2 \notin Crossed(x)
    BY <1>2 DEF Crossed
  <2> QED
    BY <1>2, <2>2, <2>3, FS_AddElement
<1>4. ASSUME ~Left(x - 2)
      PROVE  Crossed(x + 1) = Crossed(x)
  <2>1. \A u \in 0..((x + 1) - 3) : u \in 0..(x - 3) \/ u = x - 2
    BY <1>2
  <2>2. \A u \in 0..(x - 3) : u \in 0..((x + 1) - 3)
    BY <1>2
  <2> QED
    BY <1>4, <2>1, <2>2 DEF Crossed
<1>5. ASSUME ~Left(x - 2), ~Left(x - 1)
      PROVE  Crossed(x + 2) = Crossed(x)
  <2>1. \A u \in 0..((x + 2) - 3) : u \in 0..(x - 3) \/ u = x - 2 \/ u = x - 1
    BY <1>2
  <2>2. \A u \in 0..(x - 3) : u \in 0..((x + 2) - 3)
    BY <1>2
  <2> QED
    BY <1>5, <2>1, <2>2 DEF Crossed
<1> QED
  BY <1>2, <1>3, <1>4, <1>5

(* One mark, two, or none: cI goes on with them                            *)
LEMMA MarksAppended ==
  ASSUME AnalysisMove, marks \in Seq(Marks), Len(marks) = cI - claimStart,
         cI \in Int, claimStart \in Int, claimStart' = claimStart
  PROVE  /\ marks' \in Seq(Marks) /\ Len(marks') = cI' - claimStart'
         /\ Len(marks) \in Nat /\ Len(marks') = Len(marks) + (cI' - cI)
<1>1. \A agrees \in BOOLEAN : \A b : A!Mark(agrees, b) \in Marks
  BY DEF A!Mark, Marks
<1>2. "x" \in Marks
  BY DEF Marks
<1>3. Len(marks) \in Nat
  BY LenProperties
<1>4. ASSUME NEW m \in Marks, marks' = Append(marks, m), cI' = cI + 1
      PROVE  marks' \in Seq(Marks) /\ Len(marks') = Len(marks) + 1
  BY <1>4, AppendProperties
<1>5. ASSUME NEW m \in Marks, NEW k \in Marks, marks' = marks \o <<m, k>>, cI' = cI + 2
      PROVE  marks' \in Seq(Marks) /\ Len(marks') = Len(marks) + 2
  <2>1. <<m, k>> \in Seq(Marks) /\ Len(<<m, k>>) = 2
    OBVIOUS
  <2> QED
    BY <1>5, <2>1, ConcatProperties
<1>6. CASE C!Status = "mute" /\ PassOne /\ cI' = cI /\ marks' = marks
  BY <1>3, <1>6
<1>7. CASE cI' = cI + 1 /\ \E m \in Marks : marks' = Append(marks, m)
  BY <1>3, <1>4, <1>7
<1>8. CASE cI' = cI + 2 /\ \E m \in Marks, k \in Marks : marks' = marks \o <<m, k>>
  BY <1>3, <1>5, <1>8
<1>9. A!Mark(C!bit = 0, 0) \in Marks /\ A!Mark(C!bit = 1, 1) \in Marks
      /\ A!Mark(TRUE, C!bit) \in Marks
  BY <1>1
<1>10. \A b : A!Mark(b = A!InnerBit, A!InnerBit) \in Marks
  BY <1>1
<1>11. ASSUME C!Status = "zero" /\ PassOne /\ cI' = cI + 1
                /\ marks' = Append(marks, A!Mark(C!bit = 0, 0))
       PROVE  cI' = cI + 1 /\ \E m \in Marks : marks' = Append(marks, m)
  BY <1>9, <1>11
<1>12. ASSUME GoBack /\ cI' = cI + 1 /\ marks' = Append(marks, A!Mark(TRUE, C!bit))
       PROVE  cI' = cI + 1 /\ \E m \in Marks : marks' = Append(marks, m)
  BY <1>9, <1>12
<1>13. ASSUME PassOne /\ cI' = cI + 1 /\ marks' = Append(marks, "x")
       PROVE  cI' = cI + 1 /\ \E m \in Marks : marks' = Append(marks, m)
  BY <1>2, <1>13
<1>14. ASSUME cI' = cI + 1 /\ marks' = Append(marks, A!Mark(C!bit = 1, 1))
       PROVE  cI' = cI + 1 /\ \E m \in Marks : marks' = Append(marks, m)
  BY <1>9, <1>14
<1>15. ASSUME cI' = cI + 2,
              \E next \in IF cI + 1 < NumBits THEN {claim[cI + 1]} ELSE {0, 1} :
                marks' = marks \o <<A!Mark(C!bit = 1, 1), A!Mark(next = A!InnerBit, A!InnerBit)>>
       PROVE  cI' = cI + 2 /\ \E m \in Marks, k \in Marks : marks' = marks \o <<m, k>>
  <2>1. PICK next :
          marks' = marks \o <<A!Mark(C!bit = 1, 1), A!Mark(next = A!InnerBit, A!InnerBit)>>
    BY <1>15
  <2> QED
    BY <1>9, <1>10, <1>15, <2>1
<1> QED
  BY <1>6, <1>7, <1>8, <1>11, <1>12, <1>13, <1>14, <1>15 DEF AnalysisMove

(* Where the loop goes on from a node, and with how many marks             *)
LEMMA MarksCount ==
  ASSUME IntactInv, ClaimTyped, C!SizeMatches, C!nBits \in Nat,
         NEW x \in 1..(numNodes - 3), x = cIdx, ~Left(x - 1),
         NEW m \in Nat, m = cI - claimStart, m = x - Cardinality(Crossed(x)),
         AnalysisMove,
         NEW y, y = cIdx', NEW l, l = m + (cI' - cI)
  PROVE  /\ y < numNodes - 2 => ~Left(y - 1) /\ l = y - Cardinality(Crossed(y))
         /\ y >= numNodes - 2 => l = C!nBits
<1>1. /\ numNodes \in Nat /\ x \in Nat \ {0} /\ x < numNodes - 2
      /\ \A u \in Int : Left(u) => ~Left(u + 1) /\ ~Left(u + 2)
  BY LeftApart
<1>2. /\ cI \in Nat /\ claimStart \in Int /\ NumBits \in Nat
      /\ cI = NumBits - 1 <=> m = C!nBits - 1
  BY NumBitsAssumption DEF ClaimTyped, C!nBits
<1>3. /\ C!Status = "mute" <=> Left(x - 2)
      /\ ForwardStatus => ~Left(x - 2) /\ ~Left(x + 1)
      /\ ~ForwardStatus => ~Left(x)
  BY <1>1, StatusSeesLeft
<1>4. /\ m <= C!nBits
      /\ Left(x - 2) /\ x = numNodes - 3 => m = C!nBits
      /\ ~Left(x - 2) => m < C!nBits
      /\ ~Left(x - 2) /\ m = C!nBits - 1 => x >= numNodes - 4
      /\ ~Left(x - 2) /\ x = numNodes - 3 => m = C!nBits - 1
      /\ ~Left(x - 2) /\ x = numNodes - 4 =>
           m = IF Left(x) THEN C!nBits - 1 ELSE C!nBits - 2
  BY BitsLeft
<1>5. /\ Cardinality(Crossed(x)) \in Nat
      /\ Left(x - 2) => Cardinality(Crossed(x + 1)) = Cardinality(Crossed(x)) + 1
      /\ ~Left(x - 2) => Crossed(x + 1) = Crossed(x)
      /\ ~Left(x - 2) => Crossed(x + 2) = Crossed(x)
  BY Crossing
<1>6. (x + 1) - 1 = x /\ (x + 2) - 1 = x + 1
  BY <1>1
<1>7. CASE C!Status = "mute" /\ PassOne /\ cI' = cI
  <2>1. Left(x - 2) /\ ~Left(x) /\ y = x + 1 /\ l = m
    BY <1>2, <1>3, <1>7 DEF PassOne
  <2> QED
    BY <1>1, <1>4, <1>5, <1>6, <2>1
<1>8. CASE ~Left(x - 2) /\ ~Left(x) /\ y = x + 1 /\ l = m + 1
  BY <1>1, <1>4, <1>5, <1>6, <1>8
<1>9. CASE cI = NumBits - 1 /\ PassTwo /\ cI' = cI + 1
  <2>1. ~Left(x - 2) /\ y = x + 2 /\ l = m + 1
    BY <1>2, <1>3, <1>9 DEF PassTwo
  <2> QED
    BY <1>1, <1>2, <1>4, <1>9, <2>1
<1>10. CASE cI # NumBits - 1 /\ PassTwo /\ cI' = cI + 2
  <2>1. ~Left(x - 2) /\ ~Left(x + 1) /\ y = x + 2 /\ l = m + 2
    BY <1>2, <1>3, <1>10 DEF PassTwo
  <2> QED
    BY <1>1, <1>2, <1>4, <1>5, <1>6, <1>10, <2>1
<1>11. ASSUME C!Status = "zero", PassOne, cI' = cI + 1
       PROVE  ~Left(x - 2) /\ ~Left(x) /\ y = x + 1 /\ l = m + 1
  <2>1. C!Status # "mute" /\ ~ForwardStatus /\ y = x + 1
    BY <1>11 DEF PassOne
  <2>2. l = m + 1
    BY <1>2, <1>11
  <2> QED
    BY <1>3, <2>1, <2>2
<1>12. ASSUME BackStatus, ~ForwardStatus, cIdx' = cIdx + 1, cI' = cI + 1
       PROVE  ~Left(x - 2) /\ ~Left(x) /\ y = x + 1 /\ l = m + 1
  BY <1>2, <1>3, <1>12 DEF BackStatus
<1>13. GoBack => BackStatus /\ ~ForwardStatus /\ cIdx' = cIdx + 1
  BY DEF GoBack, BackStatus, ForwardStatus
<1> QED
  BY <1>7, <1>8, <1>9, <1>10, <1>11, <1>12, <1>13 DEF AnalysisMove, PassOne

LEMMA MarksStep ==
  ASSUME IntactInv, ClaimTyped, C!nBits \in Nat, MarksInv, cIdx \in 1..(numNodes - 3),
         AnalysisMove, UNCHANGED Given
  PROVE  MarksInv'
<1>1. PICK x \in 1..(numNodes - 3) : x = cIdx
  OBVIOUS
<1>2. numNodes \in Nat
  BY LeftApart
<1>3. /\ marks \in Seq(Marks) /\ Len(marks) = cI - claimStart /\ C!SizeMatches
      /\ ~Left(x - 1) /\ Len(marks) = x - Cardinality(Crossed(x))
  BY <1>1, <1>2 DEF MarksInv
<1>4. /\ cI \in Int /\ claimStart \in Int /\ claimStart' = claimStart
      /\ edges' = edges /\ numNodes' = numNodes /\ C!nBits' = C!nBits
      /\ C!SizeMatches'
  BY <1>3, NumBitsAssumption
     DEF ClaimTyped, Given, C!nBits, C!SizeMatches, C!Nodes
<1>5. /\ marks' \in Seq(Marks) /\ Len(marks') = cI' - claimStart'
      /\ Len(marks) \in Nat /\ Len(marks') = Len(marks) + (cI' - cI)
  BY <1>3, <1>4, MarksAppended
<1>6. PICK y : y = cIdx'
  OBVIOUS
<1>7. /\ y < numNodes - 2 => ~Left(y - 1) /\ Len(marks') = y - Cardinality(Crossed(y))
      /\ y >= numNodes - 2 => Len(marks') = C!nBits
  BY <1>1, <1>3, <1>5, <1>6, MarksCount
<1>8. Left(cIdx - 1)' <=> Left(y - 1)
  BY <1>4, <1>6 DEF Left
<1>9. Crossed(cIdx)' = Crossed(y)
  BY <1>4, <1>6 DEF Crossed, Left
<1> QED
  BY <1>4, <1>5, <1>6, <1>7, <1>8, <1>9 DEF MarksInv

LEMMA FirstMarksFit ==
  ASSUME IntactInv, C!SizeMatches, C!nBits \in Nat, cIdx = 1, n \in Nat \ {0},
         numNodes >= n + 2, marks = <<"1">>, claimStart \in Int, cI = claimStart + 1
  PROVE  MarksInv
<1>1. numNodes \in Nat /\ numNodes >= 3 /\ ~Left(0)
      /\ \A u \in Int : Left(u) => u \in 1..(numNodes - 4)
  BY LeftApart
<1>2. marks \in Seq(Marks) /\ Len(marks) = 1
  BY DEF Marks
<1>3. Crossed(1) = {} /\ Cardinality(Crossed(1)) = 0
  BY FS_EmptySet DEF Crossed
<1>4. ASSUME numNodes = 3
      PROVE  C!nBits = 1
  <2>1. Ahead(1) = {}
    BY <1>1, <1>4 DEF Ahead
  <2>2. 1 \in 1..(numNodes - 1)
    BY <1>4
  <2> QED
    BY <1>3, <1>4, <2>1, <2>2, CrossedOrAhead, FS_EmptySet
<1> QED
  BY <1>1, <1>2, <1>3, <1>4 DEF MarksInv

-----------------------------------------------------------------------------
LEMMA AnalysisStarts == KCInv /\ StartAnalysing /\ marks = <<"1">> => MarksInv'
<1> SUFFICES ASSUME KCInv, StartAnalysing, marks = <<"1">>
             PROVE  MarksInv'
  OBVIOUS
<1>1. /\ phase = "check" /\ C!SizeMatches /\ UNCHANGED Given
      /\ cIdx' = 1 /\ cI' = claimStart + 1 /\ marks' = marks
  BY DEF StartAnalysing, Given, vars
<1>2. IntactInv /\ ClaimTyped
  BY <1>1 DEF KCInv
<1>3. Room
  BY <1>1, <1>2, SizeLeavesRoom
<1>4. /\ IntactInv' /\ C!nBits' \in Nat /\ n' \in Nat \ {0} /\ numNodes' >= n' + 2
      /\ C!SizeMatches' /\ claimStart' \in Int
  <2>1. n \in Nat \ {0} /\ numNodes \in Nat /\ numNodes >= n + 2
    <3>1. n \in Nat \ {0} /\ numNodes \in Nat /\ Cardinality(ForwardNodes) = numNodes - 2 - n
          /\ idx \in Nat
      BY <1>2 DEF IntactInv, IntactShape, IntactCount
    <3>2. IsFiniteSet(ForwardNodes)
      <4>1. IsFiniteSet(0..(idx - 1))
        BY <3>1, FS_Interval
      <4>2. ForwardNodes \in SUBSET (0..(idx - 1))
        BY DEF ForwardNodes
      <4> QED
        BY <4>1, <4>2, FS_Subset
    <3>3. Cardinality(ForwardNodes) \in Nat
      BY <3>2, FS_CardinalityType
    <3> QED
      BY <3>1, <3>3
  <2>2. n' = n /\ numNodes' = numNodes /\ C!nBits' = C!nBits
    BY <1>1 DEF Given, n, C!nBits
  <2>3. C!SizeMatches' /\ claimStart' \in Int
    BY <1>1, <1>2, NumBitsAssumption
       DEF Given, C!SizeMatches, C!nBits, C!Nodes, ClaimTyped
  <2>4. C!nBits \in Nat
    BY <1>3 DEF Room
  <2> QED
    BY <1>1, <1>2, <2>1, <2>2, <2>3, <2>4, GivenKeeps
<1>5. /\ cIdx' = 1 /\ marks' = <<"1">> /\ cI' = claimStart' + 1
  BY <1>1 DEF Given
<1>6. (/\ IntactInv /\ C!SizeMatches /\ C!nBits \in Nat /\ cIdx = 1 /\ n \in Nat \ {0}
       /\ numNodes >= n + 2 /\ marks = <<"1">> /\ claimStart \in Int
       /\ cI = claimStart + 1)' => MarksInv'
  BY FirstMarksFit, PTL
<1> QED
  BY <1>4, <1>5, <1>6

LEMMA StepAnalysis == KCInv /\ AnalysisInv /\ [KCNext]_allVars => AnalysisInv'
<1> SUFFICES ASSUME KCInv, AnalysisInv, [KCNext]_allVars
             PROVE  AnalysisInv'
  OBVIOUS
<1>1. ASSUME Encode \/ StartChecking \/ Check
      PROVE  AnalysisInv'
  <2>1. phase \in {"encode", "check"} /\ phase' # "analyse" /\ marks' = marks
    BY <1>1 DEF Encode, StartChecking, Check, checkerVars
  <2> QED
    BY <2>1 DEF AnalysisInv
<1>2. ASSUME StartAnalysing
      PROVE  AnalysisInv'
  <2>1. phase = "check" /\ phase' = "analyse"
    BY <1>2 DEF StartAnalysing
  <2> QED
    BY <1>2, <2>1, AnalysisStarts DEF AnalysisInv
<1>3. ASSUME Analyse
      PROVE  AnalysisInv'
  <2>1. /\ UNCHANGED Given /\ phase = "analyse" /\ phase' = "analyse"
        /\ cIdx < numNodes - 2 /\ AnalysisMove
    BY <1>3, AnalysisMoves
  <2>2. IntactInv /\ ClaimTyped /\ MarksInv /\ C!nBits \in Nat /\ WalkTyped
    BY <2>1 DEF KCInv, AnalysisInv, Room, WalkInv
  <2>3. cIdx \in 1..(numNodes - 3)
    BY <2>1, <2>2, LeftApart DEF WalkTyped
  <2> QED
    BY <2>1, <2>2, <2>3, MarksStep DEF AnalysisInv
<1>4. ASSUME ReturnNoMarks \/ RsCheck \/ RsCheckNoMarks
      PROVE  AnalysisInv'
  BY <1>4 DEF ReturnNoMarks, RsCheck, RsCheckNoMarks, AnalysisInv
<1>5. ASSUME Rest \/ UNCHANGED allVars
      PROVE  AnalysisInv'
  <2>1. /\ phase' = phase /\ marks' = marks /\ cIdx' = cIdx /\ cI' = cI
        /\ claimStart' = claimStart /\ edges' = edges /\ numNodes' = numNodes
    BY <1>5 DEF Rest, allVars, checkerVars, vars
  <2>2. MarksInv => MarksInv'
    <3>1. C!nBits' = C!nBits /\ (C!SizeMatches' <=> C!SizeMatches)
      BY <2>1 DEF C!nBits, C!SizeMatches, C!Nodes
    <3>2. (Left(cIdx - 1)' <=> Left(cIdx - 1)) /\ Crossed(cIdx)' = Crossed(cIdx)
      BY <2>1 DEF Left, Crossed
    <3> QED
      BY <2>1, <3>1, <3>2 DEF MarksInv
  <2> QED
    BY <2>1, <2>2 DEF AnalysisInv
<1> QED
  BY <1>1, <1>2, <1>3, <1>4, <1>5 DEF KCNext

LEMMA MarksFollowTheGraph == KCSpec => [](KCInv /\ AnalysisInv)
<1>1. KCInit => AnalysisInv
  BY DEF KCInit, AnalysisInv, A!FirstMarks
<1>2. KCInv /\ AnalysisInv /\ [KCNext]_allVars => AnalysisInv'
  BY StepAnalysis
<1> QED
  BY <1>1, <1>2, StacksFollowTheGraph, PTL DEF KCSpec

(* Whatever the graph has lost and whatever key it is compared with, the   *)
(* analysis writes exactly the n_bits marks it has room for, reads no bit  *)
(* past the key and keeps its stacks (checker.c:240,252,312,319).          *)
THEOREM AnalysisStaysInBounds == KCSpec => []AnalysisKeepsBounds
<1>1. KCInv /\ AnalysisInv => AnalysisKeepsBounds
  <2> SUFFICES ASSUME KCInv, AnalysisInv, phase = "analyse"
               PROVE  /\ \A s \in StackNames : cStack[s].n <= C!nBits
                      /\ Len(marks) <= C!nBits
                      /\ A!Looping /\ A!Status \in {"forward0", "forward1"} => cI < NumBits
                      /\ A!Analysed => Len(marks) = C!nBits
    BY DEF AnalysisKeepsBounds
  <2>1. IntactInv /\ WalkInv /\ Room /\ ClaimTyped /\ MarksInv
    BY DEF KCInv, AnalysisInv
  <2>2. \A s \in StackNames : cStack[s].n <= C!nBits
    BY <2>1, StacksFit
  <2>3. /\ numNodes \in Nat /\ C!nBits \in Nat /\ cIdx \in Nat \ {0}
        /\ A!Looping <=> cIdx < numNodes - 2
    BY <2>1, LeftApart DEF WalkInv, WalkTyped, Room, A!Looping, A!maxNumNodes
  <2>4. /\ Len(marks) = cI - claimStart /\ C!SizeMatches
        /\ cIdx >= numNodes - 2 => Len(marks) = C!nBits
    BY <2>1 DEF MarksInv
  <2>5. A!Analysed => Len(marks) = C!nBits
    BY <2>3, <2>4 DEF A!Analysed
  <2>6. ASSUME A!Looping
        PROVE  /\ Len(marks) <= C!nBits
               /\ A!Status \in {"forward0", "forward1"} => cI < NumBits
    <3>1. PICK x \in 1..(numNodes - 3) : x = cIdx
      BY <2>3, <2>6
    <3>2. ~Left(x - 1) /\ Len(marks) = x - Cardinality(Crossed(x))
      BY <2>1, <2>3, <2>6, <3>1 DEF MarksInv
    <3>3. Len(marks) <= C!nBits /\ (~Left(x - 2) => Len(marks) < C!nBits)
      BY <2>1, <2>3, <2>4, <3>2, BitsLeft
    <3>4. ForwardStatus => ~Left(x - 2)
      BY <2>1, <2>3, <2>6, <3>1, StatusSeesLeft
    <3>5. A!Status = C!Status
      BY SameStatus
    <3>6. Len(marks) < C!nBits => cI < NumBits
      BY <2>1, <2>4, NumBitsAssumption DEF ClaimTyped, C!nBits
    <3> QED
      BY <3>3, <3>4, <3>5, <3>6 DEF ForwardStatus
  <2> QED
    BY <2>2, <2>3, <2>4, <2>5, <2>6 DEF A!Analysed
<1> QED
  BY <1>1, MarksFollowTheGraph, PTL

-----------------------------------------------------------------------------
(***************************************************************************)
(* Proofs about what watermark_check decides, for keys of every length.    *)
(*                                                                         *)
(* The checker reads the nodes along the numbering that the encoder left:  *)
(* as long as the key is that of the graph and no connection that stands   *)
(* for a 1 is lost, each node it comes to means the bit it is at.          *)
(***************************************************************************)
WasOdd(v) == \E w \in Nat : WasBack(v, w) /\ (v - w) % 2 = 1
WasMeaning(v) == IF WasForward(v) \/ WasOdd(v) THEN 1 ELSE 0

(* The numbering of the graph as it was encoded *)
WasNumbered(pos) ==
  /\ pos \in [1..idx -> 1..n]
  /\ pos[1] = 1 /\ pos[idx] = n
  /\ \A v \in 1..(idx - 1) :
       IF WasForward(v - 2)
       THEN pos[v + 1] = pos[v]
       ELSE pos[v + 1] = pos[v] + 1 /\ data[start + pos[v]] = WasMeaning(v)

IntactReads == \E pos : WasNumbered(pos)

KeptForward == \A e \in removed : e[2] <= e[1]
KeptOnes == \A e \in removed : ~StandsForOne(e)

(* A node that ends no block was visited, unless it is inside a forward    *)
(* edge                                                                    *)
Visited ==
  \A w \in Nat : w < cIdx /\ ~WasForward(w - 1) /\ (\A y \in Nat : ~WasBack(w, y))
                   => position[w] # C!Unset

(* The checker is at the bit that the node it is at was given              *)
AlongKey ==
  /\ claimStart = start
  /\ ~WasForward(cIdx - 1)
  /\ cIdx <= idx => \E pos : WasNumbered(pos) /\ cI = start + pos[cIdx]
  /\ Visited

VerdictInv ==
  /\ start \in FirstPositiveBitIndex(data)
  /\ phase = "encode" => verdict = "none"
  /\ phase # "encode" => IntactReads
  /\ phase # "encode" /\ claim = data /\ KeptOnes => verdict # "reject"
  /\ phase = "check" /\ verdict = "none" /\ claim = data /\ KeptOnes => AlongKey

-----------------------------------------------------------------------------
(* The status of a node when no forward edge is lost                       *)
LEMMA StatusIs ==
  ASSUME IntactInv, KeptForward, NEW v \in Nat \ {0}, v = cIdx, v < numNodes - 2
  PROVE  /\ WasForward(v - 2) => C!Status = "mute"
         /\ ~WasForward(v - 2) /\ WasForward(v) =>
              C!Status = IF WasBack(v + 1, v) THEN "forward1" ELSE "forward0"
         /\ ~WasForward(v - 2) /\ ~WasForward(v) /\ BackedgeTargets(edges, v) # {} =>
              BackStatus
         /\ ~WasForward(v - 2) /\ ~WasForward(v) /\ BackedgeTargets(edges, v) = {} =>
              \/ C!Status = "zero"
              \/ /\ C!Status = "forward0" /\ C!bit = 1
                 /\ \/ C!LastFourOnlyHamiltonian /\ v = numNodes - 4
                    \/ C!LooksLikeIf
<1>1. numNodes \in Nat
  BY DEF IntactInv, IntactShape
<1>2. \A u \in Int : WasForward(u) <=> <<u, u + 2>> \in edges
  <2>1. ASSUME NEW u \in Int
        PROVE  <<u, u + 2>> \notin removed
    <3>1. ~(<<u, u + 2>>[2] <= <<u, u + 2>>[1])
      OBVIOUS
    <3> QED
      BY <3>1 DEF KeptForward
  <2> QED
    BY <2>1 DEF WasForward, Intact
<1> DEFINE mute == v > 1 /\ <<v - 2, v>> \in edges
           back == BackedgeTargets(edges, v)
           odd == \E w \in back : (v - w) % 2 = 1
           fwd == <<v, v + 2>> \in edges
           path == <<v + 1, v + 2>> \in edges
           last == C!LastFourOnlyHamiltonian /\ v = numNodes - 4 /\ C!bit = 1
           looks == C!LooksLikeIf
<1>3. C!Status =
        IF mute THEN "mute"
        ELSE IF fwd THEN IF path THEN "forward0" ELSE "forward1"
        ELSE IF odd THEN "back1"
        ELSE IF back # {} THEN "back0"
        ELSE IF ~path THEN "forward1"
        ELSE IF last THEN "forward0"
        ELSE IF looks THEN "forward0"
        ELSE "zero"
  BY DEF C!Status, C!Connected, C!BackedgeTargets, BackedgeTargets, Connected
<1>4. mute <=> WasForward(v - 2)
  <2>1. v - 2 \in Int /\ (v - 2) + 2 = v
    OBVIOUS
  <2>2. WasForward(v - 2) => v > 1
    <3>1. ASSUME <<v - 2, (v - 2) + 2>> \in Intact
          PROVE  v - 2 \in 0..(numNodes - 1)
      BY <3>1 DEF IntactInv, IntactShape
    <3> QED
      BY <1>1, <3>1 DEF WasForward
  <2> QED
    BY <1>2, <2>1, <2>2
<1>5. fwd <=> WasForward(v)
  BY <1>2
<1>6. path <=> ~(WasForward(v) /\ WasBack(v + 1, v))
  <2>1. v + 1 \in 0..(numNodes - 2) /\ (v + 1) + 1 = v + 2 /\ (v + 1) - 1 = v
    BY <1>1
  <2>2. <<v + 1, (v + 1) + 1>> \in edges <=> <<v + 1, (v + 1) + 1>> \in Intact
    BY PathKept
  <2>3. <<v + 1, (v + 1) + 1>> \notin Intact
          <=> WasForward((v + 1) - 1) /\ WasBack(v + 1, (v + 1) - 1)
    BY <2>1 DEF IntactInv, IntactPath
  <2> QED
    BY <2>1, <2>2, <2>3
<1>7. odd => back # {}
  OBVIOUS
<1>8. looks => C!bit = 1
  BY DEF C!LooksLikeIf
<1> HIDE DEF mute, back, odd, fwd, path, last, looks
<1>9. /\ mute => C!Status = "mute"
      /\ ~mute /\ fwd => C!Status = IF path THEN "forward0" ELSE "forward1"
      /\ ~mute /\ ~fwd /\ back # {} => BackStatus
      /\ ~mute /\ ~fwd /\ back = {} /\ path =>
           C!Status = "zero" \/ (C!Status = "forward0" /\ (last \/ looks))
  BY <1>3, <1>7 DEF BackStatus
<1> QED
  BY <1>4, <1>5, <1>6, <1>8, <1>9 DEF back, last, looks

(* From each node that the encoder visited the numbering leads on          *)
LEMMA NumberedStep ==
  ASSUME IntactInv, NEW pos, WasNumbered(pos), NEW v \in 1..idx
  PROVE  /\ pos[v] \in 1..n
         /\ start \in Int => start + pos[v] <= NumBits
         /\ v < idx /\ WasForward(v - 2) => pos[v + 1] = pos[v]
         /\ v < idx /\ ~WasForward(v - 2) =>
              pos[v + 1] = pos[v] + 1 /\ data[start + pos[v]] = WasMeaning(v)
<1>1. idx \in Nat \ {0} /\ n \in Nat
  BY DEF IntactInv, IntactShape, IntactCount
<1>2. pos[v] \in 1..n
  BY DEF WasNumbered
<1>3. v < idx => v \in 1..(idx - 1)
  BY <1>1
<1>4. start \in Int => start + pos[v] <= NumBits
  BY <1>1, <1>2, NumBitsAssumption DEF n
<1> QED
  BY <1>2, <1>3, <1>4 DEF WasNumbered

(* The nodes that the checker comes to are those that the encoder gave a   *)
(* bit, and it is at that bit, or they are mute                            *)
LEMMA AtBit ==
  ASSUME IntactInv, AlongKey, claim = data, start \in -1..(NumBits - 1),
         NEW v \in Nat \ {0}, v = cIdx, v < numNodes - 2
  PROVE  \E pos :
           /\ v \in 1..idx /\ WasNumbered(pos) /\ cI = start + pos[v]
           /\ ~WasForward(v - 2) =>
                v < idx /\ cI \in 0..(NumBits - 1) /\ C!bit = WasMeaning(v)
<1>1. /\ idx \in Nat \ {0} /\ n \in Nat \ {0} /\ numNodes \in Nat
      /\ numNodes - 2 = idx + (IF WasForward(idx - 1) \/ WasForward(idx - 2) THEN 1 ELSE 0)
      /\ ~WasForward(v - 1)
  BY DEF IntactInv, IntactShape, IntactCount, AlongKey
<1>2. v \in 1..idx
  BY <1>1
<1>3. ~WasForward(v - 2) => v < idx
  <2>1. v = idx => WasForward(idx - 1) \/ WasForward(idx - 2)
    BY <1>1
  <2> QED
    BY <1>1, <1>2, <2>1
<1>4. PICK pos : WasNumbered(pos) /\ cI = start + pos[v]
  BY <1>2 DEF AlongKey
<1>5. ASSUME ~WasForward(v - 2)
      PROVE  cI \in 0..(NumBits - 1) /\ C!bit = WasMeaning(v)
  <2>1. /\ pos[v] \in 1..n /\ pos[v + 1] = pos[v] + 1
        /\ data[start + pos[v]] = WasMeaning(v)
    BY <1>2, <1>3, <1>4, <1>5, NumberedStep
  <2>2. pos[v + 1] \in 1..n
    <3>1. v + 1 \in 1..idx
      BY <1>1, <1>2, <1>3, <1>5
    <3> QED
      BY <1>4, <3>1, NumberedStep
  <2>3. cI \in 0..(NumBits - 1)
    BY <1>1, <1>4, <2>1, <2>2, NumBitsAssumption DEF n
  <2>4. cI < NumBits /\ claim[cI] = WasMeaning(v)
    BY <1>4, <2>1, <2>3, NumBitsAssumption
  <2> QED
    BY <2>3, <2>4 DEF C!bit, C!KeyBit
<1> QED
  BY <1>2, <1>3, <1>4, <1>5

(* A node that a backedge leads to is in its stack if it was visited, as   *)
(* no block has enclosed it, and has no backedge of its own                *)
LEMMA EndAgrees ==
  ASSUME IntactInv, WalkInv, Room, cIdx < numNodes - 2,
         NEW w \in BackedgeTargets(edges, cIdx), C!bit = (cIdx - w) % 2,
         position[w] # C!Unset
  PROVE  C!BackedgeAgrees(w)
<1>1. PICK v \in Nat \ {0} : v = cIdx
  BY WalkFacts DEF WalkInv
<1>2. /\ w \in Nat /\ w < v /\ w \in C!Nodes /\ ~Enclosed(w)
  BY <1>1, RepeatEnd
<1>3. Alive(w)
  BY <1>1, <1>2 DEF Alive
<1>4. position[w] < cStack[Own(w)].n
  BY <1>2, <1>3 DEF WalkInv, WalkStacks, Holds
<1>5. C!Possible = Own(w)
  <2>1. C!Possible = PossibleBackedges(v, C!bit)
    BY <1>1 DEF C!Possible, C!PossibleBackedges, PossibleBackedges, C!IsOdd, IsOdd
  <2> QED
    BY <1>1, <1>2, <2>1, OwnIsPossible
<1> QED
  BY <1>4, <1>5 DEF C!BackedgeAgrees

LEMMA EndIsNoBlockEnd ==
  ASSUME IntactInv, NEW u \in Nat, NEW w \in Nat, WasBack(u, w), NEW y \in Nat
  PROVE  ~WasBack(w, y)
<1> SUFFICES ASSUME WasBack(w, y)
             PROVE  FALSE
  OBVIOUS
<1>1. y < w /\ w < u
  BY DEF WasBack
<1>2. w <= y \/ w > w
  BY <1>1 DEF IntactInv, IntactBlocks
<1> QED
  BY <1>1, <1>2

LEMMA EndInStack ==
  ASSUME IntactInv, WalkInv, Room, AlongKey, cIdx < numNodes - 2,
         NEW w \in BackedgeTargets(edges, cIdx), C!bit = (cIdx - w) % 2
  PROVE  C!BackedgeAgrees(w)
<1>1. PICK v \in Nat \ {0} : v = cIdx
  BY WalkFacts DEF WalkInv
<1>2. /\ w \in Nat /\ w < v /\ WasRepeat(v, w)
  BY <1>1, RepeatEnd
<1>3. WasBack(v, w)
  BY <1>2 DEF WasRepeat
<1>4. ~WasForward(w - 1)
  BY <1>2, <1>3 DEF IntactInv, IntactBlocks
<1>5. \A y \in Nat : ~WasBack(w, y)
  BY <1>2, <1>3, EndIsNoBlockEnd
<1>6. position[w] # C!Unset
  BY <1>1, <1>2, <1>4, <1>5 DEF AlongKey, Visited
<1> QED
  BY <1>6, EndAgrees

(* A node without a backedge, mute or forward edge means a zero            *)
LEMMA KeptZero ==
  ASSUME IntactInv, KeptOnes, NEW v \in Nat \ {0},
         ~WasForward(v), BackedgeTargets(edges, v) = {}
  PROVE  WasMeaning(v) = 0
<1> SUFFICES ASSUME NEW w \in Nat, WasBack(v, w), (v - w) % 2 = 1
             PROVE  FALSE
  BY DEF WasMeaning, WasOdd
<1>1. w \in 0..(v - 1)
  BY DEF WasBack
<1>2. <<v, w>> \notin edges
  BY <1>1 DEF BackedgeTargets, Connected
<1>3. <<v, w>> \in removed
  BY <1>2 DEF WasBack, Intact
<1>4. StandsForOne(<<v, w>>)
  BY DEF StandsForOne
<1> QED
  BY <1>3, <1>4 DEF KeptOnes

(* A backedge means its length, be it alone                                *)
LEMMA BackMeans ==
  ASSUME IntactInv, NEW v \in Nat, NEW w \in Nat, WasBack(v, w)
  PROVE  WasMeaning(v) = (v - w) % 2
<1>1. ~WasForward(v) /\ \A y \in Nat : WasBack(v, y) => y = w
  BY DEF IntactInv, IntactBlocks
<1>2. (v - w) % 2 \in {0, 1}
  OBVIOUS
<1>3. WasOdd(v) <=> (v - w) % 2 = 1
  BY <1>1 DEF WasOdd
<1> QED
  BY <1>1, <1>2, <1>3 DEF WasMeaning

LEMMA KeptOnesForward == IntactInv /\ KeptOnes => KeptForward
<1> SUFFICES ASSUME IntactInv, KeptOnes, NEW e \in removed
             PROVE  e[2] <= e[1]
  BY DEF KeptForward
<1>1. ~(e[2] > e[1])
  BY DEF KeptOnes, StandsForOne
<1>2. e \in (0..(numNodes - 1)) \X (0..(numNodes - 1)) /\ numNodes \in Nat
  BY DEF IntactInv, IntactShape, Intact
<1>3. e[1] \in Int /\ e[2] \in Int
  BY <1>2
<1> QED
  BY <1>1, <1>3

(* No bit that the key has is other than what the node it is read at says  *)
(* (checker.c:86-150)                                                      *)
LEMMA NeverRefused ==
  ASSUME IntactInv, WalkInv, Room, AlongKey, claim = data, KeptOnes,
         start \in -1..(NumBits - 1), cIdx < numNodes - 2
  PROVE  ~C!Mismatch
<1>1. PICK v \in Nat \ {0} : v = cIdx
  BY WalkFacts DEF WalkInv
<1>2. KeptForward
  BY KeptOnesForward
<1>3. PICK pos :
        /\ v \in 1..idx /\ WasNumbered(pos) /\ cI = start + pos[v]
        /\ ~WasForward(v - 2) =>
             v < idx /\ cI \in 0..(NumBits - 1) /\ C!bit = WasMeaning(v)
  BY <1>1, AtBit
<1>4. CASE WasForward(v - 2)
  <2>1. C!Status = "mute"
    BY <1>1, <1>2, <1>4, StatusIs
  <2> QED
    BY <2>1 DEF C!Mismatch
<1>5. CASE ~WasForward(v - 2) /\ WasForward(v)
  <2>1. C!Status = IF WasBack(v + 1, v) THEN "forward1" ELSE "forward0"
    BY <1>1, <1>2, <1>5, StatusIs
  <2>2. C!InnerBit = IF WasBack(v + 1, v) THEN 1 ELSE 0
    BY <2>1 DEF C!InnerBit
  <2>3. C!bit = 1 /\ v < idx /\ cI \in 0..(NumBits - 1)
    BY <1>3, <1>5 DEF WasMeaning
  <2>4. ASSUME cI # NumBits - 1
        PROVE  C!KeyBit(cI + 1) = C!InnerBit
    <3>1. /\ idx \in Nat \ {0} /\ n \in Nat \ {0} /\ start \in Int /\ n = NumBits - start
          /\ start + n = NumBits
      BY NumBitsAssumption DEF IntactInv, IntactShape, IntactCount, n
    <3>2. pos[v + 1] = pos[v] + 1 /\ pos[v] \in 1..n
      BY <1>3, <1>5, <2>3, NumberedStep
    <3>3. v + 1 \in 1..idx /\ (v + 1) - 2 = v - 1
      BY <1>3, <2>3, <3>1
    <3>4. v + 1 # idx
      <4>1. pos[idx] = n
        BY <1>3 DEF WasNumbered
      <4> QED
        BY <1>3, <2>4, <3>1, <3>2, <4>1
    <3>5. ~WasForward((v + 1) - 2)
      BY <1>1, <3>3 DEF AlongKey
    <3>6. /\ pos[(v + 1) + 1] = pos[v + 1] + 1 /\ v + 1 < idx
          /\ data[start + pos[v + 1]] = WasMeaning(v + 1)
      BY <1>3, <3>1, <3>3, <3>4, <3>5, NumberedStep
    <3>7. pos[(v + 1) + 1] \in 1..n
      <4>1. (v + 1) + 1 \in 1..idx
        BY <3>1, <3>3, <3>6
      <4> QED
        BY <1>3, <4>1, NumberedStep
    <3>8. cI + 1 = start + pos[v + 1] /\ cI + 1 < NumBits
      BY <1>3, <3>1, <3>2, <3>6, <3>7
    <3>9. C!KeyBit(cI + 1) = WasMeaning(v + 1)
      BY <3>6, <3>8 DEF C!KeyBit
    <3>10. ~WasForward(v + 1) /\ \A w \in Nat : WasBack(v + 1, w) => w = v
      <4>1. ~WasForward(v + 1)
        BY <1>5 DEF IntactInv, IntactForward
      <4>2. (v + 1) - 1 = v /\ v + 1 \in Nat
        OBVIOUS
      <4> QED
        BY <1>5, <4>1, <4>2 DEF IntactInv, IntactBlocks
    <3>11. WasOdd(v + 1) <=> WasBack(v + 1, v)
      <4>1. ((v + 1) - v) % 2 = 1
        OBVIOUS
      <4> QED
        BY <3>10, <4>1 DEF WasOdd
    <3> QED
      BY <2>2, <3>9, <3>10, <3>11 DEF WasMeaning
  <2>5. C!ForwardAgrees
    BY <2>3, <2>4 DEF C!ForwardAgrees
  <2> QED
    BY <2>1, <2>5 DEF C!Mismatch
<1>6. CASE ~WasForward(v - 2) /\ ~WasForward(v) /\ BackedgeTargets(edges, v) # {}
  <2>1. BackStatus
    BY <1>1, <1>2, <1>6, StatusIs
  <2>2. PICK w \in BackedgeTargets(edges, v) : TRUE
    BY <1>6
  <2>3. w \in Nat /\ WasBack(v, w)
    BY <1>1, <2>2, RepeatEnd DEF WasRepeat
  <2>4. C!bit = (v - w) % 2
    BY <1>3, <1>6, <2>3, BackMeans
  <2>5. C!BackedgeAgrees(w)
    BY <1>1, <2>2, <2>4, EndInStack
  <2>6. w \in C!BackedgeTargets(edges, cIdx)
    BY <1>1, <2>2 DEF BackedgeTargets, Connected, C!BackedgeTargets, C!Connected
  <2> QED
    BY <2>1, <2>5, <2>6 DEF C!Mismatch, BackStatus
<1>7. CASE ~WasForward(v - 2) /\ ~WasForward(v) /\ BackedgeTargets(edges, v) = {}
  <2>1. C!bit = 0
    BY <1>3, <1>7, KeptZero
  <2>2. C!Status = "zero"
    BY <1>1, <1>2, <1>7, <2>1, StatusIs
  <2> QED
    BY <2>1, <2>2 DEF C!Mismatch
<1> QED
  BY <1>4, <1>5, <1>6, <1>7

(* What the checker makes of a node is what the encoder made of it         *)
LEMMA StatusFits ==
  ASSUME IntactInv, WalkInv, AlongKey, claim = data, KeptOnes,
         start \in -1..(NumBits - 1), NEW v \in Nat \ {0}, v = cIdx, v < numNodes - 2
  PROVE  /\ C!Status = "mute" <=> WasForward(v - 2)
         /\ ForwardStatus <=> ~WasForward(v - 2) /\ WasForward(v)
         /\ BackStatus <=> ~WasForward(v - 2) /\ ~WasForward(v)
                             /\ BackedgeTargets(edges, v) # {}
<1>1. KeptForward
  BY KeptOnesForward
<1>2. PICK pos : ~WasForward(v - 2) => C!bit = WasMeaning(v)
  BY AtBit
<1>3. CASE WasForward(v - 2)
  BY <1>1, <1>3, StatusIs DEF ForwardStatus, BackStatus
<1>4. CASE ~WasForward(v - 2) /\ WasForward(v)
  BY <1>1, <1>4, StatusIs DEF ForwardStatus, BackStatus
<1>5. CASE ~WasForward(v - 2) /\ ~WasForward(v) /\ BackedgeTargets(edges, v) # {}
  BY <1>1, <1>5, StatusIs DEF ForwardStatus, BackStatus
<1>6. CASE ~WasForward(v - 2) /\ ~WasForward(v) /\ BackedgeTargets(edges, v) = {}
  <2>1. C!bit = 0
    BY <1>2, <1>6, KeptZero
  <2>2. C!Status = "zero"
    BY <1>1, <1>6, <2>1, StatusIs
  <2> QED
    BY <1>6, <2>2 DEF ForwardStatus, BackStatus
<1> QED
  BY <1>3, <1>4, <1>5, <1>6

-----------------------------------------------------------------------------
LEMMA GraphStays ==
  ASSUME UNCHANGED Given
  PROVE  /\ \A v : (WasForward(v)' <=> WasForward(v)) /\ WasMeaning(v)' = WasMeaning(v)
         /\ \A u, v : WasBack(u, v)' <=> WasBack(u, v)
         /\ \A pos : WasNumbered(pos)' <=> WasNumbered(pos)
         /\ IntactReads' <=> IntactReads
         /\ C!Unset' = C!Unset /\ idx' = idx /\ start' = start
         /\ claim' = claim /\ data' = data /\ claimStart' = claimStart
         /\ (KeptOnes)' <=> KeptOnes
<1>1. Intact' = Intact /\ n' = n /\ C!Unset' = C!Unset
      /\ UNCHANGED <<data, start, idx, removed, claim, claimStart>>
  BY DEF Given, Intact, n, C!Unset
<1>2. /\ \A v : WasForward(v)' <=> WasForward(v)
      /\ \A u, v : WasBack(u, v)' <=> WasBack(u, v)
  BY <1>1 DEF WasForward, WasBack
<1>3. \A v : WasMeaning(v)' = WasMeaning(v)
  BY <1>2 DEF WasMeaning, WasOdd
<1>4. \A pos : WasNumbered(pos)' <=> WasNumbered(pos)
  BY <1>1, <1>2, <1>3 DEF WasNumbered
<1>5. IntactReads' <=> IntactReads
  BY <1>4 DEF IntactReads
<1>6. (KeptOnes)' <=> KeptOnes
  BY <1>1 DEF KeptOnes
<1> QED
  BY <1>1, <1>2, <1>3, <1>4, <1>5, <1>6

(* Where the loop pushes the node that it visits                           *)
LEMMA PushVisits ==
  ASSUME IntactInv, WalkInv, Room, cIdx < numNodes - 2, PushVisited, Visited,
         UNCHANGED Given
  PROVE  \A w \in Nat : w <= cIdx /\ ~WasForward(w - 1) /\ (\A y \in Nat : ~WasBack(w, y))
                           => position'[w] # C!Unset'
<1>1. PICK v \in Nat \ {0} : v = cIdx
  BY WalkFacts DEF WalkInv
<1>2. /\ v \in C!Nodes /\ numNodes \in Nat /\ cStack[Own(v)].n \in Nat
      /\ cStack[Own(v)].n < numNodes /\ C!Unset = numNodes /\ C!Unset' = C!Unset
  <2>1. Own(v) \in StackNames
    BY OwnAndOther
  <2> QED
    BY <1>1, <2>1, WalkFacts, GraphStays DEF WalkInv, C!Unset
<1>3. position \in [C!Nodes -> Nat] /\ C!Nodes = 0..(numNodes - 1)
  BY DEF WalkInv, WalkTyped, C!Nodes
<1>4. position' = [position EXCEPT ![v] = cStack[Own(v)].n]
  BY <1>1 DEF PushVisited
<1>5. ASSUME NEW w \in Nat, w <= v, ~WasForward(w - 1), \A y \in Nat : ~WasBack(w, y)
      PROVE  position'[w] # C!Unset
  <2>1. CASE w = v
    BY <1>2, <1>3, <1>4, <2>1
  <2>2. CASE w < v
    <3>1. position[w] # C!Unset
      BY <1>1, <1>5, <2>2 DEF Visited
    <3>2. position'[w] = position[w]
      BY <1>1, <1>2, <1>3, <1>4, <2>2
    <3> QED
      BY <3>1, <3>2
  <2> QED
    BY <1>5, <2>1, <2>2
<1> QED
  BY <1>1, <1>2, <1>5

(* An iteration takes the checker to the next node and its bit             *)
LEMMA ReadsOn ==
  ASSUME IntactInv, WalkInv, Room, AlongKey, claim = data, KeptOnes,
         start \in -1..(NumBits - 1), CheckMove, UNCHANGED Given
  PROVE  AlongKey'
<1>1. PICK v \in Nat \ {0} : v = cIdx /\ v < numNodes - 2
  BY WalkFacts DEF WalkInv, CheckMove
<1>2. PICK pos :
        /\ v \in 1..idx /\ WasNumbered(pos) /\ cI = start + pos[v]
        /\ ~WasForward(v - 2) => v < idx
  BY <1>1, AtBit
<1>3. /\ C!Status = "mute" <=> WasForward(v - 2)
      /\ ForwardStatus <=> ~WasForward(v - 2) /\ WasForward(v)
      /\ BackStatus <=> ~WasForward(v - 2) /\ ~WasForward(v)
                          /\ BackedgeTargets(edges, v) # {}
  BY <1>1, StatusFits
<1>4. /\ idx \in Nat \ {0} /\ n \in Nat \ {0} /\ start \in Int /\ start + n = NumBits
      /\ WasForward(v - 2) => ~WasForward(v)
      /\ ~WasForward(v - 1) /\ claimStart = start /\ Visited
  <2>1. idx \in Nat \ {0} /\ n \in Nat \ {0} /\ start \in Int /\ start + n = NumBits
    BY NumBitsAssumption DEF IntactInv, IntactShape, IntactCount, n
  <2>2. ~WasForward(v - 1) /\ claimStart = start /\ Visited
    BY <1>1 DEF AlongKey
  <2>3. ASSUME WasForward(v - 2)
        PROVE  ~WasForward(v)
    <3>1. v - 2 \in Int /\ (v - 2) + 2 = v /\ <<v - 2, (v - 2) + 2>> \in Intact
      BY <2>3 DEF WasForward
    <3>2. v - 2 \in Nat
      <4>1. <<v - 2, (v - 2) + 2>>[1] \in 0..(numNodes - 1)
        BY <3>1 DEF IntactInv, IntactShape
      <4> QED
        BY <4>1
    <3> QED
      BY <2>3, <3>1, <3>2 DEF IntactInv, IntactForward
  <2> QED
    BY <2>1, <2>2, <2>3
<1>5. /\ \A u : WasForward(u)' <=> WasForward(u)
      /\ \A u, w : WasBack(u, w)' <=> WasBack(u, w)
      /\ WasNumbered(pos)' /\ C!Unset' = C!Unset /\ idx' = idx /\ start' = start
      /\ claimStart' = claimStart
  BY <1>2, GraphStays
<1>6. ASSUME NEW u \in Nat, cIdx' = u, ~WasForward(u - 1),
             u <= idx => cI' = start + pos[u],
             \A w \in Nat : w < u /\ ~WasForward(w - 1) /\ (\A y \in Nat : ~WasBack(w, y))
               => position'[w] # C!Unset
      PROVE  AlongKey'
  <2>1. Visited'
    BY <1>5, <1>6 DEF Visited
  <2>2. (cIdx <= idx => cI = start + pos[cIdx])'
    BY <1>5, <1>6
  <2>3. ~WasForward(cIdx - 1)'
    BY <1>5, <1>6
  <2>4. claimStart' = start'
    BY <1>4, <1>5
  <2> QED
    BY <1>5, <2>1, <2>2, <2>3, <2>4 DEF AlongKey
<1>7. /\ v < idx /\ WasForward(v - 2) => pos[v + 1] = pos[v]
      /\ v < idx /\ ~WasForward(v - 2) => pos[v + 1] = pos[v] + 1
      /\ pos[v] \in 1..n
  BY <1>2, NumberedStep
<1>8. PushVisited =>
        \A w \in Nat : w <= v /\ ~WasForward(w - 1) /\ (\A y \in Nat : ~WasBack(w, y))
                         => position'[w] # C!Unset
  BY <1>1, <1>4, <1>5, PushVisits
<1>9. CASE C!Status = "mute" /\ PassOne /\ cI' = cI
  <2>1. cIdx' = v + 1 /\ (v + 1) - 1 = v /\ ~WasForward(v) /\ PushVisited
    BY <1>1, <1>3, <1>4, <1>9 DEF PassOne
  <2>2. v + 1 <= idx => cI' = start + pos[v + 1]
    BY <1>2, <1>3, <1>4, <1>7, <1>9
  <2>3. \A w \in Nat : w < v + 1 => w <= v
    OBVIOUS
  <2> QED
    BY <1>6, <1>8, <2>1, <2>2, <2>3
<1>10. CASE C!Status = "zero" /\ C!bit = 0 /\ PassOne /\ cI' = cI + 1
  <2>1. cIdx' = v + 1 /\ (v + 1) - 1 = v /\ ~WasForward(v) /\ ~WasForward(v - 2)
        /\ PushVisited
    BY <1>1, <1>3, <1>10 DEF PassOne, ForwardStatus
  <2>2. v + 1 <= idx => cI' = start + pos[v + 1]
    BY <1>2, <1>4, <1>7, <1>10, <2>1
  <2>3. \A w \in Nat : w < v + 1 => w <= v
    OBVIOUS
  <2> QED
    BY <1>6, <1>8, <2>1, <2>2, <2>3
<1>11. CASE GoBack /\ cI' = cI + 1
  <2>1. /\ cIdx' = v + 1 /\ (v + 1) - 1 = v /\ ~WasForward(v) /\ ~WasForward(v - 2)
        /\ BackedgeTargets(edges, v) # {} /\ position' = position
    BY <1>1, <1>3, <1>11 DEF GoBack, PopVisited
  <2>2. v + 1 <= idx => cI' = start + pos[v + 1]
    BY <1>2, <1>4, <1>7, <1>11, <2>1
  <2>3. \E y \in Nat : WasBack(v, y)
    BY <1>1, <2>1, RepeatEnd DEF WasRepeat
  <2>4. \A w \in Nat : w < v + 1 /\ ~WasForward(w - 1) /\ (\A y \in Nat : ~WasBack(w, y))
                         => position'[w] # C!Unset
    <3>1. \A w \in Nat : w < v + 1 => w < v \/ w = v
      OBVIOUS
    <3> QED
      BY <1>1, <1>4, <2>1, <2>3, <3>1 DEF Visited
  <2> QED
    BY <1>6, <2>1, <2>2, <2>4
<1>12. CASE /\ C!ForwardAgrees /\ PassTwo
            /\ cI' = IF cI # NumBits - 1 THEN cI + 2 ELSE cI + 1
  <2>1. /\ cIdx' = v + 2 /\ (v + 2) - 1 = v + 1 /\ WasForward(v) /\ ~WasForward(v - 2)
        /\ PushVisited
    BY <1>1, <1>3, <1>12 DEF PassTwo
  <2>2. ~WasForward(v + 1)
    BY <2>1 DEF IntactInv, IntactForward
  <2>3. ASSUME v + 2 <= idx
        PROVE  cI' = start + pos[v + 2]
    <3>1. pos[v + 1] = pos[v] + 1
      BY <1>2, <1>7, <2>1
    <3>2. v + 1 \in 1..idx /\ v + 1 < idx /\ (v + 1) - 2 = v - 1 /\ (v + 1) + 1 = v + 2
          /\ v + 2 \in 1..idx
      BY <1>4, <2>3
    <3>3. ~WasForward((v + 1) - 2)
      BY <1>4, <3>2
    <3>4. pos[(v + 1) + 1] = pos[v + 1] + 1
      BY <1>2, <3>2, <3>3, NumberedStep
    <3>5. pos[v + 2] \in 1..n
      BY <1>2, <3>2, NumberedStep
    <3> QED
      BY <1>2, <1>4, <1>7, <1>12, <3>1, <3>2, <3>4, <3>5
  <2>4. \A w \in Nat : w < v + 2 /\ ~WasForward(w - 1) /\ (\A y \in Nat : ~WasBack(w, y))
                         => position'[w] # C!Unset
    <3>1. \A w \in Nat : w < v + 2 => w <= v \/ w - 1 = v
      OBVIOUS
    <3> QED
      BY <1>8, <2>1, <3>1
  <2> QED
    BY <1>6, <2>1, <2>2, <2>3, <2>4
<1> QED
  BY <1>9, <1>10, <1>11, <1>12 DEF CheckMove

-----------------------------------------------------------------------------
(* A key has one first positive bit                                        *)
LEMMA OneFirstBit ==
  ASSUME NEW d, NEW s \in FirstPositiveBitIndex(d), NEW t \in FirstPositiveBitIndex(d)
  PROVE  s = t
<1>1. \/ s \in 0..(NumBits - 1) /\ d[s] = 1 /\ \A j \in 0..(s - 1) : d[j] = 0
      \/ s = -1 /\ \A j \in 0..(NumBits - 1) : d[j] = 0
  BY DEF FirstPositiveBitIndex
<1>2. \/ t \in 0..(NumBits - 1) /\ d[t] = 1 /\ \A j \in 0..(t - 1) : d[j] = 0
      \/ t = -1 /\ \A j \in 0..(NumBits - 1) : d[j] = 0
  BY DEF FirstPositiveBitIndex
<1>3. CASE s = -1 \/ t = -1
  BY <1>1, <1>2, <1>3
<1>4. CASE s # -1 /\ t # -1
  <2>1. /\ s \in 0..(NumBits - 1) /\ d[s] = 1 /\ \A j \in 0..(s - 1) : d[j] = 0
        /\ t \in 0..(NumBits - 1) /\ d[t] = 1 /\ \A j \in 0..(t - 1) : d[j] = 0
    BY <1>1, <1>2, <1>4
  <2>2. ~(s < t)
    <3>1. s < t => s \in 0..(t - 1)
      BY <2>1
    <3> QED
      BY <2>1, <3>1
  <2>3. ~(t < s)
    <3>1. t < s => t \in 0..(s - 1)
      BY <2>1
    <3> QED
      BY <2>1, <3>1
  <2> QED
    BY <2>1, <2>2, <2>3
<1> QED
  BY <1>3, <1>4

(* The nodes of a graph that lost no forward edge stand for as many bits   *)
(* as its key has                                                          *)
LEMMA SizesAgree ==
  /\ IntactInv /\ ClaimTyped /\ KeptForward /\ start \in FirstPositiveBitIndex(data)
  => (C!SizeMatches <=> claimStart = start)
<1> SUFFICES ASSUME IntactInv, ClaimTyped, KeptForward, start \in FirstPositiveBitIndex(data)
             PROVE  C!SizeMatches <=> claimStart = start
  OBVIOUS
<1> DEFINE left == {v \in C!Nodes : C!HasForward(edges, v)}
<1>1. /\ numNodes \in Nat /\ idx \in Nat \ {0} /\ n \in Nat
      /\ Cardinality(ForwardNodes) = numNodes - 2 - n
      /\ Intact \subseteq (0..(numNodes - 1)) \X (0..(numNodes - 1))
  BY DEF IntactInv, IntactShape, IntactCount
<1>2. C!nBits \in Int /\ (C!nBits = n <=> claimStart = start)
  BY NumBitsAssumption DEF ClaimTyped, FirstPositiveBitIndex, C!nBits, n
<1>3. left \subseteq ForwardNodes
  <2> SUFFICES ASSUME NEW v \in Nat, NEW e \in edges, e[1] = v, e[2] > v + 1
               PROVE  v \in ForwardNodes
    BY DEF C!Nodes, C!HasForward
  <2>1. e \in Intact /\ e = <<e[1], e[2]>> /\ e[1] \in Nat /\ e[2] \in Nat
    BY <1>1, PathKept
  <2>2. e[1] < idx /\ e[2] = e[1] + 2
    BY <2>1 DEF IntactInv, IntactShape
  <2> QED
    BY <1>1, <2>1, <2>2 DEF ForwardNodes, WasForward
<1>4. ForwardNodes \subseteq left
  <2> SUFFICES ASSUME NEW v \in Nat, <<v, v + 2>> \in Intact
               PROVE  v \in left
    BY <1>1 DEF ForwardNodes, WasForward
  <2>1. v \in 0..(numNodes - 1)
    BY <1>1
  <2>2. <<v, v + 2>> \notin removed
    <3>1. ~(<<v, v + 2>>[2] <= <<v, v + 2>>[1])
      BY <2>1
    <3> QED
      BY <3>1 DEF KeptForward
  <2>3. <<v, v + 2>> \in edges /\ <<v, v + 2>>[1] = v /\ <<v, v + 2>>[2] > v + 1
    BY <2>2 DEF Intact
  <2> QED
    BY <2>1, <2>3 DEF C!Nodes, C!HasForward
<1>5. Cardinality(left) = numNodes - 2 - n
  BY <1>1, <1>3, <1>4
<1>6. C!SizeMatches <=> C!nBits = numNodes - 2 - Cardinality(left)
  BY DEF C!SizeMatches, C!Cardinality, Cardinality
<1> HIDE DEF left
<1> QED
  BY <1>1, <1>2, <1>5, <1>6

(* The checker starts at node 1 and the bit after the first positive one   *)
LEMMA StartsAlongKey ==
  /\ IntactInv /\ ClaimTyped /\ Start /\ IntactReads
  /\ claimStart = start /\ cI = claimStart + 1
  => AlongKey
<1> SUFFICES ASSUME IntactInv, ClaimTyped, Start, IntactReads, claimStart = start,
                    cI = claimStart + 1
             PROVE  AlongKey
  OBVIOUS
<1>1. cIdx = 1 /\ 1 - 1 = 0 /\ numNodes \in Nat /\ C!Unset = numNodes
  BY DEF Start, IntactInv, IntactShape, C!Unset
<1>2. ~WasForward(cIdx - 1)
  BY <1>1 DEF IntactInv, IntactForward
<1>3. PICK pos : WasNumbered(pos)
  BY DEF IntactReads
<1>4. cI = start + pos[cIdx]
  BY <1>1, <1>3 DEF WasNumbered
<1>5. Visited
  <2>1. idx + 2 <= numNodes /\ idx \in Nat \ {0}
    <3> DEFINE m == IF WasForward(idx - 1) \/ WasForward(idx - 2) THEN 1 ELSE 0
    <3>1. m \in Nat /\ numNodes - 2 = idx + m /\ idx \in Nat \ {0}
      BY DEF IntactInv, IntactShape
    <3> HIDE DEF m
    <3> QED
      BY <1>1, <3>1
  <2>2. 0 \in C!Nodes /\ position[0] = 0 /\ 0 # numNodes
    BY <1>1, <2>1 DEF Start, C!FirstPosition, C!Nodes
  <2>3. \A w \in Nat : w < 1 => w = 0
    OBVIOUS
  <2> QED
    BY <1>1, <2>2, <2>3 DEF Visited
<1> QED
  BY <1>2, <1>3, <1>4, <1>5 DEF AlongKey

(* The encoder leaves the numbering that the checker follows               *)
LEMMA NumberingKept ==
  ASSUME IInv, ReadsBack, Encoded, Intact' = edges, UNCHANGED <<data, start, i, idx>>
  PROVE  IntactReads'
<1>1. i - start = n
  BY LastNodes
<1>2. n' = n
  BY DEF n
<1>3. /\ \A v : WasForward(v)' <=> Forward(v)
      /\ \A u, v : WasBack(u, v)' <=> Back(u, v)
  BY DEF WasForward, WasBack, Forward, Back
<1>4. \A v : WasMeaning(v)' = Meaning(v)
  BY <1>3 DEF WasMeaning, WasOdd, Meaning, Odd
<1>5. PICK pos : Numbers(pos)
  BY DEF ReadsBack
<1>6. WasNumbered(pos)'
  BY <1>1, <1>2, <1>3, <1>4, <1>5 DEF Numbers, WasNumbered
<1> QED
  BY <1>6 DEF IntactReads

LEMMA VerdictStep == KCInv /\ KCInv' /\ VerdictInv /\ [KCNext]_allVars => VerdictInv'
<1> SUFFICES ASSUME KCInv, KCInv', VerdictInv, [KCNext]_allVars
             PROVE  VerdictInv'
  OBVIOUS
<1>1. CASE Encode
  BY <1>1 DEF Encode, checkerVars, VerdictInv, Next, VisitMute, BuildWhile, BuildIf,
              BuildRepeat, OpenForward, VisitZero, Stop, ReadBit, vars, FirstPositiveBitIndex
<1>2. CASE StartChecking
  <2>1. /\ phase = "encode" /\ phase' = "check" /\ Encoded /\ Fresh
        /\ UNCHANGED <<data, start, i, idx, numNodes, cIdx>>
    BY <1>2 DEF StartChecking, KCInv
  <2>2. Intact' = edges
    <3>1. removed' \subseteq edges /\ edges' = edges \ removed'
      BY <1>2 DEF StartChecking, NonHamiltonianEdges
    <3> QED
      BY <3>1 DEF Intact
  <2>3. IntactReads'
    BY <2>1, <2>2, NumberingKept DEF Fresh, EncoderInv
  <2>4. start' \in FirstPositiveBitIndex(data')
    BY <2>1 DEF VerdictInv, FirstPositiveBitIndex
  <2>5. ASSUME claim' = data', KeptOnes'
        PROVE  verdict' = "none" /\ AlongKey'
    <3>1. claimStart' \in FirstPositiveBitIndex(claim')
      BY <1>2 DEF StartChecking
    <3>2. claimStart' = start'
      BY <2>4, <2>5, <3>1, OneFirstBit
    <3>3. (IntactInv /\ ClaimTyped)'
      BY <2>1 DEF KCInv
    <3>4. C!SizeMatches'
      <4>1. (/\ IntactInv /\ ClaimTyped /\ KeptOnes /\ start \in FirstPositiveBitIndex(data))'
              => (C!SizeMatches <=> claimStart = start)'
        BY SizesAgree, KeptOnesForward, PTL
      <4> QED
        BY <2>4, <2>5, <3>2, <3>3, <4>1
    <3>5. verdict' = "none"
      BY <1>2, <3>4 DEF StartChecking
    <3>6. Start' /\ cI' = claimStart' + 1
      BY <1>2, <2>1 DEF StartChecking, Start, Fresh
    <3>7. (/\ IntactInv /\ ClaimTyped /\ Start /\ IntactReads
           /\ claimStart = start /\ cI = claimStart + 1)' => AlongKey'
      BY StartsAlongKey, PTL
    <3> QED
      BY <2>3, <3>2, <3>3, <3>5, <3>6, <3>7
  <2> QED
    BY <2>1, <2>3, <2>4, <2>5 DEF VerdictInv
<1>3. CASE Check
  <2>1. /\ UNCHANGED Given /\ phase = "check" /\ phase' = "check"
        /\ verdict = "none" /\ (CheckMove \/ CheckEnd)
    BY <1>3, CheckMoves
  <2>2. /\ IntactInv /\ WalkInv /\ Room /\ IntactReads
        /\ start \in FirstPositiveBitIndex(data) /\ start \in -1..(NumBits - 1)
    <3>1. IntactInv /\ WalkInv /\ Room
      BY <2>1 DEF KCInv
    <3>2. start \in FirstPositiveBitIndex(data) /\ IntactReads
      BY <2>1 DEF VerdictInv
    <3>3. FirstPositiveBitIndex(data) \subseteq -1..(NumBits - 1)
      BY NumBitsAssumption DEF FirstPositiveBitIndex
    <3> QED
      BY <3>1, <3>2, <3>3
  <2>3. /\ (start \in FirstPositiveBitIndex(data))' /\ IntactReads'
        /\ (claim = data /\ KeptOnes)' <=> claim = data /\ KeptOnes
    BY <2>1, <2>2, GraphStays DEF FirstPositiveBitIndex
  <2>4. ASSUME claim = data, KeptOnes
        PROVE  verdict' # "reject" /\ (verdict' = "none" => AlongKey')
    <3>1. AlongKey
      BY <2>1, <2>4 DEF VerdictInv
    <3>2. CASE CheckMove
      BY <2>1, <2>2, <2>4, <3>1, <3>2, ReadsOn DEF CheckMove
    <3>3. CASE CheckEnd
      <4>1. cIdx < numNodes - 2 => ~C!Mismatch
        BY <2>2, <2>4, <3>1, NeverRefused
      <4> QED
        BY <3>3, <4>1 DEF CheckEnd
    <3> QED
      BY <2>1, <3>2, <3>3
  <2> QED
    BY <2>1, <2>3, <2>4 DEF VerdictInv
<1>4. CASE \/ StartAnalysing \/ ReturnNoMarks \/ Analyse
           \/ RsCheck \/ RsCheckNoMarks \/ Rest \/ UNCHANGED allVars
  <2>1. /\ UNCHANGED Given /\ verdict' = verdict
        /\ \/ UNCHANGED <<phase, cIdx, cI, cStack, cHistory, position>>
           \/ /\ phase # "encode"
              /\ phase' \in {"analyse", "no marks", "corrected", "crashed"}
    <3>1. CASE StartAnalysing
      BY <3>1 DEF StartAnalysing, Given, vars
    <3>2. CASE Analyse
      BY <3>2, AnalysisMoves
    <3>3. CASE ReturnNoMarks \/ RsCheck \/ RsCheckNoMarks \/ Rest \/ UNCHANGED allVars
      BY <3>3 DEF ReturnNoMarks, RsCheck, RsCheckNoMarks, Rest, allVars, checkerVars, vars,
                  Given
    <3> QED
      BY <1>4, <3>1, <3>2, <3>3
  <2>2. /\ (start \in FirstPositiveBitIndex(data))' <=> start \in FirstPositiveBitIndex(data)
        /\ IntactReads' <=> IntactReads
        /\ (claim = data /\ KeptOnes)' <=> claim = data /\ KeptOnes
    BY <2>1, GraphStays DEF FirstPositiveBitIndex
  <2>3. UNCHANGED <<cIdx, cI, position>> /\ AlongKey => AlongKey'
    <3> SUFFICES ASSUME UNCHANGED <<cIdx, cI, position>>, AlongKey
                 PROVE  AlongKey'
      OBVIOUS
    <3>1. /\ \A u : WasForward(u)' <=> WasForward(u)
          /\ \A u, w : WasBack(u, w)' <=> WasBack(u, w)
          /\ \A pos : WasNumbered(pos)' <=> WasNumbered(pos)
          /\ C!Unset' = C!Unset /\ idx' = idx /\ start' = start
          /\ claimStart' = claimStart
      BY <2>1, GraphStays
    <3>2. Visited'
      BY <3>1 DEF AlongKey, Visited
    <3> QED
      BY <3>1, <3>2 DEF AlongKey
  <2> QED
    BY <2>1, <2>2, <2>3 DEF VerdictInv
<1> QED
  BY <1>1, <1>2, <1>3, <1>4 DEF KCNext

LEMMA VerdictsFollowTheKey == KCSpec => [](KCInv /\ VerdictInv)
<1>1. KCInit => VerdictInv
  BY DEF KCInit, Init, VerdictInv
<1>2. KCInv /\ KCInv' /\ VerdictInv /\ [KCNext]_allVars => VerdictInv'
  BY VerdictStep
<1> QED
  BY <1>1, <1>2, StacksFollowTheGraph, PTL DEF KCSpec

(* watermark_check never refuses the key that a graph was built from,      *)
(* whatever backedges that stand for zeros the graph has lost: only losing *)
(* a connection that stands for a 1 can do that (checker.c:68-166).        *)
THEOREM KeyIsNeverRefused == KCSpec => []RefusalNeedsALostOne
<1>1. VerdictInv => RefusalNeedsALostOne
  BY DEF VerdictInv, RefusalNeedsALostOne, KeptOnes
<1> QED
  BY <1>1, VerdictsFollowTheKey, PTL

-----------------------------------------------------------------------------
(***************************************************************************)
(* Proofs about an intact graph that is compared with a wrong key, for     *)
(* keys of every length.                                                   *)
(*                                                                         *)
(* As long as the bits read are those of the graph's key, the stacks of    *)
(* the checker hold nothing but what the encoder's held.  A node without   *)
(* connections passes for a 1 only near the end of the graph: elsewhere    *)
(* the encoder would have had somewhere to go back to for the zero after   *)
(* it.                                                                     *)
(***************************************************************************)
(* ForcedInv of the graph as it was encoded                                *)
WasBare(v) ==
  /\ ~WasForward(v) /\ ~WasForward(v - 1) /\ ~WasForward(v - 2)
  /\ \A y \in Nat : ~WasBack(v, y)

WasOpenAt(w, v) ==
  /\ ~WasForward(w - 1)
  /\ \A x, y \in Nat : WasRepeat(x, y) /\ x < v /\ y <= w => w > x

IntactMutes == \A u, y \in Nat : WasBack(u, y) => ~WasForward(u - 2)

IntactZeros ==
  \A v \in Nat : v < idx /\ v > 0 /\ WasBare(v) =>
    \/ \E y \in Nat : WasBack(v - 1, y)
    \/ \A w \in Nat : w < v /\ (v - w) % 2 = 0 => ~WasOpenAt(w, v)

(* w lies at position p of stack s, and may still be gone back to          *)
Listed(s, p, w) ==
  /\ w = cStack[s].mem[p] /\ w < cIdx /\ Own(w) = s /\ position[w] = p
  /\ ~Enclosed(w) /\ ~WasForward(w - 1) /\ \A y \in Nat : ~WasBack(w, y)

OnlyListed ==
  \A s \in StackNames : \A p \in Nat : p < cStack[s].n => \E w \in Nat : Listed(s, p, w)

(* The checker is at the bit of its node, and those before it are the      *)
(* graph's                                                                 *)
AtNode ==
  /\ ~WasForward(cIdx - 1)
  /\ cIdx <= idx => \E pos : WasNumbered(pos) /\ cI = start + pos[cIdx]
  /\ cIdx > idx => cI >= NumBits

SameBits(k) == \A j \in 0..(NumBits - 1) : j < k => claim[j] = data[j]

InStep == claimStart = start /\ AtNode /\ SameBits(cI) /\ OnlyListed

OneMore ==
  \E k \in 0..(NumBits - 1) :
    claim[k] = 1 /\ \A j \in 0..(NumBits - 1) : j # k => claim[j] = data[j]

(* An intact graph and the key are side by side until the graph is read to *)
(* the end, but for one 1 that was read last or last but one               *)
WrongKeyInv ==
  /\ phase = "encode" => ForcedInv /\ verdict = "none"
  /\ phase # "encode" => IntactMutes /\ IntactZeros
  /\ phase = "check" /\ verdict = "none" /\ removed = {} =>
       InStep \/ (cIdx >= numNodes - 2 /\ OneMore)
  /\ verdict = "accept" /\ removed = {} => SameBits(NumBits) \/ OneMore

-----------------------------------------------------------------------------
LEMMA PushLists ==
  ASSUME IntactInv, WalkInv, Room, OnlyListed, cIdx < numNodes - 2, PushVisited,
         UNCHANGED Given, ~WasForward(cIdx - 1), \A y \in Nat : ~WasBack(cIdx, y),
         \/ cIdx' = cIdx + 1
         \/ cIdx' = cIdx + 2 /\ WasForward(cIdx)
  PROVE  OnlyListed'
<1>1. PICK v \in Nat \ {0} : v = cIdx
  BY WalkFacts DEF WalkInv
<1>2. PICK own \in StackNames, top \in Nat :
        own = Own(v) /\ top = cStack[own].n /\ top < C!nBits
  <2>1. Own(v) \in StackNames
    BY OwnAndOther
  <2> QED
    BY <2>1, WalkFacts DEF WalkInv
<1>3. /\ cStack \in [StackNames -> [mem : [0..(C!nBits - 1) -> Nat], n : Nat]]
      /\ position \in [C!Nodes -> Nat] /\ v \in C!Nodes /\ C!nBits \in Nat
      /\ C!Nodes = 0..(numNodes - 1) /\ numNodes \in Nat
  BY <1>1, WalkFacts DEF WalkInv, WalkTyped, C!Nodes
<1>4. /\ position' = [position EXCEPT ![v] = top]
      /\ cStack' = [cStack EXCEPT ![own] =
                      [mem |-> [cStack[own].mem EXCEPT ![top] = v], n |-> top + 1]]
  BY <1>1, <1>2 DEF PushVisited, StackPush
<1>5. /\ \A u : WasForward(u)' <=> WasForward(u)
      /\ \A u, w : WasBack(u, w)' <=> WasBack(u, w)
      /\ \A u, w : WasRepeat(u, w)' <=> WasRepeat(u, w)
  BY GraphStays DEF WasRepeat
<1>6. ASSUME NEW w \in Nat, w <= v, Enclosed(w)'
      PROVE  w < v /\ Enclosed(w)
  <2>1. PICK u \in Nat, y \in Nat : WasRepeat(u, y) /\ u < cIdx' /\ y <= w /\ w < u
    BY <1>5, <1>6 DEF Enclosed
  <2>2. u # v
    BY <1>1, <2>1 DEF WasRepeat
  <2>3. u # v + 1 \/ cIdx' # v + 2
    <3>1. (v + 1) - 1 = v /\ v + 1 # v + 2
      OBVIOUS
    <3> QED
      BY <1>1, <2>1, <3>1 DEF WasRepeat
  <2>4. u < v
    BY <1>1, <2>1, <2>2, <2>3
  <2> QED
    BY <1>1, <2>1, <2>4 DEF Enclosed
<1>7. ASSUME NEW s \in StackNames, NEW p \in Nat, p < cStack'[s].n
      PROVE  \E w \in Nat : Listed(s, p, w)'
  <2>1. CASE s = own /\ p = top
    <3>1. cStack'[s].mem[p] = v
      BY <1>2, <1>3, <1>4, <2>1
    <3>2. position'[v] = p /\ v < cIdx'
      BY <1>1, <1>3, <1>4, <2>1
    <3>3. ~Enclosed(v)'
      BY <1>6
    <3>4. Listed(s, p, v)'
      BY <1>1, <1>2, <1>5, <2>1, <3>1, <3>2, <3>3 DEF Listed, Own
    <3> QED
      BY <3>4
  <2>2. CASE ~(s = own /\ p = top)
    <3>1. p < cStack[s].n /\ cStack'[s].mem[p] = cStack[s].mem[p]
      <4>1. CASE s = own
        <5>1. cStack'[s].n = top + 1
          BY <1>3, <1>4, <4>1
        <5>2. p < top
          BY <1>7, <2>2, <4>1, <5>1
        <5>3. p \in 0..(C!nBits - 1)
          BY <1>2, <1>3, <5>2
        <5> QED
          BY <1>2, <1>3, <1>4, <2>2, <4>1, <5>2, <5>3
      <4>2. CASE s # own
        BY <1>3, <1>4, <1>7, <4>2
      <4> QED
        BY <4>1, <4>2
    <3>2. PICK w \in Nat : Listed(s, p, w)
      BY <3>1 DEF OnlyListed
    <3>3. w < v /\ w \in C!Nodes /\ w < cIdx'
      <4>1. w < v
        BY <1>1, <3>2 DEF Listed
      <4>2. cIdx' = v + 1 \/ cIdx' = v + 2
        BY <1>1
      <4> QED
        BY <1>3, <4>1, <4>2
    <3>4. position'[w] = position[w]
      BY <1>3, <1>4, <3>3
    <3>5. ~Enclosed(w)'
      BY <1>6, <3>2, <3>3 DEF Listed
    <3>6. Listed(s, p, w)'
      BY <1>5, <3>1, <3>2, <3>3, <3>4, <3>5 DEF Listed, Own
    <3> QED
      BY <3>6
  <2> QED
    BY <2>1, <2>2
<1> QED
  BY <1>7 DEF OnlyListed

LEMMA PopLists ==
  ASSUME IntactInv, WalkInv, Room, OnlyListed, cIdx < numNodes - 2,
         NEW x \in BackedgeTargets(edges, cIdx), C!BackedgeAgrees(x), PopVisited(x),
         cIdx' = cIdx + 1, UNCHANGED Given
  PROVE  OnlyListed'
<1>1. PICK v \in Nat \ {0} : v = cIdx /\ v < numNodes - 2
  BY WalkFacts DEF WalkInv
<1>2. PICK own \in StackNames, other \in StackNames :
        /\ own = Own(x) /\ other = Other(x) /\ own # other
        /\ own = C!Possible /\ other = OtherStack(C!Possible)
  <2>1. x \in Int /\ Own(x) = C!Possible /\ Other(x) = OtherStack(C!Possible)
    BY AgreedEnd
  <2> QED
    BY <2>1, OwnAndOther
<1>3. /\ x \in Nat /\ x < v /\ x \in C!Nodes /\ WasRepeat(v, x) /\ Alive(x) /\ Holds(x)
  BY <1>1, AgreedEnd
<1>4. /\ cStack \in [StackNames -> [mem : [0..(C!nBits - 1) -> Nat], n : Nat]]
      /\ position \in [C!Nodes -> Nat] /\ cHistory \in [C!Nodes -> Nat]
      /\ C!Nodes = 0..(numNodes - 1) /\ numNodes \in Nat /\ C!Unset = numNodes
  BY <1>1, WalkFacts DEF WalkInv, WalkTyped, C!Nodes, C!Unset
<1>5. PICK cut \in Nat, kept \in Nat :
        /\ cut = position[x] /\ kept = cHistory[x]
        /\ cut < cStack[own].n /\ kept <= cStack[other].n
  BY <1>2, <1>3, <1>4 DEF Holds
<1>6. /\ UNCHANGED <<cHistory, position>>
      /\ cStack' = [cStack EXCEPT ![own] = [mem |-> cStack[own].mem, n |-> cut],
                                  ![other] = [mem |-> cStack[other].mem, n |-> kept]]
  BY <1>2, <1>5 DEF PopVisited, StackPopUntil
<1>7. /\ cStack'[own].n = cut /\ cStack'[other].n = kept
      /\ \A s \in StackNames : cStack'[s].mem = cStack[s].mem
  BY <1>2, <1>4, <1>6
<1>8. /\ \A u : WasForward(u)' <=> WasForward(u)
      /\ \A u, w : WasBack(u, w)' <=> WasBack(u, w)
      /\ \A u, w : WasRepeat(u, w)' <=> WasRepeat(u, w)
  BY GraphStays DEF WasRepeat
<1>9. ASSUME NEW s \in StackNames, NEW p \in Nat, p < cStack'[s].n
      PROVE  \E w \in Nat : Listed(s, p, w)'
  <2>1. (s = own /\ p < cut) \/ (s = other /\ p < kept)
    <3>1. s = own \/ s = other
      BY <1>2 DEF StackNames
    <3> QED
      BY <1>7, <1>9, <3>1
  <2>2. p < cStack[s].n
    BY <1>4, <1>5, <2>1
  <2>3. PICK w \in Nat : Listed(s, p, w)
    BY <2>2 DEF OnlyListed
  <2>4. w < v /\ w \in C!Nodes /\ Own(w) = s /\ position[w] = p /\ ~Enclosed(w)
    BY <1>1, <1>4, <2>3 DEF Listed
  <2>5. Alive(w)
    <3>1. cStack[s].n < numNodes /\ cStack[s].n \in Nat
      BY WalkFacts DEF WalkInv
    <3>2. position[w] # C!Unset
      BY <1>4, <2>2, <2>4, <3>1
    <3> QED
      BY <1>1, <2>4, <3>2 DEF Alive
  <2>6. w < x
    <3>1. w # x
      <4>1. CASE s = own
        BY <1>5, <2>1, <2>4, <4>1, <1>2
      <4>2. CASE s = other
        BY <1>2, <2>4, <4>2
      <4> QED
        BY <2>1, <4>1, <4>2
    <3>2. ASSUME x < w
          PROVE  FALSE
      <4>1. Before(x, w)
        BY <1>3, <2>4, <2>5, <3>2 DEF WalkInv, WalkStacks
      <4>2. position[w] \in Nat /\ cHistory[w] \in Nat
        BY <1>4, <2>4
      <4>3. CASE s = own
        <5>1. cut < p
          BY <1>2, <1>5, <2>4, <4>1, <4>3 DEF Before
        <5> QED
          BY <1>2, <2>1, <4>3, <5>1
      <4>4. CASE s = other
        <5>1. kept <= p
          BY <1>2, <1>5, <2>4, <4>1, <4>4 DEF Before
        <5> QED
          BY <1>2, <2>1, <4>4, <5>1
      <4> QED
        BY <2>1, <4>3, <4>4
    <3> QED
      BY <1>3, <3>1, <3>2
  <2>7. ~Enclosed(w)'
    <3> SUFFICES ASSUME NEW u \in Nat, NEW y \in Nat, WasRepeat(u, y), u < cIdx',
                        y <= w, w < u
                 PROVE  FALSE
      BY <1>8 DEF Enclosed
    <3>1. CASE u < v
      BY <1>1, <2>4, <3>1 DEF Enclosed
    <3>2. CASE u = v
      <4>1. y = x
        BY <1>3, <3>2 DEF WasRepeat, IntactInv, IntactBlocks
      <4> QED
        BY <1>3, <2>6, <4>1
    <3> QED
      BY <1>1, <3>1, <3>2
  <2>8. cStack'[s].mem[p] = cStack[s].mem[p] /\ position'[w] = position[w] /\ w < cIdx'
    <3>1. cIdx' = v + 1
      BY <1>1
    <3>2. position'[w] = position[w]
      BY <1>6
    <3>3. cStack'[s].mem[p] = cStack[s].mem[p]
      BY <1>7
    <3> QED
      BY <2>4, <3>1, <3>2, <3>3
  <2>9. Listed(s, p, w)'
    BY <1>8, <2>3, <2>7, <2>8 DEF Listed, Own
  <2> QED
    BY <2>9
<1> QED
  BY <1>9 DEF OnlyListed

(* What the numbering says of a node that the checker is at                *)
Reads(v, pos) ==
  /\ v \in 1..idx /\ WasNumbered(pos) /\ pos[v] \in 1..n /\ cI = start + pos[v]
  /\ v = idx => cI = NumBits
  /\ WasForward(v - 2) /\ v < idx => pos[v + 1] = pos[v]
  /\ ~WasForward(v - 2) =>
       /\ v < idx /\ cI \in 0..(NumBits - 1)
       /\ data[cI] = WasMeaning(v) /\ C!bit = claim[cI]
       /\ pos[v + 1] = pos[v] + 1
       /\ v + 1 = idx => cI = NumBits - 1
       /\ v + 2 = idx => cI = NumBits - 2
       /\ v + 2 <= idx =>
            /\ pos[v + 2] = pos[v] + 2 /\ cI + 1 \in 0..(NumBits - 1)
            /\ data[cI + 1] = WasMeaning(v + 1) /\ C!KeyBit(cI + 1) = claim[cI + 1]

LEMMA NodeReads ==
  ASSUME IntactInv, start \in -1..(NumBits - 1),
         NEW v \in Nat \ {0}, v < numNodes - 2, ~WasForward(v - 1),
         NEW pos, WasNumbered(pos), v <= idx => cI = start + pos[v]
  PROVE  Reads(v, pos)
<1>1. /\ idx \in Nat \ {0} /\ n \in Nat \ {0} /\ numNodes \in Nat
      /\ numNodes - 2 = idx + (IF WasForward(idx - 1) \/ WasForward(idx - 2) THEN 1 ELSE 0)
      /\ ~WasForward(v - 1) /\ NumBits \in Nat /\ start \in Int /\ start >= -1
      /\ start + n = NumBits
  BY NumBitsAssumption DEF IntactInv, IntactShape, IntactCount, n
<1>2. v \in 1..idx
  BY <1>1
<1>3. ~WasForward(v - 2) => v < idx
  <2>1. v = idx => WasForward(idx - 1) \/ WasForward(idx - 2)
    BY <1>1
  <2> QED
    BY <1>1, <1>2, <2>1
<1>4. WasNumbered(pos) /\ cI = start + pos[v]
  BY <1>1, <1>2
<1>5. pos[idx] = n
  BY <1>4 DEF WasNumbered
<1>6. /\ pos[v] \in 1..n
      /\ v < idx /\ WasForward(v - 2) => pos[v + 1] = pos[v]
      /\ v < idx /\ ~WasForward(v - 2) =>
           pos[v + 1] = pos[v] + 1 /\ data[start + pos[v]] = WasMeaning(v)
  BY <1>2, <1>4, NumberedStep
<1>7. ASSUME ~WasForward(v - 2)
      PROVE  /\ cI \in 0..(NumBits - 1) /\ pos[v + 1] = pos[v] + 1
             /\ data[cI] = WasMeaning(v) /\ C!bit = claim[cI]
             /\ v + 1 = idx => cI = NumBits - 1
  <2>1. v + 1 \in 1..idx
    BY <1>1, <1>2, <1>3, <1>7
  <2>2. pos[v + 1] \in 1..n
    BY <1>4, <2>1, NumberedStep
  <2>3. /\ pos[v + 1] = pos[v] + 1 /\ data[cI] = WasMeaning(v)
    BY <1>3, <1>4, <1>6, <1>7
  <2>4. cI \in 0..(NumBits - 1)
    BY <1>1, <1>4, <1>6, <2>2, <2>3
  <2>5. C!bit = claim[cI]
    BY <1>1, <2>4 DEF C!bit, C!KeyBit
  <2>6. v + 1 = idx => cI = NumBits - 1
    BY <1>1, <1>4, <1>5, <1>6, <2>3
  <2> QED
    BY <2>3, <2>4, <2>5, <2>6
<1>8. ASSUME ~WasForward(v - 2), v + 2 <= idx
      PROVE  /\ pos[v + 2] = pos[v] + 2 /\ cI + 1 \in 0..(NumBits - 1)
             /\ data[cI + 1] = WasMeaning(v + 1) /\ C!KeyBit(cI + 1) = claim[cI + 1]
             /\ v + 2 = idx => cI = NumBits - 2
  <2>1. /\ v + 1 \in 1..idx /\ v + 2 \in 1..idx /\ v + 1 < idx
        /\ (v + 1) - 2 = v - 1 /\ (v + 1) + 1 = v + 2
    BY <1>1, <1>8
  <2>2. pos[(v + 1) + 1] = pos[v + 1] + 1 /\ data[start + pos[v + 1]] = WasMeaning(v + 1)
    BY <1>1, <1>4, <2>1, NumberedStep
  <2>3. pos[v + 2] \in 1..n
    BY <1>4, <2>1, NumberedStep
  <2>4. /\ pos[v + 2] = pos[v] + 2 /\ cI + 1 = start + pos[v + 1]
    BY <1>1, <1>4, <1>6, <1>7, <1>8, <2>1, <2>2
  <2>5. cI + 1 \in 0..(NumBits - 1)
    BY <1>1, <1>4, <1>6, <2>3, <2>4
  <2>6. C!KeyBit(cI + 1) = claim[cI + 1]
    BY <1>1, <2>5 DEF C!KeyBit
  <2>7. v + 2 = idx => cI = NumBits - 2
    BY <1>1, <1>4, <1>5, <1>6, <2>4
  <2> QED
    BY <2>2, <2>4, <2>5, <2>6, <2>7
<1>9. v = idx => cI = NumBits
  BY <1>1, <1>4, <1>5
<1>10. v + 2 = idx => v + 2 <= idx
  BY <1>1
<1> QED
  BY <1>2, <1>3, <1>4, <1>6, <1>7, <1>8, <1>9, <1>10 DEF Reads

(* A node that has the connections of the path only                        *)
LEMMA HamiltonianIsBare ==
  ASSUME IntactInv, removed = {}, NEW v \in Nat, v < numNodes - 1, C!OnlyHamiltonian(v)
  PROVE  ~WasForward(v) /\ (\A y \in Nat : ~WasBack(v, y)) /\ WasMeaning(v) = 0
<1>1. numNodes \in Nat /\ edges = Intact
  BY DEF IntactInv, IntactShape, Intact
<1>2. C!Successors(edges, v) = {v + 1}
  BY <1>1 DEF C!OnlyHamiltonian
<1>3. ASSUME NEW u, <<v, u>> \in Intact
      PROVE  u = v + 1
  <2>1. <<v, u>> \in {f \in edges : f[1] = v} /\ <<v, u>>[2] = u
    BY <1>1, <1>3
  <2>2. u \in C!Successors(edges, v)
    BY <2>1 DEF C!Successors
  <2> QED
    BY <1>2, <2>2
<1>4. ~WasForward(v) /\ \A y \in Nat : ~WasBack(v, y)
  BY <1>3 DEF WasForward, WasBack
<1> QED
  BY <1>4 DEF WasMeaning, WasOdd

LEMMA NothingLost ==
  ASSUME removed = {}
  PROVE  edges = Intact /\ KeptForward /\ KeptOnes
  BY DEF Intact, KeptForward, KeptOnes

(* Where the checker takes a node for the start of a forward edge that was *)
(* lost, although none was, it is at one of the last two bits              *)
LEMMA GuessIsLate ==
  ASSUME IntactInv, IntactZeros, WalkInv, Room, OnlyListed, removed = {},
         NEW v \in Nat \ {0}, v = cIdx, v < numNodes - 2, NEW pos, Reads(v, pos),
         ~WasForward(v - 2), ~WasForward(v - 1), ~WasForward(v),
         \A y \in Nat : ~WasBack(v, y), C!bit = 1,
         \/ C!LastFourOnlyHamiltonian /\ v = numNodes - 4
         \/ C!LooksLikeIf
  PROVE  /\ v + 2 >= numNodes - 2
         /\ \/ cI = NumBits - 1
            \/ cI = NumBits - 2 /\ v + 2 <= idx /\ WasMeaning(v + 1) = 0
<1>1. /\ idx \in Nat \ {0} /\ numNodes \in Nat /\ v < idx
      /\ numNodes - 2 = idx + (IF WasForward(idx - 1) \/ WasForward(idx - 2) THEN 1 ELSE 0)
      /\ v + 1 \in Nat /\ v + 2 \in Nat
  BY DEF IntactInv, IntactShape, Reads
<1>2. CASE C!LastFourOnlyHamiltonian /\ v = numNodes - 4
  <2>1. v + 1 \in (numNodes - 4)..(numNodes - 1)
    BY <1>1, <1>2
  <2>2. C!OnlyHamiltonian(v + 1)
    BY <1>2, <2>1 DEF C!LastFourOnlyHamiltonian
  <2>3. WasMeaning(v + 1) = 0
    BY <1>1, <1>2, <2>2, HamiltonianIsBare
  <2>4. v # idx - 1
    <3>1. v = idx - 1 => idx - 2 = v - 1
      BY <1>1
    <3> QED
      BY <1>1, <1>2, <3>1
  <2>5. v + 2 = idx
    BY <1>1, <1>2, <2>4
  <2> QED
    BY <1>1, <1>2, <2>3, <2>5 DEF Reads
<1>3. CASE C!LooksLikeIf
  <2>1. C!CanHaveBackedge /\ C!OnlyHamiltonian(v + 1)
    <3>1. v + 1 \in v..(v + 2)
      OBVIOUS
    <3> QED
      BY <1>3, <3>1 DEF C!LooksLikeIf
  <2>2. ~WasForward(v + 1) /\ \A y \in Nat : ~WasBack(v + 1, y)
    BY <1>1, <2>1, HamiltonianIsBare
  <2>3. PICK s \in StackNames : s = C!Possible /\ cStack[s].n > 0
    <3>1. C!Possible \in StackNames
      BY DEF C!Possible, C!PossibleBackedges, StackNames
    <3> QED
      BY <2>1, <3>1 DEF C!CanHaveBackedge, C!HasPossibleBackedge
  <2>4. PICK w \in Nat : Listed(s, 0, w)
    BY <2>3 DEF OnlyListed
  <2>5. w < v /\ Own(w) = s /\ ~Enclosed(w) /\ ~WasForward(w - 1) /\ \A y \in Nat : ~WasBack(w, y)
    BY <2>4 DEF Listed
  <2>6. (v + 1 - w) % 2 = 0
    <3>1. s = PossibleBackedges(v, 1)
      BY <2>3 DEF C!Possible, C!PossibleBackedges, PossibleBackedges, C!IsOdd, IsOdd
    <3>2. /\ v % 2 \in {0, 1} /\ w % 2 \in {0, 1}
          /\ (v + 1 - w) % 2 = IF v % 2 = w % 2 THEN 1 ELSE 0
      OBVIOUS
    <3>3. /\ s = IF v % 2 = 0 THEN "even" ELSE "odd"
          /\ s = IF w % 2 = 0 THEN "odd" ELSE "even"
      BY <2>5, <3>1 DEF PossibleBackedges, Own, OwnStack, IsOdd
    <3> QED
      BY <3>2, <3>3
  <2>7. WasOpenAt(w, v + 1)
    <3> SUFFICES ASSUME NEW x \in Nat, NEW y \in Nat, WasRepeat(x, y), x < v + 1, y <= w,
                        ~(w > x)
                 PROVE  FALSE
      BY <2>5 DEF WasOpenAt
    <3>1. x # v /\ x # w
      BY <2>5 DEF WasRepeat
    <3>2. x < v /\ w < x
      BY <3>1
    <3> QED
      BY <2>5, <3>2 DEF Enclosed
  <2>8. ~(v + 1 < idx)
    <3>1. (v + 1) - 1 = v /\ (v + 1) - 2 = v - 1 /\ v + 1 > 0 /\ w < v + 1
      BY <2>5
    <3>2. WasBare(v + 1)
      BY <2>2, <3>1 DEF WasBare
    <3> QED
      BY <1>1, <2>6, <2>7, <3>1, <3>2 DEF IntactZeros
  <2>9. v + 1 = idx
    BY <1>1, <2>8
  <2>10. idx - 1 = v /\ idx - 2 = v - 1
    BY <1>1, <2>9
  <2>11. numNodes - 2 = idx
    BY <1>1, <2>10
  <2> QED
    BY <1>1, <2>9, <2>11 DEF Reads
<1> QED
  BY <1>2, <1>3

(* An iteration takes the checker to the next node and its bit, or the     *)
(* graph is read to the end and one bit was another                        *)
LEMMA StaysInStep ==
  ASSUME IntactInv, IntactMutes, IntactZeros, WalkInv, Room, InStep, removed = {},
         start \in -1..(NumBits - 1), CheckMove, UNCHANGED Given
  PROVE  InStep' \/ (cIdx >= numNodes - 2 /\ OneMore)'
<1>1. PICK v \in Nat \ {0} : v = cIdx /\ v < numNodes - 2
  BY WalkFacts DEF WalkInv, CheckMove
<1>2. /\ AtNode /\ SameBits(cI) /\ OnlyListed /\ claimStart = start
      /\ ~WasForward(v - 1)
  BY <1>1 DEF InStep, AtNode
<1>3. PICK pos : Reads(v, pos)
  <2>1. v <= idx
    BY <1>1 DEF IntactInv, IntactShape
  <2>2. PICK pos : WasNumbered(pos) /\ cI = start + pos[v]
    BY <1>1, <1>2, <2>1 DEF AtNode
  <2> QED
    BY <1>1, <1>2, <2>2, NodeReads
<1>4. /\ idx \in Nat \ {0} /\ n \in Nat \ {0} /\ numNodes \in Nat /\ NumBits \in Nat
      /\ start + n = NumBits /\ start \in Int /\ v \in 1..idx
      /\ pos[v] \in 1..n /\ cI = start + pos[v] /\ cI \in Int /\ WasNumbered(pos)
      /\ pos[idx] = n
  BY <1>3, NumBitsAssumption DEF Reads, IntactInv, IntactShape, IntactCount, n, WasNumbered
<1>5. /\ edges = Intact /\ KeptForward /\ KeptOnes
  BY NothingLost
<1>6. WasForward(v - 2) => ~WasForward(v)
  <2>1. ASSUME WasForward(v - 2)
        PROVE  ~WasForward(v)
    <3>1. v - 2 \in Int /\ (v - 2) + 2 = v /\ <<v - 2, (v - 2) + 2>> \in Intact
      BY <2>1 DEF WasForward
    <3>2. v - 2 \in Nat
      <4>1. <<v - 2, (v - 2) + 2>>[1] \in 0..(numNodes - 1)
        BY <3>1 DEF IntactInv, IntactShape
      <4> QED
        BY <4>1
    <3> QED
      BY <2>1, <3>1, <3>2 DEF IntactInv, IntactForward
  <2> QED
    BY <2>1
<1>7. /\ \A u : WasForward(u)' <=> WasForward(u)
      /\ WasNumbered(pos)' /\ idx' = idx /\ start' = start
      /\ claimStart' = claimStart /\ claim' = claim /\ data' = data /\ numNodes' = numNodes
  BY <1>4, GraphStays DEF Given
<1>8. ASSUME NEW u \in Nat, cIdx' = u, ~WasForward(u - 1), OnlyListed', SameBits(cI'),
             u <= idx => cI' = start + pos[u], u > idx => cI' >= NumBits
      PROVE  InStep'
  <2>1. SameBits(cI)'
    BY <1>7, <1>8 DEF SameBits
  <2>2. AtNode'
    BY <1>7, <1>8 DEF AtNode
  <2> QED
    BY <1>2, <1>7, <1>8, <2>1, <2>2 DEF InStep
<1>9. ASSUME data[cI] = claim[cI]
      PROVE  SameBits(cI + 1)
  <2>1. \A j \in 0..(NumBits - 1) : j < cI + 1 => j < cI \/ j = cI
    BY <1>4
  <2> QED
    BY <1>2, <1>9, <2>1 DEF SameBits
<1>10. CASE WasForward(v - 2)
  <2>1. C!Status = "mute"
    BY <1>1, <1>5, <1>10, StatusIs
  <2>2. PassOne /\ cI' = cI
    BY <2>1 DEF CheckMove, GoBack, PassTwo, BackStatus, ForwardStatus
  <2>3. cIdx' = v + 1 /\ PushVisited /\ (v + 1) - 1 = v
    BY <1>1, <2>2 DEF PassOne
  <2>4. \A y \in Nat : ~WasBack(v, y)
    BY <1>10 DEF IntactMutes
  <2>5. OnlyListed'
    BY <1>1, <1>2, <2>3, <2>4, PushLists
  <2>6. v + 1 <= idx => cI' = start + pos[v + 1]
    BY <1>3, <1>4, <1>10, <2>2 DEF Reads
  <2>7. v + 1 > idx => cI' >= NumBits
    <3>1. v + 1 > idx => v = idx
      BY <1>4
    <3> QED
      BY <1>3, <1>4, <2>2, <3>1 DEF Reads
  <2> QED
    BY <1>2, <1>6, <1>8, <1>10, <2>2, <2>3, <2>5, <2>6, <2>7
<1>11. ASSUME ~WasForward(v - 2)
       PROVE  /\ v < idx /\ cI \in 0..(NumBits - 1)
              /\ data[cI] = WasMeaning(v) /\ C!bit = claim[cI]
              /\ v + 1 <= idx /\ cI + 1 = start + pos[v + 1]
              /\ ~(v + 1 > idx)
              /\ v + 1 = idx => cI = NumBits - 1
              /\ v + 2 <= idx =>
                   /\ cI + 2 = start + pos[v + 2] /\ cI # NumBits - 1
                   /\ cI + 1 \in 0..(NumBits - 1)
                   /\ data[cI + 1] = WasMeaning(v + 1)
                   /\ C!KeyBit(cI + 1) = claim[cI + 1]
  BY <1>3, <1>4, <1>11 DEF Reads
<1>12. CASE ~WasForward(v - 2) /\ WasForward(v)
  <2>1. C!Status = IF WasBack(v + 1, v) THEN "forward1" ELSE "forward0"
    BY <1>1, <1>5, <1>12, StatusIs
  <2>2. /\ C!ForwardAgrees /\ PassTwo
        /\ cI' = IF cI # NumBits - 1 THEN cI + 2 ELSE cI + 1
    BY <2>1 DEF CheckMove, GoBack, PassOne, BackStatus, ForwardStatus
  <2>3. cIdx' = v + 2 /\ PushVisited /\ (v + 2) - 1 = v + 1
    BY <1>1, <2>2 DEF PassTwo
  <2>4. /\ \A y \in Nat : ~WasBack(v, y)
        /\ ~WasForward(v + 1)
    BY <1>12 DEF IntactInv, IntactBlocks, IntactForward
  <2>5. OnlyListed'
    BY <1>1, <1>2, <1>12, <2>3, <2>4, PushLists
  <2>6. data[cI] = claim[cI]
    BY <1>11, <1>12, <2>2 DEF C!ForwardAgrees, WasMeaning
  <2>7. CASE v + 2 <= idx
    <3>1. WasMeaning(v + 1) = C!InnerBit
      <4>1. \A w \in Nat : WasBack(v + 1, w) => w = v
        <5>1. (v + 1) - 1 = v /\ v + 1 \in Nat
          OBVIOUS
        <5> QED
          BY <1>12, <5>1 DEF IntactInv, IntactBlocks
      <4>2. ((v + 1) - v) % 2 = 1
        OBVIOUS
      <4>3. WasOdd(v + 1) <=> WasBack(v + 1, v)
        BY <4>1, <4>2 DEF WasOdd
      <4> QED
        BY <2>1, <2>4, <4>3 DEF WasMeaning, C!InnerBit
    <3>2. claim[cI + 1] = data[cI + 1]
      BY <1>11, <1>12, <2>2, <2>7, <3>1 DEF C!ForwardAgrees
    <3>3. SameBits(cI + 2)
      <4>1. \A j \in 0..(NumBits - 1) : j < cI + 2 => j < cI + 1 \/ j = cI + 1
        BY <1>4
      <4> QED
        BY <1>9, <2>6, <3>2, <4>1 DEF SameBits
    <3>4. cI' = cI + 2 /\ cI' = start + pos[v + 2] /\ ~(v + 2 > idx)
      BY <1>4, <1>11, <1>12, <2>2, <2>7
    <3> QED
      BY <1>8, <2>3, <2>4, <2>5, <3>3, <3>4
  <2>8. CASE ~(v + 2 <= idx)
    <3>1. v + 1 = idx
      BY <1>4, <1>11, <1>12, <2>8
    <3>2. cI' = cI + 1 /\ cI' >= NumBits
      BY <1>4, <1>11, <1>12, <2>2, <3>1
    <3> QED
      BY <1>8, <1>9, <2>3, <2>4, <2>5, <2>6, <2>8, <3>2
  <2> QED
    BY <2>7, <2>8
<1>13. ASSUME ~WasForward(v - 2), ~WasForward(v), cIdx' = v + 1, cI' = cI + 1,
              data[cI] = claim[cI], OnlyListed'
       PROVE  InStep'
  <2>1. (v + 1) - 1 = v
    OBVIOUS
  <2> QED
    BY <1>8, <1>9, <1>11, <1>13, <2>1
<1>14. CASE ~WasForward(v - 2) /\ ~WasForward(v) /\ BackedgeTargets(edges, v) # {}
  <2>1. BackStatus
    BY <1>1, <1>5, <1>14, StatusIs
  <2>2. GoBack /\ cI' = cI + 1
    BY <2>1 DEF CheckMove, PassOne, PassTwo, BackStatus, ForwardStatus
  <2>3. PICK w \in BackedgeTargets(edges, cIdx) : C!BackedgeAgrees(w) /\ PopVisited(w)
    BY <2>2 DEF GoBack
  <2>4. w \in Nat /\ WasBack(v, w)
    BY <1>1, <2>3, RepeatEnd DEF WasRepeat
  <2>5. C!bit = WasMeaning(v)
    BY <1>1, <2>3, <2>4, BackMeans DEF C!BackedgeAgrees
  <2>6. cIdx' = v + 1
    BY <1>1, <2>2 DEF GoBack
  <2>7. OnlyListed'
    BY <1>1, <1>2, <2>3, <2>6, PopLists
  <2> QED
    BY <1>11, <1>13, <1>14, <2>2, <2>5, <2>6, <2>7
<1>15. CASE ~WasForward(v - 2) /\ ~WasForward(v) /\ BackedgeTargets(edges, v) = {}
  <2>1. \A y \in Nat : ~WasBack(v, y)
    <3> SUFFICES ASSUME NEW y \in Nat, WasBack(v, y)
                 PROVE  FALSE
      OBVIOUS
    <3>1. y \in 0..(v - 1) /\ <<v, y>> \in edges
      BY <1>5 DEF WasBack
    <3> QED
      BY <1>15, <3>1 DEF BackedgeTargets, Connected
  <2>2. data[cI] = 0
    BY <1>5, <1>11, <1>15, KeptZero
  <2>3. \/ C!Status = "zero"
        \/ /\ C!Status = "forward0" /\ C!bit = 1
           /\ \/ C!LastFourOnlyHamiltonian /\ v = numNodes - 4
              \/ C!LooksLikeIf
    BY <1>1, <1>5, <1>15, StatusIs
  <2>4. CASE C!Status = "zero"
    <3>1. C!bit = 0 /\ PassOne /\ cI' = cI + 1
      BY <2>4 DEF CheckMove, GoBack, PassTwo, BackStatus, ForwardStatus
    <3>2. cIdx' = v + 1 /\ PushVisited
      BY <1>1, <3>1 DEF PassOne
    <3>3. OnlyListed'
      BY <1>1, <1>2, <2>1, <3>2, PushLists
    <3> QED
      BY <1>11, <1>13, <1>15, <2>2, <3>1, <3>2, <3>3
  <2>5. CASE /\ C!Status = "forward0" /\ C!bit = 1
             /\ \/ C!LastFourOnlyHamiltonian /\ v = numNodes - 4
                \/ C!LooksLikeIf
    <3>1. C!ForwardAgrees /\ PassTwo
      BY <2>5 DEF CheckMove, GoBack, PassOne, BackStatus, ForwardStatus
    <3>2. /\ v + 2 >= numNodes - 2
          /\ \/ cI = NumBits - 1
             \/ cI = NumBits - 2 /\ v + 2 <= idx /\ WasMeaning(v + 1) = 0
      BY <1>1, <1>2, <1>3, <1>15, <2>1, <2>5, GuessIsLate
    <3>3. cIdx' >= numNodes' - 2
      BY <1>1, <1>7, <3>1, <3>2 DEF PassTwo
    <3>4. ASSUME NEW j \in 0..(NumBits - 1), j # cI
          PROVE  claim[j] = data[j]
      <4>1. CASE j < cI
        BY <1>2, <4>1 DEF SameBits
      <4>2. CASE ~(j < cI)
        <5>1. j = cI + 1 /\ cI = NumBits - 2 /\ v + 2 <= idx /\ WasMeaning(v + 1) = 0
          BY <1>4, <3>2, <3>4, <4>2
        <5>2. C!InnerBit = 0
          BY <2>5 DEF C!InnerBit
        <5>3. claim[cI + 1] = 0
          BY <1>11, <1>15, <3>1, <5>1, <5>2 DEF C!ForwardAgrees
        <5> QED
          BY <1>11, <1>15, <5>1, <5>3
      <4> QED
        BY <4>1, <4>2
    <3>5. OneMore
      BY <1>11, <1>15, <2>5, <3>4 DEF OneMore
    <3>6. OneMore'
      BY <1>7, <3>5 DEF OneMore
    <3> QED
      BY <3>3, <3>6
  <2> QED
    BY <2>3, <2>4, <2>5
<1> QED
  BY <1>10, <1>12, <1>14, <1>15

(* The checker starts in step with a graph of the size of its key          *)
LEMMA StartsInStep ==
  /\ IntactInv /\ ClaimTyped /\ Start /\ IntactReads
  /\ start \in FirstPositiveBitIndex(data) /\ claimStart \in FirstPositiveBitIndex(claim)
  /\ claimStart = start /\ cI = claimStart + 1
  => InStep
<1> SUFFICES ASSUME IntactInv, ClaimTyped, Start, IntactReads,
                    start \in FirstPositiveBitIndex(data),
                    claimStart \in FirstPositiveBitIndex(claim),
                    claimStart = start, cI = claimStart + 1
             PROVE  InStep
  OBVIOUS
<1>1. /\ cIdx = 1 /\ 1 - 1 = 0 /\ idx \in Nat \ {0} /\ numNodes \in Nat
      /\ start \in -1..(NumBits - 1) /\ NumBits \in Nat
  BY NumBitsAssumption DEF Start, IntactInv, IntactShape, FirstPositiveBitIndex
<1>2. AtNode
  <2>1. PICK pos : WasNumbered(pos)
    BY DEF IntactReads
  <2>2. ~WasForward(cIdx - 1)
    BY <1>1 DEF IntactInv, IntactForward
  <2>3. cI = start + pos[cIdx]
    BY <1>1, <2>1 DEF WasNumbered
  <2> QED
    BY <1>1, <2>1, <2>2, <2>3 DEF AtNode
<1>3. SameBits(cI)
  <2> SUFFICES ASSUME NEW j \in 0..(NumBits - 1), j < start + 1
               PROVE  claim[j] = data[j]
    BY DEF SameBits
  <2>1. start # -1 /\ (j = start \/ j \in 0..(start - 1))
    BY <1>1
  <2> QED
    BY <1>1, <2>1 DEF FirstPositiveBitIndex
<1>4. OnlyListed
  <2>1. C!nBits \in Nat \ {0}
    BY NumBitsAssumption DEF ClaimTyped, C!nBits
  <2>2. /\ cStack = [odd |-> [mem |-> [[p \in 0..(C!nBits - 1) |-> 0] EXCEPT ![0] = 0], n |-> 1],
                     even |-> [mem |-> [p \in 0..(C!nBits - 1) |-> 0], n |-> 0]]
        /\ position = [v \in 0..(numNodes - 1) |-> IF v = 0 THEN 0 ELSE numNodes]
    BY DEF Start, C!FirstStack, C!FirstPosition, C!StackPush, C!StackCreate, C!Unset, C!Nodes
  <2>3. /\ cStack["odd"].n = 1 /\ cStack["even"].n = 0 /\ cStack["odd"].mem[0] = 0
    BY <2>1, <2>2
  <2>4. 0 \in 0..(numNodes - 1)
    <3> DEFINE m == IF WasForward(idx - 1) \/ WasForward(idx - 2) THEN 1 ELSE 0
    <3>1. m \in Nat /\ numNodes - 2 = idx + m
      BY DEF IntactInv, IntactShape
    <3> HIDE DEF m
    <3> QED
      BY <1>1, <3>1
  <2>5. position[0] = 0
    BY <2>2, <2>4
  <2>6. ~Enclosed(0)
    <3>1. \A u, v \in Nat : u < 1 /\ v < u => FALSE
      OBVIOUS
    <3> QED
      BY <1>1, <3>1 DEF Enclosed, WasRepeat, WasBack
  <2>7. ~WasForward(0 - 1)
    <3>1. ASSUME <<0 - 1, (0 - 1) + 2>> \in Intact
          PROVE  FALSE
      <4>1. <<0 - 1, (0 - 1) + 2>>[1] \in 0..(numNodes - 1)
        BY <3>1 DEF IntactInv, IntactShape
      <4> QED
        BY <4>1
    <3> QED
      BY <3>1 DEF WasForward
  <2>8. \A y \in Nat : ~WasBack(0, y)
    BY DEF WasBack
  <2>9. Own(0) = "odd"
    BY DEF Own, OwnStack, IsOdd
  <2>10. Listed("odd", 0, 0)
    BY <1>1, <2>3, <2>5, <2>6, <2>7, <2>8, <2>9 DEF Listed
  <2>11. ASSUME NEW s \in StackNames, NEW p \in Nat, p < cStack[s].n
         PROVE  s = "odd" /\ p = 0
    BY <2>3, <2>11 DEF StackNames
  <2> QED
    BY <2>10, <2>11 DEF OnlyListed
<1> QED
  BY <1>2, <1>3, <1>4 DEF InStep

(* What the encoder leaves                                                 *)
LEMMA ForcedKept ==
  ASSUME ForcedInv, Intact' = edges, idx' = idx
  PROVE  IntactMutes' /\ IntactZeros'
<1>1. /\ \A v : WasForward(v)' <=> Forward(v)
      /\ \A u, v : WasBack(u, v)' <=> Back(u, v)
  BY DEF WasForward, WasBack, Forward, Back
<1>2. \A u, v : WasRepeat(u, v)' <=> Repeats(u, v)
  BY <1>1 DEF WasRepeat, Repeats
<1>3. /\ \A v : WasBare(v)' <=> Bare(v)
      /\ \A w, v : WasOpenAt(w, v)' <=> OpenAt(w, v)
  BY <1>1, <1>2 DEF WasBare, Bare, WasOpenAt, OpenAt
<1>4. IntactMutes'
  BY <1>1 DEF ForcedInv, MutesAreStraight, IntactMutes
<1>5. IntactZeros'
  BY <1>1, <1>3 DEF ForcedInv, ZerosAreForced, IntactZeros
<1> QED
  BY <1>4, <1>5

LEMMA WrongKeyStep ==
  KCInv /\ KCInv' /\ VerdictInv /\ VerdictInv' /\ WrongKeyInv /\ [KCNext]_allVars
    => WrongKeyInv'
<1> SUFFICES ASSUME KCInv, KCInv', VerdictInv, VerdictInv', WrongKeyInv, [KCNext]_allVars
             PROVE  WrongKeyInv'
  OBVIOUS
<1>1. CASE Encode
  <2>1. /\ phase = "encode" /\ phase' = "encode" /\ Next /\ verdict' = verdict
    BY <1>1 DEF Encode, checkerVars
  <2>2. EncoderInv /\ EncoderInv'
    BY <2>1 DEF KCInv, Fresh
  <2>3. ForcedInv' /\ verdict' = "none"
    BY <2>1, <2>2, StepForces DEF WrongKeyInv
  <2> QED
    BY <2>1, <2>3 DEF WrongKeyInv
<1>2. CASE StartChecking
  <2>1. /\ phase = "encode" /\ phase' = "check" /\ Encoded /\ Fresh
        /\ UNCHANGED <<data, start, i, idx, numNodes, cIdx>> /\ cI' = claimStart' + 1
        /\ claimStart' \in FirstPositiveBitIndex(claim')
        /\ verdict' = IF C!SizeMatches' THEN "none" ELSE "reject"
    BY <1>2 DEF StartChecking, KCInv
  <2>2. Intact' = edges
    <3>1. removed' \subseteq edges /\ edges' = edges \ removed'
      BY <1>2 DEF StartChecking, NonHamiltonianEdges
    <3> QED
      BY <3>1 DEF Intact
  <2>3. IntactMutes' /\ IntactZeros'
    BY <2>1, <2>2, ForcedKept DEF WrongKeyInv
  <2>4. ASSUME removed' = {}, verdict' = "none"
        PROVE  InStep'
    <3>1. /\ (IntactInv /\ ClaimTyped)' /\ IntactReads'
          /\ (start \in FirstPositiveBitIndex(data))'
          /\ (claimStart \in FirstPositiveBitIndex(claim))'
      BY <2>1 DEF KCInv, VerdictInv, FirstPositiveBitIndex
    <3>2. KeptOnes'
      BY <2>4 DEF KeptOnes
    <3>3. (/\ IntactInv /\ ClaimTyped /\ KeptOnes /\ start \in FirstPositiveBitIndex(data))'
            => (C!SizeMatches <=> claimStart = start)'
      BY SizesAgree, KeptOnesForward, PTL
    <3>4. claimStart' = start'
      BY <2>1, <2>4, <3>1, <3>2, <3>3
    <3>5. Start'
      BY <1>2, <2>1 DEF StartChecking, Start, Fresh
    <3>6. (/\ IntactInv /\ ClaimTyped /\ Start /\ IntactReads
           /\ start \in FirstPositiveBitIndex(data) /\ claimStart \in FirstPositiveBitIndex(claim)
           /\ claimStart = start /\ cI = claimStart + 1)' => InStep'
      BY StartsInStep, PTL
    <3> QED
      BY <2>1, <3>1, <3>4, <3>5, <3>6
  <2> QED
    BY <2>1, <2>3, <2>4 DEF WrongKeyInv
<1>3. ASSUME UNCHANGED Given
      PROVE  /\ IntactMutes /\ IntactZeros => IntactMutes' /\ IntactZeros'
             /\ OneMore' <=> OneMore
             /\ SameBits(NumBits)' <=> SameBits(NumBits)
             /\ claim' = claim /\ data' = data /\ removed' = removed /\ numNodes' = numNodes
  <2>1. /\ \A u : WasForward(u)' <=> WasForward(u)
        /\ \A u, w : WasBack(u, w)' <=> WasBack(u, w)
        /\ \A u, w : WasRepeat(u, w)' <=> WasRepeat(u, w)
        /\ claim' = claim /\ data' = data /\ idx' = idx
    BY <1>3, GraphStays DEF WasRepeat
  <2>2. /\ \A v : WasBare(v)' <=> WasBare(v)
        /\ \A w, v : WasOpenAt(w, v)' <=> WasOpenAt(w, v)
    BY <2>1 DEF WasBare, WasOpenAt
  <2>3. IntactMutes' <=> IntactMutes
    BY <2>1 DEF IntactMutes
  <2>4. IntactZeros' <=> IntactZeros
    BY <2>1, <2>2 DEF IntactZeros
  <2>5. OneMore' <=> OneMore
    BY <2>1 DEF OneMore
  <2>6. SameBits(NumBits)' <=> SameBits(NumBits)
    BY <2>1 DEF SameBits
  <2> QED
    BY <1>3, <2>3, <2>4, <2>5, <2>6 DEF Given
<1>4. CASE Check
  <2>1. /\ UNCHANGED Given /\ phase = "check" /\ phase' = "check"
        /\ verdict = "none" /\ (CheckMove \/ CheckEnd)
    BY <1>4, CheckMoves
  <2>2. /\ IntactInv /\ WalkInv /\ Room /\ ClaimTyped /\ IntactMutes /\ IntactZeros
        /\ start \in -1..(NumBits - 1)
    <3>1. start \in FirstPositiveBitIndex(data)
      BY DEF VerdictInv
    <3>2. FirstPositiveBitIndex(data) \subseteq -1..(NumBits - 1)
      BY NumBitsAssumption DEF FirstPositiveBitIndex
    <3> QED
      BY <2>1, <3>1, <3>2 DEF KCInv, WrongKeyInv
  <2>3. cIdx \in Int /\ numNodes \in Int /\ idx \in Int
    BY <2>2 DEF WalkInv, WalkTyped, IntactInv, IntactShape
  <2>4. ASSUME removed = {}
        PROVE  /\ verdict' = "none" => InStep' \/ (cIdx >= numNodes - 2 /\ OneMore)'
               /\ verdict' = "accept" => SameBits(NumBits) \/ OneMore
    <3>1. InStep \/ (cIdx >= numNodes - 2 /\ OneMore)
      BY <2>1, <2>4 DEF WrongKeyInv
    <3>2. CASE CheckMove
      <4>1. InStep
        BY <2>3, <3>1, <3>2 DEF CheckMove
      <4> QED
        BY <2>1, <2>2, <2>4, <3>2, <4>1, StaysInStep DEF CheckMove
    <3>3. CASE CheckEnd
      <4>1. ASSUME ~(cIdx < numNodes - 2), InStep
            PROVE  SameBits(NumBits)
        <5>1. /\ idx \in Nat \ {0} /\ n \in Nat /\ start + n = NumBits /\ NumBits \in Nat
              /\ cIdx >= idx
          <6> DEFINE m == IF WasForward(idx - 1) \/ WasForward(idx - 2) THEN 1 ELSE 0
          <6>1. /\ m \in Nat /\ numNodes - 2 = idx + m /\ idx \in Nat \ {0} /\ n \in Nat
            BY <2>2 DEF IntactInv, IntactShape, IntactCount
          <6> HIDE DEF m
          <6>2. start + n = NumBits /\ NumBits \in Nat
            BY <2>2, NumBitsAssumption DEF n
          <6> QED
            BY <2>3, <4>1, <6>1, <6>2
        <5>2. cI >= NumBits
          <6>1. CASE cIdx = idx
            <7>1. PICK pos : WasNumbered(pos) /\ cI = start + pos[cIdx]
              BY <4>1, <5>1, <6>1 DEF InStep, AtNode
            <7> QED
              BY <5>1, <6>1, <7>1 DEF WasNumbered
          <6>2. CASE cIdx > idx
            BY <4>1, <6>2 DEF InStep, AtNode
          <6> QED
            BY <2>3, <5>1, <6>1, <6>2
        <5>3. cI \in Nat
          BY <2>2 DEF ClaimTyped
        <5> QED
          BY <4>1, <5>1, <5>2, <5>3 DEF InStep, SameBits
      <4> QED
        BY <3>1, <3>3, <4>1 DEF CheckEnd
    <3> QED
      BY <2>1, <3>2, <3>3
  <2> QED
    BY <1>3, <2>1, <2>2, <2>4 DEF WrongKeyInv
<1>5. CASE \/ StartAnalysing \/ ReturnNoMarks \/ Analyse
           \/ RsCheck \/ RsCheckNoMarks \/ Rest \/ UNCHANGED allVars
  <2>1. /\ UNCHANGED Given /\ verdict' = verdict
        /\ \/ UNCHANGED <<phase, cIdx, cI, cStack, cHistory, position>>
           \/ /\ phase # "encode"
              /\ phase' \in {"analyse", "no marks", "corrected", "crashed"}
    <3>1. CASE StartAnalysing
      BY <3>1 DEF StartAnalysing, Given, vars
    <3>2. CASE Analyse
      BY <3>2, AnalysisMoves
    <3>3. CASE ReturnNoMarks \/ RsCheck \/ RsCheckNoMarks \/ Rest \/ UNCHANGED allVars
      BY <3>3 DEF ReturnNoMarks, RsCheck, RsCheckNoMarks, Rest, allVars, checkerVars, vars,
                  Given
    <3> QED
      BY <1>5, <3>1, <3>2, <3>3
  <2>2. UNCHANGED <<cIdx, cI, cStack, position>> /\ InStep => InStep'
    <3> SUFFICES ASSUME UNCHANGED <<cIdx, cI, cStack, position>>, InStep
                 PROVE  InStep'
      OBVIOUS
    <3>1. /\ \A u : WasForward(u)' <=> WasForward(u)
          /\ \A u, w : WasBack(u, w)' <=> WasBack(u, w)
          /\ \A u, w : WasRepeat(u, w)' <=> WasRepeat(u, w)
          /\ \A pos : WasNumbered(pos)' <=> WasNumbered(pos)
          /\ claim' = claim /\ data' = data /\ idx' = idx /\ start' = start
          /\ claimStart' = claimStart
      BY <2>1, GraphStays DEF WasRepeat
    <3>2. \A s, p, w : Listed(s, p, w)' <=> Listed(s, p, w)
      BY <3>1 DEF Listed, Enclosed, Own
    <3>3. AtNode' /\ SameBits(cI)' /\ OnlyListed'
      BY <3>1, <3>2 DEF InStep, AtNode, SameBits, OnlyListed
    <3> QED
      BY <3>1, <3>3 DEF InStep
  <2>3. ForcedInv => ForcedInv'
    <3>1. edges' = edges /\ idx' = idx
      BY <2>1 DEF Given
    <3>2. /\ \A v : Forward(v)' <=> Forward(v)
          /\ \A u, v : Back(u, v)' <=> Back(u, v)
      BY <3>1 DEF Forward, Back
    <3>3. \A u, v : Repeats(u, v)' <=> Repeats(u, v)
      BY <3>2 DEF Repeats
    <3>4. /\ \A v : Bare(v)' <=> Bare(v)
          /\ \A w, v : OpenAt(w, v)' <=> OpenAt(w, v)
      BY <3>2, <3>3 DEF Bare, OpenAt
    <3>5. MutesAreStraight' <=> MutesAreStraight
      BY <3>2 DEF MutesAreStraight
    <3>6. ZerosAreForced' <=> ZerosAreForced
      BY <3>1, <3>2, <3>4 DEF ZerosAreForced
    <3> QED
      BY <3>5, <3>6 DEF ForcedInv
  <2> QED
    BY <1>3, <2>1, <2>2, <2>3 DEF WrongKeyInv
<1> QED
  BY <1>1, <1>2, <1>4, <1>5 DEF KCNext

(* An intact graph that passes for a wrong key passes only for keys with   *)
(* one more 1 than its own: the encoder would have gone back where the     *)
(* checker takes a node without connections for a 1 anywhere else          *)
(* (checker.c:32-43).                                                      *)
THEOREM WrongKeysAreClose == KCSpec => []WrongKeyAddsOneBit
<1>1. KCInit => WrongKeyInv
  BY InitForces DEF KCInit, WrongKeyInv
<1>2. KCInv /\ KCInv' /\ VerdictInv /\ VerdictInv' /\ WrongKeyInv /\ [KCNext]_allVars
        => WrongKeyInv'
  BY WrongKeyStep
<1>3. WrongKeyInv => WrongKeyAddsOneBit
  <2> SUFFICES ASSUME WrongKeyInv, verdict = "accept", removed = {}
               PROVE  /\ Cardinality(Flipped(claim)) <= 1
                      /\ \A j \in Flipped(claim) : claim[j] = 1
    BY DEF WrongKeyAddsOneBit
  <2>1. SameBits(NumBits) \/ OneMore
    BY DEF WrongKeyInv
  <2>2. CASE SameBits(NumBits)
    <3>1. Flipped(claim) = {}
      BY <2>2, NumBitsAssumption DEF SameBits, Flipped
    <3> QED
      BY <3>1, FS_EmptySet
  <2>3. CASE OneMore
    <3>1. PICK k \in 0..(NumBits - 1) :
            claim[k] = 1 /\ \A j \in 0..(NumBits - 1) : j # k => claim[j] = data[j]
      BY <2>3 DEF OneMore
    <3>2. Flipped(claim) = {} \/ Flipped(claim) = {k}
      <4>1. \A j \in Flipped(claim) : j = k
        BY <3>1 DEF Flipped
      <4> QED
        BY <4>1
    <3>3. Cardinality(Flipped(claim)) = 0 \/ Cardinality(Flipped(claim)) = 1
      <4>1. CASE Flipped(claim) = {}
        BY <4>1, FS_EmptySet
      <4>2. CASE Flipped(claim) = {k}
        BY <4>2, FS_Singleton
      <4> QED
        BY <3>2, <4>1, <4>2
    <3>4. Cardinality(Flipped(claim)) <= 1
      BY <3>3
    <3> QED
      BY <3>1, <3>2, <3>4
  <2> QED
    BY <2>1, <2>2, <2>3
<1> QED
  BY <1>1, <1>2, <1>3, VerdictsFollowTheKey, PTL DEF KCSpec

-----------------------------------------------------------------------------
(***************************************************************************)
(* Proof that the two loops of the checker agree, for keys of every length *)
(* and whatever is lost.                                                   *)
(*                                                                         *)
(* As long as nothing disagrees both do the same with the same locals.  So *)
(* the analysis, while it has marked nothing, repeats the iterations that  *)
(* watermark_check has done, and comes to where that one stopped.          *)
(***************************************************************************)
(* The locals of an iteration, with the graph and the key that it reads    *)
Now == [edges |-> edges, numNodes |-> numNodes, key |-> claim, v |-> cIdx, i |-> cI,
        stack |-> cStack, history |-> cHistory, position |-> position]

(* Those before the first one *)
Begin == [edges |-> edges, numNodes |-> numNodes, key |-> claim, v |-> 1,
          i |-> claimStart + 1, stack |-> C!FirstStack, history |-> C!FirstHistory,
          position |-> C!FirstPosition]

At(s) == INSTANCE Checker WITH
           key <- s.key, keyStart <- 0, edges <- s.edges, numNodes <- s.numNodes,
           graphIdx <- s.v, i <- s.i, stack <- s.stack, history <- s.history,
           position <- s.position, verdict <- "none"

Loops(s) == s.v < s.numNodes - 2
Agrees(s) == ~At(s)!Mismatch

(* What an iteration leaves that agrees *)
Saved(s, v, j) ==
  [edges |-> s.edges, numNodes |-> s.numNodes, key |-> s.key, v |-> v, i |-> j,
   stack |-> [s.stack EXCEPT ![Own(s.v)] = StackPush(@, s.v)],
   history |-> [s.history EXCEPT ![s.v] = s.stack[Other(s.v)].n],
   position |-> [s.position EXCEPT ![s.v] = s.stack[Own(s.v)].n]]

End(s) == CHOOSE w \in BackedgeTargets(s.edges, s.v) : TRUE
Popped(s) ==
  [edges |-> s.edges, numNodes |-> s.numNodes, key |-> s.key, v |-> s.v + 1, i |-> s.i + 1,
   stack |-> [s.stack EXCEPT
                ![At(s)!Possible] = StackPopUntil(@, s.position[End(s)]),
                ![OtherStack(At(s)!Possible)] = StackPopUntil(@, s.history[End(s)])],
   history |-> s.history, position |-> s.position]

After(s) ==
  IF At(s)!Status = "mute" THEN Saved(s, s.v + 1, s.i)
  ELSE IF At(s)!Status = "zero" THEN Saved(s, s.v + 1, s.i + 1)
  ELSE IF At(s)!Status \in {"back0", "back1"} THEN Popped(s)
  ELSE Saved(s, s.v + 2, IF s.i # NumBits - 1 THEN s.i + 2 ELSE s.i + 1)

(* f lists the locals of k iterations from s on that agree *)
Ran(s, f, k) ==
  /\ k \in Nat /\ f[0] = s
  /\ \A j \in 0..(k - 1) : Loops(f[j]) /\ Agrees(f[j]) /\ f[j + 1] = After(f[j])

(* The iteration that gave the verdict *)
Stopped(s) ==
  \/ verdict = "accept" /\ ~Loops(s)
  \/ verdict = "reject" /\ Loops(s) /\ ~Agrees(s)

(* The analysis has marked nothing and is at one of the iterations of the  *)
(* check, or has marked a bit and the check has rejected                   *)
Repeating(f, k) ==
  /\ Ran(Begin, f, k) /\ Stopped(f[k])
  /\ Marked = {} => \E j \in 0..k : f[j] = Now
  /\ Marked # {} => verdict = "reject"

SameRunInv ==
  /\ phase = "check" /\ verdict = "none" => \E f, k : Ran(Begin, f, k) /\ f[k] = Now
  /\ phase = "check" /\ verdict # "none" /\ C!SizeMatches =>
       \E f, k : Ran(Begin, f, k) /\ Stopped(f[k])
  /\ phase = "analyse" => \E f, k : Repeating(f, k)

(* At reads what the checker reads                                         *)
LEMMA SameAt ==
  ASSUME NEW s, s = Now
  PROVE  /\ At(s)!Status = C!Status /\ At(s)!Possible = C!Possible /\ At(s)!bit = C!bit
         /\ \A w : At(s)!BackedgeAgrees(w) <=> C!BackedgeAgrees(w)
         /\ At(s)!ForwardAgrees <=> C!ForwardAgrees
         /\ At(s)!Mismatch <=> C!Mismatch
<1>1. /\ s.edges = edges /\ s.numNodes = numNodes /\ s.key = claim /\ s.v = cIdx /\ s.i = cI
      /\ s.stack = cStack /\ s.history = cHistory /\ s.position = position
  BY DEF Now
<1>2. \A j : At(s)!KeyBit(j) = C!KeyBit(j)
  BY <1>1 DEF At!KeyBit, C!KeyBit
<1>3. At(s)!bit = C!bit
  BY <1>1, <1>2 DEF At!bit, C!bit
<1>4. At(s)!Possible = C!Possible
  BY <1>1, <1>3 DEF At!Possible, C!Possible, At!PossibleBackedges, C!PossibleBackedges,
                    At!IsOdd, C!IsOdd
<1>5. \A v : At(s)!OnlyHamiltonian(v) <=> C!OnlyHamiltonian(v)
  <2>1. /\ \A v : At(s)!Successors(edges, v) = C!Successors(edges, v)
        /\ \A v : At(s)!Predecessors(edges, v) = C!Predecessors(edges, v)
    BY DEF At!Successors, C!Successors, At!Predecessors, C!Predecessors
  <2>2. ASSUME NEW v
        PROVE  At(s)!OnlyHamiltonian(v) <=> C!OnlyHamiltonian(v)
    <3>1. /\ At(s)!Successors(edges, v) = C!Successors(edges, v)
          /\ At(s)!Predecessors(edges, v) = C!Predecessors(edges, v)
      BY <2>1
    <3> QED
      BY ONLY <1>1, <3>1 DEF At!OnlyHamiltonian, C!OnlyHamiltonian, At!Cardinality,
                             C!Cardinality
  <2> QED
    BY <2>2
<1>6. At(s)!CanHaveBackedge <=> C!CanHaveBackedge
  BY <1>1, <1>4 DEF At!CanHaveBackedge, C!CanHaveBackedge, At!HasPossibleBackedge,
                    C!HasPossibleBackedge, At!HasBackedge, C!HasBackedge, At!Connected,
                    C!Connected, At!BackedgeTargets, C!BackedgeTargets
<1>7. /\ At(s)!LooksLikeIf <=> C!LooksLikeIf
      /\ At(s)!LastFourOnlyHamiltonian <=> C!LastFourOnlyHamiltonian
  BY <1>1, <1>3, <1>5, <1>6 DEF At!LooksLikeIf, C!LooksLikeIf,
     At!LastFourOnlyHamiltonian, C!LastFourOnlyHamiltonian
<1>8. At(s)!Status = C!Status
  BY <1>1, <1>3, <1>7 DEF At!Status, C!Status, At!Connected, C!Connected,
                          At!BackedgeTargets, C!BackedgeTargets
<1>9. \A w : At(s)!BackedgeAgrees(w) <=> C!BackedgeAgrees(w)
  BY <1>1, <1>3, <1>4 DEF At!BackedgeAgrees, C!BackedgeAgrees
<1>10. At(s)!ForwardAgrees <=> C!ForwardAgrees
  BY <1>1, <1>2, <1>3, <1>8 DEF At!ForwardAgrees, C!ForwardAgrees, At!InnerBit, C!InnerBit
<1>11. At(s)!BackedgeTargets(edges, cIdx) = C!BackedgeTargets(edges, cIdx)
  BY DEF At!BackedgeTargets, C!BackedgeTargets, At!Connected, C!Connected
<1>12. At(s)!Mismatch <=> C!Mismatch
  BY <1>1, <1>3, <1>8, <1>9, <1>10, <1>11 DEF At!Mismatch, C!Mismatch
<1> QED
  BY <1>3, <1>4, <1>8, <1>9, <1>10, <1>12

(* What the two loops leave is what the definitions say                    *)
LEMMA SavedIs ==
  ASSUME NEW s, s = Now, PushVisited, UNCHANGED Given, NEW v, NEW j, cIdx' = v, cI' = j
  PROVE  Now' = Saved(s, v, j)
<1>1. /\ s.edges = edges /\ s.numNodes = numNodes /\ s.key = claim /\ s.v = cIdx
      /\ s.stack = cStack /\ s.history = cHistory /\ s.position = position
  BY DEF Now
<1>2. edges' = edges /\ numNodes' = numNodes /\ claim' = claim
  BY DEF Given
<1> QED
  BY <1>1, <1>2 DEF Now, Saved, PushVisited

LEMMA PoppedIs ==
  ASSUME IntactInv, cIdx \in Nat, NEW s, s = Now, UNCHANGED Given,
         NEW w \in BackedgeTargets(edges, cIdx), PopVisited(w),
         cIdx' = cIdx + 1, cI' = cI + 1
  PROVE  Now' = Popped(s)
<1>1. /\ s.edges = edges /\ s.numNodes = numNodes /\ s.key = claim /\ s.v = cIdx /\ s.i = cI
      /\ s.stack = cStack /\ s.history = cHistory /\ s.position = position
  BY DEF Now
<1>2. edges' = edges /\ numNodes' = numNodes /\ claim' = claim
  BY DEF Given
<1>3. End(s) = w
  <2>1. End(s) \in BackedgeTargets(edges, cIdx)
    BY <1>1 DEF End
  <2>2. \A x \in BackedgeTargets(edges, cIdx) : x \in Nat /\ WasBack(cIdx, x)
    BY PathKept DEF BackedgeTargets, Connected, WasBack
  <2> QED
    BY <2>1, <2>2 DEF IntactInv, IntactBlocks
<1>4. At(s)!Possible = C!Possible
  BY SameAt
<1> QED
  BY <1>1, <1>2, <1>3, <1>4 DEF Now, Popped, PopVisited

(* An iteration that goes on agrees                                        *)
LEMMA CheckTurns ==
  ASSUME IntactInv, cIdx \in Nat \ {0}, CheckMove, UNCHANGED Given, NEW s, s = Now
  PROVE  Loops(s) /\ Agrees(s) /\ Now' = After(s)
<1>1. /\ cIdx < numNodes - 2 /\ s.v = cIdx /\ s.i = cI /\ s.numNodes = numNodes
      /\ At(s)!Status = C!Status /\ (At(s)!Mismatch <=> C!Mismatch)
      /\ C!Status \in Statuses
  BY SameAt, StatusTells DEF Now, CheckMove
<1>2. CASE C!Status = "mute" /\ PassOne /\ cI' = cI
  <2>1. ~C!Mismatch
    BY <1>2 DEF C!Mismatch
  <2>2. Now' = Saved(s, cIdx + 1, cI)
    BY <1>2, SavedIs DEF PassOne
  <2> QED
    BY <1>1, <1>2, <2>1, <2>2 DEF Loops, Agrees, After
<1>3. CASE C!Status = "zero" /\ C!bit = 0 /\ PassOne /\ cI' = cI + 1
  <2>1. ~C!Mismatch
    BY <1>3 DEF C!Mismatch
  <2>2. Now' = Saved(s, cIdx + 1, cI + 1)
    BY <1>3, SavedIs DEF PassOne
  <2> QED
    BY <1>1, <1>3, <2>1, <2>2 DEF Loops, Agrees, After
<1>4. CASE GoBack /\ cI' = cI + 1
  <2>1. BackStatus /\ cIdx' = cIdx + 1
    BY <1>4 DEF GoBack
  <2>2. PICK w \in BackedgeTargets(edges, cIdx) : C!BackedgeAgrees(w) /\ PopVisited(w)
    BY <1>4 DEF GoBack
  <2>3. ~C!Mismatch
    <3>1. w \in C!BackedgeTargets(edges, cIdx)
      BY <2>2 DEF C!BackedgeTargets, BackedgeTargets, C!Connected, Connected
    <3> QED
      BY <2>1, <2>2, <3>1 DEF C!Mismatch, BackStatus
  <2>4. Now' = Popped(s)
    BY <1>4, <2>1, <2>2, PoppedIs
  <2> QED
    BY <1>1, <2>1, <2>3, <2>4 DEF Loops, Agrees, After, BackStatus
<1>5. CASE /\ C!ForwardAgrees /\ PassTwo
           /\ cI' = IF cI # NumBits - 1 THEN cI + 2 ELSE cI + 1
  <2>1. ForwardStatus
    BY <1>5 DEF PassTwo
  <2>2. ~C!Mismatch
    BY <1>5, <2>1 DEF C!Mismatch, ForwardStatus
  <2>3. Now' = Saved(s, cIdx + 2, IF cI # NumBits - 1 THEN cI + 2 ELSE cI + 1)
    BY <1>5, SavedIs DEF PassTwo
  <2> QED
    BY <1>1, <2>1, <2>2, <2>3 DEF Loops, Agrees, After, ForwardStatus
<1> QED
  BY <1>2, <1>3, <1>4, <1>5 DEF CheckMove

LEMMA CheckStops ==
  ASSUME CheckEnd, NEW s, s = Now
  PROVE  \/ verdict' = "accept" /\ ~Loops(s)
         \/ verdict' = "reject" /\ Loops(s) /\ ~Agrees(s)
<1>1. s.v = cIdx /\ s.numNodes = numNodes /\ (At(s)!Mismatch <=> C!Mismatch)
  BY SameAt DEF Now
<1> QED
  BY <1>1 DEF CheckEnd, Loops, Agrees

-----------------------------------------------------------------------------
(* What is marked stays marked, and what is written next may be a mark     *)
LEMMA OneMarked ==
  ASSUME marks \in Seq(Marks), NEW m \in Marks, marks' = Append(marks, m)
  PROVE  Marked' = {} <=> Marked = {} /\ m # "x"
<1>1. PICK l \in Nat : l = Len(marks) /\ DOMAIN marks = 1..l
  BY LenProperties
<1>2. /\ marks' \in Seq(Marks) /\ Len(marks') = l + 1
      /\ \A j \in 1..l : marks'[j] = marks[j]
      /\ marks'[l + 1] = m
  BY <1>1, AppendProperties
<1>3. DOMAIN marks' = 1..(l + 1)
  BY <1>2, LenProperties
<1>4. Marked = {j \in 1..l : marks[j] = "x"} /\ Marked' = {j \in 1..(l + 1) : marks'[j] = "x"}
  BY <1>1, <1>3 DEF Marked
<1>5. /\ Marked = {} <=> \A j \in 1..l : marks[j] # "x"
      /\ Marked' = {} <=> \A j \in 1..(l + 1) : marks'[j] # "x"
  BY <1>4
<1>6. \A j \in 1..(l + 1) : j \in 1..l \/ j = l + 1
  OBVIOUS
<1>7. 1..l \subseteq 1..(l + 1) /\ l + 1 \in 1..(l + 1)
  OBVIOUS
<1> QED
  BY <1>2, <1>5, <1>6, <1>7

LEMMA TwoMarked ==
  ASSUME marks \in Seq(Marks), NEW m \in Marks, NEW k \in Marks,
         marks' = marks \o << m, k >>
  PROVE  Marked' = {} <=> Marked = {} /\ m # "x" /\ k # "x"
<1>1. PICK l \in Nat : l = Len(marks) /\ DOMAIN marks = 1..l
  BY LenProperties
<1>2. << m, k >> \in Seq(Marks) /\ Len(<< m, k >>) = 2
  OBVIOUS
<1>3. /\ marks' \in Seq(Marks) /\ Len(marks') = l + 2
      /\ \A j \in 1..(l + 2) :
           marks'[j] = IF j <= l THEN marks[j] ELSE << m, k >>[j - l]
  BY <1>1, <1>2, ConcatProperties
<1>4. DOMAIN marks' = 1..(l + 2)
  BY <1>3, LenProperties
<1>5. /\ \A j \in 1..l : marks'[j] = marks[j]
      /\ marks'[l + 1] = m /\ marks'[l + 2] = k
  <2>1. \A j \in 1..l : j \in 1..(l + 2) /\ j <= l
    OBVIOUS
  <2>2. /\ l + 1 \in 1..(l + 2) /\ ~(l + 1 <= l) /\ (l + 1) - l = 1
        /\ l + 2 \in 1..(l + 2) /\ ~(l + 2 <= l) /\ (l + 2) - l = 2
    OBVIOUS
  <2>3. << m, k >>[1] = m /\ << m, k >>[2] = k
    OBVIOUS
  <2> QED
    BY <1>3, <2>1, <2>2, <2>3
<1>6. Marked = {j \in 1..l : marks[j] = "x"} /\ Marked' = {j \in 1..(l + 2) : marks'[j] = "x"}
  BY <1>1, <1>4 DEF Marked
<1>7. /\ Marked = {} <=> \A j \in 1..l : marks[j] # "x"
      /\ Marked' = {} <=> \A j \in 1..(l + 2) : marks'[j] # "x"
  BY <1>6
<1>8. \A j \in 1..(l + 2) : j \in 1..l \/ j = l + 1 \/ j = l + 2
  OBVIOUS
<1>9. 1..l \subseteq 1..(l + 2) /\ l + 1 \in 1..(l + 2) /\ l + 2 \in 1..(l + 2)
  OBVIOUS
<1> QED
  BY <1>5, <1>7, <1>8, <1>9

(* An iteration of the analysis does the same if the graph agrees, and     *)
(* marks a bit if it does not                                              *)
LEMMA AnalysisTurns ==
  ASSUME IntactInv, ClaimTyped, cIdx \in Nat \ {0}, cIdx < numNodes - 2,
         AnalysisMove, UNCHANGED Given, marks \in Seq(Marks), NEW s, s = Now
  PROVE  /\ Loops(s)
         /\ Agrees(s) => Now' = After(s) /\ (Marked' = {} <=> Marked = {})
         /\ ~Agrees(s) => Marked' # {}
         /\ Marked # {} => Marked' # {}
<1>1. /\ s.v = cIdx /\ s.i = cI /\ s.numNodes = numNodes /\ Loops(s)
      /\ At(s)!Status = C!Status /\ (Agrees(s) <=> ~C!Mismatch)
      /\ C!Status \in Statuses
  BY SameAt, StatusTells DEF Now, Loops, Agrees
<1>2. /\ \A agrees \in BOOLEAN : \A b : A!Mark(agrees, b) \in Marks
      /\ \A agrees \in BOOLEAN : \A b : A!Mark(agrees, b) # "x" <=> agrees
      /\ "x" \in Marks
  BY DEF A!Mark, Marks
<1>3. NumBits \in Nat /\ cI \in Nat /\ C!bit \in Bit
  BY NumBitsAssumption DEF ClaimTyped, C!bit, C!KeyBit, Bit
<1>4. CASE C!Status = "mute" /\ PassOne /\ cI' = cI /\ marks' = marks
  <2>1. ~C!Mismatch
    BY <1>4 DEF C!Mismatch
  <2>2. Now' = Saved(s, cIdx + 1, cI)
    BY <1>4, SavedIs DEF PassOne
  <2>3. Marked' = Marked
    BY <1>4 DEF Marked
  <2> QED
    BY <1>1, <1>4, <2>1, <2>2, <2>3 DEF After
<1>5. CASE /\ C!Status = "zero" /\ PassOne /\ cI' = cI + 1
           /\ marks' = Append(marks, A!Mark(C!bit = 0, 0))
  <2>1. C!Mismatch <=> C!bit = 1
    BY <1>5 DEF C!Mismatch
  <2>2. Now' = Saved(s, cIdx + 1, cI + 1)
    BY <1>5, SavedIs DEF PassOne
  <2>3. PICK m \in Marks : m = A!Mark(C!bit = 0, 0) /\ (m # "x" <=> C!bit = 0)
    BY <1>2
  <2>4. Marked' = {} <=> Marked = {} /\ m # "x"
    BY <1>5, <2>3, OneMarked
  <2>5. C!bit = 0 <=> ~C!Mismatch
    BY <1>3, <2>1 DEF Bit
  <2> QED
    BY <1>1, <1>5, <2>2, <2>3, <2>4, <2>5 DEF After
<1>6. CASE GoBack /\ cI' = cI + 1 /\ marks' = Append(marks, A!Mark(TRUE, C!bit))
  <2>1. BackStatus /\ cIdx' = cIdx + 1
    BY <1>6 DEF GoBack
  <2>2. PICK w \in BackedgeTargets(edges, cIdx) : C!BackedgeAgrees(w) /\ PopVisited(w)
    BY <1>6 DEF GoBack
  <2>3. ~C!Mismatch
    <3>1. w \in C!BackedgeTargets(edges, cIdx)
      BY <2>2 DEF C!BackedgeTargets, BackedgeTargets, C!Connected, Connected
    <3> QED
      BY <2>1, <2>2, <3>1 DEF C!Mismatch, BackStatus
  <2>4. Now' = Popped(s)
    BY <1>6, <2>1, <2>2, PoppedIs
  <2>5. PICK m \in Marks : m = A!Mark(TRUE, C!bit) /\ m # "x"
    BY <1>2
  <2>6. Marked' = {} <=> Marked = {}
    BY <1>6, <2>5, OneMarked
  <2> QED
    BY <1>1, <2>1, <2>3, <2>4, <2>6 DEF After, BackStatus
<1>7. CASE /\ BackStatus /\ \A w \in BackedgeTargets(edges, cIdx) : ~C!BackedgeAgrees(w)
           /\ PassOne /\ cI' = cI + 1 /\ marks' = Append(marks, "x")
  <2>1. C!BackedgeTargets(edges, cIdx) = BackedgeTargets(edges, cIdx)
    BY DEF C!BackedgeTargets, BackedgeTargets, C!Connected, Connected
  <2>2. C!Mismatch
    BY <1>7, <2>1 DEF C!Mismatch, BackStatus
  <2>3. Marked' # {}
    BY <1>2, <1>7, OneMarked
  <2> QED
    BY <1>1, <2>2, <2>3
<1>8. CASE /\ cI = NumBits - 1 /\ PassTwo
           /\ cI' = cI + 1 /\ marks' = Append(marks, A!Mark(C!bit = 1, 1))
  <2>1. ForwardStatus
    BY <1>8 DEF PassTwo
  <2>2. ~C!Mismatch <=> C!bit = 1
    BY <1>8, <2>1 DEF C!Mismatch, ForwardStatus, C!ForwardAgrees
  <2>3. Now' = Saved(s, cIdx + 2, cI + 1)
    BY <1>8, SavedIs DEF PassTwo
  <2>4. PICK m \in Marks : m = A!Mark(C!bit = 1, 1) /\ (m # "x" <=> C!bit = 1)
    BY <1>2
  <2>5. Marked' = {} <=> Marked = {} /\ m # "x"
    BY <1>8, <2>4, OneMarked
  <2> QED
    BY <1>1, <1>8, <2>1, <2>2, <2>3, <2>4, <2>5 DEF After, ForwardStatus
<1>9. CASE /\ cI # NumBits - 1 /\ PassTwo /\ cI' = cI + 2
           /\ \E next \in IF cI + 1 < NumBits THEN {claim[cI + 1]} ELSE {0, 1} :
                marks' = marks \o <<A!Mark(C!bit = 1, 1),
                                    A!Mark(next = A!InnerBit, A!InnerBit)>>
  <2>1. ForwardStatus
    BY <1>9 DEF PassTwo
  <2>2. PICK next \in IF cI + 1 < NumBits THEN {claim[cI + 1]} ELSE {0, 1} :
          marks' = marks \o <<A!Mark(C!bit = 1, 1), A!Mark(next = A!InnerBit, A!InnerBit)>>
    BY <1>9
  <2>3. A!InnerBit = C!InnerBit
    BY SameStatus DEF A!InnerBit, C!InnerBit
  <2>4. C!bit = 1 => next = C!KeyBit(cI + 1)
    <3>1. ASSUME C!bit = 1
          PROVE  cI + 1 < NumBits
      <4>1. cI < NumBits
        BY <3>1 DEF C!bit, C!KeyBit
      <4> QED
        BY <1>3, <1>9, <4>1
    <3> QED
      BY <2>2, <3>1 DEF C!KeyBit
  <2>5. ~C!Mismatch <=> C!bit = 1 /\ next = A!InnerBit
    BY <1>9, <2>1, <2>3, <2>4 DEF C!Mismatch, ForwardStatus, C!ForwardAgrees
  <2>6. Now' = Saved(s, cIdx + 2, cI + 2)
    BY <1>9, SavedIs DEF PassTwo
  <2>7. PICK m \in Marks : m = A!Mark(C!bit = 1, 1) /\ (m # "x" <=> C!bit = 1)
    BY <1>2
  <2>8. PICK k \in Marks :
          k = A!Mark(next = A!InnerBit, A!InnerBit) /\ (k # "x" <=> next = A!InnerBit)
    BY <1>2
  <2>9. Marked' = {} <=> Marked = {} /\ m # "x" /\ k # "x"
    BY <2>2, <2>7, <2>8, TwoMarked
  <2> QED
    BY <1>1, <1>9, <2>1, <2>5, <2>6, <2>7, <2>8, <2>9 DEF After, ForwardStatus
<1> QED
  BY <1>4, <1>5, <1>6, <1>7, <1>8, <1>9 DEF AnalysisMove

-----------------------------------------------------------------------------
LEMMA BeginStays ==
  ASSUME UNCHANGED Given
  PROVE  Begin' = Begin /\ (C!SizeMatches' <=> C!SizeMatches)
<1>1. edges' = edges /\ numNodes' = numNodes /\ claim' = claim /\ claimStart' = claimStart
  BY DEF Given
<1>2. /\ C!nBits' = C!nBits /\ C!Unset' = C!Unset /\ C!Nodes' = C!Nodes
  BY <1>1 DEF C!nBits, C!Unset, C!Nodes
<1>3. /\ C!FirstStack' = C!FirstStack /\ C!FirstHistory' = C!FirstHistory
      /\ C!FirstPosition' = C!FirstPosition
  BY <1>2 DEF C!FirstStack, C!FirstHistory, C!FirstPosition
<1>4. C!SizeMatches' <=> C!SizeMatches
  BY <1>1, <1>2 DEF C!SizeMatches, C!HasForward, C!Connected
<1> QED
  BY <1>1, <1>3, <1>4 DEF Begin

(* The list grows by an iteration that agrees                              *)
LEMMA RunGrows ==
  ASSUME NEW s, NEW f, NEW k, Ran(s, f, k), Loops(f[k]), Agrees(f[k]),
         NEW t, t = After(f[k])
  PROVE  \E g : Ran(s, g, k + 1) /\ g[k + 1] = t
<1> DEFINE g == [j \in 0..(k + 1) |-> IF j <= k THEN f[j] ELSE t]
<1>1. k \in Nat
  BY DEF Ran
<1>2. /\ k + 1 \in Nat /\ k + 1 \in 0..(k + 1) /\ ~(k + 1 <= k) /\ 0 \in 0..(k + 1) /\ 0 <= k
      /\ \A j \in 0..k : j \in 0..(k + 1) /\ j <= k
  BY <1>1
<1>3. /\ g[k + 1] = t /\ g[0] = f[0]
      /\ \A j \in 0..k : g[j] = f[j]
  BY <1>2
<1> HIDE DEF g
<1>4. ASSUME NEW j \in 0..k
      PROVE  Loops(g[j]) /\ Agrees(g[j]) /\ g[j + 1] = After(g[j])
  <2>1. CASE j = k
    BY <1>3, <2>1
  <2>2. CASE j # k
    <3>1. j \in 0..(k - 1) /\ j + 1 \in 0..k
      BY <1>1, <2>2
    <3>2. Loops(f[j]) /\ Agrees(f[j]) /\ f[j + 1] = After(f[j])
      BY <3>1 DEF Ran
    <3>3. g[j] = f[j] /\ g[j + 1] = f[j + 1]
      BY <1>3, <3>1
    <3> QED
      BY <3>2, <3>3
  <2> QED
    BY <2>1, <2>2
<1>5. (k + 1) - 1 = k
  BY <1>1
<1>6. Ran(s, g, k + 1)
  BY <1>2, <1>3, <1>4, <1>5 DEF Ran
<1> QED
  BY <1>3, <1>6

LEMMA RunStarts ==
  ASSUME NEW s
  PROVE  \E f, k : Ran(s, f, k) /\ f[k] = s
<1> DEFINE f == [j \in {0} |-> s]
<1>1. f[0] = s /\ \A j \in 0..(0 - 1) : FALSE
  OBVIOUS
<1> HIDE DEF f
<1>2. Ran(s, f, 0)
  BY <1>1 DEF Ran
<1> QED
  BY <1>1, <1>2

LEMMA SameRunStep ==
  KCInv /\ KCInv' /\ AnalysisInv /\ SameRunInv /\ [KCNext]_allVars => SameRunInv'
<1> SUFFICES ASSUME KCInv, KCInv', AnalysisInv, SameRunInv, [KCNext]_allVars
             PROVE  SameRunInv'
  OBVIOUS
<1>1. CASE Encode
  <2>1. phase' = "encode"
    BY <1>1 DEF Encode
  <2> QED
    BY <2>1 DEF SameRunInv
<1>2. CASE StartChecking
  <2>1. /\ phase' = "check" /\ verdict' = IF C!SizeMatches' THEN "none" ELSE "reject"
        /\ cIdx' = 1 /\ cI' = claimStart' + 1 /\ cStack' = C!FirstStack'
        /\ cHistory' = C!FirstHistory' /\ position' = C!FirstPosition'
    BY <1>2 DEF StartChecking, KCInv, Fresh
  <2>2. PICK s : s = Begin'
    OBVIOUS
  <2>3. Now' = s
    BY <2>1, <2>2 DEF Now, Begin
  <2>4. \E f, k : Ran(s, f, k) /\ f[k] = s
    BY RunStarts
  <2> QED
    BY <2>1, <2>2, <2>3, <2>4 DEF SameRunInv
<1>3. CASE Check
  <2>1. /\ UNCHANGED Given /\ phase = "check" /\ phase' = "check"
        /\ verdict = "none" /\ (CheckMove \/ CheckEnd)
    BY <1>3, CheckMoves
  <2>2. IntactInv /\ cIdx \in Nat \ {0}
    BY <2>1 DEF KCInv, IntactInv, IntactShape, WalkInv, WalkTyped
  <2>3. PICK s : s = Begin /\ s = Begin'
    BY <2>1, BeginStays
  <2>4. PICK f, k : Ran(s, f, k) /\ f[k] = Now
    BY <2>1, <2>3 DEF SameRunInv
  <2>5. CASE CheckMove
    <3>1. PICK r : r = f[k]
      OBVIOUS
    <3>2. Loops(r) /\ Agrees(r) /\ Now' = After(r)
      BY <2>1, <2>2, <2>4, <2>5, <3>1, CheckTurns
    <3>3. PICK t : t = Now'
      OBVIOUS
    <3>4. PICK g : Ran(s, g, k + 1) /\ g[k + 1] = t
      BY <2>4, <3>1, <3>2, <3>3, RunGrows
    <3>5. verdict' = "none"
      BY <2>5 DEF CheckMove
    <3> QED
      BY <2>1, <2>3, <3>3, <3>4, <3>5 DEF SameRunInv
  <2>6. CASE CheckEnd
    <3>1. PICK r : r = f[k]
      OBVIOUS
    <3>2. \/ verdict' = "accept" /\ ~Loops(r)
          \/ verdict' = "reject" /\ Loops(r) /\ ~Agrees(r)
      BY <2>4, <2>6, <3>1, CheckStops
    <3>3. Stopped(r)' /\ verdict' # "none"
      BY <3>2 DEF Stopped
    <3> QED
      BY <2>1, <2>3, <2>4, <3>1, <3>3 DEF SameRunInv
  <2> QED
    BY <2>1, <2>5, <2>6
<1>4. CASE StartAnalysing
  <2>1. /\ UNCHANGED Given /\ phase = "check" /\ verdict # "none" /\ C!SizeMatches
        /\ phase' = "analyse" /\ verdict' = verdict /\ marks' = marks
        /\ cIdx' = 1 /\ cI' = claimStart + 1 /\ cStack' = C!FirstStack
        /\ cHistory' = C!FirstHistory /\ position' = C!FirstPosition
    BY <1>4 DEF StartAnalysing, Given, vars
  <2>2. PICK s : s = Begin /\ s = Begin'
    BY <2>1, BeginStays
  <2>3. Now' = s
    BY <2>1, <2>2 DEF Now, Begin, Given
  <2>4. PICK f, k : Ran(s, f, k) /\ Stopped(f[k])
    BY <2>1, <2>2 DEF SameRunInv
  <2>5. PICK r : r = f[k]
    OBVIOUS
  <2>6. Stopped(r)'
    BY <2>1, <2>4, <2>5 DEF Stopped
  <2>7. 0 \in 0..k /\ f[0] = s
    BY <2>4 DEF Ran
  <2>8. Marked' = {}
    <3>1. marks' = <<"1">>
      BY <2>1 DEF AnalysisInv
    <3> QED
      BY <3>1 DEF Marked
  <2>9. Repeating(f, k)'
    BY <2>2, <2>3, <2>4, <2>5, <2>6, <2>7, <2>8 DEF Repeating
  <2> QED
    BY <2>1, <2>9 DEF SameRunInv
<1>5. CASE Analyse
  <2>1. /\ UNCHANGED Given /\ phase = "analyse" /\ phase' = "analyse"
        /\ cIdx < numNodes - 2 /\ verdict' = verdict /\ AnalysisMove
    BY <1>5, AnalysisMoves
  <2>2. IntactInv /\ ClaimTyped /\ cIdx \in Nat \ {0} /\ marks \in Seq(Marks)
    BY <2>1, WalkFacts DEF KCInv, WalkInv, AnalysisInv, MarksInv
  <2>3. PICK s : s = Begin /\ s = Begin'
    BY <2>1, BeginStays
  <2>4. PICK f, k : Repeating(f, k)
    BY <2>1 DEF SameRunInv
  <2>5. /\ Ran(s, f, k) /\ Stopped(f[k]) /\ k \in Nat
        /\ Marked = {} => \E j \in 0..k : f[j] = Now
        /\ Marked # {} => verdict = "reject"
    BY <2>3, <2>4 DEF Repeating, Ran
  <2>6. PICK r : r = f[k]
    OBVIOUS
  <2>7. Stopped(r) /\ Stopped(r)'
    BY <2>1, <2>5, <2>6 DEF Stopped
  <2>8. PICK t : t = Now
    OBVIOUS
  <2>9. /\ Loops(t)
        /\ Agrees(t) => Now' = After(t) /\ (Marked' = {} <=> Marked = {})
        /\ ~Agrees(t) => Marked' # {}
        /\ Marked # {} => Marked' # {}
    BY <2>1, <2>2, <2>8, AnalysisTurns
  <2>10. /\ Marked' = {} => \E j \in 0..k : f[j] = Now'
         /\ Marked' # {} => verdict' = "reject"
    <3>1. CASE Marked # {}
      BY <2>1, <2>5, <2>9, <3>1
    <3>2. CASE Marked = {}
      <4>1. PICK j \in 0..k : f[j] = t
        BY <2>5, <2>8, <3>2
      <4>2. CASE j = k
        <5>1. verdict = "reject" /\ ~Agrees(t)
          BY <2>6, <2>7, <2>9, <4>1, <4>2 DEF Stopped
        <5> QED
          BY <2>1, <2>9, <5>1
      <4>3. CASE j # k
        <5>1. j \in 0..(k - 1) /\ j + 1 \in 0..k
          BY <2>5, <4>3
        <5>2. Agrees(t) /\ f[j + 1] = After(t)
          BY <2>5, <4>1, <5>1 DEF Ran
        <5> QED
          BY <2>9, <3>2, <5>1, <5>2
      <4> QED
        BY <4>2, <4>3
    <3> QED
      BY <3>1, <3>2
  <2>11. Ran(Begin', f, k) /\ Stopped(f[k])'
    BY <2>3, <2>5, <2>6, <2>7
  <2>12. Repeating(f, k)'
    BY <2>10, <2>11 DEF Repeating
  <2> QED
    BY <2>1, <2>12 DEF SameRunInv
<1>6. CASE ReturnNoMarks \/ RsCheck \/ RsCheckNoMarks
  <2>1. phase' \in {"no marks", "corrected", "crashed"}
    BY <1>6 DEF ReturnNoMarks, RsCheck, RsCheckNoMarks
  <2> QED
    BY <2>1 DEF SameRunInv
<1>7. CASE Rest \/ UNCHANGED allVars
  <2>1. /\ UNCHANGED Given /\ UNCHANGED <<phase, verdict, marks>>
        /\ UNCHANGED <<cIdx, cI, cStack, cHistory, position>>
    BY <1>7 DEF Rest, allVars, vars, checkerVars, Given
  <2>2. Begin' = Begin /\ (C!SizeMatches' <=> C!SizeMatches)
    BY <2>1, BeginStays
  <2>3. Now' = Now /\ Marked' = Marked /\ (\A s : Stopped(s)' <=> Stopped(s))
    BY <2>1 DEF Now, Marked, Stopped, Given
  <2>4. \A f, k : Repeating(f, k) => Repeating(f, k)'
    BY <2>2, <2>3, <2>1 DEF Repeating
  <2>5. phase' = "check" /\ verdict' = "none" => \E f, k : Ran(Begin', f, k) /\ f[k] = Now'
    BY <2>1, <2>2, <2>3 DEF SameRunInv
  <2>6. phase' = "check" /\ verdict' # "none" /\ C!SizeMatches' =>
          \E f, k : Ran(Begin', f, k) /\ Stopped(f[k])'
    BY <2>1, <2>2, <2>3 DEF SameRunInv
  <2>7. phase' = "analyse" => \E f, k : Repeating(f, k)'
    BY <2>1, <2>4 DEF SameRunInv
  <2> QED
    BY <2>5, <2>6, <2>7 DEF SameRunInv
<1> QED
  BY <1>1, <1>2, <1>3, <1>4, <1>5, <1>6, <1>7 DEF KCNext

(* The two loops of the checker, which are two copies in the code, agree:  *)
(* the analysis marks no bit exactly when watermark_check accepts, for     *)
(* keys of every length and any losses (checker.c:86-166,276-339).         *)
THEOREM AnalysisRepeatsTheCheck == KCSpec => []AnalysisAgreesWithVerdict
<1>1. KCInit => SameRunInv
  BY DEF KCInit, SameRunInv
<1>2. KCInv /\ KCInv' /\ AnalysisInv /\ SameRunInv /\ [KCNext]_allVars => SameRunInv'
  BY SameRunStep
<1>3. SameRunInv => AnalysisAgreesWithVerdict
  <2> SUFFICES ASSUME SameRunInv, phase = "analyse", A!Analysed
               PROVE  Marked = {} <=> verdict = "accept"
    BY DEF AnalysisAgreesWithVerdict
  <2>1. PICK f, k : Repeating(f, k)
    BY DEF SameRunInv
  <2>2. /\ Ran(Begin, f, k) /\ Stopped(f[k]) /\ k \in Nat
        /\ Marked = {} => \E j \in 0..k : f[j] = Now
        /\ Marked # {} => verdict = "reject"
    BY <2>1 DEF Repeating, Ran
  <2>3. ~Loops(Now)
    BY DEF A!Analysed, A!Looping, A!maxNumNodes, Loops, Now
  <2>4. ASSUME Marked = {}
        PROVE  verdict = "accept"
    <3>1. PICK j \in 0..k : f[j] = Now
      BY <2>2, <2>4
    <3>2. j = k
      <4>1. j # k => j \in 0..(k - 1)
        BY <2>2
      <4> QED
        BY <2>2, <2>3, <3>1, <4>1 DEF Ran
    <3> QED
      BY <2>2, <2>3, <3>1, <3>2 DEF Stopped
  <2> QED
    BY <2>2, <2>4
<1> QED
  BY <1>1, <1>2, <1>3, MarksFollowTheGraph, PTL DEF KCSpec

-----------------------------------------------------------------------------
(***************************************************************************)
(* Proof that the analysis recovers from what does not agree, for keys of  *)
(* every length.                                                           *)
(*                                                                         *)
(* Each mark has a cause of its own: the bit it is written for is another, *)
(* or the node of that bit has lost a connection.  For this the analysis   *)
(* must never lose the node of its bit, and must not meet a backedge that  *)
(* leads to a node it has not pushed.                                      *)
(***************************************************************************)
(* Mark j is for bit start + j - 1 of the key *)
Charged(pos, j) ==
  \/ start + j - 1 \in Flipped(claim)
  \/ \E e \in removed : e[1] \in 1..idx /\ pos[e[1]] = j - 1

(* Nodes that a backedge leads to later on have been visited               *)
EndsVisited ==
  \A u, w \in Nat :
    <<u, w>> \in edges /\ w < u /\ u >= cIdx /\ w < cIdx => position[w] # C!Unset

AllCharged(pos) == \A j \in Marked : Charged(pos, j)

InOrder(pos) ==
  /\ WasNumbered(pos) /\ ~WasForward(cIdx - 1)
  /\ cIdx <= idx => cI = start + pos[cIdx]
  /\ AllCharged(pos)

Ordered == \E pos : InOrder(pos)

FaultsInv ==
  /\ data \in [0..(NumBits - 1) -> Bit]
  /\ phase # "encode" => edges \cap removed = {}
  /\ phase = "analyse" /\ claimStart = start => KeptForward /\ EndsVisited /\ Ordered

(* The sizes agree only if no forward edge is lost                         *)
LEMMA SizeKeepsForward ==
  ASSUME IntactInv, ClaimTyped, C!SizeMatches, claimStart = start, edges \cap removed = {}
  PROVE  KeptForward
<1> DEFINE left == {v \in C!Nodes : C!HasForward(edges, v)}
<1>1. /\ numNodes \in Nat /\ idx \in Nat \ {0} /\ n \in Nat
      /\ Cardinality(ForwardNodes) = numNodes - 2 - n
      /\ Intact \subseteq (0..(numNodes - 1)) \X (0..(numNodes - 1))
  BY DEF IntactInv, IntactShape, IntactCount
<1>2. ASSUME NEW v \in Nat, NEW e \in Intact, e[1] = v, e[2] > v + 1
      PROVE  e = <<v, v + 2>> /\ v < idx /\ v \in C!Nodes
  <2>1. e = <<e[1], e[2]>> /\ e[1] \in 0..(numNodes - 1) /\ e[2] \in Nat
    BY <1>1
  <2>2. e[1] < idx /\ e[2] = e[1] + 2
    BY <1>2, <2>1 DEF IntactInv, IntactShape
  <2> QED
    BY <1>2, <2>1, <2>2 DEF C!Nodes
<1>3. \A v \in left : v \in Nat /\ <<v, v + 2>> \in edges /\ v < idx
  <2> SUFFICES ASSUME NEW v \in Nat, NEW e \in edges, e[1] = v, e[2] > v + 1
               PROVE  <<v, v + 2>> \in edges /\ v < idx
    BY DEF C!Nodes, C!HasForward
  <2>1. e \in Intact
    BY DEF Intact
  <2> QED
    BY <1>2, <2>1
<1>4. IsFiniteSet(ForwardNodes)
  <2>1. IsFiniteSet(0..(idx - 1)) /\ ForwardNodes \in SUBSET (0..(idx - 1))
    BY <1>1, FS_Interval DEF ForwardNodes
  <2> QED
    BY <2>1, FS_Subset
<1>5. left \in SUBSET ForwardNodes
  BY <1>1, <1>3 DEF ForwardNodes, WasForward, Intact
<1>6. C!nBits = n /\ C!nBits = numNodes - 2 - Cardinality(left)
  BY DEF C!nBits, n, C!SizeMatches, C!Cardinality, Cardinality
<1>7. left = ForwardNodes
  <2> HIDE DEF left
  <2>1. IsFiniteSet(left)
    BY <1>4, <1>5, FS_Subset
  <2>2. Cardinality(left) \in Nat
    BY <2>1, FS_CardinalityType
  <2>3. Cardinality(left) = Cardinality(ForwardNodes)
    BY <1>1, <1>6, <2>2
  <2> QED
    BY <1>4, <1>5, <2>3, FS_Subset
<1> HIDE DEF left
<1> SUFFICES ASSUME NEW e \in removed, ~(e[2] <= e[1])
             PROVE  FALSE
  BY DEF KeptForward
<1>8. e \in Intact /\ e[1] \in Nat /\ e[2] \in Nat /\ e[2] # e[1] + 1
  <2>1. e \in Intact
    BY DEF Intact
  <2> QED
    BY <1>1, <2>1 DEF IntactInv, IntactShape
<1>9. e = <<e[1], e[1] + 2>> /\ e[1] < idx
  BY <1>2, <1>8
<1>10. e[1] \in left
  BY <1>1, <1>7, <1>8, <1>9 DEF ForwardNodes, WasForward
<1> QED
  BY <1>3, <1>9, <1>10

(* A mark that is charged to what was lost or is another                   *)
LEMMA MarksCharged ==
  ASSUME marks \in Seq(Marks), IsFiniteSet(removed), NEW pos,
         AllCharged(pos), start \in Int, NumBits \in Nat
  PROVE  Cardinality(Marked) <= Cardinality(Flipped(claim)) + Cardinality(removed)
<1> DEFINE byBit == {j \in Marked : start + j - 1 \in Flipped(claim)}
           byLoss == {j \in Marked : \E e \in removed : pos[e[1]] = j - 1}
           bitMark == [k \in 0..(NumBits - 1) |-> k - start + 1]
           lossMark == [e \in removed |-> pos[e[1]] + 1]
<1>1. \A j \in Marked : j \in Int
  BY LenProperties DEF Marked
<1>2. Marked = byBit \cup byLoss
  BY DEF AllCharged, Charged
<1>3. IsFiniteSet(Flipped(claim))
  <2>1. 0 \in Int /\ NumBits - 1 \in Int
    OBVIOUS
  <2>2. IsFiniteSet(0..(NumBits - 1))
    BY <2>1, FS_Interval
  <2>3. Flipped(claim) \in SUBSET (0..(NumBits - 1))
    BY DEF Flipped
  <2> QED
    BY <2>2, <2>3, FS_Subset
<1>4. \A j \in byBit : \E k \in Flipped(claim) : bitMark[k] = j
  <2> SUFFICES ASSUME NEW j \in byBit
               PROVE  \E k \in Flipped(claim) : bitMark[k] = j
    OBVIOUS
  <2>1. /\ start + j - 1 \in Flipped(claim) /\ j \in Int
        /\ start + j - 1 \in 0..(NumBits - 1)
    BY <1>1 DEF Flipped
  <2>2. bitMark[start + j - 1] = j
    BY <2>1
  <2> QED
    BY <2>1, <2>2
<1>5. \A j \in byLoss : \E e \in removed : lossMark[e] = j
  <2> SUFFICES ASSUME NEW j \in byLoss
               PROVE  \E e \in removed : lossMark[e] = j
    OBVIOUS
  <2>1. PICK e \in removed : pos[e[1]] = j - 1
    OBVIOUS
  <2>2. lossMark[e] = j
    BY <1>1, <2>1
  <2> QED
    BY <2>2
<1> HIDE DEF byBit, byLoss, bitMark, lossMark
<1>6. IsFiniteSet(byBit) /\ Cardinality(byBit) <= Cardinality(Flipped(claim))
  BY <1>3, <1>4, NoMoreThan
<1>7. IsFiniteSet(byLoss) /\ Cardinality(byLoss) <= Cardinality(removed)
  BY <1>5, NoMoreThan
<1>8. /\ Cardinality(byBit) \in Nat /\ Cardinality(byLoss) \in Nat
      /\ Cardinality(Flipped(claim)) \in Nat /\ Cardinality(removed) \in Nat
      /\ IsFiniteSet(byBit \cap byLoss)
  <2>1. byBit \cap byLoss \in SUBSET byBit
    OBVIOUS
  <2> QED
    BY <1>3, <1>6, <1>7, <2>1, FS_CardinalityType, FS_Subset
<1>9. Cardinality(byBit \cap byLoss) \in Nat
  BY <1>8, FS_CardinalityType
<1>10. Cardinality(byBit \cup byLoss)
        = Cardinality(byBit) + Cardinality(byLoss) - Cardinality(byBit \cap byLoss)
  BY <1>6, <1>7, FS_Union
<1> QED
  BY <1>2, <1>6, <1>7, <1>8, <1>9, <1>10

(* What a bit is charged to                                                *)
LEMMA ChargedFor ==
  ASSUME NEW pos, NEW j \in Int, start \in Int
  PROVE  /\ start + j - 1 \in 0..(NumBits - 1) /\ claim[start + j - 1] # data[start + j - 1]
              => Charged(pos, j)
         /\ \A u \in 1..idx : \A w :
              <<u, w>> \in removed /\ pos[u] = j - 1 => Charged(pos, j)
<1>1. start + j - 1 \in 0..(NumBits - 1) /\ claim[start + j - 1] # data[start + j - 1]
        => Charged(pos, j)
  BY DEF Flipped, Charged
<1>2. ASSUME NEW u \in 1..idx, NEW w, <<u, w>> \in removed, pos[u] = j - 1
      PROVE  Charged(pos, j)
  <2>1. <<u, w>>[1] = u
    OBVIOUS
  <2> QED
    BY <1>2, <2>1 DEF Charged
<1> QED
  BY <1>1, <1>2

LEMMA ChargesStay ==
  ASSUME UNCHANGED Given, NEW pos, NEW j
  PROVE  Charged(pos, j)' <=> Charged(pos, j)
<1>1. Flipped(claim)' = Flipped(claim)
  BY DEF Given, Flipped
<1> QED
  BY <1>1 DEF Given, Charged

LEMMA NoneCharged ==
  ASSUME UNCHANGED Given, NEW pos, AllCharged(pos), marks' = marks
  PROVE  AllCharged(pos)'
<1>1. Marked' = Marked
  BY DEF Marked
<1> QED
  BY <1>1, ChargesStay DEF AllCharged

(* What is written stays written                                           *)
LEMMA OneWritten ==
  ASSUME marks \in Seq(Marks), NEW m \in Marks, marks' = Append(marks, m)
  PROVE  \A j \in DOMAIN marks' :
           \/ j \in DOMAIN marks /\ marks'[j] = marks[j]
           \/ j = Len(marks) + 1 /\ marks'[j] = m
<1>1. PICK l \in Nat : l = Len(marks) /\ DOMAIN marks = 1..l
  BY LenProperties
<1>2. /\ marks' \in Seq(Marks) /\ Len(marks') = l + 1
      /\ \A j \in 1..l : marks'[j] = marks[j]
      /\ marks'[l + 1] = m
  BY <1>1, AppendProperties
<1>3. DOMAIN marks' = 1..(l + 1)
  BY <1>2, LenProperties
<1>4. \A j \in 1..(l + 1) : j \in 1..l \/ j = l + 1
  OBVIOUS
<1> QED
  BY <1>1, <1>2, <1>3, <1>4

LEMMA TwoWritten ==
  ASSUME marks \in Seq(Marks), NEW m \in Marks, NEW k \in Marks,
         marks' = marks \o << m, k >>
  PROVE  \A j \in DOMAIN marks' :
           \/ j \in DOMAIN marks /\ marks'[j] = marks[j]
           \/ j = Len(marks) + 1 /\ marks'[j] = m
           \/ j = Len(marks) + 2 /\ marks'[j] = k
<1>1. PICK l \in Nat : l = Len(marks) /\ DOMAIN marks = 1..l
  BY LenProperties
<1>2. << m, k >> \in Seq(Marks) /\ Len(<< m, k >>) = 2
  OBVIOUS
<1>3. /\ marks' \in Seq(Marks) /\ Len(marks') = l + 2
      /\ \A j \in 1..(l + 2) :
           marks'[j] = IF j <= l THEN marks[j] ELSE << m, k >>[j - l]
  BY <1>1, <1>2, ConcatProperties
<1>4. DOMAIN marks' = 1..(l + 2)
  BY <1>3, LenProperties
<1>5. /\ \A j \in 1..l : marks'[j] = marks[j]
      /\ marks'[l + 1] = m /\ marks'[l + 2] = k
  <2>1. \A j \in 1..l : j \in 1..(l + 2) /\ j <= l
    OBVIOUS
  <2>2. /\ l + 1 \in 1..(l + 2) /\ ~(l + 1 <= l) /\ (l + 1) - l = 1
        /\ l + 2 \in 1..(l + 2) /\ ~(l + 2 <= l) /\ (l + 2) - l = 2
    OBVIOUS
  <2>3. << m, k >>[1] = m /\ << m, k >>[2] = k
    OBVIOUS
  <2> QED
    BY <1>3, <2>1, <2>2, <2>3
<1>6. \A j \in 1..(l + 2) : j \in 1..l \/ j = l + 1 \/ j = l + 2
  OBVIOUS
<1> QED
  BY <1>1, <1>4, <1>5, <1>6

LEMMA OneCharged ==
  ASSUME UNCHANGED Given, NEW pos, AllCharged(pos), marks \in Seq(Marks),
         NEW m \in Marks, marks' = Append(marks, m),
         m = "x" => Charged(pos, Len(marks) + 1)
  PROVE  AllCharged(pos)'
<1>1. ASSUME NEW j \in Marked'
      PROVE  Charged(pos, j)
  <2>1. j \in DOMAIN marks' /\ marks'[j] = "x"
    BY DEF Marked
  <2>2. j \in Marked \/ (j = Len(marks) + 1 /\ m = "x")
    BY <2>1, OneWritten DEF Marked
  <2> QED
    BY <2>2 DEF AllCharged
<1> QED
  BY <1>1, ChargesStay DEF AllCharged

LEMMA TwoCharged ==
  ASSUME UNCHANGED Given, NEW pos, AllCharged(pos), marks \in Seq(Marks),
         NEW m \in Marks, NEW k \in Marks, marks' = marks \o << m, k >>,
         m = "x" => Charged(pos, Len(marks) + 1),
         k = "x" => Charged(pos, Len(marks) + 2)
  PROVE  AllCharged(pos)'
<1>1. ASSUME NEW j \in Marked'
      PROVE  Charged(pos, j)
  <2>1. j \in DOMAIN marks' /\ marks'[j] = "x"
    BY DEF Marked
  <2>2. \/ j \in Marked
        \/ j = Len(marks) + 1 /\ m = "x"
        \/ j = Len(marks) + 2 /\ k = "x"
    BY <2>1, TwoWritten DEF Marked
  <2> QED
    BY <2>2 DEF AllCharged
<1> QED
  BY <1>1, ChargesStay DEF AllCharged

(* Where the analysis takes a node for the start of a forward edge, the    *)
(* next one has the connections of the path only, so nothing leads to it   *)
(* but the path                                                            *)
LEMMA GuessedInside ==
  ASSUME IntactInv, WalkInv, Room, KeptForward,
         NEW v \in Nat \ {0}, v = cIdx, v < numNodes - 2,
         \/ C!LastFourOnlyHamiltonian /\ v = numNodes - 4
         \/ C!LooksLikeIf
  PROVE  /\ ~WasForward(v + 1)
         /\ \A w \in Nat : <<v + 1, w>> \in edges => w = v + 2
         /\ \A u \in Nat : <<u, v + 1>> \in edges => u = v
<1>1. numNodes \in Nat /\ v + 1 # 0 /\ v + 1 # numNodes - 1
  BY DEF IntactInv, IntactShape
<1>2. C!OnlyHamiltonian(v + 1)
  <2>1. CASE C!LastFourOnlyHamiltonian /\ v = numNodes - 4
    <3>1. v + 1 \in (numNodes - 4)..(numNodes - 1)
      BY <1>1, <2>1
    <3> QED
      BY <2>1, <3>1 DEF C!LastFourOnlyHamiltonian
  <2>2. CASE C!LooksLikeIf
    <3>1. v + 1 \in v..(v + 2)
      OBVIOUS
    <3> QED
      BY <2>2, <3>1 DEF C!LooksLikeIf
  <2> QED
    BY <2>1, <2>2
<1>3. C!Successors(edges, v + 1) = {v + 2} /\ Cardinality(C!Predecessors(edges, v + 1)) = 1
  <2>1. (v + 1) + 1 = v + 2
    OBVIOUS
  <2> QED
    BY <1>1, <1>2, <2>1 DEF C!OnlyHamiltonian, C!Cardinality, Cardinality
<1>4. ASSUME NEW w, <<v + 1, w>> \in edges
      PROVE  w = v + 2
  <2>1. <<v + 1, w>> \in {f \in edges : f[1] = v + 1} /\ <<v + 1, w>>[2] = w
    BY <1>4
  <2>2. w \in C!Successors(edges, v + 1)
    BY <2>1 DEF C!Successors
  <2> QED
    BY <1>3, <2>2
<1>5. \A u \in Nat : <<u, v + 1>> \in edges => u \in C!Predecessors(edges, v + 1)
  <2> SUFFICES ASSUME NEW u \in Nat, <<u, v + 1>> \in edges
               PROVE  u \in C!Predecessors(edges, v + 1)
    OBVIOUS
  <2>1. <<u, v + 1>> \in {f \in edges : f[2] = v + 1} /\ <<u, v + 1>>[1] = u
    OBVIOUS
  <2> QED
    BY <2>1 DEF C!Predecessors
<1>6. C!Predecessors(edges, v + 1) \in SUBSET (0..(numNodes - 1))
  <2> SUFFICES ASSUME NEW e \in edges
               PROVE  e[1] \in 0..(numNodes - 1)
    BY DEF C!Predecessors
  <2> QED
    BY DEF IntactInv, IntactShape, Intact
<1>7. IsFiniteSet(C!Predecessors(edges, v + 1))
  <2>1. 0 \in Int /\ numNodes - 1 \in Int
    BY <1>1
  <2> QED
    BY <1>6, <2>1, FS_Interval, FS_Subset
<1>8. PICK p : C!Predecessors(edges, v + 1) = {p}
  BY <1>3, <1>7, FS_Singleton
<1>9. p = v
  <2>1. <<v, v + 1>> \in edges
    BY <1>1 DEF WalkInv, WalkOnPath
  <2> QED
    BY <1>5, <1>8, <2>1
<1>10. ~WasForward(v + 1)
  <2> SUFFICES ASSUME <<v + 1, (v + 1) + 2>> \in Intact
               PROVE  FALSE
    BY DEF WasForward
  <2>1. <<v + 1, (v + 1) + 2>> \notin edges
    BY <1>4
  <2>2. <<v + 1, (v + 1) + 2>> \in removed
    BY <2>1 DEF Intact
  <2>3. <<v + 1, (v + 1) + 2>>[2] <= <<v + 1, (v + 1) + 2>>[1]
    BY <2>2 DEF KeptForward
  <2> QED
    BY <2>3
<1> QED
  BY <1>4, <1>5, <1>8, <1>9, <1>10

(* Nodes that a backedge leads to are still visited after an iteration     *)
LEMMA EndsStayVisited ==
  ASSUME IntactInv, WalkInv, Room, EndsVisited, Walk, UNCHANGED Given,
         cIdx' = cIdx + 2 => \A u \in Nat : u >= cIdx + 2 => <<u, cIdx + 1>> \notin edges
  PROVE  EndsVisited'
<1>1. PICK v \in Nat \ {0} : v = cIdx /\ v < numNodes - 2
  BY WalkFacts DEF WalkInv, Walk
<1>2. /\ v \in C!Nodes /\ numNodes \in Nat /\ cStack[Own(v)].n \in Nat
      /\ cStack[Own(v)].n < numNodes /\ C!Unset = numNodes /\ C!Unset' = C!Unset
      /\ edges' = edges
  <2>1. Own(v) \in StackNames
    BY OwnAndOther
  <2> QED
    BY <1>1, <2>1, WalkFacts, GraphStays DEF WalkInv, C!Unset, Given
<1>3. position \in [C!Nodes -> Nat] /\ C!Nodes = 0..(numNodes - 1)
  BY DEF WalkInv, WalkTyped, C!Nodes
<1>4. cIdx' = v + 1 \/ cIdx' = v + 2
  BY <1>1 DEF Walk, PassOne, PassTwo, GoBack
<1>5. ASSUME NEW w \in Nat, w < v
      PROVE  position'[w] = position[w]
  <2>1. CASE PushVisited
    <3>1. position' = [position EXCEPT ![v] = cStack[Own(v)].n]
      BY <1>1, <2>1 DEF PushVisited
    <3> QED
      BY <1>2, <1>3, <1>5, <3>1
  <2>2. CASE UNCHANGED position
    BY <2>2
  <2> QED
    BY <2>1, <2>2 DEF Walk, PassOne, PassTwo, GoBack, PopVisited
<1>6. ASSUME NEW u \in Nat, <<u, v>> \in edges, v < u
      PROVE  position'[v] # C!Unset
  <2>1. WasBack(u, v)
    BY <1>6 DEF WasBack, Intact
  <2>2. ~GoBack
    <3> SUFFICES ASSUME NEW w \in BackedgeTargets(edges, cIdx)
                 PROVE  FALSE
      BY DEF GoBack
    <3>1. w \in Nat /\ WasBack(v, w)
      BY <1>1, RepeatEnd DEF WalkInv, WasRepeat
    <3> QED
      BY <2>1, <3>1, EndIsNoBlockEnd
  <2>3. position' = [position EXCEPT ![v] = cStack[Own(v)].n]
    BY <1>1, <2>2 DEF Walk, PassOne, PassTwo, PushVisited
  <2> QED
    BY <1>2, <1>3, <2>3
<1>7. ASSUME NEW u \in Nat, NEW w \in Nat, <<u, w>> \in edges, w < u, u >= cIdx', w < cIdx'
      PROVE  position'[w] # C!Unset
  <2>1. CASE w < v
    <3>1. u >= cIdx
      BY <1>1, <1>4, <1>7
    <3> QED
      BY <1>1, <1>5, <1>7, <2>1, <3>1 DEF EndsVisited
  <2>2. CASE w = v
    BY <1>6, <1>7, <2>2
  <2>3. CASE w = v + 1
    BY <1>1, <1>4, <1>7, <2>3
  <2> QED
    BY <1>4, <1>7, <2>1, <2>2, <2>3
<1> QED
  BY <1>2, <1>7 DEF EndsVisited

(* An iteration leads to the next bit, and what it marks has a cause       *)
LEMMA StaysInOrder ==
  ASSUME IntactInv, WalkInv, Room, KeptForward, EndsVisited, NEW pos, InOrder(pos),
         ClaimTyped, marks \in Seq(Marks), Len(marks) = cI - start,
         data \in [0..(NumBits - 1) -> Bit], start \in -1..(NumBits - 1),
         cIdx < numNodes - 2, AnalysisMove, UNCHANGED Given
  PROVE  InOrder(pos)' /\ EndsVisited'
<1>1. PICK v \in Nat \ {0} : v = cIdx /\ v < numNodes - 2
  BY WalkFacts DEF WalkInv
<1>2. /\ WasNumbered(pos) /\ ~WasForward(v - 1) /\ AllCharged(pos)
      /\ v <= idx => cI = start + pos[v]
  BY <1>1 DEF InOrder
<1>3. Reads(v, pos)
  BY <1>1, <1>2, NodeReads
<1>4. /\ idx \in Nat \ {0} /\ n \in Nat \ {0} /\ numNodes \in Nat /\ NumBits \in Nat
      /\ start + n = NumBits /\ start \in Int /\ v \in 1..idx
      /\ pos[v] \in 1..n /\ cI = start + pos[v] /\ cI \in Int
  BY <1>3, NumBitsAssumption DEF Reads, IntactInv, IntactShape, IntactCount, n
<1>5. PICK l \in Nat : l = Len(marks) /\ l = pos[v] /\ cI = start + l
  BY <1>4, LenProperties
<1>6. /\ \A u : WasForward(u)' <=> WasForward(u)
      /\ WasNumbered(pos)' /\ idx' = idx /\ start' = start
  BY <1>2, GraphStays
<1>7. Walk
  BY <1>1 DEF AnalysisMove, Walk
<1>8. ASSUME NEW u \in Nat, cIdx' = u, ~WasForward(u - 1), AllCharged(pos)',
             u <= idx => cI' = start + pos[u]
      PROVE  InOrder(pos)'
  BY <1>6, <1>8 DEF InOrder
<1>9. WasForward(v - 2) => ~WasForward(v)
  <2>1. ASSUME WasForward(v - 2)
        PROVE  ~WasForward(v)
    <3>1. v - 2 \in Int /\ (v - 2) + 2 = v /\ <<v - 2, (v - 2) + 2>> \in Intact
      BY <2>1 DEF WasForward
    <3>2. v - 2 \in Nat
      <4>1. <<v - 2, (v - 2) + 2>>[1] \in 0..(numNodes - 1)
        BY <3>1 DEF IntactInv, IntactShape
      <4> QED
        BY <4>1
    <3> QED
      BY <2>1, <3>1, <3>2 DEF IntactInv, IntactForward
  <2> QED
    BY <2>1
<1>10. ASSUME cIdx' # cIdx + 2
       PROVE  EndsVisited'
  BY <1>7, <1>10, EndsStayVisited
<1>11. CASE WasForward(v - 2)
  <2>1. C!Status = "mute"
    BY <1>1, <1>11, StatusIs
  <2>2. PassOne /\ cI' = cI /\ marks' = marks
    BY <2>1 DEF AnalysisMove, GoBack, PassTwo, BackStatus, ForwardStatus
  <2>3. cIdx' = v + 1 /\ (v + 1) - 1 = v
    BY <1>1, <2>2 DEF PassOne
  <2>4. AllCharged(pos)'
    BY <1>2, <2>2, NoneCharged
  <2>5. v + 1 <= idx => cI' = start + pos[v + 1]
    BY <1>3, <1>4, <1>11, <2>2 DEF Reads
  <2>6. InOrder(pos)'
    BY <1>8, <1>9, <1>11, <2>3, <2>4, <2>5
  <2>7. EndsVisited'
    BY <1>1, <1>10, <2>3
  <2> QED
    BY <2>6, <2>7
<1>12. ASSUME ~WasForward(v - 2)
       PROVE  /\ v < idx /\ cI \in 0..(NumBits - 1)
              /\ data[cI] = WasMeaning(v) /\ C!bit = claim[cI]
              /\ v + 1 <= idx /\ cI + 1 = start + pos[v + 1]
              /\ v + 1 = idx => cI = NumBits - 1
              /\ v + 2 <= idx =>
                   /\ cI + 2 = start + pos[v + 2] /\ cI # NumBits - 1
                   /\ cI + 1 \in 0..(NumBits - 1) /\ pos[v + 1] = l + 1
                   /\ v + 1 \in 1..idx
                   /\ data[cI + 1] = WasMeaning(v + 1)
  <2>1. /\ v < idx /\ cI \in 0..(NumBits - 1)
        /\ data[cI] = WasMeaning(v) /\ C!bit = claim[cI]
        /\ pos[v + 1] = pos[v] + 1
        /\ v + 1 = idx => cI = NumBits - 1
        /\ v + 2 <= idx =>
             /\ pos[v + 2] = pos[v] + 2 /\ cI + 1 \in 0..(NumBits - 1)
             /\ data[cI + 1] = WasMeaning(v + 1)
    BY <1>3, <1>12 DEF Reads
  <2>2. v + 1 <= idx /\ v + 1 \in 1..idx
    BY <1>4, <2>1
  <2>3. pos[v + 1] = l + 1 /\ cI + 1 = start + pos[v + 1]
    BY <1>4, <1>5, <2>1
  <2>4. ASSUME v + 2 <= idx
        PROVE  cI + 2 = start + pos[v + 2] /\ cI # NumBits - 1
    <3>1. pos[v + 2] = l + 2 /\ cI + 1 <= NumBits - 1
      BY <1>4, <1>5, <2>1, <2>4
    <3>2. start \in Int /\ cI \in Int /\ NumBits \in Int /\ cI = start + l
      BY <1>4, <1>5
    <3>3. cI + 2 = start + (l + 2)
      BY ONLY <3>2, l \in Nat
    <3>4. cI # NumBits - 1
      BY ONLY <3>1, <3>2
    <3> QED
      BY <3>1, <3>3, <3>4
  <2> QED
    BY <2>1, <2>2, <2>3, <2>4
<1>13. ASSUME ~WasForward(v - 2), claim[cI] # data[cI]
       PROVE  Charged(pos, l + 1)
  <2>1. start + (l + 1) - 1 = cI /\ l + 1 \in Int
    BY <1>4, <1>5
  <2> QED
    BY <1>4, <1>12, <1>13, <2>1, ChargedFor
<1>14. ASSUME ~WasForward(v - 2), v + 2 <= idx, claim[cI + 1] # data[cI + 1]
       PROVE  Charged(pos, l + 2)
  <2>1. start + (l + 2) - 1 = cI + 1 /\ l + 2 \in Int
    BY <1>4, <1>5
  <2> QED
    BY <1>4, <1>12, <1>14, <2>1, ChargedFor
<1>15. ASSUME NEW w, <<v, w>> \in removed
       PROVE  Charged(pos, l + 1)
  <2>1. (l + 1) - 1 = l /\ l + 1 \in Int
    OBVIOUS
  <2> QED
    BY <1>4, <1>5, <1>15, <2>1, ChargedFor
<1>16. ASSUME ~WasForward(v - 2), v + 2 <= idx, NEW w, <<v + 1, w>> \in removed
       PROVE  Charged(pos, l + 2)
  <2>1. (l + 2) - 1 = l + 1 /\ l + 2 \in Int
    OBVIOUS
  <2> QED
    BY <1>4, <1>12, <1>16, <2>1, ChargedFor
<1>17. /\ \A agrees \in BOOLEAN : \A b : A!Mark(agrees, b) \in Marks
       /\ "x" \in Marks
  BY DEF A!Mark, Marks
<1>18. \A e \in removed : ~(e[2] > e[1])
  <2> SUFFICES ASSUME NEW e \in removed, e[2] > e[1]
               PROVE  FALSE
    OBVIOUS
  <2>1. e[1] \in Nat /\ e[2] \in Nat
    BY DEF IntactInv, IntactShape, Intact
  <2> QED
    BY <2>1 DEF KeptForward
<1>19. ASSUME ~WasForward(v - 2), cIdx' = v + 2, cIdx' = cIdx + 2, PassTwo,
              ~WasForward(v + 1),
              \A u \in Nat : u >= cIdx + 2 => <<u, cIdx + 1>> \notin edges,
              claim[cI] # data[cI] \/ claim[cI] = 1,
              v + 2 <= idx /\ claim[cI + 1] # C!InnerBit => Charged(pos, l + 2)
       PROVE  InOrder(pos)' /\ EndsVisited'
  <2>1. EndsVisited'
    BY <1>7, <1>19, EndsStayVisited
  <2>2. (v + 2) - 1 = v + 1 /\ C!bit = claim[cI] /\ ForwardStatus
    BY <1>12, <1>19 DEF PassTwo
  <2>3. PICK m : m = A!Mark(C!bit = 1, 1)
    OBVIOUS
  <2>4. m \in Marks /\ (m = "x" => Charged(pos, l + 1))
    <3>1. m \in Marks
      BY <1>17, <2>3
    <3>2. C!bit = 1 => m # "x"
      BY <2>3 DEF A!Mark
    <3> QED
      BY <1>13, <1>19, <2>2, <3>1, <3>2
  <2>5. CASE cI = NumBits - 1
    <3>1. cI' = cI + 1 /\ marks' = Append(marks, m)
      BY <2>2, <2>3, <2>5 DEF AnalysisMove, PassOne, GoBack, BackStatus, ForwardStatus
    <3>2. AllCharged(pos)'
      BY <1>2, <1>5, <2>4, <3>1, OneCharged
    <3>3. ~(v + 2 <= idx)
      BY <1>12, <1>19, <2>5
    <3>4. InOrder(pos)'
      BY <1>8, <1>19, <2>2, <3>2, <3>3
    <3> QED
      BY <2>1, <3>4
  <2>6. CASE cI # NumBits - 1
    <3>1. v + 2 <= idx
      BY <1>4, <1>12, <1>19, <2>6
    <3>2. cI + 1 < NumBits
      <4>1. cI \in 0..(NumBits - 1)
        BY <1>12, <1>19
      <4> QED
        BY <1>4, <2>6, <4>1
    <3>3. PICK k : k = A!Mark(claim[cI + 1] = A!InnerBit, A!InnerBit)
      OBVIOUS
    <3>4. cI' = cI + 2 /\ marks' = marks \o << m, k >>
      BY <2>2, <2>3, <2>6, <3>2, <3>3
         DEF AnalysisMove, PassOne, GoBack, BackStatus, ForwardStatus
    <3>5. A!InnerBit = C!InnerBit
      BY SameStatus DEF A!InnerBit, C!InnerBit
    <3>6. k \in Marks /\ (k = "x" => Charged(pos, l + 2))
      <4>1. k \in Marks
        BY <1>17, <3>3
      <4>2. claim[cI + 1] = A!InnerBit => k # "x"
        BY <3>3 DEF A!Mark
      <4> QED
        BY <1>19, <3>1, <3>5, <4>1, <4>2
    <3>7. AllCharged(pos)'
      BY <1>2, <1>5, <2>4, <3>4, <3>6, TwoCharged
    <3>8. cI' = start + pos[v + 2]
      BY <1>12, <1>19, <3>1, <3>4
    <3>9. InOrder(pos)'
      BY <1>8, <1>19, <2>2, <3>7, <3>8
    <3> QED
      BY <2>1, <3>9
  <2> QED
    BY <2>5, <2>6
<1>20. ASSUME ~WasForward(v - 2), ~WasForward(v), cIdx' = v + 1, cI' = cI + 1,
              NEW m \in Marks, marks' = Append(marks, m), m = "x" => Charged(pos, l + 1)
       PROVE  InOrder(pos)' /\ EndsVisited'
  <2>1. (v + 1) - 1 = v
    OBVIOUS
  <2>2. AllCharged(pos)'
    BY <1>2, <1>5, <1>20, OneCharged
  <2>3. InOrder(pos)'
    BY <1>8, <1>12, <1>20, <2>1, <2>2
  <2>4. EndsVisited'
    BY <1>1, <1>10, <1>20
  <2> QED
    BY <2>3, <2>4
<1>21. CASE ~WasForward(v - 2) /\ WasForward(v)
  <2>1. C!Status = IF WasBack(v + 1, v) THEN "forward1" ELSE "forward0"
    BY <1>1, <1>21, StatusIs
  <2>2. PassTwo
    BY <2>1 DEF AnalysisMove, GoBack, PassOne, BackStatus, ForwardStatus
  <2>3. cIdx' = v + 2 /\ cIdx' = cIdx + 2
    BY <1>1, <2>2 DEF PassTwo
  <2>4. ~WasForward(v + 1)
    BY <1>21 DEF IntactInv, IntactForward
  <2>5. \A u \in Nat : u >= cIdx + 2 => <<u, cIdx + 1>> \notin edges
    <3> SUFFICES ASSUME NEW u \in Nat, u >= v + 2, <<u, v + 1>> \in edges
                 PROVE  FALSE
      BY <1>1
    <3>1. WasBack(u, v + 1) /\ (v + 1) - 1 = v
      BY DEF WasBack, Intact
    <3> QED
      BY <1>21, <3>1 DEF IntactInv, IntactBlocks
  <2>6. claim[cI] # data[cI] \/ claim[cI] = 1
    BY <1>12, <1>21 DEF WasMeaning
  <2>7. ASSUME v + 2 <= idx, claim[cI + 1] # C!InnerBit
        PROVE  Charged(pos, l + 2)
    <3>1. WasMeaning(v + 1) = C!InnerBit
      <4>1. \A w \in Nat : WasBack(v + 1, w) => w = v
        <5>1. (v + 1) - 1 = v /\ v + 1 \in Nat
          OBVIOUS
        <5> QED
          BY <1>21, <5>1 DEF IntactInv, IntactBlocks
      <4>2. ((v + 1) - v) % 2 = 1
        OBVIOUS
      <4>3. WasOdd(v + 1) <=> WasBack(v + 1, v)
        BY <4>1, <4>2 DEF WasOdd
      <4> QED
        BY <2>1, <2>4, <4>3 DEF WasMeaning, C!InnerBit
    <3> QED
      BY <1>12, <1>14, <1>21, <2>7, <3>1
  <2> QED
    BY <1>19, <1>21, <2>2, <2>3, <2>4, <2>5, <2>6, <2>7
<1>22. CASE ~WasForward(v - 2) /\ ~WasForward(v) /\ BackedgeTargets(edges, v) # {}
  <2>1. BackStatus
    BY <1>1, <1>22, StatusIs
  <2>2. CASE GoBack
    <3>1. /\ cIdx' = v + 1 /\ cI' = cI + 1
          /\ \/ marks' = Append(marks, A!Mark(TRUE, C!bit))
             \/ marks' = Append(marks, "x") /\ (\A w \in BackedgeTargets(edges, cIdx) : ~C!BackedgeAgrees(w))
      BY <1>1, <2>1, <2>2 DEF AnalysisMove, GoBack, PassOne, PassTwo, BackStatus, ForwardStatus
    <3>2. marks' = Append(marks, A!Mark(TRUE, C!bit))
      <4>1. PICK w \in BackedgeTargets(edges, cIdx) : C!BackedgeAgrees(w)
        BY <2>2 DEF GoBack
      <4> QED
        BY <3>1, <4>1
    <3>3. PICK m \in Marks : m = A!Mark(TRUE, C!bit) /\ m # "x"
      BY DEF A!Mark, Marks
    <3> QED
      BY <1>20, <1>22, <3>1, <3>2, <3>3
  <2>3. CASE ~GoBack
    <3>1. /\ \A w \in BackedgeTargets(edges, cIdx) : ~C!BackedgeAgrees(w)
          /\ PassOne /\ cI' = cI + 1 /\ marks' = Append(marks, "x")
      BY <2>1, <2>3 DEF AnalysisMove, PassTwo, BackStatus, ForwardStatus
    <3>2. cIdx' = v + 1
      BY <1>1, <3>1 DEF PassOne
    <3>3. PICK w \in BackedgeTargets(edges, cIdx) : TRUE
      BY <1>1, <1>22
    <3>4. /\ w \in Nat /\ w < cIdx /\ <<cIdx, w>> \in edges /\ WasBack(v, w)
      BY <1>1, <3>3, RepeatEnd DEF WasRepeat
    <3>5. position[w] # C!Unset
      BY <1>1, <3>4 DEF EndsVisited
    <3>6. C!bit # (v - w) % 2
      BY <1>1, <3>1, <3>3, <3>5, EndAgrees
    <3>7. data[cI] = (v - w) % 2
      BY <1>12, <1>22, <3>4, BackMeans
    <3>8. Charged(pos, l + 1)
      BY <1>12, <1>13, <1>22, <3>6, <3>7
    <3> QED
      BY <1>17, <1>20, <1>22, <3>1, <3>2, <3>8
  <2> QED
    BY <2>2, <2>3
<1>23. ASSUME NEW u \in Nat, WasMeaning(u) = 1, ~WasForward(u), BackedgeTargets(edges, u) = {}
       PROVE  \E w : <<u, w>> \in removed
  <2>1. PICK w \in Nat : WasBack(u, w)
    BY <1>23 DEF WasMeaning, WasOdd
  <2>2. w \in 0..(u - 1) /\ <<u, w>> \in Intact
    BY <2>1 DEF WasBack
  <2>3. <<u, w>> \notin edges
    BY <1>23, <2>2 DEF BackedgeTargets, Connected
  <2> QED
    BY <2>2, <2>3 DEF Intact
<1>24. CASE ~WasForward(v - 2) /\ ~WasForward(v) /\ BackedgeTargets(edges, v) = {}
  <2>1. claim[cI] \in {0, 1} /\ data[cI] \in {0, 1}
    BY <1>12, <1>24 DEF ClaimTyped, Bit
  <2>2. \/ C!Status = "zero"
        \/ /\ C!Status = "forward0" /\ C!bit = 1
           /\ \/ C!LastFourOnlyHamiltonian /\ v = numNodes - 4
              \/ C!LooksLikeIf
    BY <1>1, <1>24, StatusIs
  <2>3. CASE C!Status = "zero"
    <3>1. PassOne /\ cI' = cI + 1 /\ marks' = Append(marks, A!Mark(C!bit = 0, 0))
      BY <2>3 DEF AnalysisMove, GoBack, PassTwo, BackStatus, ForwardStatus
    <3>2. cIdx' = v + 1
      BY <1>1, <3>1 DEF PassOne
    <3>3. PICK m \in Marks : m = A!Mark(C!bit = 0, 0)
      BY <1>17
    <3>4. m = "x" => claim[cI] = 1
      BY <1>12, <1>24, <2>1, <3>3 DEF A!Mark
    <3>5. ASSUME claim[cI] = 1
          PROVE  Charged(pos, l + 1)
      <4>1. CASE data[cI] = 0
        BY <1>13, <1>24, <3>5, <4>1
      <4>2. CASE data[cI] = 1
        <5>1. \E w : <<v, w>> \in removed
          BY <1>12, <1>23, <1>24, <4>2
        <5> QED
          BY <1>15, <5>1
      <4> QED
        BY <2>1, <4>1, <4>2
    <3> QED
      BY <1>20, <1>24, <3>1, <3>2, <3>3, <3>4, <3>5
  <2>4. CASE /\ C!Status = "forward0" /\ C!bit = 1
             /\ \/ C!LastFourOnlyHamiltonian /\ v = numNodes - 4
                \/ C!LooksLikeIf
    <3>1. PassTwo
      BY <2>4 DEF AnalysisMove, GoBack, PassOne, BackStatus, ForwardStatus
    <3>2. cIdx' = v + 2 /\ cIdx' = cIdx + 2
      BY <1>1, <3>1 DEF PassTwo
    <3>3. /\ ~WasForward(v + 1)
          /\ \A w \in Nat : <<v + 1, w>> \in edges => w = v + 2
          /\ \A u \in Nat : <<u, v + 1>> \in edges => u = v
      BY <1>1, <2>4, GuessedInside
    <3>4. \A u \in Nat : u >= cIdx + 2 => <<u, cIdx + 1>> \notin edges
      BY <1>1, <3>3
    <3>5. claim[cI] = 1 /\ C!InnerBit = 0
      BY <1>12, <1>24, <2>4 DEF C!InnerBit
    <3>6. ASSUME v + 2 <= idx, claim[cI + 1] # C!InnerBit
          PROVE  Charged(pos, l + 2)
      <4>1. claim[cI + 1] \in {0, 1} /\ data[cI + 1] \in {0, 1}
        BY <1>12, <1>24, <3>6 DEF ClaimTyped, Bit
      <4>2. CASE data[cI + 1] = 0
        BY <1>14, <1>24, <3>5, <3>6, <4>2
      <4>3. CASE data[cI + 1] = 1
        <5>1. BackedgeTargets(edges, v + 1) = {}
          <6> SUFFICES ASSUME NEW w \in 0..((v + 1) - 1), <<v + 1, w>> \in edges
                       PROVE  FALSE
            BY DEF BackedgeTargets, Connected
          <6>1. w = v + 2
            BY <3>3
          <6> QED
            BY <6>1
        <5>2. WasMeaning(v + 1) = 1
          BY <1>12, <1>24, <3>6, <4>3
        <5>3. \E w : <<v + 1, w>> \in removed
          <6>1. PICK u \in Nat : u = v + 1
            OBVIOUS
          <6>2. \E w : <<u, w>> \in removed
            BY <1>23, <3>3, <5>1, <5>2, <6>1
          <6> QED
            BY <6>1, <6>2
        <5> QED
          BY <1>16, <1>24, <3>6, <5>3
      <4> QED
        BY <4>1, <4>2, <4>3
    <3> QED
      BY <1>19, <1>24, <3>1, <3>2, <3>3, <3>4, <3>5, <3>6
  <2> QED
    BY <2>2, <2>3, <2>4
<1> QED
  BY <1>11, <1>21, <1>22, <1>24

LEMMA StartsInOrder ==
  /\ IntactInv /\ Start /\ IntactReads /\ start \in Int
  /\ claimStart = start /\ cI = claimStart + 1 /\ marks = <<"1">>
  => EndsVisited /\ Ordered
<1> SUFFICES ASSUME IntactInv, Start, IntactReads, start \in Int, claimStart = start,
                    cI = claimStart + 1, marks = <<"1">>
             PROVE  EndsVisited /\ Ordered
  OBVIOUS
<1>1. cIdx = 1 /\ 1 - 1 = 0 /\ numNodes \in Nat /\ C!Unset = numNodes /\ idx \in Nat \ {0}
  BY DEF Start, IntactInv, IntactShape, C!Unset
<1>2. EndsVisited
  <2>1. idx + 2 <= numNodes
    <3> DEFINE m == IF WasForward(idx - 1) \/ WasForward(idx - 2) THEN 1 ELSE 0
    <3>1. m \in Nat /\ numNodes - 2 = idx + m
      BY DEF IntactInv, IntactShape
    <3> HIDE DEF m
    <3> QED
      BY <1>1, <3>1
  <2>2. 0 \in C!Nodes /\ position[0] = 0 /\ 0 # numNodes
    BY <1>1, <2>1 DEF Start, C!FirstPosition, C!Nodes
  <2>3. \A w \in Nat : w < 1 => w = 0
    OBVIOUS
  <2> QED
    BY <1>1, <2>2, <2>3 DEF EndsVisited
<1>3. PICK pos : WasNumbered(pos)
  BY DEF IntactReads
<1>4. ~WasForward(cIdx - 1)
  BY <1>1 DEF IntactInv, IntactForward
<1>5. cI = start + pos[cIdx]
  BY <1>1, <1>3 DEF WasNumbered
<1>6. AllCharged(pos)
  BY DEF AllCharged, Marked
<1>7. InOrder(pos)
  BY <1>3, <1>4, <1>5, <1>6 DEF InOrder
<1> QED
  BY <1>2, <1>7 DEF Ordered

LEMMA FaultsStep ==
  KCInv /\ KCInv' /\ AnalysisInv /\ VerdictInv /\ FaultsInv /\ [KCNext]_allVars => FaultsInv'
<1> SUFFICES ASSUME KCInv, KCInv', AnalysisInv, VerdictInv, FaultsInv, [KCNext]_allVars
             PROVE  FaultsInv'
  OBVIOUS
<1>1. start \in -1..(NumBits - 1) /\ start \in Int
  <2>1. start \in FirstPositiveBitIndex(data)
    BY DEF VerdictInv
  <2>2. FirstPositiveBitIndex(data) \subseteq -1..(NumBits - 1)
    BY NumBitsAssumption DEF FirstPositiveBitIndex
  <2>3. start \in -1..(NumBits - 1)
    BY <2>1, <2>2
  <2> QED
    BY <2>3
<1>2. CASE Encode
  <2>1. phase' = "encode" /\ data' = data
    BY <1>2 DEF Encode, Next, VisitMute, BuildWhile, BuildIf, BuildRepeat, OpenForward,
                VisitZero, Stop, ReadBit, vars
  <2> QED
    BY <2>1 DEF FaultsInv
<1>3. CASE StartChecking
  <2>1. phase' = "check" /\ data' = data /\ edges' = edges \ removed'
    BY <1>3 DEF StartChecking
  <2> QED
    BY <2>1 DEF FaultsInv
<1>4. CASE Check
  <2>1. phase' = "check" /\ phase = "check" /\ UNCHANGED Given
    BY <1>4, CheckMoves
  <2>2. data' = data /\ edges' = edges /\ removed' = removed
    BY <2>1 DEF Given
  <2> QED
    BY <2>1, <2>2 DEF FaultsInv
<1>5. CASE StartAnalysing
  <2>1. /\ phase = "check" /\ phase' = "analyse" /\ C!SizeMatches /\ UNCHANGED Given
        /\ cIdx' = 1 /\ cI' = claimStart + 1 /\ marks' = marks
        /\ cStack' = C!FirstStack /\ cHistory' = C!FirstHistory
        /\ position' = C!FirstPosition
    BY <1>5 DEF StartAnalysing, Given, vars
  <2>2. IntactInv /\ ClaimTyped /\ IntactReads /\ marks = <<"1">> /\ edges \cap removed = {}
    BY <2>1 DEF KCInv, VerdictInv, AnalysisInv, FaultsInv
  <2>3. /\ data' = data /\ edges' = edges /\ removed' = removed /\ start' = start
        /\ claimStart' = claimStart
    BY <2>1 DEF Given
  <2>4. ASSUME claimStart = start
        PROVE  KeptForward' /\ EndsVisited' /\ Ordered'
    <3>1. KeptForward'
      BY <2>1, <2>2, <2>3, <2>4, SizeKeepsForward DEF KeptForward
    <3>2. Start'
      <4>1. /\ C!FirstStack' = C!FirstStack /\ C!FirstHistory' = C!FirstHistory
            /\ C!FirstPosition' = C!FirstPosition
        BY <2>1 DEF Given, C!FirstStack, C!FirstHistory, C!FirstPosition, C!nBits, C!Nodes,
                    C!Unset
      <4> QED
        BY <2>1, <4>1 DEF Start
    <3>3. IntactInv' /\ IntactReads'
      BY <2>1, <2>2, GivenKeeps, GraphStays
    <3>4. (/\ IntactInv /\ Start /\ IntactReads /\ start \in Int
           /\ claimStart = start /\ cI = claimStart + 1 /\ marks = <<"1">>)'
            => (EndsVisited /\ Ordered)'
      BY StartsInOrder, PTL
    <3> QED
      BY <1>1, <2>1, <2>2, <2>3, <2>4, <3>1, <3>2, <3>3, <3>4
  <2> QED
    BY <2>1, <2>2, <2>3, <2>4 DEF FaultsInv
<1>6. CASE Analyse
  <2>1. /\ UNCHANGED Given /\ phase = "analyse" /\ phase' = "analyse"
        /\ cIdx < numNodes - 2 /\ AnalysisMove
    BY <1>6, AnalysisMoves
  <2>2. /\ IntactInv /\ WalkInv /\ Room /\ ClaimTyped /\ marks \in Seq(Marks)
        /\ Len(marks) = cI - claimStart
    BY <2>1 DEF KCInv, AnalysisInv, MarksInv
  <2>3. /\ data' = data /\ edges' = edges /\ removed' = removed /\ start' = start
        /\ claimStart' = claimStart
    BY <2>1 DEF Given
  <2>4. ASSUME claimStart = start
        PROVE  KeptForward' /\ EndsVisited' /\ Ordered'
    <3>1. /\ KeptForward /\ EndsVisited /\ Ordered /\ data \in [0..(NumBits - 1) -> Bit]
          /\ Len(marks) = cI - start
      BY <2>1, <2>2, <2>4 DEF FaultsInv
    <3>2. PICK pos : InOrder(pos)
      BY <3>1 DEF Ordered
    <3>3. InOrder(pos)' /\ EndsVisited'
      BY <1>1, <2>1, <2>2, <3>1, <3>2, StaysInOrder
    <3>4. KeptForward'
      BY <2>3, <3>1 DEF KeptForward
    <3>5. Ordered'
      BY <3>3 DEF Ordered
    <3> QED
      BY <3>3, <3>4, <3>5
  <2> QED
    BY <2>1, <2>3, <2>4 DEF FaultsInv
<1>7. CASE ReturnNoMarks \/ RsCheck \/ RsCheckNoMarks
  <2>1. /\ phase # "encode" /\ phase' \in {"no marks", "corrected", "crashed"}
        /\ data' = data /\ edges' = edges /\ removed' = removed
    BY <1>7 DEF ReturnNoMarks, RsCheck, RsCheckNoMarks, vars
  <2> QED
    BY <2>1 DEF FaultsInv
<1>8. CASE Rest \/ UNCHANGED allVars
  <2>1. /\ UNCHANGED Given /\ UNCHANGED <<phase, cIdx, cI, position, marks>>
    BY <1>8 DEF Rest, allVars, checkerVars, vars, Given
  <2>2. /\ \A u : WasForward(u)' <=> WasForward(u)
        /\ \A pos : WasNumbered(pos)' <=> WasNumbered(pos)
        /\ C!Unset' = C!Unset /\ idx' = idx /\ start' = start /\ claimStart' = claimStart
        /\ data' = data /\ edges' = edges /\ removed' = removed
    BY <2>1, GraphStays DEF Given
  <2>3. \A pos : AllCharged(pos)' <=> AllCharged(pos)
    <3>1. Marked' = Marked
      BY <2>1 DEF Marked
    <3>2. ASSUME NEW pos
          PROVE  AllCharged(pos)' <=> AllCharged(pos)
      BY <2>1, <3>1, ChargesStay DEF AllCharged
    <3> QED
      BY <3>2
  <2>4. KeptForward' <=> KeptForward
    BY <2>2 DEF KeptForward
  <2>5. EndsVisited' <=> EndsVisited
    BY <2>1, <2>2 DEF EndsVisited
  <2>6. \A pos : InOrder(pos)' <=> InOrder(pos)
    BY <2>1, <2>2, <2>3 DEF InOrder
  <2>7. Ordered' <=> Ordered
    BY <2>6 DEF Ordered
  <2> QED
    BY <2>1, <2>2, <2>4, <2>5, <2>7 DEF FaultsInv
<1> QED
  BY <1>2, <1>3, <1>4, <1>5, <1>6, <1>7, <1>8 DEF KCNext

LEMMA MarksHaveCauses == KCSpec => [](KCInv /\ AnalysisInv /\ FaultsInv)
<1>1. KCInit => FaultsInv
  BY DEF KCInit, Init, FaultsInv
<1>2. KCInv /\ KCInv' /\ AnalysisInv /\ VerdictInv /\ FaultsInv /\ [KCNext]_allVars
        => FaultsInv'
  BY FaultsStep
<1> QED
  BY <1>1, <1>2, MarksFollowTheGraph, VerdictsFollowTheKey, PTL DEF KCSpec

(* Only finitely many connections are lost                                 *)
LEMMA LostAreFinite ==
  ASSUME IntactInv
  PROVE  IsFiniteSet(removed)
<1> DEFINE all == 0..(numNodes - 1)
<1>1. 0 \in Int /\ numNodes - 1 \in Int
  BY DEF IntactInv, IntactShape
<1>2. IsFiniteSet(all)
  BY <1>1, FS_Interval
<1>3. removed \in SUBSET (all \X all)
  BY DEF IntactInv, IntactShape, Intact
<1> HIDE DEF all
<1>4. IsFiniteSet(all \X all)
  BY <1>2, FS_Product
<1> QED
  BY <1>3, <1>4, FS_Subset

(* The analysis recovers from every bit that does not agree: each          *)
(* connection lost and each bit in which the keys differ costs one mark at *)
(* most, for keys of the same length (checker.c:276-339).                  *)
THEOREM FaultsAreNotMultiplied == KCSpec => []EachFaultCostsOneMark
<1>1. KCInv /\ AnalysisInv /\ FaultsInv => EachFaultCostsOneMark
  <2> SUFFICES ASSUME KCInv, AnalysisInv, FaultsInv, phase = "analyse", claimStart = start
               PROVE  Cardinality(Marked) <= Cardinality(Flipped(claim)) + Cardinality(removed)
    BY DEF EachFaultCostsOneMark
  <2>1. /\ IntactInv /\ ClaimTyped /\ marks \in Seq(Marks) /\ Ordered
    BY DEF KCInv, AnalysisInv, MarksInv, FaultsInv
  <2>2. PICK pos : AllCharged(pos)
    BY <2>1 DEF Ordered, InOrder
  <2>3. start \in Int /\ NumBits \in Nat /\ numNodes \in Nat
    BY <2>1, NumBitsAssumption DEF ClaimTyped, IntactInv, IntactShape
  <2>4. IsFiniteSet(removed)
    BY <2>1, LostAreFinite
  <2> QED
    BY <2>1, <2>2, <2>3, <2>4, MarksCharged
<1> QED
  BY <1>1, MarksHaveCauses, PTL

-----------------------------------------------------------------------------
(***************************************************************************)
(* Proof that the key of the graph passes watermark_rs_check, for keys and *)
(* symbols of every length and any amount of parity.                       *)
(*                                                                         *)
(* A mark is x or the bit it is written for, so only marked bits of what   *)
(* is read differ from the key.  As each has a cause of its own there are  *)
(* no more wrong symbols than connections lost, and the codec corrects     *)
(* them.                                                                   *)
(***************************************************************************)
BitMark(b) == IF b = 1 THEN "1" ELSE "0"
Written(j) == marks[j] = "x" \/ marks[j] = BitMark(claim[claimStart + j - 1])

WrittenInv ==
  /\ claimStart \in FirstPositiveBitIndex(claim)
  /\ phase = "analyse" /\ claimStart # -1 => \A j \in DOMAIN marks : Written(j)

(* An iteration of the analysis writes x or the bit that it is at          *)
LEMMA WritesItsBits ==
  ASSUME AnalysisMove, ClaimTyped, marks \in Seq(Marks), Len(marks) = cI - claimStart,
         marks' \in Seq(Marks), Len(marks') <= C!nBits, UNCHANGED Given,
         \A j \in DOMAIN marks : Written(j)
  PROVE  \A j \in DOMAIN marks' : Written(j)'
<1>1. /\ cI \in Int /\ claimStart \in Int /\ NumBits \in Int /\ C!nBits = NumBits - claimStart
      /\ claim' = claim /\ claimStart' = claimStart
  BY NumBitsAssumption DEF ClaimTyped, C!nBits, Given
<1>2. PICK l \in Nat : l = Len(marks) /\ cI = claimStart + l
  BY <1>1, LenProperties
<1>3. ASSUME cI < NumBits
      PROVE  C!bit = claim[cI]
  BY <1>3 DEF C!bit, C!KeyBit
<1>4. ASSUME NEW m \in Marks, marks' = Append(marks, m), m = "x" \/ m = BitMark(C!bit)
      PROVE  \A j \in DOMAIN marks' : Written(j)'
  <2>1. Len(marks') = l + 1
    BY <1>2, <1>4, AppendProperties
  <2>2. cI < NumBits
    BY <1>1, <1>2, <2>1
  <2>3. claimStart + (l + 1) - 1 = cI
    BY <1>1, <1>2
  <2> SUFFICES ASSUME NEW j \in DOMAIN marks'
               PROVE  marks'[j] = "x" \/ marks'[j] = BitMark(claim[claimStart + j - 1])
    BY <1>1 DEF Written, BitMark
  <2>4. CASE j \in DOMAIN marks /\ marks'[j] = marks[j]
    BY <2>4 DEF Written
  <2>5. CASE j = l + 1 /\ marks'[j] = m
    BY <1>3, <1>4, <2>2, <2>3, <2>5
  <2> QED
    BY <1>2, <1>4, <2>4, <2>5, OneWritten
<1>5. ASSUME NEW m \in Marks, NEW k \in Marks, marks' = marks \o << m, k >>,
             m = "x" \/ m = BitMark(C!bit),
             cI + 1 < NumBits => k = "x" \/ k = BitMark(claim[cI + 1])
      PROVE  \A j \in DOMAIN marks' : Written(j)'
  <2>1. Len(marks') = l + 2
    <3>1. << m, k >> \in Seq(Marks) /\ Len(<< m, k >>) = 2
      OBVIOUS
    <3> QED
      BY <1>2, <1>5, <3>1, ConcatProperties
  <2>2. cI < NumBits /\ cI + 1 < NumBits
    BY <1>1, <1>2, <2>1
  <2>3. claimStart + (l + 1) - 1 = cI /\ claimStart + (l + 2) - 1 = cI + 1
    BY <1>1, <1>2
  <2> SUFFICES ASSUME NEW j \in DOMAIN marks'
               PROVE  marks'[j] = "x" \/ marks'[j] = BitMark(claim[claimStart + j - 1])
    BY <1>1 DEF Written, BitMark
  <2>4. CASE j \in DOMAIN marks /\ marks'[j] = marks[j]
    BY <2>4 DEF Written
  <2>5. CASE j = l + 1 /\ marks'[j] = m
    BY <1>3, <1>5, <2>2, <2>3, <2>5
  <2>6. CASE j = l + 2 /\ marks'[j] = k
    BY <1>5, <2>2, <2>3, <2>6
  <2> QED
    BY <1>2, <1>5, <2>4, <2>5, <2>6, TwoWritten
<1>6. ASSUME marks' = marks
      PROVE  \A j \in DOMAIN marks' : Written(j)'
  BY <1>1, <1>6 DEF Written, BitMark
<1>7. /\ A!Mark(C!bit = 0, 0) \in Marks /\ A!Mark(C!bit = 1, 1) \in Marks
      /\ A!Mark(TRUE, C!bit) \in Marks /\ "x" \in Marks
  BY DEF A!Mark, Marks
<1>8. /\ A!Mark(C!bit = 0, 0) \in {"x", BitMark(C!bit)}
      /\ A!Mark(C!bit = 1, 1) \in {"x", BitMark(C!bit)}
      /\ A!Mark(TRUE, C!bit) \in {"x", BitMark(C!bit)}
  BY DEF A!Mark, BitMark
<1>9. CASE C!Status = "mute" /\ PassOne /\ cI' = cI /\ marks' = marks
  BY <1>6, <1>9
<1>10. CASE marks' = Append(marks, A!Mark(C!bit = 0, 0))
  BY <1>4, <1>7, <1>8, <1>10
<1>11. CASE marks' = Append(marks, A!Mark(TRUE, C!bit))
  BY <1>4, <1>7, <1>8, <1>11
<1>12. CASE marks' = Append(marks, "x")
  BY <1>4, <1>7, <1>12
<1>13. CASE marks' = Append(marks, A!Mark(C!bit = 1, 1))
  BY <1>4, <1>7, <1>8, <1>13
<1>14. CASE \E next \in IF cI + 1 < NumBits THEN {claim[cI + 1]} ELSE {0, 1} :
              marks' = marks \o <<A!Mark(C!bit = 1, 1), A!Mark(next = A!InnerBit, A!InnerBit)>>
  <2>1. PICK next : /\ cI + 1 < NumBits => next = claim[cI + 1]
                    /\ marks' = marks \o <<A!Mark(C!bit = 1, 1),
                                           A!Mark(next = A!InnerBit, A!InnerBit)>>
    BY <1>14
  <2>2. PICK m, k : /\ m = A!Mark(C!bit = 1, 1) /\ k = A!Mark(next = A!InnerBit, A!InnerBit)
                    /\ marks' = marks \o << m, k >>
    BY <2>1
  <2>3. k \in Marks /\ (k = "x" \/ k = BitMark(next))
    BY <2>2 DEF A!Mark, Marks, BitMark
  <2> QED
    BY <1>5, <1>7, <1>8, <2>1, <2>2, <2>3
<1> QED
  BY <1>9, <1>10, <1>11, <1>12, <1>13, <1>14 DEF AnalysisMove

LEMMA WrittenStep ==
  /\ KCInv /\ AnalysisInv /\ AnalysisInv' /\ AnalysisKeepsBounds' /\ WrittenInv
  /\ [KCNext]_allVars
  => WrittenInv'
<1> SUFFICES ASSUME KCInv, AnalysisInv, AnalysisInv', AnalysisKeepsBounds', WrittenInv,
                    [KCNext]_allVars
             PROVE  WrittenInv'
  OBVIOUS
<1>1. CASE StartChecking
  <2>1. phase' = "check" /\ claimStart' \in FirstPositiveBitIndex(claim')
    BY <1>1 DEF StartChecking
  <2> QED
    BY <2>1 DEF WrittenInv, FirstPositiveBitIndex
<1>2. ASSUME claim' = claim, claimStart' = claimStart
      PROVE  /\ claimStart' \in FirstPositiveBitIndex(claim)'
             /\ marks' = marks => \A j : Written(j) => Written(j)'
  BY <1>2 DEF WrittenInv, FirstPositiveBitIndex, Written, BitMark
<1>3. CASE Encode \/ Check \/ ReturnNoMarks \/ RsCheck \/ RsCheckNoMarks
  <2>1. claim' = claim /\ claimStart' = claimStart /\ phase' # "analyse"
    <3>1. CASE Encode
      BY <3>1 DEF Encode, checkerVars
    <3>2. CASE Check
      BY <3>2, CheckMoves DEF Given
    <3>3. CASE ReturnNoMarks \/ RsCheck \/ RsCheckNoMarks
      BY <3>3 DEF ReturnNoMarks, RsCheck, RsCheckNoMarks, checkerVars
    <3> QED
      BY <1>3, <3>1, <3>2, <3>3
  <2> QED
    BY <1>2, <2>1 DEF WrittenInv
<1>4. CASE StartAnalysing
  <2>1. /\ claim' = claim /\ claimStart' = claimStart /\ marks' = marks /\ marks = <<"1">>
    BY <1>4 DEF StartAnalysing, AnalysisInv
  <2>2. claimStart # -1 => claim[claimStart] = 1 /\ claimStart \in Int
    BY NumBitsAssumption DEF WrittenInv, FirstPositiveBitIndex
  <2>3. claimStart # -1 => \A j \in DOMAIN marks : Written(j)
    <3> SUFFICES ASSUME claimStart # -1, NEW j \in DOMAIN marks
                 PROVE  Written(j)
      OBVIOUS
    <3>1. j = 1 /\ marks[j] = "1"
      BY <2>1
    <3>2. claimStart + j - 1 = claimStart
      BY <2>2, <3>1
    <3> QED
      BY <2>2, <3>1, <3>2 DEF Written, BitMark
  <2> QED
    BY <1>2, <2>1, <2>3 DEF WrittenInv
<1>5. CASE Analyse
  <2>1. /\ UNCHANGED Given /\ phase = "analyse" /\ phase' = "analyse" /\ AnalysisMove
    BY <1>5, AnalysisMoves
  <2>2. claim' = claim /\ claimStart' = claimStart /\ C!nBits' = C!nBits
    BY <2>1 DEF Given, C!nBits
  <2>3. /\ ClaimTyped /\ marks \in Seq(Marks) /\ Len(marks) = cI - claimStart
        /\ marks' \in Seq(Marks) /\ Len(marks') <= C!nBits
    BY <2>1, <2>2 DEF KCInv, AnalysisInv, MarksInv, AnalysisKeepsBounds
  <2>4. claimStart # -1 => \A j \in DOMAIN marks' : Written(j)'
    BY <2>1, <2>3, WritesItsBits DEF WrittenInv
  <2> QED
    BY <1>2, <2>1, <2>2, <2>4 DEF WrittenInv
<1>6. CASE Rest \/ UNCHANGED allVars
  <2>1. claim' = claim /\ claimStart' = claimStart /\ marks' = marks /\ phase' = phase
    BY <1>6 DEF Rest, allVars, checkerVars
  <2> QED
    BY <1>2, <2>1 DEF WrittenInv
<1> QED
  BY <1>1, <1>3, <1>4, <1>5, <1>6 DEF KCNext

LEMMA MarksAreBits == KCSpec => []WrittenInv
<1>1. KCInit => WrittenInv
  BY DEF KCInit, Init, WrittenInv, FirstPositiveBitIndex
<1>2. /\ KCInv /\ AnalysisInv /\ AnalysisInv' /\ AnalysisKeepsBounds' /\ WrittenInv
      /\ [KCNext]_allVars
      => WrittenInv'
  BY WrittenStep
<1> QED
  BY <1>1, <1>2, MarksFollowTheGraph, AnalysisStaysInBounds, PTL DEF KCSpec

(* The analysed bits, in whole bytes, differ from the key where they are   *)
(* marked at most                                                          *)
MarkedAt(bytes, k) == \E j \in Marked : ByteBits * bytes - C!nBits + j - 1 = k

LEMMA ReadsLikeTheKey ==
  ASSUME ClaimTyped, WrittenInv, phase = "analyse", claimStart \in 0..(PayloadBits - 1),
         marks \in Seq(Marks), Len(marks) = C!nBits,
         NEW bytes \in Nat, bytes = BytesFor(C!nBits),
         NEW shift \in Nat, shift = NumBits - ByteBits * bytes
  PROVE  /\ DOMAIN SequenceFromBitArr(CorrectedMarks) = Block(bytes)
         /\ \A k \in Block(bytes) :
              SequenceFromBitArr(CorrectedMarks)[k] # claim[shift + k] => MarkedAt(bytes, k)
<1>1. PICK nb \in Nat : nb = C!nBits /\ nb = NumBits - claimStart
  BY NumBitsAssumption DEF ClaimTyped, C!nBits
<1>2. PICK size \in Nat : size = ByteBits * bytes /\ Block(bytes) = 0..(size - 1)
  BY BlockBits
<1>3. PICK zeros \in Nat : zeros = size - nb
  <2>1. ByteBits * BytesFor(nb) - nb \in 0..(ByteBits - 1)
    BY BytesForBits
  <2>2. BytesFor(nb) = bytes
    BY <1>1
  <2>3. size - nb \in 0..(ByteBits - 1)
    BY <1>2, <2>1, <2>2
  <2>4. size - nb \in Nat
    BY <2>3
  <2> QED
    BY <2>4
<1>4. claimStart \in Nat /\ NumBits \in Nat /\ shift = NumBits - size /\ shift + zeros = claimStart
  <2>1. claimStart \in Nat /\ NumBits \in Nat
    BY NumBitsAssumption, KeyCheckAssumption, ByteBitsAssumption DEF PayloadBits, ClaimTyped
  <2>2. nb = NumBits - claimStart /\ zeros = size - nb /\ shift = NumBits - size
    BY <1>1, <1>2, <1>3
  <2>3. shift + zeros = claimStart
    BY ONLY <2>1, <2>2, size \in Nat, nb \in Nat, zeros \in Nat, shift \in Nat
  <2> QED
    BY <2>1, <2>2, <2>3
<1>5. claim[claimStart] = 1 /\ \A j \in 0..(claimStart - 1) : claim[j] = 0
  BY <1>4 DEF WrittenInv, FirstPositiveBitIndex
<1>6. ASSUME NEW j \in 1..nb
      PROVE  /\ claimStart + j - 1 \in 0..(NumBits - 1) /\ claim[claimStart + j - 1] \in {0, 1}
             /\ CorrectedMarks[j] \in {0, 1}
             /\ CorrectedMarks[j] # claim[claimStart + j - 1] => j \in Marked
  <2>1. PICK p \in 0..(NumBits - 1) : p = claimStart + j - 1
    BY <1>1, <1>4
  <2>2. claim[p] \in {0, 1}
    BY DEF ClaimTyped, Bit
  <2>3. j \in DOMAIN marks
    BY <1>1, LenProperties
  <2>4. CorrectedMarks[j] = IF p >= PayloadBits THEN claim[p]
                            ELSE IF marks[j] = "x" THEN 1 - claim[p]
                            ELSE IF marks[j] = "1" THEN 1 ELSE 0
    BY <1>1, <2>1 DEF CorrectedMarks
  <2>5. CorrectedMarks[j] \in {0, 1}
    BY <2>2, <2>4
  <2>6. marks[j] = "x" \/ marks[j] = BitMark(claim[p])
    <3>1. claimStart # -1
      BY <1>4
    <3>2. Written(j)
      BY <2>3, <3>1 DEF WrittenInv
    <3> QED
      BY <2>1, <3>2 DEF Written
  <2>7. CorrectedMarks[j] # claim[p] => marks[j] = "x"
    BY <2>2, <2>4, <2>6 DEF BitMark
  <2> QED
    BY <2>1, <2>2, <2>3, <2>5, <2>7 DEF Marked
<1>7. Len(CorrectedMarks) = nb
  <2>1. CorrectedMarks \in [1..nb -> {0, 1}]
    BY <1>1, <1>6 DEF CorrectedMarks
  <2>2. CorrectedMarks \in Seq({0, 1})
    BY <2>1
  <2>3. PICK l \in Nat : l = Len(CorrectedMarks) /\ DOMAIN CorrectedMarks = 1..l
    BY <2>2, LenProperties
  <2>4. 1..l = 1..nb
    BY <2>1, <2>3
  <2>5. l = nb
    <3>1. l \in 1..nb \/ l = 0
      BY <2>4
    <3>2. nb \in 1..l \/ nb = 0
      BY <2>4
    <3> QED
      BY <3>1, <3>2
  <2> QED
    BY <2>3, <2>5
<1>8. SequenceFromBitArr(CorrectedMarks)
        = [k \in 0..(size - 1) |-> IF k < zeros THEN 0 ELSE CorrectedMarks[k - zeros + 1]]
  BY <1>1, <1>2, <1>3, <1>7 DEF SequenceFromBitArr
<1>9. ASSUME NEW k \in Block(bytes), SequenceFromBitArr(CorrectedMarks)[k] # claim[shift + k]
      PROVE  MarkedAt(bytes, k)
  <2>1. k \in 0..(size - 1)
    BY <1>2, <1>9
  <2>2. ~(k < zeros)
    <3>1. k < zeros => shift + k \in 0..(claimStart - 1)
      BY <1>4, <2>1
    <3> QED
      BY <1>5, <1>8, <1>9, <2>1, <3>1
  <2>3. PICK j \in 1..nb : j = k - zeros + 1 /\ shift + k = claimStart + j - 1
    BY <1>3, <1>4, <2>1, <2>2
  <2>4. SequenceFromBitArr(CorrectedMarks)[k] = CorrectedMarks[j]
    BY <1>8, <2>1, <2>2, <2>3
  <2>5. j \in Marked
    BY <1>6, <1>9, <2>3, <2>4
  <2>6. ByteBits * bytes - C!nBits + j - 1 = k
    <3>1. size - nb + j - 1 = k
      BY <1>3, <1>4, <2>1, <2>3
    <3> QED
      BY <1>1, <1>2, <3>1
  <2> QED
    BY <2>5, <2>6 DEF MarkedAt
<1> QED
  BY <1>2, <1>8, <1>9

(* The payload without its leading bytes of zeros equals the payload and   *)
(* is not marked                                                           *)
LEMMA PayloadIsTheKey ==
  ASSUME ClaimTyped, claimStart \in FirstPositiveBitIndex(claim),
         claimStart \in 0..(PayloadBits - 1), NEW count \in Nat,
         NEW shift \in Nat, shift = PayloadBits - ByteBits * count, shift <= claimStart,
         finalData # NULL, DOMAIN finalData = Block(count),
         \A k \in Block(count) : finalData[k] = claim[shift + k]
  PROVE  BinarySequenceEqual(Payload, finalData) /\ FinalMarks = {}
<1>1. PICK size \in Nat : /\ size = ByteBits * count /\ Block(count) = 0..(size - 1)
                          /\ Size(finalData) = size
  BY BlockBits
<1>2. PICK bits \in Nat : bits = PayloadBits /\ shift = bits - size
  BY <1>1, NumBitsAssumption, KeyCheckAssumption, ByteBitsAssumption DEF PayloadBits
<1>3. DOMAIN Payload = 0..(bits - 1) /\ Size(Payload) = bits
  <2>1. 0 \in Int /\ bits - 1 \in Int
    OBVIOUS
  <2>2. Cardinality(0..(bits - 1)) = bits
    BY <2>1, FS_Interval
  <2> QED
    BY <1>2, <2>2 DEF Payload, Size
<1>4. BinarySequenceEqual(Payload, finalData)
  <2> SUFFICES ASSUME NEW k \in 0..(bits - 1), k \in 0..(size - 1)
               PROVE  Payload[bits - k - 1] = finalData[size - k - 1]
    BY <1>1, <1>3 DEF BinarySequenceEqual
  <2>1. bits - k - 1 \in 0..(bits - 1) /\ size - k - 1 \in 0..(size - 1)
    OBVIOUS
  <2>2. shift + (size - k - 1) = bits - k - 1
    BY <1>2
  <2>3. Payload[bits - k - 1] = claim[bits - k - 1]
    BY <1>2, <2>1 DEF Payload
  <2>4. finalData[size - k - 1] = claim[shift + (size - k - 1)]
    BY <1>1, <2>1
  <2> QED
    BY <2>2, <2>3, <2>4
<1>5. PICK zeros \in 0..(size - 1) : shift + zeros = claimStart
  <2>1. claimStart - shift \in 0..(size - 1) /\ shift + (claimStart - shift) = claimStart
    BY <1>2
  <2> QED
    BY <2>1
<1>6. claim[claimStart] = 1 /\ \A j \in 0..(claimStart - 1) : claim[j] = 0
  BY <1>2 DEF FirstPositiveBitIndex
<1>7. LeftZeros(finalData) = zeros
  <2>1. /\ zeros \in DOMAIN finalData /\ finalData[zeros] = 1
        /\ \A k \in 0..(zeros - 1) : finalData[k] = 0
    <3>1. finalData[zeros] = 1
      BY <1>1, <1>5, <1>6
    <3>2. ASSUME NEW k \in 0..(zeros - 1)
          PROVE  finalData[k] = 0
      <4>1. k \in 0..(size - 1) /\ shift + k \in 0..(claimStart - 1)
        BY <1>5
      <4> QED
        BY <1>1, <1>6, <4>1
    <3> QED
      BY <1>1, <3>1, <3>2
  <2>2. ASSUME NEW z \in DOMAIN finalData, finalData[z] = 1,
               \A k \in 0..(z - 1) : finalData[k] = 0
        PROVE  z = zeros
    <3>1. z \in 0..(size - 1)
      BY <1>1, <2>2
    <3>2. ~(z < zeros)
      <4>1. z < zeros => z \in 0..(zeros - 1)
        BY <3>1
      <4> QED
        BY <2>1, <2>2, <4>1
    <3>3. ~(zeros < z)
      <4>1. zeros < z => zeros \in 0..(z - 1)
        BY <3>1
      <4> QED
        BY <2>1, <2>2, <4>1
    <3> QED
      BY <3>1, <3>2, <3>3
  <2> QED
    BY <2>1, <2>2 DEF LeftZeros
<1>8. FinalMarks = {}
  <2> SUFFICES ASSUME NEW j \in 0..(bits - claimStart - 1), zeros + j \in 0..(size - 1)
               PROVE  claim[claimStart + j] = finalData[zeros + j]
    BY <1>1, <1>2, <1>7 DEF FinalMarks
  <2>1. shift + (zeros + j) = claimStart + j
    BY <1>2, <1>5
  <2> QED
    BY <1>1, <2>1
<1> QED
  BY <1>4, <1>8

(* What watermark_rs_check leaves of the graph's own key                   *)
IsCorrected ==
  \E count, shift \in Nat :
    /\ shift = PayloadBits - ByteBits * count /\ shift <= claimStart
    /\ finalData # NULL /\ DOMAIN finalData = Block(count)
    /\ \A k \in Block(count) : finalData[k] = claim[shift + k]

LEMMA CorrectedPasses ==
  /\ ClaimTyped /\ claimStart \in FirstPositiveBitIndex(claim)
  /\ claimStart \in 0..(PayloadBits - 1) /\ IsCorrected
  => finalData # NULL /\ BinarySequenceEqual(Payload, finalData) /\ FinalMarks = {}
<1> SUFFICES ASSUME ClaimTyped, claimStart \in FirstPositiveBitIndex(claim),
                    claimStart \in 0..(PayloadBits - 1), IsCorrected
             PROVE  finalData # NULL /\ BinarySequenceEqual(Payload, finalData) /\ FinalMarks = {}
  OBVIOUS
<1>1. PICK count \in Nat, shift \in Nat :
        /\ shift = PayloadBits - ByteBits * count /\ shift <= claimStart
        /\ finalData # NULL /\ DOMAIN finalData = Block(count)
        /\ \A k \in Block(count) : finalData[k] = claim[shift + k]
  BY DEF IsCorrected
<1> QED
  BY <1>1, PayloadIsTheKey

(* The whole bytes that n_bits take are bytes of the key, more than the    *)
(* parity                                                                  *)
LEMMA ReadBytes ==
  ASSUME ClaimTyped, claimStart \in 0..(PayloadBits - 1)
  PROVE  \E bytes, shift \in Nat :
           /\ bytes = BytesFor(C!nBits) /\ shift = NumBits - ByteBits * bytes
           /\ ParityBytes < bytes /\ shift <= claimStart
           /\ bytes - ParityBytes \in Nat
           /\ shift = PayloadBits - ByteBits * (bytes - ParityBytes)
<1>1. PICK bits \in Nat, parity \in Nat :
        /\ bits = NumBits /\ parity = ParityBytes
        /\ bits % ByteBits = 0 /\ PayloadBits = bits - ByteBits * parity
  BY NumBitsAssumption, KeyCheckAssumption DEF PayloadBits
<1>2. PICK first \in Nat : first = claimStart /\ ByteBits * parity < bits - first
  BY <1>1, ByteBitsAssumption
<1>3. PICK nb \in Nat : nb = C!nBits /\ nb = bits - first
  BY <1>1, <1>2, NumBitsAssumption DEF ClaimTyped, C!nBits
<1>4. PICK bytes \in Nat : bytes = BytesFor(nb)
  BY BytesForBits
<1>5. ByteBits * bytes - nb \in 0..(ByteBits - 1) /\ ByteBits * bytes \in Nat
  BY <1>4, BytesForBits, BlockBits
<1>6. PICK most \in Nat : bits = ByteBits * most
  <2>1. PICK w \in Nat \ {0} : w = ByteBits
    BY ByteBitsAssumption
  <2>2. bits \div w \in Nat /\ bits = w * (bits \div w) + (bits % w)
    BY SymbolsAndBits
  <2>3. bits % w = 0
    BY <1>1, <2>1
  <2>4. w * (bits \div w) \in Int
    BY <2>2
  <2>5. bits = w * (bits \div w)
    BY <2>2, <2>3, <2>4
  <2> QED
    BY <2>1, <2>2, <2>5
<1>7. bytes <= most
  <2>1. nb <= ByteBits * most
    BY <1>2, <1>3, <1>6
  <2> QED
    BY <1>4, <2>1, BytesForBits
<1>8. parity < bytes
  BY <1>2, <1>3, <1>4, BytesForBits
<1>9. PICK shift \in Nat : shift = bits - ByteBits * bytes /\ shift <= first
  <2>1. ByteBits * bytes <= ByteBits * most
    BY <1>7, ByteBitsAssumption
  <2>2. bits - ByteBits * bytes \in Nat
    BY <1>5, <1>6, <2>1
  <2>3. bits - ByteBits * bytes <= first
    BY <1>2, <1>3, <1>5
  <2> QED
    BY <2>2, <2>3
<1>10. ByteBits * (bytes - parity) = ByteBits * bytes - ByteBits * parity
  BY ByteBitsAssumption
<1>11. PICK count \in Nat : count = bytes - parity /\ shift = PayloadBits - ByteBits * count
  <2>1. bytes - parity \in Nat
    BY <1>8
  <2>2. ByteBits * parity \in Nat
    BY ByteBitsAssumption
  <2>3. shift = PayloadBits - ByteBits * (bytes - parity)
    BY <1>1, <1>5, <1>9, <1>10, <2>2
  <2> QED
    BY <2>1, <2>3
<1> QED
  BY <1>1, <1>2, <1>3, <1>4, <1>8, <1>9, <1>11

LEMMA MarkedAreFew ==
  ASSUME IntactInv, start \in FirstPositiveBitIndex(data),
         claimStart \in FirstPositiveBitIndex(claim), marks \in Seq(Marks),
         EachFaultCostsOneMark, phase = "analyse", A!Analysed, claim = data
  PROVE  IsFiniteSet(Marked) /\ Cardinality(Marked) <= Cardinality(removed)
<1>1. claimStart = start
  BY OneFirstBit
<1>2. Cardinality(Marked) <= Cardinality(Flipped(claim)) + Cardinality(removed)
  BY <1>1 DEF EachFaultCostsOneMark
<1>3. Flipped(claim) = {}
  BY DEF Flipped
<1>4. Cardinality(Flipped(claim)) = 0
  BY <1>3, FS_EmptySet
<1>5. IsFiniteSet(removed)
  BY LostAreFinite
<1>6. Cardinality(removed) \in Nat
  BY <1>5, FS_CardinalityType
<1>7. IsFiniteSet(Marked)
  <2>1. PICK l \in Nat : DOMAIN marks = 1..l
    BY LenProperties
  <2>2. 1 \in Int /\ l \in Int
    OBVIOUS
  <2>3. IsFiniteSet(1..l)
    BY <2>2, FS_Interval
  <2>4. Marked \subseteq 1..l
    BY <2>1 DEF Marked
  <2> QED
    BY <2>3, <2>4, FS_Subset
<1> QED
  BY <1>2, <1>4, <1>6, <1>7

LEMMA RsCorrects ==
  ASSUME KCInv, AnalysisInv, VerdictInv, WrittenInv, AnalysisKeepsBounds,
         EachFaultCostsOneMark, RsCheck, claim = data,
         Cardinality(removed) <= ParityBytes \div 2
  PROVE  IsCorrected'
<1>1. /\ phase = "analyse" /\ A!Analysed /\ claimStart \in 0..(PayloadBits - 1)
      /\ claim' = claim /\ claimStart' = claimStart
  BY DEF RsCheck, checkerVars
<1>2. /\ IntactInv /\ ClaimTyped /\ marks \in Seq(Marks) /\ Len(marks) = C!nBits
      /\ start \in FirstPositiveBitIndex(data)
  BY <1>1 DEF KCInv, AnalysisInv, MarksInv, AnalysisKeepsBounds, VerdictInv
<1>3. IsFiniteSet(Marked) /\ Cardinality(Marked) <= ParityBytes \div 2
  <2>1. IsFiniteSet(Marked) /\ Cardinality(Marked) <= Cardinality(removed)
    BY <1>1, <1>2, MarkedAreFew DEF WrittenInv
  <2>2. IsFiniteSet(removed)
    BY <1>2, LostAreFinite
  <2>3. Cardinality(removed) \in Nat /\ Cardinality(Marked) \in Nat
    BY <2>1, <2>2, FS_CardinalityType
  <2>4. ParityBytes \div 2 \in Int
    BY KeyCheckAssumption
  <2> QED
    BY <2>1, <2>3, <2>4
<1>4. PICK bytes \in Nat, shift \in Nat :
        /\ bytes = BytesFor(C!nBits) /\ shift = NumBits - ByteBits * bytes
        /\ ParityBytes < bytes /\ shift <= claimStart
        /\ bytes - ParityBytes \in Nat
        /\ shift = PayloadBits - ByteBits * (bytes - ParityBytes)
  BY <1>1, <1>2, ReadBytes
<1> DEFINE read == SequenceFromBitArr(CorrectedMarks)
           meant == [k \in DOMAIN read |-> claim[NumBits - Size(read) + k]]
           place == [j \in Marked |-> ByteBits * bytes - C!nBits + j - 1]
<1>5. finalData' \in RemoveRsCode8(read, meant, ParityBytes)
  BY DEF RsCheck
<1>6. /\ DOMAIN read = Block(bytes)
      /\ \A k \in Block(bytes) : read[k] # claim[shift + k] => MarkedAt(bytes, k)
  BY <1>1, <1>2, <1>4, ReadsLikeTheKey
<1>7. Size(read) = ByteBits * bytes
  BY <1>6, BlockBits
<1>8. \A k \in Block(bytes) : meant[k] = claim[shift + k]
  BY <1>4, <1>6, <1>7
<1>9. \A k \in Block(bytes) : read[k] # meant[k] => \E j \in Marked : place[j] = k
  BY <1>6, <1>8 DEF MarkedAt
<1> HIDE DEF read, meant, place
<1>10. ParityBytes \in Nat /\ ByteBits \in Nat \ {0}
  BY KeyCheckAssumption, ByteBitsAssumption
<1>11. \A corrected \in RemoveRsCode8(read, meant, ParityBytes) :
         /\ corrected # NULL /\ DOMAIN corrected = Block(bytes - ParityBytes)
         /\ \A k \in Block(bytes - ParityBytes) : corrected[k] = meant[k]
  <2>1. PICK count \in Nat \ {0}, parity \in Nat :
          parity = ParityBytes /\ count = bytes - parity /\ count + parity = bytes
    BY <1>4, <1>10
  <2>2. RemoveRsCode8(read, meant, parity) = RemoveRsCode(read, meant, count, parity, ByteBits)
    <3>1. (ByteBits * bytes) \div ByteBits = bytes
      BY BlockBits
    <3> QED
      BY <1>7, <2>1, <3>1 DEF RemoveRsCode8
  <2>3. Block(bytes) = 0..((count + parity) * ByteBits - 1)
    <3>1. (count + parity) * ByteBits = ByteBits * bytes
      BY <1>10, <2>1
    <3> QED
      BY <3>1 DEF Block
  <2>4. BytesFor(count * ByteBits) = count /\ Block(count) = 0..(count * ByteBits - 1)
    <3>1. count * ByteBits = ByteBits * count
      BY <1>10
    <3> QED
      BY <3>1, BlockBits DEF Block
  <2>5. Cardinality(Marked) <= parity \div 2
    BY <1>3, <2>1
  <2>6. \A corrected \in RemoveRsCode(read, meant, count, parity, ByteBits) :
           /\ corrected # NULL /\ DOMAIN corrected = Block(BytesFor(count * ByteBits))
           /\ \A k \in 0..(count * ByteBits - 1) : corrected[k] = meant[k]
    <3>1. \A k \in 0..((count + parity) * ByteBits - 1) :
            read[k] # meant[k] => \E j \in Marked : place[j] = k
      BY <1>9, <2>3
    <3>2. PICK w \in Nat \ {0} : w = ByteBits
      BY <1>10
    <3>3. IsFiniteSet(Marked)
      BY <1>3
    <3> QED
      BY <2>5, <3>1, <3>2, <3>3, FewFaultsAreCorrected
  <2> QED
    BY <2>1, <2>2, <2>4, <2>6
<1>12. PICK count \in Nat : count = bytes - ParityBytes
  BY <1>4
<1>13. /\ finalData' # NULL /\ DOMAIN finalData' = Block(count)
       /\ \A k \in Block(count) : finalData'[k] = meant[k]
  BY <1>5, <1>11, <1>12
<1>14. Block(count) \subseteq Block(bytes)
  <2>1. ByteBits * count <= ByteBits * bytes /\ ByteBits * count \in Nat
    BY <1>10, <1>12, ByteBitsAssumption
  <2>2. ByteBits * bytes \in Nat
    BY ByteBitsAssumption
  <2> QED
    BY <2>1, <2>2, BlockBits
<1>15. \A k \in Block(count) : finalData'[k] = claim'[shift + k]
  BY <1>1, <1>8, <1>13, <1>14
<1>16. shift = PayloadBits - ByteBits * count /\ shift <= claimStart'
  BY <1>1, <1>4, <1>12
<1> QED
  BY <1>13, <1>15, <1>16 DEF IsCorrected

(***************************************************************************)
(* When the sizes differ there is nothing to correct.  For the key of the  *)
(* graph this takes a lost forward edge: its first positive bit is that of *)
(* the key encoded, and backedges are not counted (SizesAgree).            *)
(***************************************************************************)
NoMarksInv == phase \in {"no marks", "crashed"} /\ claim = data => LostForward

LEMMA NoMarksStep ==
  KCInv /\ VerdictInv /\ WrittenInv /\ NoMarksInv /\ [KCNext]_allVars => NoMarksInv'
<1> SUFFICES ASSUME KCInv, VerdictInv, WrittenInv, NoMarksInv, [KCNext]_allVars
             PROVE  NoMarksInv'
  OBVIOUS
<1>1. CASE Encode \/ StartChecking \/ Check \/ StartAnalysing \/ Analyse \/ RsCheck
  <2>1. phase' \notin {"no marks", "crashed"}
    BY <1>1 DEF Encode, StartChecking, Check, StartAnalysing, Analyse, RsCheck
  <2> QED
    BY <2>1 DEF NoMarksInv
<1>2. CASE ReturnNoMarks
  <2>1. /\ phase = "check" /\ ~C!SizeMatches
        /\ claim' = claim /\ data' = data /\ removed' = removed
    BY <1>2 DEF ReturnNoMarks, vars
  <2>2. /\ IntactInv /\ ClaimTyped /\ start \in FirstPositiveBitIndex(data)
        /\ claimStart \in FirstPositiveBitIndex(claim)
    BY <2>1 DEF KCInv, VerdictInv, WrittenInv
  <2>3. claim = data => ~KeptForward
    BY <2>1, <2>2, SizesAgree, OneFirstBit
  <2>4. \A e \in removed : e[1] \in Int /\ e[2] \in Int
    BY <2>2 DEF IntactInv, IntactShape, Intact
  <2>5. ~KeptForward => LostForward
    BY <2>4 DEF KeptForward, LostForward
  <2> QED
    BY <2>1, <2>3, <2>5 DEF NoMarksInv, LostForward
<1>3. CASE RsCheckNoMarks \/ Rest \/ UNCHANGED allVars
  <2>1. /\ claim' = claim /\ data' = data /\ removed' = removed
        /\ phase' = phase \/ phase = "no marks"
    BY <1>3 DEF RsCheckNoMarks, Rest, allVars, checkerVars, vars
  <2> QED
    BY <2>1 DEF NoMarksInv, LostForward
<1> QED
  BY <1>1, <1>2, <1>3 DEF KCNext

LEMMA OnlyForwardEdgesLeaveNoMarks == KCSpec => []NoMarksInv
<1>1. KCInit => NoMarksInv
  BY DEF KCInit, NoMarksInv
<1>2. KCInv /\ VerdictInv /\ WrittenInv /\ NoMarksInv /\ [KCNext]_allVars => NoMarksInv'
  BY NoMarksStep
<1> QED
  BY <1>1, <1>2, VerdictsFollowTheKey, MarksAreBits, PTL DEF KCSpec

(* Marks that are corrected come of a graph with all its forward edges     *)
LEMMA CorrectionNeedsForwardEdges ==
  ASSUME KCInv, VerdictInv, WrittenInv, FaultsInv, phase = "analyse", claim = data
  PROVE  ~LostForward
<1>1. start \in FirstPositiveBitIndex(data) /\ claimStart \in FirstPositiveBitIndex(claim)
  BY DEF VerdictInv, WrittenInv
<1>2. KeptForward
  BY <1>1, OneFirstBit DEF FaultsInv
<1>3. IntactInv
  BY DEF KCInv
<1>4. \A e \in removed : e[1] \in Int /\ e[2] \in Int
  BY <1>3 DEF IntactInv, IntactShape, Intact
<1> QED
  BY <1>2, <1>4 DEF KeptForward, LostForward

LEMMA RsForgivesStep ==
  /\ KCInv /\ AnalysisInv /\ VerdictInv /\ WrittenInv /\ FaultsInv /\ AnalysisKeepsBounds
  /\ EachFaultCostsOneMark /\ KCInv' /\ WrittenInv' /\ NoMarksInv'
  /\ RsForgivesLostBackedges /\ [KCNext]_allVars
  => RsForgivesLostBackedges'
<1> SUFFICES ASSUME KCInv, AnalysisInv, VerdictInv, WrittenInv, FaultsInv,
                    AnalysisKeepsBounds, EachFaultCostsOneMark, KCInv', WrittenInv',
                    NoMarksInv', RsForgivesLostBackedges, [KCNext]_allVars
             PROVE  RsForgivesLostBackedges'
  OBVIOUS
<1>1. CASE RsCheck
  <2> SUFFICES ASSUME claim' = data', Cardinality(removed') <= ParityBytes \div 2
               PROVE  /\ ~LostForward'
                      /\ (finalData # NULL /\ BinarySequenceEqual(Payload, finalData)
                            /\ FinalMarks = {})'
    <3>1. phase' = "corrected"
      BY <1>1 DEF RsCheck
    <3> QED
      BY <3>1 DEF RsForgivesLostBackedges
  <2>1. /\ claim' = claim /\ claimStart' = claimStart /\ data' = data /\ removed' = removed
        /\ claimStart \in 0..(PayloadBits - 1) /\ phase = "analyse"
    BY <1>1 DEF RsCheck, checkerVars, vars
  <2>2. IsCorrected'
    BY <1>1, <2>1, RsCorrects
  <2>3. (/\ ClaimTyped /\ claimStart \in FirstPositiveBitIndex(claim)
         /\ claimStart \in 0..(PayloadBits - 1) /\ IsCorrected)'
        => (finalData # NULL /\ BinarySequenceEqual(Payload, finalData) /\ FinalMarks = {})'
    BY CorrectedPasses, PTL
  <2>4. ClaimTyped' /\ (claimStart \in FirstPositiveBitIndex(claim))'
    BY DEF KCInv, WrittenInv
  <2>5. (claimStart \in 0..(PayloadBits - 1))'
    BY <2>1 DEF PayloadBits
  <2>6. ~LostForward'
    BY <2>1, CorrectionNeedsForwardEdges DEF LostForward
  <2> QED
    BY <2>2, <2>3, <2>4, <2>5, <2>6
<1>2. CASE RsCheckNoMarks
  <2>1. phase' = "crashed"
    BY <1>2 DEF RsCheckNoMarks
  <2> QED
    BY <2>1 DEF RsForgivesLostBackedges, NoMarksInv
<1>3. CASE Encode \/ StartChecking \/ Check \/ StartAnalysing \/ ReturnNoMarks \/ Analyse
  <2>1. phase' \notin {"corrected", "crashed"}
    <3>1. CASE Encode
      BY <3>1 DEF Encode
    <3>2. CASE StartChecking
      BY <3>2 DEF StartChecking
    <3>3. CASE Check
      BY <3>3 DEF Check
    <3>4. CASE StartAnalysing
      BY <3>4 DEF StartAnalysing
    <3>5. CASE ReturnNoMarks
      BY <3>5 DEF ReturnNoMarks
    <3>6. CASE Analyse
      BY <3>6 DEF Analyse
    <3> QED
      BY <1>3, <3>1, <3>2, <3>3, <3>4, <3>5, <3>6
  <2> QED
    BY <2>1 DEF RsForgivesLostBackedges
<1>4. CASE Rest \/ UNCHANGED allVars
  <2>1. /\ phase' = phase /\ claim' = claim /\ claimStart' = claimStart /\ data' = data
        /\ removed' = removed /\ finalData' = finalData
    BY <1>4 DEF Rest, allVars, checkerVars, vars
  <2>2. /\ Payload' = Payload /\ FinalMarks' = FinalMarks
        /\ (LostForward' <=> LostForward)
    BY <2>1 DEF Payload, FinalMarks, PayloadBits, LostForward
  <2> QED
    BY <2>1, <2>2 DEF RsForgivesLostBackedges
<1> QED
  BY <1>1, <1>2, <1>3, <1>4 DEF KCNext

(* As long as no more connections are lost than half the number of parity  *)
(* bytes, watermark_rs_check ends in one of two ways, for keys and parity  *)
(* of every size.  If none of them is a forward edge, the key of the graph *)
(* passes, whatever zeros it starts with, and no bit of it is marked in    *)
(* the end.  If one is, NULL is followed (checker.c:191-223,236,365-411).  *)
THEOREM LostBackedgesAreForgiven == KCSpec => []RsForgivesLostBackedges
<1>1. KCInit => RsForgivesLostBackedges
  BY DEF KCInit, RsForgivesLostBackedges
<1>2. /\ KCInv /\ AnalysisInv /\ VerdictInv /\ WrittenInv /\ FaultsInv /\ AnalysisKeepsBounds
      /\ EachFaultCostsOneMark /\ KCInv' /\ WrittenInv' /\ NoMarksInv'
      /\ RsForgivesLostBackedges /\ [KCNext]_allVars
      => RsForgivesLostBackedges'
  BY RsForgivesStep
<1> QED
  BY <1>1, <1>2, MarksHaveCauses, VerdictsFollowTheKey, MarksAreBits,
     AnalysisStaysInBounds, FaultsAreNotMultiplied, OnlyForwardEdgesLeaveNoMarks, PTL
     DEF KCSpec

=============================================================================
