------------------------------- MODULE Checker -------------------------------
(***************************************************************************)
(* watermark_check: does a graph that may have lost connections stand for  *)
(* a given key?  One action is one iteration of the loop over the nodes,   *)
(* by the status that watermark_check_get_bit gives the node.              *)
(***************************************************************************)
EXTENDS BackedgeStacks

CONSTANT NumBits                    \* total_number_of_bits of the key given

VARIABLES
  key, keyStart,                    \* data and starting_idx
  edges, numNodes,                  \* the graph, only read
  graphIdx, i,
  stack, history,
  position,                         \* UTILS_NODE.backedge_idx of each node
  verdict                           \* "none" until the function returns

fixed == <<key, keyStart, edges, numNodes>>

Nodes == 0..(numNodes - 1)
maxNumNodes == numNodes - 2
nBits == NumBits - keyStart

Unset == numNodes                   \* ULONG_MAX: above every stack count

(* The locals before the loop.  The C array history is not initialised;    *)
(* an entry is read only for a node with a position, which is set together *)
(* with it.                                                                *)
FirstStack ==
  [odd |-> StackPush(StackCreate(nBits), 0), even |-> StackCreate(nBits)]
FirstHistory == [v \in Nodes |-> 0]
FirstPosition == [v \in Nodes |-> IF v = 0 THEN 0 ELSE Unset]

(* MUTANT: the sizes are not compared *)
AnySize == TRUE

(* The number of bits the graph can stand for must be that of the key      *)
SizeMatches ==
  nBits = numNodes - 2 - Cardinality({v \in Nodes : HasForward(edges, v)})

-----------------------------------------------------------------------------
Looping == verdict = "none" /\ graphIdx < maxNumNodes

KeyBit(j) == IF j < NumBits THEN key[j] ELSE 0
bit == KeyBit(i)

OnlyHamiltonian(v) ==
  IF v = numNodes - 1
  THEN Successors(edges, v) = {}
  ELSE /\ Successors(edges, v) = {v + 1}
       /\ v = 0 \/ Cardinality(Predecessors(edges, v)) = 1

LastFourOnlyHamiltonian ==
  numNodes > 3 /\ \A v \in (numNodes - 4)..(numNodes - 1) : OnlyHamiltonian(v)

Possible == PossibleBackedges(graphIdx, bit)
CanHaveBackedge == HasPossibleBackedge(edges, stack[Possible], graphIdx)

(* The third test of the last condition has the sense the code gives it:   *)
(* that a backedge IS possible                                             *)
LooksLikeIf ==
  /\ CanHaveBackedge /\ bit = 1
  /\ \A u \in graphIdx..(graphIdx + 2) : OnlyHamiltonian(u)

(* watermark_check_get_bit *)
Status ==
  LET v == graphIdx
      back == BackedgeTargets(edges, v)
  IN  IF v > 1 /\ Connected(edges, v - 2, v) THEN "mute"
      ELSE IF Connected(edges, v, v + 2)
           THEN IF Connected(edges, v + 1, v + 2) THEN "forward0" ELSE "forward1"
      ELSE IF \E w \in back : (v - w) % 2 = 1 THEN "back1"
      ELSE IF back # {} THEN "back0"
      ELSE IF ~Connected(edges, v + 1, v + 2) THEN "forward1"
      ELSE IF LastFourOnlyHamiltonian /\ v = numNodes - 4 /\ bit = 1 THEN "forward0"
      ELSE IF LooksLikeIf THEN "forward0"
      ELSE "zero"

-----------------------------------------------------------------------------
(* MUTANT: the count of the wrong stack is remembered *)
SaveOwnCount ==
  LET own == OwnStack(graphIdx)
  IN  /\ position' = [position EXCEPT ![graphIdx] = stack[own].n]
      /\ stack' = [stack EXCEPT ![own] = StackPush(@, graphIdx)]
      /\ history' = [history EXCEPT ![graphIdx] = stack[own].n]

SaveStacks ==
  LET own == OwnStack(graphIdx)
  IN  /\ position' = [position EXCEPT ![graphIdx] = stack[own].n]
      /\ stack' = [stack EXCEPT ![own] = StackPush(@, graphIdx)]
      /\ history' = [history EXCEPT ![graphIdx] = stack[OtherStack(own)].n]

Goto(v, j) == graphIdx' = v /\ i' = j /\ UNCHANGED <<fixed, verdict>>

PassMute ==
  /\ Looping /\ Status = "mute"
  /\ SaveStacks
  /\ Goto(graphIdx + 1, i)

PassZero ==
  /\ Looping /\ Status = "zero" /\ bit = 0
  /\ SaveStacks
  /\ Goto(graphIdx + 1, i + 1)

(* MUTANT: the parity of the backedge is not compared *)
BackedgeInStack(w) == position[w] < stack[Possible].n

(* The bit the backedge stands for is that of the key, and its destination *)
(* is in the stack                                                         *)
BackedgeAgrees(w) ==
  /\ bit = (graphIdx - w) % 2
  /\ position[w] < stack[Possible].n

PassBackedge ==
  /\ Looping /\ Status \in {"back0", "back1"}
  /\ \E w \in BackedgeTargets(edges, graphIdx) :
       /\ BackedgeAgrees(w)
       /\ stack' = [stack EXCEPT ![Possible] = StackPopUntil(@, position[w]),
                                 ![OtherStack(Possible)] = StackPopUntil(@, history[w])]
  /\ UNCHANGED <<history, position>>
  /\ Goto(graphIdx + 1, i + 1)

(* The bit of the node inside the forward edge, read with it unless the    *)
(* key ends before                                                         *)
InnerBit == IF Status = "forward1" THEN 1 ELSE 0
ForwardAgrees == bit = 1 /\ (i # NumBits - 1 => KeyBit(i + 1) = InnerBit)

(* MUTANT: the node inside the forward edge is visited again *)
PassForwardOnce ==
  /\ Looping /\ Status \in {"forward0", "forward1"} /\ ForwardAgrees
  /\ SaveStacks
  /\ Goto(graphIdx + 1, IF i # NumBits - 1 THEN i + 2 ELSE i + 1)

PassForward ==
  /\ Looping /\ Status \in {"forward0", "forward1"} /\ ForwardAgrees
  /\ SaveStacks
  /\ Goto(graphIdx + 2, IF i # NumBits - 1 THEN i + 2 ELSE i + 1)

Mismatch ==
  CASE Status = "zero" -> bit = 1
    [] Status \in {"back0", "back1"} ->
         \A w \in BackedgeTargets(edges, graphIdx) : ~BackedgeAgrees(w)
    [] Status \in {"forward0", "forward1"} -> ~ForwardAgrees
    [] OTHER -> FALSE

Reject ==
  /\ Looping /\ Mismatch
  /\ verdict' = "reject"
  /\ UNCHANGED <<fixed, graphIdx, i, stack, history, position>>

Accept ==
  /\ verdict = "none" /\ ~Looping
  /\ verdict' = "accept"
  /\ UNCHANGED <<fixed, graphIdx, i, stack, history, position>>

Step ==
  \/ PassMute
  \/ PassZero
  \/ PassBackedge
  \/ PassForward
  \/ Reject
  \/ Accept

=============================================================================
