----------------------------- MODULE BlockGrammar -----------------------------
(***************************************************************************)
(* What the encoder promises, said of the graph alone: a word of bits is   *)
(* written node by node as a sequence of structured blocks.  There are no  *)
(* stacks here.  The nodes that a backedge may reach are those that the    *)
(* blocks already closed leave open, and any of them may be chosen.        *)
(***************************************************************************)
EXTENDS FlowGraph, Sequences

VARIABLES
  length,                           \* of the whole word
  word,                             \* the bits written so far
  node,                             \* the next node
  edges, size                       \* the graph

grammarVars == <<length, word, node, edges, size>>

-----------------------------------------------------------------------------
(* v lies inside the forward edge that leaves its predecessor *)
InsideForward(E, v) == Connected(E, v - 1, v + 1)
AfterForward(E, v) == Connected(E, v - 2, v)

(* The backedges that close a repeat block; a while block is closed by the *)
(* backedge of the node inside a forward edge                              *)
RepeatEdges(E) == {e \in E : e[2] < e[1] /\ ~InsideForward(E, e[1])}

(* A node before v is open if it is inside no forward edge and within no   *)
(* repeat block, the two ends of the block included                        *)
OpenNodes(E, v) ==
  {w \in 0..(v - 1) :
     /\ ~InsideForward(E, w)
     /\ \A e \in RepeatEdges(E) : w \notin e[2]..e[1]}

(* The destinations that give the backedge of v the value b: a bit is the  *)
(* parity of the backedge's length.  No two consecutive nodes go back.     *)
Destinations(E, v, b) ==
  IF HasBackedge(E, v - 1) THEN {}
  ELSE {w \in OpenNodes(E, v) : (v - w) % 2 = b}

-----------------------------------------------------------------------------
GrammarInit ==
  /\ length \in Nat \ {0}
  /\ word = <<1>>
  /\ node = 1
  /\ edges = HamiltonianPath(length + 2)
  /\ size = length + 2

Write(b) ==
  /\ Len(word) < length
  /\ ~AfterForward(edges, node)
  /\ word' = Append(word, b)
  /\ node' = node + 1
  /\ UNCHANGED length

(* The node where the branches of a forward edge meet carries no bit *)
Join ==
  /\ AfterForward(edges, node)
  /\ node' = node + 1
  /\ UNCHANGED <<length, word, edges, size>>

Repeat ==
  /\ ~InsideForward(edges, node)
  /\ \E b \in {0, 1} : \E w \in Destinations(edges, node, b) :
       /\ Write(b)
       /\ edges' = edges \cup {<<node, w>>}
  /\ UNCHANGED size

Open ==
  /\ ~InsideForward(edges, node)
  /\ Destinations(edges, node, 1) = {}
  /\ Write(1)
  /\ edges' = edges \cup {<<size - 1, size>>, <<node, node + 2>>}
  /\ size' = size + 1

CloseWhile ==
  /\ InsideForward(edges, node)
  /\ Write(1)
  /\ edges' = (edges \cup {<<node, node - 1>>}) \ {<<node, node + 1>>}
  /\ UNCHANGED size

CloseIf ==
  /\ InsideForward(edges, node)
  /\ Write(0)
  /\ UNCHANGED <<edges, size>>

Straight ==
  /\ ~InsideForward(edges, node)
  /\ Destinations(edges, node, 0) = {}
  /\ Write(0)
  /\ UNCHANGED <<edges, size>>

GrammarNext == Join \/ Repeat \/ Open \/ CloseWhile \/ CloseIf \/ Straight

GrammarSpec == GrammarInit /\ [][GrammarNext]_grammarVars

-----------------------------------------------------------------------------
(* The blocks of a graph: forward edges span one node and do not overlap;  *)
(* the node inside one is entered from its start alone and left to the     *)
(* start (while) or to the end (if) alone; no node has two backedges, and  *)
(* of two backedges one encloses the other or they lie apart.              *)
ForwardStarts(E) == {e[1] : e \in {f \in E : f[2] > f[1] + 1}}
BackedgesOf(E) == {e \in E : e[2] <= e[1]}

WellNested(E) ==
  /\ \A v \in ForwardStarts(E) :
       /\ Successors(E, v) = {v + 1, v + 2}
       /\ Predecessors(E, v + 1) = {v}
       /\ Successors(E, v + 1) \in {{v}, {v + 2}}
       /\ ForwardStarts(E) \cap {v + 1, v + 2} = {}
  /\ \A e, f \in BackedgesOf(E) :
       e # f => /\ e[1] # f[1]
                /\ e[1] < f[1] => f[2] <= e[2] \/ f[2] > e[1]
  /\ \A e, f \in RepeatEdges(E) : e # f => e[2] # f[2]

=============================================================================
