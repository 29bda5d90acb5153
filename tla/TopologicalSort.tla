---------------------------- MODULE TopologicalSort ----------------------------
(***************************************************************************)
(* graph_topological_sort, called on the graph of a dot file before it is  *)
(* recognised.  A depth-first search from a source places each node, when  *)
(* it leaves it, before those it has left already.                         *)
(*                                                                         *)
(* The node k is the one that had the index k when it was read.            *)
(***************************************************************************)
EXTENDS DotFile

VARIABLES
  marked,                           \* TOPO_NODE.mark
  checkNext,                        \* TOPO_NODE.check_next, as a list
  stack,                            \* indexes, the top last
  ordered                           \* the end of ordered_nodes, as far as filled

searchVars == <<marked, checkNext, stack, ordered>>
vars == <<loaderVars, searchVars>>
mapVars == <<chains, bucketOf, numNodes>>

Init ==
  /\ LoaderInit
  /\ marked = {} /\ checkNext = g.out
  /\ stack = <<>> /\ ordered = <<>>

LoadGraph == (Read \/ Load) /\ UNCHANGED searchVars

(* The last node that no connection reaches, or the first of all *)
SourceIdx ==
  LET Sources == {k \in 0..(Len(g.nodes) - 1) : g.numIn[NodeAt(g, k)] = 0}
  IN  IF Sources = {} THEN 0 ELSE CHOOSE k \in Sources : \A j \in Sources : j <= k

(* Without a connection the file names no node *)
ReturnEmpty ==
  /\ phase = "loaded" /\ g.nodes = <<>>
  /\ phase' = "returned"
  /\ UNCHANGED <<g, mapVars, searchVars>>

Start ==
  /\ phase = "loaded" /\ g.nodes # <<>>
  /\ g' = IF SourceIdx = 0 THEN g ELSE Swap(g, NodeAt(g, 0), NodeAt(g, SourceIdx))
  /\ stack' = <<0>>
  /\ marked' = {NodeAt(g', 0)}
  /\ phase' = "searching"
  /\ checkNext' = g.out
  /\ UNCHANGED <<mapVars, ordered>>

Searching == phase = "searching" /\ stack # <<>>
Top == NodeAt(g, Last(stack))

(* The positions of the connections to nodes not met yet *)
Unmarked(v) == {j \in DOMAIN checkNext[v] : checkNext[v][j] \notin marked}

(* MUTANT: a node is marked when it is left *)
VisitUnmarked ==
  /\ Searching
  /\ \E j \in Unmarked(Top) :
       /\ \A k \in Unmarked(Top) : j <= k
       /\ stack' = Append(stack, g.idx[checkNext[Top][j]])
       /\ checkNext' = [checkNext EXCEPT ![Top] = SubSeq(@, j + 1, Len(@))]
  /\ UNCHANGED <<loaderVars, marked, ordered>>

Visit ==
  /\ Searching
  /\ \E j \in Unmarked(Top) :
       /\ \A k \in Unmarked(Top) : j <= k
       /\ marked' = marked \cup {checkNext[Top][j]}
       /\ stack' = Append(stack, g.idx[checkNext[Top][j]])
       /\ checkNext' = [checkNext EXCEPT ![Top] = SubSeq(@, j + 1, Len(@))]
  /\ UNCHANGED <<loaderVars, ordered>>

(* MUTANT: the array is filled from its start *)
LeaveForward ==
  /\ Searching /\ Unmarked(Top) = {}
  /\ ordered' = Append(ordered, Top)
  /\ stack' = Front(stack)
  /\ checkNext' = [checkNext EXCEPT ![Top] = <<>>]
  /\ UNCHANGED <<loaderVars, marked>>

Leave ==
  /\ Searching /\ Unmarked(Top) = {}
  /\ ordered' = Cons(Top, ordered)
  /\ stack' = Front(stack)
  /\ checkNext' = [checkNext EXCEPT ![Top] = <<>>]
  /\ UNCHANGED <<loaderVars, marked>>

(* The array is replaced and the indexes follow.  An entry that was not    *)
(* filled is a null pointer, which the loop over the indexes follows.      *)
Return ==
  /\ phase = "searching" /\ stack = <<>>
  /\ IF Len(ordered) < Len(g.nodes)
     THEN phase' = "crashed" /\ UNCHANGED g
     ELSE /\ phase' = "returned"
          /\ g' = [g EXCEPT !.nodes = ordered,
                            !.idx = [v \in NodeId |-> IF v \in ToSet(ordered)
                                                      THEN (CHOOSE k \in DOMAIN ordered :
                                                              ordered[k] = v) - 1
                                                      ELSE @[v]]]
  /\ UNCHANGED <<mapVars, searchVars>>

Rest == phase \in {"overrun", "returned", "crashed"} /\ UNCHANGED vars

Next == LoadGraph \/ ReturnEmpty \/ Start \/ Visit \/ Leave \/ Return \/ Rest

Spec == Init /\ [][Next]_vars

-----------------------------------------------------------------------------
(* The nodes that paths of the connections out lead to from v, v included: *)
(* those in every set that has v and, with each node, what it is connected *)
(* to                                                                      *)
Reached(out, v) ==
  {u \in NodeId : \A S \in SUBSET NodeId :
     v \in S /\ (\A x \in S : ToSet(out[x]) \subseteq S) => u \in S}

(* The nodes come out "topologically, ignoring back edges" (graph.h:71):   *)
(* in the order found, whatever that of the connections, only a connection *)
(* that closes a cycle goes to a node of lower index.                      *)
OnlyCyclesGoBack ==
  phase = "returned" =>
    \A v \in InGraph(g) : \A w \in ToSet(g.out[v]) :
      g.idx[w] <= g.idx[v] => v \in Reached(g.out, w)

(* Every node the search can reach is placed once, and the stack and the   *)
(* array have room for it; the sort fails exactly if there is a node that  *)
(* the source cannot reach (graph.c:178,195,203).                          *)
ReachedNodesArePlaced ==
  /\ Len(stack) <= Len(g.nodes) /\ Len(ordered) <= Len(g.nodes)
  /\ IsInjective(ordered)
  /\ phase \in {"returned", "crashed"} /\ g.nodes # <<>> =>
       /\ ToSet(ordered) = Reached(g.out, ordered[1])
       /\ phase = "returned" <=> Reached(g.out, ordered[1]) = InGraph(g)

=============================================================================
